--------------------------- MODULE MCModeCommand ----------------------------
(* Instances of ModeCommand and BotText for TLC: two clients, of whom one  *)
(* need not be in the channel.                                             *)
EXTENDS BotText

Eol == <<"CR", "LF">>

Empty == <<>>

People == {"ann", "bob"}

Nicks == [c \in People |-> IF c = "ann" THEN <<"A">> ELSE <<"[">>]

Room == <<"#", "r">>

Host == <<"h">>

(* Nicknames in either spelling, one of nobody; limits with a leading      *)
(* zero, zero, the greatest and the first that is too great.               *)
Names == {<<"a">>, <<"{">>, <<"b">>}

Numbers == {<<"0", "7">>, <<"0">>, <<"2", "5">>, <<"2", "6">>, <<"2", "9">>,
            <<"2", "x">>}

Keys == {<<"0", "7">>}

(* Texts that only a last parameter can be, with the colon it needs.       *)
Phrases == {<<":", ":", "k">>, <<":", "k", " ", "k">>}

Asking == <<"M", "O", "D", "E", " ", "#", "r">>

Ask(flags, arguments) ==
    Asking \o <<" ">> \o flags \o
        FlattenSeq([n \in DOMAIN arguments |-> <<" ">> \o arguments[n]])

Plain == {<<"i">>, <<"t">>, <<"+">>, <<"k">>, <<"l">>, <<"o">>, <<"+", "i">>,
          <<"-", "i">>, <<"-", "t">>, <<"-", "k">>, <<"-", "l">>,
          <<"-", "i", "+", "t">>, <<"+", "t", "-", "i">>, <<"i", "t", "x">>,
          <<"t", "i", "-", "k", "l">>}

ChangeLines ==
    {Ask(flags, <<>>) : flags \in Plain}
  \cup {Ask(flags, <<name>>) : name \in Names,
           flags \in {<<"o">>, <<"-", "o">>, <<"-", "i", "o">>, <<"o", "x">>}}
  \cup {Ask(<<"-", "o", "+", "o">>, <<first, second>>) : first, second \in Names}
  \cup {Ask(flags, <<number>>) : number \in Numbers,
           flags \in {<<"l">>, <<"-", "t", "+", "l">>, <<"l", "-", "l">>}}
  \cup {Ask(flags, <<key>>) : key \in Keys \cup Phrases,
           flags \in {<<"k">>, <<"i", "k">>, <<"k", "-", "k">>}}
  \cup {Ask(<<"k", "l">>, <<key, number>>) : key \in Keys, number \in Numbers}
  \cup {Ask(<<"l", "k">>, <<number, key>>) :
           number \in Numbers, key \in Keys \cup Phrases}
  \cup {Ask(<<"k", "o", "l">>, <<key, name, number>>) :
           key \in Keys, name \in Names, number \in Numbers}
  \cup {Ask(<<"o">>, <<phrase>>) : phrase \in Phrases}

OtherLines ==
    {Asking, Asking \o <<" ", ":">>, SubSeq(Asking, 1, 4),
     SubSeq(Asking, 1, 5) \o <<":">>, SubSeq(Asking, 1, 6) \o <<"x">>,
     SubSeq(Asking, 1, 5) \o <<":", "#", "x", " ", "x">>,
     Ask(<<":", "i", " ", "t">>, <<>>)}

AllLines == ChangeLines \cup OtherLines

(* What two clients who set keys and limits and grant rights send.         *)
FewLines ==
    {Asking} \cup {Ask(<<"k">>, <<key>>) : key \in Keys \cup Phrases}
       \cup {Ask(<<"l">>, <<number>>) : number \in Numbers}
       \cup {Ask(<<"o">>, <<name>>) : name \in Names}

(* What the bot says: texts and prefixes of the lengths around those at    *)
(* which a line is full.                                                   *)
Repeat(ch, n) == [i \in 1..n |-> ch]

BotNames == {Repeat("p", n) : n \in 76..90}

Texts == {Repeat("x", n) : n \in 0..10}
            \cup {<<" ", "x">>, <<":">>, <<":", " ", "x">>, <<" ">>}

=============================================================================
