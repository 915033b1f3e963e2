------------------------------ MODULE BotText -------------------------------
(***************************************************************************)
(* What the bot makes of a text it wants to say: Bot::clipTrailing() and   *)
(* Bot::sendText(), in the channel of ModeCommand or to a client.          *)
(***************************************************************************)
EXTENDS ModeCommand

CONSTANTS
    BotPrefixes,    \* what getClientPrefix() of the bot can be
    Sayings         \* texts it wants to say

(* Nick, user and host, which are constants of the code; text of a line.   *)
ASSUME BotAssumption ==
    /\ \A prefix \in BotPrefixes :
          /\ prefix \in Seq(STRING) /\ prefix # <<>>
          /\ \A i \in DOMAIN prefix : prefix[i] # Space
    /\ Sayings \subseteq Seq(STRING)

(* The colon before the prefix, three spaces, the colon before the text    *)
(* and the terminator.                                                     *)
OverheadShort(prefix, command, target) ==
    Len(prefix) + Len(command) + Len(target) + 6

Overhead(prefix, command, target) ==
    Len(prefix) + Len(command) + Len(target) + 7

clipTrailing(prefix, command, target, text) ==
    LET overhead == Overhead(prefix, command, target)
    IN  IF overhead >= MaxLine THEN <<>>
        ELSE SubSeq(text, 1, Min({Len(text), MaxLine - overhead}))

(* The line, none, or an exception that ends the asker's connection.       *)
Silence == <<"silence">>

sendText(prefix, command, target, text) ==
    LET clipped == clipTrailing(prefix, command, target, text)
    IN  IF clipped = <<>> THEN Silence
        ELSE serialize(prefix, command, <<target, clipped>>, TRUE)

-----------------------------------------------------------------------------
(* The line never throws; its reader, as MessageParser reads it, finds the *)
(* text in it whole, or as much of it as a line can hold; and the bot is   *)
(* silent only when there is no text or no room for a single character.    *)
AnswerFits(target) ==
    \A prefix \in BotPrefixes, text \in Sayings :
        LET command == <<"P", "R", "I", "V", "M", "S", "G">>
            line == sendText(prefix, command, target, text)
            heard == params(SubSeq(line, 1, Len(line) - 2))
        IN  IF line = Silence
            THEN \/ text = <<>>
                 \/ serialize(prefix, command, <<target, <<Head(text)>>>>, TRUE)
                       = Throws
            ELSE /\ line # Throws
                 /\ heard[1] = target /\ Len(heard) = 2
                 /\ IsPrefix(heard[2], text)
                 /\ heard[2] # text => Len(line) = MaxLine

Answered ==
    [target \in {Nick[c] : c \in Clients} \cup {Channel} |-> AnswerFits(target)]

(* Whatever the bot says in the channel or to one of its members is a line *)
(* that carries as much of it as fits (clipTrailing, sendText).            *)
AnswersFit == Answered[Channel] /\ \A c \in members : Answered[Nick[c]]
=============================================================================
