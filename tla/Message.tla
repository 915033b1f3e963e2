------------------------------ MODULE Message -------------------------------
(***************************************************************************)
(* The text form of an IRC message: MessageParser::parse() and             *)
(* IrcMessage::serialize().  A text is a sequence of characters, each a    *)
(* string of length one; CR and LF cannot occur inside a line here, as     *)
(* Client::extractNextLine() splits there, nor NUL.                        *)
(***************************************************************************)
EXTENDS Naturals, Sequences, FiniteSetsExt, SequencesExt

CONSTANTS
    MaxLine,        \* IRC_MAX_MESSAGE_LENGTH
    Terminator      \* CR and LF

ASSUME LineAssumption ==
    MaxLine \in Nat /\ Terminator \in Seq(STRING) /\ Len(Terminator) = 2

(* The elements of a set of positions from the first to the last.          *)
Rank(S, i) == Cardinality({j \in S : j <= i})

InOrder(S) ==
    [n \in 1..Cardinality(S) |-> CHOOSE i \in S : Rank(S, i) = n]

(* Not the text of anything: an exception instead of a result.             *)
Throws == <<>>

-----------------------------------------------------------------------------
(* parse()                                                                 *)

Space == " "

(* Where the words of a line begin, and the word that begins at a place.   *)
Starts(line) ==
    {i \in DOMAIN line : line[i] # Space /\ (i = 1 \/ line[i - 1] = Space)}

Word(line, i) ==
    LET spaces == {j \in i..Len(line) : line[j] = Space}
    IN  SubSeq(line, i, IF spaces = {} THEN Len(line) ELSE Min(spaces) - 1)

HasPrefix(line) == Starts(line) # {} /\ line[Min(Starts(line))] = ":"

(* The first word is the command, or the second when there is a prefix.    *)
CommandAt(line) ==
    IF HasPrefix(line) THEN Starts(line) \ {Min(Starts(line))} ELSE Starts(line)

Parses(line) == CommandAt(line) # {}

(* The first word after the command that starts with a colon is, without   *)
(* the colon, the last parameter and extends to the end of the line.       *)
params(line) ==
    LET words == CommandAt(line) \ {Min(CommandAt(line))}
        colons == {i \in words : line[i] = ":"}
        middle == IF colons = {} THEN words
                  ELSE {i \in words : i < Min(colons)}
        order == InOrder(middle)
    IN  [n \in DOMAIN order |-> Word(line, order[n])]
           \o (IF colons = {} THEN <<>>
               ELSE <<SubSeq(line, Min(colons) + 1, Len(line))>>)

-----------------------------------------------------------------------------
(* serialize()                                                             *)

(* What a parameter must be if others follow it.                           *)
IsMiddle(text) ==
    text # <<>> /\ text[1] # ":" /\ \A i \in DOMAIN text : text[i] # Space

(* The last parameter is marked with a colon when it needs that or when    *)
(* the message says so, and is then free of restrictions.                  *)
Written(texts, trailing, n) ==
    IF n = Len(texts) /\ (trailing \/ ~IsMiddle(texts[n]))
    THEN <<Space, ":">> \o texts[n]
    ELSE <<Space>> \o texts[n]

Unwritable(texts) == \E n \in 1..(Len(texts) - 1) : ~IsMiddle(texts[n])

(* The line that a message is, too long or not.                            *)
LineOf(prefix, command, texts, trailing) ==
    LET parts == [n \in DOMAIN texts |-> Written(texts, trailing, n)]
    IN  (IF prefix = <<>> THEN <<>> ELSE <<":">> \o prefix \o <<Space>>)
           \o command \o FlattenSeq(parts) \o Terminator

serialize(prefix, command, texts, trailing) ==
    LET line == LineOf(prefix, command, texts, trailing)
    IN  IF Unwritable(texts) \/ Len(line) > MaxLine THEN Throws ELSE line

=============================================================================
