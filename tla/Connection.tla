----------------------------- MODULE Connection -----------------------------
(***************************************************************************)
(* One client's connection: the bytes its peer sends, cut into lines by    *)
(* Client::extractNextLine(), and the lines that queueMessage() puts into  *)
(* its output buffer, sent when poll() reports room.                       *)
(*                                                                         *)
(* What the peer will send is one stream, of which each recv() takes a     *)
(* piece of any length.  What a command does is left out: it queues lines, *)
(* to this client or to others, or it ends the connection.  Bytes queued   *)
(* are numbered, so that the order of what arrives can be told.            *)
(***************************************************************************)
EXTENDS Naturals, Sequences, FiniteSetsExt

CONSTANTS
    Bytes,          \* what a byte can be
    CR, LF,         \* the bytes of a terminator
    Streams,        \* what a peer may send
    MaxLine,        \* IRC_MAX_MESSAGE_LENGTH
    MaxChunk,       \* Constants::RECEIVE_BUFFER_SIZE
    MaxInput,       \* IRC_MAX_INPUT_BUFFER_SIZE
    MaxSend,        \* Constants::MAX_SEND_SIZE
    MaxOutput,      \* IRC_MAX_OUTPUT_BUFFER_SIZE
    Window,         \* what the kernel takes for a peer that does not read
    Sizes,          \* the lengths of the lines that are queued
    MaxSaid         \* bound: no line is queued after so many bytes

(* 511 + 4096 <= 8192: what is kept of an unfinished line and what one     *)
(* recv() brings fit together.                                             *)
ASSUME InputAssumption ==
    /\ CR # LF /\ Streams \subseteq Seq(Bytes)
    /\ MaxLine \in Nat \ {0} /\ MaxChunk \in Nat \ {0} /\ MaxInput \in Nat
    /\ (MaxLine - 1) + MaxChunk <= MaxInput

ASSUME OutputAssumption ==
    /\ MaxSend \in Nat \ {0} /\ Window \in Nat \ {0}
    /\ MaxOutput \in Nat /\ MaxSaid \in Nat
    /\ Sizes \subseteq 1..MaxLine

VARIABLES
    phase,          \* where the event loop is with this client
    requested,      \* "no", or the reason of requestDisconnect()
    stream,         \* all that the peer will send
    taken,          \* how much of it recv() has returned
    inputBuffer,    \* Client::inputBuffer
    extracted,      \* the lines extracted, with the place of their LF
    said,           \* the bytes queued
    outputBuffer,   \* Client::outputBuffer
    pollout,        \* POLLOUT is among the client's events
    kernel,         \* bytes sent that the peer has not read
    received        \* bytes the peer has read

input == <<stream, taken, inputBuffer, extracted>>
output == <<said, outputBuffer, pollout, kernel, received>>
vars == <<phase, requested, input, output>>

Init ==
    /\ phase = "idle" /\ requested = "no"
    /\ stream \in Streams
    /\ taken = 0 /\ inputBuffer = <<>> /\ extracted = <<>>
    /\ said = <<>> /\ outputBuffer = <<>> /\ pollout = FALSE
    /\ kernel = <<>> /\ received = <<>>

(* requestDisconnect(): the first reason stays.                            *)
Request(reason) ==
    requested' = IF requested = "no" THEN reason ELSE requested

-----------------------------------------------------------------------------
(* Input.                                                                  *)

(* receiveClientData(), and the test at the head of processClientBuffer(). *)
Receive(n) ==
    /\ phase = "idle"
    /\ n <= Len(stream) - taken
    /\ taken' = taken + n
    /\ IF Len(inputBuffer) + n > MaxInput
       THEN Request("input") /\ phase' = "drop" /\ UNCHANGED inputBuffer
       ELSE /\ inputBuffer' = inputBuffer \o SubSeq(stream, taken + 1, taken + n)
            /\ phase' = IF requested = "no" THEN "lines" ELSE "drop"
            /\ UNCHANGED requested
    /\ UNCHANGED <<stream, extracted, output>>

(* The places of LF, and of the first.                                     *)
Newlines(bytes) == {i \in DOMAIN bytes : bytes[i] = LF}

newlinePos == Min(Newlines(inputBuffer))

Consumed == IF extracted = <<>> THEN 0 ELSE extracted[Len(extracted)].last

(* The bytes from one place to another, without a CR at the end.           *)
Content(bytes, first, last) ==
    SubSeq(bytes, first,
           IF last >= first /\ bytes[last] = CR THEN last - 1 ELSE last)

Line == Content(inputBuffer, 1, newlinePos - 1)

Rest(bytes, n) == SubSeq(bytes, n + 1, Len(bytes))

PendingTooLongLate ==
    Newlines(inputBuffer) = {} /\ Len(inputBuffer) > MaxLine

PendingTooLong ==
    Newlines(inputBuffer) = {} /\ Len(inputBuffer) > MaxLine - 1

CompleteTooLong == Newlines(inputBuffer) # {} /\ newlinePos > MaxLine

(* LINE_INCOMPLETE                                                         *)
LineIncomplete ==
    /\ phase = "lines"
    /\ Newlines(inputBuffer) = {} /\ ~PendingTooLong
    /\ phase' = "idle"
    /\ UNCHANGED <<requested, input, output>>

(* LINE_TOO_LONG                                                           *)
LineTooLong ==
    /\ phase = "lines"
    /\ PendingTooLong \/ CompleteTooLong
    /\ inputBuffer' = IF PendingTooLong THEN <<>>
                      ELSE Rest(inputBuffer, newlinePos)
    /\ Request("line") /\ phase' = "drop"
    /\ UNCHANGED <<stream, taken, extracted, output>>

(* queueMessage() of a line of so many bytes.  serialize() returns none    *)
(* that are longer than MaxLine.                                           *)
Numbered(n) == [i \in 1..n |-> Len(said) + i]

QueueThenCheck(n) ==
    /\ said' = said \o Numbered(n)
    /\ outputBuffer' = outputBuffer \o Numbered(n)
    /\ pollout' = TRUE
    /\ IF Len(outputBuffer) + n > MaxOutput THEN Request("output")
       ELSE UNCHANGED requested
    /\ UNCHANGED <<kernel, received>>

QueueUnpolled(n) ==
    IF Len(outputBuffer) + n > MaxOutput
    THEN Request("output") /\ UNCHANGED output
    ELSE /\ said' = said \o Numbered(n)
         /\ outputBuffer' = outputBuffer \o Numbered(n)
         /\ UNCHANGED <<requested, pollout, kernel, received>>

Queue(n) ==
    IF Len(outputBuffer) + n > MaxOutput
    THEN Request("output") /\ UNCHANGED output
    ELSE /\ said' = said \o Numbered(n)
         /\ outputBuffer' = outputBuffer \o Numbered(n)
         /\ pollout' = TRUE
         /\ UNCHANGED <<requested, kernel, received>>

(* LINE_COMPLETE, and what becomes of the line.                            *)
ExtractLineLeavingLF ==
    /\ phase = "lines"
    /\ Newlines(inputBuffer) # {} /\ ~CompleteTooLong
    /\ extracted' = Append(extracted, [text |-> Line,
                                       last |-> Consumed + newlinePos])
    /\ inputBuffer' = Rest(inputBuffer, Len(Line) + 1)
    /\ UNCHANGED <<stream, taken>>

ExtractLine ==
    /\ phase = "lines"
    /\ Newlines(inputBuffer) # {} /\ ~CompleteTooLong
    /\ extracted' = Append(extracted, [text |-> Line,
                                       last |-> Consumed + newlinePos])
    /\ inputBuffer' = Rest(inputBuffer, newlinePos)
    /\ UNCHANGED <<stream, taken>>

(* An empty line, one that is no message, or a command that says nothing.  *)
TakeLine == ExtractLine /\ UNCHANGED <<phase, requested, output>>

AnswerLine(n) ==
    /\ ExtractLine
    /\ Line # <<>> /\ Len(said) < MaxSaid
    /\ Queue(n)
    /\ phase' = IF requested' = "no" THEN "lines" ELSE "drop"

(* QUIT, or a handler that throws.                                         *)
EndByLine ==
    /\ ExtractLine
    /\ Line # <<>>
    /\ Request("command") /\ phase' = "drop"
    /\ UNCHANGED output

-----------------------------------------------------------------------------
(* Output.                                                                 *)

(* A command of another client queues a line to this one.                  *)
Hear(n) ==
    /\ phase = "idle" /\ Len(said) < MaxSaid
    /\ requested = "no"
    /\ Queue(n)
    /\ UNCHANGED <<phase, input>>

removeAsked(n) == Rest(outputBuffer, MaxSend)

removeSentOutput(n) == Rest(outputBuffer, n)

(* flushClientOutput() and updateClientPollEvents().                       *)
Send(n) ==
    /\ phase = "idle" /\ pollout
    /\ n <= Len(outputBuffer) /\ n <= MaxSend /\ Len(kernel) + n <= Window
    /\ kernel' = kernel \o SubSeq(outputBuffer, 1, n)
    /\ outputBuffer' = removeSentOutput(n)
    /\ pollout' = (outputBuffer' # <<>>)
    /\ UNCHANGED <<phase, requested, input, said, received>>

Flush == \E n \in 1..MaxSend : Send(n)

PeerReads ==
    \E n \in 1..Len(kernel) :
        /\ received' = received \o SubSeq(kernel, 1, n)
        /\ kernel' = Rest(kernel, n)
        /\ UNCHANGED <<phase, requested, input, said, outputBuffer, pollout>>

-----------------------------------------------------------------------------
(* The end.                                                                *)

(* The peer closes, or recv() or send() fails.                             *)
Lose ==
    /\ phase = "idle"
    /\ Request("lost") /\ phase' = "drop"
    /\ UNCHANGED <<input, output>>

(* disconnectClient(), at once or by the sweep that ends the round.        *)
Disconnect ==
    /\ phase = "drop" \/ (phase = "idle" /\ requested # "no")
    /\ phase' = "closed"
    /\ inputBuffer' = <<>> /\ outputBuffer' = <<>> /\ pollout' = FALSE
    /\ UNCHANGED <<requested, stream, taken, extracted, said, kernel, received>>

(* A turn of the loop in processClientBuffer().                            *)
NextLine ==
    \/ LineIncomplete \/ LineTooLong \/ TakeLine \/ EndByLine
    \/ \E n \in Sizes : AnswerLine(n)

Next ==
    \/ \E n \in 1..MaxChunk : Receive(n)
    \/ NextLine
    \/ \E n \in Sizes : Hear(n)
    \/ Flush \/ PeerReads
    \/ Lose \/ Disconnect

(* The thread goes on taking lines from the buffer, poll() reports room    *)
(* for output, and the peer reads.                                         *)
Fairness ==
    WF_vars(NextLine) /\ WF_vars(Flush) /\ WF_vars(PeerReads)

Spec == Init /\ [][Next]_vars /\ Fairness

-----------------------------------------------------------------------------
(* Properties.                                                             *)

Phases == {"idle", "lines", "drop", "closed"}

Reasons == {"line", "input", "command", "output", "lost"}

InputTypes ==
    /\ stream \in Streams /\ taken \in 0..Len(stream)
    /\ inputBuffer \in Seq(Bytes) /\ Len(inputBuffer) <= MaxInput
    /\ extracted \in Seq([text : Seq(Bytes), last : Nat])

OutputTypes ==
    /\ said \in Seq(Nat) /\ received \in Seq(Nat)
    /\ outputBuffer \in Seq(Nat) /\ Len(outputBuffer) <= MaxOutput
    /\ kernel \in Seq(Nat) /\ Len(kernel) <= Window
    /\ pollout \in BOOLEAN

(* Every variable has its type, and no buffer exceeds its limit.           *)
TypeOK ==
    /\ phase \in Phases /\ requested \in {"no"} \cup Reasons
    /\ InputTypes /\ OutputTypes

(* Where the n-th line begins.                                             *)
First(n) == IF n = 1 THEN 1 ELSE extracted[n - 1].last + 1

NoNewline(first, last) == \A i \in first..last : stream[i] # LF

IsLine(line, first) ==
    /\ line.last \in DOMAIN stream /\ stream[line.last] = LF
    /\ NoNewline(first, line.last - 1)
    /\ line.last - first < MaxLine
    /\ line.text = Content(stream, first, line.last - 1)

(* In whatever pieces the stream arrives, the lines extracted are what it  *)
(* holds between one LF and the next, without the CR before it             *)
(* (extractNextLine, processClientBuffer).                                 *)
LinesAsSent == \A n \in DOMAIN extracted : IsLine(extracted[n], First(n))

(* When the server waits for input again no line that has arrived is left  *)
(* unextracted.  A client is told of an overlong line exactly when MaxLine *)
(* bytes without a LF have arrived, in whatever pieces, and of an overfull *)
(* input buffer never.                                                     *)
VerdictByContent ==
    LET Overlong == /\ taken - Consumed >= MaxLine
                    /\ NoNewline(Consumed + 1, Consumed + MaxLine)
    IN  /\ requested # "input"
        /\ requested = "line" => Overlong
        /\ phase = "idle" /\ requested = "no" =>
              ~Overlong /\ NoNewline(Consumed + 1, taken)

(* What is queued reaches the peer in order, unbroken.                     *)
Stream == INSTANCE Pipe WITH put <- said, got <- received

DeliversInOrder == Stream!Spec

(* Whatever is queued is read by a peer that reads, unless the connection  *)
(* is to be closed.                                                        *)
Delivered ==
    \A n \in 1..(MaxSaid + MaxLine) :
        Len(said) >= n ~> Len(received) >= n \/ requested # "no"
=============================================================================
