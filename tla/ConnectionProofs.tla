-------------------------- MODULE ConnectionProofs --------------------------
(***************************************************************************)
(* The properties of Connection for streams, limits and windows of any     *)
(* size.  Input and output are proved separately: Framed relates what has  *)
(* been extracted and what is buffered to the stream, Accounted says where *)
(* every byte that was queued is.                                          *)
(***************************************************************************)
EXTENDS Connection, SequenceTheorems, WellFoundedInduction, TLAPS

-----------------------------------------------------------------------------
(* Positions in a sequence.                                                *)

(* A set of places has a first one.                                        *)
LEMMA Least ==
    ASSUME NEW S, S \subseteq Nat, S # {}
    PROVE  Min(S) \in S /\ \A i \in S : Min(S) <= i
<1>1. PICK m \in S : \A i \in S : ~(<<i, m>> \in OpToRel(<, Nat))
  BY NatLessThanWellFounded, WFMin
<1>2. \A i \in S : m <= i
  <2> TAKE i \in S
  <2>1. i \in Nat /\ m \in Nat
    OBVIOUS
  <2>2. ~(i < m)
    BY <1>1, <2>1 DEF OpToRel
  <2> QED
    BY <2>1, <2>2
<1> QED
  BY <1>2 DEF Min

(* A piece of a piece.                                                     *)
LEMMA Piece ==
    ASSUME NEW s \in Seq(Bytes), NEW a \in Nat, NEW b \in Nat,
           a <= b, b <= Len(s), NEW k \in 0..(b - a)
    PROVE  /\ SubSeq(SubSeq(s, a + 1, b), 1, k) = SubSeq(s, a + 1, a + k)
           /\ SubSeq(SubSeq(s, a + 1, b), k + 1, b - a) = SubSeq(s, a + k + 1, b)
OBVIOUS

(* Newlines(), and where the first of them is.                             *)
LEMMA FirstNewline ==
    ASSUME NEW bytes \in Seq(Bytes), Newlines(bytes) # {}
    PROVE  /\ Min(Newlines(bytes)) \in 1..Len(bytes)
           /\ bytes[Min(Newlines(bytes))] = LF
           /\ \A i \in 1..(Min(Newlines(bytes)) - 1) : bytes[i] # LF
<1>1. Newlines(bytes) \subseteq 1..Len(bytes) /\ Newlines(bytes) \subseteq Nat
  BY DEF Newlines
<1>2. /\ Min(Newlines(bytes)) \in Newlines(bytes)
      /\ \A i \in Newlines(bytes) : Min(Newlines(bytes)) <= i
  BY <1>1, Least
<1>3. Min(Newlines(bytes)) \in 1..Len(bytes) /\ bytes[Min(Newlines(bytes))] = LF
  BY <1>1, <1>2 DEF Newlines
<1>4. ASSUME NEW i \in 1..(Min(Newlines(bytes)) - 1) PROVE bytes[i] # LF
  <2>1. i \notin Newlines(bytes)
    BY <1>2, <1>3
  <2> QED
    BY <1>3, <2>1 DEF Newlines
<1> QED
  BY <1>3, <1>4

LEMMA RestType ==
    ASSUME NEW S, NEW bytes \in Seq(S), NEW n \in 0..Len(bytes)
    PROVE  /\ Rest(bytes, n) \in Seq(S)
           /\ Len(Rest(bytes, n)) = Len(bytes) - n
           /\ \A i \in 1..(Len(bytes) - n) : Rest(bytes, n)[i] = bytes[n + i]
BY DEF Rest

-----------------------------------------------------------------------------
(* Types.                                                                  *)

LEMMA Limits ==
    /\ MaxInput \in Nat /\ MaxChunk \in Nat /\ MaxOutput \in Nat
    /\ MaxSend \in Nat /\ Window \in Nat /\ MaxLine \in Nat \ {0}
    /\ MaxLine - 1 + MaxChunk <= MaxInput
    /\ \A n \in Sizes : n \in Nat
BY InputAssumption, OutputAssumption

LEMMA StreamType == InputTypes => stream \in Seq(Bytes)
BY InputAssumption DEF InputTypes

LEMMA ConsumedType == InputTypes => Consumed \in Nat
<1>1. ASSUME InputTypes, extracted # <<>>
      PROVE  extracted[Len(extracted)].last \in Nat
  <2>1. extracted \in Seq([text : Seq(Bytes), last : Nat])
    BY <1>1 DEF InputTypes
  <2>2. Len(extracted) \in Nat \ {0}
    BY <1>1, <2>1, EmptySeq
  <2>3. Len(extracted) \in 1..Len(extracted)
    BY <2>2
  <2>4. extracted[Len(extracted)] \in [text : Seq(Bytes), last : Nat]
    BY <2>1, <2>3, ElementOfSeq
  <2> QED
    BY <2>4
<1> QED
  BY <1>1 DEF Consumed

LEMMA TypeInit == Init => TypeOK
<1> SUFFICES ASSUME Init PROVE TypeOK
  OBVIOUS
<1>1. InputTypes
  <2>1. stream \in Streams /\ stream \in Seq(Bytes) /\ taken = 0
        /\ inputBuffer = <<>> /\ extracted = <<>>
    BY InputAssumption DEF Init
  <2> QED
    BY <2>1, Limits DEF InputTypes
<1>2. OutputTypes
  <2>1. said = <<>> /\ outputBuffer = <<>> /\ pollout = FALSE
        /\ kernel = <<>> /\ received = <<>>
    BY DEF Init
  <2>2. pollout \in BOOLEAN
    BY <2>1
  <2>3. 0 <= MaxOutput /\ 0 <= Window
    BY Limits
  <2> QED
    BY <2>1, <2>2, <2>3 DEF OutputTypes
<1> QED
  BY <1>1, <1>2 DEF Init, TypeOK, Phases

LEMMA NumberedType ==
    ASSUME OutputTypes, NEW n \in Nat
    PROVE  Numbered(n) \in Seq(Nat) /\ Len(Numbered(n)) = n
BY DEF Numbered, OutputTypes

LEMMA QueueType ==
    ASSUME OutputTypes, NEW n \in Sizes, Queue(n)
    PROVE  OutputTypes' /\ requested' \in {requested, "output"}
<1>1. Numbered(n) \in Seq(Nat) /\ Len(Numbered(n)) = n /\ n \in Nat
  BY NumberedType, Limits
<1>2. CASE Len(outputBuffer) + n > MaxOutput
  BY <1>2 DEF Queue, Request, OutputTypes, output
<1>3. CASE ~(Len(outputBuffer) + n > MaxOutput)
  <2>1. /\ said' = said \o Numbered(n)
        /\ outputBuffer' = outputBuffer \o Numbered(n)
        /\ pollout' = TRUE
        /\ UNCHANGED <<requested, kernel, received>>
    BY <1>3 DEF Queue
  <2>2. said' \in Seq(Nat) /\ outputBuffer' \in Seq(Nat)
        /\ Len(outputBuffer') <= MaxOutput
    BY <1>1, <1>3, <2>1, Limits DEF OutputTypes
  <2>3. pollout' \in BOOLEAN
    BY <2>1
  <2> QED
    BY <2>1, <2>2, <2>3 DEF OutputTypes
<1> QED
  BY <1>2, <1>3

LEMMA ExtractType ==
    ASSUME InputTypes, ExtractLine
    PROVE  InputTypes'
<1>1. inputBuffer \in Seq(Bytes) /\ Newlines(inputBuffer) # {}
  BY DEF InputTypes, ExtractLine
<1>2. newlinePos \in 1..Len(inputBuffer)
  BY <1>1, FirstNewline DEF newlinePos
<1>3. Line \in Seq(Bytes)
  BY <1>1, <1>2 DEF Line, Content
<1>4. Consumed + newlinePos \in Nat
  BY <1>2, ConsumedType
<1>5. [text |-> Line, last |-> Consumed + newlinePos]
         \in [text : Seq(Bytes), last : Nat]
  BY <1>3, <1>4
<1>6. extracted' \in Seq([text : Seq(Bytes), last : Nat])
  <2> DEFINE S == [text : Seq(Bytes), last : Nat]
  <2>1. extracted \in Seq(S)
    BY DEF InputTypes
  <2>2. PICK e \in S : extracted' = Append(extracted, e)
    BY <1>5 DEF ExtractLine
  <2> HIDE DEF S
  <2>3. extracted' \in Seq(S)
    BY <2>1, <2>2
  <2> QED
    BY <2>3 DEF S
<1>7. inputBuffer' \in Seq(Bytes) /\ Len(inputBuffer') <= MaxInput
  <2>1. inputBuffer' = Rest(inputBuffer, newlinePos)
    BY DEF ExtractLine
  <2>2. Len(inputBuffer) <= MaxInput /\ Len(inputBuffer) \in Nat
    BY <1>1 DEF InputTypes
  <2> QED
    BY <1>1, <1>2, <2>1, <2>2, RestType, Limits
<1> QED
  BY <1>6, <1>7 DEF ExtractLine, InputTypes

LEMMA ReceiveType ==
    ASSUME InputTypes, NEW n \in 1..MaxChunk, Receive(n)
    PROVE  InputTypes' /\ requested' \in {requested, "input"}
           /\ phase' \in {"lines", "drop"}
<1>1. n \in Nat /\ taken' \in 0..Len(stream) /\ taken' = taken + n
  BY StreamType, Limits DEF Receive, InputTypes
<1>2. CASE Len(inputBuffer) + n > MaxInput
  BY <1>1, <1>2 DEF Receive, Request, InputTypes
<1>3. CASE ~(Len(inputBuffer) + n > MaxInput)
  <2>1. /\ SubSeq(stream, taken + 1, taken + n) \in Seq(Bytes)
        /\ Len(SubSeq(stream, taken + 1, taken + n)) = n
    BY <1>1, StreamType DEF InputTypes
  <2>2. inputBuffer' = inputBuffer \o SubSeq(stream, taken + 1, taken + n)
        /\ requested' = requested /\ phase' \in {"lines", "drop"}
    BY <1>3 DEF Receive
  <2>3. inputBuffer' \in Seq(Bytes) /\ Len(inputBuffer') <= MaxInput
    BY <1>1, <1>3, <2>1, <2>2, Limits DEF InputTypes
  <2> QED
    BY <1>1, <2>2, <2>3 DEF Receive, InputTypes
<1> QED
  BY <1>2, <1>3

LEMMA DiscardType ==
    ASSUME InputTypes, LineTooLong
    PROVE  InputTypes'
<1>1. inputBuffer' \in Seq(Bytes) /\ Len(inputBuffer') <= MaxInput
  <2>1. CASE PendingTooLong
    <3>1. inputBuffer' = <<>>
      BY <2>1 DEF LineTooLong
    <3> QED
      BY <3>1, Limits
  <2>2. CASE CompleteTooLong /\ ~PendingTooLong
    <3>1. newlinePos \in 1..Len(inputBuffer)
      BY <2>2, FirstNewline DEF CompleteTooLong, newlinePos, InputTypes
    <3>2. inputBuffer' = Rest(inputBuffer, newlinePos)
      BY <2>2 DEF LineTooLong
    <3>3. inputBuffer \in Seq(Bytes) /\ Len(inputBuffer) <= MaxInput
      BY DEF InputTypes
    <3> QED
      BY <3>1, <3>2, <3>3, RestType, Limits
  <2> QED
    BY <2>1, <2>2 DEF LineTooLong
<1> QED
  BY <1>1 DEF LineTooLong, InputTypes

LEMMA SendType ==
    ASSUME OutputTypes, NEW n \in 1..MaxSend, Send(n)
    PROVE  OutputTypes'
<1>1. n \in 0..Len(outputBuffer)
  BY Limits DEF Send, OutputTypes
<1>2. outputBuffer' \in Seq(Nat) /\ Len(outputBuffer') = Len(outputBuffer) - n
  BY <1>1, RestType DEF Send, removeSentOutput, OutputTypes
<1>3. kernel' \in Seq(Nat) /\ Len(kernel') = Len(kernel) + n
  <2>1. /\ SubSeq(outputBuffer, 1, n) \in Seq(Nat)
        /\ Len(SubSeq(outputBuffer, 1, n)) = n
    BY <1>1 DEF OutputTypes
  <2> QED
    BY <2>1 DEF Send, OutputTypes
<1>4. Len(outputBuffer') <= MaxOutput /\ Len(kernel') <= Window
  BY <1>1, <1>2, <1>3, Limits DEF Send, OutputTypes
<1>5. pollout' \in BOOLEAN
  BY DEF Send
<1> QED
  BY <1>2, <1>3, <1>4, <1>5 DEF Send, OutputTypes

LEMMA ReadType ==
    ASSUME OutputTypes, PeerReads
    PROVE  OutputTypes'
<1>1. PICK n \in 1..Len(kernel) :
         /\ received' = received \o SubSeq(kernel, 1, n)
         /\ kernel' = Rest(kernel, n)
  BY DEF PeerReads
<1>2. kernel' \in Seq(Nat) /\ Len(kernel') <= Window
  BY <1>1, RestType, Limits DEF OutputTypes
<1>3. received' \in Seq(Nat)
  BY <1>1 DEF OutputTypes
<1> QED
  BY <1>2, <1>3 DEF PeerReads, OutputTypes

LEMMA TypeStep == TypeOK /\ [Next]_vars => TypeOK'
<1> SUFFICES ASSUME TypeOK, [Next]_vars PROVE TypeOK'
  OBVIOUS
<1>0. /\ InputTypes /\ OutputTypes
      /\ phase \in Phases /\ requested \in {"no"} \cup Reasons
  BY DEF TypeOK
<1>a. UNCHANGED input => InputTypes'
  BY <1>0 DEF input, InputTypes
<1>b. UNCHANGED output => OutputTypes'
  BY <1>0 DEF output, OutputTypes
<1>1. ASSUME NEW n \in 1..MaxChunk, Receive(n) PROVE TypeOK'
  <2>1. UNCHANGED output
    BY <1>1 DEF Receive
  <2> QED
    BY <1>0, <1>1, <1>b, <2>1, ReceiveType DEF TypeOK, Phases, Reasons
<1>2. CASE LineIncomplete
  BY <1>0, <1>2, <1>a, <1>b DEF LineIncomplete, TypeOK, Phases
<1>3. CASE LineTooLong
  <2>1. UNCHANGED output /\ phase' = "drop" /\ requested' \in {requested, "line"}
    BY <1>3 DEF LineTooLong, Request
  <2> QED
    BY <1>0, <1>3, <1>b, <2>1, DiscardType DEF TypeOK, Phases, Reasons
<1>4. CASE TakeLine
  BY <1>0, <1>4, <1>b, ExtractType DEF TakeLine, TypeOK
<1>5. CASE EndByLine
  <2>1. UNCHANGED output /\ phase' = "drop" /\ ExtractLine
        /\ requested' \in {requested, "command"}
    BY <1>5 DEF EndByLine, Request
  <2> QED
    BY <1>0, <1>b, <2>1, ExtractType DEF TypeOK, Phases, Reasons
<1>6. ASSUME NEW n \in Sizes, AnswerLine(n) PROVE TypeOK'
  <2>1. ExtractLine /\ Queue(n) /\ phase' \in {"lines", "drop"}
    BY <1>6 DEF AnswerLine
  <2> QED
    BY <1>0, <2>1, ExtractType, QueueType DEF TypeOK, Phases, Reasons
<1>7. ASSUME NEW n \in Sizes, Hear(n) PROVE TypeOK'
  <2>1. Queue(n) /\ phase' = phase /\ UNCHANGED input
    BY <1>7 DEF Hear
  <2> QED
    BY <1>0, <1>a, <2>1, QueueType DEF TypeOK, Reasons
<1>8. CASE Flush
  <2>1. PICK n \in 1..MaxSend : Send(n)
    BY <1>8 DEF Flush
  <2>2. UNCHANGED <<phase, requested, input>>
    BY <2>1 DEF Send
  <2> QED
    BY <1>0, <1>a, <2>1, <2>2, SendType DEF TypeOK
<1>9. CASE PeerReads
  <2>1. UNCHANGED <<phase, requested, input>>
    BY <1>9 DEF PeerReads
  <2> QED
    BY <1>0, <1>9, <1>a, <2>1, ReadType DEF TypeOK
<1>10. CASE Lose
  BY <1>0, <1>10, <1>a, <1>b DEF Lose, Request, TypeOK, Phases, Reasons
<1>11. CASE Disconnect
  <2>1. InputTypes'
    <3>1. inputBuffer' = <<>> /\ UNCHANGED <<stream, taken, extracted>>
      BY <1>11 DEF Disconnect
    <3> QED
      BY <1>0, <3>1, Limits DEF InputTypes
  <2>2. OutputTypes'
    <3>1. outputBuffer' = <<>> /\ pollout' = FALSE
          /\ UNCHANGED <<said, kernel, received>>
      BY <1>11 DEF Disconnect
    <3>2. pollout' \in BOOLEAN
      BY <3>1
    <3>3. 0 <= MaxOutput
      BY Limits
    <3> QED
      BY <1>0, <3>1, <3>2, <3>3 DEF OutputTypes
  <2> QED
    BY <1>0, <1>11, <2>1, <2>2 DEF Disconnect, TypeOK, Phases
<1>12. CASE UNCHANGED vars
  BY <1>0, <1>12, <1>a, <1>b DEF vars, TypeOK
<1> QED
  BY <1>1, <1>2, <1>3, <1>4, <1>5, <1>6, <1>7, <1>8, <1>9, <1>10, <1>11, <1>12
     DEF Next, NextLine

(* Every variable keeps its type, and every buffer its limit.              *)
THEOREM TypeCorrect == Spec => []TypeOK
BY TypeInit, TypeStep, PTL DEF Spec

-----------------------------------------------------------------------------
(* Input.                                                                  *)

(* While the loop runs the buffer holds what has arrived and is not in a   *)
(* line yet; between two rounds it holds no LF and less than a line.  That *)
(* leaves room for one recv(), so the buffer never overflows.              *)
Buffered ==
    /\ Consumed <= taken
    /\ phase \in {"idle", "lines"} =>
          inputBuffer = SubSeq(stream, Consumed + 1, taken)
    /\ phase = "idle" =>
          Newlines(inputBuffer) = {} /\ Len(inputBuffer) < MaxLine
    /\ phase = "lines" => requested = "no"

Overlong ==
    /\ taken - Consumed >= MaxLine
    /\ NoNewline(Consumed + 1, Consumed + MaxLine)

Judged ==
    /\ requested # "input"
    /\ requested = "line" => phase \in {"drop", "closed"} /\ Overlong

Framed == Buffered /\ Judged /\ LinesAsSent

LEMMA FramedInit == Init => Framed
<1> SUFFICES ASSUME Init PROVE Framed
  OBVIOUS
<1>1. /\ phase = "idle" /\ requested = "no" /\ taken = 0
      /\ inputBuffer = <<>> /\ extracted = <<>> /\ stream \in Seq(Bytes)
  BY InputAssumption DEF Init
<1>2. Consumed = 0
  BY <1>1 DEF Consumed
<1>3. Newlines(inputBuffer) = {} /\ Len(inputBuffer) < MaxLine
  BY <1>1, Limits DEF Newlines
<1>4. SubSeq(stream, 1, 0) = <<>>
  BY <1>1
<1> QED
  BY <1>1, <1>2, <1>3, <1>4 DEF Framed, Buffered, Judged, LinesAsSent

(* The pending bytes, as places in the stream.                             *)
LEMMA Pending ==
    ASSUME InputTypes, Buffered, phase \in {"idle", "lines"}
    PROVE  /\ Consumed \in Nat /\ taken \in Nat
           /\ Consumed <= taken /\ taken <= Len(stream)
           /\ Len(inputBuffer) = taken - Consumed
           /\ \A i \in 1..(taken - Consumed) :
                 inputBuffer[i] = stream[Consumed + i]
           /\ \A i \in (Consumed + 1)..taken :
                 stream[i] = inputBuffer[i - Consumed]
<1>1. Consumed \in Nat /\ stream \in Seq(Bytes) /\ taken \in 0..Len(stream)
      /\ Consumed <= taken /\ inputBuffer = SubSeq(stream, Consumed + 1, taken)
  BY ConsumedType, StreamType DEF InputTypes, Buffered
<1> QED
  BY <1>1

(* What the loop extracts is the next line of the stream.                  *)
LEMMA ExtractFramed ==
    ASSUME InputTypes, Framed, ExtractLine
    PROVE  /\ LinesAsSent' /\ Consumed' \in Nat /\ Consumed' <= taken'
           /\ inputBuffer' = SubSeq(stream', Consumed' + 1, taken')
<1>1. phase = "lines" /\ inputBuffer \in Seq(Bytes) /\ stream \in Seq(Bytes)
      /\ extracted \in Seq([text : Seq(Bytes), last : Nat])
  BY StreamType DEF ExtractLine, InputTypes
<1>2. PICK C \in Nat : C = Consumed
  BY ConsumedType
<1>3. PICK p : p = newlinePos
  OBVIOUS
<1>4. PICK k \in Nat : k = Len(extracted)
  BY <1>1
<1>5. /\ taken \in Nat /\ C <= taken /\ taken <= Len(stream)
      /\ Len(inputBuffer) = taken - C
      /\ \A i \in 1..(taken - C) : inputBuffer[i] = stream[C + i]
      /\ inputBuffer = SubSeq(stream, C + 1, taken)
  BY <1>1, <1>2, Pending DEF Framed, Buffered
<1>6. /\ p \in 1..(taken - C) /\ inputBuffer[p] = LF
      /\ \A i \in 1..(p - 1) : inputBuffer[i] # LF
  BY <1>1, <1>3, <1>5, FirstNewline DEF ExtractLine, newlinePos
<1>7. p <= MaxLine
  <2>1. ~(p > MaxLine)
    BY <1>3 DEF ExtractLine, CompleteTooLong
  <2> QED
    BY <1>5, <1>6, <2>1, Limits
<1>8. /\ extracted' = Append(extracted, [text |-> Line, last |-> C + p])
      /\ inputBuffer' = Rest(inputBuffer, p)
      /\ stream' = stream /\ taken' = taken
  BY <1>2, <1>3 DEF ExtractLine
<1>9. PICK e : e = [text |-> Line, last |-> C + p]
  OBVIOUS
<1>10. /\ Len(extracted') = k + 1 /\ extracted'[k + 1] = e
       /\ \A n \in 1..k : extracted'[n] = extracted[n]
       /\ DOMAIN extracted = 1..k /\ DOMAIN extracted' = 1..(k + 1)
  <2>1. extracted' = Append(extracted, e)
    BY <1>8, <1>9
  <2> QED
    BY <1>1, <1>4, <2>1
<1>11. Consumed' = C + p
  <2>1. extracted' # <<>>
    BY <1>4, <1>10
  <2> QED
    BY <1>9, <1>10, <2>1 DEF Consumed
<1>12. inputBuffer' = SubSeq(stream, C + p + 1, taken)
  <2>1. inputBuffer'
           = SubSeq(SubSeq(stream, C + 1, taken), p + 1, taken - C)
    BY <1>5, <1>8 DEF Rest
  <2>2. p \in 0..(taken - C)
    BY <1>5, <1>6
  <2>3. SubSeq(SubSeq(stream, C + 1, taken), p + 1, taken - C)
           = SubSeq(stream, C + p + 1, taken)
    BY <1>1, <1>5, <2>2, Piece
  <2> QED
    BY <2>1, <2>3
<1>13. Line = Content(stream, C + 1, C + p - 1)
  <2>1. Line = SubSeq(inputBuffer, 1,
                      IF p - 1 >= 1 /\ inputBuffer[p - 1] = CR
                      THEN p - 2 ELSE p - 1)
    <3>1. Line = Content(inputBuffer, 1, p - 1)
      BY <1>3 DEF Line
    <3>2. p - 1 - 1 = p - 2
      BY <1>5, <1>6
    <3> QED
      BY <3>1, <3>2 DEF Content
  <2>2. Content(stream, C + 1, C + p - 1)
           = SubSeq(stream, C + 1,
                    IF p - 1 >= 1 /\ stream[C + p - 1] = CR
                    THEN C + (p - 2) ELSE C + (p - 1))
    BY <1>5, <1>6 DEF Content
  <2>3. p - 1 >= 1 => inputBuffer[p - 1] = stream[C + p - 1]
    <3>1. p - 1 >= 1 => p - 1 \in 1..(taken - C) /\ C + (p - 1) = C + p - 1
      BY <1>5, <1>6
    <3> QED
      BY <1>5, <3>1
  <2>4. ASSUME NEW m \in 0..(p - 1)
        PROVE  SubSeq(inputBuffer, 1, m) = SubSeq(stream, C + 1, C + m)
    <3>1. m \in 0..(taken - C)
      BY <1>5, <1>6
    <3> QED
      BY <1>1, <1>5, <3>1, Piece
  <2>5. CASE p - 1 >= 1 /\ inputBuffer[p - 1] = CR
    <3>1. p - 2 \in 0..(p - 1)
      BY <1>5, <1>6, <2>5
    <3> QED
      BY <2>1, <2>2, <2>3, <2>4, <2>5, <3>1
  <2>6. CASE ~(p - 1 >= 1 /\ inputBuffer[p - 1] = CR)
    <3>1. p - 1 \in 0..(p - 1)
      BY <1>5, <1>6
    <3> QED
      BY <2>1, <2>2, <2>3, <2>4, <2>6, <3>1
  <2> QED
    BY <2>5, <2>6
<1>14. IsLine(e, C + 1)
  <2>1. C + p \in DOMAIN stream /\ stream[C + p] = LF
    BY <1>1, <1>5, <1>6
  <2>2. ASSUME NEW i \in (C + 1)..(C + p - 1) PROVE stream[i] # LF
    <3>1. i - C \in 1..(p - 1) /\ i = C + (i - C) /\ i - C \in 1..(taken - C)
      BY <1>5, <1>6
    <3> QED
      BY <1>5, <1>6, <3>1
  <2>3. C + p - (C + 1) < MaxLine
    BY <1>5, <1>6, <1>7, Limits
  <2>4. e.last = C + p /\ e.text = Line
    BY <1>9
  <2>5. NoNewline(C + 1, C + p - 1)
    BY <2>2 DEF NoNewline
  <2>6. e.last - 1 = C + p - 1 /\ e.last - (C + 1) = C + p - (C + 1)
    <3>1. e.last \in Nat
      BY <1>5, <1>6, <2>4
    <3> QED
      BY <1>5, <1>6, <2>4, <3>1
  <2>7. e.text = Content(stream, C + 1, e.last - 1)
    BY <1>13, <2>4, <2>6
  <2>8. NoNewline(C + 1, e.last - 1) /\ e.last - (C + 1) < MaxLine
    BY <2>3, <2>5, <2>6, Zenon
  <2> QED
    BY <2>1, <2>4, <2>7, <2>8 DEF IsLine
<1>15. LinesAsSent'
  <2>1. First(k + 1)' = C + 1
    <3>1. CASE k = 0
      <4>1. extracted = <<>>
        BY <1>1, <1>4, <3>1, EmptySeq
      <4>2. C = 0
        BY <1>2, <4>1 DEF Consumed
      <4> QED
        BY <3>1, <4>2 DEF First
    <3>2. CASE k # 0
      <4>1. C = extracted[k].last
        <5>1. extracted # <<>>
          BY <1>4, <3>2
        <5> QED
          BY <1>2, <1>4, <5>1 DEF Consumed
      <4>2. extracted'[k] = extracted[k]
        BY <1>10, <3>2
      <4>3. First(k + 1)' = extracted'[k].last + 1
        BY <3>2 DEF First
      <4> QED
        BY <4>1, <4>2, <4>3
    <3> QED
      BY <3>1, <3>2
  <2>2. ASSUME NEW n \in 1..k PROVE First(n)' = First(n)
    <3>1. n # 1 => extracted'[n - 1] = extracted[n - 1]
      BY <1>10
    <3> QED
      BY <3>1 DEF First
  <2>3. ASSUME NEW n \in 1..(k + 1)
        PROVE  IsLine(extracted'[n], First(n)')
    <3>1. CASE n = k + 1
      BY <1>10, <1>14, <2>1, <3>1
    <3>2. CASE n \in 1..k
      BY <1>10, <2>2, <3>2 DEF Framed, LinesAsSent
    <3> QED
      BY <3>1, <3>2
  <2> QED
    BY <1>8, <1>10, <2>3 DEF LinesAsSent, IsLine, NoNewline
<1>16. C + p \in Nat /\ C + p <= taken
  BY <1>5, <1>6
<1> QED
  BY <1>8, <1>11, <1>12, <1>15, <1>16

(* Two pieces that meet make one.                                          *)
LEMMA Joined ==
    ASSUME NEW s \in Seq(Bytes), NEW a \in Nat, NEW b \in Nat, NEW c \in Nat,
           a <= b, b <= c, c <= Len(s)
    PROVE  SubSeq(s, a + 1, b) \o SubSeq(s, b + 1, c) = SubSeq(s, a + 1, c)
OBVIOUS

(* The facts about lines change only when a line is extracted.             *)
LEMMA LinesKept ==
    ASSUME UNCHANGED <<stream, extracted>>, LinesAsSent
    PROVE  LinesAsSent' /\ Consumed' = Consumed
BY DEF LinesAsSent, IsLine, NoNewline, First, Consumed

LEMMA ReceiveFramed ==
    ASSUME InputTypes, Framed, NEW n \in 1..MaxChunk, Receive(n)
    PROVE  Framed'
<1>1. /\ phase = "idle" /\ taken' = taken + n /\ n \in Nat
      /\ n <= Len(stream) - taken /\ UNCHANGED <<stream, extracted>>
  BY Limits DEF Receive
<1>2. PICK C \in Nat : C = Consumed
  BY ConsumedType
<1>3. /\ taken \in Nat /\ C <= taken /\ taken <= Len(stream)
      /\ inputBuffer = SubSeq(stream, C + 1, taken)
      /\ Len(inputBuffer) = taken - C
  BY <1>1, <1>2, Pending DEF Framed, Buffered
<1>4. LinesAsSent' /\ Consumed' = C
  BY <1>1, <1>2, LinesKept DEF Framed
<1>5. ~(Len(inputBuffer) + n > MaxInput)
  <2>1. Len(inputBuffer) < MaxLine
    BY <1>1 DEF Framed, Buffered
  <2> QED
    BY <1>1, <1>3, <2>1, Limits
<1>6. /\ inputBuffer' = inputBuffer \o SubSeq(stream, taken + 1, taken + n)
      /\ requested' = requested
      /\ phase' = IF requested = "no" THEN "lines" ELSE "drop"
  BY <1>5 DEF Receive
<1>7. inputBuffer' = SubSeq(stream, C + 1, taken + n)
  <2>1. taken + n \in Nat /\ taken + n <= Len(stream) /\ stream \in Seq(Bytes)
        /\ taken <= taken + n
    BY <1>1, <1>3, StreamType
  <2> QED
    BY <1>3, <1>6, <2>1, Joined
<1>8. Buffered'
  <2>1. Consumed' <= taken'
    BY <1>1, <1>3, <1>4
  <2>2. inputBuffer' = SubSeq(stream', Consumed' + 1, taken')
    BY <1>1, <1>4, <1>7
  <2> QED
    BY <1>6, <2>1, <2>2 DEF Buffered
<1>9. Judged'
  BY <1>1, <1>6 DEF Framed, Judged
<1> QED
  BY <1>4, <1>8, <1>9 DEF Framed

(* Either test for an overlong line finds MaxLine bytes without a LF.      *)
LEMMA DiscardFramed ==
    ASSUME InputTypes, Framed, LineTooLong
    PROVE  Framed'
<1>1. /\ phase = "lines" /\ phase' = "drop" /\ requested = "no"
      /\ requested' = "line" /\ UNCHANGED <<stream, taken, extracted>>
  BY DEF LineTooLong, Request, Framed, Buffered
<1>2. PICK C \in Nat : C = Consumed
  BY ConsumedType
<1>3. /\ taken \in Nat /\ C <= taken /\ taken <= Len(stream)
      /\ Len(inputBuffer) = taken - C /\ inputBuffer \in Seq(Bytes)
      /\ \A i \in (C + 1)..taken : stream[i] = inputBuffer[i - C]
  BY <1>1, <1>2, Pending DEF Framed, Buffered, InputTypes
<1>4. LinesAsSent' /\ Consumed' = C
  BY <1>1, <1>2, LinesKept DEF Framed
<1>5. /\ Len(inputBuffer) >= MaxLine
      /\ \A i \in 1..MaxLine : inputBuffer[i] # LF
  <2>1. CASE PendingTooLong
    <3>1. Newlines(inputBuffer) = {} /\ Len(inputBuffer) > MaxLine - 1
      BY <2>1 DEF PendingTooLong
    <3>2. Len(inputBuffer) >= MaxLine
      BY <1>3, <3>1, Limits
    <3>3. \A i \in 1..Len(inputBuffer) : inputBuffer[i] # LF
      BY <1>3, <3>1 DEF Newlines
    <3> QED
      BY <1>3, <3>2, <3>3, Limits
  <2>2. CASE CompleteTooLong
    <3>1. PICK p : p = newlinePos
      OBVIOUS
    <3>2. p > MaxLine /\ p \in 1..Len(inputBuffer)
          /\ \A i \in 1..(p - 1) : inputBuffer[i] # LF
      BY <1>3, <2>2, <3>1, FirstNewline DEF CompleteTooLong, newlinePos
    <3> QED
      BY <1>3, <3>2, Limits
  <2> QED
    BY <2>1, <2>2 DEF LineTooLong
<1>6. taken - C >= MaxLine
  BY <1>3, <1>5
<1>7. ASSUME NEW i \in (C + 1)..(C + MaxLine) PROVE stream[i] # LF
  <2>1. i \in (C + 1)..taken /\ i - C \in 1..MaxLine
    BY <1>3, <1>6, Limits
  <2> QED
    BY <1>3, <1>5, <2>1
<1>8. Overlong'
  <2>1. taken' - Consumed' >= MaxLine
    BY <1>1, <1>4, <1>6
  <2>2. NoNewline(C + 1, C + MaxLine)'
    BY <1>1, <1>7 DEF NoNewline
  <2> QED
    BY <1>4, <2>1, <2>2 DEF Overlong, NoNewline
<1>9. Consumed' <= taken'
  BY <1>1, <1>3, <1>4
<1> QED
  BY <1>1, <1>4, <1>8, <1>9 DEF Framed, Buffered, Judged

(* Where an action leaves the input alone only the end can come nearer.    *)
LEMMA QuietFramed ==
    ASSUME Framed, UNCHANGED <<stream, taken, extracted>>,
           \/ UNCHANGED <<phase, inputBuffer>> /\ phase # "lines"
           \/ phase' \in {"drop", "closed"},
           \/ requested' = requested
           \/ requested = "no" /\ requested' \in {"output", "lost", "command"}
    PROVE  Framed'
<1>1. LinesAsSent' /\ Consumed' = Consumed
  BY LinesKept DEF Framed
<1>2. Overlong => Overlong'
  BY <1>1 DEF Overlong, NoNewline
<1>3. Buffered'
  BY <1>1 DEF Framed, Buffered, Newlines
<1>4. Judged'
  BY <1>2 DEF Framed, Judged
<1> QED
  BY <1>1, <1>3, <1>4 DEF Framed

LEMMA FramedStep == TypeOK /\ Framed /\ [Next]_vars => Framed'
<1> SUFFICES ASSUME TypeOK, Framed, [Next]_vars PROVE Framed'
  OBVIOUS
<1>0. /\ InputTypes /\ Buffered /\ Judged
      /\ phase = "lines" => requested = "no"
  BY DEF TypeOK, Framed, Buffered
<1>1. ASSUME NEW n \in 1..MaxChunk, Receive(n) PROVE Framed'
  BY <1>0, <1>1, ReceiveFramed
<1>2. CASE LineIncomplete
  <2>1. /\ phase = "lines" /\ phase' = "idle" /\ requested' = requested
        /\ Newlines(inputBuffer) = {} /\ ~(Len(inputBuffer) > MaxLine - 1)
        /\ UNCHANGED <<stream, taken, extracted, inputBuffer>>
    BY <1>2 DEF LineIncomplete, PendingTooLong, input
  <2>2. Len(inputBuffer) < MaxLine
    BY <1>0, <2>1, Limits DEF InputTypes
  <2>3. LinesAsSent' /\ Consumed' = Consumed
    BY <2>1, LinesKept DEF Framed
  <2>4. Buffered'
    BY <1>0, <2>1, <2>2, <2>3 DEF Buffered, Newlines
  <2>5. Judged'
    BY <1>0, <2>1 DEF Judged
  <2> QED
    BY <2>3, <2>4, <2>5 DEF Framed
<1>3. CASE LineTooLong
  BY <1>0, <1>3, DiscardFramed
<1>4. ASSUME ExtractLine, phase' \in {"lines", "drop"},
             phase' = "lines" => requested' = "no",
             requested' \in {"no", "command", "output"}
      PROVE  Framed'
  <2>1. /\ LinesAsSent' /\ Consumed' <= taken'
        /\ inputBuffer' = SubSeq(stream', Consumed' + 1, taken')
    BY <1>0, <1>4, ExtractFramed
  <2>2. Buffered'
    BY <1>4, <2>1 DEF Buffered
  <2>3. Judged'
    BY <1>4 DEF Judged
  <2> QED
    BY <2>1, <2>2, <2>3 DEF Framed
<1>5. CASE TakeLine
  <2>1. ExtractLine /\ phase = "lines" /\ UNCHANGED <<phase, requested>>
    BY <1>5 DEF TakeLine, ExtractLine
  <2> QED
    BY <1>0, <1>4, <2>1
<1>6. CASE EndByLine
  <2>1. ExtractLine /\ phase = "lines" /\ phase' = "drop"
        /\ requested' \in {requested, "command"}
    BY <1>6 DEF EndByLine, ExtractLine, Request
  <2> QED
    BY <1>0, <1>4, <2>1
<1>7. ASSUME NEW n \in Sizes, AnswerLine(n) PROVE Framed'
  <2>1. ExtractLine /\ phase = "lines" /\ Queue(n)
        /\ phase' = IF requested' = "no" THEN "lines" ELSE "drop"
    BY <1>7 DEF AnswerLine, ExtractLine
  <2>2. requested' \in {requested, "output"}
    BY <2>1, QueueType DEF TypeOK
  <2> QED
    BY <1>0, <1>4, <2>1, <2>2
<1>8. ASSUME NEW n \in Sizes, Hear(n) PROVE Framed'
  <2>1. /\ phase = "idle" /\ requested = "no" /\ Queue(n)
        /\ UNCHANGED <<phase, stream, taken, extracted, inputBuffer>>
    BY <1>8 DEF Hear, input
  <2>2. requested' \in {requested, "output"}
    BY <2>1, QueueType DEF TypeOK
  <2> QED
    BY <2>1, <2>2, QuietFramed
<1>9. CASE Flush \/ PeerReads \/ UNCHANGED vars
  <2>1. UNCHANGED <<phase, requested, stream, taken, extracted, inputBuffer>>
    BY <1>9 DEF Flush, Send, PeerReads, input, vars
  <2>2. LinesAsSent' /\ Consumed' = Consumed
    BY <2>1, LinesKept DEF Framed
  <2>3. Buffered'
    BY <1>0, <2>1, <2>2 DEF Buffered, Newlines
  <2>4. Judged'
    BY <1>0, <2>1, <2>2 DEF Judged, Overlong, NoNewline
  <2> QED
    BY <2>2, <2>3, <2>4 DEF Framed
<1>10. CASE Lose
  <2>1. phase = "idle" /\ phase' = "drop" /\ UNCHANGED input
        /\ requested' = IF requested = "no" THEN "lost" ELSE requested
    BY <1>10 DEF Lose, Request
  <2> QED
    BY <2>1, QuietFramed DEF input
<1>11. CASE Disconnect
  <2>1. phase' = "closed" /\ UNCHANGED <<requested, stream, taken, extracted>>
    BY <1>11 DEF Disconnect
  <2> QED
    BY <2>1, QuietFramed
<1> QED
  BY <1>1, <1>2, <1>3, <1>5, <1>6, <1>7, <1>8, <1>9, <1>10, <1>11
     DEF Next, NextLine

LEMMA AlwaysFramed == Spec => [](TypeOK /\ Framed)
BY TypeInit, TypeStep, FramedInit, FramedStep, PTL DEF Spec

(* However the stream is cut into pieces, and whatever becomes of each     *)
(* line, the lines are those of the stream.                                *)
THEOREM LinesAlwaysAsSent == Spec => []LinesAsSent
<1>1. TypeOK /\ Framed => LinesAsSent
  BY DEF Framed
<1> QED
  BY <1>1, AlwaysFramed, PTL

(* The verdict on a line depends on what was sent and not on the pieces in *)
(* which it came, and the input buffer never overflows.                    *)
THEOREM VerdictAlwaysByContent == Spec => []VerdictByContent
<1>1. ASSUME TypeOK, Framed PROVE VerdictByContent
  <2>0. InputTypes /\ Buffered /\ Judged
    BY <1>1 DEF TypeOK, Framed
  <2>1. requested # "input" /\ (requested = "line" => Overlong)
    BY <2>0 DEF Judged
  <2>2. ASSUME phase = "idle" PROVE ~Overlong /\ NoNewline(Consumed + 1, taken)
    <3>1. PICK C \in Nat : C = Consumed
      BY <2>0, ConsumedType
    <3>2. /\ taken \in Nat /\ C <= taken /\ Len(inputBuffer) = taken - C
          /\ \A i \in (C + 1)..taken : stream[i] = inputBuffer[i - C]
      BY <2>0, <2>2, <3>1, Pending
    <3>3. Newlines(inputBuffer) = {} /\ Len(inputBuffer) < MaxLine
      BY <2>0, <2>2 DEF Buffered
    <3>4. ~(taken - C >= MaxLine)
      BY <3>2, <3>3, Limits
    <3>5. ASSUME NEW i \in (C + 1)..taken PROVE stream[i] # LF
      <4>1. i - C \in DOMAIN inputBuffer
        BY <2>0, <3>2 DEF InputTypes
      <4> QED
        BY <3>2, <3>3, <3>5, <4>1 DEF Newlines
    <3> QED
      BY <3>1, <3>4, <3>5 DEF Overlong, NoNewline
  <2> QED
    BY <2>1, <2>2 DEF VerdictByContent, Overlong
<1> QED
  BY <1>1, AlwaysFramed, PTL

-----------------------------------------------------------------------------
(* Output.                                                                 *)

(* A sequence is a part of another, after so many of its elements.         *)
Lies(part, all, base) == \A i \in 1..Len(part) : part[i] = all[base + i]

(* Of the bytes queued the peer has read the first, the kernel has the     *)
(* next, and the buffer the last; those in the buffer are lost when the    *)
(* connection is closed, after which nothing is queued.                    *)
Accounted ==
    /\ Len(received) + Len(kernel) + Len(outputBuffer) <= Len(said)
    /\ phase # "closed" =>
          Len(received) + Len(kernel) + Len(outputBuffer) = Len(said)
    /\ Lies(received, said, 0)
    /\ Lies(kernel, said, Len(received))
    /\ Lies(outputBuffer, said, Len(received) + Len(kernel))

LEMMA ExtendsPart ==
    ASSUME NEW s \in Seq(Nat), NEW t \in Seq(Nat), Len(t) <= Len(s),
           Lies(t, s, 0)
    PROVE  Stream!Extends(s, t)
<1>1. \A i \in 1..Len(t) : t[i] = s[i]
  BY DEF Lies
<1>2. SubSeq(s, 1, Len(t)) = t
  BY <1>1
<1> QED
  BY <1>2 DEF Stream!Extends

LEMMA ExtendsAppended ==
    ASSUME NEW s \in Seq(Nat), NEW t \in Seq(Nat)
    PROVE  Stream!Extends(s \o t, s)
<1>1. /\ s \o t \in Seq(Nat) /\ Len(s) <= Len(s \o t)
      /\ SubSeq(s \o t, 1, Len(s)) = s
  OBVIOUS
<1> QED
  BY <1>1 DEF Stream!Extends

(* Appending to the whole disturbs no part of it.                          *)
LEMMA StillLies ==
    ASSUME NEW all \in Seq(Nat), NEW part \in Seq(Nat), NEW base \in Nat,
           NEW t \in Seq(Nat),
           Lies(part, all, base), base + Len(part) <= Len(all)
    PROVE  Lies(part, all \o t, base)
BY DEF Lies

(* What is appended to the whole and to its last part.                     *)
LEMMA LastLies ==
    ASSUME NEW all \in Seq(Nat), NEW part \in Seq(Nat), NEW base \in Nat,
           NEW t \in Seq(Nat),
           Lies(part, all, base), base + Len(part) = Len(all)
    PROVE  Lies(part \o t, all \o t, base)
<1>1. PICK k \in Nat : k = Len(part)
  OBVIOUS
<1>2. /\ Len(part \o t) = k + Len(t) /\ Len(all) = base + k
      /\ \A i \in 1..k : (part \o t)[i] = part[i]
      /\ \A j \in 1..Len(t) : (part \o t)[k + j] = t[j]
      /\ \A i \in 1..(base + k) : (all \o t)[i] = all[i]
      /\ \A j \in 1..Len(t) : (all \o t)[base + k + j] = t[j]
  BY <1>1
<1>3. ASSUME NEW i \in 1..(k + Len(t))
      PROVE  (part \o t)[i] = (all \o t)[base + i]
  <2>1. CASE i <= k
    <3>1. base + i \in 1..(base + k) /\ i \in 1..k
      BY <2>1
    <3>2. part[i] = all[base + i]
      BY <1>1, <3>1 DEF Lies
    <3> QED
      BY <1>2, <3>1, <3>2
  <2>2. CASE ~(i <= k)
    <3>1. PICK j \in 1..Len(t) : i = k + j
      <4>1. i - k \in 1..Len(t) /\ i = k + (i - k)
        BY <2>2
      <4> QED
        BY <4>1
    <3>2. base + i = base + k + j
      BY <3>1
    <3> QED
      BY <1>2, <3>1, <3>2
  <2> QED
    BY <2>1, <2>2
<1> QED
  BY <1>2, <1>3 DEF Lies

(* The first elements of one part become the last of the part before.      *)
LEMMA Moved ==
    ASSUME NEW from \in Seq(Nat), NEW to \in Seq(Nat), NEW all \in Seq(Nat),
           NEW base \in Nat, NEW n \in 0..Len(from),
           Lies(to, all, base), Lies(from, all, base + Len(to))
    PROVE  /\ Lies(to \o SubSeq(from, 1, n), all, base)
           /\ Lies(Rest(from, n), all, base + Len(to \o SubSeq(from, 1, n)))
<1> DEFINE to2 == to \o SubSeq(from, 1, n)
           from2 == Rest(from, n)
<1>1. PICK k \in Nat : k = Len(to)
  OBVIOUS
<1>2. PICK m \in Nat : m = Len(from)
  OBVIOUS
<1>3. Len(from2) = m - n /\ \A i \in 1..(m - n) : from2[i] = from[n + i]
  BY <1>2 DEF Rest
<1>4. /\ Len(to2) = k + n
      /\ \A i \in 1..k : to2[i] = to[i]
      /\ \A i \in 1..n : to2[k + i] = from[i]
  BY <1>1, <1>2
<1> HIDE DEF to2, from2
<1>5. /\ \A i \in 1..k : to[i] = all[base + i]
      /\ \A i \in 1..m : from[i] = all[base + k + i]
  BY <1>1, <1>2 DEF Lies
<1>6. ASSUME NEW i \in 1..(k + n) PROVE to2[i] = all[base + i]
  <2>1. CASE i <= k
    BY <1>4, <1>5, <2>1
  <2>2. CASE ~(i <= k)
    <3>1. PICK j \in 1..n : i = k + j
      <4>1. i - k \in 1..n /\ i = k + (i - k)
        BY <2>2
      <4> QED
        BY <4>1
    <3>2. j \in 1..m /\ base + k + j = base + i
      BY <1>2, <3>1
    <3> QED
      BY <1>4, <1>5, <3>1, <3>2
  <2> QED
    BY <2>1, <2>2
<1>7. ASSUME NEW i \in 1..(m - n)
      PROVE  from2[i] = all[base + (k + n) + i]
  <2>1. n + i \in 1..m /\ base + k + (n + i) = base + (k + n) + i
    BY <1>2
  <2> QED
    BY <1>3, <1>5, <2>1
<1>8. Lies(to2, all, base) /\ Lies(from2, all, base + Len(to2))
  BY <1>3, <1>4, <1>6, <1>7 DEF Lies
<1> QED
  BY <1>8 DEF to2, from2

LEMMA OutputSeqs ==
    OutputTypes => /\ said \in Seq(Nat) /\ outputBuffer \in Seq(Nat)
                   /\ kernel \in Seq(Nat) /\ received \in Seq(Nat)
BY DEF OutputTypes

LEMMA QueueAccounted ==
    ASSUME OutputTypes, Accounted, NEW n \in Sizes, Queue(n),
           phase # "closed"
    PROVE  Accounted' /\ Stream!Extends(said', said) /\ received' = received
<1>0. /\ said \in Seq(Nat) /\ outputBuffer \in Seq(Nat)
      /\ kernel \in Seq(Nat) /\ received \in Seq(Nat)
  BY OutputSeqs
<1>1. CASE UNCHANGED output
  <2>1. /\ said' = said /\ outputBuffer' = outputBuffer
        /\ kernel' = kernel /\ received' = received
    BY <1>1 DEF output
  <2>2. Len(received) + Len(kernel) + Len(outputBuffer) = Len(said)
    BY DEF Accounted
  <2>3. Accounted'
    BY <2>1, <2>2, Zenon DEF Accounted
  <2>4. Lies(said, said, 0)
    BY <1>0 DEF Lies
  <2> QED
    BY <1>0, <2>1, <2>3, <2>4, ExtendsPart
<1>2. CASE /\ said' = said \o Numbered(n)
           /\ outputBuffer' = outputBuffer \o Numbered(n)
           /\ UNCHANGED <<kernel, received>>
  <2>1. PICK t \in Seq(Nat) : t = Numbered(n)
    BY NumberedType, Limits
  <2>2. /\ said' = said \o t /\ outputBuffer' = outputBuffer \o t
        /\ kernel' = kernel /\ received' = received
    BY <1>2, <2>1
  <2>3. PICK r \in Nat, k \in Nat, o \in Nat :
           r = Len(received) /\ k = Len(kernel) /\ o = Len(outputBuffer)
    BY <1>0
  <2>4. /\ r + k + o = Len(said) /\ r + k <= Len(said)
        /\ r <= Len(said) /\ r + k \in Nat
    <3>1. r + k + o = Len(said)
      BY <2>3, Zenon DEF Accounted
    <3> QED
      BY <1>0, <3>1
  <2>5. Lies(received, said \o t, 0) /\ Lies(kernel, said \o t, r)
    <3>1. Lies(received, said, 0) /\ Lies(kernel, said, r)
      BY <2>3 DEF Accounted
    <3>2. 0 + Len(received) <= Len(said) /\ r + Len(kernel) <= Len(said)
      BY <2>3, <2>4
    <3> QED
      BY <1>0, <3>1, <3>2, StillLies
  <2>6. Lies(outputBuffer \o t, said \o t, r + k)
    <3>1. Lies(outputBuffer, said, r + k)
      BY <2>3 DEF Accounted
    <3> QED
      BY <1>0, <2>3, <2>4, <3>1, LastLies
  <2>7. /\ r + k + Len(outputBuffer \o t) = Len(said \o t)
        /\ r + k + Len(outputBuffer \o t) <= Len(said \o t)
    <3>1. /\ Len(outputBuffer \o t) = o + Len(t) /\ Len(t) \in Nat
          /\ Len(said \o t) = Len(said) + Len(t) /\ Len(said) \in Nat
      BY <1>0, <2>3
    <3> QED
      BY <2>3, <2>4, <3>1
  <2>8. Accounted'
    BY <2>2, <2>3, <2>5, <2>6, <2>7, Zenon DEF Accounted
  <2> QED
    BY <1>0, <2>2, <2>8, ExtendsAppended
<1> QED
  BY <1>1, <1>2 DEF Queue

LEMMA SendAccounted ==
    ASSUME OutputTypes, Accounted, NEW n \in 1..MaxSend, Send(n)
    PROVE  Accounted'
<1>0. /\ said \in Seq(Nat) /\ outputBuffer \in Seq(Nat)
      /\ kernel \in Seq(Nat) /\ received \in Seq(Nat)
  BY OutputSeqs
<1>1. /\ kernel' = kernel \o SubSeq(outputBuffer, 1, n)
      /\ outputBuffer' = Rest(outputBuffer, n)
      /\ said' = said /\ received' = received /\ phase' = phase
      /\ n \in 0..Len(outputBuffer)
  BY <1>0, Limits DEF Send, removeSentOutput
<1>2. PICK r \in Nat : r = Len(received)
  BY <1>0
<1>3. Lies(kernel, said, r) /\ Lies(outputBuffer, said, r + Len(kernel))
  BY <1>2 DEF Accounted
<1>4. Lies(kernel', said, r) /\ Lies(outputBuffer', said, r + Len(kernel'))
  BY <1>0, <1>1, <1>3, Moved
<1>5. r + Len(kernel') + Len(outputBuffer')
         = r + Len(kernel) + Len(outputBuffer)
  <2>1. Len(outputBuffer') = Len(outputBuffer) - n
    BY <1>0, <1>1, RestType
  <2>2. Len(kernel') = Len(kernel) + n
    BY <1>0, <1>1
  <2> QED
    BY <1>0, <1>1, <2>1, <2>2
<1> QED
  BY <1>1, <1>2, <1>4, <1>5, Zenon DEF Accounted

LEMMA ReadAccounted ==
    ASSUME OutputTypes, Accounted, PeerReads
    PROVE  Accounted' /\ Stream!Extends(received', received)
<1>0. /\ said \in Seq(Nat) /\ outputBuffer \in Seq(Nat)
      /\ kernel \in Seq(Nat) /\ received \in Seq(Nat)
  BY OutputSeqs
<1>1. PICK n \in 1..Len(kernel) :
         /\ received' = received \o SubSeq(kernel, 1, n)
         /\ kernel' = Rest(kernel, n)
  BY DEF PeerReads
<1>2. /\ said' = said /\ outputBuffer' = outputBuffer /\ phase' = phase
      /\ n \in 0..Len(kernel)
  BY <1>0 DEF PeerReads
<1>3. Lies(received, said, 0) /\ Lies(kernel, said, 0 + Len(received))
  BY <1>0 DEF Accounted
<1>4. /\ Lies(received', said, 0)
      /\ Lies(kernel', said, 0 + Len(received'))
  BY <1>0, <1>1, <1>2, <1>3, Moved
<1>5. Len(received') = Len(received) + n /\ Len(kernel') = Len(kernel) - n
  BY <1>0, <1>1, <1>2, RestType
<1>6. /\ Len(received') + Len(kernel') = Len(received) + Len(kernel)
      /\ 0 + Len(received') = Len(received')
  BY <1>0, <1>2, <1>5
<1>7. SubSeq(kernel, 1, n) \in Seq(Nat)
  BY <1>0, <1>2
<1>8. Accounted'
  BY <1>2, <1>4, <1>6, Zenon DEF Accounted
<1> QED
  BY <1>0, <1>1, <1>7, <1>8, ExtendsAppended

LEMMA AccountedInit == Init => Accounted /\ Stream!Init
<1>1. Init => said = <<>> /\ outputBuffer = <<>> /\ kernel = <<>>
              /\ received = <<>>
  BY DEF Init
<1> QED
  BY <1>1 DEF Accounted, Lies, Stream!Init

(* An action that leaves the peer, the kernel and what was said alone, and *)
(* either keeps the buffer or empties it for good.                         *)
LEMMA QuietAccounted ==
    ASSUME OutputTypes, Accounted, UNCHANGED <<said, kernel, received>>,
           \/ UNCHANGED outputBuffer /\ (phase = "closed" => phase' = "closed")
           \/ outputBuffer' = <<>> /\ phase' = "closed"
    PROVE  Accounted'
<1>0. /\ said \in Seq(Nat) /\ outputBuffer \in Seq(Nat)
      /\ kernel \in Seq(Nat) /\ received \in Seq(Nat)
  BY OutputSeqs
<1>1. CASE UNCHANGED outputBuffer /\ (phase = "closed" => phase' = "closed")
  <2>1. phase' # "closed" => phase # "closed"
    BY <1>1
  <2>2. /\ said' = said /\ outputBuffer' = outputBuffer
        /\ kernel' = kernel /\ received' = received
    BY <1>1
  <2> QED
    BY <2>1, <2>2, Zenon DEF Accounted
<1>2. CASE outputBuffer' = <<>> /\ phase' = "closed"
  <2>1. Len(received) + Len(kernel) + Len(<<>>) <= Len(said)
    <3>1. Len(received) + Len(kernel) + Len(outputBuffer) <= Len(said)
      BY DEF Accounted
    <3>2. /\ Len(received) \in Nat /\ Len(kernel) \in Nat /\ Len(said) \in Nat
          /\ Len(outputBuffer) \in Nat /\ Len(<<>>) = 0
      BY <1>0
    <3> QED
      BY <3>1, <3>2
  <2>2. Lies(<<>>, said, Len(received) + Len(kernel))
    BY DEF Lies
  <2>3. /\ said' = said /\ outputBuffer' = <<>>
        /\ kernel' = kernel /\ received' = received
    BY <1>2
  <2> QED
    BY <1>2, <2>1, <2>2, <2>3, Zenon DEF Accounted
<1> QED
  BY <1>1, <1>2

LEMMA AccountedStep ==
    TypeOK /\ Accounted /\ [Next]_vars =>
        /\ Accounted'
        /\ Stream!Extends(said', said) /\ Stream!Extends(received', received)
<1> SUFFICES ASSUME TypeOK, Accounted, [Next]_vars
             PROVE  /\ Accounted' /\ Stream!Extends(said', said)
                    /\ Stream!Extends(received', received)
  OBVIOUS
<1>0. /\ OutputTypes /\ said \in Seq(Nat) /\ received \in Seq(Nat)
  BY OutputSeqs DEF TypeOK
<1>1. Stream!Extends(said, said) /\ Stream!Extends(received, received)
  BY <1>0, ExtendsPart DEF Lies
<1>2. ASSUME NEW n \in 1..MaxChunk, Receive(n)
      PROVE  UNCHANGED output /\ phase # "closed"
  BY <1>2 DEF Receive
<1>3. CASE \/ UNCHANGED output /\ (phase = "closed" => phase' = "closed")
           \/ Disconnect
  <2>1. UNCHANGED <<said, kernel, received>>
    BY <1>3 DEF output, Disconnect
  <2>2. \/ UNCHANGED outputBuffer /\ (phase = "closed" => phase' = "closed")
        \/ outputBuffer' = <<>> /\ phase' = "closed"
    BY <1>3 DEF output, Disconnect
  <2>3. Accounted'
    BY <1>0, <2>1, <2>2, QuietAccounted
  <2>4. said' = said /\ received' = received
    BY <2>1
  <2> QED
    BY <1>1, <2>3, <2>4
<1>4. ASSUME NEW n \in Sizes, AnswerLine(n) \/ Hear(n)
      PROVE  /\ Accounted' /\ Stream!Extends(said', said)
             /\ Stream!Extends(received', received)
  <2>1. Queue(n) /\ phase # "closed"
    BY <1>4 DEF AnswerLine, ExtractLine, Hear
  <2>2. /\ Accounted' /\ Stream!Extends(said', said)
        /\ received' = received
    BY <1>0, <2>1, QueueAccounted
  <2> QED
    BY <1>1, <2>2
<1>5. CASE Flush
  <2>1. PICK n \in 1..MaxSend : Send(n)
    BY <1>5 DEF Flush
  <2>2. said' = said /\ received' = received
    BY <2>1 DEF Send
  <2> QED
    BY <1>0, <1>1, <2>1, <2>2, SendAccounted
<1>6. CASE PeerReads
  <2>1. said' = said
    BY <1>6 DEF PeerReads
  <2> QED
    BY <1>0, <1>1, <1>6, <2>1, ReadAccounted
<1>7. LineIncomplete \/ LineTooLong \/ TakeLine \/ EndByLine \/ Lose
         => UNCHANGED output /\ phase # "closed"
  BY DEF LineIncomplete, LineTooLong, TakeLine, EndByLine, ExtractLine, Lose
<1>8. UNCHANGED vars => UNCHANGED output /\ UNCHANGED phase
  BY DEF vars
<1> QED
  BY <1>2, <1>3, <1>4, <1>5, <1>6, <1>7, <1>8 DEF Next, NextLine

(* What the peer has read is the beginning of what was said.               *)
Behind == Stream!Extends(said, received)

(* What the peer reads is what was queued for it, in order and unbroken,   *)
(* however sends and reads fall.                                           *)
THEOREM ConnectionImplementsPipe == Spec => DeliversInOrder
<1>1. TypeOK /\ Accounted => Behind
  <2> SUFFICES ASSUME OutputTypes, Accounted
               PROVE  Stream!Extends(said, received)
    BY DEF TypeOK, Behind
  <2>1. /\ said \in Seq(Nat) /\ outputBuffer \in Seq(Nat)
        /\ kernel \in Seq(Nat) /\ received \in Seq(Nat)
    BY OutputSeqs
  <2>2. Len(received) <= Len(said)
    <3>1. Len(received) + Len(kernel) + Len(outputBuffer) <= Len(said)
      BY DEF Accounted
    <3>2. /\ Len(received) \in Nat /\ Len(kernel) \in Nat
          /\ Len(outputBuffer) \in Nat /\ Len(said) \in Nat
      BY <2>1
    <3> QED
      BY <3>1, <3>2
  <2> QED
    BY <2>1, <2>2, ExtendsPart DEF Accounted
<1>2. TypeOK /\ Accounted /\ Behind' /\ [Next]_vars
         => [Stream!Next]_<<said, received>>
  BY AccountedStep DEF Stream!Next, Behind
<1>3. Spec => [](TypeOK /\ Accounted)
  BY TypeInit, TypeStep, AccountedInit, AccountedStep, PTL DEF Spec
<1> QED
  BY <1>1, <1>2, <1>3, AccountedInit, PTL
     DEF Spec, DeliversInOrder, Stream!Spec
=============================================================================
