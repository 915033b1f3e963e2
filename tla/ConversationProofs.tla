------------------------- MODULE ConversationProofs -------------------------
(***************************************************************************)
(* The properties of Conversation for any clients, texts and limits.       *)
(* TypeOK is inductive; SameStory, AnswersFollowQuestions and OneOrder are *)
(* inductive relative to it; HistoryKept needs an invariant of its own.    *)
(***************************************************************************)
EXTENDS Conversation, TLAPS

-----------------------------------------------------------------------------
(* The operators the handlers are made of.                                 *)

(* What is queued never exceeds the limit, and nobody is unmarked by it.   *)
LEMMA QueueEffect ==
    ASSUME TypeOK, NEW lines \in [Clients -> Nat], Queue(lines)
    PROVE  /\ backlog' \in [Clients -> 0 .. Capacity]
           /\ marked' \subseteq Clients
           /\ marked \subseteq marked'
<1> SUFFICES ASSUME NEW c \in Clients
             PROVE  backlog'[c] \in 0 .. Capacity
  BY DEF Queue, TypeOK
<1>1. backlog[c] \in 0 .. Capacity /\ lines[c] \in Nat /\ Capacity \in Nat
  BY ConversationAssumption DEF TypeOK
<1>2. RoomLeft(c) \in 0 .. Capacity /\ backlog[c] + RoomLeft(c) = Capacity
  BY <1>1 DEF RoomLeft
<1>3. CASE c \in marked
  BY <1>1, <1>3 DEF Queue
<1>4. CASE c \notin marked /\ lines[c] <= RoomLeft(c)
  <2>1. backlog'[c] = backlog[c] + lines[c]
    BY <1>4 DEF Queue
  <2> QED
    BY <1>1, <1>4, <2>1 DEF RoomLeft
<1>5. CASE c \notin marked /\ ~(lines[c] <= RoomLeft(c))
  <2>1. backlog'[c] = backlog[c] + RoomLeft(c)
    BY <1>5 DEF Queue
  <2> QED
    BY <1>1, <1>2, <2>1
<1> QED
  BY <1>3, <1>4, <1>5

(* One number of lines to an audience is such a list.                      *)
LEMMA ToType ==
    ASSUME NEW audience, NEW n \in Nat
    PROVE  To(audience, n) \in [Clients -> Nat]
BY DEF To

(* Closed is a window.                                                     *)
LEMMA ClosedType == Closed \in Windows
BY DEF Closed, Windows

(* Who still receives lines shows what the handler meant it to show.       *)
LEMMA ShowEffect ==
    ASSUME NEW w \in [Clients -> Windows], Show(w)
    PROVE  /\ window' \in [Clients -> Windows]
           /\ \A c \in Clients \ marked' : window'[c] = w[c]
           /\ \A c \in Clients : window'[c] \in {w[c], Closed}
BY ClosedType DEF Show

(* A window grows by lines.                                                *)
LEMMA ShowingType ==
    ASSUME TypeOK, NEW audience, NEW lines \in Seq(Lines)
    PROVE  Showing(audience, lines) \in [Clients -> Windows]
<1> SUFFICES ASSUME NEW c \in Clients
             PROVE  [said |-> window[c].said, live |-> window[c].live \o lines] \in Windows
                    /\ window[c] \in Windows
  BY DEF Showing
<1>1. window[c] \in Windows
  BY DEF TypeOK
<1>2. window[c].live \o lines \in Seq(Lines)
  BY <1>1 DEF Windows
<1> QED
  BY <1>1, <1>2 DEF Windows

(* Closing one window.                                                     *)
LEMMA ClosingType ==
    ASSUME TypeOK, NEW p
    PROVE  /\ [c \in Clients |-> IF c = p THEN Closed ELSE window[c]]
                  \in [Clients -> Windows]
           /\ [window EXCEPT ![p] = Closed] \in [Clients -> Windows]
BY ClosedType DEF TypeOK

(* What is said in the channel is a sequence of lines.                     *)
LEMMA SpokenType ==
    ASSUME TypeOK, NEW c \in Clients, NEW kind \in Texts \cup {"notice"},
           NEW line, line = [from |-> c, kind |-> kind]
    PROVE  /\ line \in Lines /\ line # Answer
           /\ Exchange(line) \in Seq(Lines)
           /\ Len(Exchange(line)) \in 1 .. 2
           /\ Record(line) \in Seq(Lines)
<1>1. line \in Lines /\ Answer \in Lines
  BY DEF Lines, Answer
<1>2. line # Answer
  BY ConversationAssumption DEF Answer
<1>3. <<line>> \in Seq(Lines) /\ Len(<<line>>) = 1
  BY <1>1
<1>4. <<line, Answer>> \in Seq(Lines) /\ Len(<<line, Answer>>) = 2
  BY <1>1
<1>5. Exchange(line) = <<line>> \/ Exchange(line) = <<line, Answer>>
  BY DEF Exchange
<1>6. Record(line) \in Seq(Lines)
  BY <1>1 DEF Record, TypeOK
<1>7. Exchange(line) \in Seq(Lines)
  BY <1>3, <1>4, <1>5
<1>8. Len(Exchange(line)) \in 1 .. 2
  BY <1>3, <1>4, <1>5
<1> QED
  BY <1>1, <1>2, <1>6, <1>7, <1>8

(* Speaking in the channel: the record, and who is shown what.             *)
LEMMA SayEffect ==
    ASSUME TypeOK, NEW c \in Clients, NEW kind \in Texts \cup {"notice"},
           Say(c, [from |-> c, kind |-> kind])
    PROVE  LET line == [from |-> c, kind |-> kind]
           IN  /\ history' \in Seq(Lines)
               /\ backlog' \in [Clients -> 0 .. Capacity]
               /\ marked' \subseteq Clients
               /\ marked \subseteq marked'
               /\ window' \in [Clients -> Windows]
               /\ \A d \in Listeners \ marked' :
                     /\ window'[d].said = IF IsSaid(line)
                                          THEN Append(window[d].said, line)
                                          ELSE window[d].said
                     /\ window'[d].live = window[d].live \o Exchange(line)
<1> DEFINE line == [from |-> c, kind |-> kind]
           lines == [d \in Clients |->
                       IF d \notin members THEN 0
                       ELSE IF d = c THEN Len(Exchange(line)) - 1
                       ELSE Len(Exchange(line))]
           w == [d \in Clients |->
                   IF d \in members
                   THEN [said |-> IF IsSaid(line)
                                  THEN Append(window[d].said, line)
                                  ELSE window[d].said,
                         live |-> window[d].live \o ShownTo(c, d, line)]
                   ELSE window[d]]
<1>1. Queue(lines) /\ Show(w) /\ history' = Record(line)
  BY DEF Say
<1>2. line \in Lines
  BY DEF Lines
<1> HIDE DEF line
<1>3. /\ Exchange(line) \in Seq(Lines)
      /\ Len(Exchange(line)) \in 1 .. 2
      /\ Record(line) \in Seq(Lines)
  BY SpokenType DEF line
<1>4. lines \in [Clients -> Nat]
  BY <1>3
<1>5. w \in [Clients -> Windows]
  <2> SUFFICES ASSUME NEW d \in Clients
               PROVE  /\ window[d] \in Windows
                      /\ [said |-> IF IsSaid(line)
                                   THEN Append(window[d].said, line)
                                   ELSE window[d].said,
                          live |-> window[d].live \o ShownTo(c, d, line)]
                            \in Windows
    OBVIOUS
  <2>1. window[d] \in Windows
    BY DEF TypeOK
  <2>2. window[d].said \in Seq(Lines) /\ window[d].live \in Seq(Lines)
    BY <2>1 DEF Windows
  <2>3. Append(window[d].said, line) \in Seq(Lines)
    BY <1>2, <2>2
  <2>4. window[d].live \o ShownTo(c, d, line) \in Seq(Lines)
    BY <1>3, <2>2 DEF ShownTo
  <2> QED
    BY <2>1, <2>2, <2>3, <2>4 DEF Windows
<1>6. \A d \in Listeners :
         /\ w[d].said = IF IsSaid(line) THEN Append(window[d].said, line)
                                        ELSE window[d].said
         /\ w[d].live = window[d].live \o Exchange(line)
  BY DEF Listeners, ShownTo
<1> HIDE DEF lines, w
<1>7. /\ window' \in [Clients -> Windows]
      /\ \A d \in Listeners \ marked' : window'[d] = w[d]
  BY <1>1, <1>5, ShowEffect DEF Listeners
<1>8. /\ backlog' \in [Clients -> 0 .. Capacity]
      /\ marked' \subseteq Clients
      /\ marked \subseteq marked'
  BY <1>1, <1>4, QueueEffect
<1>9. ASSUME NEW d \in Listeners \ marked'
      PROVE  /\ window'[d].said = IF IsSaid(line)
                                  THEN Append(window[d].said, line)
                                  ELSE window[d].said
             /\ window'[d].live = window[d].live \o Exchange(line)
  <2>1. d \in Listeners /\ window'[d] = w[d]
    BY <1>7, <1>9
  <2> QED
    BY <1>6, <2>1
<1> QED
  BY <1>1, <1>3, <1>7, <1>8, <1>9 DEF line

-----------------------------------------------------------------------------
(* Types.                                                                  *)

(* A handler that queues lines and shows windows of the right type keeps   *)
(* the types of what it is sent through.                                   *)
LEMMA DeliveryTypes ==
    ASSUME TypeOK, NEW lines \in [Clients -> Nat],
           NEW w \in [Clients -> Windows], Queue(lines), Show(w)
    PROVE  /\ backlog' \in [Clients -> 0 .. Capacity]
           /\ marked' \subseteq Clients
           /\ window' \in [Clients -> Windows]
BY QueueEffect, ShowEffect

(* Leaving keeps the types of channel and history.                         *)
LEMMA LeaveTypes ==
    ASSUME TypeOK, NEW p, Leave(p)
    PROVE  members' \subseteq Users /\ history' \in Seq(Lines)
BY DEF Leave, TypeOK

(* The types are kept by every step.                                       *)
LEMMA TypeStep == TypeOK /\ [Next]_vars => TypeOK'
<1> SUFFICES ASSUME TypeOK, [Next]_vars PROVE TypeOK'
  OBVIOUS
<1>w. window \in [Clients -> Windows]
  BY DEF TypeOK
<1>1. CASE UNCHANGED vars
  BY <1>1 DEF TypeOK, vars
<1>2. ASSUME NEW c \in Clients, Connect(c) PROVE TypeOK'
  BY <1>2 DEF Connect, TypeOK
<1>3. ASSUME NEW c \in Clients, Register(c) PROVE TypeOK'
  <2>1. To({c}, 1) \in [Clients -> Nat]
    BY ToType
  <2>2. Queue(To({c}, 1)) /\ Show(window)
    BY <1>3 DEF Register
  <2> QED
    BY <1>3, <1>w, <2>1, <2>2, DeliveryTypes DEF Register, TypeOK
<1>4. ASSUME NEW c \in Clients, RequestDisconnect(c) PROVE TypeOK'
  BY <1>4, <1>w, ShowEffect DEF RequestDisconnect, TypeOK
<1>5. ASSUME NEW c \in Clients, Flush(c) PROVE TypeOK'
  <2>1. PICK n \in 0 .. backlog[c] - 1 : backlog' = [backlog EXCEPT ![c] = n]
    BY <1>5 DEF Flush
  <2>2. backlog[c] \in 0 .. Capacity /\ Capacity \in Nat
    BY ConversationAssumption DEF TypeOK
  <2>3. n \in 0 .. Capacity
    BY <2>2
  <2> QED
    BY <1>5, <2>1, <2>3 DEF Flush, TypeOK
<1>6. ASSUME NEW c \in Clients, Disconnect(c) PROVE TypeOK'
  <2>1. backlog' \in [Clients -> 0 .. Capacity]
    <3> SUFFICES ASSUME NEW d \in Clients PROVE backlog'[d] \in 0 .. Capacity
      BY <1>6 DEF Disconnect
    <3>1. backlog[d] \in 0 .. Capacity /\ Capacity \in Nat
      BY ConversationAssumption DEF TypeOK
    <3>2. \/ backlog'[d] \in {0, backlog[d]}
          \/ Capacity - backlog[d] >= 1 /\ backlog'[d] = backlog[d] + 1
      BY <1>6 DEF Disconnect, RoomLeft
    <3> QED
      BY <3>1, <3>2
  <2>2. marked' \subseteq Clients
    BY <1>6 DEF Disconnect, TypeOK, Listeners
  <2>3. [window EXCEPT ![c] = Closed] \in [Clients -> Windows]
    BY ClosingType
  <2>4. window' \in [Clients -> Windows]
    BY <1>6, <2>3, ShowEffect DEF Disconnect
  <2> QED
    BY <1>6, <2>1, <2>2, <2>4, LeaveTypes DEF Disconnect, TypeOK
<1>7. ASSUME NEW c \in Clients, Join(c) PROVE TypeOK'
  <2> DEFINE lines == [d \in Clients |-> IF d = c THEN 1 + Len(Replay)
                                         ELSE IF d \in members THEN 1 ELSE 0]
             w == [window EXCEPT ![c] = [said |-> Replay, live |-> <<>>]]
  <2>1. lines \in [Clients -> Nat]
    BY DEF Replay, TypeOK
  <2>2. [said |-> Replay, live |-> <<>>] \in Windows
    BY DEF Replay, Windows, TypeOK
  <2>3. w \in [Clients -> Windows]
    BY <1>w, <2>2
  <2>4. Queue(lines) /\ Show(w)
    BY <1>7 DEF Join
  <2> HIDE DEF lines, w
  <2>5. /\ backlog' \in [Clients -> 0 .. Capacity]
        /\ marked' \subseteq Clients
        /\ window' \in [Clients -> Windows]
    BY <2>1, <2>3, <2>4, DeliveryTypes
  <2> QED
    BY <1>7, <2>5 DEF Join, TypeOK, Users
<1>8. ASSUME NEW p \in Users, Depart(p) PROVE TypeOK'
  <2> DEFINE w == [d \in Clients |-> IF d = p THEN Closed ELSE window[d]]
  <2>1. To(Listeners, 1) \in [Clients -> Nat]
    BY ToType
  <2>2. w \in [Clients -> Windows]
    BY ClosingType
  <2>3. Queue(To(Listeners, 1)) /\ Show(w)
    BY <1>8 DEF Depart
  <2> HIDE DEF w
  <2> QED
    BY <1>8, <2>1, <2>2, <2>3, DeliveryTypes, LeaveTypes DEF Depart, TypeOK
<1>9. ASSUME NEW c \in Clients, InviteBot(c) PROVE TypeOK'
  <2> DEFINE w == Showing(Listeners, <<[from |-> Bot, kind |-> "greeting"]>>)
  <2>1. To(Listeners, 2) \in [Clients -> Nat]
    BY ToType
  <2>2. [from |-> Bot, kind |-> "greeting"] \in Lines
    BY DEF Lines
  <2>3. <<[from |-> Bot, kind |-> "greeting"]>> \in Seq(Lines)
    BY <2>2
  <2>4. w \in [Clients -> Windows]
    BY <2>3, ShowingType
  <2>5. Queue(To(Listeners, 2)) /\ Show(w)
    BY <1>9 DEF InviteBot
  <2> HIDE DEF w
  <2> QED
    BY <1>9, <2>1, <2>4, <2>5, DeliveryTypes DEF InviteBot, TypeOK, Users
<1>10. ASSUME NEW c \in Clients, NEW kind \in Texts \cup {"notice"},
              Say(c, [from |-> c, kind |-> kind])
       PROVE  TypeOK'
  BY <1>10, SayEffect DEF Say, TypeOK
<1>11. ASSUME NEW c \in Clients, NEW d \in Clients, Queue(To({d}, 1)),
              Show(window), UNCHANGED <<stage, members, history>>
       PROVE  TypeOK'
  <2>1. To({d}, 1) \in [Clients -> Nat]
    BY ToType
  <2> QED
    BY <1>11, <1>w, <2>1, DeliveryTypes DEF TypeOK
<1> QED
  <2> SUFFICES ASSUME Next PROVE TypeOK'
    BY <1>1
  <2>1. PICK c \in Clients : Connection(c) \/ Presence(c) \/ Speech(c)
    BY DEF Next
  <2>2. CASE Connection(c)
    BY <2>2, <1>2, <1>3, <1>4, <1>5, <1>6 DEF Connection
  <2>3. CASE Presence(c)
    BY <2>3, <1>7, <1>8, <1>9 DEF Presence, Part, Kick, Users
  <2>4. CASE Speech(c)
    BY <2>4, <1>10, <1>11 DEF Speech, Privmsg, Notice, AskBot, Pass, Refuse
  <2> QED
    BY <2>1, <2>2, <2>3, <2>4

(* Every variable keeps its type under every command; in particular no     *)
(* output buffer ever holds more than it may (Server::queueMessage).       *)
THEOREM TypeCorrect == Spec => []TypeOK
<1>1. Init => TypeOK
  <2> SUFFICES ASSUME Init PROVE TypeOK
    OBVIOUS
  <2>0. Capacity \in Nat
    BY ConversationAssumption
  <2>1. 0 \in 0 .. Capacity
    BY <2>0
  <2>2. <<>> \in Seq(Lines)
    OBVIOUS
  <2> QED
    BY <2>1, <2>2, ClosedType DEF Init, TypeOK
<1> QED
  BY <1>1, TypeStep, PTL DEF Spec

-----------------------------------------------------------------------------
(* The conversation.                                                       *)

(* What must be shown after a step for the story to stay the same.         *)
LEMMA StoryShown ==
    ASSUME NEW w \in [Clients -> Windows], Show(w),
           \A d \in Hearing' : w[d].said = history'
    PROVE  SameStory'
BY ShowEffect DEF SameStory, Hearing, Listeners

(* Who has left no longer counts, and whoever stays keeps what was said.   *)
LEMMA StoryAfterLeaving ==
    ASSUME SameStory, NEW p, Leave(p), NEW w \in [Clients -> Windows], Show(w),
           marked \ {p} \subseteq marked',
           \A d \in Clients \ {p} : w[d] = window[d]
    PROVE  SameStory'
<1> SUFFICES ASSUME NEW d \in Hearing' PROVE w[d].said = history'
  BY StoryShown
<1>1. d \in Clients /\ d # p /\ d \in Hearing
  BY DEF Hearing, Listeners, Leave
<1>2. history' = history
  BY <1>1 DEF Leave, Hearing, Listeners
<1> QED
  BY <1>1, <1>2 DEF SameStory

(* Every step keeps the story.                                             *)
LEMMA StoryStep == TypeOK /\ SameStory /\ [Next]_vars => SameStory'
<1> SUFFICES ASSUME TypeOK, SameStory, [Next]_vars PROVE SameStory'
  OBVIOUS
<1>w. window \in [Clients -> Windows]
  BY DEF TypeOK
<1>0. ASSUME UNCHANGED <<members, history>>, marked \subseteq marked',
             Show(window)
      PROVE  SameStory'
  <2>1. Hearing' \subseteq Hearing
    BY <1>0 DEF Hearing, Listeners
  <2>2. \A d \in Hearing' : window[d].said = history'
    BY <1>0, <2>1 DEF SameStory
  <2> QED
    BY <1>0, <1>w, <2>2, StoryShown
<1>1. ASSUME UNCHANGED <<marked, members, history, window>>
      PROVE  SameStory'
  BY <1>1 DEF SameStory, Hearing, Listeners
<1>2. ASSUME NEW d \in Clients, Queue(To({d}, 1)), Show(window),
             UNCHANGED <<members, history>>
      PROVE  SameStory'
  BY <1>0, <1>2, QueueEffect, ToType
<1>3. ASSUME NEW c \in Clients, Disconnect(c) PROVE SameStory'
  <2> DEFINE w == [window EXCEPT ![c] = Closed]
  <2>1. w \in [Clients -> Windows] /\ \A d \in Clients \ {c} : w[d] = window[d]
    BY <1>w, ClosingType
  <2>2. Leave(c) /\ Show(w) /\ marked \ {c} \subseteq marked'
    BY <1>3 DEF Disconnect
  <2> HIDE DEF w
  <2> QED
    BY <2>1, <2>2, StoryAfterLeaving
<1>4. ASSUME NEW p \in Users, Depart(p) PROVE SameStory'
  <2> DEFINE w == [d \in Clients |-> IF d = p THEN Closed ELSE window[d]]
  <2>1. w \in [Clients -> Windows] /\ \A d \in Clients \ {p} : w[d] = window[d]
    BY ClosingType
  <2>2. Leave(p) /\ Show(w) /\ Queue(To(Listeners, 1))
    BY <1>4 DEF Depart
  <2>3. marked \subseteq marked'
    BY <2>2, ToType, QueueEffect
  <2> HIDE DEF w
  <2> QED
    BY <2>1, <2>2, <2>3, StoryAfterLeaving
<1>5. ASSUME NEW c \in Clients, Join(c) PROVE SameStory'
  <2> DEFINE lines == [d \in Clients |-> IF d = c THEN 1 + Len(Replay)
                                         ELSE IF d \in members THEN 1 ELSE 0]
             w == [window EXCEPT ![c] = [said |-> Replay, live |-> <<>>]]
  <2>1. lines \in [Clients -> Nat]
    BY DEF Replay, TypeOK
  <2>2. [said |-> Replay, live |-> <<>>] \in Windows
    BY DEF Replay, Windows, TypeOK
  <2>3. w \in [Clients -> Windows] /\ w[c].said = history
        /\ \A d \in Clients \ {c} : w[d] = window[d]
    BY <1>w, <2>2 DEF Replay
  <2>4. Queue(lines) /\ Show(w) /\ history' = history
        /\ members' = members \cup {c}
    BY <1>5 DEF Join
  <2> HIDE DEF lines, w
  <2>5. marked \subseteq marked'
    BY <2>1, <2>4, QueueEffect
  <2>6. ASSUME NEW d \in Hearing' PROVE w[d].said = history'
    <3>1. CASE d = c
      BY <2>3, <2>4, <3>1
    <3>2. CASE d # c
      BY <2>3, <2>4, <2>5, <2>6, <3>2 DEF SameStory, Hearing, Listeners
    <3> QED
      BY <3>1, <3>2
  <2> QED
    BY <2>3, <2>4, <2>6, StoryShown
<1>6. ASSUME NEW c \in Clients, InviteBot(c) PROVE SameStory'
  <2> DEFINE greeting == <<[from |-> Bot, kind |-> "greeting"]>>
             w == Showing(Listeners, greeting)
  <2>1. greeting \in Seq(Lines)
    BY DEF Lines
  <2>2. w \in [Clients -> Windows]
    BY <2>1, ShowingType
  <2>3. \A d \in Clients : w[d].said = window[d].said
    BY DEF Showing
  <2>4. Queue(To(Listeners, 2)) /\ Show(w) /\ history' = history
        /\ members' = members \cup {Bot}
    BY <1>6 DEF InviteBot
  <2> HIDE DEF w
  <2>5. marked \subseteq marked'
    BY <2>4, ToType, QueueEffect
  <2>6. ASSUME NEW d \in Hearing' PROVE w[d].said = history'
    <3>1. d \in Hearing
      BY <2>4, <2>5, <2>6, ConversationAssumption DEF Hearing, Listeners
    <3> QED
      BY <2>3, <2>4, <3>1 DEF SameStory, Hearing, Listeners
  <2> QED
    BY <2>2, <2>4, <2>6, StoryShown
<1>7. ASSUME NEW c \in Clients, NEW kind \in Texts \cup {"notice"},
             Say(c, [from |-> c, kind |-> kind])
      PROVE  SameStory'
  <2> DEFINE line == [from |-> c, kind |-> kind]
  <2>1. /\ marked \subseteq marked'
        /\ \A d \in Listeners \ marked' :
              window'[d].said = IF IsSaid(line)
                                THEN Append(window[d].said, line)
                                ELSE window[d].said
    BY <1>7, SayEffect
  <2>2. history' = IF IsSaid(line) THEN Append(history, line) ELSE history
    <3>1. kind = "notice" <=> ~(kind \in Texts)
      BY ConversationAssumption
    <3> QED
      BY <1>7, <3>1 DEF Say, Record, IsSaid
  <2>3. members' = members
    BY <1>7 DEF Say
  <2> HIDE DEF line
  <2> SUFFICES ASSUME NEW d \in Hearing' PROVE window'[d].said = history'
    BY DEF SameStory
  <2>4. d \in Listeners \ marked' /\ d \in Hearing
    BY <2>1, <2>3 DEF Hearing, Listeners
  <2> QED
    BY <2>1, <2>2, <2>4 DEF SameStory
<1> QED
  <2>1. CASE UNCHANGED vars
    BY <1>1, <2>1 DEF vars
  <2> SUFFICES ASSUME Next PROVE SameStory'
    BY <2>1
  <2>2. PICK c \in Clients : Connection(c) \/ Presence(c) \/ Speech(c)
    BY DEF Next
  <2>3. CASE Connection(c)
    BY <2>3, <1>0, <1>1, <1>2, <1>3
       DEF Connection, Connect, Register, RequestDisconnect, Flush
  <2>4. CASE Presence(c)
    BY <2>4, <1>4, <1>5, <1>6 DEF Presence, Part, Kick, Users
  <2>5. CASE Speech(c)
    BY <2>5, <1>2, <1>7 DEF Speech, Privmsg, Notice, AskBot, Pass, Refuse
  <2> QED
    BY <2>2, <2>3, <2>4, <2>5

(* Early and late members know the same conversation, for any number of    *)
(* members, any history and any output limit.                              *)
THEOREM StoryAlwaysSame == Spec => []SameStory
<1>1. Init => SameStory
  BY DEF Init, SameStory, Hearing, Listeners
<1> QED
  BY <1>1, StoryStep, TypeCorrect, PTL DEF Spec

-----------------------------------------------------------------------------
(* The bot's answers.                                                      *)

Polite(live) ==
    \A n \in DOMAIN live :
        live[n] = Answer => n > 1 /\ live[n - 1].kind = "question"

(* A line that is no answer may follow anything.                           *)
LEMMA PoliteLine ==
    ASSUME NEW live \in Seq(Lines), Polite(live),
           NEW line \in Lines, line # Answer
    PROVE  Polite(live \o <<line>>)
<1> DEFINE new == live \o <<line>>
<1>1. /\ new \in Seq(Lines) /\ Len(new) = Len(live) + 1
      /\ \A n \in 1 .. Len(live) : new[n] = live[n]
      /\ new[Len(live) + 1] = line
  OBVIOUS
<1>2. DOMAIN live = 1 .. Len(live) /\ DOMAIN new = 1 .. Len(live) + 1
      /\ Len(live) \in Nat
  BY <1>1
<1> HIDE DEF new
<1>3. ASSUME NEW n \in DOMAIN new, new[n] = Answer
      PROVE  n > 1 /\ new[n - 1].kind = "question"
  <2>1. n \in 1 .. Len(live)
    BY <1>1, <1>2, <1>3
  <2>2. n > 1 /\ live[n - 1].kind = "question"
    BY <1>1, <1>2, <1>3, <2>1 DEF Polite
  <2>3. n - 1 \in 1 .. Len(live)
    BY <1>2, <2>1, <2>2
  <2> QED
    BY <1>1, <2>2, <2>3
<1> QED
  BY <1>3 DEF Polite, new

(* An answer may follow a question.                                        *)
LEMMA PoliteAnswer ==
    ASSUME NEW live \in Seq(Lines), Polite(live),
           NEW line \in Lines, line # Answer, line.kind = "question"
    PROVE  Polite(live \o <<line, Answer>>)
<1> DEFINE new == live \o <<line, Answer>>
<1>0. Answer \in Lines
  BY DEF Answer, Lines
<1>1. /\ new \in Seq(Lines) /\ Len(new) = Len(live) + 2
      /\ \A n \in 1 .. Len(live) : new[n] = live[n]
      /\ new[Len(live) + 1] = line
  BY <1>0
<1>2. DOMAIN live = 1 .. Len(live) /\ DOMAIN new = 1 .. Len(live) + 2
      /\ Len(live) \in Nat
  BY <1>1
<1> HIDE DEF new
<1>3. ASSUME NEW n \in DOMAIN new, new[n] = Answer
      PROVE  n > 1 /\ new[n - 1].kind = "question"
  <2>1. n \in 1 .. Len(live) \/ n = Len(live) + 2
    BY <1>1, <1>2, <1>3
  <2>2. CASE n \in 1 .. Len(live)
    <3>1. n > 1 /\ live[n - 1].kind = "question"
      BY <1>1, <1>2, <1>3, <2>2 DEF Polite
    <3>2. n - 1 \in 1 .. Len(live)
      BY <1>2, <2>2, <3>1
    <3> QED
      BY <1>1, <3>1, <3>2
  <2>3. CASE n = Len(live) + 2
    <3>1. n - 1 = Len(live) + 1 /\ n > 1
      BY <1>2, <2>3
    <3> QED
      BY <1>1, <3>1
  <2> QED
    BY <2>1, <2>2, <2>3
<1> QED
  BY <1>3 DEF Polite, new

(* Every step keeps the bot polite.                                        *)
LEMMA PoliteStep ==
    TypeOK /\ AnswersFollowQuestions /\ [Next]_vars => AnswersFollowQuestions'
<1> SUFFICES ASSUME TypeOK, AnswersFollowQuestions, [Next]_vars
             PROVE  AnswersFollowQuestions'
  OBVIOUS
<1>p. \A d \in Hearing : window[d].live \in Seq(Lines) /\ Polite(window[d].live)
  BY DEF AnswersFollowQuestions, Polite, TypeOK, Windows, Hearing, Listeners
<1>q. ASSUME \A d \in Hearing' : Polite(window'[d].live)
      PROVE  AnswersFollowQuestions'
  BY <1>q DEF AnswersFollowQuestions, Polite, Answer
<1>w. window \in [Clients -> Windows]
  BY DEF TypeOK
<1>c. Polite(Closed.live)
  BY DEF Polite, Closed
<1>s. ASSUME NEW w \in [Clients -> Windows], Show(w),
             \A d \in Hearing' : Polite(w[d].live)
      PROVE  AnswersFollowQuestions'
  BY <1>s, <1>q, ShowEffect DEF Hearing, Listeners
<1>k. ASSUME NEW p, NEW w \in [Clients -> Windows], Show(w),
             marked \ {p} \subseteq marked', members' \subseteq members \cup {p},
             \A d \in Clients \ {p} : w[d] = window[d],
             p \in Clients => w[p].live = <<>>
      PROVE  AnswersFollowQuestions'
  <2> SUFFICES ASSUME NEW d \in Hearing' PROVE Polite(w[d].live)
    BY <1>k, <1>s
  <2>1. CASE d = p
    BY <1>k, <2>1 DEF Polite, Hearing, Listeners
  <2>2. CASE d # p
    BY <1>k, <1>p, <2>2 DEF Hearing, Listeners
  <2> QED
    BY <2>1, <2>2
<1>0. ASSUME UNCHANGED members, marked \subseteq marked', Show(window)
      PROVE  AnswersFollowQuestions'
  <2>1. \A d \in Hearing' : Polite(window[d].live)
    BY <1>0, <1>p DEF Hearing, Listeners
  <2> QED
    BY <1>0, <1>w, <1>s, <2>1
<1>1. ASSUME UNCHANGED <<marked, members, window>>
      PROVE  AnswersFollowQuestions'
  BY <1>1, <1>p, <1>q DEF Hearing, Listeners
<1>2. ASSUME NEW d \in Clients, Queue(To({d}, 1)), Show(window),
             UNCHANGED members
      PROVE  AnswersFollowQuestions'
  BY <1>0, <1>2, QueueEffect, ToType
<1>3. ASSUME NEW c \in Clients, Disconnect(c) PROVE AnswersFollowQuestions'
  <2> DEFINE w == [window EXCEPT ![c] = Closed]
  <2>1. /\ w \in [Clients -> Windows] /\ w[c].live = <<>>
        /\ \A d \in Clients \ {c} : w[d] = window[d]
    BY <1>w, ClosingType DEF Closed
  <2>2. /\ Show(w) /\ marked \ {c} \subseteq marked'
        /\ members' \subseteq members \cup {c}
    BY <1>3 DEF Disconnect, Leave
  <2> HIDE DEF w
  <2> QED
    BY <2>1, <2>2, <1>k
<1>4. ASSUME NEW p \in Users, Depart(p) PROVE AnswersFollowQuestions'
  <2> DEFINE w == [d \in Clients |-> IF d = p THEN Closed ELSE window[d]]
  <2>1. /\ w \in [Clients -> Windows]
        /\ p \in Clients => w[p].live = <<>>
        /\ \A d \in Clients \ {p} : w[d] = window[d]
    BY ClosingType DEF Closed
  <2>2. /\ Show(w) /\ Queue(To(Listeners, 1))
        /\ members' \subseteq members \cup {p}
    BY <1>4 DEF Depart, Leave
  <2>3. marked \subseteq marked'
    BY <2>2, ToType, QueueEffect
  <2> HIDE DEF w
  <2> QED
    BY <2>1, <2>2, <2>3, <1>k
<1>5. ASSUME NEW c \in Clients, Join(c) PROVE AnswersFollowQuestions'
  <2> DEFINE lines == [d \in Clients |-> IF d = c THEN 1 + Len(Replay)
                                         ELSE IF d \in members THEN 1 ELSE 0]
             w == [window EXCEPT ![c] = [said |-> Replay, live |-> <<>>]]
  <2>1. lines \in [Clients -> Nat]
    BY DEF Replay, TypeOK
  <2>2. [said |-> Replay, live |-> <<>>] \in Windows
    BY DEF Replay, Windows, TypeOK
  <2>3. /\ w \in [Clients -> Windows] /\ w[c].live = <<>>
        /\ \A d \in Clients \ {c} : w[d] = window[d]
    BY <1>w, <2>2
  <2>4. Queue(lines) /\ Show(w) /\ members' \subseteq members \cup {c}
    BY <1>5 DEF Join
  <2> HIDE DEF lines, w
  <2>5. marked \subseteq marked'
    BY <2>1, <2>4, QueueEffect
  <2> QED
    BY <2>3, <2>4, <2>5, <1>k
<1>6. ASSUME NEW c \in Clients, InviteBot(c) PROVE AnswersFollowQuestions'
  <2> DEFINE greeting == [from |-> Bot, kind |-> "greeting"]
             w == Showing(Listeners, <<greeting>>)
  <2>1. greeting \in Lines /\ greeting # Answer
    BY DEF Lines, Answer
  <2>2. <<greeting>> \in Seq(Lines)
    BY <2>1
  <2>3. w \in [Clients -> Windows]
    BY <2>2, ShowingType
  <2>4. \A d \in Listeners : w[d].live = window[d].live \o <<greeting>>
    BY DEF Showing, Listeners
  <2>5. Queue(To(Listeners, 2)) /\ Show(w) /\ members' = members \cup {Bot}
    BY <1>6 DEF InviteBot
  <2> HIDE DEF greeting, w
  <2>6. marked \subseteq marked'
    BY <2>5, ToType, QueueEffect
  <2>7. ASSUME NEW d \in Hearing' PROVE Polite(w[d].live)
    <3>1. d \in Hearing /\ d \in Listeners
      BY <2>5, <2>6, <2>7, ConversationAssumption DEF Hearing, Listeners
    <3> QED
      BY <1>p, <2>1, <2>4, <3>1, PoliteLine
  <2> QED
    BY <2>3, <2>5, <2>7, <1>s
<1>7. ASSUME NEW c \in Clients, NEW kind \in Texts \cup {"notice"},
             Say(c, [from |-> c, kind |-> kind])
      PROVE  AnswersFollowQuestions'
  <2> DEFINE line == [from |-> c, kind |-> kind]
  <2>1. /\ marked \subseteq marked'
        /\ \A d \in Listeners \ marked' :
              window'[d].live = window[d].live \o Exchange(line)
    BY <1>7, SayEffect
  <2>2. line \in Lines /\ line # Answer
    BY SpokenType
  <2>3. members' = members
    BY <1>7 DEF Say
  <2> HIDE DEF line
  <2> SUFFICES ASSUME NEW d \in Hearing' PROVE Polite(window'[d].live)
    BY <1>q
  <2>4. d \in Listeners \ marked' /\ d \in Hearing
    BY <2>1, <2>3 DEF Hearing, Listeners
  <2>5. CASE Answered(line)
    BY <1>p, <2>1, <2>2, <2>4, <2>5, PoliteAnswer DEF Exchange, Answered
  <2>6. CASE ~Answered(line)
    BY <1>p, <2>1, <2>2, <2>4, <2>6, PoliteLine DEF Exchange
  <2> QED
    BY <2>5, <2>6
<1> QED
  <2>1. CASE UNCHANGED vars
    BY <1>1, <2>1 DEF vars
  <2> SUFFICES ASSUME Next PROVE AnswersFollowQuestions'
    BY <2>1
  <2>2. PICK c \in Clients : Connection(c) \/ Presence(c) \/ Speech(c)
    BY DEF Next
  <2>3. CASE Connection(c)
    BY <2>3, <1>0, <1>1, <1>2, <1>3
       DEF Connection, Connect, Register, RequestDisconnect, Flush
  <2>4. CASE Presence(c)
    BY <2>4, <1>4, <1>5, <1>6 DEF Presence, Part, Kick, Users
  <2>5. CASE Speech(c)
    BY <2>5, <1>2, <1>7 DEF Speech, Privmsg, Notice, AskBot, Pass, Refuse
  <2> QED
    BY <2>2, <2>3, <2>4, <2>5

(* The bot speaks only when spoken to, and everybody sees the question     *)
(* first.                                                                  *)
THEOREM AnswersAlwaysFollow == Spec => []AnswersFollowQuestions
<1>1. Init => AnswersFollowQuestions
  BY DEF Init, AnswersFollowQuestions, Hearing, Listeners
<1> QED
  BY <1>1, PoliteStep, TypeCorrect, PTL DEF Spec

-----------------------------------------------------------------------------
(* One order.                                                              *)

(* The end of t, place by place.                                           *)
Ends(t, s) ==
    /\ Len(s) <= Len(t)
    /\ \A k \in 1 .. Len(s) : s[k] = t[Len(t) - Len(s) + k]

LEMMA ReverseType ==
    ASSUME NEW s \in Seq(Lines)
    PROVE  /\ Reverse(s) \in Seq(Lines) /\ Len(Reverse(s)) = Len(s)
           /\ \A i \in 1 .. Len(s) : Reverse(s)[i] = s[Len(s) - i + 1]
<1>1. PICK m \in Nat : m = Len(s)
  OBVIOUS
<1>2. \A i \in 1 .. m : s[m - i + 1] \in Lines
  BY <1>1
<1>3. Reverse(s) = [i \in 1 .. m |-> s[m - i + 1]]
  BY <1>1 DEF Reverse
<1> QED
  BY <1>1, <1>2, <1>3

LEMMA SuffixMeans ==
    ASSUME NEW s \in Seq(Lines), NEW t \in Seq(Lines)
    PROVE  IsSuffix(s, t) <=> Ends(t, s)
<1> DEFINE x == Reverse(s)
           y == Reverse(t)
<1>1. PICK m \in Nat, n \in Nat : m = Len(s) /\ n = Len(t)
  OBVIOUS
<1>2. /\ x \in Seq(Lines) /\ y \in Seq(Lines) /\ Len(x) = m /\ Len(y) = n
      /\ \A i \in 1 .. m : x[i] = s[m - i + 1]
      /\ \A i \in 1 .. n : y[i] = t[n - i + 1]
  BY <1>1, ReverseType
<1>3. IsSuffix(s, t) <=> m <= n /\ SubSeq(x, 1, m) = SubSeq(y, 1, m)
  BY <1>2 DEF IsSuffix, IsPrefix
<1> HIDE DEF x, y
<1> SUFFICES ASSUME m <= n
             PROVE  SubSeq(x, 1, m) = SubSeq(y, 1, m) <=> Ends(t, s)
  BY <1>1, <1>3 DEF Ends
<1>4. SubSeq(x, 1, m) = SubSeq(y, 1, m) <=> \A i \in 1 .. m : x[i] = y[i]
  <2>1. /\ SubSeq(x, 1, m) \in Seq(Lines) /\ SubSeq(y, 1, m) \in Seq(Lines)
        /\ Len(SubSeq(x, 1, m)) = m /\ Len(SubSeq(y, 1, m)) = m
        /\ \A i \in 1 .. m : SubSeq(x, 1, m)[i] = x[i]
        /\ \A i \in 1 .. m : SubSeq(y, 1, m)[i] = y[i]
    BY <1>2
  <2> QED
    BY <2>1
<1>5. ASSUME \A i \in 1 .. m : x[i] = y[i], NEW k \in 1 .. m
      PROVE  s[k] = t[n - m + k]
  <2>1. m - k + 1 \in 1 .. m /\ m - k + 1 \in 1 .. n
    OBVIOUS
  <2>2. x[m - k + 1] = s[m - (m - k + 1) + 1]
        /\ y[m - k + 1] = t[n - (m - k + 1) + 1]
    BY <1>2, <2>1
  <2>3. m - (m - k + 1) + 1 = k /\ n - (m - k + 1) + 1 = n - m + k
    OBVIOUS
  <2> QED
    BY <1>5, <2>1, <2>2, <2>3
<1>6. ASSUME \A k \in 1 .. m : s[k] = t[n - m + k], NEW i \in 1 .. m
      PROVE  x[i] = y[i]
  <2>1. m - i + 1 \in 1 .. m /\ i \in 1 .. n
    OBVIOUS
  <2>2. n - m + (m - i + 1) = n - i + 1
    OBVIOUS
  <2>3. s[m - i + 1] = t[n - m + (m - i + 1)]
    BY <1>6, <2>1
  <2> QED
    BY <1>2, <2>1, <2>2, <2>3
<1> QED
  BY <1>1, <1>4, <1>5, <1>6 DEF Ends

(* What both are told next keeps them in step.                             *)
LEMMA EndsTogether ==
    ASSUME NEW s \in Seq(Lines), NEW t \in Seq(Lines), NEW e \in Seq(Lines),
           Ends(t, s)
    PROVE  Ends(t \o e, s \o e)
<1>1. PICK m \in Nat, n \in Nat, l \in Nat :
         m = Len(s) /\ n = Len(t) /\ l = Len(e)
  OBVIOUS
<1> DEFINE x == s \o e
           y == t \o e
<1>2. /\ Len(x) = m + l /\ Len(y) = n + l
      /\ \A i \in 1 .. m : x[i] = s[i]
      /\ \A i \in (m + 1) .. (m + l) : x[i] = e[i - m]
      /\ \A i \in 1 .. n : y[i] = t[i]
      /\ \A i \in (n + 1) .. (n + l) : y[i] = e[i - n]
  BY <1>1
<1> HIDE DEF x, y
<1>3. m <= n /\ \A k \in 1 .. m : s[k] = t[n - m + k]
  BY <1>1 DEF Ends
<1>4. ASSUME NEW k \in 1 .. (m + l) PROVE x[k] = y[(n + l) - (m + l) + k]
  <2>1. (n + l) - (m + l) + k = n - m + k
    OBVIOUS
  <2>2. CASE k \in 1 .. m
    <3>1. n - m + k \in 1 .. n
      BY <1>3, <2>2
    <3> QED
      BY <1>2, <1>3, <2>1, <2>2, <3>1
  <2>3. CASE k \in (m + 1) .. (m + l)
    <3>1. n - m + k \in (n + 1) .. (n + l) /\ (n - m + k) - n = k - m
      BY <1>3, <2>3
    <3> QED
      BY <1>2, <2>1, <2>3, <3>1
  <2> QED
    BY <2>2, <2>3
<1>5. m + l <= n + l
  BY <1>3
<1>6. Ends(y, x)
  BY <1>2, <1>4, <1>5 DEF Ends
<1> QED
  BY <1>6 DEF x, y

InStep(s, t) == IsSuffix(s, t) \/ IsSuffix(t, s)

LEMMA InStepTogether ==
    ASSUME NEW s \in Seq(Lines), NEW t \in Seq(Lines), NEW e \in Seq(Lines),
           InStep(s, t)
    PROVE  InStep(s \o e, t \o e)
<1>1. s \o e \in Seq(Lines) /\ t \o e \in Seq(Lines)
  OBVIOUS
<1> QED
  BY <1>1, SuffixMeans, EndsTogether DEF InStep

(* Whoever has just entered, or stands alone, is in step with everybody.   *)
LEMMA InStepAtFirst ==
    ASSUME NEW s \in Seq(Lines)
    PROVE  InStep(s, <<>>) /\ InStep(<<>>, s)
<1>1. Ends(s, <<>>) /\ <<>> \in Seq(Lines)
  BY DEF Ends
<1>2. IsSuffix(<<>>, s)
  BY <1>1, SuffixMeans
<1> QED
  BY <1>2 DEF InStep

(* A step that adds the same lines to what all show who stay, and nothing  *)
(* to what a newcomer shows, keeps them in step.                           *)
LEMMA OrderKept ==
    ASSUME TypeOK, OneOrder, NEW e \in Seq(Lines),
           NEW w \in [Clients -> Windows], Show(w), NEW p,
           \A d \in Hearing' \ {p} :
              d \in Hearing /\ w[d].live = window[d].live \o e,
           p \in Hearing' => w[p].live = <<>>
    PROVE  OneOrder'
<1>1. \A d \in Hearing' : d \in Clients /\ window'[d] = w[d]
  BY ShowEffect DEF Hearing, Listeners
<1> SUFFICES ASSUME NEW c \in Hearing', NEW d \in Hearing'
             PROVE  InStep(w[c].live, w[d].live)
  BY <1>1 DEF OneOrder, InStep
<1>2. w[c].live \in Seq(Lines) /\ w[d].live \in Seq(Lines)
  BY <1>1 DEF Windows
<1>3. CASE c = p \/ d = p
  BY <1>2, <1>3, InStepAtFirst
<1>4. CASE c # p /\ d # p
  <2>1. c \in Hearing /\ d \in Hearing
        /\ w[c].live = window[c].live \o e /\ w[d].live = window[d].live \o e
    BY <1>4
  <2>2. window[c].live \in Seq(Lines) /\ window[d].live \in Seq(Lines)
    BY <2>1 DEF TypeOK, Windows, Hearing, Listeners
  <2>3. InStep(window[c].live, window[d].live)
    BY <2>1 DEF OneOrder, InStep
  <2> QED
    BY <2>1, <2>2, <2>3, InStepTogether
<1> QED
  BY <1>3, <1>4

(* Nobody is told anything new, p enters or leaves.                        *)
LEMMA OrderKeptQuietly ==
    ASSUME TypeOK, OneOrder, NEW w \in [Clients -> Windows], Show(w), NEW p,
           marked \ {p} \subseteq marked', members' \subseteq members \cup {p},
           \A d \in Clients \ {p} : w[d] = window[d],
           p \in Clients => w[p].live = <<>>
    PROVE  OneOrder'
<1>1. <<>> \in Seq(Lines)
  OBVIOUS
<1>2. ASSUME NEW d \in Hearing' \ {p}
      PROVE  d \in Hearing /\ w[d].live = window[d].live \o <<>>
  <2>1. d \in Hearing /\ d \in Clients
    BY <1>2 DEF Hearing, Listeners
  <2>2. window[d].live \in Seq(Lines)
    BY <2>1 DEF TypeOK, Windows
  <2>3. window[d].live \o <<>> = window[d].live
    BY <2>2
  <2> QED
    BY <2>1, <2>3
<1>3. p \in Hearing' => p \in Clients
  BY DEF Hearing, Listeners
<1> QED
  BY <1>1, <1>2, <1>3, OrderKept

(* Every step keeps the order.                                             *)
LEMMA OrderStep == TypeOK /\ OneOrder /\ [Next]_vars => OneOrder'
<1> SUFFICES ASSUME TypeOK, OneOrder, [Next]_vars PROVE OneOrder'
  OBVIOUS
<1>w. window \in [Clients -> Windows]
  BY DEF TypeOK
<1>0. ASSUME UNCHANGED members, marked \subseteq marked', Show(window)
      PROVE  OneOrder'
  <2>1. PICK p : p \notin Clients
    BY ConversationAssumption
  <2> QED
    BY <1>0, <1>w, <2>1, OrderKeptQuietly
<1>1. ASSUME UNCHANGED <<marked, members, window>> PROVE OneOrder'
  BY <1>1 DEF OneOrder, Hearing, Listeners
<1>2. ASSUME NEW d \in Clients, Queue(To({d}, 1)), Show(window),
             UNCHANGED members
      PROVE  OneOrder'
  BY <1>0, <1>2, QueueEffect, ToType
<1>3. ASSUME NEW c \in Clients, Disconnect(c) PROVE OneOrder'
  <2> DEFINE w == [window EXCEPT ![c] = Closed]
  <2>1. /\ w \in [Clients -> Windows] /\ w[c].live = <<>>
        /\ \A d \in Clients \ {c} : w[d] = window[d]
    BY <1>w, ClosingType DEF Closed
  <2>2. /\ Show(w) /\ marked \ {c} \subseteq marked'
        /\ members' \subseteq members \cup {c}
    BY <1>3 DEF Disconnect, Leave
  <2> HIDE DEF w
  <2> QED
    BY <2>1, <2>2, OrderKeptQuietly
<1>4. ASSUME NEW p \in Users, Depart(p) PROVE OneOrder'
  <2> DEFINE w == [d \in Clients |-> IF d = p THEN Closed ELSE window[d]]
  <2>1. /\ w \in [Clients -> Windows]
        /\ p \in Clients => w[p].live = <<>>
        /\ \A d \in Clients \ {p} : w[d] = window[d]
    BY ClosingType DEF Closed
  <2>2. /\ Show(w) /\ Queue(To(Listeners, 1))
        /\ members' \subseteq members \cup {p}
    BY <1>4 DEF Depart, Leave
  <2>3. marked \subseteq marked'
    BY <2>2, ToType, QueueEffect
  <2> HIDE DEF w
  <2> QED
    BY <2>1, <2>2, <2>3, OrderKeptQuietly
<1>5. ASSUME NEW c \in Clients, Join(c) PROVE OneOrder'
  <2> DEFINE lines == [d \in Clients |-> IF d = c THEN 1 + Len(Replay)
                                         ELSE IF d \in members THEN 1 ELSE 0]
             w == [window EXCEPT ![c] = [said |-> Replay, live |-> <<>>]]
  <2>1. lines \in [Clients -> Nat]
    BY DEF Replay, TypeOK
  <2>2. [said |-> Replay, live |-> <<>>] \in Windows
    BY DEF Replay, Windows, TypeOK
  <2>3. /\ w \in [Clients -> Windows] /\ w[c].live = <<>>
        /\ \A d \in Clients \ {c} : w[d] = window[d]
    BY <1>w, <2>2
  <2>4. Queue(lines) /\ Show(w) /\ members' \subseteq members \cup {c}
    BY <1>5 DEF Join
  <2> HIDE DEF lines, w
  <2>5. marked \subseteq marked'
    BY <2>1, <2>4, QueueEffect
  <2> QED
    BY <2>3, <2>4, <2>5, OrderKeptQuietly
<1>6. ASSUME NEW c \in Clients, InviteBot(c) PROVE OneOrder'
  <2> DEFINE greeting == <<[from |-> Bot, kind |-> "greeting"]>>
             w == Showing(Listeners, greeting)
  <2>1. greeting \in Seq(Lines)
    BY DEF Lines
  <2>2. w \in [Clients -> Windows]
    BY <2>1, ShowingType
  <2>3. \A d \in Listeners : w[d].live = window[d].live \o greeting
    BY DEF Showing, Listeners
  <2>4. Queue(To(Listeners, 2)) /\ Show(w) /\ members' = members \cup {Bot}
    BY <1>6 DEF InviteBot
  <2> HIDE DEF greeting, w
  <2>5. marked \subseteq marked'
    BY <2>4, ToType, QueueEffect
  <2>6. ASSUME NEW d \in Hearing'
        PROVE  d \in Hearing /\ w[d].live = window[d].live \o greeting
    <3>1. d \in Hearing /\ d \in Listeners
      BY <2>4, <2>5, <2>6, ConversationAssumption DEF Hearing, Listeners
    <3> QED
      BY <2>3, <3>1
  <2>7. Bot \notin Hearing'
    BY ConversationAssumption DEF Hearing, Listeners
  <2> QED
    BY <2>1, <2>2, <2>4, <2>6, <2>7, OrderKept
<1>7. ASSUME NEW c \in Clients, NEW kind \in Texts \cup {"notice"},
             Say(c, [from |-> c, kind |-> kind])
      PROVE  OneOrder'
  <2> DEFINE line == [from |-> c, kind |-> kind]
  <2>1. /\ marked \subseteq marked' /\ window' \in [Clients -> Windows]
        /\ \A d \in Listeners \ marked' :
              window'[d].live = window[d].live \o Exchange(line)
    BY <1>7, SayEffect
  <2>2. Exchange(line) \in Seq(Lines)
    BY SpokenType
  <2>3. members' = members
    BY <1>7 DEF Say
  <2> HIDE DEF line
  <2>4. \A d \in Hearing' : d \in Listeners \ marked' /\ d \in Hearing
    BY <2>1, <2>3 DEF Hearing, Listeners
  <2>5. ASSUME NEW d \in Hearing', NEW e \in Hearing'
        PROVE  InStep(window'[d].live, window'[e].live)
    <3>1. /\ window'[d].live = window[d].live \o Exchange(line)
          /\ window'[e].live = window[e].live \o Exchange(line)
          /\ d \in Hearing /\ e \in Hearing
      BY <2>1, <2>4, <2>5
    <3>2. window[d].live \in Seq(Lines) /\ window[e].live \in Seq(Lines)
      BY <3>1 DEF TypeOK, Windows, Hearing, Listeners
    <3>3. InStep(window[d].live, window[e].live)
      BY <3>1 DEF OneOrder, InStep
    <3> QED
      BY <2>2, <3>1, <3>2, <3>3, InStepTogether
  <2> QED
    BY <2>5 DEF OneOrder, InStep
<1> QED
  <2>1. CASE UNCHANGED vars
    BY <1>1, <2>1 DEF vars
  <2> SUFFICES ASSUME Next PROVE OneOrder'
    BY <2>1
  <2>2. PICK c \in Clients : Connection(c) \/ Presence(c) \/ Speech(c)
    BY DEF Next
  <2>3. CASE Connection(c)
    BY <2>3, <1>0, <1>1, <1>2, <1>3
       DEF Connection, Connect, Register, RequestDisconnect, Flush
  <2>4. CASE Presence(c)
    BY <2>4, <1>4, <1>5, <1>6 DEF Presence, Part, Kick, Users
  <2>5. CASE Speech(c)
    BY <2>5, <1>2, <1>7 DEF Speech, Privmsg, Notice, AskBot, Pass, Refuse
  <2> QED
    BY <2>2, <2>3, <2>4, <2>5

(* All members see one order of lines, notices and the bot's lines         *)
(* included, whoever came when.                                            *)
THEOREM OrderAlwaysOne == Spec => []OneOrder
<1>1. Init => OneOrder
  BY DEF Init, OneOrder, Hearing, Listeners
<1> QED
  BY <1>1, OrderStep, TypeCorrect, PTL DEF Spec

-----------------------------------------------------------------------------
(* The life of the history.                                                *)

(* An empty channel has no history, so that IsPrefix is all there is to    *)
(* keep.                                                                   *)
EmptyIsFresh == members = {} => history = <<>>

(* A sequence is a prefix of itself and of what it grows to.               *)
LEMMA PrefixOfLonger ==
    ASSUME NEW s \in Seq(Lines), NEW line \in Lines
    PROVE  IsPrefix(s, s) /\ IsPrefix(s, Append(s, line))
<1>1. SubSeq(s, 1, Len(s)) = s /\ SubSeq(Append(s, line), 1, Len(s)) = s
  OBVIOUS
<1> QED
  BY <1>1 DEF IsPrefix

(* What a step may do to the history.                                      *)
Kept ==
    IF members # {} /\ members' # {} THEN IsPrefix(history, history')
                                     ELSE history' = <<>>

(* Every step keeps the history, or ends it with the channel.              *)
LEMMA HistoryStep ==
    TypeOK /\ EmptyIsFresh /\ [Next]_vars => EmptyIsFresh' /\ Kept
<1> SUFFICES ASSUME TypeOK, EmptyIsFresh, [Next]_vars
             PROVE  EmptyIsFresh' /\ Kept
  OBVIOUS
<1>0. history \in Seq(Lines) /\ IsPrefix(history, history)
  <2>1. Answer \in Lines
    BY DEF Answer, Lines
  <2> QED
    BY <2>1, PrefixOfLonger DEF TypeOK
<1>1. ASSUME UNCHANGED <<members, history>> PROVE EmptyIsFresh' /\ Kept
  BY <1>0, <1>1 DEF EmptyIsFresh, Kept
<1>2. ASSUME NEW p, Leave(p) PROVE EmptyIsFresh' /\ Kept
  BY <1>0, <1>2 DEF EmptyIsFresh, Kept, Leave
<1>3. ASSUME members' # {}, UNCHANGED history PROVE EmptyIsFresh' /\ Kept
  BY <1>0, <1>3 DEF EmptyIsFresh, Kept
<1>4. ASSUME NEW c \in Clients, NEW kind \in Texts \cup {"notice"},
             Say(c, [from |-> c, kind |-> kind])
      PROVE  EmptyIsFresh' /\ Kept
  <2> DEFINE line == [from |-> c, kind |-> kind]
  <2>1. members # {} /\ members' = members /\ history' = Record(line)
    BY <1>4 DEF Say
  <2>2. line \in Lines
    BY SpokenType
  <2> HIDE DEF line
  <2>3. IsPrefix(history, history')
    BY <1>0, <2>1, <2>2, PrefixOfLonger DEF Record
  <2> QED
    BY <2>1, <2>3 DEF EmptyIsFresh, Kept
<1> QED
  <2>1. CASE UNCHANGED vars
    BY <1>1, <2>1 DEF vars
  <2> SUFFICES ASSUME Next PROVE EmptyIsFresh' /\ Kept
    BY <2>1
  <2>2. PICK c \in Clients : Connection(c) \/ Presence(c) \/ Speech(c)
    BY DEF Next
  <2>3. CASE Connection(c)
    BY <2>3, <1>1, <1>2
       DEF Connection, Connect, Register, RequestDisconnect, Flush, Disconnect
  <2>4. CASE Presence(c)
    BY <2>4, <1>2, <1>3 DEF Presence, Part, Kick, Depart, Join, InviteBot
  <2>5. CASE Speech(c)
    BY <2>5, <1>1, <1>4 DEF Speech, Privmsg, Notice, AskBot, Pass, Refuse
  <2> QED
    BY <2>2, <2>3, <2>4, <2>5

(* Nothing said is lost while somebody stays, and a channel that is        *)
(* founded again starts without a history.                                 *)
THEOREM HistoryAlwaysKept == Spec => HistoryKept
<1>1. Init => EmptyIsFresh
  BY DEF Init, EmptyIsFresh
<1>2. TypeOK /\ EmptyIsFresh /\ [Next]_vars => EmptyIsFresh'
  BY HistoryStep
<1>3. TypeOK /\ EmptyIsFresh /\ [Next]_vars => [Kept]_vars
  BY HistoryStep
<1>4. Spec => []EmptyIsFresh
  BY <1>1, <1>2, TypeCorrect, PTL DEF Spec
<1>5. Spec => [][Kept]_vars
  BY <1>3, <1>4, TypeCorrect, PTL DEF Spec
<1> QED
  BY <1>5 DEF HistoryKept, Kept

=============================================================================
