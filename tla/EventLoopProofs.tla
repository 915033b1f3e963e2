--------------------------- MODULE EventLoopProofs --------------------------
(***************************************************************************)
(* The safety properties of EventLoop for any number of clients, any       *)
(* limits and any faults: Sound is the inductive invariant of the poll set *)
(* and the buffers; Served, Swept and Resumable add how far a round has    *)
(* come, what a sweep leaves and why accepting may be paused.              *)
(***************************************************************************)
EXTENDS EventLoop, TLAPS

-----------------------------------------------------------------------------
(* The vector of descriptors.                                              *)

Distinct(s) == \A i, j \in DOMAIN s : s[i] = s[j] => i = j

(* pollFds.erase(): the descriptors before it stay, those behind it move   *)
(* up.                                                                     *)
LEMMA Erased ==
    ASSUME NEW S, NEW s \in Seq(S), NEW i \in 1..Len(s)
    PROVE  /\ RemoveAt(s, i) \in Seq(S)
           /\ Len(RemoveAt(s, i)) = Len(s) - 1
           /\ \A j \in 1..(Len(s) - 1) :
                 RemoveAt(s, i)[j] = IF j < i THEN s[j] ELSE s[j + 1]
<1>1. PICK n \in Nat : n = Len(s)
  OBVIOUS
<1>2. /\ SubSeq(s, 1, i - 1) \in Seq(S) /\ Len(SubSeq(s, 1, i - 1)) = i - 1
      /\ \A j \in 1..(i - 1) : SubSeq(s, 1, i - 1)[j] = s[j]
  OBVIOUS
<1>3. /\ SubSeq(s, i + 1, n) \in Seq(S) /\ Len(SubSeq(s, i + 1, n)) = n - i
      /\ \A j \in 1..(n - i) : SubSeq(s, i + 1, n)[j] = s[i + j]
  BY <1>1
<1> DEFINE front == SubSeq(s, 1, i - 1)
           back == SubSeq(s, i + 1, n)
<1>4. RemoveAt(s, i) = front \o back
  BY <1>1 DEF RemoveAt
<1> HIDE DEF front, back
<1>5. /\ front \in Seq(S) /\ Len(front) = i - 1
      /\ \A j \in 1..(i - 1) : front[j] = s[j]
  BY <1>2 DEF front
<1>6. /\ back \in Seq(S) /\ Len(back) = n - i
      /\ \A j \in 1..(n - i) : back[j] = s[i + j]
  BY <1>3 DEF back
<1>7. /\ front \o back \in Seq(S) /\ Len(front \o back) = n - 1
      /\ \A j \in 1..(i - 1) : (front \o back)[j] = front[j]
      /\ \A j \in 1..(n - i) : (front \o back)[(i - 1) + j] = back[j]
  <2>1. i - 1 \in Nat /\ n - i \in Nat /\ (i - 1) + (n - i) = n - 1
    BY <1>1
  <2>2. front \in Seq(S) /\ back \in Seq(S)
    BY <1>5, <1>6
  <2>3. /\ front \o back \in Seq(S)
        /\ Len(front \o back) = Len(front) + Len(back)
        /\ \A j \in 1..Len(front) : (front \o back)[j] = front[j]
        /\ \A j \in 1..Len(back) : (front \o back)[Len(front) + j] = back[j]
    BY <2>2
  <2> QED
    BY <1>5, <1>6, <2>1, <2>3
<1>8. ASSUME NEW j \in 1..(n - 1)
      PROVE  (front \o back)[j] = IF j < i THEN s[j] ELSE s[j + 1]
  <2>1. CASE j < i
    BY <1>5, <1>7, <2>1
  <2>2. CASE ~(j < i)
    <3>1. PICK k \in 1..(n - i) : j = (i - 1) + k /\ i + k = j + 1
      <4>1. j - i + 1 \in 1..(n - i) /\ j = (i - 1) + (j - i + 1)
            /\ i + (j - i + 1) = j + 1
        BY <1>1, <2>2
      <4> QED
        BY <4>1
    <3>2. (front \o back)[j] = back[k] /\ back[k] = s[j + 1]
      BY <1>6, <1>7, <3>1
    <3> QED
      BY <2>2, <3>2
  <2> QED
    BY <2>1, <2>2
<1> QED
  BY <1>1, <1>4, <1>7, <1>8

LEMMA ErasedDistinct ==
    ASSUME NEW S, NEW s \in Seq(S), NEW i \in 1..Len(s), Distinct(s)
    PROVE  /\ Distinct(RemoveAt(s, i))
           /\ \A c : (\E j \in DOMAIN RemoveAt(s, i) : RemoveAt(s, i)[j] = c)
                 <=> (\E j \in DOMAIN s : s[j] = c) /\ c # s[i]
<1>1. PICK r : r = RemoveAt(s, i)
  OBVIOUS
<1>2. PICK n \in Nat : n = Len(s)
  OBVIOUS
<1>3. /\ r \in Seq(S) /\ DOMAIN r = 1..(n - 1) /\ DOMAIN s = 1..n
      /\ \A j \in 1..(n - 1) : r[j] = IF j < i THEN s[j] ELSE s[j + 1]
  <2>1. r \in Seq(S) /\ Len(r) = n - 1
    BY <1>1, <1>2, Erased
  <2> QED
    BY <1>1, <1>2, <2>1, Erased
<1>4. ASSUME NEW j \in 1..(n - 1)
      PROVE  \E k \in 1..n : k # i /\ r[j] = s[k] /\ (k = j \/ k = j + 1)
             /\ (j < i <=> k < i) /\ (j < i => k = j) /\ (~(j < i) => k = j + 1)
  <2>1. CASE j < i
    BY <1>2, <1>3, <2>1
  <2>2. CASE ~(j < i)
    BY <1>2, <1>3, <2>2
  <2> QED
    BY <2>1, <2>2
<1>5. ASSUME NEW j \in 1..(n - 1), NEW k \in 1..(n - 1), r[j] = r[k]
      PROVE  j = k
  <2>1. PICK a \in 1..n : r[j] = s[a] /\ (j < i <=> a < i)
           /\ (j < i => a = j) /\ (~(j < i) => a = j + 1)
    BY <1>4
  <2>2. PICK b \in 1..n : r[k] = s[b] /\ (k < i <=> b < i)
           /\ (k < i => b = k) /\ (~(k < i) => b = k + 1)
    BY <1>4
  <2>3. a = b
    BY <1>3, <1>5, <2>1, <2>2 DEF Distinct
  <2> QED
    BY <1>2, <2>1, <2>2, <2>3
<1>6. ASSUME NEW j \in 1..(n - 1)
      PROVE  (\E k \in 1..n : s[k] = r[j]) /\ r[j] # s[i]
  BY <1>2, <1>3, <1>4 DEF Distinct
<1>7. ASSUME NEW k \in 1..n, s[k] # s[i]
      PROVE  \E j \in 1..(n - 1) : r[j] = s[k]
  <2>1. CASE k < i
    <3>1. k \in 1..(n - 1)
      BY <1>2, <2>1
    <3> QED
      BY <1>3, <2>1, <3>1
  <2>2. CASE k > i
    <3>1. k - 1 \in 1..(n - 1) /\ ~(k - 1 < i) /\ (k - 1) + 1 = k
      BY <1>2, <2>2
    <3> QED
      BY <1>3, <3>1
  <2> QED
    BY <1>2, <1>7, <2>1, <2>2
<1>8. Distinct(r)
  BY <1>3, <1>5 DEF Distinct
<1>9. ASSUME NEW c
      PROVE  (\E j \in 1..(n - 1) : r[j] = c)
                <=> (\E j \in 1..n : s[j] = c) /\ c # s[i]
  BY <1>6, <1>7
<1> QED
  BY <1>1, <1>3, <1>8, <1>9

-----------------------------------------------------------------------------
(* The poll set and the buffers.                                           *)

LEMMA Sizes ==
    /\ MaxWaiting \in Nat /\ Limit \in Nat /\ Limit > 0
    /\ Window \in Nat /\ Window > 0
    /\ \A n \in Bursts : n \in Nat /\ n > 0
BY SizesAssumption

(* TypeOK by parts.                                                        *)
LoopTypes ==
    /\ pc \in Places /\ fds \in Seq(Clients)
    /\ index \in 1..(Len(fds) + 1)
    /\ revents \in [Clients -> SUBSET {"IN", "OUT", "HUP"}]

BufferTypes ==
    /\ marked \subseteq Clients /\ wide \subseteq marked
    /\ writing \subseteq Clients /\ out \in [Clients -> 0..Limit]

WorldTypes ==
    /\ waiting \in 0..MaxWaiting /\ space \in [Clients -> 0..Window]
    /\ pending \subseteq Clients /\ gone \subseteq Clients

FlagTypes == listening \in BOOLEAN /\ shutdown \in BOOLEAN

LEMMA Types == TypeOK <=> LoopTypes /\ BufferTypes /\ WorldTypes /\ FlagTypes
BY DEF TypeOK, LoopTypes, BufferTypes, WorldTypes, FlagTypes

(* What a step that touches the buffers must establish.                    *)
BuffersSound ==
    /\ BufferTypes
    /\ marked \cup writing \subseteq Connected
    /\ \A c \in Clients \ Connected : out[c] = 0
    /\ WritesWhenNeeded

(* The index is where a loop begins, accept() has something to accept.     *)
Ready ==
    /\ pc \in {"poll", "accept", "closing"} => index = 1
    /\ pc = "accept" => waiting > 0

PollSetSound ==
    /\ LoopTypes /\ Distinct(fds)
    /\ \A c \in Clients \ Connected : revents[c] = {}

WorldSound == WorldTypes /\ pending \cup gone \subseteq Connected

Sound == PollSetSound /\ BuffersSound /\ WorldSound /\ FlagTypes /\ Ready

LEMMA SoundImplies ==
    Sound => TypeOK /\ NothingLeftBehind /\ WritesWhenNeeded
<1> SUFFICES ASSUME Sound PROVE TypeOK /\ NothingLeftBehind /\ WritesWhenNeeded
  OBVIOUS
<1>1. TypeOK
  BY Types DEF Sound, PollSetSound, BuffersSound, WorldSound
<1>2. NothingLeftBehind
  BY DEF Sound, PollSetSound, BuffersSound, WorldSound, NothingLeftBehind,
         Distinct
<1> QED
  BY <1>1, <1>2 DEF Sound, BuffersSound

LEMMA SoundInit == Init => Sound
<1> SUFFICES ASSUME Init PROVE Sound
  OBVIOUS
<1>1. Connected = {}
  BY DEF Init, Connected
<1>2. PollSetSound
  BY DEF Init, PollSetSound, LoopTypes, Places, Distinct
<1>3. BuffersSound
  BY <1>1, Sizes DEF Init, BuffersSound, BufferTypes, WritesWhenNeeded
<1>4. WorldSound
  BY Sizes DEF Init, WorldSound, WorldTypes
<1>5. FlagTypes
  BY DEF Init, FlagTypes
<1>6. Ready
  BY DEF Init, Ready
<1> QED
  BY <1>2, <1>3, <1>4, <1>5, <1>6 DEF Sound

LEMMA ConnectedType == fds \in Seq(Clients) => Connected \subseteq Clients
BY DEF Connected

LEMMA QueueSound ==
    ASSUME BuffersSound, Connected \subseteq Clients, Connected' = Connected,
           NEW audience \in SUBSET Connected, NEW n \in Nat, n > 0,
           QueueLines(audience, n), wide' = wide
    PROVE  BuffersSound' /\ marked \subseteq marked'
<1>1. out \in [Clients -> 0..Limit] /\ Limit \in Nat
  BY Sizes DEF BuffersSound, BufferTypes
<1>2. /\ out' \in [Clients -> 0..Limit]
      /\ \A c \in Clients :
            out'[c] = IF c \in audience \ marked
                      THEN Least(out[c] + n, Limit) ELSE out[c]
  <2>1. \A c \in Clients : Least(out[c] + n, Limit) \in 0..Limit
    BY <1>1 DEF Least
  <2> QED
    BY <1>1, <2>1 DEF QueueLines
<1>3. \A c \in Clients : Least(out[c] + n, Limit) > 0
  BY <1>1, Sizes DEF Least
<1>4. /\ marked' \subseteq Connected /\ writing' \subseteq Connected
      /\ marked \subseteq marked'
      /\ writing' = writing \cup (audience \ marked)
  BY DEF QueueLines, BuffersSound
<1>5. BufferTypes'
  BY <1>2, <1>4 DEF BuffersSound, BufferTypes
<1>6. WritesWhenNeeded'
  BY <1>2, <1>3, <1>4 DEF BuffersSound, WritesWhenNeeded
<1>7. \A c \in Clients \ Connected' : out'[c] = 0
  BY <1>2 DEF BuffersSound
<1> QED
  BY <1>4, <1>5, <1>6, <1>7 DEF BuffersSound

(* disconnectClient() of any entry of the vector.                          *)
LEMMA DisconnectSound ==
    ASSUME PollSetSound, BuffersSound, WorldSound, FlagTypes,
           NEW i \in DOMAIN fds, DisconnectAt(i), fds[i] \notin wide,
           index' \in 1..Len(fds), pc' \in Places
    PROVE  /\ PollSetSound' /\ BuffersSound' /\ WorldSound' /\ FlagTypes'
           /\ Connected' = Connected \ {fds[i]}
<1>1. PICK c \in Clients : c = fds[i]
  BY DEF PollSetSound, LoopTypes
<1>2. /\ fds \in Seq(Clients) /\ i \in 1..Len(fds) /\ Distinct(fds)
      /\ Connected \subseteq Clients
  BY ConnectedType DEF PollSetSound, LoopTypes
<1>3. fds' = RemoveAt(fds, i)
  BY DEF DisconnectAt
<1>4. fds' \in Seq(Clients) /\ Len(fds') = Len(fds) - 1 /\ Distinct(fds')
  BY <1>2, <1>3, Erased, ErasedDistinct
<1>5. Connected' = Connected \ {c}
  <2>1. \A d : (\E j \in DOMAIN fds' : fds'[j] = d)
                  <=> (\E j \in DOMAIN fds : fds[j] = d) /\ d # c
    <3>1. \A d : (\E j \in DOMAIN RemoveAt(fds, i) : RemoveAt(fds, i)[j] = d)
                    <=> (\E j \in DOMAIN fds : fds[j] = d) /\ d # fds[i]
      BY <1>2, ErasedDistinct
    <3> QED
      BY <1>1, <1>3, <3>1, Zenon
  <2> QED
    BY <2>1 DEF Connected
<1>6. PollSetSound'
  <2>1. revents' = [revents EXCEPT ![c] = {}]
    BY <1>1 DEF DisconnectAt
  <2>2. revents' \in [Clients -> SUBSET {"IN", "OUT", "HUP"}]
    BY <2>1 DEF PollSetSound, LoopTypes
  <2>3. \A d \in Clients \ Connected' : revents'[d] = {}
    BY <1>5, <2>1 DEF PollSetSound, LoopTypes
  <2>4. index' \in 1..(Len(fds') + 1)
    <3>1. Len(fds') + 1 = Len(fds)
      BY <1>2, <1>4
    <3> QED
      BY <3>1
  <2> QED
    BY <1>4, <2>2, <2>3, <2>4 DEF PollSetSound, LoopTypes
<1>7. PICK audience \in SUBSET (Connected \ {c}) :
         LET told == audience \ marked
         IN  /\ out' = [d \in Clients |->
                           IF d = c THEN 0
                           ELSE IF d \in told THEN Least(out[d] + 1, Limit)
                           ELSE out[d]]
             /\ writing' = (writing \cup told) \ {c}
             /\ marked' = (marked \ {c}) \cup {d \in told : out[d] + 1 > Limit}
  BY <1>1 DEF DisconnectAt, NotifyQuit
<1>8. BuffersSound'
  <2>1. out \in [Clients -> 0..Limit] /\ Limit \in Nat /\ Limit > 0
    BY Sizes DEF BuffersSound, BufferTypes
  <2>2. \A d \in Clients : Least(out[d] + 1, Limit) \in 1..Limit
    BY <2>1 DEF Least
  <2>3. out' \in [Clients -> 0..Limit]
    BY <1>7, <2>1, <2>2
  <2>4. wide' = wide \ {c} /\ wide' \subseteq marked'
    BY <1>1, <1>7 DEF DisconnectAt, BuffersSound, BufferTypes
  <2>5. marked' \cup writing' \subseteq Connected'
    BY <1>5, <1>7 DEF BuffersSound
  <2>6. \A d \in Clients \ Connected' : out'[d] = 0
    BY <1>5, <1>7 DEF BuffersSound
  <2>7. WritesWhenNeeded'
    <3> SUFFICES ASSUME NEW d \in Connected'
                 PROVE  d \in writing' <=> out'[d] > 0
      BY DEF WritesWhenNeeded
    <3>1. d \in Connected /\ d \in Clients /\ d # c
          /\ (d \in writing <=> out[d] > 0)
      BY <1>2, <1>5 DEF BuffersSound, WritesWhenNeeded
    <3>2. CASE d \in audience \ marked
      <4>1. d \in writing' /\ out'[d] = Least(out[d] + 1, Limit)
        BY <1>7, <3>1, <3>2
      <4> QED
        BY <2>1, <2>2, <3>1, <4>1
    <3>3. CASE d \notin audience \ marked
      <4>1. (d \in writing' <=> d \in writing) /\ out'[d] = out[d]
        BY <1>7, <3>1, <3>3
      <4> QED
        BY <3>1, <4>1
    <3> QED
      BY <3>2, <3>3
  <2> QED
    BY <1>2, <1>5, <2>3, <2>4, <2>5, <2>6, <2>7 DEF BuffersSound, BufferTypes
<1>9. WorldSound'
  <2>1. /\ pending' = pending \ {c} /\ gone' = gone \ {c}
        /\ space' = [space EXCEPT ![c] = Window] /\ waiting' = waiting
    BY <1>1 DEF DisconnectAt
  <2> QED
    BY <1>5, <2>1, Sizes DEF WorldSound, WorldTypes
<1>10. FlagTypes'
  <2>1. listening' \in BOOLEAN
    BY DEF DisconnectAt, Resumed
  <2>2. shutdown' \in BOOLEAN
    BY DEF DisconnectAt, FlagTypes
  <2> QED
    BY <2>1, <2>2 DEF FlagTypes
<1> QED
  BY <1>1, <1>5, <1>6, <1>8, <1>9, <1>10

LEMMA SameClients == UNCHANGED fds => Connected' = Connected
BY DEF Connected

(* A step within a round that leaves the vector alone.                     *)
LEMMA PlaceSound ==
    ASSUME PollSetSound, UNCHANGED fds, pc' \in Places,
           index' \in 1..(Len(fds) + 1),
           \/ revents' = revents
           \/ \E c \in Clients : revents' = [revents EXCEPT ![c] = {}]
    PROVE  PollSetSound'
<1>1. Connected' = Connected
  BY SameClients
<1>2. /\ revents' \in [Clients -> SUBSET {"IN", "OUT", "HUP"}]
      /\ \A c \in Clients \ Connected : revents'[c] = {}
  <2>1. CASE revents' = revents
    BY <2>1 DEF PollSetSound, LoopTypes
  <2>2. ASSUME NEW c \in Clients, revents' = [revents EXCEPT ![c] = {}]
        PROVE  /\ revents' \in [Clients -> SUBSET {"IN", "OUT", "HUP"}]
               /\ \A d \in Clients \ Connected : revents'[d] = {}
    BY <2>2 DEF PollSetSound, LoopTypes
  <2> QED
    BY <2>1, <2>2
<1> QED
  BY <1>1, <1>2 DEF PollSetSound, LoopTypes, Distinct

LEMMA BuffersKept ==
    ASSUME BuffersSound, UNCHANGED <<fds, marked, wide, out, writing>>
    PROVE  BuffersSound'
BY SameClients DEF BuffersSound, BufferTypes, WritesWhenNeeded

(* requestDisconnect()                                                     *)
LEMMA MarkSound ==
    ASSUME BuffersSound, PollSetSound, NEW c \in Connected,
           marked' = marked \cup {c}, wide' \subseteq wide \cup {c},
           UNCHANGED <<fds, out, writing>>
    PROVE  BuffersSound'
<1>1. Connected' = Connected /\ c \in Clients
  BY SameClients, ConnectedType DEF PollSetSound, LoopTypes
<1> QED
  BY <1>1 DEF BuffersSound, BufferTypes, WritesWhenNeeded

LEMMA WorldKept ==
    ASSUME WorldSound, UNCHANGED <<fds, waiting, gone, space>>,
           pending' \subseteq pending
    PROVE  WorldSound'
BY SameClients DEF WorldSound, WorldTypes

LEMMA FlagsKept == FlagTypes /\ UNCHANGED <<listening, shutdown>> => FlagTypes'
BY DEF FlagTypes

(* What the loop does to one descriptor, after which it is at the next.    *)
LEMMA ServedPlace ==
    ASSUME PollSetSound, NEW c \in Clients, Received(c), ServedOrHungUp(c),
           UNCHANGED fds
    PROVE  PollSetSound' /\ pc' \in {"drop", "input"} /\ c \in Connected
<1>1. index \in DOMAIN fds /\ c = fds[index]
  BY DEF Received, At
<1>2. fds \in Seq(Clients) /\ index \in 1..Len(fds)
  BY <1>1 DEF PollSetSound, LoopTypes
<1>3. index + 1 \in 1..(Len(fds) + 1) /\ index \in 1..(Len(fds) + 1)
  BY <1>2
<1>4. c \in Connected
  BY <1>1 DEF Connected
<1>5. CASE "HUP" \in revents[c]
  BY <1>3, <1>4, <1>5, PlaceSound DEF ServedOrHungUp, Places
<1>6. CASE "HUP" \notin revents[c]
  <2>1. pc' = "input" /\ index' = index + 1
        /\ revents' = [revents EXCEPT ![c] = {}]
    BY <1>6 DEF ServedOrHungUp
  <2> QED
    BY <1>3, <1>4, <2>1, PlaceSound DEF Places
<1> QED
  BY <1>5, <1>6

LEMMA SendSound ==
    ASSUME BuffersSound, WorldSound, FlagTypes, NEW c \in Clients, Send(c),
           c \in Connected
    PROVE  BuffersSound' /\ WorldSound' /\ FlagTypes'
<1>1. PICK n \in 1..Least(out[c], space[c]) :
         /\ out' = [out EXCEPT ![c] = @ - n]
         /\ space' = [space EXCEPT ![c] = @ - n]
  BY DEF Send
<1>2. /\ writing' = IF out'[c] = 0 THEN writing \ {c} ELSE writing
      /\ UNCHANGED <<fds, listening, marked, wide, shutdown, waiting, pending,
                     gone>>
  BY DEF Send
<1>3. out[c] \in 0..Limit /\ space[c] \in 0..Window
      /\ Limit \in Nat /\ Window \in Nat
  BY Sizes DEF BuffersSound, BufferTypes, WorldSound, WorldTypes
<1>4. n \in Nat /\ n > 0 /\ n <= out[c] /\ n <= space[c]
  BY <1>3 DEF Least
<1>5. out[c] - n \in 0..Limit /\ space[c] - n \in 0..Window
      /\ out[c] > 0
  BY <1>3, <1>4
<1>6. out' \in [Clients -> 0..Limit] /\ out'[c] = out[c] - n
      /\ \A d \in Clients \ {c} : out'[d] = out[d]
  BY <1>1, <1>5 DEF BuffersSound, BufferTypes
<1>7. space' \in [Clients -> 0..Window]
  BY <1>1, <1>5 DEF WorldSound, WorldTypes
<1>8. Connected' = Connected
  BY <1>2, SameClients
<1>9. WritesWhenNeeded'
  <2> SUFFICES ASSUME NEW d \in Connected
               PROVE  d \in writing' <=> out'[d] > 0
    BY <1>8 DEF WritesWhenNeeded
  <2>1. d \in writing <=> out[d] > 0
    BY DEF BuffersSound, WritesWhenNeeded
  <2>2. CASE d = c
    BY <1>2, <1>3, <1>4, <1>5, <1>6, <2>1, <2>2
  <2>3. CASE d # c
    <3>1. out'[d] = out[d]
      BY <1>1, <2>3 DEF BuffersSound, BufferTypes
    <3>2. d \in writing' <=> d \in writing
      BY <1>2, <2>3
    <3> QED
      BY <2>1, <3>1, <3>2
  <2> QED
    BY <2>2, <2>3
<1>10. BuffersSound'
  BY <1>2, <1>6, <1>8, <1>9 DEF BuffersSound, BufferTypes
<1>11. WorldSound'
  BY <1>2, <1>7, <1>8 DEF WorldSound, WorldTypes
<1> QED
  BY <1>2, <1>10, <1>11, FlagsKept

(* Closing the client at the index, in the pass or in the sweep.           *)
LEMMA CloseSound ==
    ASSUME Sound, index \in DOMAIN fds, NEW next \in {"input", "sweep"},
           CloseCurrent(next)
    PROVE  Sound'
<1>1. /\ fds \in Seq(Clients) /\ index \in 1..Len(fds)
      /\ index \in 1..(Len(fds) + 1)
  BY DEF Sound, PollSetSound, LoopTypes
<1>2. CASE fds[index] \notin wide /\ DisconnectAt(index) /\ pc' = next
           /\ UNCHANGED index
  <2>1. pc' \in Places /\ Ready'
    BY <1>2 DEF Places, Ready
  <2> QED
    BY <1>1, <1>2, <2>1, DisconnectSound DEF Sound
<1>3. CASE Fail
  <2>1. /\ pc' \in Places /\ Ready'
        /\ UNCHANGED <<index, fds, revents, listening, marked, wide, out,
                       writing, shutdown, waiting, pending, gone, space>>
    BY <1>3 DEF Fail, Places, Ready, buffers, world
  <2> QED
    BY <1>1, <2>1, PlaceSound, BuffersKept, WorldKept, FlagsKept DEF Sound
<1> QED
  BY <1>2, <1>3 DEF CloseCurrent

LEMMA AcceptSound ==
    ASSUME Sound, NEW c \in Clients, Accept(c)
    PROVE  Sound'
<1>1. /\ fds \in Seq(Clients) /\ fds' = Append(fds, c) /\ c \notin Connected
      /\ index = 1 /\ index' = 1 /\ waiting' = waiting - 1 /\ waiting > 0
      /\ pc' = "input"
      /\ UNCHANGED <<revents, listening, marked, wide, out, writing, shutdown,
                     pending, gone, space>>
  BY DEF Accept, Sound, PollSetSound, LoopTypes, Ready, buffers
<1>2. /\ fds' \in Seq(Clients) /\ Len(fds') = Len(fds) + 1
      /\ fds'[Len(fds) + 1] = c /\ \A j \in DOMAIN fds : fds'[j] = fds[j]
      /\ DOMAIN fds' = DOMAIN fds \cup {Len(fds) + 1}
  BY <1>1
<1>3. Connected' = Connected \cup {c}
  BY <1>2 DEF Connected
<1>4. Distinct(fds')
  <2>1. \A j \in DOMAIN fds : fds[j] # c
    BY <1>1 DEF Connected
  <2>2. \A j, k \in DOMAIN fds : fds[j] = fds[k] => j = k
    BY DEF Sound, PollSetSound, Distinct
  <2> QED
    BY <1>2, <2>1, <2>2 DEF Distinct
<1>5. PollSetSound'
  <2>1. index' \in 1..(Len(fds') + 1)
    BY <1>1, <1>2
  <2> QED
    BY <1>1, <1>2, <1>3, <1>4, <2>1 DEF Sound, PollSetSound, LoopTypes, Places
<1>6. BuffersSound'
  <2>1. out[c] = 0 /\ c \notin writing
    BY <1>1 DEF Sound, BuffersSound
  <2>2. WritesWhenNeeded'
    BY <1>1, <1>3, <2>1 DEF Sound, BuffersSound, WritesWhenNeeded
  <2> QED
    BY <1>1, <1>3, <2>2 DEF Sound, BuffersSound, BufferTypes
<1>7. WorldSound'
  <2>1. waiting' \in 0..MaxWaiting
    BY <1>1, Sizes DEF Sound, WorldSound, WorldTypes
  <2> QED
    BY <1>1, <1>3, <2>1 DEF Sound, WorldSound, WorldTypes
<1>8. FlagTypes' /\ Ready'
  BY <1>1, FlagsKept DEF Sound, Ready
<1> QED
  BY <1>5, <1>6, <1>7, <1>8 DEF Sound

LEMMA PollSound ==
    ASSUME Sound, Poll
    PROVE  Sound'
<1>1. /\ index' = 1 /\ pc' \in {"accept", "input"}
      /\ pc' = "accept" => waiting > 0
      /\ UNCHANGED <<fds, listening, marked, wide, out, writing, shutdown,
                     waiting, pending, gone, space>>
  BY DEF Poll, buffers, world
<1>2. PICK hungup \in SUBSET (gone \cap Connected) :
         revents' = [c \in Clients |->
                        IF c \notin Connected THEN {}
                        ELSE Events(c) \cup IF c \in hungup THEN {"HUP"} ELSE {}]
  BY DEF Poll
<1>3. /\ revents' \in [Clients -> SUBSET {"IN", "OUT", "HUP"}]
      /\ \A c \in Clients \ Connected : revents'[c] = {}
  BY <1>2 DEF Events
<1>4. index' \in 1..(Len(fds) + 1)
  BY <1>1 DEF Sound, PollSetSound, LoopTypes
<1>5. PollSetSound'
  BY <1>1, <1>3, <1>4, SameClients
     DEF Sound, PollSetSound, LoopTypes, Places
<1>6. Ready'
  BY <1>1 DEF Ready
<1> QED
  BY <1>1, <1>5, <1>6, BuffersKept, WorldKept, FlagsKept DEF Sound

LEMMA SoundStep == Sound /\ [Next]_vars => Sound'
<1> SUFFICES ASSUME Sound, [Next]_vars PROVE Sound'
  OBVIOUS
<1>0. /\ PollSetSound /\ BuffersSound /\ WorldSound /\ FlagTypes /\ Ready
      /\ fds \in Seq(Clients) /\ index \in 1..(Len(fds) + 1)
      /\ Connected \subseteq Clients
  BY ConnectedType DEF Sound, PollSetSound, LoopTypes
<1>1. CASE Poll
  BY <1>1, PollSound
<1>2. ASSUME NEW c \in Clients, Accept(c) PROVE Sound'
  BY <1>2, AcceptSound
<1>3. CASE AcceptDropped
  <2>1. /\ pc' = "input" /\ index' = index /\ waiting' = waiting - 1
        /\ waiting > 0
        /\ UNCHANGED <<fds, revents, listening, marked, wide, out, writing,
                       shutdown, pending, gone, space>>
    BY <1>0, <1>3 DEF AcceptDropped, Ready, buffers
  <2>2. waiting' \in 0..MaxWaiting
    BY <1>0, <2>1, Sizes DEF WorldSound, WorldTypes
  <2>3. WorldSound'
    BY <1>0, <2>1, <2>2, SameClients DEF WorldSound, WorldTypes
  <2>4. PollSetSound'
    BY <1>0, <2>1, PlaceSound DEF Places
  <2>5. Ready'
    BY <2>1 DEF Ready
  <2> QED
    BY <1>0, <2>1, <2>3, <2>4, <2>5, BuffersKept, FlagsKept DEF Sound
<1>4. CASE AcceptFailed
  <2>1. /\ pc' = "input" /\ index' = index /\ listening' = FALSE
        /\ UNCHANGED <<fds, revents, marked, wide, out, writing, shutdown,
                       waiting, pending, gone, space>>
    BY <1>4 DEF AcceptFailed, buffers, world
  <2>2. listening' \in BOOLEAN
    BY <2>1
  <2>3. shutdown' \in BOOLEAN
    BY <1>0, <2>1 DEF FlagTypes
  <2>4. FlagTypes' /\ Ready'
    BY <2>1, <2>2, <2>3 DEF FlagTypes, Ready
  <2>5. PollSetSound'
    BY <1>0, <2>1, PlaceSound DEF Places
  <2> QED
    BY <1>0, <2>1, <2>4, <2>5, BuffersKept, WorldKept DEF Sound
<1>5. ASSUME UNCHANGED <<fds, revents, marked, wide, out, writing, shutdown,
                         waiting, pending, gone, space>>,
             listening' \in BOOLEAN,
             pc' \in Places \ {"accept"},
             index' = 1 \/ (index' = index /\ pc' = "closing" /\ pc = "poll")
                \/ (index' \in 1..(Len(fds) + 1)
                    /\ pc' \in {"sweep", "stopped"})
      PROVE  Sound'
  <2>1. index' \in 1..(Len(fds) + 1)
    BY <1>0, <1>5
  <2>2. shutdown' \in BOOLEAN
    BY <1>0, <1>5 DEF FlagTypes
  <2>3. FlagTypes'
    BY <1>5, <2>2 DEF FlagTypes
  <2>4. Ready'
    BY <1>0, <1>5 DEF Ready
  <2>5. PollSetSound'
    BY <1>0, <1>5, <2>1, PlaceSound
  <2> QED
    BY <1>0, <1>5, <2>3, <2>4, <2>5, BuffersKept, WorldKept DEF Sound
<1>6. CASE StartSweep \/ EndRound \/ Leave
  <2>1. /\ UNCHANGED <<fds, revents, marked, wide, out, writing, shutdown,
                       waiting, pending, gone, space>>
        /\ UNCHANGED listening /\ pc' \in Places \ {"accept"}
        /\ index' = 1 \/ (index' = index /\ pc' = "closing" /\ pc = "poll")
    BY <1>6 DEF StartSweep, EndRound, Leave, Places, buffers, world
  <2>2. listening' \in BOOLEAN
    BY <1>0, <2>1 DEF FlagTypes
  <2> QED
    BY <1>5, <2>1, <2>2
<1>7. CASE Stop
  <2>1. /\ UNCHANGED <<index, fds, revents, marked, wide, out, writing,
                       shutdown, waiting, pending, gone, space>>
        /\ listening' = FALSE /\ pc' = "stopped"
    BY <1>7 DEF Stop, buffers, world
  <2>2. listening' \in BOOLEAN
    BY <2>1
  <2> QED
    BY <1>0, <1>5, <2>1, <2>2 DEF Places
<1>8. ASSUME NEW c \in Clients, SweepOver(c) PROVE Sound'
  <2>1. /\ UNCHANGED <<pc, fds, revents, listening, marked, wide, out,
                       writing, shutdown, waiting, pending, gone, space>>
        /\ pc = "sweep" /\ index' = index + 1 /\ index \in DOMAIN fds
    BY <1>8 DEF SweepOver, At, buffers, world
  <2>2. listening' \in BOOLEAN
    BY <1>0, <2>1 DEF FlagTypes
  <2>3. index' \in 1..(Len(fds) + 1)
    BY <1>0, <2>1
  <2> QED
    BY <1>5, <2>1, <2>2, <2>3 DEF Places
<1>9. ASSUME NEW c \in Clients,
             ReceiveFailed(c) \/ ReceiveQuit(c) \/ SendFailed(c)
      PROVE  Sound'
  <2>1. /\ index \in DOMAIN fds /\ c = fds[index] /\ pc' = "drop"
        /\ marked' = marked \cup {c} /\ wide' \subseteq wide \cup {c}
        /\ pending' \subseteq pending
        /\ UNCHANGED <<index, fds, revents, listening, out, writing, shutdown,
                       waiting, gone, space>>
    BY <1>9 DEF ReceiveFailed, ReceiveQuit, SendFailed, Received, At, world
  <2>2. c \in Connected
    BY <2>1 DEF Connected
  <2>3. BuffersSound'
    BY <1>0, <2>1, <2>2, MarkSound
  <2>4. PollSetSound'
    BY <1>0, <2>1, PlaceSound DEF Places
  <2>5. Ready'
    BY <2>1 DEF Ready
  <2> QED
    BY <1>0, <2>1, <2>3, <2>4, <2>5, WorldKept, FlagsKept DEF Sound
<1>10. ASSUME NEW c \in Clients, ReceiveCommand(c) PROVE Sound'
  <2>1. /\ pc' \in {"drop", "output"} /\ pending' \subseteq pending
        /\ UNCHANGED <<index, fds, revents, listening, wide, shutdown, waiting,
                       gone, space>>
    BY <1>10 DEF ReceiveCommand
  <2>2. BuffersSound'
    <3>1. CASE UNCHANGED <<out, writing, marked>>
      BY <1>0, <2>1, <3>1, BuffersKept
    <3>2. ASSUME NEW audience \in SUBSET Connected, NEW n \in Bursts,
                 QueueLines(audience, n)
          PROVE  BuffersSound'
      <4>1. n \in Nat /\ n > 0 /\ Connected' = Connected
        BY <2>1, Sizes, SameClients
      <4> QED
        BY <1>0, <2>1, <3>2, <4>1, QueueSound
    <3> QED
      BY <1>10, <3>1, <3>2 DEF ReceiveCommand
  <2>3. PollSetSound'
    BY <1>0, <2>1, PlaceSound DEF Places
  <2>4. Ready'
    BY <2>1 DEF Ready
  <2> QED
    BY <1>0, <2>1, <2>2, <2>3, <2>4, WorldKept, FlagsKept DEF Sound
<1>11. ASSUME NEW c \in Clients, NothingToSend(c) PROVE Sound'
  <2>1. /\ Received(c) /\ ServedOrHungUp(c)
        /\ UNCHANGED <<fds, listening, marked, wide, out, writing, shutdown,
                       waiting, pending, gone, space>>
    BY <1>11 DEF NothingToSend, buffers, world
  <2>2. PollSetSound' /\ pc' \in {"drop", "input"}
    BY <1>0, <2>1, ServedPlace
  <2>3. Ready'
    BY <2>2 DEF Ready
  <2> QED
    BY <1>0, <2>1, <2>2, <2>3, BuffersKept, WorldKept, FlagsKept DEF Sound
<1>12. ASSUME NEW c \in Clients, Send(c) PROVE Sound'
  <2>1. Received(c) /\ ServedOrHungUp(c) /\ UNCHANGED fds
    BY <1>12 DEF Send
  <2>2. PollSetSound' /\ pc' \in {"drop", "input"} /\ c \in Connected
    BY <1>0, <2>1, ServedPlace
  <2>3. Ready'
    BY <2>2 DEF Ready
  <2> QED
    BY <1>0, <1>12, <2>2, <2>3, SendSound DEF Sound
<1>13. ASSUME NEW c \in Clients, Drop(c) \/ SweepOut(c) PROVE Sound'
  <2>1. /\ index \in DOMAIN fds
        /\ CloseCurrent("input") \/ CloseCurrent("sweep")
    BY <1>13 DEF Drop, SweepOut, At
  <2> QED
    BY <2>1, CloseSound
<1>14. CASE CloseNext
  <2>1. PICK i \in DOMAIN fds :
           \/ fds[i] \notin wide /\ DisconnectAt(i) /\ UNCHANGED <<pc, index>>
           \/ fds[i] \in wide /\ Fail
    BY <1>14 DEF CloseNext
  <2>2. pc = "closing" /\ index = 1 /\ 1 \in 1..Len(fds)
    BY <1>0, <1>14, <2>1 DEF CloseNext, Ready
  <2>3. CASE fds[i] \notin wide /\ DisconnectAt(i) /\ UNCHANGED <<pc, index>>
    <3>1. pc' \in Places /\ index' \in 1..Len(fds) /\ Ready'
      BY <2>2, <2>3 DEF Places, Ready
    <3> QED
      BY <1>0, <2>3, <3>1, DisconnectSound DEF Sound
  <2>4. CASE Fail
    <3>1. /\ pc' \in Places /\ Ready'
          /\ UNCHANGED <<index, fds, revents, listening, marked, wide, out,
                         writing, shutdown, waiting, pending, gone, space>>
      BY <2>4 DEF Fail, Places, Ready, buffers, world
    <3> QED
      BY <1>0, <3>1, PlaceSound, BuffersKept, WorldKept, FlagsKept DEF Sound
  <2> QED
    BY <2>1, <2>3, <2>4
<1>15. ASSUME UNCHANGED <<loop, buffers>>, shutdown' \in BOOLEAN, WorldSound',
              pc = "accept" => waiting' > 0
       PROVE  Sound'
  <2>1. UNCHANGED <<pc, index, fds, revents, listening, marked, wide, out,
                    writing>>
    BY <1>15 DEF loop, buffers
  <2>2. listening' \in BOOLEAN
    BY <1>0, <2>1 DEF FlagTypes
  <2>3. FlagTypes'
    BY <1>15, <2>2 DEF FlagTypes
  <2>4. Ready'
    BY <1>0, <1>15, <2>1 DEF Ready
  <2>5. PollSetSound'
    BY <1>0, <2>1, PlaceSound DEF PollSetSound, LoopTypes
  <2> QED
    BY <1>0, <1>15, <2>1, <2>3, <2>4, <2>5, BuffersKept DEF Sound
<1>16. CASE Arrive
  <2>1. /\ UNCHANGED <<loop, buffers, shutdown, pending, gone, space>>
        /\ waiting < MaxWaiting /\ waiting' = waiting + 1
    BY <1>16 DEF Arrive
  <2>2. waiting' \in 0..MaxWaiting /\ waiting' > 0
    BY <1>0, <2>1, Sizes DEF WorldSound, WorldTypes
  <2>3. WorldSound'
    BY <1>0, <2>1, <2>2, SameClients DEF WorldSound, WorldTypes, loop
  <2>4. shutdown' \in BOOLEAN
    BY <1>0, <2>1 DEF FlagTypes
  <2> QED
    BY <1>15, <2>1, <2>2, <2>3, <2>4
<1>17. CASE Signal
  <2>1. UNCHANGED <<loop, buffers, world>> /\ shutdown' = TRUE
    BY <1>17 DEF Signal
  <2>2. shutdown' \in BOOLEAN
    BY <2>1
  <2>3. WorldSound'
    BY <1>0, <2>1, WorldKept DEF loop, world
  <2>4. pc = "accept" => waiting' > 0
    BY <1>0, <2>1 DEF Ready, world
  <2> QED
    BY <1>15, <2>1, <2>2, <2>3, <2>4
<1>18. ASSUME NEW c \in Clients, Peer(c) PROVE Sound'
  <2>1. UNCHANGED <<loop, buffers, shutdown, waiting>> /\ c \in Connected
    BY <1>18 DEF Peer, Say, HangUp, Read
  <2>2. Connected' = Connected
    BY <2>1, SameClients DEF loop
  <2>3. WorldSound'
    <3>1. CASE Say(c)
      BY <1>0, <2>1, <2>2, <3>1 DEF Say, WorldSound, WorldTypes
    <3>2. CASE HangUp(c)
      BY <1>0, <2>1, <2>2, <3>2 DEF HangUp, WorldSound, WorldTypes
    <3>3. CASE Read(c)
      BY <1>0, <2>1, <2>2, <3>3, Sizes DEF Read, WorldSound, WorldTypes
    <3> QED
      BY <1>18, <3>1, <3>2, <3>3 DEF Peer
  <2>4. shutdown' \in BOOLEAN
    BY <1>0, <2>1 DEF FlagTypes
  <2>5. pc = "accept" => waiting' > 0
    BY <1>0, <2>1 DEF Ready
  <2> QED
    BY <1>15, <2>1, <2>3, <2>4, <2>5
<1>19. CASE UNCHANGED vars
  <2>1. UNCHANGED <<loop, buffers, shutdown, world>>
    BY <1>19 DEF vars
  <2>2. WorldSound'
    BY <1>0, <2>1, WorldKept DEF loop, world
  <2>3. shutdown' \in BOOLEAN
    BY <1>0, <2>1 DEF FlagTypes
  <2>4. pc = "accept" => waiting' > 0
    BY <1>0, <2>1 DEF Ready, world
  <2> QED
    BY <1>15, <2>1, <2>2, <2>3, <2>4
<1> QED
  BY <1>1, <1>2, <1>3, <1>4, <1>6, <1>7, <1>8, <1>9, <1>10, <1>11, <1>12,
     <1>13, <1>14, <1>16, <1>17, <1>18, <1>19
     DEF Next, Run, Accepting, Serve, Sweep

LEMMA AlwaysSound == Spec => []Sound
BY SoundInit, SoundStep, PTL DEF Spec

(* Every variable keeps its type; no buffer exceeds its limit.             *)
THEOREM TypeCorrect == Spec => []TypeOK
BY AlwaysSound, SoundImplies, PTL

(* Nothing is kept of a descriptor that was closed.                        *)
THEOREM NeverLeftBehind == Spec => []NothingLeftBehind
BY AlwaysSound, SoundImplies, PTL

(* POLLOUT is asked for exactly while there is output.                     *)
THEOREM AlwaysWritesWhenNeeded == Spec => []WritesWhenNeeded
BY AlwaysSound, SoundImplies, PTL

(* Closing a client queues lines to clients that are not marked.           *)
LEMMA DisconnectQueues ==
    ASSUME Sound, NEW i \in DOMAIN fds, DisconnectAt(i),
           NEW c \in marked
    PROVE  out'[c] <= out[c]
<1>1. PICK audience \in SUBSET (Connected \ {fds[i]}) :
         out' = [d \in Clients |->
                    IF d = fds[i] THEN 0
                    ELSE IF d \in audience \ marked THEN Least(out[d] + 1, Limit)
                    ELSE out[d]]
  BY DEF DisconnectAt, NotifyQuit
<1>2. c \in Clients /\ out[c] \in 0..Limit /\ Limit \in Nat
  BY Sizes DEF Sound, BuffersSound, BufferTypes
<1>3. out'[c] = 0 \/ out'[c] = out[c]
  BY <1>1, <1>2
<1> QED
  BY <1>2, <1>3

(* No step queues a line to a client that is marked.                       *)
LEMMA MarkedQueuedNothing ==
    ASSUME Sound, [Next]_vars, NEW c \in marked
    PROVE  out'[c] <= out[c]
<1>1. c \in Clients /\ out \in [Clients -> 0..Limit] /\ Limit \in Nat
      /\ space \in [Clients -> 0..Window] /\ Window \in Nat
  BY Sizes DEF Sound, BuffersSound, BufferTypes, WorldSound, WorldTypes
<1>2. CASE UNCHANGED out
  BY <1>1, <1>2
<1>3. ASSUME NEW d \in Clients, ReceiveCommand(d)
      PROVE  out'[c] <= out[c]
  <2>1. ASSUME NEW audience, NEW n, QueueLines(audience, n)
        PROVE  out'[c] = out[c]
    BY <1>1, <2>1 DEF QueueLines
  <2>2. out' = out \/ out'[c] = out[c]
    BY <1>3, <2>1 DEF ReceiveCommand
  <2> QED
    BY <1>1, <2>2
<1>4. ASSUME NEW d \in Clients, Send(d)
      PROVE  out'[c] <= out[c]
  <2>1. PICK n \in 1..Least(out[d], space[d]) : out' = [out EXCEPT ![d] = @ - n]
    BY <1>4 DEF Send
  <2>2. n \in Nat /\ out[d] \in Nat /\ out[c] \in Nat
    BY <1>1
  <2>3. out'[c] = out[c] \/ out'[c] = out[c] - n
    BY <1>1, <2>1
  <2> QED
    BY <2>2, <2>3
<1>5. ASSUME NEW d \in Clients, Drop(d) \/ SweepOut(d)
      PROVE  out'[c] <= out[c]
  <2>1. index \in DOMAIN fds /\ (DisconnectAt(index) \/ UNCHANGED out)
    BY <1>5 DEF Drop, SweepOut, At, CloseCurrent, Fail, buffers
  <2> QED
    BY <1>2, <2>1, DisconnectQueues
<1>6. CASE CloseNext
  <2>1. UNCHANGED out \/ \E i \in DOMAIN fds : DisconnectAt(i)
    BY <1>6 DEF CloseNext, Fail, buffers
  <2> QED
    BY <1>2, <2>1, DisconnectQueues
<1>7. ASSUME NEW d \in Clients,
             \/ Accept(d) \/ ReceiveFailed(d) \/ ReceiveQuit(d)
             \/ NothingToSend(d) \/ SendFailed(d) \/ SweepOver(d) \/ Peer(d)
      PROVE  UNCHANGED out
  BY <1>7 DEF Accept, ReceiveFailed, ReceiveQuit, NothingToSend, SendFailed,
              SweepOver, Peer, Say, HangUp, Read, buffers
<1>8. ASSUME \/ Poll \/ AcceptDropped \/ AcceptFailed \/ StartSweep \/ EndRound
             \/ Leave \/ Stop \/ Arrive \/ Signal \/ UNCHANGED vars
      PROVE  UNCHANGED out
  BY <1>8 DEF Poll, AcceptDropped, AcceptFailed, StartSweep, EndRound, Leave,
              Stop, Arrive, Signal, vars, buffers
<1> QED
  BY <1>2, <1>3, <1>4, <1>5, <1>6, <1>7, <1>8
     DEF Next, Run, Accepting, Serve, Sweep

(* No buffer exceeds its limit, and a client once marked is queued nothing *)
(* more, whatever is broadcast, sent and read: what its peer receives has  *)
(* no gap (queueMessage).                                                  *)
THEOREM NothingEverAfterOverflow == Spec => NothingAfterOverflow
<1>1. Sound /\ Sound' /\ [Next]_vars =>
         [\A c \in Clients :
             out'[c] <= IF c \in marked THEN out[c] ELSE Limit]_vars
  <2> SUFFICES ASSUME Sound, Sound', [Next]_vars, NEW c \in Clients
               PROVE  out'[c] <= IF c \in marked THEN out[c] ELSE Limit
    OBVIOUS
  <2>1. out'[c] \in 0..Limit /\ Limit \in Nat
    BY Sizes DEF Sound, BuffersSound, BufferTypes
  <2> QED
    BY <2>1, MarkedQueuedNothing
<1> QED
  BY <1>1, AlwaysSound, PTL DEF Spec, NothingAfterOverflow

-----------------------------------------------------------------------------
(* The round.                                                              *)

(* The descriptors before the index have been served.                      *)
Served ==
    /\ pc \in {"input", "output", "drop"} =>
          \A j \in DOMAIN fds : j < index => revents[fds[j]] = {}
    /\ RoundComplete

Full(c) == out[c] = Limit /\ c \in writing

(* Those the sweep has passed are marked only if they are full.            *)
Swept ==
    /\ pc = "sweep" =>
          \A j \in DOMAIN fds : j < index /\ fds[j] \in marked => Full(fds[j])
    /\ pc = "poll" => \A c \in marked : Full(c)

LEMMA ServedInit == Init => Served /\ Swept
BY DEF Init, Served, RoundComplete, Swept

(* Erasing the descriptor at the index disturbs none before it.            *)
LEMMA CloseServed ==
    ASSUME Sound, Served, index \in DOMAIN fds, CloseCurrent("input"),
           pc = "drop"
    PROVE  Served'
<1>1. CASE Fail
  BY <1>1 DEF Fail, Served, RoundComplete
<1>2. CASE DisconnectAt(index) /\ pc' = "input" /\ index' = index
  <2>1. /\ fds \in Seq(Clients) /\ index \in 1..Len(fds)
        /\ revents \in [Clients -> SUBSET {"IN", "OUT", "HUP"}]
    BY DEF Sound, PollSetSound, LoopTypes
  <2>2. /\ fds' = RemoveAt(fds, index)
        /\ revents' = [revents EXCEPT ![fds[index]] = {}]
    BY <1>2 DEF DisconnectAt
  <2>3. ASSUME NEW j \in DOMAIN fds', j < index'
        PROVE  revents'[fds'[j]] = {}
    <3>1. j \in 1..(Len(fds) - 1) /\ j < index
      <4>1. fds' \in Seq(Clients) /\ Len(fds') = Len(fds) - 1
        BY <2>1, <2>2, Erased
      <4> QED
        BY <1>2, <2>3, <4>1
    <3>2. fds'[j] = fds[j]
      BY <2>1, <2>2, <3>1, Erased
    <3>3. j \in DOMAIN fds /\ fds[j] \in Clients
      BY <2>1, <3>1
    <3>4. revents[fds[j]] = {}
      BY <3>1, <3>3 DEF Served
    <3> QED
      BY <2>1, <2>2, <3>2, <3>3, <3>4
  <2> QED
    BY <1>2, <2>3 DEF Served, RoundComplete
<1> QED
  BY <1>1, <1>2 DEF CloseCurrent

(* The QUIT of a swept client leaves the marked ones as they are and marks *)
(* only those it finds full.                                               *)
LEMMA CloseSwept ==
    ASSUME Sound, Served, Swept, index \in DOMAIN fds, CloseCurrent("sweep"),
           pc = "sweep"
    PROVE  Served' /\ Swept'
<1>1. CASE Fail
  BY <1>1 DEF Fail, Served, RoundComplete, Swept
<1>2. CASE /\ DisconnectAt(index) /\ fds[index] \notin wide
           /\ pc' = "sweep" /\ index' = index
  <2>1. /\ fds \in Seq(Clients) /\ index \in 1..Len(fds)
        /\ revents \in [Clients -> SUBSET {"IN", "OUT", "HUP"}]
        /\ out \in [Clients -> 0..Limit] /\ Limit \in Nat
        /\ Connected \subseteq Clients
    BY Sizes, ConnectedType
       DEF Sound, PollSetSound, LoopTypes, BuffersSound, BufferTypes
  <2>2. PICK c \in Clients : c = fds[index]
    BY <2>1
  <2>3. /\ fds' = RemoveAt(fds, index)
        /\ revents' = [revents EXCEPT ![c] = {}]
    BY <1>2, <2>2 DEF DisconnectAt
  <2>4. Connected' = Connected \ {c}
    <3>1. index' \in 1..Len(fds) /\ pc' \in Places
      BY <1>2, <2>1 DEF Places
    <3> QED
      BY <1>2, <2>2, <3>1, DisconnectSound DEF Sound
  <2>5. Served'
    <3>1. \A d \in Connected' : revents'[d] = {}
      BY <2>1, <2>3, <2>4 DEF Served, RoundComplete
    <3> QED
      BY <1>2, <3>1 DEF Served, RoundComplete
  <2>6. PICK audience \in SUBSET (Connected \ {c}) :
           LET told == audience \ marked
           IN  /\ out' = [d \in Clients |->
                             IF d = c THEN 0
                             ELSE IF d \in told THEN Least(out[d] + 1, Limit)
                             ELSE out[d]]
               /\ writing' = (writing \cup told) \ {c}
               /\ marked' = (marked \ {c})
                               \cup {d \in told : out[d] + 1 > Limit}
    BY <1>2, <2>2 DEF DisconnectAt, NotifyQuit
  <2>7. ASSUME NEW d \in marked', d \in marked => Full(d)
        PROVE  Full(d)'
    <3>1. CASE d \in marked
      <4>1. d # c /\ d \notin audience \ marked /\ d \in Clients
        BY <2>6, <3>1 DEF Sound, BuffersSound, BufferTypes
      <4>2. out'[d] = out[d] /\ d \in writing'
        BY <2>6, <2>7, <3>1, <4>1 DEF Full
      <4> QED
        BY <2>7, <3>1, <4>2 DEF Full
    <3>2. CASE d \notin marked
      <4>1. d \in audience \ marked /\ out[d] + 1 > Limit /\ d # c
            /\ d \in Clients
        BY <2>1, <2>6, <3>2
      <4>2. out'[d] = Least(out[d] + 1, Limit) /\ d \in writing'
        BY <2>6, <4>1
      <4>3. Least(out[d] + 1, Limit) = Limit
        BY <2>1, <4>1 DEF Least
      <4> QED
        BY <4>2, <4>3 DEF Full
    <3> QED
      BY <3>1, <3>2
  <2>8. ASSUME NEW j \in DOMAIN fds', j < index', fds'[j] \in marked'
        PROVE  Full(fds[j])'
    <3>1. j \in 1..(Len(fds) - 1) /\ j < index
      <4>1. fds' \in Seq(Clients) /\ Len(fds') = Len(fds) - 1
        BY <2>1, <2>3, Erased
      <4> QED
        BY <1>2, <2>8, <4>1
    <3>2. fds'[j] = fds[j]
      BY <2>1, <2>3, <3>1, Erased
    <3>3. PICK d : d = fds[j]
      OBVIOUS
    <3>4. d \in marked => Full(d)
      <4>1. j \in DOMAIN fds
        BY <2>1, <3>1
      <4> QED
        BY <3>1, <3>3, <4>1 DEF Swept
    <3>5. Full(d)'
      BY <2>7, <2>8, <3>2, <3>3, <3>4
    <3> QED
      BY <3>2, <3>3, <3>5 DEF Full
  <2>9. Swept'
    BY <1>2, <2>8 DEF Swept, Full
  <2> QED
    BY <2>5, <2>9
<1> QED
  BY <1>1, <1>2 DEF CloseCurrent

LEMMA ServedStep ==
    Sound /\ Served /\ Swept /\ [Next]_vars => Served' /\ Swept'
<1> SUFFICES ASSUME Sound, Served, Swept, [Next]_vars
             PROVE  Served' /\ Swept'
  OBVIOUS
<1>0. fds \in Seq(Clients) /\ index \in 1..(Len(fds) + 1)
      /\ (pc = "accept" => index = 1)
      /\ revents \in [Clients -> SUBSET {"IN", "OUT", "HUP"}]
      /\ marked \subseteq Connected
  BY DEF Sound, PollSetSound, LoopTypes, BuffersSound, Ready
<1>1. ASSUME index' = 1, pc' \in {"accept", "input"}
      PROVE  Served' /\ Swept'
  <2>1. ASSUME NEW j \in DOMAIN fds', fds' \in Seq(Clients) PROVE ~(j < index')
    BY <1>1, <2>1
  <2>2. Sound'
    BY SoundStep
  <2>3. fds' \in Seq(Clients)
    BY <2>2 DEF Sound, PollSetSound, LoopTypes
  <2> QED
    BY <1>1, <2>1, <2>3 DEF Served, Swept, RoundComplete
<1>2. CASE Poll \/ Accepting
  <2>1. index' = 1 /\ pc' \in {"accept", "input"}
    BY <1>0, <1>2 DEF Poll, Accepting, AcceptDropped, AcceptFailed, Accept
  <2> QED
    BY <1>1, <2>1
<1>3. CASE StartSweep
  <2>1. /\ pc = "input" /\ index \notin DOMAIN fds /\ pc' = "sweep"
        /\ index' = 1 /\ fds' = fds /\ revents' = revents
    BY <1>3 DEF StartSweep
  <2>2. \A j \in DOMAIN fds : j < index /\ ~(j < 1)
    BY <1>0, <2>1
  <2>3. \A c \in Connected : revents[c] = {}
    BY <2>1, <2>2 DEF Served, Connected
  <2>4. Served'
    BY <2>1, <2>3, SameClients DEF Served, RoundComplete
  <2>5. Swept'
    BY <2>1, <2>2 DEF Swept
  <2> QED
    BY <2>4, <2>5
<1>4. ASSUME NEW c \in Clients, SweepOver(c) PROVE Served' /\ Swept'
  <2>1. /\ pc = "sweep" /\ c = fds[index] /\ c \notin marked
        /\ index \in DOMAIN fds /\ index' = index + 1
        /\ UNCHANGED <<pc, fds, revents, marked, out, writing>>
    BY <1>4 DEF SweepOver, At, buffers
  <2>2. Served'
    BY <2>1, SameClients DEF Served, RoundComplete
  <2>3. ASSUME NEW j \in DOMAIN fds, j < index + 1, fds[j] \in marked
        PROVE  Full(fds[j])
    <3>1. j # index
      BY <2>1, <2>3
    <3>2. j < index
      BY <1>0, <2>3, <3>1
    <3> QED
      BY <2>1, <2>3, <3>2 DEF Swept
  <2>4. Swept'
    BY <2>1, <2>3 DEF Swept, Full
  <2> QED
    BY <2>2, <2>4
<1>5. CASE EndRound
  <2>1. /\ pc = "sweep" /\ index \notin DOMAIN fds /\ pc' = "poll"
        /\ UNCHANGED <<fds, marked, out, writing>>
    BY <1>5 DEF EndRound, buffers
  <2>2. \A j \in DOMAIN fds : j < index
    BY <1>0, <2>1
  <2>3. \A c \in marked : Full(c)
    BY <1>0, <2>1, <2>2 DEF Swept, Connected
  <2>4. Swept'
    BY <2>1, <2>3 DEF Swept, Full
  <2> QED
    BY <2>1, <2>4 DEF Served, RoundComplete
<1>6. CASE Leave \/ Stop \/ CloseNext
  <2>1. pc' \in {"closing", "stopped", "failed"}
    BY <1>6 DEF Leave, Stop, CloseNext, Fail
  <2> QED
    BY <2>1 DEF Served, RoundComplete, Swept
<1>7. ASSUME pc \in {"input", "output"}, pc' \in {"drop", "output"},
             UNCHANGED <<index, fds, revents>>
      PROVE  Served' /\ Swept'
  BY <1>7 DEF Served, RoundComplete, Swept
<1>8. ASSUME NEW c \in Clients,
             \/ ReceiveFailed(c) \/ ReceiveCommand(c) \/ ReceiveQuit(c)
             \/ SendFailed(c)
      PROVE  Served' /\ Swept'
  <2>1. /\ pc \in {"input", "output"} /\ pc' \in {"drop", "output"}
        /\ UNCHANGED <<index, fds, revents>>
    BY <1>8 DEF ReceiveFailed, ReceiveCommand, ReceiveQuit, SendFailed,
                Received, At
  <2> QED
    BY <1>7, <2>1
<1>9. ASSUME NEW c \in Clients, NothingToSend(c) \/ Send(c)
      PROVE  Served' /\ Swept'
  <2>1. /\ pc \in {"input", "output"} /\ index \in DOMAIN fds
        /\ c = fds[index] /\ ServedOrHungUp(c) /\ fds' = fds
    BY <1>9 DEF NothingToSend, Send, Received, At
  <2>2. CASE pc' = "drop" /\ UNCHANGED <<index, revents>>
    BY <1>7, <2>1, <2>2
  <2>3. CASE /\ pc' = "input" /\ index' = index + 1
             /\ revents' = [revents EXCEPT ![c] = {}]
    <3>1. ASSUME NEW j \in DOMAIN fds, j < index + 1
          PROVE  revents'[fds[j]] = {}
      <4>1. fds[j] \in Clients
        BY <1>0
      <4>2. CASE j = index
        BY <1>0, <2>1, <2>3, <4>2
      <4>3. CASE j # index
        <5>1. j < index
          BY <1>0, <3>1, <4>3
        <5>2. revents[fds[j]] = {}
          BY <2>1, <5>1 DEF Served
        <5> QED
          BY <1>0, <2>3, <4>1, <5>2
      <4> QED
        BY <4>2, <4>3
    <3> QED
      BY <2>1, <2>3, <3>1 DEF Served, RoundComplete, Swept
  <2> QED
    BY <2>1, <2>2, <2>3 DEF ServedOrHungUp
<1>10. ASSUME NEW c \in Clients, Drop(c) PROVE Served' /\ Swept'
  <2>1. index \in DOMAIN fds /\ CloseCurrent("input") /\ pc = "drop"
    BY <1>10 DEF Drop, At
  <2>2. Served'
    BY <2>1, CloseServed
  <2>3. pc' \in {"input", "failed"}
    BY <2>1 DEF CloseCurrent, Fail
  <2> QED
    BY <2>2, <2>3 DEF Swept
<1>11. ASSUME NEW c \in Clients, SweepOut(c) PROVE Served' /\ Swept'
  BY <1>11, CloseSwept DEF SweepOut, At
<1>12. CASE Arrive \/ Signal \/ (\E c \in Clients : Peer(c)) \/ UNCHANGED vars
  <2>1. UNCHANGED <<pc, index, fds, revents, marked, out, writing>>
    BY <1>12 DEF Arrive, Signal, Peer, Say, HangUp, Read, vars, loop, buffers
  <2> QED
    BY <2>1, SameClients DEF Served, RoundComplete, Swept, Full
<1> QED
  BY <1>2, <1>3, <1>4, <1>5, <1>6, <1>8, <1>9, <1>10, <1>11, <1>12
     DEF Next, Run, Serve, Sweep

LEMMA AlwaysServed == Spec => [](Served /\ Swept)
BY AlwaysSound, ServedInit, ServedStep, PTL DEF Spec

(* No descriptor that poll() reported is skipped, though descriptors are   *)
(* erased from the vector while it is traversed.                           *)
THEOREM RoundAlwaysComplete == Spec => []RoundComplete
<1>1. Served => RoundComplete
  BY DEF Served
<1> QED
  BY <1>1, AlwaysServed, PTL

(* Whoever is still marked when a round is over has a full buffer.         *)
THEOREM LingerersAlwaysFull == Spec => []LingerersAreFull
<1>1. Swept => LingerersAreFull
  BY DEF Swept, LingerersAreFull, Full
<1> QED
  BY <1>1, AlwaysServed, PTL

(* While accepting is paused somebody is connected whose closing resumes   *)
(* it, if only accept() fails for want of the descriptors of this process. *)
Resumable ==
    /\ ~listening /\ ~shutdown => fds # <<>>
    /\ pc \in {"closing", "stopped"} => shutdown

LEMMA ResumableStep ==
    ASSUME "accept" \notin Faults, Clients # {}
    PROVE  Sound /\ Resumable /\ [Next]_vars => Resumable'
<1> SUFFICES ASSUME Sound, Resumable, [Next]_vars PROVE Resumable'
  OBVIOUS
<1>1. ASSUME NEW i \in DOMAIN fds, DisconnectAt(i),
             pc' = pc \/ pc' \in {"input", "sweep"}
      PROVE  Resumable'
  <2>1. shutdown' = shutdown /\ (listening' = (listening \/ ~shutdown))
    BY <1>1 DEF DisconnectAt, Resumed
  <2> QED
    BY <1>1, <2>1 DEF Resumable
<1>2. CASE Fail
  BY <1>2 DEF Fail, Resumable
<1>3. ASSUME NEW c, NEW place, At(place, c), NEW next \in {"input", "sweep"},
             CloseCurrent(next)
      PROVE  Resumable'
  BY <1>1, <1>2, <1>3 DEF At, CloseCurrent
<1>4. ASSUME NEW c \in Clients, Accept(c) PROVE Resumable'
  <2>1. fds' = Append(fds, c) /\ shutdown' = shutdown /\ pc' = "input"
    BY <1>4 DEF Accept
  <2>2. fds \in Seq(Clients)
    BY DEF Sound, PollSetSound, LoopTypes
  <2>3. Append(fds, c) # <<>>
    BY <2>2
  <2> QED
    BY <2>1, <2>3 DEF Resumable
<1>5. CASE AcceptFailed
  <2>1. /\ Connected = Clients /\ fds' = fds /\ pc' = "input"
    BY <1>5 DEF AcceptFailed
  <2>2. fds # <<>>
    BY <2>1 DEF Connected
  <2> QED
    BY <2>1, <2>2 DEF Resumable
<1>6. CASE Stop
  BY <1>6 DEF Stop, Resumable
<1>7. CASE CloseNext
  <2>1. PICK i \in DOMAIN fds :
           (DisconnectAt(i) /\ UNCHANGED <<pc, index>>) \/ Fail
    BY <1>7 DEF CloseNext
  <2> QED
    BY <1>1, <1>2, <2>1
<1>8. ASSUME /\ fds' = fds /\ listening' = listening
             /\ shutdown' = shutdown \/ shutdown'
             /\ \/ pc' = pc \/ shutdown'
                \/ pc' \notin {"closing", "stopped"}
      PROVE  Resumable'
  BY <1>8 DEF Resumable
<1>9. ASSUME NEW c \in Clients, Serve(c) PROVE Resumable'
  <2>1. CASE Drop(c)
    BY <1>3, <2>1 DEF Drop
  <2>2. CASE ReceiveFailed(c) \/ ReceiveCommand(c) \/ ReceiveQuit(c)
    <3>1. pc' # "closing" /\ pc' # "stopped"
      BY <2>2 DEF ReceiveFailed, ReceiveCommand, ReceiveQuit
    <3> QED
      BY <1>8, <2>2, <3>1 DEF ReceiveFailed, ReceiveCommand, ReceiveQuit
  <2>3. CASE NothingToSend(c) \/ Send(c) \/ SendFailed(c)
    <3>1. pc' # "closing" /\ pc' # "stopped"
      BY <2>3 DEF NothingToSend, Send, SendFailed, ServedOrHungUp
    <3> QED
      BY <1>8, <2>3, <3>1 DEF NothingToSend, Send, SendFailed
  <2> QED
    BY <1>9, <2>1, <2>2, <2>3 DEF Serve
<1>10. ASSUME NEW c \in Clients, Sweep(c) PROVE Resumable'
  BY <1>3, <1>8, <1>10 DEF Sweep, SweepOver, SweepOut
<1>11. CASE Poll \/ AcceptDropped \/ StartSweep \/ EndRound \/ Leave
  BY <1>8, <1>11 DEF Poll, AcceptDropped, StartSweep, EndRound, Leave
<1>12. CASE Arrive \/ Signal \/ \E c \in Clients : Peer(c)
  BY <1>8, <1>12 DEF Arrive, Signal, Peer, Say, HangUp, Read, loop
<1>13. CASE UNCHANGED vars
  BY <1>8, <1>13 DEF vars, loop
<1> QED
  BY <1>4, <1>5, <1>6, <1>7, <1>9, <1>10, <1>11, <1>12, <1>13
  DEF Next, Run, Accepting

(* PausedForClients for any clients, if accept() fails only for want of    *)
(* descriptors: whoever holds the last one resumes accepting by leaving.   *)
THEOREM PausedAlwaysForClients ==
    ASSUME "accept" \notin Faults, Clients # {}
    PROVE  Spec => []PausedForClients
<1>1. Init => Resumable
  BY DEF Init, Resumable
<1>2. Sound /\ Resumable /\ [Next]_vars => Resumable'
  BY ResumableStep
<1>3. Resumable => PausedForClients
  BY DEF Resumable, PausedForClients
<1> QED
  BY <1>1, <1>2, <1>3, AlwaysSound, PTL DEF Spec
=============================================================================
