------------------------------ MODULE EventLoop -----------------------------
(***************************************************************************)
(* Server::run(): one thread around poll().  A round takes a snapshot of   *)
(* the ready descriptors, accepts at most one connection, serves the       *)
(* descriptors in the order of pollFds, closing those that failed, and     *)
(* then sweeps pollFds for clients marked for disconnection meanwhile.     *)
(* Peers and the kernel act between any two steps.                         *)
(*                                                                         *)
(* What a command does elsewhere is left out.  It queues some lines to any *)
(* clients the sender can reach, or it marks its sender: QUIT, a line or   *)
(* buffer too long, a handler that throws.  A client is in `wide' when the *)
(* QUIT line that its disconnection sends to others exceeds 512 bytes.     *)
(* Output is counted in lines; poll() on the listening socket reports no   *)
(* errors.  A transient error of recv() or send() is a step that changes   *)
(* nothing but the place in the round, and is left out.                    *)
(***************************************************************************)
EXTENDS Naturals, Sequences, SequencesExt

CONSTANTS
    Clients,        \* descriptors the process has for connections
    MaxWaiting,     \* the backlog of listen() considered
    Limit,          \* IRC_MAX_OUTPUT_BUFFER_SIZE
    Window,         \* what the kernel takes for a peer that does not read
    Bursts,         \* how many lines a command can queue to one client
    Faults          \* which of FaultKinds happen

ASSUME SizesAssumption ==
    /\ MaxWaiting \in Nat /\ Limit \in Nat \ {0} /\ Window \in Nat \ {0}
    /\ Bursts \subseteq Nat \ {0}

(* A termination signal, a peer that closes, accept() failing while there  *)
(* are descriptors left, a QUIT line that exceeds 512 bytes.               *)
FaultKinds == {"signal", "close", "accept", "long quit"}

ASSUME FaultsAssumption == Faults \subseteq FaultKinds

VARIABLES
    pc,         \* where run() is
    index,      \* descriptorIndex
    fds,        \* pollFds without the listening socket
    revents,    \* of each client, until it has been served in this round
    listening,  \* POLLIN is set for the listening socket
    marked,     \* clients with disconnectRequested set
    wide,       \* those whose QUIT line does not fit
    out,        \* lines in Client::outputBuffer
    writing,    \* clients with POLLOUT in their events
    shutdown,   \* SignalHandler::shutdownRequested
    waiting,    \* connections waiting for accept()
    pending,    \* clients with bytes to receive
    gone,       \* clients whose peer has closed
    space       \* lines the kernel still takes for the client

loop == <<pc, index, fds, revents, listening>>
buffers == <<marked, wide, out, writing>>
world == <<waiting, pending, gone, space>>
vars == <<loop, buffers, shutdown, world>>

Connected == {fds[i] : i \in DOMAIN fds}

Init ==
    /\ pc = "poll" /\ index = 1
    /\ fds = <<>>
    /\ revents = [c \in Clients |-> {}]
    /\ listening = TRUE
    /\ marked = {} /\ wide = {} /\ writing = {}
    /\ out = [c \in Clients |-> 0]
    /\ shutdown = FALSE
    /\ waiting = 0 /\ pending = {} /\ gone = {}
    /\ space = [c \in Clients |-> Window]

-----------------------------------------------------------------------------
(* Queueing output.                                                        *)

Least(m, n) == IF m < n THEN m ELSE n

(* queueMessage(): marked clients are passed over, a buffer that would     *)
(* exceed its limit keeps what it has and marks its client.                *)
QueueThenCheck(audience, n) ==
    LET told == audience \ marked
    IN  /\ out' = [c \in Clients |->
                      IF c \in told THEN out[c] + n ELSE out[c]]
        /\ writing' = writing \cup told
        /\ marked' = marked \cup {c \in told : out[c] + n > Limit}

QueueEvenIfMarked(audience, n) ==
    /\ out' = [c \in Clients |->
                  IF c \in audience THEN Least(out[c] + n, Limit) ELSE out[c]]
    /\ writing' = writing \cup audience
    /\ marked' = marked \cup {c \in audience : out[c] + n > Limit}

QueueLines(audience, n) ==
    LET told == audience \ marked
    IN  /\ out' = [c \in Clients |->
                      IF c \in told THEN Least(out[c] + n, Limit) ELSE out[c]]
        /\ writing' = writing \cup told
        /\ marked' = marked \cup {c \in told : out[c] + n > Limit}

-----------------------------------------------------------------------------
(* disconnectClient(): the QUIT line goes to the clients that share a      *)
(* channel, the client leaves every structure, accepting is resumed.       *)

NotifyTheClientToo(c) ==
    \E audience \in SUBSET Connected : QueueLines(audience, 1)

NotifyQuit(c) ==
    \E audience \in SUBSET (Connected \ {c}) :
        LET told == audience \ marked
        IN  /\ out' = [d \in Clients |->
                          IF d = c THEN 0
                          ELSE IF d \in told THEN Least(out[d] + 1, Limit)
                          ELSE out[d]]
            /\ writing' = (writing \cup told) \ {c}
            /\ marked' = (marked \ {c}) \cup {d \in told : out[d] + 1 > Limit}

NotResumed == listening

Resumed == listening \/ ~shutdown

DisconnectAt(i) ==
    LET c == fds[i]
    IN  /\ NotifyQuit(c)
        /\ wide' = wide \ {c}
        /\ fds' = RemoveAt(fds, i)
        /\ revents' = [revents EXCEPT ![c] = {}]
        /\ listening' = Resumed
        /\ pending' = pending \ {c}
        /\ gone' = gone \ {c}
        /\ space' = [space EXCEPT ![c] = Window]
        /\ UNCHANGED <<shutdown, waiting>>

(* IrcMessage::serialize() throws out of disconnectClient() and run(), and *)
(* again out of the destructor: the process ends.                          *)
Fail ==
    /\ pc' = "failed"
    /\ UNCHANGED <<index, fds, revents, listening, buffers, shutdown, world>>

(* Closing the client at the current index, which then holds the next one. *)
CloseCurrent(next) ==
    \/ /\ fds[index] \notin wide
       /\ DisconnectAt(index)
       /\ pc' = next
       /\ UNCHANGED index
    \/ fds[index] \in wide /\ Fail

-----------------------------------------------------------------------------
(* A round.                                                                *)

Readable(c) == c \in pending \cup gone

Events(c) ==
    (IF Readable(c) THEN {"IN"} ELSE {})
    \cup (IF c \in writing /\ (space[c] > 0 \/ c \in gone) THEN {"OUT"} ELSE {})

(* poll() returns with something ready; a timeout leads back to poll().    *)
(* A peer that has closed both ways shows as POLLHUP or POLLERR.           *)
Poll ==
    /\ pc = "poll" /\ ~shutdown
    /\ \E hungup \in SUBSET (gone \cap Connected) :
          revents' = [c \in Clients |->
                         IF c \notin Connected THEN {}
                         ELSE Events(c) \cup IF c \in hungup THEN {"HUP"} ELSE {}]
    /\ \/ listening /\ waiting > 0 /\ pc' = "accept"
       \/ /\ ~(listening /\ waiting > 0)
          /\ \E c \in Connected : revents'[c] # {}
          /\ pc' = "input"
    /\ index' = 1
    /\ UNCHANGED <<fds, listening, buffers, shutdown, world>>

Accept(c) ==
    /\ pc = "accept" /\ c \notin Connected
    /\ fds' = Append(fds, c)
    /\ waiting' = waiting - 1
    /\ pc' = "input"
    /\ UNCHANGED <<index, revents, listening, buffers, shutdown, pending, gone,
                   space>>

(* The connection was aborted or its registration failed.                  *)
AcceptDroppedAndPolled ==
    /\ pc = "accept"
    /\ waiting' = waiting - 1
    /\ pc' = "poll"
    /\ UNCHANGED <<index, fds, revents, listening, buffers, shutdown, pending,
                   gone, space>>

AcceptDropped ==
    /\ pc = "accept"
    /\ waiting' = waiting - 1
    /\ pc' = "input"
    /\ UNCHANGED <<index, fds, revents, listening, buffers, shutdown, pending,
                   gone, space>>

(* pauseAcceptingConnections()                                             *)
AcceptFailed ==
    /\ pc = "accept"
    /\ Connected = Clients \/ "accept" \in Faults
    /\ listening' = FALSE
    /\ pc' = "input"
    /\ UNCHANGED <<index, fds, revents, buffers, shutdown, world>>

(* The descriptor that the pass is at.                                     *)
At(place, c) == pc = place /\ index \in DOMAIN fds /\ c = fds[index]

(* Data of a marked client, the end of the stream or an error.             *)
ReceiveFailed(c) ==
    /\ At("input", c) /\ "IN" \in revents[c]
    /\ c \in marked \/ c \in gone
    /\ marked' = marked \cup {c}
    /\ pending' = pending \ {c}
    /\ pc' = "drop"
    /\ UNCHANGED <<index, fds, revents, listening, wide, out, writing,
                   shutdown, waiting, gone, space>>

(* A command that queues n lines to some clients, its sender included or   *)
(* not, and whose sender may be marked by that.                            *)
ReceiveCommand(c) ==
    /\ At("input", c) /\ "IN" \in revents[c]
    /\ c \in pending \ marked
    /\ \/ UNCHANGED <<out, writing, marked>>
       \/ \E audience \in SUBSET Connected, n \in Bursts :
             QueueLines(audience, n)
    /\ pending' = pending \ {c}
    /\ pc' = IF c \in marked' THEN "drop" ELSE "output"
    /\ UNCHANGED <<index, fds, revents, listening, wide, shutdown, waiting,
                   gone, space>>

(* A command that marks its sender.                                        *)
ReceiveQuit(c) ==
    /\ At("input", c) /\ "IN" \in revents[c]
    /\ c \in pending \ marked
    /\ marked' = marked \cup {c}
    /\ wide' \in {wide} \cup IF "long quit" \in Faults THEN {wide \cup {c}}
                              ELSE {}
    /\ pending' = pending \ {c}
    /\ pc' = "drop"
    /\ UNCHANGED <<index, fds, revents, listening, out, writing, shutdown,
                   waiting, gone, space>>

(* Nothing to receive, or the connection may continue after receiving.     *)
Received(c) ==
    At("output", c) \/ (At("input", c) /\ "IN" \notin revents[c])

(* The descriptor has been served, or the peer has closed it.              *)
ServedOrHungUp(c) ==
    IF "HUP" \in revents[c]
    THEN pc' = "drop" /\ UNCHANGED <<index, revents>>
    ELSE /\ pc' = "input" /\ index' = index + 1
         /\ revents' = [revents EXCEPT ![c] = {}]

NothingToSend(c) ==
    /\ Received(c) /\ "OUT" \notin revents[c]
    /\ ServedOrHungUp(c)
    /\ UNCHANGED <<fds, listening, buffers, shutdown, world>>

(* flushClientOutput() and updateClientPollEvents().                       *)
SendWithoutUpdate(c) ==
    /\ Received(c) /\ "OUT" \in revents[c]
    /\ \E n \in 1..Least(out[c], space[c]) :
          /\ out' = [out EXCEPT ![c] = @ - n]
          /\ space' = [space EXCEPT ![c] = @ - n]
    /\ ServedOrHungUp(c)
    /\ UNCHANGED <<fds, listening, marked, wide, writing, shutdown, waiting,
                   pending, gone>>

Send(c) ==
    /\ Received(c) /\ "OUT" \in revents[c]
    /\ \E n \in 1..Least(out[c], space[c]) :
          /\ out' = [out EXCEPT ![c] = @ - n]
          /\ space' = [space EXCEPT ![c] = @ - n]
    /\ writing' = IF out'[c] = 0 THEN writing \ {c} ELSE writing
    /\ ServedOrHungUp(c)
    /\ UNCHANGED <<fds, listening, marked, wide, shutdown, waiting, pending,
                   gone>>

SendFailed(c) ==
    /\ Received(c) /\ "OUT" \in revents[c]
    /\ c \in gone
    /\ marked' = marked \cup {c}
    /\ pc' = "drop"
    /\ UNCHANGED <<index, fds, revents, listening, wide, out, writing,
                   shutdown, world>>

(* The next descriptor moves to the index, which does not advance.         *)
DropAndAdvance(c) ==
    /\ At("drop", c) /\ c \notin wide
    /\ DisconnectAt(index)
    /\ index' = Least(index + 1, Len(fds))
    /\ pc' = "input"

Drop(c) == At("drop", c) /\ CloseCurrent("input")

NoSweep ==
    /\ pc = "input" /\ index \notin DOMAIN fds
    /\ pc' = "poll" /\ index' = 1
    /\ UNCHANGED <<fds, revents, listening, buffers, shutdown, world>>

StartSweep ==
    /\ pc = "input" /\ index \notin DOMAIN fds
    /\ pc' = "sweep" /\ index' = 1
    /\ UNCHANGED <<fds, revents, listening, buffers, shutdown, world>>

SweepOver(c) ==
    /\ At("sweep", c) /\ c \notin marked
    /\ index' = index + 1
    /\ UNCHANGED <<pc, fds, revents, listening, buffers, shutdown, world>>

SweepOutAndAdvance(c) ==
    /\ At("sweep", c) /\ c \in marked \ wide
    /\ DisconnectAt(index)
    /\ index' = Least(index + 1, Len(fds))
    /\ UNCHANGED pc

SweepOut(c) == At("sweep", c) /\ c \in marked /\ CloseCurrent("sweep")

EndRound ==
    /\ pc = "sweep" /\ index \notin DOMAIN fds
    /\ pc' = "poll" /\ index' = 1
    /\ UNCHANGED <<fds, revents, listening, buffers, shutdown, world>>

-----------------------------------------------------------------------------
(* Shutdown: the loop ends at its head, ~Server() runs closeAllFds().      *)

LeaveWhenIdle ==
    /\ pc = "poll" /\ shutdown /\ fds = <<>>
    /\ pc' = "closing"
    /\ UNCHANGED <<index, fds, revents, listening, buffers, shutdown, world>>

Leave ==
    /\ pc = "poll" /\ shutdown
    /\ pc' = "closing"
    /\ UNCHANGED <<index, fds, revents, listening, buffers, shutdown, world>>

CloseNext ==
    /\ pc = "closing"
    /\ \E i \in DOMAIN fds :
          \/ fds[i] \notin wide /\ DisconnectAt(i) /\ UNCHANGED <<pc, index>>
          \/ fds[i] \in wide /\ Fail

Stop ==
    /\ pc = "closing" /\ fds = <<>>
    /\ pc' = "stopped"
    /\ listening' = FALSE
    /\ UNCHANGED <<index, fds, revents, buffers, shutdown, world>>

-----------------------------------------------------------------------------
(* Peers, the kernel and the operator of the server.                       *)

Running == pc \notin {"stopped", "failed"}

Arrive ==
    /\ Running /\ waiting < MaxWaiting
    /\ waiting' = waiting + 1
    /\ UNCHANGED <<loop, buffers, shutdown, pending, gone, space>>

Say(c) ==
    /\ Running /\ c \in Connected \ gone
    /\ pending' = pending \cup {c}
    /\ UNCHANGED <<loop, buffers, shutdown, waiting, gone, space>>

HangUp(c) ==
    /\ Running /\ "close" \in Faults /\ c \in Connected
    /\ gone' = gone \cup {c}
    /\ UNCHANGED <<loop, buffers, shutdown, waiting, pending, space>>

Read(c) ==
    /\ Running /\ c \in Connected \ gone
    /\ space' = [space EXCEPT ![c] = Window]
    /\ UNCHANGED <<loop, buffers, shutdown, waiting, pending, gone>>

Signal ==
    /\ Running /\ "signal" \in Faults
    /\ shutdown' = TRUE
    /\ UNCHANGED <<loop, buffers, world>>

Serve(c) ==
    \/ ReceiveFailed(c) \/ ReceiveCommand(c) \/ ReceiveQuit(c)
    \/ NothingToSend(c) \/ Send(c) \/ SendFailed(c) \/ Drop(c)

Sweep(c) == SweepOver(c) \/ SweepOut(c)

Accepting == AcceptDropped \/ AcceptFailed \/ \E c \in Clients : Accept(c)

Run ==
    \/ Poll \/ Accepting \/ StartSweep \/ EndRound
    \/ \E c \in Clients : Serve(c) \/ Sweep(c)
    \/ Leave \/ CloseNext \/ Stop

Peer(c) == Say(c) \/ HangUp(c) \/ Read(c)

Next == Run \/ Arrive \/ Signal \/ \E c \in Clients : Peer(c)

(* The thread runs: poll() returns when something is ready, and nothing in *)
(* a round blocks.                                                         *)
Fairness == WF_vars(Run)

Spec == Init /\ [][Next]_vars /\ Fairness

(* Peers, besides, go on reading what they are sent.                       *)
PeersRead == \A c \in Clients : WF_vars(Read(c))

AttentiveSpec == Spec /\ PeersRead

-----------------------------------------------------------------------------
(* Properties.                                                             *)

Places == {"poll", "accept", "input", "output", "drop", "sweep", "closing",
           "stopped", "failed"}

(* Every variable has its type.                                            *)
TypeOK ==
    /\ pc \in Places
    /\ fds \in Seq(Clients)
    /\ index \in 1..(Len(fds) + 1)
    /\ revents \in [Clients -> SUBSET {"IN", "OUT", "HUP"}]
    /\ listening \in BOOLEAN /\ shutdown \in BOOLEAN
    /\ marked \subseteq Clients /\ wide \subseteq marked
    /\ writing \subseteq Clients
    /\ out \in [Clients -> 0..Limit] /\ space \in [Clients -> 0..Window]
    /\ waiting \in 0..MaxWaiting
    /\ pending \subseteq Clients /\ gone \subseteq Clients

(* No descriptor is in pollFds twice, and nothing is kept of a client that *)
(* was closed, whose descriptor the kernel gives to the next connection:   *)
(* neither a mark nor output nor an event.                                 *)
NothingLeftBehind ==
    /\ \A i, j \in DOMAIN fds : fds[i] = fds[j] => i = j
    /\ marked \cup writing \cup pending \cup gone \subseteq Connected
    /\ \A c \in Clients \ Connected : out[c] = 0 /\ revents[c] = {}

(* POLLOUT is asked for exactly while there is output: poll() neither      *)
(* spins nor leaves output behind.                                         *)
WritesWhenNeeded == \A c \in Connected : c \in writing <=> out[c] > 0

(* Though descriptors are erased from pollFds while it is traversed, every *)
(* descriptor that poll() reported has been served when the pass ends.     *)
RoundComplete ==
    pc = "sweep" => \A c \in Connected : revents[c] = {}

(* After a sweep the only clients still marked are those that the QUIT of  *)
(* a swept client marked, after the sweep had passed them: their buffers   *)
(* are full and poll() will report them when their peers read.             *)
LingerersAreFull ==
    pc = "poll" => \A c \in marked : out[c] = Limit /\ c \in writing

(* No buffer ever exceeds its limit, and whoever was marked because a line *)
(* did not fit is queued no later one, though its peer may read meanwhile: *)
(* what a peer receives has no gap (queueMessage, across broadcasts,       *)
(* partial sends and the QUITs of others).                                 *)
NothingAfterOverflow ==
    [][\A c \in Clients :
          out'[c] <= IF c \in marked THEN out[c] ELSE Limit]_vars

(* Accepting is paused only while a client is connected whose closing will *)
(* resume it.                                                              *)
PausedForClients == pc = "poll" /\ ~listening /\ ~shutdown => fds # <<>>

(* run() ends by shutdown only.                                            *)
KeepsRunning == pc # "failed"

(* A client marked for disconnection is disconnected.                      *)
MarkedLeave == \A c \in Clients : c \in marked ~> c \notin marked

(* What a client sends is received, or its connection closed, whatever the *)
(* others do.                                                              *)
InputServed == \A c \in Clients : c \in pending ~> c \notin pending

(* A termination signal ends the server, with every connection closed.     *)
ShutdownCompletes == shutdown ~> pc = "stopped" /\ fds = <<>>
=============================================================================
