---------------------------- MODULE Conversation ----------------------------
(***************************************************************************)
(* What is said in one channel and to whom it is delivered: the handlers   *)
(* of PRIVMSG and NOTICE, the history a Channel keeps and JOIN replays,    *)
(* the output limit of every receiver, and the bot, which answers in the   *)
(* channel and in private.                                                 *)
(*                                                                         *)
(* Lines count one each against the limit of the output buffer, and so     *)
(* does a burst that accompanies a command: the welcome; JOIN with topic   *)
(* and names; the reply to INVITE with the JOIN of the bot.  The channel   *)
(* is not the bot's home channel.  Who may join, invite or kick is the     *)
(* subject of Channels and left open here: every client may be the one the *)
(* code lets through.                                                      *)
(***************************************************************************)
EXTENDS Naturals, FiniteSets, Sequences, SequencesExt

CONSTANTS
    Clients,        \* slots for TCP clients
    Bot,            \* the virtual client of class Bot
    Texts,          \* what PRIVMSG texts there are, as far as the bot cares
    Capacity,       \* lines that fit in an output buffer (64 KiB)
    MaxHistory,     \* bound on the lines said in the channel
    MaxWindow       \* bound on the lines shown since a client joined

ASSUME ConversationAssumption ==
    /\ Bot \notin Clients
    /\ Texts \subseteq {"talk", "question", "ctcp", "odd ctcp"}
    /\ Capacity \in Nat \ {0} /\ MaxHistory \in Nat /\ MaxWindow \in Nat

Users == Clients \cup {Bot}

(* A line of the channel: PRIVMSG by its text, NOTICE, and the bot's own.  *)
Lines == [from : Clients, kind : Texts \cup {"notice"}]
           \cup [from : {Bot}, kind : {"answer", "greeting"}]

VARIABLES
    stage,      \* no connection, connected with a nickname, registered
    marked,     \* clients with disconnectRequested set
    members,    \* Channel::members
    history,    \* Channel::messageHistory
    backlog,    \* lines in the outputBuffer of each client
    window      \* per client: what was said, and all it saw since it joined

vars == <<stage, marked, members, history, backlog, window>>

Windows == [said : Seq(Lines), live : Seq(Lines)]

Closed == [said |-> <<>>, live |-> <<>>]

Init ==
    /\ stage = [c \in Clients |-> "none"]
    /\ marked = {}
    /\ members = {}
    /\ history = <<>>
    /\ backlog = [c \in Clients |-> 0]
    /\ window = [c \in Clients |-> Closed]

Active(c) == stage[c] = "registered" /\ c \notin marked

Listeners == members \cap Clients

-----------------------------------------------------------------------------
(* queueMessage(), for all lines a handler queues to each client: when     *)
(* they do not fit, those that do are kept and the client is marked.       *)
RoomLeftAtLimit(c) == Capacity + 1 - backlog[c]

RoomLeft(c) == Capacity - backlog[c]

Queue(lines) ==
    /\ backlog' = [c \in Clients |->
          IF c \in marked THEN backlog[c]
          ELSE backlog[c] + (IF lines[c] <= RoomLeft(c) THEN lines[c]
                                                        ELSE RoomLeft(c))]
    /\ marked' = marked \cup {c \in Clients : lines[c] > RoomLeft(c)}

(* A client that is sent nothing more shows nothing that matters.          *)
Show(windows) ==
    window' = [c \in Clients |-> IF c \in marked' THEN Closed ELSE windows[c]]

To(audience, n) == [c \in Clients |-> IF c \in audience THEN n ELSE 0]

Showing(audience, lines) ==
    [c \in Clients |-> IF c \in audience
                       THEN [said |-> window[c].said,
                             live |-> window[c].live \o lines]
                       ELSE window[c]]

(* Bound: nobody's window grows beyond MaxWindow.                          *)
WindowsOpen(n) == \A c \in Listeners : Len(window[c].live) + n <= MaxWindow

-----------------------------------------------------------------------------
(* Connections, and coming and going in the channel.                       *)

Connect(c) ==
    /\ stage[c] = "none"
    /\ stage' = [stage EXCEPT ![c] = "named"]
    /\ UNCHANGED <<marked, members, history, backlog, window>>

Register(c) ==
    /\ stage[c] = "named"
    /\ c \notin marked
    /\ stage' = [stage EXCEPT ![c] = "registered"]
    /\ Queue(To({c}, 1))
    /\ Show(window)
    /\ UNCHANGED <<members, history>>

(* QUIT, an input limit, or an exception before a handler changed a thing: *)
(* also a PRIVMSG that serialize() finds too long to be passed on.         *)
RequestDisconnect(c) ==
    /\ stage[c] # "none"
    /\ c \notin marked
    /\ marked' = marked \cup {c}
    /\ Show(window)
    /\ UNCHANGED <<stage, members, history, backlog>>

(* flushClientOutput()                                                     *)
Flush(c) ==
    /\ backlog[c] > 0
    /\ \E n \in 0 .. backlog[c] - 1 : backlog' = [backlog EXCEPT ![c] = n]
    /\ UNCHANGED <<stage, marked, members, history, window>>

(* A channel is erased, and its history with it, when its last member has  *)
(* left; the bot counts as a member.                                       *)
LeaveKeepsHistory(p) ==
    /\ members' = members \ {p}
    /\ UNCHANGED history

Leave(p) ==
    /\ members' = members \ {p}
    /\ history' = IF members \subseteq {p} THEN <<>> ELSE history

Disconnect(c) ==
    /\ stage[c] # "none"
    /\ stage' = [stage EXCEPT ![c] = "none"]
    /\ LET told == IF c \in members THEN Listeners \ ({c} \cup marked) ELSE {}
       IN  /\ marked' = (marked \ {c}) \cup
                            {d \in told : RoomLeft(d) < 1}
           /\ backlog' = [d \in Clients |->
                 IF d = c THEN 0
                 ELSE IF d \in told /\ RoomLeft(d) >= 1 THEN backlog[d] + 1
                 ELSE backlog[d]]
    /\ Leave(c)
    /\ Show([window EXCEPT ![c] = Closed])

(* JOIN: the member is told of it like the others, sees the channel, and   *)
(* is sent every stored line in order.                                     *)
ReplayLatestFirst == Reverse(history)

Replay == history

Join(c) ==
    /\ Active(c)
    /\ c \notin members
    /\ members' = members \cup {c}
    /\ Queue([d \in Clients |-> IF d = c THEN 1 + Len(Replay)
                                ELSE IF d \in members THEN 1 ELSE 0])
    /\ Show([window EXCEPT ![c] = [said |-> Replay, live |-> <<>>]])
    /\ UNCHANGED <<stage, history>>

(* PART and KICK tell every member, the leaving one included.              *)
Depart(p) ==
    /\ p \in members
    /\ Queue(To(Listeners, 1))
    /\ Show([c \in Clients |-> IF c = p THEN Closed ELSE window[c]])
    /\ Leave(p)
    /\ UNCHANGED stage

Part(c) == Active(c) /\ Depart(c)

Kick(c, p) == Active(c) /\ c \in members /\ Depart(p)

(* The invited bot joins at once and greets; its lines are not stored.     *)
InviteBot(c) ==
    /\ Active(c)
    /\ c \in members
    /\ Bot \notin members
    /\ WindowsOpen(1)
    /\ members' = members \cup {Bot}
    /\ Queue(To(Listeners, 2))
    /\ Show(Showing(Listeners, <<[from |-> Bot, kind |-> "greeting"]>>))
    /\ UNCHANGED <<stage, history>>

-----------------------------------------------------------------------------
(* PRIVMSG and NOTICE to the channel (sendMessageToChannel).               *)

(* What the receiver takes for part of the conversation.                   *)
IsSaid(line) == line.kind \in Texts

Answer == [from |-> Bot, kind |-> "answer"]

(* Bot::extractCommand in a channel: a leading '!' or a mention.           *)
Answered(line) == Bot \in members /\ line.kind = "question"

Exchange(line) == IF Answered(line) THEN <<line, Answer>> ELSE <<line>>

Record(line) == IF line.kind = "notice" THEN history ELSE Append(history, line)

ShownAnswerFirst(c, d, line) ==
    IF d = c THEN Exchange(line) ELSE Reverse(Exchange(line))

ShownToAskerOnly(c, d, line) ==
    IF d = c THEN Exchange(line) ELSE <<line>>

(* Members are sent the line and then the answer.  The sender is not sent  *)
(* its own line, it is taken to show it when the server accepts it.        *)
(* `said' is what clients said, `live' has notices and the bot's lines too.*)
ShownTo(c, d, line) == Exchange(line)

Say(c, line) ==
    /\ Active(c)
    /\ c \in members
    /\ WindowsOpen(2)
    /\ history' = Record(line)
    /\ Queue([d \in Clients |->
          IF d \notin members THEN 0
          ELSE IF d = c THEN Len(Exchange(line)) - 1
          ELSE Len(Exchange(line))])
    /\ Show([d \in Clients |->
          IF d \in members
          THEN [said |-> IF IsSaid(line) THEN Append(window[d].said, line)
                                         ELSE window[d].said,
                live |-> window[d].live \o ShownTo(c, d, line)]
          ELSE window[d]])
    /\ UNCHANGED <<stage, members>>

Privmsg(c, text) ==
    /\ Len(history) < MaxHistory
    /\ Say(c, [from |-> c, kind |-> text])

Notice(c) == Say(c, [from |-> c, kind |-> "notice"])

-----------------------------------------------------------------------------
(* PRIVMSG and NOTICE to a nickname (sendMessageToUser).  Whoever has a    *)
(* nickname is reached, registered or not.                                 *)

Pass(c, recipient) ==
    /\ Active(c)
    /\ stage[recipient] # "none"
    /\ Queue(To({recipient}, 1))
    /\ Show(window)
    /\ UNCHANGED <<stage, members, history>>

(* Bot::handleDirectMessage: everything but a CTCP request it does not     *)
(* know is answered, if only to say that it was not understood.            *)
AskBot(c, text) ==
    /\ Active(c)
    /\ text # "odd ctcp"
    /\ Queue(To({c}, 1))
    /\ Show(window)
    /\ UNCHANGED <<stage, members, history>>

(* A PRIVMSG that cannot be delivered: a numeric reply to its sender.      *)
Refuse(c) ==
    /\ Active(c)
    /\ Queue(To({c}, 1))
    /\ Show(window)
    /\ UNCHANGED <<stage, members, history>>

-----------------------------------------------------------------------------
Connection(c) ==
    \/ Connect(c) \/ Register(c) \/ RequestDisconnect(c)
    \/ Flush(c) \/ Disconnect(c)

Presence(c) ==
    \/ Join(c) \/ Part(c) \/ InviteBot(c)
    \/ \E p \in Users : Kick(c, p)

Speech(c) ==
    \/ \E text \in Texts : Privmsg(c, text) \/ AskBot(c, text)
    \/ Notice(c)
    \/ \E d \in Clients : Pass(c, d)
    \/ Refuse(c)

Next == \E c \in Clients : Connection(c) \/ Presence(c) \/ Speech(c)

Spec == Init /\ [][Next]_vars

-----------------------------------------------------------------------------
TypeOK ==
    /\ stage \in [Clients -> {"none", "named", "registered"}]
    /\ marked \subseteq Clients
    /\ members \subseteq Users
    /\ history \in Seq(Lines)
    /\ backlog \in [Clients -> 0 .. Capacity]
    /\ window \in [Clients -> Windows]

Hearing == Listeners \ marked

(* Early and late members know the same conversation: what a member has    *)
(* been sent since it joined, replay and its own lines included, is what   *)
(* the channel stores, in the same order, nothing missing and nothing      *)
(* twice (addHistoryMessage, sendChannelHistory, sendMessageToChannel).    *)
SameStory == \A c \in Hearing : window[c].said = history

(* All members see one order of lines, notices and the bot's lines         *)
(* included: of two members the one who came later has seen the end of     *)
(* what the other has seen.                                                *)
OneOrder ==
    \A c, d \in Hearing :
        \/ IsSuffix(window[c].live, window[d].live)
        \/ IsSuffix(window[d].live, window[c].live)

(* The bot speaks in a channel only when spoken to, and everybody sees the *)
(* question first: an answer stands right behind its question, never       *)
(* behind a NOTICE, a CTCP request or another answer                       *)
(* (notifyBotChannelMessage is called after the fan-out).                  *)
AnswersFollowQuestions ==
    \A c \in Hearing :
        LET live == window[c].live
        IN  \A n \in DOMAIN live :
                live[n] = Answer => n > 1 /\ live[n - 1].kind = "question"

(* Nothing said is lost while somebody stays, be it the bot alone, and a   *)
(* channel that is founded again starts without a history.                 *)
HistoryKept ==
    [][IF members # {} /\ members' # {} THEN IsPrefix(history, history')
                                        ELSE history' = <<>>]_vars

(* sendChannelHistory(): "late members receive the same serialized lines   *)
(* that earlier members saw".  Whoever joins, with nothing left to read    *)
(* from before, is sent the whole history.                                 *)
LateMembersCatchUp ==
    [][\A c \in Clients :
          c \in members' \ members /\ backlog[c] = 0 =>
             window'[c].said = history']_vars

=============================================================================
