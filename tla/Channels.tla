------------------------------ MODULE Channels ------------------------------
(***************************************************************************)
(* The channel subsystem of the IRC server: Server::channels with the      *)
(* members, operators, invitations, modes and topic of each Channel, the   *)
(* joinedChannels of each Client, the built-in bot, and the handlers of    *)
(* JOIN, PART, INVITE, KICK, TOPIC and MODE.                               *)
(*                                                                         *)
(* The program is one thread, so a handler is one step.  What the server   *)
(* queues is modelled by its effect on the receiver: `view' is what a      *)
(* conforming client shows for a channel after every line queued to it so  *)
(* far.  A client whose disconnection has been requested (`marked') runs   *)
(* no further command and is sent no further line, but it stays in the     *)
(* channels until the event loop calls disconnectClient().                 *)
(*                                                                         *)
(* A command that is refused only queues a numeric reply, which no         *)
(* variable here records, so a refusal is a step that is not enabled.      *)
(***************************************************************************)
EXTENDS Naturals, FiniteSets, Sequences, ModeChanges

CONSTANTS
    Clients,        \* slots for TCP clients (a slot is reused after close)
    Bot,            \* the virtual client of class Bot
    Names,          \* normalized channel names
    Home,           \* the bot's channel
    Keys,           \* channel keys; NoKey is none of them
    Limits,         \* user limits a +l can carry
    Topics, NoTopic, HomeTopic,   \* topic texts; NoTopic is the empty string
    ModeRequests,   \* parsed MODE change lists that clients send
    Overlong        \* commands with a line that may not fit in 512 bytes

Users == Clients \cup {Bot}

(* A single change of a MODE command: ModeOperation.                       *)
Changes == [mode : Flags, add : BOOLEAN,
            arg : Keys \cup {NoKey} \cup Limits \cup {NoLimit} \cup Users]

ASSUME ParticipantsAssumption ==
    Bot \notin Clients /\ IsFiniteSet(Clients) /\ Home \in Names

ASSUME TextAssumption ==
    /\ NoKey \notin Keys
    /\ HomeTopic \in Topics /\ NoTopic \in Topics
    /\ Limits \subseteq Nat \ {0}

ASSUME RequestsAssumption ==
    /\ ModeRequests \subseteq Seq(Changes)
    /\ Overlong \subseteq {"TOPIC", "MODE", "INVITE"}

VARIABLES
    stage,      \* per client: no connection, a nickname, registered
    marked,     \* clients with disconnectRequested set
    live,       \* keys of Server::channels
    members, operators, invited,     \* the three sets of a Channel
    modes,      \* inviteOnly, topicRestricted, channelKey, userLimit
    topic,      \* Channel::topic
    joined,     \* Client::joinedChannels
    view        \* what each client has been told about each channel

vars == <<stage, marked, live, members, operators, invited, modes, topic,
          joined, view>>

channelVars == <<live, members, operators, invited, modes, topic, joined>>

Modes == [inviteOnly : BOOLEAN, topicRestricted : BOOLEAN,
          key : Keys \cup {NoKey}, limit : Limits \cup {NoLimit}]

Screens == [members : SUBSET Users, operators : SUBSET Users,
            topic : Topics]

Blank == [members |-> {}, operators |-> {}, topic |-> NoTopic]

Init ==
    /\ stage = [c \in Clients |-> "none"]
    /\ marked = {}
    /\ live = {Home}
    /\ members = [n \in Names |-> IF n = Home THEN {Bot} ELSE {}]
    /\ operators = [n \in Names |-> IF n = Home THEN {Bot} ELSE {}]
    /\ invited = [n \in Names |-> {}]
    /\ modes = [n \in Names |-> NewModes]
    /\ topic = [n \in Names |-> IF n = Home THEN HomeTopic ELSE NoTopic]
    /\ joined = [p \in Users |-> IF p = Bot THEN {Home} ELSE {}]
    /\ view = [c \in Clients |-> [n \in Names |-> Blank]]

-----------------------------------------------------------------------------
(* Connections, as far as channels depend on them.                         *)

(* A client that may have a command of its own executed.                   *)
Active(c) == stage[c] = "registered" /\ c \notin marked

(* A user findClientByNickname() can return.                               *)
Known(p) == p = Bot \/ (p \in Clients /\ stage[p] # "none")

Connect(c) ==
    /\ stage[c] = "none"
    /\ stage' = [stage EXCEPT ![c] = "unregistered"]
    /\ UNCHANGED <<marked, view, channelVars>>

Register(c) ==
    /\ stage[c] = "unregistered"
    /\ c \notin marked
    /\ stage' = [stage EXCEPT ![c] = "registered"]
    /\ UNCHANGED <<marked, view, channelVars>>

(* A client will be sent nothing more: what it shows no longer matters.    *)
Mark(c) ==
    /\ marked' = marked \cup {c}
    /\ view' = [view EXCEPT ![c] = [n \in Names |-> Blank]]

(* requestDisconnect(): QUIT, an output or input limit, an exception of a  *)
(* handler that has changed nothing yet.                                   *)
RequestDisconnect(c) ==
    /\ stage[c] # "none"
    /\ c \notin marked
    /\ Mark(c)
    /\ UNCHANGED <<stage, channelVars>>

-----------------------------------------------------------------------------
(* How a client that receives a broadcast changes what it shows.           *)

SeesJoin(s, p) == [s EXCEPT !.members = @ \cup {p}]

SeesLeave(s, p) ==
    [s EXCEPT !.members = @ \ {p}, !.operators = @ \ {p}]

SeesTopic(s, t) == [s EXCEPT !.topic = t]

(* Every member in `audience' that still receives lines applies Sees.      *)
Told(ch, audience, Sees(_, _)) ==
    [c \in Clients |->
        IF c \in audience \ marked
        THEN [view[c] EXCEPT ![ch] = Sees(c, view[c][ch])]
        ELSE view[c]]

(* queueMessageToChannel(): every member, the sender included.             *)
AudienceWithoutSender(c, ch) == members[ch] \ {c}

Audience(c, ch) == members[ch]

(* addClientToChannel(), and what joinChannel() of the bot adds to it.     *)
PromotesFirstHuman(p, ch) ==
    IF members[ch] \subseteq {Bot} THEN operators[ch] \cup {p} ELSE operators[ch]

PromotesWhenLeaderless(p, ch) ==
    IF operators[ch] = {} THEN operators[ch] \cup {p} ELSE operators[ch]

OperatorsAfterEntry(p, ch) ==
    IF members[ch] = {} \/ (p = Bot /\ ch = Home)
    THEN operators[ch] \cup {p} ELSE operators[ch]

AddToChannel(p, ch) ==
    /\ live' = live \cup {ch}
    /\ members' = [members EXCEPT ![ch] = @ \cup {p}]
    /\ joined' = [joined EXCEPT ![p] = @ \cup {ch}]
    /\ invited' = [invited EXCEPT ![ch] = @ \ {p}]
    /\ operators' = [operators EXCEPT ![ch] = OperatorsAfterEntry(p, ch)]
    /\ UNCHANGED <<modes, topic>>

(* removeClientFromChannel(): removeMember(), leaveChannel() and           *)
(* removeChannelIfEmpty(); an erased channel loses everything it held.     *)
RemoveKeepsJoined(p, ch) ==
    /\ members' = [members EXCEPT ![ch] = @ \ {p}]
    /\ operators' = [operators EXCEPT ![ch] = @ \ {p}]
    /\ invited' = [invited EXCEPT ![ch] = @ \ {p}]
    /\ live' = IF members[ch] = {p} THEN live \ {ch} ELSE live
    /\ UNCHANGED <<modes, topic, joined>>

RemoveFromChannel(p, ch) ==
    LET left == members[ch] \ {p}
        erased == left = {}
    IN  /\ live' = IF erased THEN live \ {ch} ELSE live
        /\ members' = [members EXCEPT ![ch] = left]
        /\ operators' = [operators EXCEPT ![ch] = @ \ {p}]
        /\ invited' = [invited EXCEPT ![ch] =
                          IF erased THEN {} ELSE @ \ {p}]
        /\ modes' = [modes EXCEPT ![ch] = IF erased THEN NewModes ELSE @]
        /\ topic' = [topic EXCEPT ![ch] = IF erased THEN NoTopic ELSE @]
        /\ joined' = [joined EXCEPT ![p] = @ \ {ch}]

-----------------------------------------------------------------------------
(* JOIN of one channel of the list; the list is a succession of such       *)
(* steps.  The joining client is shown topic and names of the channel.     *)

(* validateChannelJoinAccess()                                             *)
MayJoinOverLimit(c, ch, key) ==
    /\ modes[ch].limit # NoLimit =>
          Cardinality(members[ch]) <= modes[ch].limit
    /\ modes[ch].inviteOnly => c \in invited[ch]
    /\ modes[ch].key # NoKey => modes[ch].key = key

MayJoin(c, ch, key) ==
    /\ modes[ch].limit # NoLimit => Cardinality(members[ch]) < modes[ch].limit
    /\ modes[ch].inviteOnly => c \in invited[ch]
    /\ modes[ch].key # NoKey => modes[ch].key = key

Join(c, ch, key) ==
    /\ Active(c)
    /\ c \notin members[ch]
    /\ MayJoin(c, ch, key)
    /\ AddToChannel(c, ch)
    /\ view' = Told(ch, members[ch] \cup {c}, LAMBDA d, s :
                  IF d = c THEN [members |-> members[ch] \cup {c},
                                 operators |-> OperatorsAfterEntry(c, ch),
                                 topic |-> topic[ch]]
                           ELSE SeesJoin(s, c))
    /\ UNCHANGED <<stage, marked>>

Part(c, ch) ==
    /\ Active(c)
    /\ c \in members[ch]
    /\ RemoveFromChannel(c, ch)
    /\ view' = Told(ch, Audience(c, ch), LAMBDA d, s :
                  IF d = c THEN Blank ELSE SeesLeave(s, c))
    /\ UNCHANGED <<stage, marked>>

-----------------------------------------------------------------------------
(* INVITE                                                                  *)

MayInvite(c, target, ch) ==
    /\ Active(c)
    /\ ch \in live
    /\ Known(target)
    /\ c \in members[ch]
    /\ target \notin members[ch]
    /\ c \in operators[ch]

InviteClient(c, target, ch) ==
    /\ MayInvite(c, target, ch)
    /\ invited' = [invited EXCEPT ![ch] = @ \cup {target}]
    /\ UNCHANGED <<stage, marked, live, members, operators, modes, topic,
                   joined, view>>

(* The bot answers its own invitation by joining at once, past every mode. *)
InviteBot(c, ch) ==
    /\ MayInvite(c, Bot, ch)
    /\ AddToChannel(Bot, ch)
    /\ view' = Told(ch, members[ch], LAMBDA d, s : SeesJoin(s, Bot))
    /\ UNCHANGED <<stage, marked>>

(* The invitation is stored before the lines that report it are built: if  *)
(* one does not fit, the bot has it and is not told.  A client that is not *)
(* told is InviteClient, followed by RequestDisconnect of the inviter.     *)
InviteBotUnanswered(c, ch) ==
    /\ "INVITE" \in Overlong
    /\ MayInvite(c, Bot, ch)
    /\ invited' = [invited EXCEPT ![ch] = @ \cup {Bot}]
    /\ Mark(c)
    /\ UNCHANGED <<stage, live, members, operators, modes, topic, joined>>

(* KICK.  The bot comes back to its home channel, and only there.          *)
MayKick(c, target, ch) ==
    /\ Active(c)
    /\ ch \in live
    /\ Known(target)
    /\ c \in members[ch]
    /\ c \in operators[ch]
    /\ target \in members[ch]

Kick(c, target, ch) ==
    /\ MayKick(c, target, ch)
    /\ IF target = Bot /\ ch = Home
       THEN /\ operators' = [operators EXCEPT ![ch] = @ \cup {Bot}]
            /\ invited' = [invited EXCEPT ![ch] = @ \ {Bot}]
            /\ view' = Told(ch, Audience(c, ch), LAMBDA d, s :
                          SeesJoin(SeesLeave(s, Bot), Bot))
            /\ UNCHANGED <<live, members, modes, topic, joined>>
       ELSE /\ RemoveFromChannel(target, ch)
            /\ view' = Told(ch, Audience(c, ch), LAMBDA d, s :
                          IF d = target THEN Blank ELSE SeesLeave(s, target))
    /\ UNCHANGED <<stage, marked>>

-----------------------------------------------------------------------------
(* TOPIC.  The topic is stored before the line announcing it is built; a   *)
(* line over 512 bytes throws, which only marks the sender.                *)

MaySetTopic(c, ch) ==
    /\ Active(c)
    /\ ch \in live
    /\ c \in members[ch]
    /\ modes[ch].topicRestricted => c \in operators[ch]

SetTopic(ch, t) ==
    /\ topic' = [topic EXCEPT ![ch] = t]
    /\ UNCHANGED <<stage, live, members, operators, invited, modes, joined>>

ChangeTopic(c, ch, t) ==
    /\ MaySetTopic(c, ch)
    /\ SetTopic(ch, t)
    /\ view' = Told(ch, Audience(c, ch), LAMBDA d, s : SeesTopic(s, t))
    /\ UNCHANGED marked

ChangeTopicUnannounced(c, ch, t) ==
    /\ "TOPIC" \in Overlong
    /\ MaySetTopic(c, ch)
    /\ SetTopic(ch, t)
    /\ Mark(c)

-----------------------------------------------------------------------------
(* MODE with a change list, validated as a whole and then applied in       *)
(* order (ModeChanges).                                                    *)

(* parseChannelModeOperations() and validateChannelModeOperations()        *)
ValidRequest(req, ch) ==
    \A n \in DOMAIN req :
        /\ req[n].mode = "o" => Known(req[n].arg) /\ req[n].arg \in members[ch]
        /\ req[n].mode = "k" /\ req[n].add => req[n].arg \in Keys
        /\ req[n].mode = "l" /\ req[n].add => req[n].arg \in Limits

MayChangeModes(c, ch, req) ==
    /\ Active(c)
    /\ ch \in live
    /\ c \in members[ch]
    /\ c \in operators[ch]
    /\ ValidRequest(req, ch)

ApplyModes(ch, req) ==
    /\ modes' = [modes EXCEPT ![ch] = ModesAfter(req, @)]
    /\ operators' = [operators EXCEPT ![ch] =
                        OperatorsAfter(req, members[ch], @)]
    /\ UNCHANGED <<stage, live, members, invited, topic, joined>>

SeesModes(s, req) ==
    [s EXCEPT !.operators = OperatorsAfter(req, s.members, @)]

ChangeModes(c, ch, req) ==
    /\ MayChangeModes(c, ch, req)
    /\ ApplyModes(ch, req)
    /\ view' = Told(ch, Audience(c, ch), LAMBDA d, s : SeesModes(s, req))
    /\ UNCHANGED marked

ChangeModesUnannounced(c, ch, req) ==
    /\ "MODE" \in Overlong
    /\ MayChangeModes(c, ch, req)
    /\ ApplyModes(ch, req)
    /\ Mark(c)

-----------------------------------------------------------------------------
(* disconnectClient(): QUIT to every client that shares a channel, then    *)
(* memberships, operator rights and invitations go, then empty channels.   *)

(* queueMessageToRelatedClients(), while the client is in its channels.    *)
RelatedOnceDetached(c) == {}

Related(c) == {d \in Clients \ {c} : joined[d] \cap joined[c] # {}}

EmptiedForgotten(c) == {}

Emptied(c) == {n \in live : members[n] = {c}}

(* detachClientFromChannels(): what is left of the invitations.            *)
InvitedInJoinedOnly(c) ==
    [n \in Names |-> IF n \in Emptied(c) THEN {}
                     ELSE IF n \in joined[c] THEN invited[n] \ {c}
                     ELSE invited[n]]

InvitedWithout(c) ==
    [n \in Names |-> IF n \in Emptied(c) THEN {} ELSE invited[n] \ {c}]

Disconnect(c) ==
    /\ stage[c] # "none"
    /\ stage' = [stage EXCEPT ![c] = "none"]
    /\ marked' = marked \ {c}
    /\ live' = live \ Emptied(c)
    /\ members' = [n \in Names |-> members[n] \ {c}]
    /\ operators' = [n \in Names |-> operators[n] \ {c}]
    /\ invited' = InvitedWithout(c)
    /\ modes' = [n \in Names |->
                    IF n \in Emptied(c) THEN NewModes ELSE modes[n]]
    /\ topic' = [n \in Names |->
                    IF n \in Emptied(c) THEN NoTopic ELSE topic[n]]
    /\ joined' = [joined EXCEPT ![c] = {}]
    /\ view' = [d \in Clients |->
                  IF d = c THEN [n \in Names |-> Blank]
                  ELSE IF d \in Related(c) \ marked
                  THEN [n \in Names |-> SeesLeave(view[d][n], c)]
                  ELSE view[d]]

-----------------------------------------------------------------------------
Connection(c) ==
    Connect(c) \/ Register(c) \/ RequestDisconnect(c) \/ Disconnect(c)

Membership(c, ch) ==
    \/ \E key \in Keys \cup {NoKey} : Join(c, ch, key)
    \/ Part(c, ch)
    \/ \E target \in Clients : InviteClient(c, target, ch)
    \/ InviteBot(c, ch) \/ InviteBotUnanswered(c, ch)
    \/ \E target \in Users : Kick(c, target, ch)

Settings(c, ch) ==
    \/ \E t \in Topics :
          ChangeTopic(c, ch, t) \/ ChangeTopicUnannounced(c, ch, t)
    \/ \E req \in ModeRequests :
          ChangeModes(c, ch, req) \/ ChangeModesUnannounced(c, ch, req)

Next ==
    \E c \in Clients :
        \/ Connection(c)
        \/ \E ch \in Names : Membership(c, ch) \/ Settings(c, ch)

Spec == Init /\ [][Next]_vars

-----------------------------------------------------------------------------
TypeOK ==
    /\ stage \in [Clients -> {"none", "unregistered", "registered"}]
    /\ marked \subseteq Clients
    /\ live \subseteq Names
    /\ members \in [Names -> SUBSET Users]
    /\ operators \in [Names -> SUBSET Users]
    /\ invited \in [Names -> SUBSET Users]
    /\ modes \in [Names -> Modes]
    /\ topic \in [Names -> Topics]
    /\ joined \in [Users -> SUBSET Names]
    /\ view \in [Clients -> [Names -> Screens]]

(* A client lists a channel exactly when the channel lists the client:     *)
(* Client::joinedChannels, by which QUIT and NICK are routed, and          *)
(* Channel::members, by which everything else is, never diverge            *)
(* (Server::addClientToChannel, removeClientFromChannel,                   *)
(* detachClientFromChannels).                                              *)
MembershipInSync ==
    \A p \in Users, n \in Names : n \in joined[p] <=> p \in members[n]

(* Whatever a Channel points to is a client that is still connected, an    *)
(* operator is a member, and a member holds no invitation: a slot taken    *)
(* over by a new connection inherits nothing from the client before it.    *)
NothingDangling ==
    /\ \A n \in Names :
          /\ operators[n] \subseteq members[n]
          /\ invited[n] \cap members[n] = {}
          /\ \A c \in Clients :
                /\ c \in members[n] => stage[c] = "registered"
                /\ c \in invited[n] => stage[c] # "none"
    /\ \A c \in marked : stage[c] # "none"

(* The channel map holds exactly the channels that have a member, and a    *)
(* name that is not in it starts from nothing when it is joined again: no  *)
(* mode, key, limit, topic or invitation outlives the channel.             *)
ChannelsInhabited ==
    /\ \A n \in Names : n \in live <=> members[n] # {}
    /\ \A n \in Names \ live :
          /\ operators[n] = {} /\ invited[n] = {}
          /\ modes[n] = NewModes /\ topic[n] = NoTopic

(* The bot is always in its home channel and is the only operator there,   *)
(* so nobody can kick it, take its rights or set a mode on that channel.   *)
BotRulesHome == Bot \in members[Home] /\ operators[Home] = {Bot}

(* What the client c has been told of the channel n: its members, as       *)
(* learnt from NAMES, JOIN, PART, KICK and QUIT, its operators, from NAMES *)
(* and MODE, and its topic, on entry and from TOPIC.                       *)
ShowsMembers(c, n) ==
    view[c][n].members = IF c \in members[n] THEN members[n] ELSE {}

RosterExact == \A c \in Clients \ marked, n \in Names : ShowsMembers(c, n)

ShowsOperators(c, n) ==
    view[c][n].operators = IF c \in members[n] THEN operators[n] ELSE {}

OperatorsExact == \A c \in Clients \ marked, n \in Names : ShowsOperators(c, n)

ShowsTopic(c, n) == c \in members[n] => view[c][n].topic = topic[n]

TopicExact == \A c \in Clients \ marked, n \in Names : ShowsTopic(c, n)

(* A client that still receives lines shows, for each channel it is in,    *)
(* exactly the members, the operators and the topic that the server has,   *)
(* and nobody for the channels it is not in: whatever changed one of them  *)
(* reached it once and in time, as long as it could be announced           *)
(* (queueMessageToChannel, queueMessageToRelatedClients, sendChannelNames, *)
(* sendChannelTopic).                                                      *)
ScreensExact == RosterExact /\ OperatorsExact /\ TopicExact

(* Whatever cannot be announced, no other step misleads anybody: what a    *)
(* client shows of a channel stays right, or becomes wrong in the step     *)
(* that changes the topic or the modes of that very channel and throws     *)
(* before the change is announced (applyTopicChange, handleMode); who is   *)
(* in the channel it shows even then.                                      *)
TopicUnannounced(n) ==
    \E c \in Clients, t \in Topics : ChangeTopicUnannounced(c, n, t)

ModesUnannounced(n) ==
    \E c \in Clients, req \in ModeRequests : ChangeModesUnannounced(c, n, req)

OnlySilenceMisleads ==
    [][\A c \in Clients \ marked', n \in Names :
          /\ (c \notin marked => ShowsMembers(c, n)) => ShowsMembers(c, n)'
          /\ (c \notin marked => ShowsOperators(c, n)) =>
                ShowsOperators(c, n)' \/ ModesUnannounced(n)
          /\ (c \notin marked => ShowsTopic(c, n)) =>
                ShowsTopic(c, n)' \/ TopicUnannounced(n)]_vars

(* The clients' own lists of channels, with the operators the channels     *)
(* keep, behave as Rooms: entering and leaving, founding and appointing    *)
(* are all there is, however the handlers interleave.                      *)
JoinedBy(n) == {p \in Users : n \in joined[p]}

Promise == INSTANCE Rooms WITH
    Keeper <- Bot,
    room <- [n \in Names |-> JoinedBy(n)],
    chairs <- operators

KeepsPromise == Promise!Spec

(* Operator rights come from operators: in a channel that has members but  *)
(* no operator nobody becomes one, however clients leave and enter, until  *)
(* the channel has been erased (addClientToChannel promotes the first      *)
(* member only).                                                           *)
NoSelfPromotion ==
    [][\A n \in Names :
          members[n] # {} /\ operators[n] = {} => operators'[n] = {}]_vars

(* Whoever enters a channel passes the limit and the invitation in force   *)
(* at that moment and uses the invitation up; only the bot, once invited,  *)
(* is exempt (Server::validateChannelJoinAccess, Bot::handleInvite).       *)
AdmissionRespected ==
    [][\A n \in live, c \in Clients :
          c \in members'[n] \ members[n] =>
             /\ modes[n].limit # NoLimit =>
                   Cardinality(members'[n]) <= modes[n].limit
             /\ modes[n].inviteOnly => c \in invited[n]
             /\ c \notin invited'[n]]_vars

=============================================================================
