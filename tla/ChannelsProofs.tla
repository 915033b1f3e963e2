--------------------------- MODULE ChannelsProofs ---------------------------
EXTENDS Channels, TLAPS, WellFoundedInduction, SequenceTheorems,
        FiniteSetTheorems

(* A non-empty set of indices of a sequence has a latest one.              *)
LEMMA LatestExists ==
    ASSUME NEW N \in Nat, NEW S, S \subseteq 1..N, S # {}
    PROVE  Latest(S) \in S /\ \A k \in S : k <= Latest(S)
<1> DEFINE T == {N - n : n \in S}
<1>1. T \subseteq Nat /\ T # {}
  <2>1. \A n \in S : N - n \in Nat
    OBVIOUS
  <2>2. PICK n \in S : TRUE
    OBVIOUS
  <2>3. N - n \in T
    OBVIOUS
  <2> QED BY <2>1, <2>3
<1>2. PICK m \in T : \A y \in T : ~ (<<y, m>> \in OpToRel(<, Nat))
  <2> HIDE DEF T
  <2> QED BY <1>1, NatLessThanWellFounded, WFMin
<1>3. PICK n \in S : m = N - n
  OBVIOUS
<1>4. \A k \in S : k <= n
  <2> TAKE k \in S
  <2>1. N - k \in T /\ N - k \in Nat /\ m \in Nat
    BY <1>1
  <2>2. ~ (N - k < m)
    BY <1>2, <2>1 DEF OpToRel
  <2> QED BY <1>3, <2>2
<1> QED BY <1>4 DEF Latest

LEMMA ConcerningIsIndexSet ==
    ASSUME NEW req \in ModeRequests, NEW flag, Concerning(req, flag) # {}
    PROVE  /\ Latest(Concerning(req, flag)) \in Concerning(req, flag)
           /\ req[Latest(Concerning(req, flag))] \in Changes
<1>1. req \in Seq(Changes)
  BY RequestsAssumption
<1>2. Len(req) \in Nat /\ DOMAIN req = 1..Len(req)
  BY <1>1
<1>3. Concerning(req, flag) \subseteq 1..Len(req)
  BY <1>2 DEF Concerning
<1>4. Latest(Concerning(req, flag)) \in Concerning(req, flag)
  BY <1>2, <1>3, LatestExists
<1> QED BY <1>1, <1>2, <1>3, <1>4, ElementOfSeq

(* MODE leaves well-typed settings behind.                                 *)
LEMMA ModesAfterType ==
    ASSUME NEW req \in ModeRequests, NEW m \in Modes, NEW ch,
           ValidRequest(req, ch)
    PROVE  ModesAfter(req, m) \in Modes
<1>1. ASSUME NEW flag, NEW old \in BOOLEAN
      PROVE  FlagAfter(req, flag, old) \in BOOLEAN
  BY <1>1, ConcerningIsIndexSet DEF FlagAfter, Changes
<1>2. ArgAfter(req, "k", NoKey, m.key) \in Keys \cup {NoKey}
  <2> DEFINE n == Latest(Concerning(req, "k"))
  <2>1. CASE Concerning(req, "k") = {}
    BY <2>1 DEF ArgAfter, Modes
  <2>2. CASE Concerning(req, "k") # {}
    <3>1. n \in DOMAIN req /\ req[n].mode = "k"
      BY <2>2, ConcerningIsIndexSet DEF Concerning
    <3>2. req[n].add => req[n].arg \in Keys
      BY <3>1 DEF ValidRequest
    <3> QED BY <2>2, <3>2 DEF ArgAfter
  <2> QED BY <2>1, <2>2
<1>3. ArgAfter(req, "l", NoLimit, m.limit) \in Limits \cup {NoLimit}
  <2> DEFINE n == Latest(Concerning(req, "l"))
  <2>1. CASE Concerning(req, "l") = {}
    BY <2>1 DEF ArgAfter, Modes
  <2>2. CASE Concerning(req, "l") # {}
    <3>1. n \in DOMAIN req /\ req[n].mode = "l"
      BY <2>2, ConcerningIsIndexSet DEF Concerning
    <3>2. req[n].add => req[n].arg \in Limits
      BY <3>1 DEF ValidRequest
    <3> QED BY <2>2, <3>2 DEF ArgAfter
  <2> QED BY <2>1, <2>2
<1> QED BY <1>1, <1>2, <1>3 DEF ModesAfter, Modes

LEMMA OperatorsAfterType ==
    ASSUME NEW req, NEW present, NEW old
    PROVE  OperatorsAfter(req, present, old) \subseteq present
BY DEF OperatorsAfter

-----------------------------------------------------------------------------
(* Types.                                                                  *)

LEMMA ScreenTypes ==
    /\ Blank \in Screens
    /\ \A s \in Screens, p \in Users :
          SeesJoin(s, p) \in Screens /\ SeesLeave(s, p) \in Screens
    /\ \A s \in Screens, t \in Topics : SeesTopic(s, t) \in Screens
    /\ \A s \in Screens : \A req : SeesModes(s, req) \in Screens
BY TextAssumption
   DEF Blank, Screens, SeesJoin, SeesLeave, SeesTopic, SeesModes, OperatorsAfter

LEMMA InitType == Init => TypeOK
BY ParticipantsAssumption, TextAssumption
   DEF Init, TypeOK, Users, Modes, NewModes, NoLimit, Screens, Blank

(* Every way a handler changes the channel map keeps its types.            *)
LEMMA AddType ==
    ASSUME TypeOK, NEW p \in Users, NEW ch \in Names, AddToChannel(p, ch)
    PROVE  /\ live' \subseteq Names
           /\ members' \in [Names -> SUBSET Users]
           /\ operators' \in [Names -> SUBSET Users]
           /\ invited' \in [Names -> SUBSET Users]
           /\ modes' \in [Names -> Modes]
           /\ topic' \in [Names -> Topics]
           /\ joined' \in [Users -> SUBSET Names]
BY DEF TypeOK, AddToChannel, OperatorsAfterEntry

LEMMA RemoveType ==
    ASSUME TypeOK, NEW p \in Users, NEW ch \in Names, RemoveFromChannel(p, ch)
    PROVE  /\ live' \subseteq Names
           /\ members' \in [Names -> SUBSET Users]
           /\ operators' \in [Names -> SUBSET Users]
           /\ invited' \in [Names -> SUBSET Users]
           /\ modes' \in [Names -> Modes]
           /\ topic' \in [Names -> Topics]
           /\ joined' \in [Users -> SUBSET Names]
<1>1. NewModes \in Modes /\ NoTopic \in Topics
  BY TextAssumption DEF NewModes, Modes
<1> QED BY <1>1 DEF TypeOK, RemoveFromChannel

LEMMA StepType == TypeOK /\ [Next]_vars => TypeOK'
<1> SUFFICES ASSUME TypeOK, [Next]_vars PROVE TypeOK'
  OBVIOUS
<1> USE ScreenTypes
<1>1. ASSUME NEW c \in Clients, Connection(c) PROVE TypeOK'
  <2>1. CASE Connect(c) \/ Register(c)
    BY <2>1 DEF Connect, Register, TypeOK, channelVars
  <2>2. CASE RequestDisconnect(c)
    BY <2>2 DEF RequestDisconnect, Mark, TypeOK, channelVars
  <2>3. CASE Disconnect(c)
    <3>1. NewModes \in Modes /\ NoTopic \in Topics
      BY TextAssumption DEF NewModes, Modes
    <3>2. view' \in [Clients -> [Names -> Screens]]
      BY <2>3 DEF Disconnect, TypeOK, Users
    <3>3. /\ modes' \in [Names -> Modes] /\ topic' \in [Names -> Topics]
          /\ joined' \in [Users -> SUBSET Names]
          /\ live' \subseteq Names
      BY <2>3, <3>1 DEF Disconnect, TypeOK
    <3> QED BY <2>3, <3>2, <3>3 DEF Disconnect, InvitedWithout, TypeOK
  <2> QED BY <1>1, <2>1, <2>2, <2>3 DEF Connection
<1>2. ASSUME NEW c \in Clients, NEW ch \in Names, Membership(c, ch)
      PROVE  TypeOK'
  <2> Bot \in Users /\ c \in Users
    BY DEF Users
  <2>1. ASSUME NEW key \in Keys \cup {NoKey}, Join(c, ch, key) PROVE TypeOK'
    <3>1. [members |-> members[ch] \cup {c},
           operators |-> OperatorsAfterEntry(c, ch),
           topic |-> topic[ch]] \in Screens
      BY DEF TypeOK, Screens, OperatorsAfterEntry
    <3>2. view' \in [Clients -> [Names -> Screens]]
      BY <2>1, <3>1 DEF Join, Told, TypeOK
    <3> QED BY <2>1, <3>2, AddType DEF Join, TypeOK
  <2>2. CASE Part(c, ch)
    <3>1. view' \in [Clients -> [Names -> Screens]]
      BY <2>2 DEF Part, Told, TypeOK
    <3> QED BY <2>2, <3>1, RemoveType DEF Part, TypeOK
  <2>3. ASSUME NEW target \in Clients, InviteClient(c, target, ch) PROVE TypeOK'
    BY <2>3 DEF InviteClient, TypeOK, Users
  <2>4. CASE InviteBot(c, ch)
    <3>1. view' \in [Clients -> [Names -> Screens]]
      BY <2>4 DEF InviteBot, Told, TypeOK
    <3> QED BY <2>4, <3>1, AddType DEF InviteBot, TypeOK
  <2>5. ASSUME NEW target \in Users, Kick(c, target, ch) PROVE TypeOK'
    <3>1. CASE target = Bot /\ ch = Home
      <4>1. view' = Told(ch, Audience(c, ch), LAMBDA d, s :
                            SeesJoin(SeesLeave(s, Bot), Bot))
        BY <2>5, <3>1 DEF Kick
      <4>2. view' \in [Clients -> [Names -> Screens]]
        BY <4>1 DEF Told, TypeOK
      <4>3. /\ operators' = [operators EXCEPT ![ch] = @ \cup {Bot}]
            /\ invited' = [invited EXCEPT ![ch] = @ \ {Bot}]
            /\ UNCHANGED <<stage, marked, live, members, modes, topic, joined>>
        BY <2>5, <3>1 DEF Kick
      <4> QED BY <4>2, <4>3 DEF TypeOK
    <3>2. CASE ~ (target = Bot /\ ch = Home)
      <4>1. view' = Told(ch, Audience(c, ch), LAMBDA d, s :
                            IF d = target THEN Blank ELSE SeesLeave(s, target))
        BY <2>5, <3>2 DEF Kick
      <4>2. view' \in [Clients -> [Names -> Screens]]
        BY <4>1 DEF Told, TypeOK
      <4> QED BY <2>5, <3>2, <4>2, RemoveType DEF Kick, TypeOK
    <3> QED BY <3>1, <3>2
  <2>6. CASE InviteBotUnanswered(c, ch)
    BY <2>6 DEF InviteBotUnanswered, Mark, TypeOK
  <2> QED BY <1>2, <2>1, <2>2, <2>3, <2>4, <2>5, <2>6 DEF Membership
<1>3. ASSUME NEW c \in Clients, NEW ch \in Names, Settings(c, ch)
      PROVE  TypeOK'
  <2>1. ASSUME NEW t \in Topics, ChangeTopic(c, ch, t) PROVE TypeOK'
    <3>1. view' \in [Clients -> [Names -> Screens]]
      BY <2>1 DEF ChangeTopic, Told, TypeOK
    <3> QED BY <2>1, <3>1 DEF ChangeTopic, SetTopic, TypeOK
  <2>2. ASSUME NEW t \in Topics, ChangeTopicUnannounced(c, ch, t)
        PROVE  TypeOK'
    BY <2>2 DEF ChangeTopicUnannounced, SetTopic, Mark, TypeOK
  <2>3. ASSUME NEW req \in ModeRequests, MayChangeModes(c, ch, req),
               ApplyModes(ch, req)
        PROVE  /\ modes' \in [Names -> Modes]
               /\ operators' \in [Names -> SUBSET Users]
    <3>1. ModesAfter(req, modes[ch]) \in Modes
      BY <2>3, ModesAfterType DEF MayChangeModes, TypeOK
    <3>2. OperatorsAfter(req, members[ch], operators[ch]) \subseteq Users
      BY OperatorsAfterType DEF TypeOK
    <3> QED BY <2>3, <3>1, <3>2 DEF ApplyModes, TypeOK
  <2>4. ASSUME NEW req \in ModeRequests, ChangeModes(c, ch, req) PROVE TypeOK'
    <3>1. view' \in [Clients -> [Names -> Screens]]
      BY <2>4 DEF ChangeModes, Told, TypeOK
    <3> QED BY <2>3, <2>4, <3>1 DEF ChangeModes, ApplyModes, TypeOK
  <2>5. ASSUME NEW req \in ModeRequests, ChangeModesUnannounced(c, ch, req)
        PROVE  TypeOK'
    BY <2>3, <2>5 DEF ChangeModesUnannounced, ApplyModes, Mark, TypeOK
  <2> QED BY <1>3, <2>1, <2>2, <2>4, <2>5 DEF Settings
<1>4. CASE UNCHANGED vars
  BY <1>4 DEF TypeOK, vars
<1> QED BY <1>1, <1>2, <1>3, <1>4 DEF Next

(* Every variable keeps its type, whatever the clients send.               *)
THEOREM TypeCorrect == Spec => []TypeOK
BY InitType, StepType, PTL DEF Spec

-----------------------------------------------------------------------------
(* The channel map.  The four invariants need each other: QUIT may take    *)
(* a client's channels from joinedChannels only while that agrees with the *)
(* members, a channel is known to be erased with its last member only      *)
(* while operators and invitations point nowhere else, and no human can    *)
(* empty the home channel only while the bot is its sole operator.         *)

MapInv ==
    TypeOK /\ MembershipInSync /\ NothingDangling /\ ChannelsInhabited
           /\ BotRulesHome

LEMMA InitMap == Init => MapInv
<1> SUFFICES ASSUME Init PROVE MapInv
  OBVIOUS
<1>1. TypeOK
  BY InitType
<1>2. MembershipInSync /\ NothingDangling /\ ChannelsInhabited /\ BotRulesHome
  BY ParticipantsAssumption
     DEF Init, MembershipInSync, NothingDangling, ChannelsInhabited,
         BotRulesHome, Users
<1> QED BY <1>1, <1>2 DEF MapInv

LEMMA AddKeepsMap ==
    ASSUME MapInv, TypeOK', UNCHANGED <<stage, marked>>,
           NEW p \in Users, NEW ch \in Names,
           p \in Clients => stage[p] = "registered",
           p \notin members[ch], AddToChannel(p, ch)
    PROVE  MapInv'
<1> USE DEF MapInv, AddToChannel, TypeOK
<1>0. p # Bot \/ ch # Home
  BY DEF BotRulesHome
<1>1. MembershipInSync'
  BY DEF MembershipInSync
<1>2. NothingDangling'
  BY DEF NothingDangling, OperatorsAfterEntry
<1>3. ChannelsInhabited'
  BY DEF ChannelsInhabited, OperatorsAfterEntry
<1>4. BotRulesHome'
  BY <1>0 DEF BotRulesHome, OperatorsAfterEntry
<1> QED BY <1>1, <1>2, <1>3, <1>4

LEMMA RemoveKeepsMap ==
    ASSUME MapInv, TypeOK', UNCHANGED <<stage, marked>>,
           NEW p \in Users, NEW ch \in Names,
           p # Bot \/ ch # Home, p \in members[ch], RemoveFromChannel(p, ch)
    PROVE  MapInv'
<1> USE DEF MapInv, RemoveFromChannel, TypeOK
<1>1. MembershipInSync'
  BY DEF MembershipInSync
<1>2. NothingDangling'
  BY DEF NothingDangling
<1>3. ChannelsInhabited'
  <2>1. \A n \in Names : n \in live' <=> members'[n] # {}
    BY DEF ChannelsInhabited
  <2>2. operators[ch] \subseteq members[ch]
    BY DEF NothingDangling
  <2>3. \A n \in Names \ live' :
           /\ operators'[n] = {} /\ invited'[n] = {}
           /\ modes'[n] = NewModes /\ topic'[n] = NoTopic
    BY <2>2 DEF ChannelsInhabited
  <2> QED BY <2>1, <2>3 DEF ChannelsInhabited
<1>4. BotRulesHome'
  BY DEF BotRulesHome, Users
<1> QED BY <1>1, <1>2, <1>3, <1>4

(* No client is an operator of the home channel.                           *)
LEMMA NoHumanRulesHome ==
    ASSUME BotRulesHome, NEW c \in Clients PROVE c \notin operators[Home]
BY ParticipantsAssumption DEF BotRulesHome

LEMMA DisconnectKeepsMap ==
    ASSUME MapInv, TypeOK', NEW c \in Clients, Disconnect(c)
    PROVE  MapInv'
<1> USE DEF MapInv, TypeOK
<1>1. /\ stage' = [stage EXCEPT ![c] = "none"]
      /\ marked' = marked \ {c}
      /\ live' = live \ Emptied(c)
      /\ members' = [n \in Names |-> members[n] \ {c}]
      /\ operators' = [n \in Names |-> operators[n] \ {c}]
      /\ invited' = InvitedWithout(c)
      /\ modes' = [n \in Names |->
                      IF n \in Emptied(c) THEN NewModes ELSE modes[n]]
      /\ topic' = [n \in Names |->
                      IF n \in Emptied(c) THEN NoTopic ELSE topic[n]]
      /\ joined' = [joined EXCEPT ![c] = {}]
  BY DEF Disconnect
<1>2. MembershipInSync'
  BY <1>1 DEF MembershipInSync, Users
<1>3. NothingDangling'
  BY <1>1 DEF NothingDangling, InvitedWithout
<1>4. ChannelsInhabited'
  <2>1. \A n \in Names : n \in Emptied(c) <=> members[n] = {c}
    BY DEF ChannelsInhabited, Emptied
  <2>2. \A n \in Names : n \in live' <=> members'[n] # {}
    BY <1>1, <2>1 DEF ChannelsInhabited
  <2>3. ASSUME NEW n \in Names \ live'
        PROVE  /\ operators'[n] = {} /\ invited'[n] = {}
               /\ modes'[n] = NewModes /\ topic'[n] = NoTopic
    <3>1. CASE n \in Emptied(c)
      <4>1. operators[n] \subseteq {c}
        BY <2>1, <3>1 DEF NothingDangling
      <4> QED BY <1>1, <3>1, <4>1 DEF InvitedWithout
    <3>2. CASE n \notin Emptied(c)
      <4>1. n \in Names \ live
        BY <1>1, <3>2, <2>3
      <4> QED BY <1>1, <3>2, <4>1 DEF ChannelsInhabited, InvitedWithout
    <3> QED BY <3>1, <3>2
  <2> QED BY <2>2, <2>3 DEF ChannelsInhabited
<1>5. BotRulesHome'
  BY <1>1, ParticipantsAssumption DEF BotRulesHome
<1> QED BY <1>2, <1>3, <1>4, <1>5

LEMMA StepMap == MapInv /\ [Next]_vars => MapInv'
<1> SUFFICES ASSUME MapInv, [Next]_vars PROVE MapInv'
  OBVIOUS
<1>0. TypeOK'
  BY StepType DEF MapInv
<1> USE <1>0
<1>1. ASSUME NEW c \in Clients, Connection(c) PROVE MapInv'
  <2>1. CASE Connect(c) \/ Register(c) \/ RequestDisconnect(c)
    <3>1. UNCHANGED channelVars
      BY <2>1 DEF Connect, Register, RequestDisconnect
    <3>2. MembershipInSync' /\ ChannelsInhabited' /\ BotRulesHome'
      BY <3>1 DEF MapInv, channelVars, MembershipInSync, ChannelsInhabited,
                  BotRulesHome
    <3>3. NothingDangling'
      BY <2>1, <3>1 DEF Connect, Register, RequestDisconnect, Mark, MapInv,
                        TypeOK, channelVars, NothingDangling
    <3> QED BY <3>2, <3>3 DEF MapInv
  <2>2. CASE Disconnect(c)
    BY <2>2, DisconnectKeepsMap
  <2> QED BY <1>1, <2>1, <2>2 DEF Connection
<1>2. ASSUME NEW c \in Clients, NEW ch \in Names, Membership(c, ch)
      PROVE  MapInv'
  <2> Bot \in Users /\ c \in Users /\ c # Bot
    BY ParticipantsAssumption DEF Users
  <2>1. ASSUME NEW key \in Keys \cup {NoKey}, Join(c, ch, key) PROVE MapInv'
    BY <2>1, AddKeepsMap DEF Join, Active
  <2>2. CASE Part(c, ch)
    BY <2>2, RemoveKeepsMap DEF Part
  <2>3. ASSUME NEW target \in Clients, InviteClient(c, target, ch) PROVE MapInv'
    <3>1. /\ MayInvite(c, target, ch)
          /\ invited' = [invited EXCEPT ![ch] = @ \cup {target}]
          /\ UNCHANGED <<stage, marked, live, members, operators, modes,
                         topic, joined>>
      BY <2>3 DEF InviteClient
    <3>2. stage[target] # "none" /\ ch \in live /\ target \notin members[ch]
      BY <3>1, ParticipantsAssumption DEF MayInvite, Known
    <3> QED BY <3>1, <3>2 DEF MapInv, TypeOK, MembershipInSync,
                  NothingDangling, ChannelsInhabited, BotRulesHome
  <2>4. CASE InviteBot(c, ch)
    BY <2>4, ParticipantsAssumption, AddKeepsMap DEF InviteBot, MayInvite
  <2>5. ASSUME NEW target \in Users, Kick(c, target, ch) PROVE MapInv'
    <3>1. c \in operators[ch] /\ target \in members[ch]
      BY <2>5 DEF Kick, MayKick
    <3>2. ch # Home
      BY <3>1, NoHumanRulesHome DEF MapInv
    <3>3. RemoveFromChannel(target, ch) /\ UNCHANGED <<stage, marked>>
      BY <2>5, <3>2 DEF Kick
    <3> QED BY <3>1, <3>2, <3>3, RemoveKeepsMap
  <2>6. CASE InviteBotUnanswered(c, ch)
    <3>1. /\ MayInvite(c, Bot, ch) /\ marked' = marked \cup {c}
          /\ invited' = [invited EXCEPT ![ch] = @ \cup {Bot}]
          /\ UNCHANGED <<stage, live, members, operators, modes, topic, joined>>
      BY <2>6 DEF InviteBotUnanswered, Mark
    <3>2. /\ stage[c] # "none" /\ c \in Clients
          /\ ch \in live /\ Bot \notin members[ch]
      BY <1>2, <3>1 DEF MayInvite, Active
    <3> QED BY <3>1, <3>2, ParticipantsAssumption
            DEF MapInv, TypeOK, MembershipInSync, NothingDangling,
                ChannelsInhabited, BotRulesHome
  <2> QED BY <1>2, <2>1, <2>2, <2>3, <2>4, <2>5, <2>6 DEF Membership
<1>3. ASSUME NEW c \in Clients, NEW ch \in Names, Settings(c, ch)
      PROVE  MapInv'
  <2>1. ASSUME NEW t \in Topics, MaySetTopic(c, ch), SetTopic(ch, t),
               marked' = marked \/ (c \in Clients /\ marked' = marked \cup {c})
        PROVE  MapInv'
    <3>1. stage[c] # "none" /\ ch \in live
      BY <2>1 DEF MaySetTopic, Active
    <3>2. MembershipInSync' /\ ChannelsInhabited' /\ BotRulesHome'
      BY <2>1, <3>1 DEF SetTopic, MapInv, TypeOK, MembershipInSync,
                        ChannelsInhabited, BotRulesHome
    <3>3. NothingDangling'
      BY <2>1, <3>1 DEF SetTopic, MapInv, TypeOK, NothingDangling
    <3> QED BY <3>2, <3>3 DEF MapInv
  <2>2. ASSUME NEW req \in ModeRequests, MayChangeModes(c, ch, req),
               ApplyModes(ch, req),
               marked' = marked \/ (c \in Clients /\ marked' = marked \cup {c})
        PROVE  MapInv'
    <3>1. stage[c] # "none" /\ ch \in live /\ c \in operators[ch]
      BY <2>2 DEF MayChangeModes, Active
    <3>2. ch # Home
      BY <3>1, NoHumanRulesHome DEF MapInv
    <3>3. MembershipInSync' /\ ChannelsInhabited' /\ BotRulesHome'
      BY <2>2, <3>1, <3>2 DEF ApplyModes, MapInv, TypeOK, MembershipInSync,
                              ChannelsInhabited, BotRulesHome
    <3>4. NothingDangling'
      BY <2>2, <3>1, OperatorsAfterType
         DEF ApplyModes, MapInv, TypeOK, NothingDangling
    <3> QED BY <3>3, <3>4 DEF MapInv
  <2> QED BY <1>3, <2>1, <2>2 DEF Settings, ChangeTopic,
         ChangeTopicUnannounced, ChangeModes, ChangeModesUnannounced, Mark
<1>4. CASE UNCHANGED vars
  BY <1>4 DEF MapInv, vars, MembershipInSync, NothingDangling,
              ChannelsInhabited, BotRulesHome
<1> QED BY <1>1, <1>2, <1>3, <1>4 DEF Next

(* Clients and channels agree on who is where.                             *)
THEOREM MembershipAlwaysInSync == Spec => []MembershipInSync
BY InitMap, StepMap, PTL DEF Spec, MapInv

(* No channel points to a client that has gone, or gives rights to a       *)
(* client that is not in it.                                               *)
THEOREM NeverDangling == Spec => []NothingDangling
BY InitMap, StepMap, PTL DEF Spec, MapInv

(* A channel lives exactly as long as it has a member, and leaves nothing  *)
(* behind.                                                                 *)
THEOREM ChannelsAlwaysInhabited == Spec => []ChannelsInhabited
BY InitMap, StepMap, PTL DEF Spec, MapInv

(* Whatever the clients do, the bot keeps its home channel for itself.     *)
THEOREM BotAlwaysRulesHome == Spec => []BotRulesHome
BY InitMap, StepMap, PTL DEF Spec, MapInv

-----------------------------------------------------------------------------
(* What the clients have been told.  Each step is followed from the        *)
(* server's members to the screens of those who receive its broadcast.     *)

LEMMA SeesFields ==
    ASSUME NEW s \in Screens
    PROVE  /\ \A p : /\ SeesJoin(s, p).members = s.members \cup {p}
                     /\ SeesJoin(s, p).operators = s.operators
                     /\ SeesJoin(s, p).topic = s.topic
                     /\ SeesLeave(s, p).members = s.members \ {p}
                     /\ SeesLeave(s, p).operators = s.operators \ {p}
                     /\ SeesLeave(s, p).topic = s.topic
           /\ \A t : /\ SeesTopic(s, t).members = s.members
                     /\ SeesTopic(s, t).operators = s.operators
                     /\ SeesTopic(s, t).topic = t
           /\ \A req : /\ SeesModes(s, req).members = s.members
                       /\ SeesModes(s, req).operators =
                             OperatorsAfter(req, s.members, s.operators)
                       /\ SeesModes(s, req).topic = s.topic
BY DEF Screens, SeesJoin, SeesLeave, SeesTopic, SeesModes

LEMMA BlankFields ==
    Blank.members = {} /\ Blank.operators = {} /\ Blank.topic = NoTopic
BY DEF Blank

(* A client that shares no channel with c sees no channel c is in.         *)
LEMMA UnrelatedSeesNothing ==
    ASSUME MapInv, NEW c \in Clients, NEW d \in Clients, d # c,
           d \notin Related(c), NEW n \in Names, d \in members[n]
    PROVE  c \notin members[n]
BY DEF MapInv, MembershipInSync, TypeOK, Related, Users

LEMMA StepRoster ==
    TypeOK /\ MapInv /\ RosterExact /\ [Next]_vars => RosterExact'
<1> SUFFICES ASSUME TypeOK, MapInv, RosterExact, [Next]_vars
             PROVE  RosterExact'
  OBVIOUS
<1> SUFFICES ASSUME NEW x \in Clients \ marked', NEW n \in Names
             PROVE  view'[x][n].members =
                       IF x \in members'[n] THEN members'[n] ELSE {}
  BY DEF RosterExact, ShowsMembers
<1> DEFINE Same == x \notin marked /\ view'[x][n].members = view[x][n].members
                   /\ members'[n] = members[n]
<1>0. x \notin marked =>
         view[x][n].members = IF x \in members[n] THEN members[n] ELSE {}
  BY DEF RosterExact, ShowsMembers
<1>s. view[x][n] \in Screens
  BY DEF TypeOK
<1>m. ASSUME NEW c \in Clients, Mark(c) PROVE x \notin marked /\ view'[x] = view[x]
  BY <1>m DEF Mark, TypeOK
<1>1. ASSUME NEW c \in Clients, Connection(c)
      PROVE  view'[x][n].members = IF x \in members'[n] THEN members'[n] ELSE {}
  <2>1. CASE Connect(c) \/ Register(c) \/ RequestDisconnect(c)
    BY <2>1, <1>0, <1>m DEF Connect, Register, RequestDisconnect, channelVars
  <2>2. CASE Disconnect(c)
    <3>1. members'[n] = members[n] \ {c} /\ marked' = marked \ {c}
      BY <2>2 DEF Disconnect
    <3>2. CASE x = c
      <4>1. view'[x][n] = Blank
        BY <2>2, <3>2 DEF Disconnect
      <4> QED BY <3>1, <3>2, <4>1, BlankFields
    <3>3. CASE x # c /\ x \in Related(c)
      <4>1. x \notin marked
        BY <3>1, <3>3
      <4>2. view'[x][n] = SeesLeave(view[x][n], c)
        BY <2>2, <3>3, <4>1 DEF Disconnect
      <4>3. view'[x][n].members = view[x][n].members \ {c}
        BY <1>s, <4>2, SeesFields
      <4>4. CASE x \in members[n]
        BY <1>0, <3>1, <3>3, <4>1, <4>3, <4>4
      <4>5. CASE x \notin members[n]
        BY <1>0, <3>1, <3>3, <4>1, <4>3, <4>5
      <4> QED BY <4>4, <4>5
    <3>4. CASE x # c /\ x \notin Related(c)
      <4>1. x \notin marked /\ view'[x] = view[x]
        BY <2>2, <3>1, <3>4 DEF Disconnect
      <4>2. x \in members[n] => c \notin members[n]
        BY <3>4, UnrelatedSeesNothing
      <4> QED BY <1>0, <3>1, <3>4, <4>1, <4>2
    <3> QED BY <3>2, <3>3, <3>4
  <2> QED BY <1>1, <2>1, <2>2 DEF Connection
<1>2. ASSUME NEW c \in Clients, NEW ch \in Names, Membership(c, ch)
      PROVE  view'[x][n].members = IF x \in members'[n] THEN members'[n] ELSE {}
  <2> USE SeesFields, BlankFields, <1>0, <1>s
  <2>1. ASSUME NEW key \in Keys \cup {NoKey}, Join(c, ch, key)
        PROVE  view'[x][n].members = IF x \in members'[n] THEN members'[n] ELSE {}
    <3>1. members' = [members EXCEPT ![ch] = @ \cup {c}] /\ x \notin marked
      BY <2>1 DEF Join, AddToChannel
    <3>2. view'[x] = IF x \in members[ch] \cup {c}
             THEN [view[x] EXCEPT ![ch] =
                     IF x = c THEN [members |-> members[ch] \cup {c},
                                    operators |-> OperatorsAfterEntry(c, ch),
                                    topic |-> topic[ch]]
                              ELSE SeesJoin(view[x][ch], c)]
             ELSE view[x]
      BY <2>1, <3>1 DEF Join, Told
    <3>3. CASE n = ch /\ x \in members[ch] \cup {c}
      <4>1. view'[x][n] = IF x = c THEN [members |-> members[ch] \cup {c},
                                         operators |-> OperatorsAfterEntry(c, ch),
                                         topic |-> topic[ch]]
                                   ELSE SeesJoin(view[x][ch], c)
        BY <3>2, <3>3 DEF TypeOK
      <4>2. x # c => view[x][n].members = members[n]
        BY <3>1, <3>3
      <4>3. view'[x][n].members = members[n] \cup {c}
        BY <3>3, <4>1, <4>2
      <4>4. members'[n] = members[n] \cup {c}
        BY <3>1, <3>3 DEF TypeOK
      <4> QED BY <3>3, <4>3, <4>4
    <3>4. CASE n # ch \/ x \notin members[ch] \cup {c}
      <4>1. view'[x][n] = view[x][n]
        BY <3>2, <3>4 DEF TypeOK
      <4>2. x \in members'[n] <=> x \in members[n]
        BY <3>1, <3>4 DEF TypeOK
      <4>3. x \in members[n] => members'[n] = members[n]
        BY <3>1, <3>4 DEF TypeOK
      <4> QED BY <3>1, <4>1, <4>2, <4>3
    <3> QED BY <3>3, <3>4
  <2>2. CASE Part(c, ch)
    <3>1. members' = [members EXCEPT ![ch] = @ \ {c}] /\ x \notin marked
      BY <2>2 DEF Part, RemoveFromChannel
    <3>2. view'[x] = IF x \in members[ch]
             THEN [view[x] EXCEPT ![ch] =
                     IF x = c THEN Blank ELSE SeesLeave(view[x][ch], c)]
             ELSE view[x]
      BY <2>2, <3>1 DEF Part, Told, Audience
    <3>5. CASE n = ch /\ x \in members[ch]
      <4>1. view'[x][n] = IF x = c THEN Blank ELSE SeesLeave(view[x][n], c)
        BY <3>2, <3>5 DEF TypeOK
      <4>2. members'[n] = members[n] \ {c}
        BY <3>1, <3>5 DEF TypeOK
      <4>3. view[x][n].members = members[n]
        BY <3>1, <3>5
      <4>4. CASE x = c
        BY <4>1, <4>2, <4>4
      <4>5. CASE x # c
        <5>1. view'[x][n].members = members[n] \ {c}
          BY <4>1, <4>3, <4>5
        <5> QED BY <3>5, <4>2, <4>5, <5>1
      <4> QED BY <4>4, <4>5
    <3>6. CASE n # ch \/ x \notin members[ch]
      <4>1. view'[x][n] = view[x][n]
        BY <3>2, <3>6 DEF TypeOK
      <4>2. x \in members'[n] <=> x \in members[n]
        BY <3>1, <3>6 DEF TypeOK
      <4>3. x \in members[n] => members'[n] = members[n]
        BY <3>1, <3>6 DEF TypeOK
      <4> QED BY <3>1, <4>1, <4>2, <4>3
    <3> QED BY <3>5, <3>6
  <2>3. ASSUME NEW target \in Clients, InviteClient(c, target, ch)
        PROVE  view'[x][n].members = IF x \in members'[n] THEN members'[n] ELSE {}
    BY <2>3 DEF InviteClient
  <2>4. CASE InviteBot(c, ch)
    <3>1. members' = [members EXCEPT ![ch] = @ \cup {Bot}] /\ x \notin marked
      BY <2>4 DEF InviteBot, AddToChannel
    <3>2. view'[x] = IF x \in members[ch]
             THEN [view[x] EXCEPT ![ch] = SeesJoin(view[x][ch], Bot)]
             ELSE view[x]
      BY <2>4, <3>1 DEF InviteBot, Told
    <3>3. CASE n = ch /\ x \in members[ch]
      <4>1. view'[x][n] = SeesJoin(view[x][n], Bot)
        BY <3>2, <3>3 DEF TypeOK
      <4>2. members'[n] = members[n] \cup {Bot}
        BY <3>1, <3>3 DEF TypeOK
      <4>3. view[x][n].members = members[n]
        BY <3>1, <3>3
      <4>4. view'[x][n].members = members[n] \cup {Bot}
        BY <4>1, <4>3
      <4> QED BY <3>3, <4>2, <4>4
    <3>4. CASE n # ch \/ x \notin members[ch]
      <4>1. view'[x][n] = view[x][n]
        BY <3>2, <3>4 DEF TypeOK
      <4>2. x \in members'[n] <=> x \in members[n]
        BY <3>1, <3>4, ParticipantsAssumption DEF TypeOK
      <4>3. x \in members[n] => members'[n] = members[n]
        BY <3>1, <3>4 DEF TypeOK
      <4> QED BY <3>1, <4>1, <4>2, <4>3
    <3> QED BY <3>3, <3>4
  <2>5. ASSUME NEW target \in Users, Kick(c, target, ch)
        PROVE  view'[x][n].members = IF x \in members'[n] THEN members'[n] ELSE {}
    <3>0. ch # Home
      BY <2>5, NoHumanRulesHome DEF Kick, MayKick, MapInv
    <3>1. members' = [members EXCEPT ![ch] = @ \ {target}] /\ x \notin marked
      BY <2>5, <3>0 DEF Kick, RemoveFromChannel
    <3>2. view' = Told(ch, Audience(c, ch), LAMBDA d, s :
                          IF d = target THEN Blank ELSE SeesLeave(s, target))
      BY <2>5, <3>0 DEF Kick
    <3>3. view'[x] = IF x \in members[ch]
             THEN [view[x] EXCEPT ![ch] =
                     IF x = target THEN Blank ELSE SeesLeave(view[x][ch], target)]
             ELSE view[x]
      BY <3>1, <3>2 DEF Told, Audience
    <3>5. CASE n = ch /\ x \in members[ch]
      <4>1. view'[x][n] = IF x = target THEN Blank ELSE SeesLeave(view[x][n], target)
        BY <3>3, <3>5 DEF TypeOK
      <4>2. members'[n] = members[n] \ {target}
        BY <3>1, <3>5 DEF TypeOK
      <4>3. view[x][n].members = members[n]
        BY <3>1, <3>5
      <4>4. CASE x = target
        BY <4>1, <4>2, <4>4
      <4>5. CASE x # target
        <5>1. view'[x][n].members = members[n] \ {target}
          BY <4>1, <4>3, <4>5
        <5> QED BY <3>5, <4>2, <4>5, <5>1
      <4> QED BY <4>4, <4>5
    <3>6. CASE n # ch \/ x \notin members[ch]
      <4>1. view'[x][n] = view[x][n]
        BY <3>3, <3>6 DEF TypeOK
      <4>2. x \in members'[n] <=> x \in members[n]
        BY <3>1, <3>6 DEF TypeOK
      <4>3. x \in members[n] => members'[n] = members[n]
        BY <3>1, <3>6 DEF TypeOK
      <4> QED BY <3>1, <4>1, <4>2, <4>3
    <3> QED BY <3>5, <3>6
  <2>6. CASE InviteBotUnanswered(c, ch)
    BY <2>6, <1>0, <1>m DEF InviteBotUnanswered
  <2> QED BY <1>2, <2>1, <2>2, <2>3, <2>4, <2>5, <2>6 DEF Membership
<1>3. ASSUME NEW c \in Clients, NEW ch \in Names, Settings(c, ch)
      PROVE  view'[x][n].members = IF x \in members'[n] THEN members'[n] ELSE {}
  <2> SUFFICES Same
    BY <1>0
  <2> USE SeesFields, <1>s
  <2>1. ASSUME NEW t \in Topics, ChangeTopic(c, ch, t) PROVE Same
    <3>1. members' = members /\ x \notin marked
      BY <2>1 DEF ChangeTopic, SetTopic
    <3>2. view'[x] = IF x \in members[ch]
             THEN [view[x] EXCEPT ![ch] = SeesTopic(view[x][ch], t)]
             ELSE view[x]
      BY <2>1, <3>1 DEF ChangeTopic, Told, Audience
    <3> QED BY <3>1, <3>2 DEF TypeOK
  <2>2. ASSUME NEW t \in Topics, ChangeTopicUnannounced(c, ch, t) PROVE Same
    BY <2>2, <1>m DEF ChangeTopicUnannounced, SetTopic
  <2>3. ASSUME NEW req \in ModeRequests, ChangeModes(c, ch, req) PROVE Same
    <3>1. members' = members /\ x \notin marked
      BY <2>3 DEF ChangeModes, ApplyModes
    <3>2. view'[x] = IF x \in members[ch]
             THEN [view[x] EXCEPT ![ch] = SeesModes(view[x][ch], req)]
             ELSE view[x]
      BY <2>3, <3>1 DEF ChangeModes, Told, Audience
    <3> QED BY <3>1, <3>2 DEF TypeOK
  <2>4. ASSUME NEW req \in ModeRequests, ChangeModesUnannounced(c, ch, req)
        PROVE  Same
    BY <2>4, <1>m DEF ChangeModesUnannounced, ApplyModes
  <2> QED BY <1>3, <2>1, <2>2, <2>3, <2>4 DEF Settings
<1>4. CASE UNCHANGED vars
  BY <1>4, <1>0 DEF vars
<1> QED BY <1>1, <1>2, <1>3, <1>4 DEF Next

(* A client that is not being disconnected shows exactly the members of    *)
(* the channels it is in, even where a TOPIC or MODE went unannounced.     *)
THEOREM RosterAlwaysExact == Spec => []RosterExact
<1>1. Init => RosterExact
  <2> SUFFICES ASSUME Init, NEW c \in Clients, NEW n \in Names
               PROVE  view[c][n].members = {} /\ c \notin members[n]
    BY DEF RosterExact, ShowsMembers
  <2>1. view[c][n] = Blank /\ members[n] \subseteq {Bot}
    BY DEF Init
  <2> QED BY <2>1, BlankFields, ParticipantsAssumption
<1>2. MapInv => TypeOK
  BY DEF MapInv
<1> QED BY <1>1, <1>2, InitMap, StepMap, StepRoster, PTL DEF Spec

-----------------------------------------------------------------------------
(* The rest of a screen.  An announcement that does not fit is the one     *)
(* thing that makes it wrong, so every other step is shown to keep it      *)
(* right, whatever Overlong is.                                            *)

ShownOperators(c, n) == IF c \in members[n] THEN operators[n] ELSE {}

LEMMA StepOperators ==
    ASSUME MapInv, RosterExact, [Next]_vars,
           NEW x \in Clients \ marked', NEW n \in Names,
           x \notin marked => ShowsOperators(x, n), ~ModesUnannounced(n)
    PROVE  ShowsOperators(x, n)'
<1> SUFFICES view'[x][n].operators = ShownOperators(x, n)'
  BY DEF ShowsOperators, ShownOperators
<1> DEFINE Right == view'[x][n].operators = ShownOperators(x, n)'
           Same == /\ x \notin marked
                   /\ view'[x][n].operators = view[x][n].operators
                   /\ members'[n] = members[n] /\ operators'[n] = operators[n]
<1>t. TypeOK
  BY DEF MapInv
<1>0. x \notin marked =>
         /\ view[x][n].operators = ShownOperators(x, n)
         /\ view[x][n].members = IF x \in members[n] THEN members[n] ELSE {}
  BY DEF ShowsOperators, RosterExact, ShowsMembers, ShownOperators
<1>s. view[x] \in [Names -> Screens] /\ view[x][n] \in Screens
  BY <1>t DEF TypeOK
<1>o. operators[n] \subseteq members[n]
  BY DEF MapInv, NothingDangling
<1>e. ASSUME Same PROVE Right
  BY <1>0, <1>e DEF ShownOperators
<1>m. ASSUME NEW c \in Clients, Mark(c) PROVE x \notin marked /\ view'[x] = view[x]
  BY <1>m, <1>t DEF Mark, TypeOK
<1>1. ASSUME NEW c \in Clients, Connection(c) PROVE Right
  <2>1. CASE Connect(c) \/ Register(c) \/ RequestDisconnect(c)
    BY <2>1, <1>e, <1>m
       DEF Connect, Register, RequestDisconnect, channelVars
  <2>2. CASE Disconnect(c)
    <3>1. /\ members'[n] = members[n] \ {c} /\ operators'[n] = operators[n] \ {c}
          /\ marked' = marked \ {c}
      BY <2>2 DEF Disconnect
    <3>2. CASE x = c
      <4>1. view'[x][n] = Blank
        BY <2>2, <3>2 DEF Disconnect
      <4> QED BY <3>1, <3>2, <4>1, BlankFields DEF ShownOperators
    <3>3. CASE x # c /\ x \in Related(c)
      <4>1. x \notin marked
        BY <3>1, <3>3
      <4>2. view'[x][n] = SeesLeave(view[x][n], c)
        BY <2>2, <3>3, <4>1 DEF Disconnect
      <4>3. view'[x][n].operators = view[x][n].operators \ {c}
        BY <1>s, <4>2, SeesFields
      <4> QED BY <1>0, <3>1, <3>3, <4>1, <4>3 DEF ShownOperators
    <3>4. CASE x # c /\ x \notin Related(c)
      <4>1. x \notin marked /\ view'[x] = view[x]
        BY <2>2, <3>1, <3>4 DEF Disconnect
      <4>2. x \in members[n] => c \notin operators[n]
        BY <3>4, <1>o, UnrelatedSeesNothing
      <4> QED BY <1>0, <3>1, <3>4, <4>1, <4>2 DEF ShownOperators
    <3> QED BY <3>2, <3>3, <3>4
  <2> QED BY <1>1, <2>1, <2>2 DEF Connection
<1>2. ASSUME NEW p \in Users, NEW ch \in Names, p \in members[ch],
             RemoveFromChannel(p, ch), UNCHANGED marked,
             view' = Told(ch, members[ch], LAMBDA d, s :
                         IF d = p THEN Blank ELSE SeesLeave(s, p))
      PROVE  Right
  <2>1. x \notin marked
    BY <1>2
  <2>2. /\ members'[n] = IF n = ch THEN members[n] \ {p} ELSE members[n]
        /\ operators'[n] = IF n = ch THEN operators[n] \ {p} ELSE operators[n]
    BY <1>2, <1>t DEF RemoveFromChannel, TypeOK
  <2>3. view'[x] = IF x \in members[ch]
           THEN [view[x] EXCEPT ![ch] =
                   IF x = p THEN Blank ELSE SeesLeave(view[x][ch], p)]
           ELSE view[x]
    BY <1>2, <2>1 DEF Told
  <2>4. view'[x][n] = IF n = ch /\ x \in members[ch]
           THEN IF x = p THEN Blank ELSE SeesLeave(view[x][n], p)
           ELSE view[x][n]
    BY <2>3, <1>s
  <2>5. CASE n = ch /\ x \in members[ch] /\ x # p
    <3>1. view'[x][n].operators = view[x][n].operators \ {p}
      BY <2>4, <2>5, <1>s, SeesFields
    <3> QED BY <1>0, <2>1, <2>2, <2>5, <3>1 DEF ShownOperators
  <2>6. CASE n = ch /\ x \in members[ch] /\ x = p
    BY <2>2, <2>4, <2>6, BlankFields DEF ShownOperators
  <2>7. CASE ~(n = ch /\ x \in members[ch])
    BY <1>0, <2>1, <2>2, <2>4, <2>7 DEF ShownOperators
  <2> QED BY <2>5, <2>6, <2>7
<1>3. ASSUME NEW c \in Clients, NEW ch \in Names, Membership(c, ch) PROVE Right
  <2>1. ASSUME NEW key \in Keys \cup {NoKey}, Join(c, ch, key) PROVE Right
    <3>1. /\ members' = [members EXCEPT ![ch] = @ \cup {c}] /\ x \notin marked
          /\ operators' = [operators EXCEPT ![ch] = OperatorsAfterEntry(c, ch)]
      BY <2>1 DEF Join, AddToChannel
    <3>2. view'[x] = IF x \in members[ch] \cup {c}
             THEN [view[x] EXCEPT ![ch] =
                     IF x = c THEN [members |-> members[ch] \cup {c},
                                    operators |-> OperatorsAfterEntry(c, ch),
                                    topic |-> topic[ch]]
                              ELSE SeesJoin(view[x][ch], c)]
             ELSE view[x]
      BY <2>1, <3>1 DEF Join, Told
    <3>3. /\ members'[n] = IF n = ch THEN members[n] \cup {c} ELSE members[n]
          /\ operators'[n] = IF n = ch THEN OperatorsAfterEntry(c, n)
                                       ELSE operators[n]
      BY <3>1, <1>t DEF TypeOK
    <3>4. CASE n = ch /\ x = c
      <4>1. view'[x][n].operators = OperatorsAfterEntry(c, n)
        BY <3>2, <3>4, <1>s
      <4> QED BY <3>3, <3>4, <4>1 DEF ShownOperators
    <3>5. CASE n = ch /\ x # c /\ x \in members[ch]
      <4>1. view'[x][n].operators = view[x][n].operators
        BY <3>2, <3>5, <1>s, SeesFields
      <4>2. OperatorsAfterEntry(c, n) = operators[n]
        BY <3>5, ParticipantsAssumption DEF OperatorsAfterEntry
      <4> QED BY <1>0, <3>1, <3>3, <3>5, <4>1, <4>2 DEF ShownOperators
    <3>6. CASE n # ch \/ (x # c /\ x \notin members[ch])
      <4>1. view'[x][n] = view[x][n]
        BY <3>2, <3>6, <1>s
      <4> QED BY <1>0, <3>1, <3>3, <3>6, <4>1 DEF ShownOperators
    <3> QED BY <3>4, <3>5, <3>6
  <2>2. CASE Part(c, ch)
    BY <2>2, <1>2 DEF Part, Audience, Users
  <2>3. ASSUME NEW target \in Clients, InviteClient(c, target, ch) PROVE Right
    BY <2>3, <1>e DEF InviteClient
  <2>4. CASE InviteBot(c, ch)
    <3>1. /\ members' = [members EXCEPT ![ch] = @ \cup {Bot}] /\ x \notin marked
          /\ operators' = [operators EXCEPT ![ch] = OperatorsAfterEntry(Bot, ch)]
      BY <2>4 DEF InviteBot, AddToChannel
    <3>2. OperatorsAfterEntry(Bot, ch) = operators[ch]
      BY <2>4 DEF InviteBot, MayInvite, MapInv, BotRulesHome,
                  OperatorsAfterEntry
    <3>3. view'[x] = IF x \in members[ch]
             THEN [view[x] EXCEPT ![ch] = SeesJoin(view[x][ch], Bot)]
             ELSE view[x]
      BY <2>4, <3>1 DEF InviteBot, Told
    <3>4. view'[x][n].operators = view[x][n].operators
      BY <3>3, <1>s, SeesFields
    <3>5. operators'[n] = operators[n]
      BY <3>1, <3>2, <1>t DEF TypeOK
    <3>6. x \in members'[n] <=> x \in members[n]
      BY <3>1, <1>t, ParticipantsAssumption DEF TypeOK
    <3> QED BY <1>0, <3>1, <3>4, <3>5, <3>6 DEF ShownOperators
  <2>5. ASSUME NEW target \in Users, Kick(c, target, ch) PROVE Right
    <3>1. ch # Home /\ target \in members[ch]
      BY <2>5, NoHumanRulesHome DEF Kick, MayKick, MapInv
    <3> QED BY <2>5, <3>1, <1>2 DEF Kick, Audience
  <2>6. CASE InviteBotUnanswered(c, ch)
    BY <2>6, <1>e, <1>m DEF InviteBotUnanswered
  <2> QED BY <1>3, <2>1, <2>2, <2>3, <2>4, <2>5, <2>6 DEF Membership
<1>4. ASSUME NEW c \in Clients, NEW ch \in Names, Settings(c, ch) PROVE Right
  <2>1. ASSUME NEW t \in Topics, ChangeTopic(c, ch, t) PROVE Same
    <3>1. members' = members /\ operators' = operators /\ x \notin marked
      BY <2>1 DEF ChangeTopic, SetTopic
    <3>2. view'[x] = IF x \in members[ch]
             THEN [view[x] EXCEPT ![ch] = SeesTopic(view[x][ch], t)]
             ELSE view[x]
      BY <2>1, <3>1 DEF ChangeTopic, Told, Audience
    <3> QED BY <3>1, <3>2, <1>s, SeesFields
  <2>2. ASSUME NEW t \in Topics, ChangeTopicUnannounced(c, ch, t) PROVE Same
    BY <2>2, <1>m DEF ChangeTopicUnannounced, SetTopic
  <2>3. ASSUME NEW req \in ModeRequests, ChangeModes(c, ch, req) PROVE Right
    <3> DEFINE chosen == OperatorsAfter(req, members[ch], operators[ch])
    <3>1. /\ members' = members /\ x \notin marked
          /\ operators' = [operators EXCEPT ![ch] = chosen]
      BY <2>3 DEF ChangeModes, ApplyModes
    <3>2. view'[x] = IF x \in members[ch]
             THEN [view[x] EXCEPT ![ch] = SeesModes(view[x][ch], req)]
             ELSE view[x]
      BY <2>3, <3>1 DEF ChangeModes, Told, Audience
    <3>3. operators'[n] = IF n = ch THEN chosen ELSE operators[n]
      BY <3>1, <1>t DEF TypeOK
    <3>4. CASE n = ch /\ x \in members[ch]
      <4>1. view'[x][n].operators =
               OperatorsAfter(req, view[x][n].members, view[x][n].operators)
        BY <3>2, <3>4, <1>s, SeesFields
      <4>2. view[x][n].members = members[n] /\ view[x][n].operators = operators[n]
        BY <1>0, <3>1, <3>4 DEF ShownOperators
      <4>3. view'[x][n].operators = chosen
        BY <3>4, <4>1, <4>2
      <4> HIDE DEF chosen
      <4> QED BY <3>1, <3>3, <3>4, <4>3 DEF ShownOperators
    <3>5. CASE ~(n = ch /\ x \in members[ch])
      <4>1. view'[x][n] = view[x][n]
        BY <3>2, <3>5, <1>s
      <4> HIDE DEF chosen
      <4> QED BY <1>0, <3>1, <3>3, <3>5, <4>1 DEF ShownOperators
    <3> QED BY <3>4, <3>5
  <2>4. ASSUME NEW req \in ModeRequests, ChangeModesUnannounced(c, ch, req)
        PROVE  Same
    <3>1. n # ch
      BY <2>4 DEF ModesUnannounced
    <3> QED BY <2>4, <3>1, <1>m, <1>t DEF ChangeModesUnannounced, ApplyModes, TypeOK
  <2> QED BY <1>4, <1>e, <2>1, <2>2, <2>3, <2>4 DEF Settings
<1>5. CASE UNCHANGED vars
  BY <1>5, <1>e DEF vars
<1> QED BY <1>1, <1>3, <1>4, <1>5 DEF Next

LEMMA StepTopic ==
    ASSUME MapInv, [Next]_vars,
           NEW x \in Clients \ marked', NEW n \in Names,
           x \notin marked => ShowsTopic(x, n), ~TopicUnannounced(n)
    PROVE  ShowsTopic(x, n)'
<1> SUFFICES ASSUME x \in members'[n]
             PROVE  view'[x][n].topic = topic'[n]
  BY DEF ShowsTopic
<1> DEFINE Right == view'[x][n].topic = topic'[n]
           Same == /\ x \notin marked /\ x \in members[n]
                   /\ view'[x][n].topic = view[x][n].topic
                   /\ topic'[n] = topic[n]
<1>t. TypeOK
  BY DEF MapInv
<1>0. x \notin marked /\ x \in members[n] => view[x][n].topic = topic[n]
  BY DEF ShowsTopic
<1>s. view[x] \in [Names -> Screens] /\ view[x][n] \in Screens
  BY <1>t DEF TypeOK
<1>e. ASSUME Same PROVE Right
  BY <1>0, <1>e
<1>m. ASSUME NEW c \in Clients, Mark(c) PROVE x \notin marked /\ view'[x] = view[x]
  BY <1>m, <1>t DEF Mark, TypeOK
<1>1. ASSUME NEW c \in Clients, Connection(c) PROVE Right
  <2>1. CASE Connect(c) \/ Register(c) \/ RequestDisconnect(c)
    BY <2>1, <1>e, <1>m
       DEF Connect, Register, RequestDisconnect, channelVars
  <2>2. CASE Disconnect(c)
    <3>1. /\ members'[n] = members[n] \ {c}
          /\ marked' = marked \ {c}
          /\ topic'[n] = IF n \in Emptied(c) THEN NoTopic ELSE topic[n]
      BY <2>2 DEF Disconnect
    <3>2. x # c /\ x \in members[n] /\ x \notin marked
      BY <3>1
    <3>3. topic'[n] = topic[n]
      BY <3>1, <3>2 DEF Emptied
    <3>4. view'[x][n] = view[x][n] \/ view'[x][n] = SeesLeave(view[x][n], c)
      BY <2>2, <3>2 DEF Disconnect
    <3>5. view'[x][n].topic = view[x][n].topic
      BY <3>4, <1>s, SeesFields
    <3> QED BY <1>e, <3>2, <3>3, <3>5
  <2> QED BY <1>1, <2>1, <2>2 DEF Connection
<1>2. ASSUME NEW p \in Users, NEW ch \in Names,
             RemoveFromChannel(p, ch), UNCHANGED marked,
             view' = Told(ch, members[ch], LAMBDA d, s :
                         IF d = p THEN Blank ELSE SeesLeave(s, p))
      PROVE  Right
  <2>1. x \notin marked
    BY <1>2
  <2>2. /\ members'[n] = IF n = ch THEN members[n] \ {p} ELSE members[n]
        /\ topic'[n] = IF n = ch /\ members[ch] \ {p} = {} THEN NoTopic
                                                           ELSE topic[n]
    BY <1>2, <1>t DEF RemoveFromChannel, TypeOK
  <2>3. view'[x] = IF x \in members[ch]
           THEN [view[x] EXCEPT ![ch] =
                   IF x = p THEN Blank ELSE SeesLeave(view[x][ch], p)]
           ELSE view[x]
    BY <1>2, <2>1 DEF Told
  <2>4. x \in members[n] /\ topic'[n] = topic[n] /\ (n = ch => x # p)
    BY <2>2
  <2>5. view'[x][n] = view[x][n] \/ view'[x][n] = SeesLeave(view[x][n], p)
    BY <2>3, <2>4, <1>s
  <2>6. view'[x][n].topic = view[x][n].topic
    BY <2>5, <1>s, SeesFields
  <2> QED BY <1>e, <2>1, <2>4, <2>6
<1>3. ASSUME NEW c \in Clients, NEW ch \in Names, Membership(c, ch) PROVE Right
  <2>1. ASSUME NEW key \in Keys \cup {NoKey}, Join(c, ch, key) PROVE Right
    <3>1. /\ members' = [members EXCEPT ![ch] = @ \cup {c}] /\ x \notin marked
          /\ topic' = topic
      BY <2>1 DEF Join, AddToChannel
    <3>2. view'[x] = IF x \in members[ch] \cup {c}
             THEN [view[x] EXCEPT ![ch] =
                     IF x = c THEN [members |-> members[ch] \cup {c},
                                    operators |-> OperatorsAfterEntry(c, ch),
                                    topic |-> topic[ch]]
                              ELSE SeesJoin(view[x][ch], c)]
             ELSE view[x]
      BY <2>1, <3>1 DEF Join, Told
    <3>3. CASE n = ch /\ x = c
      <4>1. view'[x][n].topic = topic[n]
        BY <3>2, <3>3, <1>s
      <4> QED BY <3>1, <4>1
    <3>4. CASE n # ch \/ x # c
      <4>1. x \in members[n]
        BY <3>1, <3>4, <1>t DEF TypeOK
      <4>2. view'[x][n] = view[x][n] \/ view'[x][n] = SeesJoin(view[x][n], c)
        BY <3>2, <3>4, <1>s
      <4>3. view'[x][n].topic = view[x][n].topic
        BY <4>2, <1>s, SeesFields
      <4> QED BY <1>e, <3>1, <4>1, <4>3
    <3> QED BY <3>3, <3>4
  <2>2. CASE Part(c, ch)
    BY <2>2, <1>2 DEF Part, Audience, Users
  <2>3. ASSUME NEW target \in Clients, InviteClient(c, target, ch) PROVE Right
    BY <2>3, <1>e DEF InviteClient
  <2>4. CASE InviteBot(c, ch)
    <3>1. /\ members' = [members EXCEPT ![ch] = @ \cup {Bot}] /\ x \notin marked
          /\ topic' = topic
      BY <2>4 DEF InviteBot, AddToChannel
    <3>2. view'[x] = IF x \in members[ch]
             THEN [view[x] EXCEPT ![ch] = SeesJoin(view[x][ch], Bot)]
             ELSE view[x]
      BY <2>4, <3>1 DEF InviteBot, Told
    <3>3. view'[x][n].topic = view[x][n].topic
      BY <3>2, <1>s, SeesFields
    <3>4. x \in members[n]
      BY <3>1, <1>t, ParticipantsAssumption DEF TypeOK
    <3> QED BY <1>e, <3>1, <3>3, <3>4
  <2>5. ASSUME NEW target \in Users, Kick(c, target, ch) PROVE Right
    <3>1. ch # Home
      BY <2>5, NoHumanRulesHome DEF Kick, MayKick, MapInv
    <3> QED BY <2>5, <3>1, <1>2 DEF Kick, Audience
  <2>6. CASE InviteBotUnanswered(c, ch)
    BY <2>6, <1>e, <1>m DEF InviteBotUnanswered
  <2> QED BY <1>3, <2>1, <2>2, <2>3, <2>4, <2>5, <2>6 DEF Membership
<1>4. ASSUME NEW c \in Clients, NEW ch \in Names, Settings(c, ch) PROVE Right
  <2>1. ASSUME NEW t \in Topics, ChangeTopic(c, ch, t) PROVE Right
    <3>1. /\ members' = members /\ x \notin marked
          /\ topic' = [topic EXCEPT ![ch] = t]
      BY <2>1 DEF ChangeTopic, SetTopic
    <3>2. view'[x] = IF x \in members[ch]
             THEN [view[x] EXCEPT ![ch] = SeesTopic(view[x][ch], t)]
             ELSE view[x]
      BY <2>1, <3>1 DEF ChangeTopic, Told, Audience
    <3>3. CASE n = ch
      <4>1. view'[x][n].topic = t /\ topic'[n] = t
        BY <3>1, <3>2, <3>3, <1>s, <1>t, SeesFields DEF TypeOK
      <4> QED BY <4>1
    <3>4. CASE n # ch
      BY <3>1, <3>2, <3>4, <1>e, <1>s, <1>t DEF TypeOK
    <3> QED BY <3>3, <3>4
  <2>2. ASSUME NEW req \in ModeRequests, ChangeModes(c, ch, req) PROVE Same
    <3>1. members' = members /\ topic' = topic /\ x \notin marked
      BY <2>2 DEF ChangeModes, ApplyModes
    <3>2. view'[x] = IF x \in members[ch]
             THEN [view[x] EXCEPT ![ch] = SeesModes(view[x][ch], req)]
             ELSE view[x]
      BY <2>2, <3>1 DEF ChangeModes, Told, Audience
    <3> QED BY <3>1, <3>2, <1>s, SeesFields
  <2>3. ASSUME NEW req \in ModeRequests, ChangeModesUnannounced(c, ch, req)
        PROVE  Same
    BY <2>3, <1>m DEF ChangeModesUnannounced, ApplyModes
  <2>4. ASSUME NEW t \in Topics, ChangeTopicUnannounced(c, ch, t) PROVE Same
    <3>1. n # ch
      BY <2>4 DEF TopicUnannounced
    <3> QED BY <2>4, <3>1, <1>m, <1>t DEF ChangeTopicUnannounced, SetTopic, TypeOK
  <2> QED BY <1>4, <1>e, <2>1, <2>2, <2>3, <2>4 DEF Settings
<1>5. CASE UNCHANGED vars
  BY <1>5, <1>e DEF vars
<1> QED BY <1>1, <1>3, <1>4, <1>5 DEF Next

LEMMA ScreensInit == Init => RosterExact /\ OperatorsExact /\ TopicExact
<1> SUFFICES ASSUME Init, NEW c \in Clients, NEW n \in Names
             PROVE  /\ view[c][n].members = {} /\ view[c][n].operators = {}
                    /\ c \notin members[n]
  BY DEF RosterExact, OperatorsExact, TopicExact, ShowsMembers, ShowsOperators,
         ShowsTopic
<1>1. view[c][n] = Blank /\ members[n] \subseteq {Bot}
  BY DEF Init
<1> QED BY <1>1, BlankFields, ParticipantsAssumption

(* As long as every MODE can be announced, a client that is not being      *)
(* disconnected shows exactly the operators of the channels it is in.      *)
THEOREM OperatorsAlwaysExact ==
    ASSUME "MODE" \notin Overlong PROVE Spec => []OperatorsExact
<1>1. \A n \in Names : ~ModesUnannounced(n)
  BY DEF ModesUnannounced, ChangeModesUnannounced
<1>2. MapInv /\ RosterExact /\ OperatorsExact /\ [Next]_vars => OperatorsExact'
  BY <1>1, StepOperators DEF OperatorsExact
<1> QED
  BY <1>2, ScreensInit, InitMap, StepMap, RosterAlwaysExact, PTL DEF Spec

(* As long as every TOPIC can be announced, it shows their topics.         *)
THEOREM TopicAlwaysExact ==
    ASSUME "TOPIC" \notin Overlong PROVE Spec => []TopicExact
<1>1. \A n \in Names : ~TopicUnannounced(n)
  BY DEF TopicUnannounced, ChangeTopicUnannounced
<1>2. MapInv /\ TopicExact /\ [Next]_vars => TopicExact'
  BY <1>1, StepTopic DEF TopicExact
<1> QED
  BY <1>2, ScreensInit, InitMap, StepMap, PTL DEF Spec

(* So every screen is exact when all that changes it can be announced.     *)
THEOREM ScreensAlwaysExact ==
    ASSUME "MODE" \notin Overlong, "TOPIC" \notin Overlong
    PROVE  Spec => []ScreensExact
<1>1. Spec => []OperatorsExact
  BY OperatorsAlwaysExact
<1>2. Spec => []TopicExact
  BY TopicAlwaysExact
<1>3. RosterExact /\ OperatorsExact /\ TopicExact => ScreensExact
  BY DEF ScreensExact
<1> QED
  BY <1>1, <1>2, <1>3, RosterAlwaysExact, PTL

(* And whatever cannot be announced, no other step misleads anybody: what  *)
(* a client shows of a channel becomes wrong by an unannounced change of   *)
(* that channel alone, and who is in it by no step at all.                 *)
THEOREM MisledBySilenceOnly == Spec => OnlySilenceMisleads
<1> DEFINE Misled ==
      \A c \in Clients \ marked', n \in Names :
          /\ (c \notin marked => ShowsMembers(c, n)) => ShowsMembers(c, n)'
          /\ (c \notin marked => ShowsOperators(c, n)) =>
                ShowsOperators(c, n)' \/ ModesUnannounced(n)
          /\ (c \notin marked => ShowsTopic(c, n)) =>
                ShowsTopic(c, n)' \/ TopicUnannounced(n)
<1>1. ASSUME MapInv, RosterExact, RosterExact', [Next]_vars PROVE Misled
  <2> SUFFICES ASSUME NEW c \in Clients \ marked', NEW n \in Names
               PROVE  /\ ShowsMembers(c, n)'
                      /\ (c \notin marked => ShowsOperators(c, n)) =>
                            ShowsOperators(c, n)' \/ ModesUnannounced(n)
                      /\ (c \notin marked => ShowsTopic(c, n)) =>
                            ShowsTopic(c, n)' \/ TopicUnannounced(n)
    OBVIOUS
  <2>1. ShowsMembers(c, n)'
    BY <1>1 DEF RosterExact
  <2>2. ASSUME c \notin marked => ShowsOperators(c, n), ~ModesUnannounced(n)
        PROVE  ShowsOperators(c, n)'
    BY <1>1, <2>2, StepOperators
  <2>3. ASSUME c \notin marked => ShowsTopic(c, n), ~TopicUnannounced(n)
        PROVE  ShowsTopic(c, n)'
    BY <1>1, <2>3, StepTopic
  <2> QED BY <2>1, <2>2, <2>3
<1>2. MapInv /\ RosterExact /\ RosterExact' /\ [Next]_vars => [Misled]_vars
  BY <1>1
<1> QED
  BY <1>2, InitMap, StepMap, RosterAlwaysExact, PTL DEF Spec, OnlySilenceMisleads

-----------------------------------------------------------------------------
(* Properties of steps.                                                    *)

LEMMA StepPromotion ==
    ASSUME MapInv, [Next]_vars, NEW n \in Names,
           members[n] # {}, operators[n] = {}
    PROVE  operators'[n] = {}
<1> USE DEF MapInv, TypeOK
<1>1. ASSUME NEW c \in Clients, Connection(c) PROVE operators'[n] = {}
  BY <1>1 DEF Connection, Connect, Register, RequestDisconnect, Disconnect,
              channelVars
<1>2. ASSUME NEW p, NEW ch \in Names, AddToChannel(p, ch), n # Home \/ p # Bot
      PROVE  operators'[n] = {}
  BY <1>2 DEF AddToChannel, OperatorsAfterEntry
<1>3. ASSUME NEW p, NEW ch \in Names, RemoveFromChannel(p, ch)
      PROVE  operators'[n] = {}
  BY <1>3 DEF RemoveFromChannel
<1>4. ASSUME NEW c \in Clients, NEW ch \in Names, Membership(c, ch)
      PROVE  operators'[n] = {}
  <2>0. n # Home
    BY DEF BotRulesHome
  <2>1. ASSUME NEW key \in Keys \cup {NoKey}, Join(c, ch, key)
        PROVE  operators'[n] = {}
    BY <2>0, <2>1, <1>2 DEF Join
  <2>2. CASE Part(c, ch)
    BY <2>2, <1>3 DEF Part
  <2>3. ASSUME NEW target \in Clients, InviteClient(c, target, ch)
        PROVE  operators'[n] = {}
    BY <2>3 DEF InviteClient
  <2>4. CASE InviteBot(c, ch)
    BY <2>0, <2>4, <1>2 DEF InviteBot
  <2>5. ASSUME NEW target \in Users, Kick(c, target, ch)
        PROVE  operators'[n] = {}
    <3>1. CASE target = Bot /\ ch = Home
      <4>1. operators' = [operators EXCEPT ![ch] = @ \cup {Bot}]
        BY <2>5, <3>1 DEF Kick
      <4> QED BY <2>0, <3>1, <4>1
    <3>2. CASE ~ (target = Bot /\ ch = Home)
      BY <2>5, <3>2, <1>3 DEF Kick
    <3> QED BY <3>1, <3>2
  <2>6. CASE InviteBotUnanswered(c, ch)
    BY <2>6 DEF InviteBotUnanswered
  <2> QED BY <1>4, <2>1, <2>2, <2>3, <2>4, <2>5, <2>6 DEF Membership
<1>5. ASSUME NEW c \in Clients, NEW ch \in Names, Settings(c, ch)
      PROVE  operators'[n] = {}
  <2>1. ASSUME NEW t \in Topics, SetTopic(ch, t) PROVE operators'[n] = {}
    BY <2>1 DEF SetTopic
  <2>2. ASSUME NEW req \in ModeRequests, MayChangeModes(c, ch, req),
               ApplyModes(ch, req)
        PROVE  operators'[n] = {}
    <3>1. n # ch
      BY <2>2 DEF MayChangeModes
    <3> QED BY <2>2, <3>1 DEF ApplyModes
  <2> QED BY <1>5, <2>1, <2>2 DEF Settings, ChangeTopic,
         ChangeTopicUnannounced, ChangeModes, ChangeModesUnannounced
<1>6. CASE UNCHANGED vars
  BY <1>6 DEF vars
<1> QED BY <1>1, <1>4, <1>5, <1>6 DEF Next

(* A channel that has lost its operators gets none back while it lives.    *)
THEOREM NeverSelfPromoted == Spec => NoSelfPromotion
<1>1. MapInv /\ [Next]_vars =>
         [\A n \in Names :
             members[n] # {} /\ operators[n] = {} => operators'[n] = {}]_vars
  BY StepPromotion
<1> QED BY <1>1, InitMap, StepMap, PTL DEF Spec, NoSelfPromotion

(* Only a JOIN of its own brings a client into a channel.                  *)
LEMMA EntryIsJoin ==
    ASSUME MapInv, [Next]_vars, NEW n \in Names, NEW x \in Clients,
           x \in members'[n] \ members[n]
    PROVE  \E key \in Keys \cup {NoKey} : Join(x, n, key)
<1> DEFINE Joins == \E key \in Keys \cup {NoKey} : Join(x, n, key)
<1> USE DEF MapInv, TypeOK
<1>1. ASSUME NEW c \in Clients, Connection(c) PROVE Joins
  BY <1>1 DEF Connection, Connect, Register, RequestDisconnect, Disconnect,
              channelVars
<1>2. ASSUME NEW p, NEW ch \in Names, RemoveFromChannel(p, ch) PROVE Joins
  BY <1>2 DEF RemoveFromChannel
<1>3. ASSUME NEW c \in Clients, NEW ch \in Names, Membership(c, ch)
      PROVE  Joins
  <2>1. ASSUME NEW key \in Keys \cup {NoKey}, Join(c, ch, key)
        PROVE  Joins
    <3>1. members' = [members EXCEPT ![ch] = @ \cup {c}]
      BY <2>1 DEF Join, AddToChannel
    <3>2. n = ch /\ x = c
      BY <3>1
    <3> QED BY <2>1, <3>2
  <2>2. CASE Part(c, ch)
    BY <2>2, <1>2 DEF Part
  <2>3. ASSUME NEW target \in Clients, InviteClient(c, target, ch)
        PROVE  Joins
    BY <2>3 DEF InviteClient
  <2>4. CASE InviteBot(c, ch)
    <3>1. members' = [members EXCEPT ![ch] = @ \cup {Bot}]
      BY <2>4 DEF InviteBot, AddToChannel
    <3> QED BY <3>1, ParticipantsAssumption
  <2>5. ASSUME NEW target \in Users, Kick(c, target, ch)
        PROVE  Joins
    <3>1. members' = members \/ RemoveFromChannel(target, ch)
      BY <2>5 DEF Kick
    <3> QED BY <3>1, <1>2
  <2>6. CASE InviteBotUnanswered(c, ch)
    BY <2>6 DEF InviteBotUnanswered
  <2> QED BY <1>3, <2>1, <2>2, <2>3, <2>4, <2>5, <2>6 DEF Membership
<1>4. ASSUME NEW c \in Clients, NEW ch \in Names, Settings(c, ch)
      PROVE  Joins
  <2>1. members' = members
    BY <1>4 DEF Settings, ChangeTopic, ChangeTopicUnannounced, ChangeModes,
                ChangeModesUnannounced, SetTopic, ApplyModes
  <2> QED BY <2>1
<1>5. CASE UNCHANGED vars
  BY <1>5 DEF vars
<1> QED BY <1>1, <1>3, <1>4, <1>5 DEF Next

(* Nobody enters a channel past its limit or without an invitation it      *)
(* asks for, and an invitation admits once.                                *)
THEOREM AdmissionAlwaysRespected == Spec => AdmissionRespected
<1> DEFINE Admission ==
      \A n \in live, c \in Clients :
          c \in members'[n] \ members[n] =>
             /\ modes[n].limit # NoLimit =>
                   Cardinality(members'[n]) <= modes[n].limit
             /\ modes[n].inviteOnly => c \in invited[n]
             /\ c \notin invited'[n]
<1>1. ASSUME MapInv, [Next]_vars PROVE Admission
  <2> SUFFICES ASSUME NEW n \in live, NEW c \in Clients,
                      c \in members'[n] \ members[n]
               PROVE  /\ modes[n].limit # NoLimit =>
                            Cardinality(members'[n]) <= modes[n].limit
                      /\ modes[n].inviteOnly => c \in invited[n]
                      /\ c \notin invited'[n]
    OBVIOUS
  <2> n \in Names
    BY <1>1 DEF MapInv, TypeOK
  <2>1. PICK key \in Keys \cup {NoKey} : Join(c, n, key)
    BY <1>1, EntryIsJoin
  <2>2. MayJoin(c, n, key) /\ AddToChannel(c, n)
    BY <2>1 DEF Join
  <2>3. /\ members'[n] = members[n] \cup {c}
        /\ invited'[n] = invited[n] \ {c}
    BY <1>1, <2>2 DEF AddToChannel, MapInv, TypeOK
  <2>4. IsFiniteSet(members[n])
    <3>1. IsFiniteSet(Users)
      BY ParticipantsAssumption, FS_AddElement DEF Users
    <3> QED BY <1>1, <3>1, FS_Subset DEF MapInv, TypeOK
  <2>5. /\ Cardinality(members'[n]) = Cardinality(members[n]) + 1
        /\ Cardinality(members[n]) \in Nat
    BY <2>3, <2>4, FS_AddElement, FS_CardinalityType
  <2>6. modes[n].limit # NoLimit => modes[n].limit \in Nat
    BY <1>1, TextAssumption DEF MapInv, TypeOK, Modes
  <2> QED BY <2>2, <2>3, <2>5, <2>6 DEF MayJoin
<1>2. MapInv /\ [Next]_vars => [Admission]_vars
  BY <1>1
<1> QED BY <1>2, InitMap, StepMap, PTL DEF Spec, AdmissionRespected

-----------------------------------------------------------------------------
(* Channels implements Rooms.                                              *)

LEMMA RoomsAreMembers ==
    /\ TypeOK /\ MembershipInSync => [n \in Names |-> JoinedBy(n)] = members
    /\ TypeOK' /\ MembershipInSync' => [n \in Names |-> JoinedBy(n)]' = members'
<1>1. ASSUME TypeOK, MembershipInSync
      PROVE  [n \in Names |-> JoinedBy(n)] = members
  <2>1. \A n \in Names : JoinedBy(n) = members[n]
    BY <1>1 DEF TypeOK, MembershipInSync, JoinedBy
  <2> QED BY <1>1, <2>1 DEF TypeOK
<1>2. ASSUME TypeOK', MembershipInSync'
      PROVE  [n \in Names |-> JoinedBy(n)]' = members'
  <2>1. \A n \in Names : JoinedBy(n)' = members'[n]
    BY <1>2 DEF TypeOK, MembershipInSync, JoinedBy
  <2> QED BY <1>2, <2>1 DEF TypeOK
<1> QED BY <1>1, <1>2

LEMMA StepPromise ==
    ASSUME MapInv, MapInv', [Next]_vars
    PROVE  [Promise!Next]_<<[n \in Names |-> JoinedBy(n)], operators>>
<1> DEFINE room == [n \in Names |-> JoinedBy(n)]
<1>0. room = members /\ room' = members'
  BY RoomsAreMembers DEF MapInv
<1> HIDE DEF room
<1> DEFINE Maps == [Promise!Next]_<<room, operators>>
<1>s. ASSUME UNCHANGED <<members, operators>> PROVE Maps
  BY <1>s, <1>0
<1>l. ASSUME NEW p \in Users, NEW ch \in Names, p \in members[ch],
             RemoveFromChannel(p, ch)
      PROVE  Maps
  <2>1. /\ p \in room[ch]
        /\ room' = [room EXCEPT ![ch] = @ \ {p}]
        /\ operators' = [operators EXCEPT ![ch] = @ \ {p}]
    BY <1>l, <1>0 DEF RemoveFromChannel
  <2> QED BY <2>1 DEF Promise!Next, Promise!Leave, room
<1>e. ASSUME NEW p \in Users, NEW ch \in Names, p \notin members[ch],
             p # Bot \/ ch # Home, AddToChannel(p, ch)
      PROVE  Maps
  <2>1. members[ch] = {} => operators[ch] = {}
    BY DEF MapInv, TypeOK, NothingDangling
  <2>2. /\ p \notin room[ch]
        /\ room' = [room EXCEPT ![ch] = @ \cup {p}]
        /\ operators' = [operators EXCEPT ![ch] =
                            IF room[ch] = {} THEN {p} ELSE @]
    BY <1>e, <1>0, <2>1 DEF AddToChannel, OperatorsAfterEntry
  <2> QED BY <2>2 DEF Promise!Next, Promise!Enter, room
<1> HIDE DEF Maps
<1>1. ASSUME NEW c \in Clients, Connection(c) PROVE Maps
  <2>1. CASE Connect(c) \/ Register(c) \/ RequestDisconnect(c)
    BY <2>1, <1>s DEF Connect, Register, RequestDisconnect, channelVars
  <2>2. CASE Disconnect(c)
    <3>1. /\ room' = [n \in Names |-> room[n] \ {c}]
          /\ operators' = [n \in Names |-> operators[n] \ {c}]
      BY <2>2, <1>0 DEF Disconnect
    <3> QED BY <3>1 DEF Promise!Next, Promise!LeaveAll, room, Users, Maps
  <2> QED BY <1>1, <2>1, <2>2 DEF Connection
<1>2. ASSUME NEW c \in Clients, NEW ch \in Names, Membership(c, ch)
      PROVE  Maps
  <2> Bot \in Users /\ c \in Users /\ c # Bot
    BY ParticipantsAssumption DEF Users
  <2>1. ASSUME NEW key \in Keys \cup {NoKey}, Join(c, ch, key) PROVE Maps
    BY <2>1, <1>e DEF Join
  <2>2. CASE Part(c, ch)
    BY <2>2, <1>l DEF Part
  <2>3. ASSUME NEW target \in Clients, InviteClient(c, target, ch) PROVE Maps
    BY <2>3, <1>s DEF InviteClient
  <2>4. CASE InviteBot(c, ch)
    <3>1. Bot \notin members[ch] /\ ch # Home
      BY <2>4 DEF InviteBot, MayInvite, MapInv, BotRulesHome
    <3> QED BY <2>4, <3>1, <1>e DEF InviteBot
  <2>5. ASSUME NEW target \in Users, Kick(c, target, ch) PROVE Maps
    <3>1. ch # Home /\ target \in members[ch]
      BY <2>5, NoHumanRulesHome DEF Kick, MayKick, MapInv
    <3> QED BY <2>5, <3>1, <1>l DEF Kick
  <2>6. CASE InviteBotUnanswered(c, ch)
    BY <2>6, <1>s DEF InviteBotUnanswered
  <2> QED BY <1>2, <2>1, <2>2, <2>3, <2>4, <2>5, <2>6 DEF Membership
<1>3. ASSUME NEW c \in Clients, NEW ch \in Names, Settings(c, ch)
      PROVE  Maps
  <2>1. ASSUME NEW t \in Topics, SetTopic(ch, t) PROVE Maps
    BY <2>1, <1>s DEF SetTopic
  <2>2. ASSUME NEW req \in ModeRequests, MayChangeModes(c, ch, req),
               ApplyModes(ch, req)
        PROVE  Maps
    <3> DEFINE chosen == OperatorsAfter(req, members[ch], operators[ch])
    <3>1. /\ operators[ch] # {}
          /\ chosen \subseteq room[ch]
          /\ operators' = [operators EXCEPT ![ch] = chosen]
          /\ UNCHANGED room
      BY <2>2, <1>0, OperatorsAfterType DEF MayChangeModes, ApplyModes
    <3>2. chosen \in SUBSET Users
      BY OperatorsAfterType DEF MapInv, TypeOK
    <3> HIDE DEF chosen
    <3> QED BY <3>1, <3>2 DEF Promise!Next, Promise!Appoint, room, Maps
  <2> QED BY <1>3, <2>1, <2>2 DEF Settings, ChangeTopic,
         ChangeTopicUnannounced, ChangeModes, ChangeModesUnannounced
<1>4. ASSUME UNCHANGED vars PROVE Maps
  <2>1. UNCHANGED <<members, operators>>
    BY <1>4 DEF vars
  <2> QED BY <2>1, <1>s
<1>5. ASSUME Next PROVE Maps
  BY <1>1, <1>2, <1>3, <1>5 DEF Next
<1>6. Maps
  BY <1>4, <1>5
<1> QED BY <1>6 DEF Maps, room

(* Every behaviour of the channel subsystem is a behaviour of Rooms.       *)
THEOREM ChannelsImplementRooms == Spec => KeepsPromise
<1>1. Init => Promise!Init
  <2> SUFFICES ASSUME Init PROVE Promise!Init
    OBVIOUS
  <2>1. [n \in Names |-> JoinedBy(n)] = members
    BY InitMap, RoomsAreMembers DEF MapInv
  <2> QED BY <2>1 DEF Init, Promise!Init
<1>2. MapInv /\ MapInv' /\ [Next]_vars =>
         [Promise!Next]_<<[n \in Names |-> JoinedBy(n)], operators>>
  BY StepPromise
<1> QED BY <1>1, <1>2, InitMap, StepMap, PTL
        DEF Spec, KeepsPromise, Promise!Spec
=============================================================================
