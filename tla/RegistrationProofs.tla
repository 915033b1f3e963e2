------------------------- MODULE RegistrationProofs -------------------------
(***************************************************************************)
(* The properties of Registration for any set of clients and nicknames and *)
(* any casemapping.  TypeOK and, with it, IndexExact are inductive.  What  *)
(* clients are told and when they are registered needs besides that a slot *)
(* without connection is blank (Fresh), because accept() makes a new       *)
(* Client there: Progress is inductive relative to TypeOK.                 *)
(***************************************************************************)
EXTENDS Registration, TLAPS

Fresh ==
    \A c \in Clients \ connected :
        /\ ~passwordAccepted[c] /\ ~usernameReceived[c] /\ ~registered[c]
        /\ nickname[c] = NoNick

USE DEF Users

-----------------------------------------------------------------------------
(* The operators on the index.                                             *)

(* Canonical holds the fold of every nickname.                             *)
LEMMA FoldCanonical ==
    \A n \in Nicks : Fold[n] \in Canonical
BY NicksAssumption DEF Canonical

(* The index stays a function from folded names to owners.                 *)
LEMMA ReleasedType ==
    ASSUME TypeOK, NEW c \in Clients
    PROVE  Released(c) \in [Canonical -> Users \cup {Nobody}]
BY DEF Released, TypeOK

(* Assigning a nickname: what becomes of the entries.                      *)
LEMMA AssignEntries ==
    ASSUME TypeOK, NEW c \in Clients, NEW n \in Nicks, AssignNickname(c, n)
    PROVE  /\ index[Fold[n]] \in {Nobody, c}
           /\ nickname' \in [Clients -> Nicks \cup {NoNick}]
           /\ nickname'[c] = n
           /\ \A d \in Clients \ {c} : nickname'[d] = nickname[d]
           /\ index' \in [Canonical -> Users \cup {Nobody}]
           /\ index'[Fold[n]] = c
           /\ \A k \in Canonical \ {Fold[n]} : index'[k] = Released(c)[k]
<1>1. Released(c) \in [Canonical -> Users \cup {Nobody}]
  BY ReleasedType
<1>2. Fold[n] \in Canonical
  BY FoldCanonical
<1>3. index' = [Released(c) EXCEPT ![Fold[n]] = c]
  BY DEF AssignNickname
<1>4. nickname' = [nickname EXCEPT ![c] = n] /\ index[Fold[n]] \in {Nobody, c}
  BY DEF AssignNickname, MayTake
<1> QED
  BY <1>1, <1>2, <1>3, <1>4 DEF TypeOK

(* What tryRegisterClient() leaves, whatever the handler did before it.    *)
LEMMA TryRegisterEffect ==
    ASSUME TypeOK, NEW c \in Clients, TryRegister(c),
           nickname' \in [Clients -> Nicks \cup {NoNick}]
    PROVE  /\ registered' \in [Clients -> BOOLEAN]
           /\ told' \in [Clients -> Nicks \cup {NoNick}]
           /\ marked' \in {marked, marked \cup {c}}
           /\ \A d \in Clients \ {c} :
                 registered'[d] = registered[d] /\ told'[d] = told[d]
           /\ registered'[c] <=> registered[c] \/ ReadyToRegister(c)'
           /\ c \notin marked' /\ registered'[c] /\ ~registered[c]
                 => told'[c] = nickname'[c]
           /\ registered[c] => told' = told
<1>1. CASE /\ registered[c] \/ ~ReadyToRegister(c)'
           /\ UNCHANGED <<registered, told, marked>>
  BY <1>1 DEF TypeOK
<1>2. CASE /\ ~registered[c] /\ ReadyToRegister(c)'
           /\ registered' = [registered EXCEPT ![c] = TRUE]
           /\ told' = [told EXCEPT ![c] = nickname'[c]]
           /\ UNCHANGED marked
  BY <1>2 DEF TypeOK
<1>3. CASE /\ ~registered[c] /\ ReadyToRegister(c)'
           /\ nickname'[c] \in Long
           /\ registered' = [registered EXCEPT ![c] = TRUE]
           /\ marked' = marked \cup {c}
           /\ UNCHANGED told
  BY <1>3 DEF TypeOK
<1> QED
  BY <1>1, <1>2, <1>3 DEF TryRegister
-----------------------------------------------------------------------------
(* Types.                                                                  *)

LEMMA TypeInit == Init => TypeOK
BY ClientsAssumption, NicksAssumption DEF Init, TypeOK, Canonical

LEMMA TypeStep == TypeOK /\ [Next]_vars => TypeOK'
<1> SUFFICES ASSUME TypeOK, [Next]_vars PROVE TypeOK'
  OBVIOUS
<1>1. ASSUME NEW c \in Clients, Connection(c) PROVE TypeOK'
  <2>1. CASE Accept(c)
    BY <2>1 DEF Accept, TypeOK
  <2>2. CASE RequestDisconnect(c)
    BY <2>2 DEF RequestDisconnect, Active, TypeOK
  <2>3. CASE Disconnect(c)
    BY <2>3, ReleasedType DEF Disconnect, TypeOK
  <2> QED
    BY <1>1, <2>1, <2>2, <2>3 DEF Connection
<1>2. ASSUME NEW c \in Clients, Credentials(c) PROVE TypeOK'
  <2>1. CASE User(c)
    BY <2>1, TryRegisterEffect DEF User, Active, TypeOK
  <2>2. ASSUME NEW correct \in BOOLEAN, Pass(c, correct) PROVE TypeOK'
    BY <2>2, TryRegisterEffect DEF Pass, Active, TypeOK
  <2> QED
    BY <1>2, <2>1, <2>2 DEF Credentials
<1>3. ASSUME NEW c \in Clients, NEW n \in Nicks, Nickname(c, n) PROVE TypeOK'
  <2>1. CASE FirstNick(c, n)
    BY <2>1, TryRegisterEffect, AssignEntries DEF FirstNick, Active, TypeOK
  <2>2. CASE ChangeNick(c, n)
    BY <2>2, AssignEntries DEF ChangeNick, TypeOK
  <2>3. CASE ChangeNickUnannounced(c, n)
    BY <2>3, AssignEntries DEF ChangeNickUnannounced, Active, TypeOK
  <2> QED
    BY <1>3, <2>1, <2>2, <2>3 DEF Nickname
<1>4. CASE UNCHANGED vars
  BY <1>4 DEF vars, TypeOK
<1> QED
  BY <1>1, <1>2, <1>3, <1>4 DEF Next

(* Every variable keeps its type under every command.                      *)
THEOREM TypeCorrect == Spec => []TypeOK
BY TypeInit, TypeStep, PTL DEF Spec

-----------------------------------------------------------------------------
(* The index.                                                              *)

LEMMA IndexInit == Init => IndexExact
BY ClientsAssumption, NicksAssumption DEF Init, IndexExact, Canonical

(* Giving a nickname up frees its entry and touches no other.              *)
LEMMA ReleasedEntries ==
    ASSUME TypeOK, IndexExact, NEW c \in Clients
    PROVE  \A k \in Canonical :
              Released(c)[k] = IF index[k] = c THEN Nobody ELSE index[k]
BY DEF Released, TypeOK, IndexExact

(* Assigning a free or own nickname keeps the index exact.                 *)
LEMMA AssignKeepsIndex ==
    ASSUME TypeOK, IndexExact, NEW c \in Clients, NEW n \in Nicks,
           AssignNickname(c, n)
    PROVE  IndexExact'
<1> SUFFICES ASSUME NEW k \in Canonical
             PROVE  /\ index'[k] = Bot <=> k = Fold[BotNick]
                    /\ \A d \in Clients :
                          index'[k] = d <=> /\ nickname'[d] # NoNick
                                            /\ Fold[nickname'[d]] = k
  BY DEF IndexExact
<1> DEFINE m == Fold[n]
<1>1. /\ index[m] \in {Nobody, c} /\ nickname'[c] = n
      /\ \A d \in Clients \ {c} : nickname'[d] = nickname[d]
      /\ index'[m] = c
      /\ \A j \in Canonical \ {m} :
            index'[j] = IF index[j] = c THEN Nobody ELSE index[j]
  BY AssignEntries, ReleasedEntries
<1>2. m \in Canonical
  BY FoldCanonical
<1>3. /\ index[k] = Bot <=> k = Fold[BotNick]
      /\ index[m] = Bot <=> m = Fold[BotNick]
      /\ \A d \in Clients :
            /\ index[k] = d <=> nickname[d] # NoNick /\ Fold[nickname[d]] = k
            /\ index[m] = d <=> nickname[d] # NoNick /\ Fold[nickname[d]] = m
  BY <1>2 DEF IndexExact
<1>4. n # NoNick
  BY NicksAssumption
<1>5. CASE k = m
  BY <1>1, <1>3, <1>4, <1>5, ClientsAssumption
<1>6. CASE k # m
  <2>1. index'[k] = IF index[k] = c THEN Nobody ELSE index[k]
    BY <1>1, <1>6
  <2>2. index'[k] = Bot <=> k = Fold[BotNick]
    BY <2>1, <1>3, ClientsAssumption
  <2>3. index'[k] = c <=> nickname'[c] # NoNick /\ Fold[nickname'[c]] = k
    BY <2>1, <1>1, <1>6, ClientsAssumption
  <2>4. ASSUME NEW d \in Clients \ {c}
        PROVE  index'[k] = d <=> nickname'[d] # NoNick /\ Fold[nickname'[d]] = k
    BY <2>1, <1>1, <1>3, ClientsAssumption
  <2> QED
    BY <2>2, <2>3, <2>4
<1> QED
  BY <1>5, <1>6

(* So does closing a connection.                                           *)
LEMMA DisconnectKeepsIndex ==
    ASSUME TypeOK, IndexExact, NEW c \in Clients, Disconnect(c)
    PROVE  IndexExact'
<1> SUFFICES ASSUME NEW k \in Canonical
             PROVE  /\ index'[k] = Bot <=> k = Fold[BotNick]
                    /\ \A d \in Clients :
                          index'[k] = d <=> /\ nickname'[d] # NoNick
                                            /\ Fold[nickname'[d]] = k
  BY DEF IndexExact
<1>1. index'[k] = IF index[k] = c THEN Nobody ELSE index[k]
  BY ReleasedEntries DEF Disconnect
<1>2. /\ nickname'[c] = NoNick
      /\ \A d \in Clients \ {c} : nickname'[d] = nickname[d]
  BY DEF Disconnect, TypeOK
<1>3. /\ index[k] = Bot <=> k = Fold[BotNick]
      /\ \A d \in Clients :
            index[k] = d <=> nickname[d] # NoNick /\ Fold[nickname[d]] = k
  BY DEF IndexExact
<1> QED
  BY <1>1, <1>2, <1>3, ClientsAssumption

LEMMA IndexStep == TypeOK /\ IndexExact /\ [Next]_vars => IndexExact'
<1> SUFFICES ASSUME TypeOK, IndexExact, [Next]_vars PROVE IndexExact'
  OBVIOUS
<1>1. ASSUME UNCHANGED <<index, nickname>> PROVE IndexExact'
  BY <1>1 DEF IndexExact
<1>2. ASSUME NEW c \in Clients, Connection(c) PROVE IndexExact'
  BY <1>1, <1>2, DisconnectKeepsIndex DEF Connection, Accept, RequestDisconnect
<1>3. ASSUME NEW c \in Clients, Credentials(c) PROVE IndexExact'
  BY <1>1, <1>3 DEF Credentials, User, Pass
<1>4. ASSUME NEW c \in Clients, NEW n \in Nicks, Nickname(c, n)
      PROVE  IndexExact'
  BY <1>4, AssignKeepsIndex
  DEF Nickname, FirstNick, ChangeNick, ChangeNickUnannounced
<1>5. CASE UNCHANGED vars
  BY <1>1, <1>5 DEF vars
<1> QED
  BY <1>2, <1>3, <1>4, <1>5 DEF Next

(* The nickname index leads to the client that has the nickname, and to no *)
(* other, after any commands and disconnections.                           *)
THEOREM IndexAlwaysExact == Spec => []IndexExact
BY TypeInit, TypeStep, IndexInit, IndexStep, PTL DEF Spec

-----------------------------------------------------------------------------
(* Registration.                                                           *)

Progress == Fresh /\ RegistrationComplete /\ KnowsOwnNick

LEMMA ProgressInit == Init => Progress
BY DEF Init, Progress, Fresh, RegistrationComplete, KnowsOwnNick

(* A command of c that ends in tryRegisterClient().                        *)
LEMMA CompletingKeepsProgress ==
    ASSUME TypeOK, TypeOK', Progress, NEW c \in Clients,
           Active(c), ~registered[c], TryRegister(c), connected' = connected,
           \A d \in Clients \ {c} :
              /\ passwordAccepted'[d] = passwordAccepted[d]
              /\ usernameReceived'[d] = usernameReceived[d]
              /\ nickname'[d] = nickname[d]
    PROVE  Progress'
<1>1. /\ marked' \in {marked, marked \cup {c}}
      /\ \A d \in Clients \ {c} :
            registered'[d] = registered[d] /\ told'[d] = told[d]
      /\ registered'[c] <=> ReadyToRegister(c)'
      /\ c \notin marked' /\ registered'[c] => told'[c] = nickname'[c]
  BY TryRegisterEffect DEF TypeOK
<1>2. Fresh'
  BY <1>1 DEF Progress, Fresh, Active
<1>3. RegistrationComplete'
  BY <1>1 DEF Progress, RegistrationComplete, ReadyToRegister, TypeOK
<1>4. KnowsOwnNick'
  BY <1>1 DEF Progress, KnowsOwnNick, TypeOK
<1> QED
  BY <1>2, <1>3, <1>4 DEF Progress

LEMMA ProgressStep ==
    TypeOK /\ TypeOK' /\ Progress /\ [Next]_vars => Progress'
<1> SUFFICES ASSUME TypeOK, TypeOK', Progress, [Next]_vars PROVE Progress'
  OBVIOUS
<1>1. ASSUME NEW c \in Clients, Connection(c) PROVE Progress'
  <2>1. CASE Accept(c)
    BY <2>1 DEF Accept, TypeOK, Progress, Fresh, RegistrationComplete,
                KnowsOwnNick
  <2>2. CASE RequestDisconnect(c)
    BY <2>2 DEF RequestDisconnect, TypeOK, Progress, Fresh,
                RegistrationComplete, KnowsOwnNick
  <2>3. CASE Disconnect(c)
    BY <2>3 DEF Disconnect, TypeOK, Progress, Fresh, RegistrationComplete,
                KnowsOwnNick
  <2> QED
    BY <1>1, <2>1, <2>2, <2>3 DEF Connection
<1>2. ASSUME NEW c \in Clients, Credentials(c) PROVE Progress'
  <2>1. CASE User(c)
    BY <2>1, CompletingKeepsProgress DEF User, TypeOK
  <2>2. ASSUME NEW correct \in BOOLEAN, Pass(c, correct) PROVE Progress'
    BY <2>2, CompletingKeepsProgress DEF Pass, TypeOK
  <2> QED
    BY <1>2, <2>1, <2>2 DEF Credentials
<1>3. ASSUME NEW c \in Clients, NEW n \in Nicks, Nickname(c, n)
      PROVE  Progress'
  <2>0. ASSUME AssignNickname(c, n)
        PROVE  nickname'[c] = n /\ n # NoNick
               /\ \A d \in Clients \ {c} : nickname'[d] = nickname[d]
    BY <2>0, AssignEntries, NicksAssumption
  <2>1. CASE FirstNick(c, n)
    BY <2>0, <2>1, CompletingKeepsProgress DEF FirstNick
  <2>2. CASE ChangeNick(c, n)
    BY <2>0, <2>2 DEF ChangeNick, Active, TypeOK, Progress, Fresh,
                      RegistrationComplete, KnowsOwnNick
  <2>3. CASE ChangeNickUnannounced(c, n)
    BY <2>0, <2>3 DEF ChangeNickUnannounced, Active, TypeOK, Progress, Fresh,
                      RegistrationComplete, KnowsOwnNick
  <2> QED
    BY <1>3, <2>1, <2>2, <2>3 DEF Nickname
<1>4. CASE UNCHANGED vars
  BY <1>4 DEF vars, Progress, Fresh, RegistrationComplete, KnowsOwnNick
<1> QED
  BY <1>1, <1>2, <1>3, <1>4 DEF Next

(* A client that may still send commands is registered exactly when        *)
(* password, nickname and username have been accepted.                     *)
THEOREM RegistrationAlwaysComplete == Spec => []RegistrationComplete
<1>1. Progress => RegistrationComplete
  BY DEF Progress
<1> QED
  BY <1>1, TypeInit, TypeStep, ProgressInit, ProgressStep, PTL DEF Spec

(* A registered client knows the nickname the server has for it.           *)
THEOREM AlwaysKnowsOwnNick == Spec => []KnowsOwnNick
<1>1. Progress => KnowsOwnNick
  BY DEF Progress
<1> QED
  BY <1>1, TypeInit, TypeStep, ProgressInit, ProgressStep, PTL DEF Spec

-----------------------------------------------------------------------------
(* The index implements Directory.                                         *)

LEMMA PromiseInit == Init => Promise!Init
BY DEF Init, Promise!Init

LEMMA PromiseStep ==
    TypeOK /\ IndexExact /\ [Next]_vars => [Promise!Next]_index
<1> SUFFICES ASSUME TypeOK, IndexExact, [Next]_vars, index' # index
             PROVE  Promise!Next
  OBVIOUS
<1>1. ASSUME NEW c \in Clients, NEW n \in Nicks, AssignNickname(c, n)
      PROVE  Promise!Next
  <2> DEFINE m == Fold[n]
  <2>1. /\ index[m] \in {Nobody, c} /\ index'[m] = c
        /\ index \in [Canonical -> Users \cup {Nobody}]
        /\ index' \in [Canonical -> Users \cup {Nobody}]
        /\ \A k \in Canonical \ {m} :
              index'[k] = IF index[k] = c THEN Nobody ELSE index[k]
    BY <1>1, AssignEntries, ReleasedEntries DEF TypeOK
  <2>2. m \in Canonical
    BY FoldCanonical
  <2>3. CASE index[m] = c
    <3>1. \A k \in Canonical \ {m} : index[k] # c
      BY <2>2, <2>3 DEF IndexExact
    <3>2. \A k \in Canonical : index'[k] = index[k]
      BY <2>1, <2>3, <3>1
    <3> QED
      BY <2>1, <3>2
  <2>4. CASE index[m] = Nobody
    <3>1. index' = [k \in Canonical |->
                      IF k = m THEN c
                      ELSE IF k \in Promise!Owned(c) THEN Nobody ELSE index[k]]
      BY <2>1 DEF Promise!Owned
    <3> QED
      BY <2>2, <2>4, <3>1 DEF Promise!Next, Promise!Take
  <2> QED
    BY <2>1, <2>3, <2>4
<1>2. ASSUME NEW c \in Clients, Disconnect(c) PROVE Promise!Next
  <2>1. index' = [k \in Canonical |->
                    IF k \in Promise!Owned(c) THEN Nobody ELSE index[k]]
    BY <1>2, ReleasedEntries DEF Disconnect, Released, Promise!Owned
  <2>2. Promise!Owned(c) # {}
    BY <2>1 DEF TypeOK
  <2> QED
    BY <2>1, <2>2 DEF Promise!Next, Promise!Release
<1>3. PICK c \in Clients : \/ Connection(c)
                           \/ Credentials(c)
                           \/ \E n \in Nicks : Nickname(c, n)
  BY DEF Next, vars
<1>4. CASE Connection(c)
  BY <1>2, <1>4 DEF Connection, Accept, RequestDisconnect
<1>5. CASE Credentials(c)
  BY <1>5 DEF Credentials, User, Pass
<1>6. CASE \E n \in Nicks : Nickname(c, n)
  BY <1>1, <1>6 DEF Nickname, FirstNick, ChangeNick, ChangeNickUnannounced
<1> QED
  BY <1>3, <1>4, <1>5, <1>6

(* Names are unique, change hands only through being free, and the bot's   *)
(* is never taken: every step is one of Directory or leaves the index      *)
(* alone.                                                                  *)
THEOREM RegistrationImplementsDirectory == Spec => KeepsPromise
BY TypeInit, TypeStep, IndexInit, IndexStep, PromiseInit, PromiseStep, PTL
DEF Spec, KeepsPromise, Promise!Spec
=============================================================================
