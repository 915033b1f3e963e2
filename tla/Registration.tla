---------------------------- MODULE Registration ----------------------------
(***************************************************************************)
(* Connections from accept() to close: the PASS, NICK and USER handlers,   *)
(* Server::tryRegisterClient(), the nickname index clientsByNickname and   *)
(* the part of disconnectClient() that releases a nickname.                *)
(*                                                                         *)
(* Server::dispatchCommand() calls tryRegisterClient() after the handler,  *)
(* in the same step, unless the handler throws: processClientBuffer()      *)
(* then asks for the client's disconnection.  Handlers throw when a line   *)
(* they build exceeds 512 bytes; `Long' are the nicknames with which the   *)
(* lines that carry the client's prefix may do so.                         *)
(*                                                                         *)
(* A refused command (431 to 433, 451, 461, 462) changes nothing here and  *)
(* is a step that is not enabled; when its reply does not fit in a line    *)
(* either, its effect is that of RequestDisconnect.                        *)
(***************************************************************************)
CONSTANTS
    Clients,        \* slots for TCP clients (a slot is reused after close)
    Bot, Nobody,    \* the virtual client; no client
    Nicks, NoNick,  \* valid spellings of nicknames; none received yet
    Fold,           \* the RFC 1459 casemapping: IrcCasemap::normalize()
    BotNick,        \* Bot::NICKNAME
    Long            \* nicknames with which a line may exceed 512 bytes

ASSUME ClientsAssumption ==
    Bot \notin Clients /\ Nobody \notin Clients \cup {Bot}

ASSUME NicksAssumption ==
    /\ Fold \in [Nicks -> Nicks]
    /\ NoNick \notin Nicks
    /\ BotNick \in Nicks /\ Long \subseteq Nicks

Users == Clients \cup {Bot}

(* The keys of clientsByNickname.                                          *)
Canonical == {Fold[n] : n \in Nicks}

VARIABLES
    connected,          \* clients of Server::clients
    marked,             \* those with disconnectRequested set
    passwordAccepted,
    nickname,           \* NoNick until nicknameReceived is set
    usernameReceived,
    registered,
    index,              \* Server::clientsByNickname
    told                \* the nickname the client was told it has

vars == <<connected, marked, passwordAccepted, nickname, usernameReceived,
          registered, index, told>>

Init ==
    /\ connected = {}
    /\ marked = {}
    /\ passwordAccepted = [c \in Clients |-> FALSE]
    /\ nickname = [c \in Clients |-> NoNick]
    /\ usernameReceived = [c \in Clients |-> FALSE]
    /\ registered = [c \in Clients |-> FALSE]
    /\ index = [k \in Canonical |-> IF k = Fold[BotNick] THEN Bot ELSE Nobody]
    /\ told = [c \in Clients |-> NoNick]

(* The client may have a command of its own executed.                      *)
Active(c) == c \in connected \ marked

-----------------------------------------------------------------------------
(* Completing the registration.                                            *)

ReadyWithoutUser(c) == passwordAccepted[c] /\ nickname[c] # NoNick

ReadyToRegister(c) ==
    passwordAccepted[c] /\ nickname[c] # NoNick /\ usernameReceived[c]

(* After the handler.  The welcome carries the nickname and the prefix, is *)
(* queued after the flag is set, and may be the line that does not fit.    *)
TryRegister(c) ==
    \/ /\ registered[c] \/ ~ReadyToRegister(c)'
       /\ UNCHANGED <<registered, told, marked>>
    \/ /\ ~registered[c] /\ ReadyToRegister(c)'
       /\ registered' = [registered EXCEPT ![c] = TRUE]
       /\ told' = [told EXCEPT ![c] = nickname'[c]]
       /\ UNCHANGED marked
    \/ /\ ~registered[c] /\ ReadyToRegister(c)'
       /\ nickname'[c] \in Long
       /\ registered' = [registered EXCEPT ![c] = TRUE]
       /\ marked' = marked \cup {c}
       /\ UNCHANGED told

Pass(c, correct) ==
    /\ Active(c) /\ ~registered[c]
    /\ passwordAccepted' = [passwordAccepted EXCEPT ![c] = correct]
    /\ UNCHANGED <<connected, nickname, usernameReceived, index>>
    /\ TryRegister(c)

User(c) ==
    /\ Active(c) /\ ~registered[c]
    /\ usernameReceived' = [usernameReceived EXCEPT ![c] = TRUE]
    /\ UNCHANGED <<connected, passwordAccepted, nickname, index>>
    /\ TryRegister(c)

-----------------------------------------------------------------------------
(* Nicknames.                                                              *)

(* The index without the client's entry.                                   *)
ReleasedNothing(c) == index

Released(c) ==
    [k \in Canonical |->
        IF /\ nickname[c] # NoNick
           /\ k = Fold[nickname[c]]
           /\ index[k] = c
        THEN Nobody ELSE index[k]]

MayTakeFromBot(c, n) == index[Fold[n]] \in {Nobody, Bot, c}

MayTake(c, n) == index[Fold[n]] \in {Nobody, c}

AssignNickname(c, n) ==
    /\ MayTake(c, n)
    /\ nickname' = [nickname EXCEPT ![c] = n]
    /\ index' = [Released(c) EXCEPT ![Fold[n]] = c]

FirstNick(c, n) ==
    /\ Active(c) /\ ~registered[c]
    /\ AssignNickname(c, n)
    /\ UNCHANGED <<connected, passwordAccepted, usernameReceived>>
    /\ TryRegister(c)

(* A registered client and those it shares channels with are told, unless  *)
(* the spelling is the one it has.                                         *)
ChangeNickQuietly(c, n) ==
    /\ Active(c) /\ registered[c] /\ n # nickname[c]
    /\ AssignNickname(c, n)
    /\ told' = [told EXCEPT ![c] =
                   IF Fold[n] = Fold[nickname[c]] THEN @ ELSE n]
    /\ UNCHANGED <<connected, marked, passwordAccepted, usernameReceived,
                   registered>>

ChangeNick(c, n) ==
    /\ Active(c) /\ registered[c] /\ n # nickname[c]
    /\ AssignNickname(c, n)
    /\ told' = [told EXCEPT ![c] = n]
    /\ UNCHANGED <<connected, marked, passwordAccepted, usernameReceived,
                   registered>>

(* The announcement is built, and may throw, after the assignment.         *)
ChangeNickUnannounced(c, n) ==
    /\ Active(c) /\ registered[c] /\ n # nickname[c]
    /\ n \in Long \/ nickname[c] \in Long
    /\ AssignNickname(c, n)
    /\ marked' = marked \cup {c}
    /\ UNCHANGED <<connected, passwordAccepted, usernameReceived, registered,
                   told>>

-----------------------------------------------------------------------------
(* Connecting and disconnecting.                                           *)

Accept(c) ==
    /\ c \notin connected
    /\ connected' = connected \cup {c}
    /\ UNCHANGED <<marked, passwordAccepted, nickname, usernameReceived,
                   registered, index, told>>

(* QUIT, an input or output limit, a socket error, a handler that throws.  *)
RequestedLate(c) ==
    /\ c \notin marked
    /\ marked' = marked \cup {c}
    /\ UNCHANGED <<connected, passwordAccepted, nickname, usernameReceived,
                   registered, index, told>>

RequestDisconnect(c) ==
    /\ Active(c)
    /\ marked' = marked \cup {c}
    /\ UNCHANGED <<connected, passwordAccepted, nickname, usernameReceived,
                   registered, index, told>>

(* The slot is empty again: the Client object is deleted.                  *)
Disconnect(c) ==
    /\ c \in connected
    /\ connected' = connected \ {c}
    /\ marked' = marked \ {c}
    /\ passwordAccepted' = [passwordAccepted EXCEPT ![c] = FALSE]
    /\ nickname' = [nickname EXCEPT ![c] = NoNick]
    /\ usernameReceived' = [usernameReceived EXCEPT ![c] = FALSE]
    /\ registered' = [registered EXCEPT ![c] = FALSE]
    /\ index' = Released(c)
    /\ told' = [told EXCEPT ![c] = NoNick]

Connection(c) == Accept(c) \/ RequestDisconnect(c) \/ Disconnect(c)

Credentials(c) == User(c) \/ \E correct \in BOOLEAN : Pass(c, correct)

Nickname(c, n) ==
    FirstNick(c, n) \/ ChangeNick(c, n) \/ ChangeNickUnannounced(c, n)

Next ==
    \E c \in Clients :
        \/ Connection(c)
        \/ Credentials(c)
        \/ \E n \in Nicks : Nickname(c, n)

Spec == Init /\ [][Next]_vars

-----------------------------------------------------------------------------
(* Properties.                                                             *)

(* Every variable has its type.                                            *)
TypeOK ==
    /\ connected \subseteq Clients
    /\ marked \subseteq connected
    /\ passwordAccepted \in [Clients -> BOOLEAN]
    /\ nickname \in [Clients -> Nicks \cup {NoNick}]
    /\ usernameReceived \in [Clients -> BOOLEAN]
    /\ registered \in [Clients -> BOOLEAN]
    /\ index \in [Canonical -> Users \cup {Nobody}]
    /\ told \in [Clients -> Nicks \cup {NoNick}]

(* The index and the clients agree after any sequence of claims, renames   *)
(* and disconnections: a key leads to the client whose nickname folds to   *)
(* it and to no other, every nickname is found, the bot's included, and no *)
(* entry outlives its client (clientsByNickname holds raw pointers).       *)
IndexExact ==
    \A k \in Canonical :
        /\ index[k] = Bot <=> k = Fold[BotNick]
        /\ \A c \in Clients :
              index[k] = c <=> nickname[c] # NoNick /\ Fold[nickname[c]] = k

(* In whatever order PASS, NICK and USER come and however often, a client  *)
(* is registered exactly when all three have been accepted: none waits     *)
(* with everything given, and a wrong PASS that follows a right one        *)
(* counts.                                                                 *)
RegistrationComplete ==
    \A c \in connected \ marked :
        registered[c] <=> /\ passwordAccepted[c]
                          /\ nickname[c] # NoNick
                          /\ usernameReceived[c]

(* What the client believes its nickname to be is what others reach it by, *)
(* also after a change of case only or a change that was refused.          *)
KnowsOwnNick ==
    \A c \in connected \ marked : registered[c] => told[c] = nickname[c]

(* Seen from outside, the index is a directory of unique names.            *)
Promise == INSTANCE Directory WITH Names <- Canonical, owner <- index,
                                   BotName <- Fold[BotNick]

KeepsPromise == Promise!Spec

=============================================================================
