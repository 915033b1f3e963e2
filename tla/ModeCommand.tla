---------------------------- MODULE ModeCommand -----------------------------
(***************************************************************************)
(* MODE on one channel, from the line a client sends to the line the       *)
(* members read: parseChannelModeOperations(), its validation, its         *)
(* application change by change, the announcement and the reply to a       *)
(* query.  What the changes should add up to is stated in ModeChanges,     *)
(* which Channels builds on.                                               *)
(*                                                                         *)
(* The lines are those whose command is MODE; who is in the channel does   *)
(* not change here.  A numeric reply that refuses the command shows        *)
(* nothing to anybody, so it is a step only when building it throws.       *)
(***************************************************************************)
EXTENDS Naturals, FiniteSets, Sequences, ModeChanges, Message, Casemap

CONSTANTS
    Clients,        \* the clients that are connected and registered
    Nick,           \* the nickname of each of them
    Channel,        \* the name of the channel
    Server,         \* the name of the server
    MaxSize,        \* the greatest size_t
    RequestLines    \* the lines clients send

ASSUME NoKeyIsEmpty == NoKey = <<>>

ASSUME MaxSizeAssumption == MaxSize \in Nat

(* A line is a sequence of characters; Client::extractNextLine().          *)
ASSUME LinesAssumption == RequestLines \subseteq Seq(STRING)

(* A nickname is a word, and no two of them are the same in RFC 1459;      *)
(* isValidNickname(), Server::nicknameIndex.                               *)
ASSUME NickAssumption ==
    \A c \in Clients :
        /\ Nick[c] \in Seq(STRING) /\ IsMiddle(Nick[c])
        /\ \A d \in Clients : equal(Nick[c], Nick[d]) => c = d

(* isValidChannelName(); the name of the server is a constant of the code. *)
ASSUME NamesAssumption ==
    /\ Channel \in Seq(STRING) /\ IsMiddle(Channel)
    /\ Server \in Seq(STRING) /\ IsMiddle(Server)

(* A digit is its own character.                                           *)
Digits == <<"0", "1", "2", "3", "4", "5", "6", "7", "8", "9">>

VARIABLES
    members,        \* Channel::members
    operators,      \* Channel::operators
    modes,          \* inviteOnly, topicRestricted, channelKey, userLimit
    marked,         \* clients with disconnectRequested set
    screen          \* what each member shows of operators and modes

vars == <<members, operators, modes, marked, screen>>

(* Modes are not announced to whoever enters: a client has one picture of  *)
(* them, or none.                                                          *)
Unknown == <<>>

Init ==
    /\ members \in SUBSET Clients \ {{}}
    /\ \E founder \in members : operators = {founder}
    /\ modes = NewModes
    /\ marked = {}
    /\ screen = [c \in Clients |->
                    [operators |-> IF c \in members THEN operators ELSE {},
                     modes |-> Unknown]]

Requests == {params(line) : line \in RequestLines}

(* findClientByNickname()                                                  *)
Found(text) == {c \in Clients : equal(Nick[c], text)}

-----------------------------------------------------------------------------
(* User limits.                                                            *)

IsDigit(ch) == \E d \in DOMAIN Digits : Digits[d] = ch

DigitOf(ch) == (CHOOSE d \in DOMAIN Digits : Digits[d] = ch) - 1

(* parsePositiveUserLimit(): NoLimit when it refuses the text.  A value    *)
(* that does not fit is refused before it is computed.                     *)
Refused == MaxSize + 1

NextDigitOfTen(value, ch) ==
    IF value > MaxSize \div 10
    THEN Refused ELSE (value * 10 + DigitOf(ch)) % (MaxSize + 1)

NextDigit(value, ch) ==
    IF \/ value > MaxSize \div 10
       \/ value = MaxSize \div 10 /\ DigitOf(ch) > MaxSize % 10
    THEN Refused ELSE (value * 10 + DigitOf(ch)) % (MaxSize + 1)

LimitRead(text) ==
    LET value[n \in 0..Len(text)] ==
            IF n = 0 THEN 0
            ELSE IF value[n - 1] = Refused \/ ~IsDigit(text[n]) THEN Refused
            ELSE NextDigit(value[n - 1], text[n])
    IN  value

parsePositiveUserLimit(text) ==
    LET value == LimitRead(text)[Len(text)]
    IN  IF text = <<>> \/ value = Refused THEN NoLimit ELSE value

(* formatUserLimit()                                                       *)
formatUserLimit[limit \in 0..MaxSize] ==
    IF limit < 10 THEN <<Digits[limit + 1]>>
    ELSE Append(formatUserLimit[limit \div 10], Digits[(limit % 10) + 1])

-----------------------------------------------------------------------------
(* Parsing, validation.                                                    *)

modeRequiresArgument(mode, adding) ==
    mode = "o" \/ (mode \in {"k", "l"} /\ adding)

(* One character of the mode string.                                       *)
ParseNext(arguments, state, ch) ==
    LET takes == modeRequiresArgument(ch, state.adding)
        missing == state.used >= Len(arguments)
                      \/ arguments[state.used + 1] = <<>>
        argument == IF takes THEN arguments[state.used + 1] ELSE <<>>
    IN  IF ~state.ok THEN state
        ELSE IF ch = "+" THEN [state EXCEPT !.adding = TRUE]
        ELSE IF ch = "-" THEN [state EXCEPT !.adding = FALSE]
        ELSE IF ch \notin Flags THEN [state EXCEPT !.ok = FALSE, !.unknown = ch]
        ELSE IF takes /\ missing THEN [state EXCEPT !.ok = FALSE]
        ELSE [state EXCEPT !.used = IF takes THEN @ + 1 ELSE @,
                           !.operations = Append(@, [mode |-> ch,
                                                     add |-> state.adding,
                                                     arg |-> argument])]

NothingParsed ==
    [ok |-> TRUE, adding |-> TRUE, used |-> 0, unknown |-> "",
     operations |-> <<>>]

(* What is known after each character of the mode string.                  *)
ParsedUpTo(flags, arguments) ==
    LET state[n \in 0..Len(flags)] ==
            IF n = 0 THEN NothingParsed
            ELSE ParseNext(arguments, state[n - 1], flags[n])
    IN  state

parseChannelModeOperations(request) ==
    ParsedUpTo(request[2], SubSeq(request, 3, Len(request)))[Len(request[2])]

Parsed ==
    [request \in {r \in Requests : Len(r) >= 2} |->
        parseChannelModeOperations(request)]

(* What is wrong with an operation: the numeric reply and its parameter.   *)
Fault(operation) ==
    CASE operation.mode = "o" /\ Found(operation.arg) = {} ->
            <<401, operation.arg>>
      [] operation.mode = "o" /\ Found(operation.arg) # {}
            /\ Found(operation.arg) \cap members = {} ->
            <<441, <<>>>>
      [] operation.mode = "l" /\ operation.add
            /\ parsePositiveUserLimit(operation.arg) = NoLimit -> <<461, <<>>>>
      [] OTHER -> <<>>

(* Validation replaces a nickname by the spelling of its owner and a       *)
(* limit by the digits of its value.                                       *)
Canonical(operation) ==
    CASE operation.mode = "o" ->
            [operation EXCEPT !.arg = Nick[CHOOSE c \in Found(@) : TRUE]]
      [] operation.mode = "l" /\ operation.add ->
            [operation EXCEPT !.arg = formatUserLimit[parsePositiveUserLimit(@)]]
      [] OTHER -> operation

Faults(operations) == {n \in DOMAIN operations : Fault(operations[n]) # <<>>}

Validated(operations) == [n \in DOMAIN operations |-> Canonical(operations[n])]

-----------------------------------------------------------------------------
(* Application.                                                            *)

ApplyOne(channel, operation) ==
    CASE operation.mode = "i" -> [channel EXCEPT !.modes.inviteOnly = operation.add]
      [] operation.mode = "t" ->
            [channel EXCEPT !.modes.topicRestricted = operation.add]
      [] operation.mode = "k" ->
            [channel EXCEPT !.modes.key =
                IF operation.add THEN operation.arg ELSE NoKey]
      [] operation.mode = "l" ->
            [channel EXCEPT !.modes.limit =
                IF operation.add THEN parsePositiveUserLimit(operation.arg)
                                 ELSE NoLimit]
      [] operation.mode = "o" ->
            [channel EXCEPT !.operators =
                IF operation.add THEN @ \cup (Found(operation.arg) \cap members)
                                 ELSE @ \ Found(operation.arg)]

(* The channel after each operation.                                       *)
AppliedUpTo(operations) ==
    LET channel[n \in 0..Len(operations)] ==
            IF n = 0 THEN [modes |-> modes, operators |-> operators]
            ELSE ApplyOne(channel[n - 1], operations[n])
    IN  channel

applyChannelModeOperations(operations) ==
    AppliedUpTo(operations)[Len(operations)]

-----------------------------------------------------------------------------
(* What is sent.                                                           *)

Sign(operation) == IF operation.add THEN "+" ELSE "-"

(* notifyChannelModeChanges(): a sign only where it changes, an argument   *)
(* only where the mode takes one.                                          *)
SignedOnce(operations, n) ==
    IF n > 1 THEN <<operations[n].mode>>
    ELSE <<Sign(operations[n]), operations[n].mode>>

Signed(operations, n) ==
    IF n > 1 /\ Sign(operations[n]) = Sign(operations[n - 1])
    THEN <<operations[n].mode>>
    ELSE <<Sign(operations[n]), operations[n].mode>>

Arguments(operations) ==
    LET taking == InOrder({n \in DOMAIN operations :
                     modeRequiresArgument(operations[n].mode, operations[n].add)})
    IN  [n \in DOMAIN taking |-> operations[taking[n]].arg]

Announcement(c, operations) ==
    LET flags == FlattenSeq([n \in DOMAIN operations |-> Signed(operations, n)])
    IN  serialize(Nick[c], <<"M", "O", "D", "E">>,
                  <<Channel, flags>> \o Arguments(operations), FALSE)

(* sendChannelModeIs(): RPL_CHANNELMODEIS                                  *)
ModeIs(c) ==
    LET flags == <<"+">> \o (IF modes.inviteOnly THEN <<"i">> ELSE <<>>)
                        \o (IF modes.topicRestricted THEN <<"t">> ELSE <<>>)
                        \o (IF modes.key # NoKey THEN <<"k">> ELSE <<>>)
                        \o (IF modes.limit # NoLimit THEN <<"l">> ELSE <<>>)
        values == (IF modes.key # NoKey THEN <<modes.key>> ELSE <<>>)
                     \o (IF modes.limit # NoLimit
                         THEN <<formatUserLimit[modes.limit]>> ELSE <<>>)
    IN  serialize(Server, <<"3", "2", "4">>,
                  <<Nick[c], Channel, flags>> \o values, FALSE)

(* A numeric reply with a parameter that others follow.                    *)
NumericThrows(c, parameter) ==
    serialize(Server, <<"4", "0", "1">>, <<Nick[c], parameter, <<"n", "o">>>>,
              TRUE) = Throws

-----------------------------------------------------------------------------
(* What a client makes of a line: the changes it announces, each letter    *)
(* under the sign before it, with the arguments in the order of the        *)
(* letters that take one.                                                  *)

SignBefore(flags, i) ==
    LET signs == {j \in 1..(i - 1) : flags[j] \in {"+", "-"}}
    IN  IF signs = {} THEN "+" ELSE flags[Max(signs)]

Letters(flags) == {i \in DOMAIN flags : flags[i] \notin {"+", "-"}}

TakesArgument(flags, i) ==
    flags[i] = "o" \/ (flags[i] \in {"k", "l"} /\ SignBefore(flags, i) = "+")

ArgumentAt(flags, texts, i) ==
    LET n == Rank({j \in Letters(flags) : TakesArgument(flags, j)}, i)
    IN  IF TakesArgument(flags, i) /\ n <= Len(texts) THEN texts[n] ELSE <<>>

ChangesIn(flags, texts) ==
    LET order == InOrder(Letters(flags))
    IN  [n \in DOMAIN order |->
            [mode |-> flags[order[n]],
             add |-> SignBefore(flags, order[n]) = "+",
             arg |-> ArgumentAt(flags, texts, order[n])]]

(* The number that a text of digits writes, however long.                  *)
NumberRead(text) ==
    LET value[n \in 0..Len(text)] ==
            IF n = 0 THEN 0 ELSE value[n - 1] * 10 + DigitOf(text[n])
    IN  value

Number(text) == NumberRead(text)[Len(text)]

(* The same changes with the client and the number that the texts mean.    *)
Meaning(change) ==
    CASE change.mode = "o" ->
            [change EXCEPT !.arg = CHOOSE c \in Found(@) : TRUE]
      [] change.mode = "l" /\ change.add -> [change EXCEPT !.arg = Number(@)]
      [] OTHER -> change

Meant(flags, texts) ==
    LET changes == ChangesIn(flags, texts)
    IN  [n \in DOMAIN changes |-> Meaning(changes[n])]

Heard(line) == params(SubSeq(line, 1, Len(line) - 2))

Reads(picture, changes) ==
    [operators |-> OperatorsAfter(changes, members, picture.operators),
     modes |-> IF picture.modes = Unknown THEN Unknown
               ELSE <<ModesAfter(changes, picture.modes[1])>>]

ReadsReply(picture, line) ==
    LET heard == Heard(line)
        changes == Meant(heard[3], SubSeq(heard, 4, Len(heard)))
    IN  [picture EXCEPT !.modes = <<ModesAfter(changes, NewModes)>>]

Blank == [operators |-> {}, modes |-> Unknown]

-----------------------------------------------------------------------------
(* handleMode()                                                            *)

(* queueMessageToChannel(), and what queueMessage() leaves out.            *)
AudienceEverybody == Clients \ marked

Audience == members \ marked

(* The exception costs the sender its connection.                          *)
Throw(c) ==
    /\ marked' = marked \cup {c}
    /\ screen' = [screen EXCEPT ![c] = Blank]

(* The line is a command for this channel.                                 *)
Asks(c, request) ==
    /\ c \notin marked
    /\ request # <<>>
    /\ equal(request[1], Channel)

IsQuery(request) == Len(request) >= 2 => request[2] = <<>>

QueryModes(c, request) ==
    /\ Asks(c, request)
    /\ IsQuery(request)
    /\ IF ModeIs(c) = Throws THEN Throw(c)
       ELSE /\ screen' = IF c \in members
                         THEN [screen EXCEPT ![c] = ReadsReply(@, ModeIs(c))]
                         ELSE screen
            /\ UNCHANGED marked
    /\ UNCHANGED <<members, operators, modes>>

(* Another target that is a channel name: 403 repeats it.                  *)
NoSuchChannel(c, request) ==
    /\ c \notin marked
    /\ request # <<>>
    /\ request[1] # <<>> /\ request[1][1] = "#"
    /\ ~equal(request[1], Channel)
    /\ NumericThrows(c, request[1])
    /\ Throw(c)
    /\ UNCHANGED <<members, operators, modes>>

MayChange(c, request) ==
    /\ Asks(c, request)
    /\ ~IsQuery(request)
    /\ c \in members
    /\ c \in operators

(* 472 repeats the letter, 401 the nickname.                               *)
RefuseTheRest(c, request) ==
    /\ MayChange(c, request)
    /\ Parsed[request].ok
    /\ LET operations == Parsed[request].operations
           faults == Faults(operations)
       IN  /\ faults # {}
           /\ LET channel == applyChannelModeOperations(
                      Validated(SubSeq(operations, 1, Min(faults) - 1)))
              IN  modes' = channel.modes /\ operators' = channel.operators
    /\ UNCHANGED <<members, marked, screen>>

RefuseChange(c, request) ==
    /\ MayChange(c, request)
    /\ LET parsed == Parsed[request]
           faults == Faults(parsed.operations)
       IN  \/ /\ ~parsed.ok /\ parsed.unknown # ""
              /\ NumericThrows(c, <<parsed.unknown>>)
           \/ /\ parsed.ok /\ faults # {}
              /\ Fault(parsed.operations[Min(faults)])[1] = 401
              /\ NumericThrows(c, Fault(parsed.operations[Min(faults)])[2])
    /\ Throw(c)
    /\ UNCHANGED <<members, operators, modes>>

Accepted(request) ==
    Parsed[request].ok /\ Faults(Parsed[request].operations) = {}

Operations(request) == Validated(Parsed[request].operations)

(* notifyChannelModeChanges() has nothing to say of no operations.         *)
Change(c, request) ==
    /\ MayChange(c, request)
    /\ Accepted(request)
    /\ Operations(request) # <<>>
    /\ LET operations == Operations(request)
           channel == applyChannelModeOperations(operations)
           line == Announcement(c, operations)
       IN  /\ modes' = channel.modes
           /\ operators' = channel.operators
           /\ IF line = Throws THEN Throw(c)
              ELSE /\ LET heard == Heard(line)
                          changes == Meant(heard[2],
                                           SubSeq(heard, 3, Len(heard)))
                      IN  screen' = [d \in Clients |->
                              IF d \in Audience
                              THEN Reads(screen[d], changes) ELSE screen[d]]
                   /\ UNCHANGED marked
    /\ UNCHANGED members

handleMode(c, request) ==
    \/ QueryModes(c, request) \/ NoSuchChannel(c, request)
    \/ RefuseChange(c, request) \/ Change(c, request)

Next == \E c \in Clients, request \in Requests : handleMode(c, request)

Spec == Init /\ [][Next]_vars

-----------------------------------------------------------------------------
(* Every variable has its type: a limit in force is one that size_t holds, *)
(* whoever is an operator is a member, and a client that is no member is   *)
(* told nothing of the channel.                                            *)
TypeOK ==
    /\ members \subseteq Clients /\ operators \subseteq members
    /\ DOMAIN modes = {"inviteOnly", "topicRestricted", "key", "limit"}
    /\ modes.inviteOnly \in BOOLEAN /\ modes.topicRestricted \in BOOLEAN
    /\ modes.limit \in 0..MaxSize
    /\ marked \subseteq Clients
    /\ \A c \in Clients : screen[c].operators \subseteq members
    /\ \A c \in Clients \ members : screen[c] = Blank

(* A request that a reader of the protocol would accept: every letter is a *)
(* mode, no argument is missing, names belong to members and limits are    *)
(* positive numbers that fit.                                              *)
IsLimit(text) ==
    /\ text # <<>> /\ \A i \in DOMAIN text : IsDigit(text[i])
    /\ Number(text) \in 1..MaxSize

Acceptable(change) ==
    /\ change.mode \in Flags
    /\ change.mode = "o" => Found(change.arg) \cap members # {}
    /\ change.mode = "k" /\ change.add => change.arg # <<>>
    /\ change.mode = "l" /\ change.add => IsLimit(change.arg)

(* Whatever the signs, letters and arguments, a MODE command is accepted   *)
(* exactly when all its changes are acceptable, and then the channel has   *)
(* after it what the changes add up to; a limit is the number written or   *)
(* refused (parseChannelModeOperations, validateChannelModeOperations,     *)
(* applyChannelModeOperations, parsePositiveUserLimit).                    *)
AsAsked ==
    \A request \in {r \in Requests : ~IsQuery(r)} :
        LET texts == SubSeq(request, 3, Len(request))
            changes == ChangesIn(request[2], texts)
            meant == Meant(request[2], texts)
            channel == applyChannelModeOperations(Operations(request))
        IN  /\ Accepted(request) <=>
                  \A n \in DOMAIN changes : Acceptable(changes[n])
            /\ Accepted(request) =>
                  /\ channel.modes = ModesAfter(meant, modes)
                  /\ channel.operators =
                        OperatorsAfter(meant, members, operators)

(* No command takes effect in part: whenever the channel changes, there is *)
(* an operator whose connection is not being closed, and a request of      *)
(* which every change is acceptable and whose changes, all of them, make   *)
(* the difference (handleMode validates the whole list before it applies   *)
(* the first operation).                                                   *)
Explains(request) ==
    LET texts == SubSeq(request, 3, Len(request))
        changes == ChangesIn(request[2], texts)
        meant == Meant(request[2], texts)
    IN  /\ \A n \in DOMAIN changes : Acceptable(changes[n])
        /\ modes' = ModesAfter(meant, modes)
        /\ operators' = OperatorsAfter(meant, members, operators)

NeverInPart ==
    [][<<modes, operators>>' # <<modes, operators>> =>
          /\ operators \ marked # {}
          /\ \E request \in {r \in Requests : ~IsQuery(r)} :
                Explains(request)]_vars

(* What the members show of the modes and of the operators, from replies   *)
(* to queries and from announcements, is what the channel has              *)
(* (sendChannelModeIs, notifyChannelModeChanges).                          *)
ScreensRight ==
    \A c \in members \ marked :
        /\ screen[c].operators = operators
        /\ screen[c].modes \in {Unknown, <<modes>>}

(* A MODE command is answered and does not cost the connection.            *)
SenderStays == marked = {}

=============================================================================
