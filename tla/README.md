# A verification project for ft_irc

TLA+ models of the IRC server in `src/`, checked with TLC and, where the
prover can follow, proved with TLAPS. All paths below are relative to the root
that holds `src/` and `tla/`; the server's code is `src/src/` and `src/inc/`.

The server is one C++98 process with one thread. `Server::run()` waits in
`poll()`, reads lines, executes commands and queues replies; nothing else runs
concurrently with it but its peers, the kernel and one signal handler that
sets a flag. So a command is one atomic step, and what is hard is not locking
but order: commands of many clients in any order, output that is delivered
later, clients that die in the middle of being talked to, descriptors erased
from the vector that is being traversed, and exceptions that leave a handler
half done.

## 1. Inventory

| Component | State | Operations | Interacts with |
|---|---|---|---|
| Event loop (`Server.cpp:126-228, 1189-1310`) | `pollFds` with events and revents, loop index, listening on or paused | poll, accept, receive, flush, disconnect in the pass, sweep | kernel, every client's buffers, all commands |
| Output queue (`Server.cpp:1321-1552`) | `outputBuffer` of each client, POLLOUT | `queueMessage`, broadcast to a channel or to related clients, `flushClientOutput` | every handler; marks clients that exceed 64 KiB |
| Input framing (`Client.cpp:243`, `Server.cpp:920, 1593`) | `inputBuffer` | `receiveClientData`, `extractNextLine`, `processClientBuffer` | dispatches commands, catches what they throw |
| Parsing, serialization (`MessageParser.cpp`, `IrcMessage.cpp`) | none | `parse`, `serialize` (throws above 512 bytes) | every handler |
| Registration, nickname index (`Server.cpp:373-470, 1010-1179`, `CommandDispatcher.cpp:235-343`) | flags and nickname of `Client`, `clientsByNickname` | PASS, NICK, USER, `tryRegisterClient` | looked up by INVITE, KICK, MODE, PRIVMSG |
| Channels (`Channel.cpp`, `Server.cpp:505-832`, `CommandDispatcher.cpp:462-1065`) | `channels`, each with members, operators, invitations, modes, topic, history; `joinedChannels` of each client | JOIN, PART, INVITE, KICK, TOPIC, detach on disconnect | bot, output queue |
| Channel modes (`CommandDispatcher.cpp:13-69, 1079-1436`) | invite-only, topic-restricted, key, limit | MODE: parse, validate, apply, announce | channels |
| Messages, history (`CommandDispatcher.cpp:1447-1615`, `Channel.cpp:266`) | `history` | PRIVMSG, NOTICE, replay on JOIN | channels, bot |
| Bot (`Bot.cpp`) | a virtual `Client`, its home channel | joins where invited, answers mentions and CTCP | channels, messages, index |
| Signals, shutdown (`SignalHandler.cpp`, `Server.cpp:1688`) | a flag | handler; `closeAllFds` | event loop |
| Casemapping, limits, clipping (`IrcCasemap.cpp`, `CommandDispatcher.cpp:34`, `Bot.cpp:467`) | none | pure functions | index, channels, modes, bot |
| PING, PONG, CAP; numerics; console; `main.cpp` | none | stateless replies, texts, start-up | - |

What makes each correct:

* **Event loop**: every descriptor that `poll()` reports is served in the round
  although descriptors are erased meanwhile; nothing is kept of a closed
  descriptor, whose number is reused; POLLOUT is set exactly while there is
  output; a marked client is removed; accepting resumes; a signal ends the
  process with everything closed.
* **Registration**: a nickname (up to case) leads to the one client that has it;
  nobody takes another's, not even the bot's; a client is registered exactly
  when all three parts were accepted, and knows its own nickname.
* **Channels**: the five structures that record who is where agree after every
  command and after every disconnection; a channel exists while it has members
  and no longer; operator rights come from founding or from operators; limits
  and invitations hold on entry; every member's picture of its channels, built
  from the lines it is sent, is right.
* **Modes, framing, parsing, limits, clipping**: functions of their input, to be
  compared with a reference definition.

## 2. Modules

| Module | Models | Status |
|---|---|---|
| `Channels` | channels, modes (their effect), membership, the bot's part in them | checked, proved |
| `ModeChanges` | what a list of MODE changes makes of a channel; used by `Channels` and `ModeCommand` | checked through both |
| `Rooms` | abstract: rooms with chairs | implemented by `Channels` |
| `ChannelsProofs` | theorems on `Channels` | proved |
| `ModeCommand` | MODE from the line a client sends to the line the members read | checked, proved |
| `ModeCommandProofs` | theorems on parsing, validating and applying it | proved |
| `Message` | text of a message: parameters of a line, `serialize()` and when it throws | checked through `ModeCommand`, `BotText`; proved |
| `MessageProofs` | `parse()` reads what `serialize()` writes | proved |
| `Casemap` | the RFC 1459 table | checked through `Registration`, `ModeCommand` |
| `BotText` | the bot's clipping of what it says | checked, proved |
| `ReplyProofs` | theorems on what MODE and the bot send: its readers read what was meant | proved |
| `Registration` | connections, PASS/NICK/USER, the nickname index | checked, proved |
| `Directory` | abstract: unique reserved names | implemented by `Registration` |
| `RegistrationProofs` | theorems on `Registration` | proved |
| `EventLoop` | `run()`, accept, poll set, buffers, sweep, shutdown | checked, proved |
| `EventLoopProofs` | theorems on `EventLoop` | proved |
| `Connection` | one client's bytes: framing of the input, the output buffer | checked, proved |
| `Pipe` | abstract: a stream | implemented by `Connection` |
| `ConnectionProofs` | theorems on `Connection` | proved |
| `Conversation` | PRIVMSG, NOTICE, history, replay, overflow, the bot's answers | checked, proved |
| `ConversationProofs` | theorems on `Conversation` | proved |
| `MCChannels`, `MCRegistration`, `MCEventLoop`, `MCConversation`, `MCModeCommand`, `MCConnection` | constants of the instances | - |

How they fit together: `Connection` says which lines reach the dispatcher and
that queued lines arrive; `EventLoop` when each client's turn is; `Registration`
whose command it is; `Channels`, `ModeCommand` and `Conversation` what the
commands do. `Message` and `Casemap` are the functions they share.

### Channels

Variables are the code's: `live` (keys of `Server::channels`), `members`,
`operators`, `invited`, `modes`, `topic` (fields of `Channel`), `joined`
(`Client::joinedChannels`), `marked` (`disconnectRequested`), `stage` (how far
a connection is), and one history variable, `view`: what a conforming client
shows for each channel after all lines queued to it. One action per command:
`Join`, `Part`, `InviteClient`, `InviteBot`, `Kick`, `ChangeTopic`,
`ChangeModes`, `Disconnect`, and `Connect`, `Register`, `RequestDisconnect` for
what channels need of a connection.

Abstractions. A refused command only queues a numeric reply, so it is not a
step. JOIN and PART of a list are successions of single steps: the code treats
list elements independently and no other client's command can come between them
that could not also come after. A receiver whose output limit is reached is
marked by a step of its own, `RequestDisconnect`. A MODE command carries a
sequence of changes (`ModeRequests`, chosen by the instance) and takes effect
through `ModesAfter` and `OperatorsAfter`. The code applies the changes one
after the other; the module states the outcome (the latest change of a flag
counts). When a TOPIC or MODE line does not fit in 512 bytes `serialize()`
throws after the change was stored: `ChangeTopicUnannounced` and
`ChangeModesUnannounced`, enabled through `Overlong`. So does an INVITE of the bot
that stores the invitation and then cannot be answered: the bot stays invited and
does not join (`InviteBotUnanswered`).

### Registration

`connected`, `marked`, `passwordAccepted`, `nickname`, `usernameReceived`,
`registered`, `index` (`clientsByNickname`), and the history variable `told`:
the nickname the client was last told it has (001 or its own NICK line). The
casemapping is a constant function `Fold` on spellings; the proofs need nothing
of it but its type. `TryRegister` is part of every PASS, NICK and USER step, as
`dispatchCommand()` calls it after the handler. `Long` holds nicknames with
which the welcome or the NICK line may exceed 512 bytes: the handler then throws
after `setRegistered(true)` or after the assignment, and the client is marked.

### EventLoop

The control of `run()`: `pc` (poll, accept, input, output, drop, sweep,
closing, stopped, failed) and `index`, over `fds` (`pollFds` without the
listening socket). `revents` is the snapshot `poll()` took; an entry is emptied
when its descriptor has been served (the code does not look at it again in that
pass), so that `RoundComplete` can say that nobody was skipped. Peers, the
kernel and the signal act between any two steps: `Arrive`, `Say`, `HangUp`,
`Read`, `Signal`. A command is reduced to its effect on buffers and marks: some
lines to some clients (`ReceiveCommand`, any audience), or its sender marked
(`ReceiveQuit`). `Fail` is the exception that leaves `disconnectClient()` and
`run()`. Left out: `poll()` failing with another error than EINTR, errors
on the listening socket and POLLNVAL (they end the process or cannot happen while
`pollFds` holds open descriptors only), transient errors of `recv()` and
`send()` (nothing changes).

### Conversation

One channel: `members`, `history` (`Channel::messageHistory`), `backlog` (lines in
each `outputBuffer`), `marked`, `stage`, and the history variable `window`: for
each client the conversation it has been sent since it joined, replay included
(`said`), and everything it saw live, notices and the bot's lines included
(`live`). A client is taken to show its own line when the server accepts it. All
lines one handler queues to one client are queued at once by `Queue`, which
keeps those that fit and marks the client otherwise; a marked client is sent
nothing more. Texts are what the bot tells apart: talk, a question (a leading
`!` or a mention), a CTCP request it knows and one it does not. What changes
membership is there because it queues lines and starts, ends or empties windows
(`Join`, `Part`, `Kick`, `InviteBot`, `Disconnect`). PRIVMSG to a nickname reaches
whoever has one (`Pass`), the bot answers it in private (`AskBot`), and every
refusal is a numeric reply to the sender (`Refuse`); a message that
`serialize()` finds too long throws before anything is stored, which is a
`RequestDisconnect`. The bot's own lines and NOTICE are not in the history, so a
late member does not see them: `SameStory` is about what clients say.

### ModeCommand, Message, BotText

A text is a sequence of characters, so that parsing, spelling, length and
serialization are those of the code. `ModeCommand` has the `members`,
`operators` and `modes` of one channel, `marked`, and the history variable
`screen`: operators and modes as a member that parses the announcements knows
them (it learns of the modes with the first announcement or reply to a query).
A request passes through the stages of `handleMode()`:
`parseChannelModeOperations` (a recursive function along the mode string), `Faults` and
`Validated` (validation stops at the first fault, and replaces a nickname by its
owner's spelling and a limit by its digits), the application change by change,
and the line that `serialize()` makes of the operations. `AsAsked` compares the
result with `ModesAfter` of `ModeChanges`, which is what `Channels` uses: the
two models of MODE meet there. `NeverInPart` looks at the steps instead: whatever changes
is the whole outcome of one acceptable request, so a fault in a later change leaves
the earlier ones unapplied. An operator is added under the guard of
`Channel::addOperator()`, members only, and a line reaches members that are not marked (`Audience`). `parsePositiveUserLimit` computes modulo
`MaxSize` + 1, as a `size_t` does. The set of request lines is a constant;
computations that depend on a line only are constant functions, which TLC
evaluates once.

What the module assumes of its constants is what the code guarantees of them: a
line is a sequence of characters (`LinesAssumption`); a nickname is a word and no
two clients have the same one up to case (`NickAssumption`: `isValidNickname()`,
the index); channel and server name are words (`NamesAssumption`:
`isValidChannelName()`, a constant of the code); the terminator has two
characters (`LineAssumption`). "Word" is `IsMiddle`: not empty, no space, no
colon in front.

`BotText` states that `clipTrailing()` is right (`AnswerFits`, `AnswersFit`);
`MCModeCommand` has TLC evaluate it in every state for the prefixes around which
a line is full. It assumes that the bot's prefix is not empty and has no space
(nick, user and host are constants of the code).

### Connection

One client: `stream` is all its peer will ever send, `taken` how much of it
`recv()` has returned, `inputBuffer` and `extracted` (lines with the place of
their LF) what became of it; `said` numbers the bytes that were queued,
`outputBuffer`, `kernel` and `received` are where they are now. `phase` is where
the loop is with this client: waiting (`idle`), in `processClientBuffer()`
(`lines`), about to close (`drop`), `closed`. `Receive` takes any piece up to
`RECEIVE_BUFFER_SIZE`, `Send` any piece up to `MAX_SEND_SIZE`. What a line makes
the server do is reduced to what the connection notices of it: nothing, lines
queued to the sender, or the end of the connection; other clients queue lines
between rounds (`Hear`).

## 3. Runs

| Run | Instance | Shows |
|---|---|---|
| `channels_rooms` | 3 clients, bot, home channel and one more, all grants and revocations of operator rights, 3 topics | memberships, rights, topics and every screen right; `Rooms` implemented |
| `channels_access` | 2 clients, every mode, 1 key, limits 1 and 2, TOPIC, MODE and INVITE lines that may not fit | types, erased channels blank, admission, nobody misled but by an unannounced TOPIC or MODE |
| `registration` | 3 clients, 5 spellings of 3 names (one too long, two of the bot's) under `Casemap` | the index, registration, own nickname; `Directory` implemented |
| `event_loop` | 3 connections, buffer of 2, bursts of 2, kernel takes 1, signal, long QUIT | poll set, events and buffers agree at every step; no descriptor is skipped in pass or sweep; nothing is queued behind a line that did not fit |
| `event_loop_progress` | 2 connections, buffer of 1, closing peers, signal, fairness | marked clients leave, input is served, shutdown completes |
| `connection` | every stream of up to 5 bytes of {ordinary, CR, LF}, lines of 3, pieces of 2, lines of 1 and 3 bytes queued | lines and verdicts independent of fragmentation; `Pipe` implemented; delivery |
| `mode_command` | 2 clients, some 150 MODE lines of every shape, `size_t` of 0..25 | a MODE takes effect as written and never in part; screens right; the bot's lines fit |
| `conversation` | 2 clients and the bot, buffer of 3, history of 2, three kinds of text | one conversation and one order for early and late members, answers behind questions, life of the history |
| `accept_paused` (violation) | `accept()` may fail with nobody connected | accepting is never resumed |
| `quit_too_long` (violation) | a QUIT line above 512 bytes | `run()` ends with an exception |
| `history_replayed` (violation) | a history longer than the output buffer | whoever joins is disconnected |
| `mode_unanswered` (violation) | a key that only a last parameter can be, and a limit | a MODE query disconnects whoever asks |

Bounds. Two clients and the bot are what the properties of one channel relate;
the third is the bystander whose screen must be right when two others act on
each other, and the operator who is left when two change places. One channel
besides the home channel is enough for founding, erasing and reuse of a name;
the home channel is there for the bot. A user limit of 1 and 2 with up to three
members is below, at and above every boundary. In the loop, the erase-while-traversing cases need a descriptor before and one
after the erased one, hence three connections (without peers that close, which
two connections have in `event_loop_progress`). A buffer of two lines is empty,
partly filled and full; a kernel that takes one line makes every longer flush
partial. `MaxWaiting` = 1 because the loop accepts at most one connection a round.
Five bytes hold an overlong line, complete or not, before or after a complete
one, CR at every place of a line, and empty lines; pieces of two cut all of them
at every place. Line, piece and input limit (3, 2, 4) keep the relation of
512, 4096 and 8192 that matters: what is kept of an unfinished line and one
piece just fit. Output of 4 takes a line of 3 and one of 1, not two of 3;
`MaxSaid` ends the queueing. A `size_t` of 0..25 has a greatest value whose last
digit matters (25, 26, 29) like the real one's, and `MaxLine` = 100 lets a
prefix reach it.
In `conversation` a buffer of 3 takes a JOIN with a full replay and overflows
with anything left unread; `MaxHistory` = 2 has an order to get wrong, and
`MaxWindow` = 3 (`WindowsOpen`) holds a question, its answer and one line more.
CHECK_DEADLOCK is FALSE where the server stops.

Fairness. `WF_vars(Run)`: the thread is scheduled, `poll()` returns when a
descriptor is ready and none of the calls in a round blocks (all sockets are
non-blocking). Nothing is assumed of the peers but in `AttentiveSpec`, which
`MarkedLeave` needs: peers read. Without it a client that the sweep marks after
having passed it, because it overflowed on the QUIT of another, stays while
`poll()` times out, as a timeout skips the sweep; it is only removed with the
next descriptor that becomes ready. `Connection` assumes that the loop goes on
taking lines from a buffer, that `poll()` reports room and the peer reads; a
stream is finite, so input cannot keep output from its turn.

## 4. Findings

Each is a violation run; details are in PROJECT.json.

1. When `accept()` fails with no client connected the listening socket is
   disarmed for good.
2. `disconnectClient()` builds the QUIT line outside any `try`; when prefix and
   reason exceed 512 bytes the exception ends the server.
3. The history is not bounded and JOIN replays it at once, so that a history
   above 64 KiB disconnects every client that joins, until the channel is empty.
4. A key given as last parameter may contain a space or begin with a colon. With
   a user limit besides, the reply to a MODE query puts the key before the limit,
   `serialize()` throws, and whoever asks is disconnected.

Three more facts to know, without a run of their own. A TOPIC is stored, and a MODE
applied, before the line that announces it is built; with the prefix of its sender
that line may exceed 512 bytes, `serialize()` throws, and the change is in force while
no member is told (`ChangeTopicUnannounced`, `ChangeModesUnannounced`), though the
comments at `CommandDispatcher.cpp:1042` and `1351` say that the members are notified.
`channels_access` checks how far that goes, `OnlySilenceMisleads`: that very change
misleads the members of that channel about it, no other step misleads anybody, and
none about who is in a channel. `ScreensExact`, checked in `channels_rooms`
where every line fits, does not hold there. And a marked client may
linger as said under fairness.

## 5. Proofs

`ChannelsProofs` proves, for any clients, channels, keys, limits, topics and mode
requests that satisfy the assumptions of `Channels`: `TypeOK`,
`MembershipInSync`, `NothingDangling`, `ChannelsInhabited`, `BotRulesHome`,
`NoSelfPromotion`, `AdmissionRespected`, `ScreensExact` (whose parts are `RosterExact`,
`OperatorsExact` and `TopicExact`), `OnlySilenceMisleads`, and that `Channels`
implements `Rooms`. None of the first five is inductive alone: a member who
leaves must be found in `joined` to be removed everywhere, the channel map
decides whether leaving erases a channel, the bot's membership keeps the home
channel from being erased. Their conjunction, `MapInv`, is inductive, with one
lemma for each way a channel changes (entering, leaving, erasing, detaching).
`RosterExact` is inductive relative to `MapInv`. The action properties and
the refinement follow from `MapInv` step by step.

`RegistrationProofs` proves `TypeOK`, `IndexExact` (inductive with `TypeOK`),
`RegistrationComplete` and `KnowsOwnNick` (which need besides that a slot
without connection is blank), and that the index implements `Directory`.

`ConversationProofs` proves `TypeOK` (no buffer exceeds its limit), `SameStory`,
`AnswersFollowQuestions` and `HistoryKept`, for any clients, texts and limits. The
first three are inductive (the last two relative to `TypeOK`): a step changes what
a client was told and what the channel stores by the same line, or the client is
marked and no longer counts. `HistoryKept` needs besides that an empty channel has
no history.

`ConnectionProofs` proves, for any alphabet, streams and limits that satisfy the
assumptions of `Connection`, `TypeOK`, `LinesAsSent` and `VerdictByContent`, and
that `Connection` implements `Pipe`. For the input the inductive invariant is
`Framed`: while the connection lives the buffer is the stream between the last
LF extracted and what was taken, and between rounds it holds no LF and less than
a line. The last part is what makes `recv()` fit (`MaxLine` - 1 + `MaxChunk` <=
`MaxInput`) and a verdict "too long" mean `MaxLine` bytes without LF. For the
output it is `Accounted`: read, in the kernel and buffered are three
consecutive parts of what was said, all of it until the connection is closed.
`Moved` is the one lemma behind a send and a read.

`EventLoopProofs` proves, for any number of clients, any limits and any faults,
the safety properties of `event_loop`. `Sound` is inductive and implies `TypeOK`,
`NothingLeftBehind` and `WritesWhenNeeded`: the vector has no descriptor twice, so
that erasing one place removes a client altogether (`Erased`, `ErasedDistinct`);
what is buffered, marked or reported belongs to somebody connected, POLLOUT and
output go together, and accepting and closing begin with the index at the first
place (`Ready`). `Served` says how far the pass has come - who stands before
the index has no event left - and gives `RoundComplete`; `Swept` says the same of the sweep: who is
marked before the index has a full buffer. Erasing at the index keeps both,
because only later places move. `NothingAfterOverflow` follows from `Sound`: only queueing
makes a buffer longer, and it passes over the marked. `PausedForClients` needs that "accept" is not
among the faults, which is what finding 1 is about.

### The screens of `Channels`

`OperatorsExact` and `TopicExact` hold only as long as the announcements fit
(`"MODE" \notin Overlong`, `"TOPIC" \notin Overlong`), and that is how they, and with
them `ScreensExact`, are proved. `MisledBySilenceOnly` is the general form, the property
`OnlySilenceMisleads`: whatever is overlong, and for each client and each channel, a screen that
is right becomes wrong by an unannounced change of that channel and by no other step. `StepOperators`
needs `RosterExact`: a MODE line names a client, and a reader can only apply it to
the members it shows.

### One order of lines

`OneOrder` compares the ends of any two windows. That is inductive relative to `TypeOK`: `Queue` adds
the same lines to both, or marks one of the two, or one of them begins anew; the
lemmas about `InStep` say that appending to two sequences of which one ends with the other
keeps it so.

### MODE

`ModeCommandProofs` proves `TypeOK`, `AsAsked` and `NeverInPart` for any clients, nicknames,
request lines and width of `size_t`. The argument goes along the code:

* `ParsedAsRead`: the recursive parse of the mode string finds exactly the changes
  that a reader finds by looking at letters, signs and ranks. Its induction
  (`ParsedWellNext`) says after each character which sign is in force, how many
  arguments are used and which changes are known.
* `AcceptedExact`: validation accepts exactly what is `Acceptable`.
* `AppliedAsMeant`: applying changes one after the other gives what `ModesAfter`
  and `OperatorsAfter` say of the list: the latest change of a flag decides. One
  lemma for each kind of change (`FlagOneMore`, `ArgOneMore`, `OperatorsOneMore`).
* `LimitExact`, `LimitSurvives`: `parsePositiveUserLimit()` returns the number that
  a text of digits writes, however long, or refuses it when it does not fit, so the
  test before the multiplication is right for every `MaxSize`; and a limit written
  by `formatUserLimit()` is parsed back as itself.

`Inv`, the inductive invariant, is little more than types: a limit in force fits `size_t`,
operators are members, pictures are records about members, and who is no member has
none. `NeverInPart` follows from it and from what `AsAsked` says of the one action that
changes the channel.

The induction principles of the library take an operator as parameter, which no
prover here can instantiate. These proofs use a first-order form instead:
`Induction` and `InductionUpTo` (`MessageProofs`) say it of a set of numbers, and
`RecursionExists` says that a function with given steps exists, so that a recursive
definition equals it. What follows is by induction over the length of a text.

### What readers read

`MessageProofs` proves `ReadBack`: for any prefix, command and parameters, if
`serialize()` returns a line, `parse()` of that line returns those parameters. Along the
parameters: a line that ends in a word reads as before with one more (`ReadsMore`);
a colon makes the rest the last parameter, whatever it contains (`ReadsLast`).

`ReplyProofs` proves `ScreensRight` for every member, under one hypothesis about the
behaviour: the announcement of what may be changed now is not too long
(`AnnouncementsFit`). The code does not ensure it (section 4), and without it the
property is false: a change that is not announced leaves screens as they
were. That the announcement can be written otherwise, that is to say that no argument
in it needs a colon unless it is the last, is not assumed but proved
(`ArgumentsMiddle`): an argument that is followed by another in the announcement was
followed by another in the request, or it is a nickname or a number. What is written is
parsed, under its signs, as the changes it was made from (`SignedParsed`,
`AnnouncedRead`), and what validation respelled means the same
(`OperationsMeant`). The reply to a query is followed letter by letter
(`ToldMore`), and when it cannot be written the asker is marked (finding 4) and has
no screen to be wrong. `MisledBySilenceOnly` drops the hypothesis: from
screens that are right, only a change whose announcement is too long
(`ChangedInSilence`) leads to a wrong one.

`AnswersAlwaysFit` proves `AnswersFit` for any length of line, prefix, name and text: the
length of the line is computed from `serialize()` (`SaidLength`), and 7 is
exactly what surrounds the prefix, the command, the name and the text.

### Not proved

Every safety invariant and action property that a passing run checks is also
proved. Liveness (`MarkedLeave`, `InputServed`, `ShutdownCompletes`, `Delivered`)
stays with TLC: TLAPS has no rules for ENABLED here.

## 6. Plan

What is left: `ModeCommand` and the MODE step of `Channels` meet in `ModesAfter` and
`OperatorsAfter` only; a refinement from the one module to the other would say
so in one formula, with `Channels`' membership fixed. A JOIN whose own line does not
fit has no action (section 7).

## 7. Not modelled

PING, PONG and CAP (stateless replies), the command word and its dispatch table,
numeric texts, console output, start-up and argument parsing, socket options, host
name resolution. A JOIN whose own line exceeds 512 bytes has no action: it throws
after the client has become a member and before anybody is told, and the same
pass of the loop disconnects the client, which takes it off every channel again;
the net effect on channels and screens is that of `Disconnect`, after the JOINs of
the list that came before. The memory of the process is unbounded. TCP is
reliable and ordered as the kernel promises.
