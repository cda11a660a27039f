# Verification of the chess_game lobby and landlords server

The repository holds an on-line server for table games and one game for it,
*dou dizhu* ("fight the landlord"): a lobby server (`vsprojects/chess_server`),
the game as a plug-in (`vsprojects/landlords_module`), the interface between
the two (`include/chess_server/interfaces.h`) and a cocos2d-x client
(`tests/landlords/Classes`). Everything else under `src/` is vendored (boost,
cocos2d, protobuf, gtest, glog) or unused and is not considered here. Two
exceptions: the classes that protoc generated for the game's messages are part
of the program, and so is `easylogging++.h`, a library kept as a source file of
the server, as far as the server uses it.

This directory is a TLA+ model of the server and its process, of the
connections, of the messages on them and of what the client learns and shows,
TLC configurations that check it on small
instances, and TLAPS proofs for every value of the constants.

## 1. The system

```
 client ── TCP ── Session ──┐ callbacks                    ┌─ DealState
 client ── TCP ── Session ──┤                 IGameLogi    │  (calling, timer)
 client ── TCP ── Session ──┴─ ChessServer ── GameTable ── LandlordsGame
              Gate accepts ────┘  (users)     (3 seats) ◄──│  PlayState
                                              IServerLogi  └─ (tricks) ── LandlordsCard
```

| Component | State it keeps | Operations | Talks to |
|---|---|---|---|
| the process (`main.cpp`) | `io_service`, the server | read the settings of the log, start, run, return | everything |
| `Gate` | acceptor | accept a connection, and the next one after it | hands each `Session` to `ChessServer::OnConnection` |
| `Session` | socket, read buffer, send queue, timer, four callbacks | read loop, post a message, time out, close | `ChessServer` by callbacks |
| `ChessServer` | `unauth_sessions_`, `users_`, `tables_` | `OnConnection`, `HandleLogin`, `HandleSitdown`, `HandleRandSitdown`, `OnClose`, `HandleStopServer`, forward to a table | `GameTable` by calls; broadcasts to all users |
| `GameTable` | `users_` (3 seats), a game | `HandleSitdown`, `HandleStandup`, `HandleReady`, `HandleGame` | the game through `IGameLogi`; is the game's host, `IServerLogi` |
| `GameUser` | `user_state_`, `table_`, session | accessors | its session |
| `LandlordsGame` | `game_state_`, three players with `cards_` | `OnGameStart`, `HandleMessage`, `ChangeState` | broadcasts through the host |
| `DealState` | `cur_`, `start_`, `max_grade_`, `who_`, `extra_`, timer id | deal, `HandleGrab`, `OnTimeOut` | becomes a `PlayState` |
| `PlayState` | `cur_`, `master_`, `last_`, `last_card_`, `extra_` | `HandlePlay` | broadcasts, `MSG_OVER` |
| `LandlordsCard` | the cards of a combination and what they are | `SetCards`/`DoAnalyse`, `operator>` | — |
| client lobby (`GameLogi`, `GameTable`, `GameUser`) | a replica of users and seats | one handler per server message | a network thread feeds the interface thread |
| client game screen (`HelloWorldScene`) | the hand, the cards chosen, which buttons show | one handler per game message, one per button | sends `CMD_READY`, `MSG_GRAB`, `MSG_PLAY` |
| game messages (`landlords_proto`, `proto_helper.h`) | objects with optional and repeated fields | accessors, clear, merge, copy, swap, size, write, parse | used by the game and the screen |
| logging (`easylogging++.h`) | settings per level, streams per file, lines not flushed per level | configure, log a line, flush | files |

**Concurrency.** All server handlers run on the one thread that runs the
`io_service` (`main.cpp`), so a handler is never interleaved with another one
and each is one atomic action of the model. What does interleave is the order
in which the messages, closes and timeouts of different clients arrive, and
messages in flight between server and clients: clients are told what happened
and compute the rest themselves, e.g. whose turn it is. On the client a network
thread and the interface thread share `GameLogi`.

**What is hard here**, and what each component must get right:

* *Calling the landlord.* Its end depends on who started, who called most and
  who is next, after a message or a timeout. Right: everybody calls at most
  once, in turn; the first of the highest callers becomes the landlord; the
  calling ends even if a player is silent.
* *Tricks.* `last_`, `cur_` and `last_card_` are three variables, and the end of
  a trick is read off `cur_ == last_` after the first two changed. Right: a
  trick goes to the player of its best combination exactly when the two others
  passed in a row; a beaten combination was really beaten; play cannot stop.
* *Cards.* Checking, broadcasting and removing the cards are separate calls.
  Right: a card is never in two places; nobody is out of cards unannounced.
* *Combinations.* Seven recognisers in a table, and a comparison per type.
  Right: the order of the table does not matter, the recorded data describes
  the cards, beating is a strict order.
* *Seats.* A seat, the user's `table_` and the user's state are kept apart and
  changed by different functions, in any order of the users' requests. Right:
  they agree.
* *Replicas.* Clients see only messages. Right: they know whose turn it is, who
  sits where, and what they hold.
* *Screens.* Buttons are those of the last message that arrived; a press may
  come late or twice, and a player may leave in the middle of a game and be
  replaced. Right: a full table whose players are ready has its game, dealt to
  all three; the buttons show where the server waits; the hand shown is the hand
  held; a full table can always go on.
* *Messages.* Objects are used again, for other messages and by other code.
  Right: what is parsed is what was written; nothing of an earlier message
  shows; the room made for a packet is the room it takes.
* *Logging.* The settings of a level come from a file, from defaults and from
  defaults before those; levels share files and hold lines back. Right: the
  file's settings apply; no line is lost, doubled or out of order but those
  below the threshold when a process aborts.
* *The process.* Accepts fail, plug-ins are missing. Right: it serves or ends.
* *Sessions.* A timer races arriving data; sends are queued. Right: one write at
  a time, in order; `OnClose` once.

`PROJECT.json` lists the individual hazards with the line where each bites.

## 2. The modules

| Module | Models | Kind |
|---|---|---|
| `LandlordsCard` | `Card.h`, `LandlordsCard.cpp`, `CardTypeData.h` | pure operators |
| `MCLandlordsCard` | enumeration of combinations; reference definition `Describes`; the gtest cases of `landlords_module/main.cpp` as assumptions | TLC |
| `LandlordsCard_proofs` | theorems about `MCLandlordsCard`: combinations of any ranks and size | TLAPS |
| `LandlordsTrick` | what the play promises | abstract specification |
| `LandlordsGame` | `LandlordsGame`, `DealState`, `PlayState`, `LandlordsPlayer` | component |
| `MCLandlordsGame` | the deals and grades of the runs | TLC |
| `LandlordsGame_proofs` | theorems about `LandlordsGame` | TLAPS |
| `ChessServer` | `ChessServer`, `GameTable`, `GameUser`, accept and close of sessions | component |
| `MCChessServer` | session symmetry | TLC |
| `ChessServer_proofs` | theorems about `ChessServer` | TLAPS |
| `Session` | `session.cpp`: the read loop, the timer, closing, the send queue (the client holds a copy of the class) | component |
| `Channel` | what one direction of a connection promises | abstract specification |
| `Session_proofs` | theorems about `Session` | TLAPS |
| `GameTable` | a table, its game, three players and their screens (`game_table.cpp`, `HelloWorldScene.cpp`) | composition |
| `MCGameTable` | the deal and the view of `GameTable` | TLC |
| `GameTable_proofs` | theorems about `GameTable` | TLAPS |
| `LandlordsProto` | `landlords_proto.pb.h`, `.pb.cc`, `proto_helper.h` | component |
| `MCLandlordsProto` | the values of the fields | TLC |
| `LandlordsProto_proofs` | theorems about `LandlordsProto` | TLAPS |
| `Logging` | settings, streams and lines of `easylogging++.h` | operators |
| `ServerProcess` | `main.cpp`, `gate.cpp`, loading the game, with `Logging` | component |
| `MCServerProcess` | the configuration files | TLC |
| `ServerProcess_proofs` | theorems about `ServerProcess`, and so about `Logging` | TLAPS |
| `Lobby` | `ChessServer`, a FIFO to each user, and the client's replica (`GameLogi.cpp`) | composition |
| `MCLobby` | session symmetry and the view of `Lobby` | TLC |
| `Lobby_proofs` | theorems about `Lobby` | TLAPS |

`LandlordsGame` extends `LandlordsCard` (a handler analyses and compares the
cards it is sent) and instantiates `LandlordsTrick` under a refinement mapping.
`Session` implements `Channel`; `Lobby` extends `ChessServer` and gives every
user such a channel, which is where the two meet. `GameTable` extends
`LandlordsGame` and implements its specification; it has such channels in both
directions. `ServerProcess` extends `Logging`.

**Conventions.** A variable or operator has the name of the field or function
it models; `PROJECT.json` maps each to its lines. A handler that ignores a
message is a stuttering step. `out` holds what the last handler sent, in order:
the broadcast is part of the handler. Operators whose comment starts with
"Faulty" are plausible bugs of the operator below them; they are not used by the
specification, and putting one in the place of its neighbour must make TLC
report the property that watches over it (`PROJECT.json`, `mutants`).

### 2.1 LandlordsCard

A combination is a set of card values 0..53. The code gets a vector from a
message, but `have_cards` only lets cards of a hand through and a hand has no
duplicates. The sorted-vector loops of the recognisers are counts per rank
here. The type data classes are one record `[type, rank, count, sub]`.

### 2.2 LandlordsGame

| Code | Model |
|---|---|
| `game_state_` null / `DealState` / `PlayState` | `phase`; the fields of the object that does not exist hold fixed values |
| `players_[s].cards_` | `hands[s]` |
| `cur_`, `extra_` of either state | `cur`, `extra` |
| `start_`, `max_grade_` (int8_t: `Int8`), `who_` | `start`, `maxGrade`, `who` |
| the pending timer | `timer` |
| `master_`, `last_`, `last_card_` | `master`, `last`, `lastCard` |
| messages to the table | `out` |
| — (history) | `over`: `MSG_OVER` was sent; `calls`: the grabs accepted |

| Handler | Action |
|---|---|
| `OnGameStart` → `ChangeState(DealState)`, `Deal`, `InitGrabTimer` | `OnGameStart` (at any time: a table restarts a running game) |
| `DealState::HandleGrab` | `HandleGrab` = `Grab` with outcome `GrabDone`, `NobodyCalls` or `NextCalls` |
| `DealState::OnTimeOut` | `OnTimeOut`: the current seat's refusal |
| `PlayState::HandlePlay`, empty message | `Pass` |
| `PlayState::HandlePlay`, cards | `PlayCards` |

The shuffle is a choice from the constant `Deals`. `Grades` may be any integers:
the code does not check them. `TimersFire` says whether the host calls timers
back; the present host does not (finding 2).

### 2.3 LandlordsTrick

Three players, `Play`, `FirstPass`, `EndTrick`, and new hands at any time. It
counts passes, the code does not; the mapping computes `passes` from `cur` and
`last`, and shows `lastCard` as the pile only while somebody has to beat it.

### 2.4 ChessServer

| Code | Model |
|---|---|
| a session in no set / `unauth_sessions_` / `users_` / closed | `conn[u]` = none / unauth / auth / gone |
| `user_state_`, `table_` | `state[u]`, `table[u]` |
| `users_` of a table | `seats[t]` |
| the table's game has no / a `game_state_` | `game[t]` |
| the process | `status` |
| sends and broadcasts, with their receivers | `out` |

One action per handler: `OnConnection`, `DropUnauth` (close or a wrong first
message), `HandleLogin`, `OnClose`, `HandleSitdown`, `HandleRandSitdown`,
`HandleReady` (starts the game when the table is ready), `HandleStandup`,
`HandleStopServer`, and `HandleGameTooEarly`, the game message that reaches a
null `game_state_`. The messages of a running game belong to `LandlordsGame`
and change nothing here.

### 2.5 Session and Channel

| Code | Model |
|---|---|
| `closed_`, or the object destroyed | `link` |
| which `async_read` is pending | `reading` |
| handlers posted by `SendMessage` / `send_queue_` / pending `async_write` | `posted` / `queue` / `writes` |
| pending `async_wait` / expired handlers in line | `waits` / `fired` |
| the callback a step makes | `cb` |
| bytes in the socket, as parts of frames | `input`, `owed` |
| — (history) | `told`, `received`, `wire` |

`PeerSendsHead`, `PeerSendsBody`, `PeerGoes` and `Expire` are the environment;
every completion handler is an action: `OnHead`, `OnBody`, `OnReadError`,
`OnTimeout`, `OnPosted`, `OnWritten`, `OnWriteError`, and `SendMessage` is the
call. `SetTimer` cancels the pending wait and starts another, but a handler
that is in line already stays there. An owner that drops the session in its
message callback closes it too. After closing the pending operations still
complete, in any order.

`Channel` has what is `up`, in `flight` and `got`. The mapping takes the queue
followed by the posted frames for what is in flight while the session is open,
and the pending write afterwards.

### 2.6 Lobby

`chan[u]` holds the messages on their way to user `u`; `view[u]` is its
`GameClient`: the users it has heard of, their states and tables, and the seats.
`ServerStep` is any action of `ChessServer` together with its messages;
`Deliver(u)` is `GameClient::HandleMessage` on the next message. Requests need
no channel: any handler of `ChessServer` may run at any time already, in any
order. The replica's `health` turns `null` where the code would use a user it
does not find, and `undefined` where it writes outside the three seats of a
table (which a login reply that lists a user who stood up makes it do); nothing
is claimed of a client after that. `Queue` puts what a handler sends behind what
is on its way already; no handler sends more than two messages. `Caught(u)` is
the replica of `u` once it has read all of it.

### 2.7 GameTable

`GameTable` is `LandlordsGame` at a table: the game moves only because a request
reaches the table, requests are made only by buttons that show, and buttons show
because of messages that arrived.

| Code | Model |
|---|---|
| `user_state_` of the user of a seat | `user[s]` |
| what the user of a seat sent and the table has not handled | `requests[s]` |
| what was sent to it and its screen has not handled | `chan[s]` |
| ready button, call buttons, play buttons, the hand, `my_out_cards_` | `screen[s]` |
| — (history) | `dealt`: its user was dealt its cards; `rushed`: it chose cards before the last choice was answered |

`Receive` is `GameTable::HandleMessage` (`HandleReady`, `HandleGame`), `Deliver`
is `HelloWorld::HandleMessage`, one operator per handler of the screen; the
`OnTouch…` actions are the buttons. `Sit` and `Leave` bring and take a user; a
new one has a new screen and is not told of the game that goes on. The timer of
the calling never fires at this host, so there is no `OnTimeOut`.

### 2.8 LandlordsProto

The five generated classes differ in their fields only, so a class is a record
of field numbers, and its methods are written once: `Set`, `Add`, `ClearField`,
`Clear`, `MergeFrom`, `CopyFrom`, `IsInitialized`, `ByteSize`, `Write`. `out` is
the object that is written and `in` the one that is parsed into; both are used
again and again, and `Copy` and `Swap` move messages between them as
`DealState::HandleGrab` does. A packet is a sequence of items, a tag and what
follows it; `Send` may also put items of another writer among them, pack a
repeated field, or end the message too early. `ReadItem` is one round of the
parser's loop. Of an integer's bytes only their number is modelled.

### 2.9 Logging and ServerProcess

`Logging` follows a setting from the line of `easylogging.conf` to the line on
disk: `Configurations` (the file, in the order of its lines, and the remaining
defaults), `Build` (`TypedConfigurations`: a map per setting, from which a level
whose value is that of GLOBAL is left out, and a stream per file, shared by the
levels that name it), `Dispatch` (a line, held back by the level's threshold),
`DispatchFatal` and `FlushAll`. A logger is one record; `disk` is what is in the
files and `logged` (history) the lines that a stream has taken. `Iterate` is the
library's loop over an ordered list; a fold that the prover can expand.

`Dispatch` is the set of what one line may make of the logger, for the disk may
refuse a write inside it. A stream that holds the line back may write some of
what it holds on its own; if that is refused, the line is neither taken nor
counted. If the line is due to be flushed it has been taken and counted by then,
and `flush` resets the count whether the stream could write or not: exactly
`threshold` lines may then be missing. A stream that failed takes no more lines.
`Close` may be refused in the same way, file by file. Three abstractions: a line
is on the disk or it is not (a part of one is not); on closing, a stream writes
all it holds or nothing; and a failed stream keeps all it held, also what got to
the disk, and may write it again on closing, so that the order of a file is not
claimed of a failed stream once the process has returned.

`ServerProcess` is `main`: `ReadSettings`, `LoadGame`, `StartServer`, then the
handlers, `Return`; `HandleGameTooEarly` is the crash of section 2.4, whose
signal handler logs a fatal line. Failures are choices within the step that
meets them: the plug-in cannot be loaded, the port cannot be opened, an accept
fails, a file cannot be opened, the disk refuses a write. `Restart` is another
process on the same files. It models the Debug build; without `ENABLE_LOG` the
macros are empty.

## 3. The runs

| Run | Bounds | Question and answer |
|---|---|---|
| `cards` | ranks 10..2 and the jokers, up to 12 cards | Does `DoAnalyse` record what the cards are (`AnalyseSound`), by one recogniser only (`OrderIrrelevant`), and is beating a strict order over all data of a full pack (`BeatsIsStrictOrder`)? Yes. |
| `cards_triple` | three ranks, 6 cards | Is a triple ranked by its triple (`TripleDecides`)? No: finding 1. |
| `game` | three deals of 1 to 4 cards a seat, grades 0..3, timers, restarts | `TypeOK`, `NoSharedCard`, `TopCall`, `ClientsKnowTurn`, `CurCanAct`, `TrickRefinement` hold. The calling ends whatever players do (`GrabPhaseEnds`); the play ends if players move (`RoundEnds`). |
| `game_timer` | one deal, timers as `GameTable` has them | `GrabPhaseEnds` fails: finding 2. |
| `game_extra` | one deal | `ExtraGoesToLandlord` fails: finding 3. |
| `server_seated` | 2 sessions, 1 table | `TableMeansSeated` fails: finding 4. |
| `session` | 2 messages in, 3 out, empty frames, 2 expiries in line | `TypeOK`, `ReceivedInOrder`, `Watched`, `QuietAfterClose`, `ChannelRefinement`, `PeerLossNoticed`, `ArrivedIsRead` hold. |
| `lobby` | 3 sessions, 1 table, 2 messages in flight to each | Of the server: `TypeOK`, `SeatsConsistent`, `StateMatchesSeat`; of the replicas: `LobbyTypeOK`, `NobodyUnknown`, `SeatsCatchUp`, `ReadyCatchesUp`, `DealFindsTable`. All hold. |
| `table` | 5 cards, one player may leave, one may lag behind; 2 requests and 2 messages to a player in flight | `TableTypeOK`, `ReadyTablePlays`, `ButtonsFollowTurn`, `HandShown`, `NoGameTooEarly`, `TableNotStuck` hold. |
| `proto` | 3 values, 2 repeated elements, any foreign item | `UnsetIsDefault`, `RoundTrip`, `SizeIsWritten`, `CopiesEqual` hold. |
| `process` | some 600 configuration files, 3 log files of which one cannot be opened, 2 connections, 4 lines, 2 processes, any write or flush refused | `SettingsApply`, `LinesKept`, `LossBounded` hold, and `ServesOrEnds`. |
| `process_badfile` | the same files, nothing is logged | `BadFileTurnsOff` fails: finding 5. |

**Why the bounds are enough.** `cards`: suits are never looked at, so each
multiset of ranks is met once; six ranks give chains up to the ace and make the
2 and the jokers the ranks next to the boundary, and twelve cards hold every
form of a plane of two or three triples. `BeatsIsStrictOrder` compares against
every data record of the full pack, not only those of the pool. `game`: calling
is independent of the cards, so all its paths are there; the deals make
singles, pairs, a triple with a single, a bomb and the rocket beat each other,
with seats that can only pass, and every seat can run out first. What does not
depend on size is proved (section 5). `session`: two messages are
enough for one to be read while the next arrives, with frames without a body
between them; three frames out put one in the write, one in the queue and one
in a posted handler; the second expiry is in line while the first has not run.
`lobby`: three users are a full table, so a game starts and every client hears
of it late; the users are interchangeable, hence the symmetry (no liveness is
checked there). A user at one of several tables is the matter of the proofs,
which hold for any number of tables; two messages in flight are what one start
sends, and let a client
be behind by a login reply and the change after it. `SeatsCatchUp` and
`ReadyCatchesUp` are stated of the replica as it will be once what is in flight
has been read, so they speak of every state, not only of quiet ones. The `VIEW`
of `lobby` leaves `out` away, which no action reads, and merges the states after
the end of the process, where nothing moves. `table`: five cards are enough for
a lead with a choice, a pass, a card that beats another and a hand that runs
out; one seat that leaves and lags is enough because seats differ only by
`start_`, which is any of them. Who leaves is replaced and the game starts again,
so `ReadyTablePlays` speaks of second starts as well as of the first.
Its `VIEW` leaves out what nothing reads
(`out`, `calls`, `master_`) and `last_card_` and `my_out_cards_` where they are
no longer read. `proto`: the values take one, two and ten bytes; two elements
show order and doubling. `process`: the files are all those of one or two
sections with one setting each, and longer ones where a section comes late or
levels share a file; four lines pass a threshold of three, and two settings of a
threshold differ between levels of one file.

`CHECK_DEADLOCK FALSE` is given to `cards` (the largest hands cannot grow),
`lobby`, `server_seated` and `process` (a stopped process stops) and `session`
(a closed one stops).

**Fairness.** `LiveSpec` assumes `WF(OnTimeOut)`, a timer that is never cleared
fires, which is what `IServerLogi::SetTimeout` offers the game; with the host of
this repository `timer` is never set (`TimersFire = FALSE`), and `game_timer`
checks that too. `WF(Plays)` assumes that a player whose turn it is eventually
plays something acceptable; it is an assumption on people, needed because
`PlayState` sets no timer, and it is not used by `GrabPhaseEnds` to get out of
the calling. Both properties are stated for behaviours in which new starts
cease, because a table may be restarted for ever.

For `Session`, weak fairness of its handlers: `io_service::run_one` runs every
handler whose operation has completed, and those stay ready until they run.
Nothing is assumed of the peer, hence nothing of the completion of writes.

For `ServerProcess`, `WF(MainGoesOn)`: the thread of `main`, and the one that
runs the loop, do not stay at a statement they can leave. Nothing is assumed of
connections: an accept may never complete.

## 4. Findings

1. **A triple with a pair is ranked by its pair** (`LandlordsCard.cpp:98`): the
   pair is looked up in a second `iter` that hides the first. 3-3-3-2-2 beats
   A-A-A-K-K.
2. **The host never fires a timer** (`game_table.h:50`), so a silent player
   stops the calling. `DealState` and the interface rely on timers.
3. **The landlord never gets the extra cards** (`PlayState.cpp:10`).
4. **A user that stood up cannot sit again** (`game_table.cpp:84`): `table_`
   stays set and `HandleSitdown` takes it for "already seated".
5. **A file that cannot be opened may leave `TO_FILE` on** (`easylogging++.h:2905`):
   `setValue` stores nothing when GLOBAL has the value already, so a level with
   `TO_FILE` on under a GLOBAL with it off stays on without a stream.
   `SettingsApply` says of such a level only that its file cannot be opened.

`PROJECT.json` quotes the line each disagrees with.

Four more things are known from the models and have no run, because nothing in
the repository says plainly enough what should happen:

* `MSG_OVER` ends nothing (`DealState.cpp:101`, `PlayState.cpp:63`): the state
  stays and further grabs or cards are accepted. The models do the same; the
  properties of the game are stated until then.
* A timeout may be reported although data has arrived (`session.cpp:130`): the
  handler of a wait that expired runs although the wait was replaced. Today's
  callbacks are empty.
* "Remaining" log settings overwrite: a configuration that sets a level and not
  GLOBAL has the level's value replaced by GLOBAL's default, because only
  GLOBAL is looked up (`easylogging++.h:2712`); `SettingsApply` is stated for
  files that set GLOBAL first.
* A player who chooses cards again before the first choice is answered has the
  wrong cards removed from its view (`HelloWorldScene.cpp:350`); `HandShown` is
  stated of the others.

## 5. What is proved

`LandlordsGame_proofs`, for all deals and grades and for timers that fire or do
not, from `DealsAssumption` (a deal is three non-empty hands and extra cards,
all disjoint: `Deal` splits one shuffled pack), `GradesAssumption` (integers) and
`TimersAssumption`. Nothing is assumed of what combinations are or beat, beyond
what `IsDanzhang` says.

| Theorem | Argument |
|---|---|
| `TypeCorrect` (`TypeOK`) | inductive as it stands. Two conjuncts are there for that: a timer is only pending in `deal`, and `who = NoSeat => maxGrade = 0`, without which a grab of 3 that only *keeps* `max_grade_` at 3 could install nobody as landlord. |
| `CardsNotShared` (`NoSharedCard`) | inductive with `TypeOK`; hands only shrink, and the cards on the table have just left a hand. |
| `TurnsKnown` (`ClientsKnowTurn`) | inductive with `TypeOK`; each handler's message names the seat it moves `cur_` to. |
| `NeverStuck` (`CurCanAct`) | `CurCanAct` says nothing of the calling, so it is not inductive; `HandsFull` (from the deal to the end nobody's hand is empty) is. Any single card is a combination (`SingleIsValid`), so a leader can lead. |
| `HighestCallWins` (`TopCall`) | for grades of at most 3, which is what the buttons call; above, an `int8_t` wraps, and a grade of 3 need not end the calling. `CallInv` relates the history of the calls to `cur_`, `max_grade_` and `who_`: the calls are those of the seats from `start_` on, and `who_` made the first of the highest ones. `CallAdded` carries this over one call. |
| `GameImplementsTricks` (`TrickRefinement`) | step simulation, with the invariant `NotOwnTop`: whoever played the best combination is not the one to act. By it and `PassArithmetic`, `cur_ == last_` comes true on the second pass and not earlier. |

`Session_proofs`, for any messages and every value of the bounds `MaxIn`,
`MaxOut` and `MaxFired`, from `SessionAssumption`. The
inductive invariant is `IInv`: `TypeOK`, `OneWrite` (at most one write is
pending, of the front of the queue) and `Framed` (the parts in the socket are
whole frames, and the reader waits for the part that comes next).

| Theorem | Argument |
|---|---|
| `SessionTypeCorrect` (`TypeOK`) | needs `Framed`: only then is what `OnBody` hands out a message. |
| `SessionWatched` (`Watched`) | inductive with `TypeOK`. |
| `SessionInOrder` (`ReceivedInOrder`) | what was handed out says nothing of what is in the socket, so the invariant `InOrder` does: there is a function `g` such that `g[n]` bodies lie before part `n` of the socket, and the body at part `n` is the message that the peer sent as number `Len(received) + g[n] + 1`. A part that arrives makes `g` one longer, one that is read one shorter (`FirstPartRead`), and no recursion along the socket is needed. |
| `SessionQuiet` (`QuietAfterClose`) | of every single step. |
| `SessionImplementsChannel` (`ChannelRefinement`) | step simulation with `OneWrite`: `OnPosted` moves a frame inside the channel, `OnWritten` takes the front, closing leaves in flight only the write that is pending (`CloseGoesDown`). |

`ChessServer_proofs`, for any sessions and any number of tables, from
`ServerAssumption` (a null seat is no session). The inductive invariant is
`SInv`: `TypeOK`, the two properties below, and `Fresh`, that a session which
has not logged in has no table and stands; without it a newcomer could be seated
before it is a user.

| Theorem | Argument |
|---|---|
| `ServerTypeCorrect` (`TypeOK`) | inductive; `SeatFound` and `EmptyFound` show that the seats that are looked up are seats. |
| `ServerSeats` (`SeatsConsistent`) | a user sits down only while `table_` is unset, hence while it has no seat (`OnlySeat`). |
| `ServerStates` (`StateMatchesSeat`) | standing up frees the one seat (`FreesOne`), so nothing is left of it. |

`GameTable_proofs`, for all deals, any `Leavers` and `Laggers` and every bound on
the queues. The inductive invariant is the game's `TypeOK` with `TableTypeOK`;
that an empty seat has nothing on its way is part of the latter, and without it
a message could arrive at nobody.

| Theorem | Argument |
|---|---|
| `TablePlaysTheGame` (`Spec` of `LandlordsGame`) | step simulation: the guards of a request that is acted on (`GameSteps`) are those of an action of the game, everything else is a stutter. |
| `TableNeverStuck` (`CurCanAct`) | by that and `NeverStuck`; every theorem about the game carries over in the same way. |
| `TableTypeCorrect` (`TableTypeOK`) | needs `News`: a handler of the game tells the table nothing that has the shape of a deal. |
| `TableReadyPlays` (`ReadyTablePlays`) | part of `ScreensRight` below: only the last READY makes a table ready, and it starts a game and deals to all three; leaving takes back both the readiness and what was dealt. |
| `TableNotTooEarly` (`NoGameTooEarly`) | by `Early`: before the first game no screen shows a game button, and all that is on its way either way is about being ready. |

What the screens show rests on `ScreensRight`: the two `TypeOK`s, that a full
table whose players are ready has its game and everybody its cards, and for each
player that its queue can be read from anywhere on (`Readable`: pressing a
button changes a screen that has read part of it) and that *every* reading of
the buttons alone (`ButtonReading`) ends with `Right` buttons. A reading is a
function, `f[n]` what shows after `n` messages; a message that is sent makes it
one longer (`AppendRight`) and a message that is read one shorter (`TailRight`),
and `Caught` is the end of the reading (`CaughtRight`).

The hand needs another reading, for it depends on the order of the messages and
not on the last of them. `HandsRight` says of a player that was dealt its cards
and never rushed: the play requests it has on the way carry the cards its screen
has chosen, and the reading of its queue ends with the hand the server has and
those cards. So a move is taken off
the hand it was chosen from, once, however late its answer is read.

| Theorem | Argument |
|---|---|
| `TableButtonsFollowTurn` (`ButtonsFollowTurn`) | one lemma per request: the last message that the server sends sets the buttons right whatever showed before (a deal, a call, a landlord, a move), or the request left the turn alone. |
| `TableGoesOn` (`TableNotStuck`) | the same invariant: somebody sits and is not ready, or the game is over and every READY button is back, or the game waits for `cur`, who has its cards. |
| `TableHandShown` (`HandShown`) | `AppendHand` for each message that is sent, `TailHand` for one that is read, `ChooseHand` for a choice of cards; `CaughtHand` that `Caught` is the end of the reading. |

`LandlordsCard_proofs`, for any ranks `RankPool` and any `SizeBound`. The only
invariant is that the hand is a set of cards; the rest is about the operators. A
recogniser counts the cards of a rank, so what the theorems need is arithmetic on
those counts, above all `GroupsSize`: a set whose ranks are all in some range,
with at least `k` cards in each, has at least `k` times as many cards. It is
proved by `SetInduction`, on the size of the range.

| Theorem | Argument |
|---|---|
| `CardOrderIrrelevant` (`OrderIrrelevant`) | what each recogniser says, as counts (the `...Facts`); any two of them differ in the size of the set or in the number of cards of one rank (`Apart`, `OneRecogniser`). |
| `CardAnalyseSound` (`AnalyseSound`) | one lemma per form that what is recorded describes the cards. |
| `CardBeatsIsStrictOrder` (`BeatsIsStrictOrder`) | what is recorded of any combination is in `AllData`; every `operator>` compares a rank, or is decided by the types. |

`LandlordsProto_proofs`, for any integer values and messages of any length. The
inductive invariant `PInv` says that both objects are `Clean` (what is not set is
at its default) and hold only fields of their class, that an item of one integer
on the wire has it, without which a parsed field would have no value, and of a
parse under way that what is left on the wire is cut short or `Reads` from the
object as it is to the one that was written. A reading is a function again, `g[n]`
the object after `n` items: two readings can be put together (`ReadBoth`), one
goes on without its first item (`ReadRest`), and an item that is not known can be
put anywhere into it (`ReadAround`). Sums are treated in the same way: `Total` is
the last of the sums on the way (`UpToExists`, `TotalIsLast`).

| Theorem | Argument |
|---|---|
| `UnsetFields` (`UnsetIsDefault`) | one lemma per method that it leaves an object clean; `ClearIsNew`: clearing a clean object makes a new one, although `Clear` leaves scalar fields alone when none is set. |
| `CopiesAreEqual` (`CopiesEqual`) | `CopyIsEqual`, from `ClearIsNew`: merging into a new object gives the one that is merged. |
| `SizesAreWritten` (`SizeIsWritten`) | `FieldBytes`, field by field, and that the bytes of two parts are the sum of theirs (`BytesOfBoth`); for a repeated field the tags and the values are counted apart (`TotalOneMoreEach`). |
| `ReadsWhatWasWritten` (`RoundTrip`) | `WireRead`: what `Send` may put on the wire reads from a new object to the one that is written, because each field is read into an object without it (`ReadField`), and a message that is not written at all, having no bytes, is a new object (`NoBytesNew`). |

`Lobby_proofs`, for any sessions, tables and messages on the way (`MaxFlight` is
not used). The inductive invariant `LInv` is the server's `SInv` with
`CatchesUp`: *every* reading of what is on its way to a user (a function `f`,
`f[i]` its replica after `i` messages) ends in agreement with the server, knows
everybody it is told about on the way, and has the table full when the cards
come; and there is such a reading. Both halves are needed: a new message makes a
reading one longer (`ReadMore`) and a message that is read one shorter
(`ReadOne`), and either way the invariant speaks of the reading that was there
before. So no induction over the queue is needed, and `Caught` is the end of the
reading (`CaughtAgrees`).

| Theorem | Argument |
|---|---|
| `LobbyIsServer` (`Spec` of `ChessServer`) | `ServerStep` contains `Next`, `Deliver` leaves the server alone. |
| `LobbyTypeCorrect` (`LobbyTypeOK`) | inductive with the server's `TypeOK`; one case per message (`HandleType`). |
| `LobbySeatsCatchUp` (`SeatsCatchUp`), `LobbyReadyCatchesUp` (`ReadyCatchesUp`) | one lemma per message that it takes a replica that agrees with the server before the handler to one that agrees after it. `BringsLogin` starts from any replica at all, and rests on no two users having one seat (`OnlySeat`). `BringsSitdown` is where a client that is not told that a user no longer stands comes out right: who sits down was standing (`StateMatchesSeat`), and the client knew. |
| `LobbyNobodyUnknown` (`NobodyUnknown`) | a handler names users, and a replica that agrees knows the users. |
| `LobbyDealFindsTable` (`DealFindsTable`) | `BringsDeal`: the readiness that starts the game is told first, so the reading that ends there already agrees. |

`ServerProcess_proofs`, for any levels, log files and settings, any number of
lines, connections and processes, from `LoggingAssumption` (the server's three
levels are levels, GLOBAL and UNKNOWN are none) and `FilesAssumption` (the value
of a known setting has its type, as the conversions of the parser give it). The
inductive invariant `ProcInv` says of the logger `InvLog` until the process
returns, and `Flushed` then. `InvLog` relates the maps, the streams, the files
and the counts: every stream is the one of its file and every level has a stream
or none (`Joined`); what is in a file and then in the buffer of its stream is
what was logged to it, and of a failed stream what is in the file is at least a
beginning of that (`Whole`); and of a level only lines to its own file are
missing there, no more than have been counted since the level was flushed, or
than its threshold if the stream failed (`Counted`): a refused flush has reset
the count of lines that it leaves missing, and no line is taken after it. So
`LossBounded` allows one line more of a failed stream, and a threshold of 0, by
which every line is flushed, bounds as one of 1 does. A level that is flushed
writes the lines of other levels too and leaves their counts alone, so a count
is a bound and not a number of lines. That a configuration builds such a logger
is where folds over the entries come in: each is followed by a function of the
position, which exists by `WayExists`, and `AlongFrom` carries a fact from where
it comes true to the end (each map has a value for GLOBAL, which the lookups of
the code rely on).

| Theorem | Argument |
|---|---|
| `ProcessInductive` | `NewLoggerBuilt` and `ConfigureBuilt` (nothing is missing and nothing counted), `WriteKeeps` (whatever a stream writes, and whether it is refused or not), `TakenWrites` (the outcomes of a line that was taken are such writes), `DispatchKeeps` and `FatalKeeps` from them, `FlushAllFlushes`; a process that is started again finds the files as they are. |
| `ProcessLinesKept` (`LinesKept`) | `Whole`; `HeldByOne`: the streams of a file are one stream. |
| `ProcessLossBounded` (`LossBounded`) | `Counted` gives the bound while the process runs (`CountedBounds`), and closing only shortens what is missing (`FewerMissing`). |
| `ProcessSettings` (`SettingsApply`) | `ConfiguredSays`: what is registered after parsing, filling in and copying onto the defaults. `MapOfSays`: whatever is looked up in a map is that, although a value equal to GLOBAL's is left out. `FilesSays`: a level has the stream known for its file, and TO_FILE as it was said if its stream and GLOBAL's are open. |

`SettingsApply` says what those folds compute, and is proved one fold after the
other, each by an invariant of the position reached. `ParseSays`: after n lines
the configuration has a setting for a level exactly if one of them is for the
level or for GLOBAL, and with the value of the last that is. What makes the rest
come out right is `Led`: GLOBAL's entry was registered before the level's, which
is what `InOrder` says of the lines. Without it, filling in the defaults
overwrites the level (`RemainingSays`), a copy does (`FromBaseSays`), and so does
the map, whose first entry becomes GLOBAL's whatever it was for (`SetValueGives`).
`SettingsInv` is `ProcInv`, the property, and `Opened` until the file is read:
every file asked for is known with its stream, or cannot be opened.

Only model-checked: liveness and `ENABLED`, which are out of the prover's reach.
Every invariant of a passing run is a theorem.

**Induction.** The library's induction theorems have an operator as parameter,
which no prover here can instantiate. Where an invariant of the steps does not
do, the proofs use the principle in terms of sets: a set of numbers that is not
empty has a least element (`LeastNat`), so a set that contains 0 and with every
`n` also `n + 1` contains every number (`SetInduction`).

## 6. Not modelled

* Frames near 2^16 bytes, whose size `SendMessage` computes in 16 bits, and
  frames whose length field is 0 or 1.
* Of the game screen: the names, clocks and cards shown for the other players,
  the animation of a deal, selection of cards by touch (any subset of the hand
  may be chosen). The threads of the client: its handlers run on the network
  thread and hand work to the interface thread in order, which is the order of
  the queues of `Lobby` and `GameTable`; `session_` is set by one and used by
  the other without a check (`GameLogi.cpp:45`), and the models start once it is
  set.
* Two or more tables in one model with their games: tables share nothing but
  the users, and a user plays at one.
* Names, coins, passwords, avatars, login protocol details: no handler's control
  depends on them.
* The byte layout of the packed structs and of protobuf's integers, `ToString`.
* Of the logging library: formats of lines, standard output, verbose levels,
  hit counts, performance tracking, syslog, command-line flags, reconfiguring
  while the process runs. The server uses none of them, or they are
  presentation. Unloading the plug-in (`game_factory.cpp:12`), which happens
  after the last handler. The unused `net_message`.
* The client's widgets and start-up, layout and animation.
* Memory safety of the C++ code in general.

## 7. What is left

Several tables in one model, with a user that changes between them once finding 4
is repaired.
