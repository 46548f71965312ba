# FreeKill: a TLA+ model of the game server

FreeKill is a server, a client and a rule engine for a Sanguosha-style card
game. This directory holds TLA+ modules for the parts of the **server** whose
correctness depends on order, interleaving or long histories, TLC
configurations that check them on small instances, and TLAPS proofs.

Paths below are relative to the repository root.

## 1. The system

### Threads

| thread | runs | code |
|---|---|---|
| main | Qt event loop: sockets, `Server`, `Lobby`, every `Room`, `ServerPlayer` and `Router` object | `src/server/*.cpp`, `src/network/*.cpp` |
| room thread (one per `roomCountPerThread` rooms) | its own event loop, one `Scheduler`, one Lua state, the game logic of its rooms as coroutines | `src/server/roomthread.cpp`, `src/server/scheduler.cpp`, `lua/server/*.lua` |
| heartbeat | kicks clients that stopped answering | `src/server/server.cpp:34-60` |
| shell | the administrator's commands, in the middle of whatever the main thread does | `src/server/shell.cpp` |

The main thread talks to a room thread by queued signals (`pushRequest`,
`wakeUp`); a room thread talks to the main thread by `BlockingQueuedConnection`
(sending packets), by queued signals (request timer, `kicked`) and by calling
methods of the main thread's objects directly under ad-hoc mutexes
(`replyMutex`, `m_thinking_mutex`, `lua_ref_mutex`, `transaction_mutex`) or none
at all. The shell calls methods of `Server`, `Room` and `RoomThread` from its
own thread. All threads share one SQLite connection.

### Components, their state and operations

| component | state | operations | correct when |
|---|---|---|---|
| **Router** `src/network/router.cpp` | `expectedReplyId`, `m_reply`, `replyTimeout`, semaphore; the shared `static requestId` | `request`, `waitForReply`, `cancelRequest`, `abortRequest`, `handlePacket`, `setSocket` | a reply answers the current request, is accepted once and in time |
| **ClientSocket / ServerSocket** `src/network/` | TCP stream, AES key, sign-up timer | framing, encryption, compression, `installAESKey`, `disconnectFromHost` | each side decodes what the other has encoded |
| **ServerPlayer** `src/server/serverplayer.cpp` | `state`, `socket`, `room`, `thinking`, game timer | `doRequest`, `waitForReply`, `kick`, `reconnect`, `onDisconnected`, `onReplyReady` | the room learns of every answer and disconnection; time is counted once |
| **Request** `lua/server/network.lua` | players left, `send_success`, `result`, `winners`, `pending_requests` | `ask`, `_sendPacket`, `_checkReply`, `_finish` | it ends; winners and results are the players' own; timeouts are real |
| **Scheduler** `lua/server/scheduler.lua`, `lua/server/request.lua`, `src/server/scheduler.cpp` | `runningRooms`, wake-up queue | `HandleRequest`, `ResumeRoom`, `registerRoom`, `doDelay` | a room is resumed for what it waits for, and closed once |
| **Room (C++)** `src/server/room.cpp` | `players`, `observers`, `owner`, `gameStarted`, `m_abandoned`, `lua_ref_count`, request timer | add/remove player, robot, observer; start, kick, ready, game over | players are in exactly one room; freed when, and only when, nobody uses it |
| **Lobby** `src/server/lobby.cpp` | its players | create, enter, observe room, config | |
| **Server** `src/server/server.cpp` | rooms, threads, players, bans, MD5 | create/remove room, new connection, `processRequest`, `refreshMd5`, transactions | who is in passed every check; one version of the files per game |
| **RoomThread** `src/server/roomthread.cpp` | MD5 it was made with, Lua state | constructor with its nested event loop, `isFull`, `isOutdated`, destructor | nobody waits for ever in a constructor; outdated threads get no room |
| **Auth** `src/server/auth.cpp` | RSA key, user table | version, device, password, ban and duplicate-login checks | one session per account; bans hold |
| **PackMan** `src/core/packman.cpp` | `packages.db`, directories, `disabled_packs` | install, upgrade, enable, disable, remove, `loadSummary` | what is advertised is what is counted; a synchronised client gets in |
| **Shell** `src/server/shell.cpp` | | package commands, bans, kick, stat | |
| **Database** `src/core/c-wrapper.cpp` | one connection | statements, `BEGIN`, `COMMIT` | transactions are whole; counters count |
| **GameLogic: event stack** `lua/server/gamelogic.lua`, `lua/server/gameevent.lua` | event stack, cleaner stack, ids, records | `start`, `pushEvent`, `resumeEvent`, `clearEvent`, `breakEvent`, `shutdown` | events nest; each is cleaned once, inner before outer |
| **GameLogic: triggers** `lua/server/gamelogic.lua` | skill tables, refresh tables | `addTriggerSkill`, `trigger` | priority order, no repeated invocation |
| **Game flow** `lua/server/events/gameflow.lua` | round, turn, phase | `Round`, `Turn`, `Phase`, draw/discard init | |
| **HP, dying, death** `lua/server/events/hp.lua`, `death.lua` | hp, maxHp, shield, dead, rest | `ChangeHp`, `Damage`, `LoseHp`, `Recover`, `ChangeMaxHp`, `Dying`, `Death`, `Revive` | hp <= maxHp; nobody dies twice |
| **Card areas** `lua/core/room/card_manager.lua`, `lua/server/events/movecard.lua` | piles, hands, equip and judge areas, `card_place` | `applyMoveInfo`, `MoveCards`, `shuffleDrawPile` | a card is in one place |
| **AI, UI, rest of the client** | | | not part of the server's core logic |

### What is hard here

* Router and Request state is shared by two threads, and the decisions of
  `Request:ask` (who is online, who answered) are read while it changes.
* Wake-ups are untyped: whatever arrives resumes whatever the room waits for.
* The request timer fires through two event queues and is not recalled.
* `deleteLater`, the Lua reference count and `m_abandoned` decide together when
  a `Room` or a `ServerPlayer` dies; `Room::gameOver` runs on the room thread.
* Events are coroutines that other events may kill at any depth, while cleaners
  (which are coroutines too, and may be killed too) still have to run.
* `RoomThread`'s constructor runs an event loop of its own, so other handlers run
  in the middle of `createRoom`, further constructors included.
* The shell renews the files, bans and kicks while logins, rooms and games are
  in the middle of something; what was looked up before is used after.
* Package commands go on in steps (table, directory, list in memory) that a
  crash or a failed git operation leaves half done.
* The threads write games and logins down over one connection, with and without
  the mutex.

## 2. Modules and plan

Built:

| module | what | composed with |
|---|---|---|
| `Router` | request ids, semaphore and replies between room threads and clients | |
| `RouterProofs` | theorems about `Router` | EXTENDS it |
| `RoomRequest` | how a room asks its players, and what wakes it up | uses of `Router` only what `ReplyMatchesRequest` establishes: a recorded reply answers the last request sent |
| `RoomRequestProofs` | theorems about `RoomRequest` | EXTENDS it |
| `GameEvents` | the event manager: two stacks, ids, shutdown, clean-ups | refines `EventFrames` |
| `EventFrames` | abstract specification: game events are nested calls | |
| `GameEventsProofs` | theorems about `GameEvents`, the refinement included | EXTENDS it |
| `RoomLifecycle` | players, rooms, lobby, accounts; who deletes what, on two threads | leaves a running game to `RoomRequest` and `GameEvents`: it may end at any time |
| `RoomLifecycleProofs` | theorems about `RoomLifecycle` | EXTENDS it |
| `RoomThreads` | the pool of room threads, nested constructors, outdated files, the shell renewing them | leaves out observers, robots and owners (`RoomLifecycle`) |
| `RoomThreadsProofs` | theorems about `RoomThreads` | EXTENDS it |
| `Packages` | packages of a server and of a client, the synchronisation between them | `RoomThreads` begins where its `Refresh` ends |
| `PackagesProofs` | theorems about `Packages` | EXTENDS it |
| `Admission` | from the connection to the player: keys, checks, bans, duplicate logins, crashes | leaves rooms to `RoomLifecycle` |
| `AdmissionProofs` | theorems about `Admission` | EXTENDS it |
| `Records` | what games and logins write to the database, from several threads | takes the order of seats from `Room:gameOver` |
| `RecordsProofs` | theorems about `Records` | EXTENDS it |
| `MC...` | the instances TLC checks | |

Planned, in this order:

1. `CardMoves`: `card_place`, areas and piles (`lua/core/room/card_manager.lua`),
   `MoveCards` with cards moved meanwhile, reshuffling. A card is in one place,
   none is lost.
2. `EventSearch`: `bin_search` and `searchEvents` against a reference definition,
   on the id lists that `GameEvents` produces.
3. `Triggers`: the priority loop of `GameLogic:trigger`.
4. `GameFlow` and `Life`: Round, Turn, Phase; hp, dying and death.
5. Proofs: `InOnePlace` of `RoomLifecycle`; an abstract specification of a
   question (asked, answered once or given up, ended) that `RoomRequest` implements.

## 3. How the modules correspond to the code

### Router

One action per step of another thread that can come between: `Router::request`
is `Drain`, `Load`, `Store`, `Expect`, `Send` (draining the semaphore and
`requestId++` happen outside `replyMutex`; `requestId` is read again in the
locked part and again for the packet); `waitForReply(0)` is `Poll`;
`handlePacket` for a reply, `abortRequest` and `setSocket` are one step of the
main thread each. A lost socket may abort the request or not: `kick` takes the
socket off the Router first if something is still unsent. The client is the
environment: it remembers the last request it has received and may answer it at
any time, again and again. `expired` is the comparison with `replyTimeout`, the
only thing the code does with the time. `serial`, `signalled` and `aborted` are
history variables.

### RoomRequest

`Request:ask` is a coroutine, `pc` its position: `send` and `request`
(`_sendPacket`, sampling the state, then `doRequest`), `think`, `head` (top of
the loop), `poll` and `wait` (`_checkReply` and `waitForReply`, which read the
state a second time), `waiting` (yield), `finish`, and between requests `game`
and `delayed`. Each access to what the main thread writes is a step of its own.
Handlers of the main thread that do two visible things are two steps: the reply
is recorded by the Router and then `onReplyReady` resets `thinking` and wakes
the room; `onDisconnected` wakes the room and then sets the state. `wake` is
the queue of wake-ups of the room thread; reasons are as in the code, and `of`
is history (which request's timer, which delay), and so is `unheard`: how many
requests a seat has been asked in since it last answered in time.

A reply is late by the clock of the request it answers. For the reply of a
player who looks at a second question of the same request, that clock begins
with the second packet (`router.cpp:64`); the model takes either outcome for a
reply that is not to the current request, and the beginning of the request for one
that is.

`Questions` are the lists of seats a game may ask, in the caller's order and
each seat once: `toSend`, `players`, `order` and `asked` are lists as in the code,
and who wins a race depends on that order.

Time is counted in half seconds since the request began (`age`), `parity` says
whether it began on a half second: `os.time()` has whole seconds, the QTimer
and the Router's clock do not. Time passes only while the room waits, so the
coroutine is never late by itself.

### GameEvents

One action is one turn of the loop in `GameLogic:start`, up to where the
resumed coroutine yields or ends. `CleanerRuns` is the choice the loop makes
(comparing the ids of the newest event and the newest clean-up). `callee` is
the event a coroutine waits for: while it is set the coroutine is inside
`GameEvent:exec`, and its next step is `Exit`. What events do, and in which
order, is arbitrary, so that every skill is covered.

`EventFrames` has one stack of frames, each `main` or `clean`. The refinement
mapping `FramesOf` forgets the clean-ups and all ids but those of events; an
event whose status is `dead` is a frame being cleaned.

### RoomLifecycle

`server` is the heap of the main thread: `ServerPlayer` objects (`obj`), rooms,
the table of rooms that can be found, the lobby, the table of accounts, what is
posted to the event loop (queued `kicked` signals, `deleteLater`), and `fault`.
A handler of the main thread is atomic, all its direct signal connections
included, and is a function from heap to heap with the name of the method:
`Leave` is `Room::removePlayer`, `RunAway` its branch for a running game, `Kick`
is `ServerPlayer::kick`, `Destroy` and `DestroyRoom` are the destructors.

The room thread works on the same heap in smaller steps (`rt`): `FindRoom` and
`RegisterRoom` (the reference is taken after the room was found), `GameOver`,
one `Scan` per player, `DeleteScanned`, `CloseRoom`.

Three choices are inputs: `flushed` (whether the socket had anything left to
write when a player is kicked, on which it depends whether `disconnected` is
emitted), `died` (whether a runner was dead), and when the game ends. Freed
objects are reset to one value, since nothing may read them; whoever does, or
uses a null socket, sets `fault`, after which nothing happens. So every property
is about runs up to the first such use; the faults themselves are in section 5.

`~Room` iterates over `players` while `removePlayer` shortens it; the model
visits all players, which is what happens with up to two humans. Its loops, and
the one of `gameOver` in the main thread, are functions of their own (`Dismiss`,
`TurnOut`, `LetGo`), written over `InTurn`, a recursive function.

### RoomThreads

`frames` is the stack of unfinished handlers of the main thread. `CreateRoom`
either finds a fit thread (and goes on at once, `placing`) or makes one and stays
`waiting` in the constructor's event loop, which serves further messages; the
loop is told to quit by `Load` (`scheduler_ready`) or by the destructor
(`quitting`), and returns when it is innermost. `Place` is the rest of
`createRoom`, with what was decided before. `processRequest` is two steps
(`Login`, `Admit`), since the shell may renew the MD5 between them.
`refreshMd5` is cut where it goes from one table to the next: `Recalculate`,
`VisitRooms`, `VisitThreads`, `KickLobby`; what it posts to the main thread is
`posted`. `Latch` is what `isOutdated` does to the label it compares: a label that
was unequal once becomes "", so that the MD5 may come back. A version of the
files stands for its MD5. A use of a deleted owner or thread sets `fault`, and
nothing happens after it. `slipped`, `own` and `midway` are history variables:
the named ways around the promises.

### Packages

The state of a host is its table (`row`), its directories (`dir`: what HEAD,
the branch and the files are at), the list in memory (`list`) and the command
under way (`job`). A command is one action per effect that a crash can separate:
clone, insert, status, pull, checkout, record, remove, refresh. Clone, pull and
checkout are two effects each, since git moves HEAD before the files: `Clone` and
`CloneFiles`, `Pull` and `PullFiles`, `Checkout` and `CheckoutFiles`; the second
one may fail in the middle (`Tears`), and a crash may leave a forced checkout half
done (`Left`). The MD5 is what is counted in it (`Counted`). Git operations may
fail at any time, and a developer may change files by hand at any time (`Edit`),
in the middle of a command too. Three things are history: `odd` names packages with
a mishap (section 4), `cut` a directory whose last forced checkout stopped between
HEAD and the files, `raced` a command whose package was changed after `status` had
looked at it.

### Admission

A connection is a record with the two directions of its stream and the key of
each side. `processRequest` is cut at its accesses to the database, because the
shell writes there too and the server may crash there: `CheckClientVersion`,
`CheckDevice`, `InstallKey`, `QueryUserInfo`, `RegisterGameInfo`,
`CheckPassword`, `RecordLogin`, `InsertPlayer`. In between the main thread takes
nothing else. A command of the shell is a sequence of steps (`Commands`). A
device stands for its address and its uuid. `flushed` is as in `RoomLifecycle`.
`slipped` is history: connections of a user who was banned between his lookup
and his insertion. The SELECT after the first INSERT of a registration is in one
step with the second INSERT: a ban concerns another row, so one that comes between
them might as well come after. Refusals that depend on the text of the Setup or of
the name (no JSON array, a short password, an invalid or banned name, the
whitelist) are left out: they end as the modelled ones do, before anything is read
or written.

### Records

`rec` is where a room thread is in the writing down of a game: for each human
`updatePlayerWinRate` (SELECT, then UPDATE or INSERT), `addRunRate` for runaways,
the packet about it, `updateGeneralWinRate`; then the transaction of
`Room::gameOver`, then its packets. `db` has the connection's view (`mem`), the
file (`disk`) and whether a transaction is open; the connection is shared, so a
statement of any thread belongs to the open transaction. A packet needs the main
thread in its event loop (`MainServes`), which is not there during a login. Wins,
losses and draws are one counter per row, since which of them is counted does
not matter to what may be lost. A seat has one general; the second
`updateGeneralWinRate`, for a deputy general, is left out.

## 4. Runs

| run | states | question | bounds |
|---|---|---|---|
| `router_one_thread` | 219 654 | do ids do their job when one thread issues them? | 2 players, 2 requests each, 1 packet of a client unread |
| `router_two_threads` | small | and with two room threads? (no: section 5) | the same, one player per thread |
| `request_answers` | 2 329 374 | race of two humans and a robot for one answer, two lost connections | 1 request, time-out 1 s |
| `request_turns` | 1 567 373 | one human answers for two seats in two requests with a delay before one of them, may surrender, is kicked for idleness in both | 2 requests, `MaxWaste` 2 (3 in the code) |
| `request_ends` | 195 115 | does every request end? (liveness) | 2 humans, 1 request, 1 lost connection |
| `events` | 107 738 | the event manager, refinement included | ids up to 6 (7, with 695 774 states, shows nothing else) |
| `lifecycle` | 236 237 | where players and rooms are, and who deletes them | 2 accounts, 3 connections, 3 player objects, 1 room of 2, 1 game, 1 kick out of the room, 1 lost connection or heartbeat kick |
| `room_threads` | 583 809 | capacity, outdated files, nested constructors | 2 clients, 2 versions, 1 room per thread, 2 threads, 2 rooms, 2 changes of the files, 2 logins, 1 game |
| `room_threads_lost` | small | is whoever starts a game heard by Lua? (no: section 5) | the same, 3 logins |
| `packages` | 1 223 339 | tables, directories and lists of two hosts | 2 packages, 1 commit published, 1 command or edit on each host, 2 synchronisations, 1 crash |
| `admission` | 69 716 | the handshake, bans, duplicate logins | 1 account, 1 device, 2 connections, capacity 1, 1 command of the shell, 1 crash |
| `records` | 118 523 | counters and transactions | 2 room threads, 2 games, 1 login, 1 crash |

What they show:

* **router_one_thread**: under all interleavings of request, reply, abort,
  reconnect, late and repeated answers, what the room reads answers the current
  request (`ReplyMatchesRequest`), one `replyReady` per request, and the first
  answer in time is not lost.
* **request_answers**: with an answer recorded a wake-up is on its way
  (`NoLostReply`); the AI answers only when no human is left who could
  (`AIAnswersLast`); not more winners than asked for (`RaceIsFair`).
* **request_turns**: an answer is stored for its seat and request
  (`AnswersAreTheirs`; players who reconnect are excepted, see section 5); only idleness counts
  as idleness: the count of a seat rises only without an answer and only when the
  time is up, he has surrendered or is gone; it never exceeds the number of
  requests since he last answered in time, and nobody is told to leave before that
  many (`WasteIsIdleness`). With `MaxWaste` 2 the count goes on from one request to
  the next, and is reset in between by an answer. Excepted, and named in the
  property: an answer dropped at the deadline (section 5) counts as idleness.
* **request_ends**: `AskEnds`.
* **events**: the clean-up that runs is that of the newest event; `shutdown`
  ends all newer events; id ranges of events nest; exit functions run at most
  once; all of it behaves as nested calls.
* **lifecycle**: who lives is in exactly one list, the one `room` names, and
  who is deleted in none (`InOnePlace`); one connected player per account
  (`OneSession`); an abandoned room is deleted by one of the two threads
  (`AbandonedIsFreed`); owners are present (`OwnerPresent`).
* **room_threads**: a thread has at most one room too many, and that one is the
  room it was made for (`CapacityKept`); players of a game have the files its
  Lua was loaded from (`SameFiles`), who has other files than the server is
  confined to games and outdated rooms (`StaleAreConfined`), and what was found
  outdated stays so when the old MD5 comes back (`OutdatedForGood`) -- each
  apart from the ways round that the comments of the properties name; no
  constructor waits for ever (`LoopsQuit`).
* **packages**: what the server advertises is what its MD5 counts
  (`Advertised`); a synchronisation that reports no error delivers it
  (`SyncDelivers`) and lets the client in (`SyncedGetsIn`), also after others that
  failed or crashed, but for one case the properties name: a checkout that was cut
  between HEAD and the files, which is not repaired (section 5). Edits are lost
  only with their package, or if they were made between `status` and the forced
  checkout of the same command (`EditsSurvive`). Packages with a mishap are
  excepted: a clone failed, a disabled package was removed and installed again, a
  crash came between table and directory, `checkout_branch` left other files, files
  were changed by hand.
* **admission**: both sides change over to the key at the right message
  (`SameCipher`); bans hold (`BansHold`, apart from who was looked up before);
  nobody is logged in twice (`OneLogin`); a registration cut short by a crash is
  made up for (`AdmittedHasRows`); silent clients are not waited for
  (`HandshakeEnds`).
* **records**: one transaction at a time (`OneTransaction`), whole on the disk
  (`TransactionsWhole`); nothing is counted twice, and only what was raced for
  is lost (`CountedOnce`); everything is written down in the end, the mutex and
  the main thread never wait for each other (`RecordsEnd`).

Why the bounds are enough: two requests to a player are needed for a stale
reply and two players for a clash of ids; six ids allow an event that calls
inside the clean-up of an event that was shut down two levels below; three
player objects are two humans with a runner or a robot; a second login of an
account, a lost connection and a kick can all happen around one game. Two
threads of one room each are the smallest pool in which a room is put on a thread
under construction while a second constructor is nested; two changes of the files
let the old MD5 come back. A crash in the middle of a command and a
synchronisation after it need one crash and two synchronisations;
`Packages_server.cfg` has two commands on the server and one synchronisation
instead (270 466 states), and passes too. Two connections of one account are a
duplicate login, with a ban in the middle. Two games that end at once share a
counter, a runaway of the one being a player of the other. `RoomThreads_types.cfg`
checks `TypeOK` of `RoomThreads` at the bounds of `room_threads`.
Deadlock is not checked: at the bounds the systems stop, and a game or a server
may stop.

Symmetry is used in `lifecycle`, `room_threads` and `packages` (accounts,
clients and packages are interchangeable; no liveness there, the action
properties speak of single steps).

## 5. Where code and comments disagree, and what else was met

With a run:

* **Ids of two threads** (`router_two_threads`; `src/network/router.cpp:59`). The
  unprotected `static int requestId` can repeat, and an old answer is taken for
  the new request. With one room thread this cannot happen (proved).
* **Lost start** (`room_threads_lost`; `src/server/server.cpp:98`). `createRoom`
  takes threads into account whose constructor is still in its nested loop. A
  room on such a thread can be started before `RoomThread::run` has connected
  `pushRequest`: the game is started for ever and Lua never hears of it.

With a configuration beside the modules (`tlc -config <cfg> <MC module>` gives
the counterexample):

* **Stale timer** (`RoomRequest_stale_timer.cfg`, `NoEarlyTimeout`;
  `src/server/room.cpp:668`). A time-out already posted cannot be recalled: it
  reaches the next request and gives its players up at once.
* **Robots** (`RoomRequest_robots.cfg`; `src/server/serverplayer.cpp:249`). The
  room is woken before the state is `Offline`, and waits for somebody who is
  gone, until the timer.
* **Deadline** (`RoomRequest_deadline.cfg`; `lua/server/network.lua:209`). An
  answer recorded in time is dropped: whole seconds are compared on one side.
  The seat then counts as idle for this request.
* **Reference too late** (`RoomLifecycle_kept.cfg`, `RoomKept`;
  `lua/server/scheduler.lua:21`). `registerRoom` counts its reference after it
  has found the room, which may be on its way to `deleteLater` by then.
* **Back too early** (`RoomLifecycle_absent.cfg`, `CleansTheAbsent`;
  `src/server/room.cpp:541`). Who reconnects between scan and `deleteLater` is
  deleted while online.
* **Missing clone** (`Packages_missing.cfg`, `MissingIsCloned`;
  `src/core/packman.cpp:74`). A clone that failed has made the row all the same,
  so every later synchronisation skips the clone; `docs/dev/package.rst:32` says
  a missing package is downloaded first.
* **Cut checkout** (`Packages_cut.cfg`, `FilesDelivered`; `src/core/packman.cpp:87`).
  A checkout moves HEAD first (343) and then the files (345). If it fails or
  crashes in between, HEAD is at the hash asked for with the files of
  another commit; the next synchronisation compares HEAD and the hash only, skips the
  package and ends without an error, with the wrong files. `package.rst:30-31`
  says a synchronisation checks every package of the list.
* **Changed directory not looked at** (`Packages_dirty.cfg`, `DirtyIsReported`;
  `src/core/packman.cpp:87`). `package.rst:35` says a changed directory stops its
  update with an error; if HEAD is the hash asked for, nobody looks at it.
* **Lost count** (`Records_lost.cfg`, `EveryGameCounts`;
  `src/server/room.cpp:386`). Two games that end at the same time with the same
  general read the same counter and write the same sum; one of them is lost.
  `server.h:120` says the lock is there because several threads use the database.

Met in the same models, without a run of their own:

* Winners of a race: replies that wait together are polled from the last seat
  down (`network.lua:229`), although `network.lua:15` has `winners` sorted by
  the order of the replies.
* `Room:delay` (`room.lua:658`) takes any resumption for its end, so a wake-up
  left over from a request cuts the delay short; its own `delay_done` arrives
  later, elsewhere.
* A reply to the previous request is read as one to this request if the player
  disconnects between `network.lua:111` and 112 and comes back. A player who
  comes back between the head of the loop (`use_ai` is computed at 225) and the
  poll has his reply taken undecoded (234). `AnswersAreTheirs` excepts both.
* A quick answer for the first of a player's seats is overwritten by the
  `doRequest` for his second (`network.lua:83-89`), which finds `thinking`
  reset.
* A reconnection wakes nobody up; the request goes on with its timer.
* `Router::abortRequest` never runs when a player of a started game loses his
  connection: `onDisconnected` is connected first and takes the socket off the
  Router. The room goes on by the wake-up alone.
* A shutdown called from a clean-up is swallowed (`gamelogic.lua:536-543`);
  `docs/diy/10-eventstack.rst:87` says it ends everything up to the event.
* Exit functions of an event are skipped when the caller is killed too
  (`gameevent.lua:231`), although `gameevent.lua:11` says they run after it ends.
* `searchEvents` includes the event `from` in its linear branch (fewer than six
  events) and excludes it in the binary one (`gameevent.lua:145-214`). Read, not
  modelled yet.
* The game timer counts twice what has passed when a player is kicked
  (`stateChanged` twice without a restart). Read, not modelled.
* Faults reached by `RoomLifecycle`: `scan` (a player leaves the room while
  gameOver walks over its copy of the list, and is deleted, `room.cpp:516`);
  `removeSocket` (a game starts while a player's `deleteLater` is pending: his
  destructor leaves a started room without a socket, `room.cpp:214`); `lua` and
  `register` and `close` (a room that was freed although registered, or between `findRoom` and
  the reference); with `Capacity` 3 also `owner` (the owner leaves to a robot,
  the game is over, the robot is deleted and stays owner; the next to enter
  reads it, `room.cpp:156`).
* Faults reached by `RoomThreads`: `createRoom` (the owner disconnected, or the
  new thread was deleted by `stat` or `refreshMd5`, during the nested loop,
  `server.cpp:117`); `rooms` (a thread found without rooms gets one before its
  `deleteLater`, which deletes it as a child while `Server.rooms` still has it);
  `getLua` (`stat` reads `m_scheduler` of a thread that is starting, before
  anything was written there).
* `roomthread.cpp:71` says that outdated threads stay so; a room made between
  `VisitRooms` and `VisitThreads` keeps a current label on an outdated thread.
* A dead player who leaves a running outdated game is not kicked (`room.cpp:603`
  kicks the object he has left), and who comes back to a game on old files with
  new ones is let in: `SameFiles` and `StaleAreConfined` except both.
* Files changed between `status` (`packman.cpp:172`, 194) and the forced checkout
  (319, 345), which may be a download apart, are lost without an error;
  `EditsSurvive` excepts them by `raced`.
* A player who reconnects does not pass the transaction of the login: `banip` and
  `banuuid` by his name ban the device of his earlier login (`auth.cpp:175`).
* A connection that is refused after its Setup is never deleted; the capacity is
  asked when the connection comes and not when the player is inserted.
* A room thread in `Router::sendMessage` waits for the main thread, which waits
  for it in `~RoomThread`, if the server is closed during a game. Read, not
  modelled.
* `temp_banlist` is appended to from the room thread without a lock. Read, not
  modelled.
* A login while `deleteLater` is pending revives the object, which is then
  destroyed with its new connection. Who disconnects during `insideGameOver`
  after the scan has passed him stays in the room as a robot that nobody
  deletes. A kick with unsent data in the lobby leaves an `Offline` player
  there, although `docs/dev/protocol.rst:205` says that who is offline is in a
  started room. Whoever comes back to such a player is sent an error and kicked in
  the same handler (`serverplayer.cpp:155`), so something is unsent again and he
  stays.
* The heartbeat thread (`server.cpp:52`) walks over players that the main thread
  may be deleting. Read, not modelled.

## 6. Fairness

* `RoomRequest` (`AskEnds`): `FairSpec` assumes weak fairness of the coroutine
  (the room thread's loop resumes it, and it does not block between yields), of
  the delivery of wake-ups (`WakeUp`) and of posted slots (`ReplyReady`,
  `Disconnected`, `RelayTimer`: Qt event loops serve what is posted), of the clock
  (`Tick`) and of the timer going off. Nothing is assumed of players, of the game
  between requests, or of anything that begins a request.
* `Admission` (`HandshakeEnds`): weak fairness of the request being served, of
  the Setup being taken and of the sign-up timer. Nothing is assumed of clients,
  who may stay silent, nor of the shell.
* `Records` (`RecordsEnd`): weak fairness of the main thread inside a login and
  of every room thread that writes a game down. A QMutex is not fair; games and
  logins are bounded, so nobody is overtaken for ever.

## 7. What is proved

For every value of the constants:

* `RouterProofs`. `Typing` and `OneSignal` hold for any number of room threads:
  an id that was answered is not expected any more. `IdsAlwaysAgree`,
  `ReplyMatches` and `FirstReply` assume one room thread (`\A s, t \in Threads :
  s = t`), which `router_two_threads` shows to be needed. `ReplyMatchesRequest`
  is not inductive: it needs that a packet carries the expected id only if it
  belongs to the current request, and that an id is fresh from `requestId++` to
  the packet. That is `IdsAgree`, checked by TLC and proved by one lemma per
  action.
* `RoomRequestProofs`. One inductive invariant (`Inv`), part by part, gives
  `Typing`, `Heard`, `HumansFirst`, `FairRace`, `OwnAnswers` and `IdleOnly`. None of
  these is inductive. That replies are noticed (`Noticed`) is about the cursor:
  a recorded reply that was not polled lies ahead of it, or the poll goes round again
  (`changed`), or a wake-up or the slot that posts it is on its way. That
  the AI comes last needs who has been sent the request (`Asking`), that nobody is
  taken off the list without a result unless the time is up (`Accounted`), and that
  while the AI has its turn (`AITurn`) only those who have lost their connection can be
  seen as gone. That an answer is the player's own needs what the Router
  holds for each player: it answers the question he looks at, unless he has been
  away (`Current`); there the proof uses what `Router` shows. That losers of a race do
  not count as idle needs winners and players kept apart, without repetitions
  (`Distinct`), and that the list is emptied with the last winner (`Limit`).
  `IdleOnly` has one more invariant (`Unheard`: no seat's count exceeds the requests
  since it last answered in time); where the count rises, the seat was asked and left
  the list without an answer (`Wasters`), so both rise by one.
  Assumed is what `ConstantsAssumption` says of the table.
* `GameEventsProofs`. `Typing`, then `StacksAgree`: ids grow in both stacks, the
  clean-ups are those of the dead events in the same order, and the id of a
  clean-up lies between its event and every newer one. From it follows the lemma
  everything rests on (`TopDead`): the loop runs a clean-up exactly when the
  newest event is dead, and it is that event's. Hence `PopsItsOwnEvent`, and with
  it `ShutdownReachesAll` and `EventsAreNestedCalls`: initial states map to
  initial states of `EventFrames`, every step to a step of it or a stutter.
  `RangesAreNested` needs the events still on the stack: each was called
  by the one below (`ParentsBelow`), and no ended range reaches up to a newer one
  of them (`EndedApart`). `ExitsRunOnce` needs that an event has at most one caller
  waiting for it, among events, clean-ups and the loop (`Waits`), since it is the caller who
  runs the exit functions. The only assumption is that `MaxId` is a natural number.
* `AdmissionProofs`. `Typing`, `SingleLogin`, `Bans` and `Registered` follow from
  one inductive invariant with a lemma per group of actions. What has to be
  added to them: players and connections point at each other (`Linked`), which is
  why at most one connection is a player's; what a request already knows at each
  place of `processRequest` (`Asked`: from the password on, the name is registered
  and was not banned when it was looked up, and from the transaction on nobody
  else of that name is there); the shell is between banning and searching
  (`Searching`), the only time a banned player may be online unannounced; who is
  registered has an address (`Rows`), which `banip` writes down. `Decodable` has an
  invariant of its own (`Codes`): before the key the two sides take turns, so
  nothing is on its way while the server works on the Setup (`Agree`); once the
  server has the key, InstallKey is the first thing the client will read, in plain
  text and with only coded messages behind it, and the client sends nothing before
  it has read it (`Keyed`). Assumed: the
  connections are numbered from 1, "none" is no device.
* `RecordsProofs`. `Typing`, `Exclusion`, `WholeOnDisk`, `CountsOnce`. That a transaction is on
  the disk as a whole needs, for its thread, which seats' times are in the
  connection's view and that the file has none of them (`TimedInv`: before, at
  and after each seat), and for everybody else that nothing of theirs is half
  there while he commits (`Apart`); the same for logins (`LoggedInv`). The counters
  (`CountInv`) are compared with `Done(k)`: the entries the games make due to
  counter k without those a thread has still to write, which follow from its place
  alone (`Ahead`). A row is never above the number of these (`Below`), nor is what
  a thread has read and not yet written (`Reads`), and without crashes the row is
  that number unless it was raced (`Exact`). A step leaves every `Done(k)` as it is,
  except that a write adds exactly its entry (`Moves`, `OneMore`); a crash only
  enlarges it, since nobody has anything to write any more. Assumed: the
  main thread is no room thread, and a user has one seat per game.
* `PackagesProofs`. `Typing` and `Edits` follow from one invariant, host by host
  (`Inv`, `HostOK`). `EditsSurvive` is not provable from the types: changes in the
  directory of a job from `pull` to the end of its forced checkout were made after
  the status, and the job is then marked as raced (`Job`); a directory about to be
  filled by a clone is empty; and who looks up a package to enable must find its
  row, which only a command could remove. `Summaries`, `Synchronised` and `GetsIn` need a second one (`Sums`): for
  every package without a mishap the files are those of HEAD unless a command is
  between the two or a checkout was cut there (`Agreed`), and the row of a server
  says what the files are, cut or not, except right before it is written (`Held`):
  a pull that is cut leaves both the old files and the old row. No
  hash of a row is empty, since it was read from a HEAD (`Hashed`). For the
  client, the summary has each package once and what it has still to do is
  part of it (`Agenda`), and what it has done has HEAD at its hash, and the rest is
  untouched (`Synced`). Assumed: client and server are two hosts, the bounds are natural numbers.
* `RoomLifecycleProofs`. `Typing`, `OneSessionEach`, `NoneIsForgotten` and
  `OwnersArePresent` follow from one inductive invariant (`IInv`) in three parts. A
  handler of the main thread is a function from heap to heap, often a nest of
  them, so the first part (`Good`) is about any heap, and each helper is shown to
  keep it and to be a step that moves nobody into or between rooms (`Quiet`), or one
  that leaves references, lives and running games of the rooms alone (`Onward`), or
  does so for all rooms but one (`Aside`). In the middle of a handler a room may
  break its promises: the owner has left and nobody has inherited yet (room `y`), or
  it is abandoned and its deletion is being carried out (room `x`); the places for
  these are parameters of `Good`, and empty between handlers. For accounts
  (`Sessions`) it says who has a socket is the one his account is known by, who is
  known is alive, robots stay robots, what is posted is about players that exist and
  a signal `kicked` never about a robot. For rooms
  (`Households`): whatever can be found has a human in it; a live abandoned room
  without a reference has its `deleteRoom` posted, which `AbandonedIsFreed` needs,
  being about quiet moments only; an owner is in his room or a deleted robot. The
  second part (`Threads`) types the room thread. The third (`Games`) relates the two
  threads while there is no fault: a room has a reference exactly when Lua has a
  room for it, is queued at most once, is not registered twice, and is started, or
  deleted, as long as Lua has not been told. Loops (`~Room`, `gameOver`) are the
  recursive function `InTurn`: what every turn keeps the loop keeps.
  Assumed: rooms are numbered from 1, no account is the robots', a room has a place.
* `RoomThreadsProofs`. `Typing`, `Capacity` and `LoopsQuitting` follow from one
  invariant (`Inv`). `CapacityKept` needs to know of every unfinished handler what
  is still true of its thread (`FrameOK`): only the innermost one can be about to
  place a room without having been through a constructor, and then its thread has a
  place left; the thread a handler has constructed has no room too many until that
  room is placed, and no two handlers have constructed the same. A room is newer
  than all others of its thread when it is placed, since rooms are not made before
  their number (`Unmade`): so the one too many is the greatest. Steps that make no
  room and no handler are treated together (`Mild`). `FilesMatch`, `Confinement`
  and `ForGood` have an invariant of their own (`Renewal`): between two renewals a
  thread's label is current or latched, and who was found outdated stays latched
  (`OfThreads`); the label of a room is that of its thread unless one of them was
  asked already (`LikeThread`), a room with a label that is neither current nor latched
  was made during a renewal and nobody has entered it since (`Stray`), and a thread
  about to be deleted has no game (`Doomed`); a client who did not move while the
  files were renewed has the server's files, or is in the lobby before it is
  emptied, or in an outdated room, or about to be kicked (`Confined`), and in a room he has
  those of its thread (`Matched`). A step does to a room only what `Shift` allows: an
  outdated room gains neither players nor a game, and a room out of the list gains
  no game. Assumed: versions are positive numbers, the first
  one is 1, capacities are positive.

## 8. Only model-checked

Liveness (`AskEnds`, `HandshakeEnds`, `RecordsEnd`), which is out of the
prover's reach. `InOnePlace` of `RoomLifecycle`: it counts how often a player
stands in each list, through every loop of both destructors; planned.

## 9. Not modelled

* The rest of client and UI, bindings, AI: not the server's core logic; the
  client is an environment that may do anything.
* The replayer (`src/client/replayer.cpp`) only plays back a file. Read: quitting
  a paused replay leaves its thread blocked in `play_sem.acquire`.
* Framing, compression, RSA, UDP discovery: I/O and data.
* Contents of questions and answers, default replies, the `luck_data` branch,
  the overload delay inside `doNotify`, the states Run and Trust of seats
  (`RoomRequest`).
* `prepare()` of an event refusing it (nothing is pushed then), errors in
  `ClearEvent` outside `Pcall` (`GameEvents`).
* Temporary bans of addresses, game timers, room names and passwords, ready flags
  and chat, `runned_players` (a message only) (`RoomLifecycle`).
* Which of win, loss and draw is counted, statistics in `SendNews` (`Records`).
* Reading the configuration again, messages to all, `resetpassword` (`Admission`).
* Game rules (moves, triggers, flow, life): planned, section 2.
