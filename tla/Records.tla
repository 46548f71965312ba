------------------------------- MODULE Records -------------------------------
(***************************************************************************)
(* What the server writes down about games: Room::updatePlayerWinRate,     *)
(* updateGeneralWinRate, addRunRate and gameOver (src/server/room.cpp),    *)
(* called by Room:gameOver (lua/server/room.lua), Server::beginTransaction *)
(* and endTransaction, and the transaction of a login (src/server/         *)
(* server.cpp), over Sqlite3 (src/core/c-wrapper.cpp).                     *)
(*                                                                         *)
(* All threads use one connection: what a thread executes while another    *)
(* has a transaction open belongs to that transaction.  A room thread that *)
(* sends to a client waits for the main thread to do it (Router), and the  *)
(* main thread waits for transaction_mutex when somebody logs in.  A       *)
(* counter is read by one statement and written by another.                *)
(***************************************************************************)
EXTENDS Integers, Sequences, FiniteSets

CONSTANTS
  Threads,     \* room threads
  Main, Free,  \* the main thread; transaction_mutex is unlocked
  Users, Generals,
  Tables,      \* the human seats of a game as it ends, a set of sequences
  MaxGames, MaxLogins, MaxCrashes  \* bounds

ASSUME RecordsConstants ==
  /\ Main \notin Threads /\ Free \notin Threads \cup {Main}
  /\ \A seats \in Tables :
       /\ seats \in Seq([user : Users, general : Generals,
                         state : {"online", "offline", "run"}]) /\ seats # <<>>
       /\ \A i, j \in DOMAIN seats : seats[i].user = seats[j].user => i = j
  /\ {MaxGames, MaxLogins, MaxCrashes} \subseteq Nat

VARIABLES
  rec,      \* the game a room thread writes down, and where it is
  login,    \* the transaction of a login, where it is
  mutex,    \* who holds transaction_mutex
  db,       \* the database: as its connection sees it, as it is on the disk
  games,    \* the games that ended (history)
  raced,    \* counters that changed between a thread's find and write (history)
  crashes   \* history

vars == <<rec, login, mutex, db, games, raced, crashes>>

\* pWinRate of a user, gWinRate of a general, runRate of a user, for one mode
\* and role; the wins, losses and draws of a row are counted together.
Counters == ({"player", "run"} \X Users) \cup ({"general"} \X Generals)

NoGame  == [at |-> "idle", game |-> 0, seat |-> 0, read |-> 0]
NoLogin == [at |-> "idle", number |-> 0]
\* rows: a counter, 0 if there is no such row; timed: whose time is added for
\* which game; logged: which statements of which login are done.
Empty   == [rows |-> [k \in Counters |-> 0], timed |-> {}, logged |-> {}]

Init ==
  /\ rec = [t \in Threads |-> NoGame]
  /\ login = NoLogin /\ mutex = Free
  /\ db = [mem |-> Empty, disk |-> Empty, open |-> FALSE]
  /\ games = <<>> /\ raced = {} /\ crashes = 0

-----------------------------------------------------------------------------
\* A statement is on the disk at once, unless a transaction is open, whosever.
Exec(mem) == db' = [db EXCEPT !.mem = mem, !.disk = IF db.open THEN @ ELSE mem]

Seats(t) == games[rec[t].game].seats
Seat(t)  == Seats(t)[rec[t].seat]
Is(t, at) == rec[t].at = at
Goto(t, at) == rec' = [rec EXCEPT ![t].at = at]

\* The thread goes on with its next human, or else as `after' says.
NextSeat(t, at, after) ==
  LET more == rec[t].seat < Len(Seats(t))
  IN rec' = [rec EXCEPT ![t].at = IF more THEN at ELSE after,
                        ![t].seat = IF more THEN @ + 1 ELSE 1]

\* The SELECT, then the INSERT if there was no row (the primary key refuses a
\* second one, and nobody looks at the error) or the UPDATE.
FindRow(t, k, to) ==
  /\ rec' = [rec EXCEPT ![t].at = to, ![t].read = db.mem.rows[k]]
  /\ UNCHANGED <<login, mutex, db, games, raced, crashes>>

Counted(row, read) == IF read = 0 /\ row # 0 THEN row ELSE read + 1

WriteRow(t, k) ==
  /\ Exec([db.mem EXCEPT !.rows[k] = Counted(@, rec[t].read)])
  /\ raced' = IF db.mem.rows[k] = rec[t].read THEN raced ELSE raced \cup {k}
  /\ UNCHANGED <<login, mutex, games, crashes>>

-----------------------------------------------------------------------------
(* A room thread ends a game.                                               *)

\* A user has two games only if he ran away from one of them.
Playing(seats) == {seats[i].user : i \in {j \in DOMAIN seats : seats[j].state # "run"}}

\* Room:gameOver of Lua; `counted' says whether the mode updates win rates.
GameEnds(t, seats, counted) ==
  /\ Is(t, "idle") /\ Len(games) < MaxGames
  /\ \A s \in {r \in Threads : ~Is(r, "idle")} : Playing(seats) \cap Playing(Seats(s)) = {}
  /\ games' = Append(games, [seats |-> seats, counted |-> counted])
  /\ rec' = [rec EXCEPT ![t] = [at |-> IF counted THEN "player" ELSE "lock",
                                game |-> Len(games) + 1, seat |-> 1, read |-> 0]]
  /\ UNCHANGED <<login, mutex, db, raced, crashes>>

FindPlayer(t) == Is(t, "player") /\ FindRow(t, <<"player", Seat(t).user>>, "playerSet")
\* Then the runaways; a runaway is not in the room any more and gets no news.
WritePlayer(t) ==
  /\ Is(t, "playerSet")
  /\ WriteRow(t, <<"player", Seat(t).user>>)
  /\ Goto(t, IF Seat(t).state = "run" THEN "run" ELSE "news")

FindRun(t) == Is(t, "run") /\ FindRow(t, <<"run", Seat(t).user>>, "runSet")
WriteRun(t) ==
  /\ Is(t, "runSet")
  /\ WriteRow(t, <<"run", Seat(t).user>>)
  /\ Goto(t, "general")

\* The main thread sends for a room thread, from its event loop.
MainServes == login.at = "idle"

\* updatePlayerGameData: everybody hears of the player's new rates.
SendNews(t) ==
  /\ Is(t, "news") /\ MainServes
  /\ Goto(t, "general")
  /\ UNCHANGED <<login, mutex, db, games, raced, crashes>>

FindGeneral(t) ==
  Is(t, "general") /\ FindRow(t, <<"general", Seat(t).general>>, "generalSet")
WriteGeneral(t) ==
  /\ Is(t, "generalSet")
  /\ WriteRow(t, <<"general", Seat(t).general>>)
  /\ NextSeat(t, "player", "lock")

\* mutant: no mutex
LockNot(t) ==
  /\ Is(t, "lock") /\ Goto(t, "begin")
  /\ UNCHANGED <<login, mutex, db, games, raced, crashes>>
\* Room::gameOver of C++: the transaction.
Lock(t) ==
  /\ Is(t, "lock") /\ mutex = Free
  /\ mutex' = t /\ Goto(t, "begin")
  /\ UNCHANGED <<login, db, games, raced, crashes>>

\* mutant: every statement by itself
BeginNot(t) ==
  /\ Is(t, "begin") /\ Goto(t, "time")
  /\ UNCHANGED <<login, mutex, db, games, raced, crashes>>
\* A BEGIN within a transaction is an error that nobody looks at.
Begin(t) ==
  /\ Is(t, "begin")
  /\ db' = [db EXCEPT !.open = TRUE] /\ Goto(t, "time")
  /\ UNCHANGED <<login, mutex, games, raced, crashes>>

\* mutant: everybody who is not online has left
AddTimeNotOnline(t) ==
  /\ Is(t, "time")
  /\ Exec([db.mem EXCEPT !.timed = @ \cup {<<rec[t].game, Seat(t).user>>}])
  /\ IF Seat(t).state # "online" THEN Goto(t, "left")
     ELSE NextSeat(t, "time", "commit")
  /\ UNCHANGED <<login, mutex, games, raced, crashes>>
\* totalGameTime of a human; the one who is offline has left.
AddTime(t) ==
  /\ Is(t, "time")
  /\ Exec([db.mem EXCEPT !.timed = @ \cup {<<rec[t].game, Seat(t).user>>}])
  /\ IF Seat(t).state = "offline" THEN Goto(t, "left")
     ELSE NextSeat(t, "time", "commit")
  /\ UNCHANGED <<login, mutex, games, raced, crashes>>

FindLeft(t) == Is(t, "left") /\ FindRow(t, <<"run", Seat(t).user>>, "leftSet")
WriteLeft(t) ==
  /\ Is(t, "leftSet")
  /\ WriteRow(t, <<"run", Seat(t).user>>)
  /\ NextSeat(t, "time", "commit")

Commit(t) ==
  /\ Is(t, "commit")
  /\ db' = [db EXCEPT !.disk = db.mem, !.open = FALSE] /\ Goto(t, "unlock")
  /\ UNCHANGED <<login, mutex, games, raced, crashes>>

\* mutant: the clients are told before the mutex is unlocked
UnlockLater(t) ==
  /\ Is(t, "unlock") /\ MainServes
  /\ mutex' = Free /\ Goto(t, "tell")
  /\ UNCHANGED <<login, db, games, raced, crashes>>
Unlock(t) ==
  /\ Is(t, "unlock")
  /\ mutex' = Free /\ Goto(t, "tell")
  /\ UNCHANGED <<login, db, games, raced, crashes>>

\* AddTotalGameTime, to everybody, about one human after the other.
SendTime(t) ==
  /\ Is(t, "tell") /\ MainServes
  /\ NextSeat(t, "tell", "idle")
  /\ UNCHANGED <<login, mutex, db, games, raced, crashes>>

-----------------------------------------------------------------------------
(* The main thread records a login.                                         *)

LoginAt(at) == login.at = at
LoginTo(at) == login' = [login EXCEPT !.at = at]

LoginStarts ==
  /\ LoginAt("idle") /\ login.number < MaxLogins
  /\ login' = [at |-> "lock", number |-> login.number + 1]
  /\ UNCHANGED <<rec, mutex, db, games, raced, crashes>>
LoginLocks ==
  /\ LoginAt("lock") /\ mutex = Free
  /\ mutex' = Main /\ LoginTo("begin")
  /\ UNCHANGED <<rec, db, games, raced, crashes>>
LoginBegins ==
  /\ LoginAt("begin")
  /\ db' = [db EXCEPT !.open = TRUE] /\ LoginTo("ip")
  /\ UNCHANGED <<rec, mutex, games, raced, crashes>>
\* lastLoginIp; then the device, the row of the user and the time.
LoginWrites(what, next) ==
  /\ LoginAt(what)
  /\ Exec([db.mem EXCEPT !.logged = @ \cup {<<login.number, what>>}])
  /\ LoginTo(next)
  /\ UNCHANGED <<rec, mutex, games, raced, crashes>>
LoginCommits ==
  /\ LoginAt("commit")
  /\ db' = [db EXCEPT !.disk = db.mem, !.open = FALSE] /\ LoginTo("unlock")
  /\ UNCHANGED <<rec, mutex, games, raced, crashes>>
LoginUnlocks ==
  /\ LoginAt("unlock")
  /\ mutex' = Free /\ LoginTo("idle")
  /\ UNCHANGED <<rec, db, games, raced, crashes>>

\* The process dies; started again it has what is on the disk.
Crash ==
  /\ crashes < MaxCrashes
  /\ crashes' = crashes + 1
  /\ rec' = [t \in Threads |-> NoGame]
  /\ login' = [login EXCEPT !.at = "idle"] /\ mutex' = Free
  /\ db' = [mem |-> db.disk, disk |-> db.disk, open |-> FALSE]
  /\ UNCHANGED <<games, raced>>

Records(t) ==
  \/ FindPlayer(t) \/ WritePlayer(t) \/ FindRun(t) \/ WriteRun(t) \/ SendNews(t)
  \/ FindGeneral(t) \/ WriteGeneral(t)
  \/ Lock(t) \/ Begin(t) \/ AddTime(t) \/ FindLeft(t) \/ WriteLeft(t)
  \/ Commit(t) \/ Unlock(t) \/ SendTime(t)
Login ==
  \/ LoginLocks \/ LoginBegins
  \/ LoginWrites("ip", "uuid") \/ LoginWrites("uuid", "commit")
  \/ LoginCommits \/ LoginUnlocks

Next ==
  \/ \E t \in Threads, seats \in Tables, counted \in BOOLEAN : GameEnds(t, seats, counted)
  \/ \E t \in Threads : Records(t)
  \/ LoginStarts \/ Login \/ Crash

\* Threads run.  QMutex is not fair, but games and logins are few.
Fairness == WF_vars(Login) /\ \A t \in Threads : WF_vars(Records(t))

Spec == Init /\ [][Next]_vars /\ Fairness

-----------------------------------------------------------------------------
InTransaction == {"begin", "time", "left", "leftSet", "commit", "unlock"}
LoginInTransaction == {"begin", "ip", "uuid", "commit", "unlock"}

Tables0 == [rows : [Counters -> Nat], timed : SUBSET (Nat \X Users),
            logged : SUBSET (Nat \X {"ip", "uuid"})]

\* Types; a thread is at a human of the game it writes down.
TypeOK ==
  /\ games \in Seq([seats : Tables, counted : BOOLEAN])
  /\ rec \in [Threads ->
       [at : {"idle", "player", "playerSet", "run", "runSet", "news", "general",
              "generalSet", "lock", "tell"} \cup InTransaction,
        game : Nat, seat : Nat, read : Nat]]
  /\ \A t \in Threads : ~Is(t, "idle") =>
       rec[t].game \in DOMAIN games /\ rec[t].seat \in DOMAIN Seats(t)
  /\ login \in [at : {"idle", "lock"} \cup LoginInTransaction, number : Nat]
  /\ mutex \in Threads \cup {Main, Free}
  /\ db \in [mem : Tables0, disk : Tables0, open : BOOLEAN]
  /\ raced \subseteq Counters /\ crashes \in Nat

\* Mutual exclusion: the mutex is held exactly by the one who is between
\* beginTransaction and endTransaction, and only then a transaction is open.
OneTransaction ==
  /\ \A t \in Threads : mutex = t <=> rec[t].at \in InTransaction
  /\ mutex = Main <=> login.at \in LoginInTransaction
  /\ db.open => mutex # Free

\* On the disk a transaction is there as a whole or not at all, at any moment
\* the process may die: a game's times for all its humans, a login's ip and
\* device, although the threads share the connection (beginTransaction).
TransactionsWhole ==
  /\ \A g \in DOMAIN games :
       LET timed == {s.user : s \in {games[g].seats[i] : i \in DOMAIN games[g].seats}}
           there == {u \in timed : <<g, u>> \in db.disk.timed}
       IN there \in {{}, timed}
  /\ \A n \in 1..login.number :
       <<n, "ip">> \in db.disk.logged <=> <<n, "uuid">> \in db.disk.logged

\* What the games that ended should have added to a counter.
Due(k) ==
  LET seatings == UNION {{g} \X DOMAIN games[g].seats : g \in DOMAIN games}
  IN Cardinality({e \in seatings :
       LET seat == games[e[1]].seats[e[2]]
           counted == games[e[1]].counted
       IN CASE k[1] = "player"  -> counted /\ seat.user = k[2]
            [] k[1] = "general" -> counted /\ seat.general = k[2]
            [] k[1] = "run"     -> /\ seat.user = k[2]
                                   /\ \/ seat.state = "offline"
                                      \/ seat.state = "run" /\ counted})

Settled == (\A t \in Threads : Is(t, "idle")) /\ LoginAt("idle")

\* No counter is ever above what the games make due: nobody is counted twice,
\* as a runaway and as one who is offline at the end, say.  When all is written
\* down each counter is exactly that, unless its row changed between a
\* thread's SELECT and its UPDATE.
CountedOnce ==
  \A k \in Counters : /\ db.mem.rows[k] <= Due(k)
                      /\ Settled /\ crashes = 0 /\ k \notin raced => db.mem.rows[k] = Due(k)

\* server.h says of transaction_mutex that it is there because threads may use
\* the database at the same time: then no game is lost by that.
EveryGameCounts == Settled /\ crashes = 0 => \A k \in Counters : db.mem.rows[k] = Due(k)

\* A game that ended is written down, and a login goes through: the main thread
\* never waits for a mutex whose holder waits for the main thread.
RecordsEnd == ~Settled ~> Settled

=============================================================================
