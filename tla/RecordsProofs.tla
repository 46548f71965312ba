---------------------------- MODULE RecordsProofs ----------------------------
(***************************************************************************)
(* Theorems about Records, for any number of threads, users, games and     *)
(* crashes: types, the mutual exclusion of the transactions, that on the   *)
(* disk every transaction is whole or absent, and that no counter is ever  *)
(* above what the games that ended make due.                               *)
(***************************************************************************)
EXTENDS Records, SequenceTheorems, FiniteSetTheorems, TLAPS

-----------------------------------------------------------------------------
(* Types.                                                                   *)

Human == [user : Users, general : Generals, state : {"online", "offline", "run"}]
Game  == [seats : Tables, counted : BOOLEAN]
Spots == {"idle", "player", "playerSet", "run", "runSet", "news", "general",
          "generalSet", "lock", "tell"} \cup InTransaction

\* What the assumption says of one table.
LEMMA TableFacts ==
  ASSUME NEW seats \in Tables
  PROVE  /\ seats \in Seq(Human) /\ Len(seats) \in Nat /\ 1 \in DOMAIN seats
         /\ DOMAIN seats = 1..Len(seats)
         /\ \A i, j \in DOMAIN seats : seats[i].user = seats[j].user => i = j
<1>1. seats \in Seq(Human) /\ seats # <<>>
  BY RecordsConstants DEF Human
<1>2. Len(seats) \in Nat /\ Len(seats) # 0 /\ DOMAIN seats = 1..Len(seats)
  BY <1>1
<1> QED
  BY <1>1, <1>2, RecordsConstants

\* The human a thread is at.
LEMMA SeatFacts ==
  ASSUME TypeOK, NEW t \in Threads, ~Is(t, "idle")
  PROVE  /\ Seats(t) \in Tables /\ rec[t].game \in DOMAIN games
         /\ rec[t].seat \in 1..Len(Seats(t)) /\ Len(Seats(t)) \in Nat
         /\ Seat(t) \in Human
<1>1. rec[t].game \in DOMAIN games /\ rec[t].seat \in DOMAIN Seats(t)
  BY DEF TypeOK
<1>2. Seats(t) \in Tables
  <2>1. games \in Seq(Game)
    BY DEF TypeOK, Game
  <2>2. games[rec[t].game] \in Game
    BY <1>1, <2>1
  <2> QED
    BY <2>2 DEF Seats, Game
<1>3. /\ Seats(t) \in Seq(Human) /\ Len(Seats(t)) \in Nat
      /\ DOMAIN Seats(t) = 1..Len(Seats(t))
  BY <1>2, TableFacts
<1> QED
  BY <1>1, <1>2, <1>3 DEF Seat

\* Rows exist for the humans and their generals.
LEMMA CounterFacts ==
  ASSUME NEW human \in Human
  PROVE  /\ <<"player", human.user>> \in Counters
         /\ <<"run", human.user>> \in Counters
         /\ <<"general", human.general>> \in Counters
  BY DEF Human, Counters

\* A thread goes on, at the same human.
LEMMA GotoType ==
  ASSUME TypeOK, NEW t \in Threads, ~Is(t, "idle"), NEW at \in Spots, Goto(t, at),
         games' = games
  PROVE  /\ rec' \in [Threads -> [at : Spots, game : Nat, seat : Nat, read : Nat]]
         /\ \A s \in Threads : ~Is(s, "idle")' =>
              rec'[s].game \in DOMAIN games /\ rec'[s].seat \in DOMAIN Seats(s)'
<1>1. rec \in [Threads -> [at : Spots, game : Nat, seat : Nat, read : Nat]]
  BY DEF TypeOK, Spots
<1>2. rec' = [rec EXCEPT ![t].at = at]
  BY DEF Goto
<1>3. ASSUME NEW s \in Threads
      PROVE  rec'[s].game = rec[s].game /\ rec'[s].seat = rec[s].seat
             /\ (s # t => rec'[s] = rec[s])
  BY <1>1, <1>2
<1>4. ASSUME NEW s \in Threads, ~Is(s, "idle")'
      PROVE  rec'[s].game \in DOMAIN games /\ rec'[s].seat \in DOMAIN Seats(s)'
  <2>1. ~Is(s, "idle")
    BY <1>3, <1>4 DEF Is
  <2> QED
    BY <2>1, <1>3 DEF TypeOK, Seats
<1> QED
  BY <1>1, <1>2, <1>4

\* A thread goes on, perhaps with its next human.
LEMMA NextSeatType ==
  ASSUME TypeOK, NEW t \in Threads, ~Is(t, "idle"), NEW at \in Spots, NEW after \in Spots,
         NextSeat(t, at, after), games' = games
  PROVE  /\ rec' \in [Threads -> [at : Spots, game : Nat, seat : Nat, read : Nat]]
         /\ \A s \in Threads : ~Is(s, "idle")' =>
              rec'[s].game \in DOMAIN games /\ rec'[s].seat \in DOMAIN Seats(s)'
<1>1. rec \in [Threads -> [at : Spots, game : Nat, seat : Nat, read : Nat]]
  BY DEF TypeOK, Spots
<1>2. /\ rec[t].seat \in 1..Len(Seats(t)) /\ Seats(t) \in Tables /\ rec[t].game \in DOMAIN games
      /\ Len(Seats(t)) \in Nat /\ 1 \in DOMAIN Seats(t) /\ DOMAIN Seats(t) = 1..Len(Seats(t))
  <2>1. Seats(t) \in Tables
    BY SeatFacts
  <2> QED
    BY <2>1, SeatFacts, TableFacts
<1> DEFINE more == rec[t].seat < Len(Seats(t))
           to == IF more THEN at ELSE after
           seat == IF more THEN rec[t].seat + 1 ELSE 1
<1>3. rec' = [rec EXCEPT ![t].at = to, ![t].seat = seat]
  BY <1>1 DEF NextSeat
<1>4. to \in Spots /\ seat \in Nat /\ seat \in DOMAIN Seats(t)
  BY <1>1, <1>2
<1> HIDE DEF to, seat
<1>5. rec' \in [Threads -> [at : Spots, game : Nat, seat : Nat, read : Nat]]
  BY <1>1, <1>3, <1>4
<1>6. ASSUME NEW s \in Threads, ~Is(s, "idle")'
      PROVE  rec'[s].game \in DOMAIN games /\ rec'[s].seat \in DOMAIN Seats(s)'
  <2>1. CASE s = t
    <3>1. rec'[s].seat = seat /\ rec'[s].game = rec[t].game
      BY <1>1, <1>3, <2>1
    <3> QED
      BY <3>1, <1>2, <1>4 DEF Seats
  <2>2. CASE s # t
    <3>1. rec'[s] = rec[s]
      BY <1>1, <1>3, <2>2
    <3> QED
      BY <3>1, <1>6 DEF TypeOK, Is, Seats
  <2> QED
    BY <2>1, <2>2
<1> QED
  BY <1>5, <1>6

\* A statement keeps the types of the database.
LEMMA ExecType ==
  ASSUME TypeOK, NEW mem \in Tables0, Exec(mem)
  PROVE  db' \in [mem : Tables0, disk : Tables0, open : BOOLEAN]
<1>1. db \in [mem : Tables0, disk : Tables0, open : BOOLEAN]
  BY DEF TypeOK
<1> QED
  BY <1>1 DEF Exec

\* So does the row of a counter, which grows.
LEMMA WriteRowType ==
  ASSUME TypeOK, NEW t \in Threads, NEW k \in Counters, WriteRow(t, k)
  PROVE  db' \in [mem : Tables0, disk : Tables0, open : BOOLEAN] /\ raced' \subseteq Counters
<1>1. db.mem \in Tables0 /\ rec[t].read \in Nat /\ raced \subseteq Counters
  BY DEF TypeOK
<1>2. db.mem.rows \in [Counters -> Nat]
  BY <1>1 DEF Tables0
<1> DEFINE n == Counted(db.mem.rows[k], rec[t].read)
<1>3. n \in Nat
  BY <1>1, <1>2 DEF Counted
<1> HIDE DEF n
<1>4. [db.mem EXCEPT !.rows[k] = n] \in Tables0
  BY <1>1, <1>2, <1>3 DEF Tables0
<1>5. Exec([db.mem EXCEPT !.rows[k] = n])
  BY DEF WriteRow, n
<1>6. raced' \subseteq Counters
  BY <1>1 DEF WriteRow
<1> QED
  BY <1>4, <1>5, <1>6, ExecType

\* A SELECT keeps the types.
LEMMA FindRowType ==
  ASSUME TypeOK, NEW t \in Threads, ~Is(t, "idle"), NEW k \in Counters,
         NEW to \in Spots, FindRow(t, k, to)
  PROVE  TypeOK'
<1>1. rec \in [Threads -> [at : Spots, game : Nat, seat : Nat, read : Nat]]
  BY DEF TypeOK, Spots
<1>2. db.mem.rows[k] \in Nat
  <2>1. db.mem \in Tables0
    BY DEF TypeOK
  <2> QED
    BY <2>1 DEF Tables0
<1>3. rec' = [rec EXCEPT ![t].at = to, ![t].read = db.mem.rows[k]]
  BY DEF FindRow
<1>4. rec' \in [Threads -> [at : Spots, game : Nat, seat : Nat, read : Nat]]
  BY <1>1, <1>2, <1>3
<1>5. ASSUME NEW s \in Threads, ~Is(s, "idle")'
      PROVE  rec'[s].game \in DOMAIN games' /\ rec'[s].seat \in DOMAIN Seats(s)'
  <2>1. rec'[s].game = rec[s].game /\ rec'[s].seat = rec[s].seat /\ (s # t => rec'[s] = rec[s])
    BY <1>1, <1>3
  <2>2. ~Is(s, "idle")
    BY <2>1, <1>5 DEF Is
  <2> QED
    BY <2>1, <2>2 DEF TypeOK, Seats, FindRow
<1> QED
  BY <1>4, <1>5 DEF TypeOK, FindRow, Spots

\* The part of the types that the steps of a thread can disturb.
RecType ==
  /\ rec \in [Threads -> [at : Spots, game : Nat, seat : Nat, read : Nat]]
  /\ \A t \in Threads : ~Is(t, "idle") =>
       rec[t].game \in DOMAIN games /\ rec[t].seat \in DOMAIN Seats(t)
DbType == db \in [mem : Tables0, disk : Tables0, open : BOOLEAN]
RestType ==
  /\ login \in [at : {"idle", "lock"} \cup LoginInTransaction, number : Nat]
  /\ mutex \in Threads \cup {Main, Free}
  /\ raced \subseteq Counters /\ crashes \in Nat
  /\ games \in Seq(Game)

LEMMA TypeParts == /\ TypeOK <=> RecType /\ DbType /\ RestType
                   /\ TypeOK' <=> RecType' /\ DbType' /\ RestType'
  BY DEF TypeOK, RecType, DbType, RestType, Spots, Game, Is, Seats

\* A thread that writes down a game keeps the types.
LEMMA RecordsType ==
  ASSUME TypeOK, NEW t \in Threads, Records(t)
  PROVE  TypeOK'
<1>1. ~Is(t, "idle")
  BY DEF Records, Is, FindPlayer, WritePlayer, FindRun, WriteRun, SendNews, FindGeneral,
         WriteGeneral, Lock, Begin, AddTime, FindLeft, WriteLeft, Commit, Unlock, SendTime
<1>2. Seat(t) \in Human /\ rec[t].game \in DOMAIN games
  BY <1>1, SeatFacts
<1>3. /\ <<"player", Seat(t).user>> \in Counters
      /\ <<"run", Seat(t).user>> \in Counters
      /\ <<"general", Seat(t).general>> \in Counters
  BY <1>2, CounterFacts
<1>4. RecType /\ DbType /\ RestType
  BY TypeParts
<1>5. ASSUME NEW at \in Spots, Goto(t, at), games' = games PROVE RecType'
  <2>1. /\ rec' \in [Threads -> [at : Spots, game : Nat, seat : Nat, read : Nat]]
        /\ \A s \in Threads : ~Is(s, "idle")' =>
             rec'[s].game \in DOMAIN games /\ rec'[s].seat \in DOMAIN Seats(s)'
    BY <1>1, <1>5, GotoType
  <2> QED
    BY <2>1, <1>5 DEF RecType
<1>6. ASSUME NEW at \in Spots, NEW after \in Spots, NextSeat(t, at, after), games' = games
      PROVE  RecType'
  <2>1. /\ rec' \in [Threads -> [at : Spots, game : Nat, seat : Nat, read : Nat]]
        /\ \A s \in Threads : ~Is(s, "idle")' =>
             rec'[s].game \in DOMAIN games /\ rec'[s].seat \in DOMAIN Seats(s)'
    BY <1>1, <1>6, NextSeatType
  <2> QED
    BY <2>1, <1>6 DEF RecType
<1>7. ASSUME NEW k \in Counters, WriteRow(t, k) PROVE DbType' /\ RestType'
  <2>1. /\ db' \in [mem : Tables0, disk : Tables0, open : BOOLEAN]
        /\ raced' \subseteq Counters
    BY <1>7, WriteRowType
  <2> QED
    BY <2>1, <1>4, <1>7 DEF DbType, RestType, WriteRow
<1>8. {"general", "begin", "time", "unlock", "tell", "run", "news", "left", "leftSet", "commit",
       "idle", "player", "playerSet", "runSet", "generalSet", "lock"} \subseteq Spots
  BY DEF Spots, InTransaction
<1>9. CASE FindPlayer(t)
  BY <1>1, <1>3, <1>8, <1>9, FindRowType DEF FindPlayer
<1>10. CASE WritePlayer(t)
  <2>1. PICK at \in {"run", "news"} : Goto(t, at)
    BY <1>10 DEF WritePlayer
  <2>2. RecType'
    BY <2>1, <1>5, <1>8, <1>10 DEF WritePlayer, WriteRow
  <2> QED
    BY <2>2, <1>3, <1>7, <1>10, TypeParts DEF WritePlayer
<1>11. CASE FindRun(t)
  BY <1>1, <1>3, <1>8, <1>11, FindRowType DEF FindRun
<1>12. CASE WriteRun(t)
  <2>1. RecType'
    BY <1>5, <1>8, <1>12 DEF WriteRun, WriteRow
  <2> QED
    BY <2>1, <1>3, <1>7, <1>12, TypeParts DEF WriteRun
<1>13. CASE SendNews(t)
  <2>1. RecType'
    BY <1>5, <1>8, <1>13 DEF SendNews
  <2> QED
    BY <2>1, <1>4, <1>13, TypeParts DEF SendNews, DbType, RestType
<1>14. CASE FindGeneral(t)
  BY <1>1, <1>3, <1>8, <1>14, FindRowType DEF FindGeneral
<1>15. CASE WriteGeneral(t)
  <2>1. RecType'
    BY <1>6, <1>8, <1>15 DEF WriteGeneral, WriteRow
  <2> QED
    BY <2>1, <1>3, <1>7, <1>15, TypeParts DEF WriteGeneral
<1>16. CASE Lock(t)
  <2>1. RecType'
    BY <1>5, <1>8, <1>16 DEF Lock
  <2> QED
    BY <2>1, <1>4, <1>16, TypeParts DEF Lock, DbType, RestType
<1>17. CASE Begin(t)
  <2>1. RecType'
    BY <1>5, <1>8, <1>17 DEF Begin
  <2>2. DbType'
    BY <1>4, <1>17 DEF Begin, DbType
  <2> QED
    BY <2>1, <2>2, <1>4, <1>17, TypeParts DEF Begin, RestType
<1>18. CASE AddTime(t)
  <2>1. RecType'
    <3>1. Goto(t, "left") \/ NextSeat(t, "time", "commit")
      BY <1>18 DEF AddTime
    <3> QED
      BY <3>1, <1>5, <1>6, <1>8, <1>18 DEF AddTime
  <2>2. DbType'
    <3> DEFINE mem == [db.mem EXCEPT !.timed = @ \cup {<<rec[t].game, Seat(t).user>>}]
    <3>1. mem \in Tables0
      <4>1. db.mem \in Tables0
        BY <1>4 DEF DbType
      <4>2. <<rec[t].game, Seat(t).user>> \in Nat \X Users
        BY <1>2, <1>4 DEF Human, RecType
      <4> QED
        BY <4>1, <4>2 DEF Tables0
    <3>2. Exec(mem)
      BY <1>18 DEF AddTime
    <3> QED
      BY <3>1, <3>2, ExecType DEF DbType
  <2> QED
    BY <2>1, <2>2, <1>4, <1>18, TypeParts DEF AddTime, RestType
<1>19. CASE FindLeft(t)
  BY <1>1, <1>3, <1>8, <1>19, FindRowType DEF FindLeft
<1>20. CASE WriteLeft(t)
  <2>1. RecType'
    BY <1>6, <1>8, <1>20 DEF WriteLeft, WriteRow
  <2> QED
    BY <2>1, <1>3, <1>7, <1>20, TypeParts DEF WriteLeft
<1>21. CASE Commit(t)
  <2>1. RecType'
    BY <1>5, <1>8, <1>21 DEF Commit
  <2>2. DbType'
    BY <1>4, <1>21 DEF Commit, DbType
  <2> QED
    BY <2>1, <2>2, <1>4, <1>21, TypeParts DEF Commit, RestType
<1>22. CASE Unlock(t)
  <2>1. RecType'
    BY <1>5, <1>8, <1>22 DEF Unlock
  <2> QED
    BY <2>1, <1>4, <1>22, TypeParts DEF Unlock, DbType, RestType
<1>23. CASE SendTime(t)
  <2>1. RecType'
    BY <1>6, <1>8, <1>23 DEF SendTime
  <2> QED
    BY <2>1, <1>4, <1>23, TypeParts DEF SendTime, DbType, RestType
<1> QED
  BY <1>9, <1>10, <1>11, <1>12, <1>13, <1>14, <1>15, <1>16, <1>17, <1>18, <1>19, <1>20,
     <1>21, <1>22, <1>23 DEF Records

\* So does the main thread.
LEMMA LoginType ==
  ASSUME TypeOK, LoginStarts \/ Login
  PROVE  TypeOK'
<1>1. RecType /\ DbType /\ RestType
  BY TypeParts
<1>2. rec' = rec /\ games' = games /\ raced' = raced /\ crashes' = crashes
  BY DEF LoginStarts, Login, LoginLocks, LoginBegins, LoginWrites, LoginCommits, LoginUnlocks
<1>3. RecType'
  BY <1>1, <1>2 DEF RecType, Is, Seats
<1>4. login' \in [at : {"idle", "lock"} \cup LoginInTransaction, number : Nat]
  BY <1>1
  DEF RestType, LoginStarts, Login, LoginLocks, LoginBegins, LoginWrites, LoginCommits,
      LoginUnlocks, LoginTo, LoginInTransaction
<1>5. mutex' \in Threads \cup {Main, Free}
  BY <1>1
  DEF RestType, LoginStarts, Login, LoginLocks, LoginBegins, LoginWrites, LoginCommits,
      LoginUnlocks
<1>6. DbType'
  <2>1. ASSUME NEW what \in {"ip", "uuid"}, NEW next, LoginWrites(what, next) PROVE DbType'
    <3> DEFINE mem == [db.mem EXCEPT !.logged = @ \cup {<<login.number, what>>}]
    <3>1. db.mem \in Tables0 /\ login.number \in Nat
      BY <1>1 DEF DbType, RestType
    <3>2. mem \in Tables0
      BY <3>1 DEF Tables0
    <3>3. Exec(mem)
      BY <2>1 DEF LoginWrites
    <3> QED
      BY <3>2, <3>3, ExecType DEF DbType
  <2>2. ASSUME LoginBegins \/ LoginCommits PROVE DbType'
    BY <1>1, <2>2 DEF LoginBegins, LoginCommits, DbType
  <2>3. ASSUME db' = db PROVE DbType'
    BY <1>1, <2>3 DEF DbType
  <2> QED
    BY <2>1, <2>2, <2>3 DEF LoginStarts, Login, LoginLocks, LoginUnlocks
<1> QED
  BY <1>1, <1>2, <1>3, <1>4, <1>5, <1>6, TypeParts DEF RestType

\* A game ends.
LEMMA GameEndsType ==
  ASSUME TypeOK, NEW t \in Threads, NEW seats \in Tables, NEW counted \in BOOLEAN,
         GameEnds(t, seats, counted)
  PROVE  /\ TypeOK'
         /\ Len(games') = Len(games) + 1 /\ Len(games) \in Nat
         /\ DOMAIN games = 1..Len(games) /\ DOMAIN games' = 1..Len(games')
         /\ games'[Len(games')].seats = seats
         /\ \A g \in DOMAIN games : games'[g] = games[g]
<1>1. RecType /\ DbType /\ RestType
  BY TypeParts
<1> DEFINE e == [seats |-> seats, counted |-> counted]
           n == Len(games) + 1
           at == IF counted THEN "player" ELSE "lock"
<1>2. e \in Game
  BY DEF Game
<1>3. games \in Seq(Game) /\ games' = Append(games, e)
  BY <1>1 DEF RestType, GameEnds
<1>4. /\ games' \in Seq(Game) /\ Len(games') = n /\ Len(games) \in Nat
      /\ DOMAIN games = 1..Len(games) /\ DOMAIN games' = 1..n
      /\ games'[n] = e /\ \A g \in DOMAIN games : games'[g] = games[g]
  BY <1>2, <1>3
<1>5. rec' = [rec EXCEPT ![t] = [at |-> at, game |-> n, seat |-> 1, read |-> 0]]
  BY DEF GameEnds
<1>6. rec' \in [Threads -> [at : Spots, game : Nat, seat : Nat, read : Nat]]
  BY <1>1, <1>4, <1>5 DEF RecType, Spots
<1>7. ASSUME NEW s \in Threads, ~Is(s, "idle")'
      PROVE  rec'[s].game \in DOMAIN games' /\ rec'[s].seat \in DOMAIN Seats(s)'
  <2>1. CASE s = t
    <3>1. rec'[s].game = n /\ rec'[s].seat = 1
      BY <1>1, <1>5, <2>1 DEF RecType
    <3>2. Seats(s)' = seats
      BY <1>4, <3>1 DEF Seats
    <3> QED
      BY <1>4, <3>1, <3>2, TableFacts
  <2>2. CASE s # t
    <3>1. rec'[s] = rec[s]
      BY <1>1, <1>5, <2>2 DEF RecType
    <3>2. rec[s].game \in DOMAIN games /\ rec[s].seat \in DOMAIN Seats(s)
      BY <1>1, <1>7, <3>1 DEF RecType, Is
    <3> QED
      BY <1>4, <3>1, <3>2 DEF Seats
  <2> QED
    BY <2>1, <2>2
<1>8. RecType'
  BY <1>6, <1>7 DEF RecType
<1>9. DbType' /\ RestType'
  BY <1>1, <1>4 DEF DbType, RestType, GameEnds
<1> QED
  BY <1>4, <1>8, <1>9, TypeParts

\* The process dies.
LEMMA CrashType ==
  ASSUME TypeOK, Crash
  PROVE  TypeOK'
<1>1. RecType /\ DbType /\ RestType
  BY TypeParts
<1>2. RecType'
  BY DEF RecType, Crash, NoGame, Is, Spots
<1>3. DbType'
  BY <1>1 DEF DbType, Crash
<1>4. login' \in [at : {"idle", "lock"} \cup LoginInTransaction, number : Nat]
  BY <1>1 DEF RestType, Crash
<1> QED
  BY <1>1, <1>2, <1>3, <1>4, TypeParts DEF RestType, Crash

\* The initial state has the types.
LEMMA InitType == Init => TypeOK
<1> SUFFICES ASSUME Init PROVE TypeOK
  OBVIOUS
<1>1. RecType
  BY DEF Init, RecType, NoGame, Is, Spots
<1>2. Empty \in Tables0
  BY DEF Empty, Tables0
<1>3. DbType
  BY <1>2 DEF Init, DbType
<1>4. RestType
  BY DEF Init, RestType, NoLogin
<1> QED
  BY <1>1, <1>3, <1>4, TypeParts

\* Types, of every reachable state: a thread is always at a human of the game
\* that it writes down.
THEOREM Typing == Spec => []TypeOK
<1>1. TypeOK /\ [Next]_vars => TypeOK'
  <2> SUFFICES ASSUME TypeOK, [Next]_vars PROVE TypeOK'
    OBVIOUS
  <2>1. CASE UNCHANGED vars
    <3>1. RecType /\ DbType /\ RestType
      BY TypeParts
    <3>2. RecType' /\ DbType' /\ RestType'
      BY <2>1, <3>1 DEF vars, RecType, DbType, RestType, Is, Seats
    <3> QED
      BY <3>2, TypeParts
  <2> QED
    BY <2>1, RecordsType, LoginType, GameEndsType, CrashType DEF Next
<1> QED
  BY <1>1, InitType, PTL DEF Spec

-----------------------------------------------------------------------------
(* What a step of a thread is, as far as transactions are concerned.        *)

Counting == {"player", "playerSet", "run", "runSet", "news", "general", "generalSet"}

\* The other threads, the games and the login stay; the thread's game does.
Alone(t) ==
  /\ \A s \in Threads \ {t} : rec'[s] = rec[s]
  /\ rec[t].at # "idle" /\ rec'[t].game = rec[t].game
  /\ login' = login /\ games' = games

\* A statement that is about a counter.
CounterWritten ==
  /\ db'.mem.timed = db.mem.timed /\ db'.mem.logged = db.mem.logged
  /\ db'.open = db.open
  /\ IF db.open THEN db'.disk = db.disk ELSE db'.disk = db'.mem

\* On to the next human as `at', or as `after' if this was the last one.
On(t, at, after) ==
  \/ rec[t].seat < Len(Seats(t)) /\ rec'[t].at = at /\ rec'[t].seat = rec[t].seat + 1
  \/ rec[t].seat = Len(Seats(t)) /\ rec'[t].at = after /\ rec'[t].seat = 1

\* From one place to another at the same human.
FromTo(t, from, to) == rec[t].at = from /\ rec'[t].at = to /\ rec'[t].seat = rec[t].seat

CountStep(t) ==
  /\ rec[t].at \in Counting
  /\ \/ rec'[t].at \in Counting
     \/ rec'[t].at = "lock" /\ rec'[t].seat = 1
  /\ mutex' = mutex /\ (db' = db \/ CounterWritten)
LockStep(t) == FromTo(t, "lock", "begin") /\ mutex = Free /\ mutex' = t /\ db' = db
BeginStep(t) ==
  /\ FromTo(t, "begin", "time") /\ mutex' = mutex
  /\ db'.open /\ db'.mem = db.mem /\ db'.disk = db.disk
TimeStep(t) ==
  /\ rec[t].at = "time"
  /\ FromTo(t, "time", "left") \/ On(t, "time", "commit")
  /\ mutex' = mutex /\ db'.open = db.open
  /\ db'.mem.timed = db.mem.timed \cup {<<rec[t].game, Seat(t).user>>}
  /\ db'.mem.logged = db.mem.logged
  /\ db.open => db'.disk = db.disk
LeftStep(t) ==
  /\ \/ FromTo(t, "left", "leftSet") /\ db' = db
     \/ rec[t].at = "leftSet" /\ On(t, "time", "commit") /\ CounterWritten
  /\ mutex' = mutex
CommitStep(t) ==
  /\ FromTo(t, "commit", "unlock") /\ mutex' = mutex
  /\ ~db'.open /\ db'.mem = db.mem /\ db'.disk = db.mem
UnlockStep(t) == FromTo(t, "unlock", "tell") /\ mutex' = Free /\ db' = db
TellStep(t) == rec[t].at = "tell" /\ On(t, "tell", "idle") /\ mutex' = mutex /\ db' = db

LEMMA GotoFacts ==
  ASSUME TypeOK, NEW t \in Threads, NEW at, Goto(t, at)
  PROVE  /\ FromTo(t, rec[t].at, at) /\ rec'[t].game = rec[t].game
         /\ \A s \in Threads \ {t} : rec'[s] = rec[s]
<1>1. rec \in [Threads -> [at : Spots, game : Nat, seat : Nat, read : Nat]]
  BY TypeParts DEF RecType
<1> QED
  BY <1>1 DEF Goto, FromTo

LEMMA FindRowFacts ==
  ASSUME TypeOK, NEW t \in Threads, NEW k, NEW at, FindRow(t, k, at)
  PROVE  /\ FromTo(t, rec[t].at, at) /\ rec'[t].game = rec[t].game
         /\ \A s \in Threads \ {t} : rec'[s] = rec[s]
         /\ login' = login /\ games' = games /\ mutex' = mutex /\ db' = db
<1>1. rec \in [Threads -> [at : Spots, game : Nat, seat : Nat, read : Nat]]
  BY TypeParts DEF RecType
<1>2. rec' = [rec EXCEPT ![t].at = at, ![t].read = db.mem.rows[k]]
  BY DEF FindRow
<1> QED
  BY <1>1, <1>2 DEF FindRow, FromTo

LEMMA NextSeatFacts ==
  ASSUME TypeOK, NEW t \in Threads, ~Is(t, "idle"), NEW at, NEW after, NextSeat(t, at, after)
  PROVE  /\ On(t, at, after) /\ rec'[t].game = rec[t].game
         /\ \A s \in Threads \ {t} : rec'[s] = rec[s]
<1>1. rec \in [Threads -> [at : Spots, game : Nat, seat : Nat, read : Nat]]
  BY TypeParts DEF RecType
<1>2. rec[t].seat \in 1..Len(Seats(t)) /\ Len(Seats(t)) \in Nat
  BY SeatFacts
<1> DEFINE more == rec[t].seat < Len(Seats(t))
           to == IF more THEN at ELSE after
           seat == IF more THEN rec[t].seat + 1 ELSE 1
<1>3. rec' = [rec EXCEPT ![t].at = to, ![t].seat = seat]
  BY <1>1 DEF NextSeat
<1>4. /\ more => to = at /\ seat = rec[t].seat + 1
      /\ ~more => to = after /\ seat = 1 /\ rec[t].seat = Len(Seats(t))
  BY <1>2
<1> HIDE DEF to, seat
<1>5. /\ rec'[t].at = to /\ rec'[t].seat = seat /\ rec'[t].game = rec[t].game
      /\ \A s \in Threads \ {t} : rec'[s] = rec[s]
  BY <1>1, <1>3
<1> QED
  BY <1>4, <1>5 DEF On

LEMMA WriteRowFacts ==
  ASSUME TypeOK, NEW t \in Threads, NEW k, WriteRow(t, k)
  PROVE  /\ CounterWritten /\ login' = login /\ games' = games /\ mutex' = mutex
<1> DEFINE n == Counted(db.mem.rows[k], rec[t].read)
           mem == [db.mem EXCEPT !.rows[k] = n]
<1>1. DbType
  BY TypeParts
<1>2. db.mem \in Tables0
  BY <1>1 DEF DbType
<1>3. mem.timed = db.mem.timed /\ mem.logged = db.mem.logged
  BY <1>2 DEF Tables0
<1>4. db' = [db EXCEPT !.mem = mem, !.disk = IF db.open THEN db.disk ELSE mem]
  BY <1>1 DEF WriteRow, Exec, DbType
<1> HIDE DEF mem
<1>5. /\ db'.mem = mem /\ db'.open = db.open
      /\ db'.disk = IF db.open THEN db.disk ELSE mem
  BY <1>1, <1>4 DEF DbType
<1> QED
  BY <1>3, <1>5 DEF CounterWritten, WriteRow

\* Every step of a thread has one of these shapes.
LEMMA Shapes ==
  ASSUME TypeOK, NEW t \in Threads, Records(t)
  PROVE  /\ Alone(t)
         /\ \/ CountStep(t) \/ LockStep(t) \/ BeginStep(t) \/ TimeStep(t) \/ LeftStep(t)
            \/ CommitStep(t) \/ UnlockStep(t) \/ TellStep(t)
<1>1. ~Is(t, "idle") /\ rec[t].at # "idle"
  BY DEF Records, Is, FindPlayer, WritePlayer, FindRun, WriteRun, SendNews, FindGeneral,
         WriteGeneral, Lock, Begin, AddTime, FindLeft, WriteLeft, Commit, Unlock, SendTime
<1>2. DbType
  BY TypeParts
<1>3. CASE FindPlayer(t)
  <2>1. Is(t, "player") /\ FindRow(t, <<"player", Seat(t).user>>, "playerSet")
    BY <1>3 DEF FindPlayer
  <2>2. CountStep(t) /\ Alone(t)
    BY <1>1, <2>1, FindRowFacts DEF Is, CountStep, Counting, Alone, FromTo
  <2> QED
    BY <2>2
<1>4. CASE FindRun(t)
  <2>1. Is(t, "run") /\ FindRow(t, <<"run", Seat(t).user>>, "runSet")
    BY <1>4 DEF FindRun
  <2>2. CountStep(t) /\ Alone(t)
    BY <1>1, <2>1, FindRowFacts DEF Is, CountStep, Counting, Alone, FromTo
  <2> QED
    BY <2>2
<1>5. CASE FindGeneral(t)
  <2>1. Is(t, "general") /\ FindRow(t, <<"general", Seat(t).general>>, "generalSet")
    BY <1>5 DEF FindGeneral
  <2>2. CountStep(t) /\ Alone(t)
    BY <1>1, <2>1, FindRowFacts DEF Is, CountStep, Counting, Alone, FromTo
  <2> QED
    BY <2>2
<1>6. CASE FindLeft(t)
  <2>1. Is(t, "left") /\ FindRow(t, <<"run", Seat(t).user>>, "leftSet")
    BY <1>6 DEF FindLeft
  <2>2. LeftStep(t) /\ Alone(t)
    BY <1>1, <2>1, FindRowFacts DEF Is, LeftStep, Alone, FromTo
  <2> QED
    BY <2>2
<1>7. CASE WritePlayer(t)
  <2>1. /\ Is(t, "playerSet") /\ WriteRow(t, <<"player", Seat(t).user>>)
        /\ Goto(t, "run") \/ Goto(t, "news")
    BY <1>7 DEF WritePlayer
  <2>2. /\ rec'[t].at \in {"run", "news"} /\ rec'[t].game = rec[t].game
        /\ \A s \in Threads \ {t} : rec'[s] = rec[s]
    BY <2>1, GotoFacts DEF FromTo
  <2>3. CountStep(t) /\ Alone(t)
    BY <1>1, <2>1, <2>2, WriteRowFacts DEF Is, CountStep, Counting, Alone
  <2> QED
    BY <2>3
<1>8. CASE WriteRun(t)
  <2>1. Is(t, "runSet") /\ WriteRow(t, <<"run", Seat(t).user>>) /\ Goto(t, "general")
    BY <1>8 DEF WriteRun
  <2>2. /\ rec'[t].at = "general" /\ rec'[t].game = rec[t].game
        /\ \A s \in Threads \ {t} : rec'[s] = rec[s]
    BY <2>1, GotoFacts DEF FromTo
  <2>3. CountStep(t) /\ Alone(t)
    BY <1>1, <2>1, <2>2, WriteRowFacts DEF Is, CountStep, Counting, Alone
  <2> QED
    BY <2>3
<1>9. CASE WriteGeneral(t)
  <2>1. /\ Is(t, "generalSet") /\ WriteRow(t, <<"general", Seat(t).general>>)
        /\ NextSeat(t, "player", "lock")
    BY <1>9 DEF WriteGeneral
  <2>2. /\ On(t, "player", "lock") /\ rec'[t].game = rec[t].game
        /\ \A s \in Threads \ {t} : rec'[s] = rec[s]
    BY <1>1, <2>1, NextSeatFacts
  <2>3. CountStep(t) /\ Alone(t)
    BY <1>1, <2>1, <2>2, WriteRowFacts DEF Is, CountStep, Counting, Alone, On
  <2> QED
    BY <2>3
<1>10. CASE WriteLeft(t)
  <2>1. /\ Is(t, "leftSet") /\ WriteRow(t, <<"run", Seat(t).user>>)
        /\ NextSeat(t, "time", "commit")
    BY <1>10 DEF WriteLeft
  <2>2. /\ On(t, "time", "commit") /\ rec'[t].game = rec[t].game
        /\ \A s \in Threads \ {t} : rec'[s] = rec[s]
    BY <1>1, <2>1, NextSeatFacts
  <2>3. LeftStep(t) /\ Alone(t)
    BY <1>1, <2>1, <2>2, WriteRowFacts DEF Is, LeftStep, Alone
  <2> QED
    BY <2>3
<1>11. CASE SendNews(t)
  <2>1. CountStep(t) /\ Alone(t)
    BY <1>1, <1>11, GotoFacts DEF SendNews, Is, CountStep, Counting, Alone, FromTo
  <2> QED
    BY <2>1
<1>12. CASE Lock(t)
  <2>1. LockStep(t) /\ Alone(t)
    BY <1>1, <1>12, GotoFacts DEF Lock, Is, LockStep, Alone, FromTo
  <2> QED
    BY <2>1
<1>13. CASE Begin(t)
  <2>1. db'.open /\ db'.mem = db.mem /\ db'.disk = db.disk
    BY <1>2, <1>13 DEF Begin, DbType
  <2>2. BeginStep(t) /\ Alone(t)
    BY <1>1, <1>13, <2>1, GotoFacts DEF Begin, Is, BeginStep, Alone, FromTo
  <2> QED
    BY <2>2
<1>14. CASE Commit(t)
  <2>1. ~db'.open /\ db'.mem = db.mem /\ db'.disk = db.mem
    BY <1>2, <1>14 DEF Commit, DbType
  <2>2. CommitStep(t) /\ Alone(t)
    BY <1>1, <1>14, <2>1, GotoFacts DEF Commit, Is, CommitStep, Alone, FromTo
  <2> QED
    BY <2>2
<1>15. CASE Unlock(t)
  <2>1. UnlockStep(t) /\ Alone(t)
    BY <1>1, <1>15, GotoFacts DEF Unlock, Is, UnlockStep, Alone, FromTo
  <2> QED
    BY <2>1
<1>16. CASE SendTime(t)
  <2>1. On(t, "tell", "idle") /\ rec'[t].game = rec[t].game
        /\ \A s \in Threads \ {t} : rec'[s] = rec[s]
    BY <1>1, <1>16, NextSeatFacts DEF SendTime
  <2>2. TellStep(t) /\ Alone(t)
    BY <1>1, <1>16, <2>1 DEF SendTime, Is, TellStep, Alone
  <2> QED
    BY <2>2
<1>17. CASE AddTime(t)
  <2> DEFINE mem == [db.mem EXCEPT !.timed = @ \cup {<<rec[t].game, Seat(t).user>>}]
  <2>1. /\ mem.timed = db.mem.timed \cup {<<rec[t].game, Seat(t).user>>}
        /\ mem.logged = db.mem.logged
    BY <1>2 DEF DbType, Tables0
  <2>2. db' = [db EXCEPT !.mem = mem, !.disk = IF db.open THEN db.disk ELSE mem]
    BY <1>2, <1>17 DEF AddTime, Exec, DbType
  <2> HIDE DEF mem
  <2>3. /\ db'.mem = mem /\ db'.open = db.open
        /\ db.open => db'.disk = db.disk
    BY <1>2, <2>2 DEF DbType
  <2>4. Goto(t, "left") \/ NextSeat(t, "time", "commit")
    BY <1>17 DEF AddTime
  <2>5. /\ FromTo(t, rec[t].at, "left") \/ On(t, "time", "commit")
        /\ rec'[t].game = rec[t].game
        /\ \A s \in Threads \ {t} : rec'[s] = rec[s]
    BY <1>1, <2>4, GotoFacts, NextSeatFacts
  <2>6. TimeStep(t)
    BY <1>17, <2>1, <2>3, <2>5 DEF AddTime, Is, TimeStep, FromTo
  <2>7. Alone(t)
    BY <1>1, <1>17, <2>5 DEF AddTime, Alone
  <2> QED
    BY <2>6, <2>7
<1> QED
  BY <1>3, <1>4, <1>5, <1>6, <1>7, <1>8, <1>9, <1>10, <1>11, <1>12, <1>13, <1>14, <1>15,
     <1>16, <1>17 DEF Records

\* The steps of a login.
LoginGoes(from, to) ==
  /\ login.at = from /\ login'.at = to /\ login'.number = login.number
  /\ rec' = rec /\ games' = games
StartStep ==
  /\ login.at = "idle" /\ login'.at = "lock" /\ login'.number = login.number + 1
  /\ rec' = rec /\ games' = games /\ mutex' = mutex /\ db' = db
LoginLockStep == LoginGoes("lock", "begin") /\ mutex = Free /\ mutex' = Main /\ db' = db
LoginBeginStep ==
  /\ LoginGoes("begin", "ip") /\ mutex' = mutex
  /\ db'.open /\ db'.mem = db.mem /\ db'.disk = db.disk
WriteStep(what, next) ==
  /\ LoginGoes(what, next) /\ mutex' = mutex /\ db'.open = db.open
  /\ db'.mem.logged = db.mem.logged \cup {<<login.number, what>>}
  /\ db'.mem.timed = db.mem.timed
  /\ db.open => db'.disk = db.disk
LoginCommitStep ==
  /\ LoginGoes("commit", "unlock") /\ mutex' = mutex
  /\ ~db'.open /\ db'.mem = db.mem /\ db'.disk = db.mem
LoginUnlockStep == LoginGoes("unlock", "idle") /\ mutex' = Free /\ db' = db

LEMMA LoginShapes ==
  ASSUME TypeOK, LoginStarts \/ Login
  PROVE  \/ StartStep \/ LoginLockStep \/ LoginBeginStep
         \/ WriteStep("ip", "uuid") \/ WriteStep("uuid", "commit")
         \/ LoginCommitStep \/ LoginUnlockStep
<1>1. DbType /\ login \in [at : {"idle", "lock"} \cup LoginInTransaction, number : Nat]
  BY TypeParts DEF RestType
<1>2. ASSUME NEW at, LoginTo(at)
      PROVE  login'.at = at /\ login'.number = login.number
  BY <1>1, <1>2 DEF LoginTo
<1>3. ASSUME NEW what, NEW next, LoginWrites(what, next) PROVE WriteStep(what, next)
  <2> DEFINE mem == [db.mem EXCEPT !.logged = @ \cup {<<login.number, what>>}]
  <2>1. /\ mem.logged = db.mem.logged \cup {<<login.number, what>>}
        /\ mem.timed = db.mem.timed
    BY <1>1 DEF DbType, Tables0
  <2>2. db' = [db EXCEPT !.mem = mem, !.disk = IF db.open THEN db.disk ELSE mem]
    BY <1>1, <1>3 DEF LoginWrites, Exec, DbType
  <2> HIDE DEF mem
  <2>3. db'.mem = mem /\ db'.open = db.open /\ (db.open => db'.disk = db.disk)
    BY <1>1, <2>2 DEF DbType
  <2> QED
    BY <1>2, <1>3, <2>1, <2>3 DEF LoginWrites, WriteStep, LoginGoes, LoginAt
<1>4. CASE LoginStarts
  BY <1>4 DEF LoginStarts, LoginAt, StartStep
<1>5. CASE LoginLocks
  BY <1>2, <1>5 DEF LoginLocks, LoginAt, LoginLockStep, LoginGoes
<1>6. CASE LoginBegins
  <2>1. db'.open /\ db'.mem = db.mem /\ db'.disk = db.disk
    BY <1>1, <1>6 DEF LoginBegins, DbType
  <2> QED
    BY <1>2, <1>6, <2>1 DEF LoginBegins, LoginAt, LoginBeginStep, LoginGoes
<1>7. CASE LoginCommits
  <2>1. ~db'.open /\ db'.mem = db.mem /\ db'.disk = db.mem
    BY <1>1, <1>7 DEF LoginCommits, DbType
  <2> QED
    BY <1>2, <1>7, <2>1 DEF LoginCommits, LoginAt, LoginCommitStep, LoginGoes
<1>8. CASE LoginUnlocks
  BY <1>2, <1>8 DEF LoginUnlocks, LoginAt, LoginUnlockStep, LoginGoes
<1> QED
  BY <1>3, <1>4, <1>5, <1>6, <1>7, <1>8 DEF Login

-----------------------------------------------------------------------------
(* Mutual exclusion.                                                        *)

Opened      == {"time", "left", "leftSet", "commit"}
LoginOpened == {"ip", "uuid", "commit"}

\* A transaction is open exactly while its owner is between BEGIN and COMMIT.
OpenHeld ==
  db.open <=> \/ \E t \in Threads : rec[t].at \in Opened
              \/ login.at \in LoginOpened

LEMMA RecordsExclude ==
  ASSUME TypeOK, OneTransaction, OpenHeld, NEW t \in Threads, Records(t)
  PROVE  OneTransaction' /\ OpenHeld'
<1>1. Alone(t)
  BY Shapes
<1>2. \A s \in Threads : s # t => rec'[s].at = rec[s].at
  BY <1>1 DEF Alone
<1>3. Free \notin Threads /\ Main \notin Threads /\ Main # Free /\ login'.at = login.at
  BY <1>1, RecordsConstants DEF Alone
<1>4. \A s \in Threads : rec[s].at \in Opened => rec[s].at \in InTransaction
  BY DEF Opened, InTransaction
<1>5. login.at \in LoginOpened => login.at \in LoginInTransaction
  BY DEF LoginOpened, LoginInTransaction
<1>6. ASSUME mutex' = mutex, db'.open = db.open,
             rec[t].at \in InTransaction <=> rec'[t].at \in InTransaction,
             rec[t].at \in Opened <=> rec'[t].at \in Opened
      PROVE  OneTransaction' /\ OpenHeld'
  BY <1>2, <1>3, <1>6 DEF OneTransaction, OpenHeld
<1>7. CASE CountStep(t)
  <2>1. /\ rec[t].at \notin InTransaction /\ rec'[t].at \notin InTransaction
        /\ rec[t].at \notin Opened /\ rec'[t].at \notin Opened
    BY <1>7 DEF CountStep, Counting, InTransaction, Opened
  <2>2. mutex' = mutex /\ db'.open = db.open
    BY <1>7 DEF CountStep, CounterWritten
  <2> QED
    BY <1>6, <2>1, <2>2
<1>8. CASE LockStep(t)
  <2>1. /\ rec'[t].at \in InTransaction /\ rec[t].at \notin Opened /\ rec'[t].at \notin Opened
        /\ mutex = Free /\ mutex' = t /\ db' = db
    BY <1>8 DEF LockStep, FromTo, InTransaction, Opened
  <2>2. \A s \in Threads : rec[s].at \notin InTransaction
    BY <1>3, <2>1 DEF OneTransaction
  <2> QED
    BY <1>2, <1>3, <2>1, <2>2 DEF OneTransaction, OpenHeld
<1>9. CASE BeginStep(t)
  <2>1. /\ rec[t].at \in InTransaction /\ rec'[t].at \in InTransaction
        /\ rec'[t].at \in Opened /\ db'.open /\ mutex' = mutex
    BY <1>9 DEF BeginStep, FromTo, InTransaction, Opened
  <2>2. mutex = t
    BY <2>1 DEF OneTransaction
  <2> QED
    BY <1>2, <1>3, <2>1, <2>2 DEF OneTransaction, OpenHeld
<1>10. CASE TimeStep(t)
  <2>1. /\ rec[t].at \in InTransaction /\ rec'[t].at \in InTransaction
        /\ rec[t].at \in Opened /\ rec'[t].at \in Opened
        /\ mutex' = mutex /\ db'.open = db.open
    BY <1>10 DEF TimeStep, FromTo, On, InTransaction, Opened
  <2> QED
    BY <1>6, <2>1
<1>11. CASE LeftStep(t)
  <2>1. /\ rec[t].at \in InTransaction /\ rec'[t].at \in InTransaction
        /\ rec[t].at \in Opened /\ rec'[t].at \in Opened
        /\ mutex' = mutex /\ db'.open = db.open
    BY <1>11 DEF LeftStep, FromTo, On, InTransaction, Opened, CounterWritten
  <2> QED
    BY <1>6, <2>1
<1>12. CASE CommitStep(t)
  <2>1. /\ rec[t].at \in InTransaction /\ rec'[t].at \in InTransaction
        /\ rec'[t].at \notin Opened /\ ~db'.open /\ mutex' = mutex
    BY <1>12 DEF CommitStep, FromTo, InTransaction, Opened
  <2>2. mutex = t
    BY <2>1 DEF OneTransaction
  <2>3. /\ \A s \in Threads : s # t => rec[s].at \notin Opened
        /\ login.at \notin LoginOpened
    BY <1>3, <1>4, <1>5, <2>2 DEF OneTransaction
  <2>4. OpenHeld'
    BY <1>2, <1>3, <2>1, <2>3 DEF OpenHeld
  <2> QED
    BY <1>2, <1>3, <2>1, <2>2, <2>4 DEF OneTransaction
<1>13. CASE UnlockStep(t)
  <2>1. /\ rec[t].at \in InTransaction /\ rec'[t].at \notin InTransaction
        /\ rec[t].at \notin Opened /\ rec'[t].at \notin Opened
        /\ mutex' = Free /\ db' = db
    BY <1>13 DEF UnlockStep, FromTo, InTransaction, Opened
  <2>2. mutex = t
    BY <2>1 DEF OneTransaction
  <2>3. /\ \A s \in Threads : s # t => rec[s].at \notin InTransaction
        /\ login.at \notin LoginInTransaction
    BY <1>3, <2>2 DEF OneTransaction
  <2>4. ~db.open
    BY <1>4, <1>5, <2>1, <2>3 DEF OpenHeld
  <2>5. OpenHeld'
    BY <1>2, <1>3, <1>4, <1>5, <2>1, <2>3, <2>4 DEF OpenHeld
  <2> QED
    BY <1>2, <1>3, <2>1, <2>3, <2>4, <2>5 DEF OneTransaction
<1>14. CASE TellStep(t)
  <2>1. /\ rec[t].at \notin InTransaction /\ rec'[t].at \notin InTransaction
        /\ rec[t].at \notin Opened /\ rec'[t].at \notin Opened
        /\ mutex' = mutex /\ db' = db
    BY <1>14 DEF TellStep, On, InTransaction, Opened
  <2> QED
    BY <1>6, <2>1
<1> QED
  BY <1>7, <1>8, <1>9, <1>10, <1>11, <1>12, <1>13, <1>14, Shapes

LEMMA LoginExcludes ==
  ASSUME TypeOK, OneTransaction, OpenHeld, LoginStarts \/ Login
  PROVE  OneTransaction' /\ OpenHeld'
<1>1. rec' = rec
  BY LoginShapes
  DEF StartStep, LoginLockStep, LoginBeginStep, WriteStep, LoginCommitStep, LoginUnlockStep,
      LoginGoes
<1>2. Free \notin Threads /\ Main \notin Threads /\ Main # Free
  BY RecordsConstants
<1>3. \A s \in Threads : rec[s].at \in Opened => rec[s].at \in InTransaction
  BY DEF Opened, InTransaction
<1>4. ASSUME mutex' = mutex, db'.open = db.open,
             login.at \in LoginInTransaction <=> login'.at \in LoginInTransaction,
             login.at \in LoginOpened <=> login'.at \in LoginOpened
      PROVE  OneTransaction' /\ OpenHeld'
  BY <1>1, <1>2, <1>4 DEF OneTransaction, OpenHeld
<1>5. CASE StartStep
  <2>1. /\ login.at \notin LoginInTransaction /\ login'.at \notin LoginInTransaction
        /\ login.at \notin LoginOpened /\ login'.at \notin LoginOpened
        /\ mutex' = mutex /\ db' = db
    BY <1>5 DEF StartStep, LoginInTransaction, LoginOpened
  <2> QED
    BY <1>4, <2>1
<1>6. CASE LoginLockStep
  <2>1. /\ login'.at \in LoginInTransaction
        /\ login.at \notin LoginOpened /\ login'.at \notin LoginOpened
        /\ mutex = Free /\ mutex' = Main /\ db' = db
    BY <1>6 DEF LoginLockStep, LoginGoes, LoginInTransaction, LoginOpened
  <2>2. \A s \in Threads : rec[s].at \notin InTransaction
    BY <1>2, <2>1 DEF OneTransaction
  <2> QED
    BY <1>1, <1>2, <2>1, <2>2 DEF OneTransaction, OpenHeld
<1>7. CASE LoginBeginStep
  <2>1. /\ login.at \in LoginInTransaction /\ login'.at \in LoginInTransaction
        /\ login'.at \in LoginOpened /\ db'.open /\ mutex' = mutex
    BY <1>7 DEF LoginBeginStep, LoginGoes, LoginInTransaction, LoginOpened
  <2> QED
    BY <1>1, <1>2, <2>1 DEF OneTransaction, OpenHeld
<1>8. CASE WriteStep("ip", "uuid") \/ WriteStep("uuid", "commit")
  <2>1. /\ login.at \in LoginInTransaction /\ login'.at \in LoginInTransaction
        /\ login.at \in LoginOpened /\ login'.at \in LoginOpened
        /\ mutex' = mutex /\ db'.open = db.open
    BY <1>8 DEF WriteStep, LoginGoes, LoginInTransaction, LoginOpened
  <2> QED
    BY <1>4, <2>1
<1>9. CASE LoginCommitStep
  <2>1. /\ login.at \in LoginInTransaction /\ login'.at \in LoginInTransaction
        /\ login'.at \notin LoginOpened /\ ~db'.open /\ mutex' = mutex
    BY <1>9 DEF LoginCommitStep, LoginGoes, LoginInTransaction, LoginOpened
  <2>2. mutex = Main
    BY <2>1 DEF OneTransaction
  <2>3. \A s \in Threads : rec[s].at \notin Opened
    BY <1>2, <1>3, <2>2 DEF OneTransaction
  <2> QED
    BY <1>1, <1>2, <2>1, <2>2, <2>3 DEF OneTransaction, OpenHeld
<1>10. CASE LoginUnlockStep
  <2>1. /\ login.at \in LoginInTransaction /\ login'.at \notin LoginInTransaction
        /\ login.at \notin LoginOpened /\ login'.at \notin LoginOpened
        /\ mutex' = Free /\ db' = db
    BY <1>10 DEF LoginUnlockStep, LoginGoes, LoginInTransaction, LoginOpened
  <2>2. mutex = Main
    BY <2>1 DEF OneTransaction
  <2>3. \A s \in Threads : rec[s].at \notin InTransaction
    BY <1>2, <2>2 DEF OneTransaction
  <2>4. ~db.open
    BY <1>3, <2>1, <2>3 DEF OpenHeld
  <2> QED
    BY <1>1, <1>2, <2>1, <2>3, <2>4 DEF OneTransaction, OpenHeld
<1> QED
  BY <1>5, <1>6, <1>7, <1>8, <1>9, <1>10, LoginShapes

\* A thread begins outside the transaction.
LEMMA GameEndsFacts ==
  ASSUME TypeOK, NEW t \in Threads, NEW seats \in Tables, NEW counted \in BOOLEAN,
         GameEnds(t, seats, counted)
  PROVE  /\ rec[t].at = "idle" /\ rec'[t].at \in {"player", "lock"}
         /\ rec'[t].game = Len(games) + 1 /\ rec'[t].seat = 1
         /\ \A s \in Threads \ {t} : rec'[s] = rec[s]
         /\ login' = login /\ mutex' = mutex /\ db' = db
<1>1. rec \in [Threads -> [at : Spots, game : Nat, seat : Nat, read : Nat]]
  BY TypeParts DEF RecType
<1> QED
  BY <1>1 DEF GameEnds, Is

\* Transactions exclude one another: the mutex is held exactly between
\* beginTransaction and endTransaction, by room threads and the main thread,
\* and when it is free no transaction is open.
THEOREM Exclusion == Spec => []OneTransaction
<1>1. Init => OneTransaction /\ OpenHeld
  BY RecordsConstants
  DEF Init, OneTransaction, OpenHeld, NoGame, NoLogin, InTransaction, LoginInTransaction,
      Opened, LoginOpened
<1>2. TypeOK /\ OneTransaction /\ OpenHeld /\ [Next]_vars => OneTransaction' /\ OpenHeld'
  <2> SUFFICES ASSUME TypeOK, OneTransaction, OpenHeld, [Next]_vars
               PROVE  OneTransaction' /\ OpenHeld'
    OBVIOUS
  <2>1. CASE UNCHANGED vars
    BY <2>1 DEF vars, OneTransaction, OpenHeld
  <2>2. ASSUME NEW t \in Threads, NEW seats \in Tables, NEW counted \in BOOLEAN,
               GameEnds(t, seats, counted)
        PROVE  OneTransaction' /\ OpenHeld'
    <3>1. /\ rec[t].at \notin InTransaction /\ rec'[t].at \notin InTransaction
          /\ rec[t].at \notin Opened /\ rec'[t].at \notin Opened
      BY <2>2, GameEndsFacts DEF InTransaction, Opened
    <3>2. /\ \A s \in Threads \ {t} : rec'[s] = rec[s]
          /\ login' = login /\ mutex' = mutex /\ db' = db
      BY <2>2, GameEndsFacts
    <3> QED
      BY <3>1, <3>2 DEF OneTransaction, OpenHeld
  <2>3. CASE Crash
    <3>1. login'.at = "idle" /\ ~db'.open /\ \A s \in Threads : rec'[s].at = "idle"
      <4>1. login \in [at : {"idle", "lock"} \cup LoginInTransaction, number : Nat]
        BY DEF TypeOK
      <4> QED
        BY <2>3, <4>1 DEF Crash, NoGame
    <3> QED
      BY <2>3, <3>1, RecordsConstants
      DEF Crash, OneTransaction, OpenHeld, InTransaction, LoginInTransaction, Opened, LoginOpened
  <2> QED
    BY <2>1, <2>2, <2>3, RecordsExclude, LoginExcludes DEF Next
<1> QED
  BY <1>1, <1>2, Typing, PTL DEF Spec

-----------------------------------------------------------------------------
(* Transactions are whole.                                                  *)

\* The time of the i-th human of game g is in a table.
Timed(tab, g, i) == <<g, games[g].seats[i].user>> \in tab.timed
Whole(tab, g) ==
  \A i, j \in DOMAIN games[g].seats : Timed(tab, g, i) <=> Timed(tab, g, j)

\* A thread has executed the statement about its i-th human.
Written(t, i) ==
  \/ rec[t].at \in {"commit", "unlock", "tell"}
  \/ rec[t].at = "time" /\ i < rec[t].seat
  \/ rec[t].at \in {"left", "leftSet"} /\ i <= rec[t].seat
Committed(t) == rec[t].at \in {"unlock", "tell"}
Working(t)   == rec[t].at # "idle"

\* Outside a transaction the connection sees what is on the disk.
SameDb == ~db.open => db.disk.timed = db.mem.timed /\ db.disk.logged = db.mem.logged

\* No two threads write down the same game.
Apart == \A s, t \in Threads : Working(s) /\ Working(t) /\ rec[s].game = rec[t].game => s = t
Known == \A g, u : <<g, u>> \in db.mem.timed \cup db.disk.timed => g \in DOMAIN games
FirstSeat == \A t \in Threads : rec[t].at \in {"lock", "begin"} => rec[t].seat = 1
Underway ==
  \A t \in Threads : Working(t) =>
    \A i \in DOMAIN Seats(t) :
      /\ Timed(db.mem, rec[t].game, i) <=> Written(t, i)
      /\ Timed(db.disk, rec[t].game, i) <=> Committed(t)
Rest ==
  \A g \in DOMAIN games :
    (\A t \in Threads : Working(t) => rec[t].game # g) => Whole(db.mem, g) /\ Whole(db.disk, g)
TimedInv == Apart /\ Known /\ FirstSeat /\ Underway /\ Rest

LEMMA DiskWhole ==
  ASSUME TypeOK, TimedInv, NEW g \in DOMAIN games
  PROVE  Whole(db.disk, g)
<1>1. CASE \A t \in Threads : Working(t) => rec[t].game # g
  BY <1>1 DEF TimedInv, Rest
<1>2. ASSUME NEW t \in Threads, Working(t), rec[t].game = g
      PROVE  Whole(db.disk, g)
  <2>1. \A i \in DOMAIN games[g].seats : Timed(db.disk, g, i) <=> Committed(t)
    BY <1>2 DEF TimedInv, Underway, Seats
  <2> QED
    BY <2>1 DEF Whole
<1> QED
  BY <1>1, <1>2

\* A step that adds no times keeps the invariant if the thread is as far as it was.
LEMMA NoTimes ==
  ASSUME TypeOK, TimedInv, NEW t \in Threads, Alone(t),
         db'.mem.timed = db.mem.timed, db'.disk.timed = db.disk.timed,
         rec'[t].at \in {"lock", "begin"} => rec'[t].seat = 1,
         Working(t)' => /\ \A i \in DOMAIN Seats(t) : Written(t, i)' <=> Written(t, i)
                        /\ Committed(t)' <=> Committed(t),
         ~Working(t)' => rec[t].at = "tell"
  PROVE  TimedInv'
<1>1. games' = games /\ rec'[t].game = rec[t].game /\ Working(t)
  BY DEF Alone, Working
<1>2. ASSUME NEW s \in Threads, s # t PROVE rec'[s] = rec[s]
  BY <1>2 DEF Alone
<1>4. Apart'
  BY <1>1, <1>2 DEF TimedInv, Apart, Working
<1>5. Known'
  BY <1>1 DEF TimedInv, Known
<1>6. FirstSeat'
  BY <1>2 DEF TimedInv, FirstSeat
<1>7. Underway'
  <2> SUFFICES ASSUME NEW s \in Threads, Working(s)', NEW i \in DOMAIN Seats(s)'
               PROVE  /\ Timed(db.mem, rec[s].game, i)' <=> Written(s, i)'
                      /\ Timed(db.disk, rec[s].game, i)' <=> Committed(s)'
    BY DEF Underway
  <2>1. rec'[s].game = rec[s].game /\ Seats(s)' = Seats(s)
    BY <1>1, <1>2 DEF Seats
  <2>2. /\ Timed(db.mem, rec[s].game, i)' <=> Timed(db.mem, rec[s].game, i)
        /\ Timed(db.disk, rec[s].game, i)' <=> Timed(db.disk, rec[s].game, i)
    BY <1>1, <2>1 DEF Timed
  <2>3. Working(s) /\ (Written(s, i)' <=> Written(s, i)) /\ (Committed(s)' <=> Committed(s))
    BY <1>1, <1>2, <2>1 DEF Working, Written, Committed
  <2> QED
    BY <2>1, <2>2, <2>3 DEF TimedInv, Underway
<1>8. Rest'
  <2> SUFFICES ASSUME NEW g \in DOMAIN games,
                      \A s \in Threads : Working(s)' => rec'[s].game # g
               PROVE  Whole(db.mem, g)' /\ Whole(db.disk, g)'
    BY <1>1 DEF Rest
  <2>1. Whole(db.mem, g) /\ Whole(db.disk, g)
    <3>1. CASE rec[t].game = g
      <4>1. rec[t].at = "tell"
        BY <1>1, <3>1
      <4>2. \A i \in DOMAIN games[g].seats : Timed(db.mem, g, i) /\ Timed(db.disk, g, i)
        BY <1>1, <3>1, <4>1 DEF TimedInv, Underway, Seats, Written, Committed
      <4> QED
        BY <4>2 DEF Whole
    <3>2. CASE rec[t].game # g
      BY <1>2, <3>2 DEF TimedInv, Rest, Working
    <3> QED
      BY <3>1, <3>2
  <2> QED
    BY <2>1, <1>1 DEF Whole, Timed
<1> QED
  BY <1>4, <1>5, <1>6, <1>7, <1>8 DEF TimedInv

\* The statement about a human's time, within the thread's own transaction.
LEMMA TimeAdded ==
  ASSUME TypeOK, TimedInv, db.open, NEW t \in Threads, Alone(t), TimeStep(t)
  PROVE  TimedInv'
<1>1. /\ games' = games /\ rec'[t].game = rec[t].game /\ Working(t) /\ rec[t].at = "time"
      /\ db'.disk = db.disk
      /\ db'.mem.timed = db.mem.timed \cup {<<rec[t].game, Seat(t).user>>}
  BY DEF Alone, Working, TimeStep
<1>2. ASSUME NEW s \in Threads, s # t PROVE rec'[s] = rec[s]
  BY <1>2 DEF Alone
<1>3. /\ rec[t].game \in DOMAIN games /\ rec[t].seat \in 1..Len(Seats(t)) /\ Seats(t) \in Tables
      /\ Len(Seats(t)) \in Nat /\ DOMAIN Seats(t) = 1..Len(Seats(t))
  <2>1. ~Is(t, "idle")
    BY <1>1 DEF Is, Working
  <2>2. Seats(t) \in Tables /\ rec[t].game \in DOMAIN games /\ rec[t].seat \in 1..Len(Seats(t))
    BY <2>1, SeatFacts
  <2> QED
    BY <2>2, TableFacts
<1>4. Working(t)'
  BY DEF TimeStep, FromTo, On, Working
<1>5. ~Committed(t)' /\ ~Committed(t)
  BY DEF TimeStep, FromTo, On, Committed
<1>6. \A i \in DOMAIN Seats(t) : Written(t, i)' <=> (Written(t, i) \/ i = rec[t].seat)
  <2> SUFFICES ASSUME NEW i \in 1..Len(Seats(t))
               PROVE  Written(t, i)' <=> (Written(t, i) \/ i = rec[t].seat)
    BY <1>3
  <2>1. CASE FromTo(t, "time", "left")
    BY <1>3, <2>1 DEF FromTo, Written
  <2>2. CASE On(t, "time", "commit")
    BY <1>1, <1>3, <2>2 DEF On, Written
  <2> QED
    BY <2>1, <2>2 DEF TimeStep
<1>7. Apart'
  BY <1>1, <1>2 DEF TimedInv, Apart, Working
<1>8. Known'
  BY <1>1, <1>3 DEF TimedInv, Known
<1>9. FirstSeat'
  BY <1>2 DEF TimedInv, FirstSeat, TimeStep, FromTo, On
<1>10. ASSUME NEW s \in Threads, Working(s)', NEW i \in DOMAIN Seats(s)'
       PROVE  /\ Timed(db.mem, rec[s].game, i)' <=> Written(s, i)'
              /\ Timed(db.disk, rec[s].game, i)' <=> Committed(s)'
  <2>1. CASE s = t
    <3>1. i \in DOMAIN Seats(t) /\ Seats(t)' = Seats(t)
      BY <1>1, <1>10, <2>1 DEF Seats
    <3>2. Timed(db.mem, rec[t].game, i)' <=> (Timed(db.mem, rec[t].game, i) \/ i = rec[t].seat)
      <4>1. Seats(t)[i].user = Seat(t).user <=> i = rec[t].seat
        BY <1>3, <3>1, TableFacts DEF Seat
      <4> QED
        BY <1>1, <4>1 DEF Timed, Seats
    <3>3. Timed(db.disk, rec[t].game, i)' <=> Timed(db.disk, rec[t].game, i)
      BY <1>1 DEF Timed
    <3> QED
      BY <1>1, <1>5, <1>6, <2>1, <3>1, <3>2, <3>3 DEF TimedInv, Underway
  <2>2. CASE s # t
    <3>1. rec'[s] = rec[s] /\ Seats(s)' = Seats(s) /\ Working(s)
      BY <1>1, <1>2, <1>10, <2>2 DEF Seats, Working
    <3>2. rec[s].game # rec[t].game
      BY <1>1, <2>2, <3>1 DEF TimedInv, Apart
    <3>3. /\ Timed(db.mem, rec[s].game, i)' <=> Timed(db.mem, rec[s].game, i)
          /\ Timed(db.disk, rec[s].game, i)' <=> Timed(db.disk, rec[s].game, i)
      BY <1>1, <3>1, <3>2 DEF Timed
    <3>4. (Written(s, i)' <=> Written(s, i)) /\ (Committed(s)' <=> Committed(s))
      BY <3>1 DEF Written, Committed
    <3> QED
      BY <1>10, <3>1, <3>3, <3>4 DEF TimedInv, Underway
  <2> QED
    BY <2>1, <2>2
<1>11. Underway'
  BY <1>10 DEF Underway
<1>12. Rest'
  <2> SUFFICES ASSUME NEW g \in DOMAIN games,
                      \A s \in Threads : Working(s)' => rec'[s].game # g
               PROVE  Whole(db.mem, g)' /\ Whole(db.disk, g)'
    BY <1>1 DEF Rest
  <2>1. \A s \in Threads : Working(s) => rec[s].game # g
    BY <1>1, <1>2, <1>4 DEF Working
  <2>2. Whole(db.mem, g) /\ Whole(db.disk, g) /\ rec[t].game # g
    BY <1>1, <2>1 DEF TimedInv, Rest
  <2> QED
    BY <2>2, <1>1 DEF Whole, Timed
<1> QED
  BY <1>7, <1>8, <1>9, <1>11, <1>12 DEF TimedInv

\* A commit of the thread t brings its own game, and of the others' games what
\* is there as a whole or not at all.
LEMMA TimesCommitted ==
  ASSUME TypeOK, TimedInv, NEW t \in Threads, Alone(t), CommitStep(t),
         \A s \in Threads \ {t} : rec[s].at \notin InTransaction
  PROVE  TimedInv'
<1>1. /\ games' = games /\ rec'[t].game = rec[t].game /\ Working(t) /\ Working(t)'
      /\ db'.disk = db.mem /\ db'.mem = db.mem
      /\ rec[t].at = "commit" /\ rec'[t].at = "unlock"
  BY DEF Alone, Working, CommitStep, FromTo
<1>2. ASSUME NEW s \in Threads, s # t PROVE rec'[s] = rec[s]
  BY <1>2 DEF Alone
<1>3. Apart'
  BY <1>1, <1>2 DEF TimedInv, Apart, Working
<1>4. Known'
  BY <1>1 DEF TimedInv, Known
<1>5. FirstSeat'
  BY <1>1, <1>2 DEF TimedInv, FirstSeat
<1>6. ASSUME NEW s \in Threads, Working(s)', NEW i \in DOMAIN Seats(s)'
      PROVE  /\ Timed(db.mem, rec[s].game, i)' <=> Written(s, i)'
             /\ Timed(db.disk, rec[s].game, i)' <=> Committed(s)'
  <2>1. /\ rec'[s].game = rec[s].game /\ Seats(s)' = Seats(s)
        /\ Working(s) /\ i \in DOMAIN Seats(s)
    BY <1>1, <1>2, <1>6 DEF Seats, Working
  <2>2. /\ Timed(db.mem, rec[s].game, i)' <=> Timed(db.mem, rec[s].game, i)
        /\ Timed(db.disk, rec[s].game, i)' <=> Timed(db.mem, rec[s].game, i)
    BY <1>1, <2>1 DEF Timed
  <2>3. (Written(s, i)' <=> Written(s, i)) /\ (Committed(s)' <=> Written(s, i))
    <3>1. CASE s = t
      BY <1>1, <3>1 DEF Written, Committed
    <3>2. CASE s # t
      <4>1. rec'[s] = rec[s] /\ rec[s].at \notin InTransaction
        BY <1>2, <3>2
      <4> QED
        BY <4>1 DEF Written, Committed, InTransaction
    <3> QED
      BY <3>1, <3>2
  <2> QED
    BY <2>1, <2>2, <2>3 DEF TimedInv, Underway
<1>7. Underway'
  BY <1>6 DEF Underway
<1>8. Rest'
  <2> SUFFICES ASSUME NEW g \in DOMAIN games,
                      \A s \in Threads : Working(s)' => rec'[s].game # g
               PROVE  Whole(db.mem, g)' /\ Whole(db.disk, g)'
    BY <1>1 DEF Rest
  <2>1. \A s \in Threads : Working(s) => rec[s].game # g
    BY <1>1, <1>2 DEF Working
  <2>2. Whole(db.mem, g)
    BY <2>1 DEF TimedInv, Rest
  <2> QED
    BY <2>2, <1>1 DEF Whole, Timed
<1> QED
  BY <1>3, <1>4, <1>5, <1>7, <1>8 DEF TimedInv

LEMMA RecordsTimes ==
  ASSUME TypeOK, OneTransaction, OpenHeld, SameDb, TimedInv, NEW t \in Threads, Records(t)
  PROVE  TimedInv' /\ SameDb'
<1>1. Alone(t)
  BY Shapes
<1>2. rec[t].at \in Opened => db.open
  BY DEF OpenHeld
<1>3. CounterWritten => /\ db'.mem.timed = db.mem.timed /\ db'.disk.timed = db.disk.timed
                        /\ SameDb'
  BY DEF CounterWritten, SameDb
<1>4. db' = db => SameDb'
  BY DEF SameDb
<1>5. CASE CountStep(t)
  <2>1. db'.mem.timed = db.mem.timed /\ db'.disk.timed = db.disk.timed /\ SameDb'
    BY <1>3, <1>4, <1>5 DEF CountStep
  <2>2. /\ rec'[t].at \in {"lock", "begin"} => rec'[t].seat = 1
        /\ Working(t)' /\ ~Committed(t) /\ ~Committed(t)'
        /\ \A i \in DOMAIN Seats(t) : ~Written(t, i) /\ ~Written(t, i)'
    BY <1>5 DEF CountStep, Counting, Working, Committed, Written
  <2> QED
    BY <1>1, <2>1, <2>2, NoTimes
<1>6. CASE LockStep(t)
  <2>1. /\ rec'[t].at \in {"lock", "begin"} => rec'[t].seat = 1
        /\ Working(t)' /\ ~Committed(t) /\ ~Committed(t)' /\ db' = db
        /\ \A i \in DOMAIN Seats(t) : ~Written(t, i) /\ ~Written(t, i)'
    BY <1>6 DEF LockStep, FromTo, Working, Committed, Written, TimedInv, FirstSeat
  <2> QED
    BY <1>1, <1>4, <2>1, NoTimes
<1>7. CASE BeginStep(t)
  <2>1. rec[t].seat = 1 /\ rec'[t].at = "time" /\ rec'[t].seat = 1 /\ rec[t].at = "begin"
    BY <1>7 DEF BeginStep, FromTo, TimedInv, FirstSeat
  <2>2. \A i \in DOMAIN Seats(t) : i \in Int /\ i >= 1
    <3>1. ~Is(t, "idle")
      BY <2>1 DEF Is
    <3>2. Seats(t) \in Tables
      BY <3>1, SeatFacts
    <3> QED
      BY <3>2, TableFacts
  <2>3. \A i \in DOMAIN Seats(t) : ~Written(t, i) /\ ~Written(t, i)'
    BY <2>1, <2>2 DEF Written
  <2>4. Working(t)' /\ ~Committed(t) /\ ~Committed(t)'
    BY <2>1 DEF Working, Committed
  <2>5. SameDb' /\ db'.mem.timed = db.mem.timed /\ db'.disk.timed = db.disk.timed
    BY <1>7 DEF BeginStep, SameDb
  <2> QED
    BY <1>1, <2>1, <2>3, <2>4, <2>5, NoTimes
<1>8. CASE TimeStep(t)
  <2>1. db.open /\ db'.open
    BY <1>2, <1>8 DEF TimeStep, Opened
  <2> QED
    BY <1>1, <1>8, <2>1, TimeAdded DEF SameDb
<1>9. CASE LeftStep(t)
  <2>1. db'.mem.timed = db.mem.timed /\ db'.disk.timed = db.disk.timed /\ SameDb'
    BY <1>3, <1>4, <1>9 DEF LeftStep
  <2>2. /\ rec'[t].at \in {"leftSet", "time", "commit"}
        /\ Working(t)' /\ ~Committed(t) /\ ~Committed(t)'
    BY <1>9 DEF LeftStep, FromTo, On, Working, Committed
  <2>3. \A i \in DOMAIN Seats(t) : Written(t, i)' <=> Written(t, i)
    <3>1. ~Is(t, "idle")
      BY <1>9 DEF Is, LeftStep, FromTo
    <3>2. Seats(t) \in Tables /\ rec[t].seat \in 1..Len(Seats(t))
      BY <3>1, SeatFacts
    <3>3. DOMAIN Seats(t) = 1..Len(Seats(t)) /\ Len(Seats(t)) \in Nat
      BY <3>2, TableFacts
    <3>4. CASE FromTo(t, "left", "leftSet")
      BY <3>4 DEF FromTo, Written
    <3>5. CASE rec[t].at = "leftSet" /\ On(t, "time", "commit")
      BY <3>2, <3>3, <3>5 DEF On, Written
    <3> QED
      BY <1>9, <3>4, <3>5 DEF LeftStep
  <2> QED
    BY <1>1, <2>1, <2>2, <2>3, NoTimes
<1>10. CASE CommitStep(t)
  <2>1. rec[t].at \in InTransaction
    BY <1>10 DEF CommitStep, FromTo, InTransaction
  <2>2. \A s \in Threads \ {t} : rec[s].at \notin InTransaction
    BY <2>1 DEF OneTransaction
  <2> QED
    BY <1>1, <1>10, <2>2, TimesCommitted DEF CommitStep, SameDb
<1>11. CASE UnlockStep(t)
  <2>1. /\ rec'[t].at \notin {"lock", "begin"}
        /\ Working(t)' /\ Committed(t) /\ Committed(t)' /\ db' = db
        /\ \A i \in DOMAIN Seats(t) : Written(t, i) /\ Written(t, i)'
    BY <1>11 DEF UnlockStep, FromTo, Working, Committed, Written
  <2> QED
    BY <1>1, <1>4, <2>1, NoTimes
<1>12. CASE TellStep(t)
  <2>1. /\ rec'[t].at \notin {"lock", "begin"} /\ rec[t].at = "tell" /\ db' = db
        /\ Working(t)' => /\ Committed(t) /\ Committed(t)'
                          /\ \A i \in DOMAIN Seats(t) : Written(t, i) /\ Written(t, i)'
    BY <1>12 DEF TellStep, On, Working, Committed, Written
  <2> QED
    BY <1>1, <1>4, <2>1, NoTimes
<1> QED
  BY <1>5, <1>6, <1>7, <1>8, <1>9, <1>10, <1>11, <1>12, Shapes

\* What the threads and the times are is all that the invariant is about.
LEMMA TimesStay ==
  ASSUME TimedInv, rec' = rec, games' = games, db'.mem.timed = db.mem.timed,
         db'.disk.timed = db.disk.timed
  PROVE  TimedInv'
<1>1. Apart' /\ Known' /\ FirstSeat'
  BY DEF TimedInv, Apart, Known, FirstSeat, Working
<1>2. Underway'
  <2> SUFFICES ASSUME NEW s \in Threads, Working(s), NEW i \in DOMAIN Seats(s)
               PROVE  /\ Timed(db.mem, rec[s].game, i)' <=> Written(s, i)'
                      /\ Timed(db.disk, rec[s].game, i)' <=> Committed(s)'
    BY DEF Underway, Working, Seats
  <2>1. (Written(s, i)' <=> Written(s, i)) /\ (Committed(s)' <=> Committed(s))
    BY DEF Written, Committed
  <2>2. /\ Timed(db.mem, rec[s].game, i)' <=> Timed(db.mem, rec[s].game, i)
        /\ Timed(db.disk, rec[s].game, i)' <=> Timed(db.disk, rec[s].game, i)
    BY DEF Timed
  <2> QED
    BY <2>1, <2>2 DEF TimedInv, Underway
<1>3. Rest'
  <2> SUFFICES ASSUME NEW g \in DOMAIN games,
                      \A t \in Threads : Working(t) => rec[t].game # g
               PROVE  Whole(db.mem, g)' /\ Whole(db.disk, g)'
    BY DEF Rest, Working
  <2>1. Whole(db.mem, g) /\ Whole(db.disk, g)
    BY DEF TimedInv, Rest
  <2> QED
    BY <2>1 DEF Whole, Timed
<1> QED
  BY <1>1, <1>2, <1>3 DEF TimedInv

\* The steps of a login leave the times alone, its commit excepted.
LEMMA LoginTimes ==
  ASSUME TypeOK, OneTransaction, OpenHeld, SameDb, TimedInv, LoginStarts \/ Login
  PROVE  TimedInv' /\ SameDb'
<1>1. rec' = rec /\ games' = games /\ db'.mem.timed = db.mem.timed
  BY LoginShapes
  DEF StartStep, LoginLockStep, LoginBeginStep, WriteStep, LoginCommitStep, LoginUnlockStep,
      LoginGoes
<1>2. ASSUME db'.disk.timed = db.disk.timed PROVE TimedInv'
  BY <1>1, <1>2, TimesStay
<1>3. CASE LoginCommitStep
  <2>1. \A s \in Threads : rec[s].at \notin InTransaction
    <3>1. mutex = Main
      BY <1>3 DEF LoginCommitStep, LoginGoes, LoginInTransaction, OneTransaction
    <3> QED
      BY <3>1, RecordsConstants DEF OneTransaction
  <2>2. db'.disk = db.mem /\ db'.mem = db.mem
    BY <1>3 DEF LoginCommitStep
  <2>3. \A s \in Threads : \A i : Committed(s) <=> Written(s, i)
    BY <2>1 DEF Written, Committed, InTransaction
  <2>4. Underway'
    BY <1>1, <2>2, <2>3 DEF TimedInv, Underway, Timed, Seats, Working, Written, Committed
  <2>5. Rest'
    BY <1>1, <2>2 DEF TimedInv, Rest, Whole, Timed, Working
  <2>6. Apart' /\ Known' /\ FirstSeat'
    BY <1>1, <2>2 DEF TimedInv, Apart, Known, FirstSeat, Working
  <2> QED
    BY <1>3, <2>4, <2>5, <2>6 DEF TimedInv, LoginCommitStep, SameDb
<1>4. CASE StartStep \/ LoginLockStep \/ LoginUnlockStep
  BY <1>2, <1>4 DEF StartStep, LoginLockStep, LoginUnlockStep, SameDb
<1>5. CASE LoginBeginStep
  BY <1>2, <1>5 DEF LoginBeginStep, SameDb
<1>6. CASE WriteStep("ip", "uuid") \/ WriteStep("uuid", "commit")
  <2>1. db.open /\ db'.open
    BY <1>6 DEF WriteStep, LoginGoes, OpenHeld, LoginOpened
  <2> QED
    BY <1>2, <1>6, <2>1 DEF WriteStep, SameDb
<1> QED
  BY <1>3, <1>4, <1>5, <1>6, LoginShapes

LEMMA GameEndsTimes ==
  ASSUME TypeOK, TimedInv, NEW t \in Threads, NEW seats \in Tables, NEW counted \in BOOLEAN,
         GameEnds(t, seats, counted)
  PROVE  TimedInv'
<1> DEFINE n == Len(games) + 1
<1>1. /\ ~Working(t) /\ Working(t)' /\ rec'[t].game = n /\ rec'[t].seat = 1
      /\ rec'[t].at \in {"player", "lock"} /\ db' = db
  BY GameEndsFacts DEF Working
<1>2. ASSUME NEW s \in Threads, s # t PROVE rec'[s] = rec[s]
  BY <1>2, GameEndsFacts
<1>3. /\ DOMAIN games = 1..Len(games) /\ DOMAIN games' = 1..n /\ Len(games) \in Nat
      /\ \A g \in DOMAIN games : games'[g] = games[g]
  BY GameEndsType
<1>4. \A s \in Threads : Working(s) => rec[s].game \in DOMAIN games
  BY DEF TypeOK, Is, Working
<1>5. n \notin DOMAIN games
  BY <1>3
<1>6. Apart'
  BY <1>1, <1>2, <1>4, <1>5 DEF TimedInv, Apart, Working
<1>7. Known'
  BY <1>1, <1>3 DEF TimedInv, Known
<1>8. FirstSeat'
  BY <1>1, <1>2 DEF TimedInv, FirstSeat
<1>9. ASSUME NEW s \in Threads, Working(s)', NEW i \in DOMAIN Seats(s)'
      PROVE  /\ Timed(db.mem, rec[s].game, i)' <=> Written(s, i)'
             /\ Timed(db.disk, rec[s].game, i)' <=> Committed(s)'
  <2>1. CASE s = t
    <3>1. ~Written(s, i)' /\ ~Committed(s)'
      BY <1>1, <2>1 DEF Written, Committed
    <3>2. ~Timed(db.mem, rec[s].game, i)' /\ ~Timed(db.disk, rec[s].game, i)'
      BY <1>1, <1>5, <2>1 DEF TimedInv, Known, Timed
    <3> QED
      BY <3>1, <3>2
  <2>2. CASE s # t
    <3>1. rec'[s] = rec[s] /\ Working(s)
      BY <1>2, <1>9, <2>2 DEF Working
    <3>2. games'[rec[s].game] = games[rec[s].game]
      BY <1>3, <1>4, <3>1
    <3>3. Seats(s)' = Seats(s)
      BY <3>1, <3>2 DEF Seats
    <3>4. /\ Timed(db.mem, rec[s].game, i)' <=> Timed(db.mem, rec[s].game, i)
          /\ Timed(db.disk, rec[s].game, i)' <=> Timed(db.disk, rec[s].game, i)
      BY <1>1, <3>1, <3>2 DEF Timed
    <3>5. (Written(s, i)' <=> Written(s, i)) /\ (Committed(s)' <=> Committed(s))
      BY <3>1 DEF Written, Committed
    <3> QED
      BY <1>9, <3>1, <3>3, <3>4, <3>5 DEF TimedInv, Underway
  <2> QED
    BY <2>1, <2>2
<1>10. Underway'
  BY <1>9 DEF Underway
<1>11. Rest'
  <2> SUFFICES ASSUME NEW g \in DOMAIN games',
                      \A s \in Threads : Working(s)' => rec'[s].game # g
               PROVE  Whole(db.mem, g)' /\ Whole(db.disk, g)'
    BY DEF Rest
  <2>1. g # n
    BY <1>1
  <2>2. g \in DOMAIN games /\ games'[g] = games[g]
    BY <1>3, <2>1
  <2>3. Whole(db.mem, g) /\ Whole(db.disk, g)
    BY <1>1, <1>2, <2>2 DEF TimedInv, Rest, Working
  <2> QED
    BY <1>1, <2>2, <2>3 DEF Whole, Timed
<1> QED
  BY <1>6, <1>7, <1>8, <1>10, <1>11 DEF TimedInv

LEMMA CrashTimes ==
  ASSUME TypeOK, TimedInv, Crash
  PROVE  TimedInv' /\ SameDb'
<1>1. /\ games' = games /\ db'.mem = db.disk /\ db'.disk = db.disk
      /\ \A s \in Threads : rec'[s].at = "idle"
  BY DEF Crash, NoGame
<1>2. Apart' /\ FirstSeat' /\ Underway'
  BY <1>1 DEF Apart, FirstSeat, Underway, Working
<1>3. Known'
  BY <1>1 DEF TimedInv, Known
<1>4. Rest'
  BY <1>1, DiskWhole DEF Rest, Whole, Timed
<1> QED
  BY <1>1, <1>2, <1>3, <1>4 DEF TimedInv, SameDb

\* Both statements of a login are in a table or neither.
Both(tab, n) == <<n, "ip">> \in tab.logged <=> <<n, "uuid">> \in tab.logged

LoggedInv ==
  /\ \A n, what : <<n, what>> \in db.mem.logged \cup db.disk.logged =>
       n \in Nat /\ n <= login.number
  /\ \A n \in Nat : Both(db.disk, n)
  /\ \A n \in Nat : n # login.number => Both(db.mem, n)
  /\ login.at \in {"lock", "begin", "ip"} =>
       /\ <<login.number, "ip">> \notin db.mem.logged
       /\ <<login.number, "uuid">> \notin db.mem.logged
  /\ login.at = "uuid" => <<login.number, "ip">> \in db.mem.logged
  /\ login.at \in {"idle", "commit", "unlock"} => Both(db.mem, login.number)

LEMMA LoginLogged ==
  ASSUME TypeOK, OpenHeld, LoggedInv, LoginStarts \/ Login
  PROVE  LoggedInv'
<1>1. login.number \in Nat
  BY DEF TypeOK
<1>2. CASE StartStep
  <2>1. login'.number \in Nat /\ login'.number > login.number /\ login'.at = "lock" /\ db' = db
    BY <1>1, <1>2 DEF StartStep
  <2>2. \A n, what : <<n, what>> \in db.mem.logged \cup db.disk.logged =>
          n \in Nat /\ n <= login'.number /\ n # login'.number
    BY <1>1, <2>1 DEF LoggedInv
  <2>3. \A n \in Nat : Both(db.mem, n)
    BY <1>2 DEF StartStep, LoggedInv
  <2> QED
    BY <2>1, <2>2, <2>3 DEF LoggedInv, Both
<1>3. CASE LoginLockStep \/ LoginBeginStep
  <2>1. /\ login.at \in {"lock", "begin"} /\ login'.at \in {"begin", "ip"}
        /\ login'.number = login.number /\ db'.mem = db.mem /\ db'.disk = db.disk
    BY <1>3 DEF LoginLockStep, LoginBeginStep, LoginGoes
  <2> QED
    BY <2>1 DEF LoggedInv, Both
<1>4. CASE WriteStep("ip", "uuid")
  <2>1. db'.disk = db.disk
    BY <1>4 DEF WriteStep, LoginGoes, OpenHeld, LoginOpened
  <2>2. /\ login'.at = "uuid" /\ login'.number = login.number
        /\ db'.mem.logged = db.mem.logged \cup {<<login.number, "ip">>}
    BY <1>4 DEF WriteStep, LoginGoes
  <2> QED
    BY <1>1, <2>1, <2>2 DEF LoggedInv, Both
<1>5. CASE WriteStep("uuid", "commit")
  <2>1. db'.disk = db.disk
    BY <1>5 DEF WriteStep, LoginGoes, OpenHeld, LoginOpened
  <2>2. /\ login'.at = "commit" /\ login'.number = login.number /\ login.at = "uuid"
        /\ db'.mem.logged = db.mem.logged \cup {<<login.number, "uuid">>}
    BY <1>5 DEF WriteStep, LoginGoes
  <2>3. <<login.number, "ip">> \in db.mem.logged
    BY <2>2 DEF LoggedInv
  <2> QED
    BY <1>1, <2>1, <2>2, <2>3 DEF LoggedInv, Both
<1>6. CASE LoginCommitStep
  <2>1. /\ login.at = "commit" /\ login'.at = "unlock" /\ login'.number = login.number
        /\ db'.mem = db.mem /\ db'.disk = db.mem
    BY <1>6 DEF LoginCommitStep, LoginGoes
  <2> QED
    BY <1>1, <2>1 DEF LoggedInv, Both
<1>7. CASE LoginUnlockStep
  <2>1. /\ login.at = "unlock" /\ login'.at = "idle" /\ login'.number = login.number
        /\ db' = db
    BY <1>7 DEF LoginUnlockStep, LoginGoes
  <2> QED
    BY <2>1 DEF LoggedInv, Both
<1> QED
  BY <1>2, <1>3, <1>4, <1>5, <1>6, <1>7, LoginShapes

LEMMA RecordsLogged ==
  ASSUME TypeOK, OneTransaction, SameDb, LoggedInv, NEW t \in Threads, Records(t)
  PROVE  LoggedInv'
<1>1. login' = login /\ db'.mem.logged = db.mem.logged
  BY Shapes
  DEF Alone, CountStep, LockStep, BeginStep, TimeStep, LeftStep, CommitStep, UnlockStep,
      TellStep, CounterWritten
<1>2. ASSUME db'.disk.logged = db.disk.logged PROVE LoggedInv'
  BY <1>1, <1>2 DEF LoggedInv, Both
<1>3. ASSUME CounterWritten \/ db' = db PROVE LoggedInv'
  BY <1>2, <1>3 DEF CounterWritten, SameDb
<1>4. CASE TimeStep(t)
  <2>1. mutex = t /\ mutex # Free
    BY <1>4, RecordsConstants DEF TimeStep, InTransaction, OneTransaction
  <2>2. CASE db.open
    BY <1>2, <1>4, <2>2 DEF TimeStep
  <2>3. CASE ~db.open
    <3>1. Records(t) /\ Is(t, "time")
      BY <1>4 DEF TimeStep, Is
    <3>2. AddTime(t)
      BY <3>1
      DEF Records, Is, FindPlayer, WritePlayer, FindRun, WriteRun, SendNews, FindGeneral,
          WriteGeneral, Lock, Begin, FindLeft, WriteLeft, Commit, Unlock, SendTime
    <3>3. DbType
      BY TypeParts
    <3>4. db'.disk = db'.mem
      BY <2>3, <3>2, <3>3 DEF AddTime, Exec, DbType
    <3> QED
      BY <1>1, <1>2, <2>3, <3>4 DEF SameDb
  <2> QED
    BY <2>2, <2>3
<1>5. CASE CommitStep(t)
  <2>1. mutex = t
    BY <1>5 DEF CommitStep, FromTo, InTransaction, OneTransaction
  <2>2. login.at \notin LoginInTransaction
    BY <2>1, RecordsConstants DEF OneTransaction
  <2>3. login.at \in {"idle", "lock"} /\ login.number \in Nat
    BY <2>2 DEF TypeOK
  <2>4. \A n \in Nat : Both(db.mem, n)
    BY <2>3 DEF LoggedInv, Both
  <2>5. db'.mem = db.mem /\ db'.disk = db.mem
    BY <1>5 DEF CommitStep
  <2> QED
    BY <1>1, <2>4, <2>5 DEF LoggedInv, Both
<1> QED
  BY <1>2, <1>3, <1>4, <1>5, Shapes
  DEF CountStep, LockStep, BeginStep, LeftStep, UnlockStep, TellStep

LEMMA CrashLogged ==
  ASSUME TypeOK, LoggedInv, Crash
  PROVE  LoggedInv'
<1>1. login.number \in Nat /\ login'.number = login.number /\ login'.at = "idle"
  <2>1. login \in [at : {"idle", "lock"} \cup LoginInTransaction, number : Nat]
    BY DEF TypeOK
  <2> QED
    BY <2>1 DEF Crash
<1>2. db'.mem = db.disk /\ db'.disk = db.disk
  BY DEF Crash
<1> QED
  BY <1>1, <1>2 DEF LoggedInv, Both

\* The invariant of the transactions.
TransactionInv == OneTransaction /\ OpenHeld /\ SameDb /\ TimedInv /\ LoggedInv

LEMMA Transactions == Spec => []TransactionInv
<1> USE DEF TransactionInv
<1>1. Init => TransactionInv
  <2> SUFFICES ASSUME Init PROVE TransactionInv
    OBVIOUS
  <2>1. /\ \A t \in Threads : rec[t].at = "idle"
        /\ login.at = "idle" /\ login.number = 0 /\ mutex = Free /\ ~db.open
        /\ db.mem.timed = {} /\ db.mem.logged = {} /\ db.disk = db.mem
        /\ DOMAIN games = {}
    BY DEF Init, NoGame, NoLogin, Empty
  <2>2. OneTransaction /\ OpenHeld
    BY <2>1, RecordsConstants
    DEF OneTransaction, OpenHeld, InTransaction, LoginInTransaction, Opened, LoginOpened
  <2>3. SameDb /\ LoggedInv
    BY <2>1 DEF SameDb, LoggedInv, Both
  <2>4. TimedInv
    BY <2>1 DEF TimedInv, Apart, Known, FirstSeat, Underway, Rest, Working
  <2> QED
    BY <2>2, <2>3, <2>4
<1>2. TypeOK /\ TransactionInv /\ [Next]_vars => TransactionInv'
  <2> SUFFICES ASSUME TypeOK, TransactionInv, [Next]_vars PROVE TransactionInv'
    OBVIOUS
  <2>1. CASE UNCHANGED vars
    <3>1. OneTransaction' /\ OpenHeld'
      BY <2>1 DEF vars, OneTransaction, OpenHeld
    <3>2. SameDb' /\ LoggedInv'
      BY <2>1 DEF vars, SameDb, LoggedInv, Both
    <3>3. TimedInv'
      BY <2>1, TimesStay DEF vars
    <3> QED
      BY <3>1, <3>2, <3>3
  <2>2. ASSUME NEW t \in Threads, NEW seats \in Tables, NEW counted \in BOOLEAN,
               GameEnds(t, seats, counted)
        PROVE  TransactionInv'
    <3>1. TimedInv'
      BY <2>2, GameEndsTimes
    <3>2. /\ rec[t].at \notin InTransaction /\ rec'[t].at \notin InTransaction
          /\ rec[t].at \notin Opened /\ rec'[t].at \notin Opened
      BY <2>2, GameEndsFacts DEF InTransaction, Opened
    <3>3. /\ \A s \in Threads \ {t} : rec'[s] = rec[s]
          /\ login' = login /\ mutex' = mutex /\ db' = db
      BY <2>2, GameEndsFacts
    <3>4. OneTransaction' /\ OpenHeld'
      BY <3>2, <3>3 DEF OneTransaction, OpenHeld
    <3>5. SameDb' /\ LoggedInv'
      BY <3>3 DEF SameDb, LoggedInv, Both
    <3> QED
      BY <3>1, <3>4, <3>5
  <2>3. ASSUME NEW t \in Threads, Records(t) PROVE TransactionInv'
    BY <2>3, RecordsExclude, RecordsTimes, RecordsLogged
  <2>4. ASSUME LoginStarts \/ Login PROVE TransactionInv'
    BY <2>4, LoginExcludes, LoginTimes, LoginLogged
  <2>5. CASE Crash
    <3>1. login'.at = "idle" /\ ~db'.open /\ \A s \in Threads : rec'[s].at = "idle"
      <4>1. login \in [at : {"idle", "lock"} \cup LoginInTransaction, number : Nat]
        BY DEF TypeOK
      <4> QED
        BY <2>5, <4>1 DEF Crash, NoGame
    <3>2. OneTransaction' /\ OpenHeld'
      BY <2>5, <3>1, RecordsConstants
      DEF Crash, OneTransaction, OpenHeld, InTransaction, LoginInTransaction, Opened, LoginOpened
    <3> QED
      BY <2>5, <3>2, CrashTimes, CrashLogged
  <2> QED
    BY <2>1, <2>2, <2>3, <2>4, <2>5 DEF Next
<1> HIDE DEF TransactionInv
<1> QED
  BY <1>1, <1>2, Typing, PTL DEF Spec

\* On the disk a transaction is there as a whole or not at all, whenever the
\* process dies: the times of a game for all its humans, both statements of a
\* login, although all threads execute their statements on one connection.
THEOREM WholeOnDisk == Spec => []TransactionsWhole
<1>1. TypeOK /\ TransactionInv => TransactionsWhole
  <2> SUFFICES ASSUME TypeOK, TransactionInv PROVE TransactionsWhole
    OBVIOUS
  <2>1. ASSUME NEW g \in DOMAIN games
        PROVE  LET timed == {s.user : s \in {games[g].seats[i] : i \in DOMAIN games[g].seats}}
                   there == {u \in timed : <<g, u>> \in db.disk.timed}
               IN there \in {{}, timed}
    <3> DEFINE timed == {s.user : s \in {games[g].seats[i] : i \in DOMAIN games[g].seats}}
               there == {u \in timed : <<g, u>> \in db.disk.timed}
    <3>1. Whole(db.disk, g)
      BY DiskWhole DEF TransactionInv
    <3>2. \A u \in timed : \E i \in DOMAIN games[g].seats : u = games[g].seats[i].user
      OBVIOUS
    <3>3. \A u, v \in timed : <<g, u>> \in db.disk.timed <=> <<g, v>> \in db.disk.timed
      BY <3>1, <3>2 DEF Whole, Timed
    <3> HIDE DEF timed
    <3>4. there = {} \/ there = timed
      BY <3>3
    <3> QED
      BY <3>4 DEF timed
  <2>2. \A n \in 1..login.number :
          <<n, "ip">> \in db.disk.logged <=> <<n, "uuid">> \in db.disk.logged
    BY DEF TransactionInv, LoggedInv, Both
  <2> QED
    BY <2>1, <2>2 DEF TransactionsWhole
<1> QED
  BY <1>1, Typing, Transactions, PTL

-----------------------------------------------------------------------------
(* Counters.                                                                *)

\* A game makes a counter due for its i-th human.
DueAt(k, g, i) ==
  LET human   == games[g].seats[i]
      counted == games[g].counted = TRUE
  IN \/ k[1] = "player" /\ counted /\ human.user = k[2]
     \/ k[1] = "general" /\ counted /\ human.general = k[2]
     \/ /\ k[1] = "run" /\ human.user = k[2]
        /\ (human.state = "offline" \/ (human.state = "run" /\ counted))

\* A thread at `at' and its s-th human has still to write that kind of counter
\* for the i-th human, whose state is `state'.
Ahead(kind, at, s, state, i) ==
  \/ /\ kind = "player"
     /\ \/ at \in {"player", "playerSet"} /\ i >= s
        \/ at \in {"run", "runSet", "news", "general", "generalSet"} /\ i > s
  \/ kind = "general" /\ at \in Counting /\ i >= s
  \/ /\ kind = "run" /\ state = "run"
     /\ \/ at \in {"player", "playerSet", "run", "runSet"} /\ i >= s
        \/ at \in {"news", "general", "generalSet"} /\ i > s
  \/ /\ kind = "run" /\ state = "offline"
     /\ \/ at \in Counting \cup {"lock", "begin"}
        \/ at \in {"time", "left", "leftSet"} /\ i >= s

HasAhead(t, k, i) == Ahead(k[1], rec[t].at, rec[t].seat, Seats(t)[i].state, i)

\* What is due to a counter, and the part of it that no thread has still to write.
Seatings   == UNION {{g} \X DOMAIN games[g].seats : g \in DOMAIN games}
DueSet(k)  == {e \in Seatings : DueAt(k, e[1], e[2])}
Held(k, e) == \E t \in Threads : rec[t].game = e[1] /\ HasAhead(t, k, e[2])
Done(k)    == {e \in DueSet(k) : ~Held(k, e)}

\* The counter that a thread has read and not yet written.
Target(t, k) ==
  \/ rec[t].at = "playerSet" /\ k = <<"player", Seat(t).user>>
  \/ rec[t].at \in {"runSet", "leftSet"} /\ k = <<"run", Seat(t).user>>
  \/ rec[t].at = "generalSet" /\ k = <<"general", Seat(t).general>>

Places ==
  \A t \in Threads :
    /\ rec[t].at \in Counting => games[rec[t].game].counted = TRUE
    /\ rec[t].at \in {"run", "runSet"} => Seat(t).state = "run"
    /\ rec[t].at \in {"left", "leftSet"} => Seat(t).state = "offline"
Finite == \A k \in Counters : IsFiniteSet(DueSet(k))
Below ==
  \A k \in Counters : /\ db.mem.rows[k] <= Cardinality(Done(k))
                      /\ db.disk.rows[k] <= Cardinality(Done(k))
Reads ==
  \A t \in Threads, k \in Counters : Target(t, k) => rec[t].read <= Cardinality(Done(k))
Exact ==
  crashes = 0 => \A k \in Counters \ raced : db.mem.rows[k] = Cardinality(Done(k))
CountInv == Places /\ Finite /\ Below /\ Reads /\ Exact

LEMMA SeatingsFacts ==
  \A e : e \in Seatings <=>
           /\ e = <<e[1], e[2]>>
           /\ e[1] \in DOMAIN games /\ e[2] \in DOMAIN games[e[1]].seats
  BY DEF Seatings

\* What is done to a counter is finite, and at most what is due.
LEMMA DoneFacts ==
  ASSUME Finite, NEW k \in Counters
  PROVE  /\ IsFiniteSet(Done(k)) /\ Cardinality(Done(k)) \in Nat
         /\ Cardinality(DueSet(k)) \in Nat
         /\ Cardinality(Done(k)) <= Cardinality(DueSet(k))
<1>1. IsFiniteSet(DueSet(k)) /\ Done(k) \in SUBSET DueSet(k)
  BY DEF Finite, Done
<1> QED
  BY <1>1, FS_Subset, FS_CardinalityType

\* The property counts what is due the same way.
LEMMA SameDue ==
  ASSUME TypeOK, NEW k \in Counters
  PROVE  Due(k) = Cardinality(DueSet(k))
<1> DEFINE Told(e) ==
      LET seat == games[e[1]].seats[e[2]]
          counted == games[e[1]].counted
      IN CASE k[1] = "player"  -> counted /\ seat.user = k[2]
           [] k[1] = "general" -> counted /\ seat.general = k[2]
           [] k[1] = "run"     -> /\ seat.user = k[2]
                                  /\ \/ seat.state = "offline"
                                     \/ seat.state = "run" /\ counted
<1>1. k[1] \in {"player", "run", "general"}
  BY DEF Counters
<1>2. ASSUME NEW e \in Seatings PROVE Told(e) <=> DueAt(k, e[1], e[2])
  <2>1. games \in Seq(Game) /\ e[1] \in DOMAIN games
    BY SeatingsFacts DEF TypeOK, Game
  <2>2. games[e[1]] \in Game
    BY <2>1
  <2>3. games[e[1]].counted \in BOOLEAN
    BY <2>2 DEF Game
  <2>4. games[e[1]].counted <=> games[e[1]].counted = TRUE
    BY <2>3
  <2>5. CASE k[1] = "player"
    BY <2>4, <2>5 DEF DueAt
  <2>6. CASE k[1] = "general"
    BY <2>4, <2>6 DEF DueAt
  <2>7. CASE k[1] = "run"
    BY <2>4, <2>7 DEF DueAt
  <2> QED
    BY <1>1, <2>5, <2>6, <2>7
<1>3. Due(k) = Cardinality({e \in Seatings : Told(e)})
  BY DEF Due, Seatings
<1> HIDE DEF Told
<1>4. {e \in Seatings : Told(e)} = DueSet(k)
  BY <1>2 DEF DueSet
<1> QED
  BY <1>3, <1>4

\* Where a working thread is.
LEMMA PlaceFacts ==
  ASSUME TypeOK, NEW t \in Threads, Working(t)
  PROVE  /\ rec[t].game \in DOMAIN games /\ Seats(t) = games[rec[t].game].seats
         /\ DOMAIN Seats(t) = 1..Len(Seats(t)) /\ Len(Seats(t)) \in Nat
         /\ rec[t].seat \in DOMAIN Seats(t) /\ rec[t].seat \in Nat
         /\ Seat(t) = Seats(t)[rec[t].seat] /\ Seat(t) \in Human
         /\ \A i, j \in DOMAIN Seats(t) : Seats(t)[i].user = Seats(t)[j].user => i = j
<1>1. ~Is(t, "idle")
  BY DEF Is, Working
<1>2. /\ Seats(t) \in Tables /\ rec[t].game \in DOMAIN games
      /\ rec[t].seat \in 1..Len(Seats(t)) /\ Len(Seats(t)) \in Nat /\ Seat(t) \in Human
  BY <1>1, SeatFacts
<1> QED
  BY <1>2, TableFacts DEF Seat, Seats

\* Nobody but the thread of a game has something to write about it.
LEMMA HeldAlone ==
  ASSUME Apart, NEW t \in Threads, Working(t), NEW k, NEW i
  PROVE  Held(k, <<rec[t].game, i>>) <=> HasAhead(t, k, i)
<1>1. \A s \in Threads : HasAhead(s, k, i) => Working(s)
  BY DEF HasAhead, Ahead, Working, Counting
<1>2. \A s \in Threads : HasAhead(s, k, i) /\ rec[s].game = rec[t].game => s = t
  BY <1>1 DEF Apart
<1> QED
  BY <1>2 DEF Held

\* A step of a thread after which it has to write the same, but for the counters
\* in `written' and the human it is at.
Moves(t, written) ==
  /\ \A k \in Counters : \A i \in DOMAIN Seats(t) : DueAt(k, rec[t].game, i) =>
       (HasAhead(t, k, i)' <=> HasAhead(t, k, i) /\ ~(k \in written /\ i = rec[t].seat))
  /\ \A k \in written : DueAt(k, rec[t].game, rec[t].seat) /\ HasAhead(t, k, rec[t].seat)

\* Then exactly these counters have one more entry that is done.
LEMMA OneMore ==
  ASSUME TypeOK, Apart, Apart', NEW t \in Threads, Alone(t),
         NEW written \in SUBSET Counters, Moves(t, written), NEW k \in Counters
  PROVE  /\ DueSet(k)' = DueSet(k)
         /\ k \notin written => Done(k)' = Done(k)
         /\ k \in written => /\ Done(k)' = Done(k) \cup {<<rec[t].game, rec[t].seat>>}
                             /\ <<rec[t].game, rec[t].seat>> \notin Done(k)
<1>0. PICK e0 : e0 = <<rec[t].game, rec[t].seat>>
  OBVIOUS
<1>1. /\ games' = games /\ rec'[t].game = rec[t].game /\ Working(t)
      /\ \A s \in Threads \ {t} : rec'[s] = rec[s]
  BY DEF Alone, Working
<1>2. DueSet(k)' = DueSet(k)
  BY <1>1 DEF DueSet, Seatings, DueAt
<1>3. ASSUME NEW e \in DueSet(k), e[1] # rec[t].game
      PROVE  Held(k, e)' <=> Held(k, e)
  <2>1. ASSUME NEW s \in Threads, s # t
        PROVE  rec'[s] = rec[s] /\ (HasAhead(s, k, e[2])' <=> HasAhead(s, k, e[2]))
    BY <1>1, <2>1 DEF HasAhead, Seats
  <2> QED
    BY <1>1, <1>3, <2>1 DEF Held
<1>4. ASSUME NEW e \in DueSet(k), e[1] = rec[t].game
      PROVE  /\ Held(k, e)' <=> Held(k, e) /\ ~(k \in written /\ e = e0)
             /\ k \in written /\ e = e0 => Held(k, e)
  <2>1. e = <<rec[t].game, e[2]>> /\ e[2] \in DOMAIN Seats(t) /\ DueAt(k, rec[t].game, e[2])
    BY <1>4, SeatingsFacts DEF DueSet, Seats
  <2>2. Held(k, e) <=> HasAhead(t, k, e[2])
    BY <1>1, <2>1, HeldAlone
  <2>3. HasAhead(t, k, e[2])' <=> HasAhead(t, k, e[2]) /\ ~(k \in written /\ e[2] = rec[t].seat)
    BY <2>1 DEF Moves
  <2>4. Held(k, e)' <=> HasAhead(t, k, e[2])'
    <3>1. ASSUME NEW s \in Threads, s # t, rec'[s].game = rec[t].game, HasAhead(s, k, e[2])'
          PROVE  FALSE
      <4>1. Working(s) /\ rec[s].game = rec[t].game
        BY <1>1, <3>1 DEF HasAhead, Ahead, Working, Counting
      <4> QED
        BY <1>1, <3>1, <4>1 DEF Apart
    <3> QED
      BY <1>1, <1>4, <3>1 DEF Held
  <2>5. e = e0 <=> e[2] = rec[t].seat
    BY <1>0, <2>1
  <2>6. k \in written => HasAhead(t, k, rec[t].seat)
    BY DEF Moves
  <2> QED
    BY <2>2, <2>3, <2>4, <2>5, <2>6
<1>5. k \in written => e0 \in DueSet(k)
  <2> SUFFICES ASSUME k \in written PROVE e0 \in DueSet(k)
    OBVIOUS
  <2>1. rec[t].game \in DOMAIN games /\ rec[t].seat \in DOMAIN games[rec[t].game].seats
    BY <1>1, PlaceFacts
  <2>2. e0 \in Seatings
    BY <1>0, <2>1, SeatingsFacts
  <2> QED
    BY <1>0, <2>2 DEF DueSet, Moves
<1>6. Done(k)' = {e \in DueSet(k) : ~Held(k, e)'}
  BY <1>2 DEF Done
<1>7. CASE k \notin written
  <2>1. \A e \in DueSet(k) : Held(k, e)' <=> Held(k, e)
    BY <1>3, <1>4, <1>7
  <2> QED
    BY <1>2, <1>6, <1>7, <2>1 DEF Done
<1>8. CASE k \in written
  <2>1. e0 \in DueSet(k) /\ e0[1] = rec[t].game
    BY <1>0, <1>5, <1>8
  <2>2. Held(k, e0) /\ ~Held(k, e0)'
    BY <1>4, <1>8, <2>1
  <2>3. \A e \in DueSet(k) : e # e0 => (Held(k, e)' <=> Held(k, e))
    BY <1>3, <1>4
  <2>4. \A e : e \in Done(k)' <=> e \in Done(k) \cup {e0}
    BY <1>6, <2>1, <2>2, <2>3 DEF Done
  <2>5. e0 \notin Done(k)
    BY <2>2 DEF Done
  <2>6. Done(k)' = Done(k) \cup {e0}
    BY <2>4
  <2> QED
    BY <1>0, <1>2, <1>8, <2>5, <2>6
<1> QED
  BY <1>7, <1>8

\* The numbers: one more where something is written, and never fewer.
LEMMA OneMoreCounted ==
  ASSUME TypeOK, Apart, Apart', Finite, NEW t \in Threads, Alone(t),
         NEW written \in SUBSET Counters, Moves(t, written)
  PROVE  /\ Finite'
         /\ \A k \in Counters :
              /\ Cardinality(Done(k)) \in Nat
              /\ Cardinality(Done(k))' = IF k \in written THEN Cardinality(Done(k)) + 1
                                         ELSE Cardinality(Done(k))
<1>1. Finite'
  BY OneMore DEF Finite
<1>2. ASSUME NEW k \in Counters
      PROVE  /\ Cardinality(Done(k)) \in Nat
             /\ Cardinality(Done(k))' = IF k \in written THEN Cardinality(Done(k)) + 1
                                        ELSE Cardinality(Done(k))
  <2>1. IsFiniteSet(Done(k)) /\ Cardinality(Done(k)) \in Nat
    BY DoneFacts
  <2>2. CASE k \notin written
    BY <2>1, <2>2, OneMore
  <2>3. CASE k \in written
    <3> DEFINE e0 == <<rec[t].game, rec[t].seat>>
    <3>1. Done(k)' = Done(k) \cup {e0} /\ e0 \notin Done(k)
      BY <2>3, OneMore
    <3> HIDE DEF e0
    <3>2. Cardinality(Done(k) \cup {e0}) = Cardinality(Done(k)) + 1
      BY <2>1, <3>1, FS_AddElement
    <3>3. Cardinality(Done(k))' = Cardinality(Done(k)')
      OBVIOUS
    <3> QED
      BY <2>1, <2>3, <3>1, <3>2, <3>3
  <2> QED
    BY <2>2, <2>3
<1> QED
  BY <1>1, <1>2

\* What is written to a counter: the rows of the others stay.
LEMMA RowWritten ==
  ASSUME TypeOK, NEW t \in Threads, NEW k \in Counters, WriteRow(t, k)
  PROVE  /\ \A c \in Counters : db'.mem.rows[c] = IF c = k THEN Counted(db.mem.rows[k], rec[t].read)
                                                  ELSE db.mem.rows[c]
         /\ db'.disk.rows = db.disk.rows \/ db'.disk.rows = db'.mem.rows
         /\ db.mem.rows[k] = rec[t].read \/ k \in raced'
         /\ raced \subseteq raced' /\ crashes' = crashes
<1> DEFINE n == Counted(db.mem.rows[k], rec[t].read)
           mem == [db.mem EXCEPT !.rows[k] = n]
<1>1. DbType /\ db.mem \in Tables0
  BY TypeParts DEF DbType
<1>2. \A c \in Counters : mem.rows[c] = IF c = k THEN n ELSE db.mem.rows[c]
  BY <1>1 DEF Tables0
<1>3. db' = [db EXCEPT !.mem = mem, !.disk = IF db.open THEN db.disk ELSE mem]
  BY <1>1 DEF WriteRow, Exec, DbType
<1> HIDE DEF mem
<1>4. /\ db'.mem = mem
      /\ db'.disk = IF db.open THEN db.disk ELSE mem
  BY <1>1, <1>3 DEF DbType
<1>5. db'.disk.rows = db.disk.rows \/ db'.disk.rows = db'.mem.rows
  BY <1>4
<1>6. /\ db.mem.rows[k] = rec[t].read \/ k \in raced'
      /\ raced \subseteq raced' /\ crashes' = crashes
  BY DEF WriteRow
<1> QED
  BY <1>2, <1>4, <1>5, <1>6

\* Where a thread has read a row.
Asking == {"playerSet", "runSet", "leftSet", "generalSet"}

LEMMA TargetFacts ==
  ASSUME TypeOK, NEW t \in Threads, Alone(t)
  PROVE  /\ \A s \in Threads \ {t} : \A k \in Counters :
              Target(s, k)' <=> Target(s, k)
         /\ rec'[t].at \notin Asking => \A k \in Counters : ~Target(t, k)'
<1>1. \A s \in Threads \ {t} : rec'[s] = rec[s] /\ games' = games
  BY DEF Alone
<1>2. ASSUME NEW s \in Threads \ {t}, NEW k \in Counters
      PROVE  Target(s, k)' <=> Target(s, k)
  <2>1. Seat(s)' = Seat(s)
    BY <1>1 DEF Seat, Seats
  <2> QED
    BY <1>1, <2>1 DEF Target
<1>3. rec'[t].at \notin Asking => \A k \in Counters : ~Target(t, k)'
  BY DEF Target, Asking
<1> QED
  BY <1>2, <1>3

RowTypes ==
  \A k \in Counters : db.mem.rows[k] \in Nat /\ db.disk.rows[k] \in Nat

LEMMA RowsTyped == TypeOK => RowTypes
<1> SUFFICES ASSUME TypeOK PROVE RowTypes
  OBVIOUS
<1>1. db.mem \in Tables0 /\ db.disk \in Tables0
  BY DEF TypeOK
<1> QED
  BY <1>1 DEF Tables0, RowTypes

\* A thread writes the row it has read.
LEMMA WritesCount ==
  ASSUME TypeOK, Apart, Apart', CountInv, NEW t \in Threads, Alone(t), NEW k \in Counters,
         Target(t, k), WriteRow(t, k), Moves(t, {k}), rec'[t].at \notin Asking
  PROVE  Finite' /\ Below' /\ Reads' /\ Exact'
<1>1. /\ Finite'
      /\ \A c \in Counters :
           /\ Cardinality(Done(c)) \in Nat
           /\ Cardinality(Done(c))' = IF c = k THEN Cardinality(Done(c)) + 1
                                      ELSE Cardinality(Done(c))
  BY OneMoreCounted DEF CountInv
<1>2. RowTypes /\ rec[t].read \in Nat
  BY RowsTyped DEF TypeOK
<1>3. rec[t].read <= Cardinality(Done(k)) /\ db.mem.rows[k] <= Cardinality(Done(k))
  BY DEF CountInv, Reads, Below
<1>4. Counted(db.mem.rows[k], rec[t].read) <= Cardinality(Done(k)) + 1
  BY <1>1, <1>2, <1>3 DEF Counted, RowTypes
<1>5. ASSUME NEW c \in Counters
      PROVE  /\ (db'.mem.rows[c] <= Cardinality(Done(c))')
             /\ (db'.disk.rows[c] <= Cardinality(Done(c))')
  <2>1. db.mem.rows[c] <= Cardinality(Done(c)) /\ db.disk.rows[c] <= Cardinality(Done(c))
    BY DEF CountInv, Below
  <2>2. Cardinality(Done(c)) <= Cardinality(Done(c))' /\ Cardinality(Done(c))' \in Nat
    BY <1>1
  <2>3. db'.mem.rows[c] <= Cardinality(Done(c))'
    BY <1>1, <1>2, <1>4, <2>1, <2>2, RowWritten DEF RowTypes
  <2>4. db'.disk.rows[c] = db.disk.rows[c] \/ db'.disk.rows[c] = db'.mem.rows[c]
    BY RowWritten
  <2>5. db.disk.rows[c] <= Cardinality(Done(c))'
    BY <1>1, <1>2, <2>1, <2>2 DEF RowTypes
  <2> QED
    BY <2>3, <2>4, <2>5
<1>6. Below'
  BY <1>5 DEF Below
<1>7. ASSUME NEW s \in Threads, NEW c \in Counters, Target(s, c)'
      PROVE  rec'[s].read <= Cardinality(Done(c))'
  <2>1. s # t /\ Target(s, c)
    BY <1>7, TargetFacts
  <2>2. rec'[s].read = rec[s].read /\ rec[s].read \in Nat
    BY <2>1 DEF Alone, TypeOK
  <2>3. rec[s].read <= Cardinality(Done(c))
    BY <2>1 DEF CountInv, Reads
  <2> QED
    BY <1>1, <2>2, <2>3
<1>8. Reads'
  BY <1>7 DEF Reads
<1>9. ASSUME crashes' = 0, NEW c \in Counters \ raced'
      PROVE  db'.mem.rows[c] = Cardinality(Done(c))'
  <2>1. db.mem.rows[c] = Cardinality(Done(c))
    BY <1>9, RowWritten DEF CountInv, Exact
  <2>2. CASE c # k
    BY <1>1, <2>1, <2>2, RowWritten
  <2>3. CASE c = k
    <3>1. db.mem.rows[k] = rec[t].read
      BY <1>9, <2>3, RowWritten
    <3>2. Counted(db.mem.rows[k], rec[t].read) = db.mem.rows[k] + 1
      BY <1>2, <3>1 DEF Counted, RowTypes
    <3> QED
      BY <1>1, <2>1, <2>3, <3>2, RowWritten
  <2> QED
    BY <2>2, <2>3
<1>10. Exact'
  BY <1>9 DEF Exact
<1> QED
  BY <1>1, <1>6, <1>8, <1>10

\* A step that writes no row: what it has read, if it reads, is the row.
LEMMA OthersCount ==
  ASSUME TypeOK, Apart, Apart', CountInv, NEW t \in Threads, Alone(t), Moves(t, {}),
         db'.mem.rows = db.mem.rows,
         db'.disk.rows = db.disk.rows \/ db'.disk.rows = db.mem.rows,
         raced' = raced, crashes' = crashes,
         \A k \in Counters : Target(t, k)' => rec'[t].read = db.mem.rows[k]
  PROVE  Finite' /\ Below' /\ Reads' /\ Exact'
<1>1. /\ Finite'
      /\ \A c \in Counters :
           /\ Cardinality(Done(c)) \in Nat
           /\ Cardinality(Done(c))' = Cardinality(Done(c))
  BY OneMoreCounted DEF CountInv
<1>2. ASSUME NEW c \in Counters
      PROVE  /\ (db'.mem.rows[c] <= Cardinality(Done(c))')
             /\ (db'.disk.rows[c] <= Cardinality(Done(c))')
  BY <1>1 DEF CountInv, Below
<1>3. Below'
  BY <1>2 DEF Below
<1>4. ASSUME NEW s \in Threads, NEW c \in Counters, Target(s, c)'
      PROVE  rec'[s].read <= Cardinality(Done(c))'
  <2>1. CASE s = t
    BY <1>1, <1>4, <2>1 DEF CountInv, Below
  <2>2. CASE s # t
    <3>1. Target(s, c) /\ rec'[s] = rec[s]
      BY <1>4, <2>2, TargetFacts DEF Alone
    <3> QED
      BY <1>1, <3>1 DEF CountInv, Reads
  <2> QED
    BY <2>1, <2>2
<1>5. Reads'
  BY <1>4 DEF Reads
<1>6. Exact'
  BY <1>1 DEF CountInv, Exact
<1> QED
  BY <1>1, <1>3, <1>5, <1>6

\* What it is for a counter to be due for the i-th human of a thread's game.
LEMMA DueFacts ==
  ASSUME TypeOK, NEW t \in Threads, Working(t), NEW k \in Counters,
         NEW i \in DOMAIN Seats(t), DueAt(k, rec[t].game, i)
  PROVE  /\ i \in Nat /\ 1 <= i /\ i <= Len(Seats(t)) /\ k = <<k[1], k[2]>>
         /\ \/ k[1] = "player" /\ k[2] = Seats(t)[i].user
            \/ k[1] = "general" /\ k[2] = Seats(t)[i].general
            \/ /\ k[1] = "run" /\ k[2] = Seats(t)[i].user
               /\ Seats(t)[i].state \in {"offline", "run"}
<1>1. k = <<k[1], k[2]>>
  BY DEF Counters
<1>2. i \in 1..Len(Seats(t)) /\ Len(Seats(t)) \in Nat
  BY PlaceFacts
<1> QED
  BY <1>1, <1>2 DEF DueAt, Seats

\* A step that leaves a thread at its human.
MovesHere(t, written) ==
  \A k \in Counters : \A i \in DOMAIN Seats(t) : DueAt(k, rec[t].game, i) =>
    (Ahead(k[1], rec'[t].at, rec'[t].seat, Seats(t)[i].state, i) <=>
     Ahead(k[1], rec[t].at, rec[t].seat, Seats(t)[i].state, i)
       /\ ~(k \in written /\ i = rec[t].seat))

LEMMA MovesAlone ==
  ASSUME NEW t \in Threads, Alone(t), NEW written \in SUBSET Counters,
         MovesHere(t, written),
         \A k \in written : DueAt(k, rec[t].game, rec[t].seat) /\ HasAhead(t, k, rec[t].seat)
  PROVE  Moves(t, written)
<1>1. Seats(t)' = Seats(t)
  BY DEF Alone, Seats
<1> QED
  BY <1>1 DEF Moves, MovesHere, HasAhead

\* Steps between places where the same is still to write.
Alike(from, to) ==
  \/ {from, to} \subseteq {"player", "playerSet"}
  \/ {from, to} \subseteq {"run", "runSet"}
  \/ {from, to} \subseteq {"news", "general", "generalSet"}
  \/ {from, to} \subseteq {"lock", "begin"}
  \/ {from, to} \subseteq {"time", "left", "leftSet"}

LEMMA SameMoves ==
  ASSUME NEW t \in Threads, Alone(t), Alike(rec[t].at, rec'[t].at), rec'[t].seat = rec[t].seat
  PROVE  Moves(t, {})
<1>1. ASSUME NEW k \in Counters, NEW i \in DOMAIN Seats(t)
      PROVE  Ahead(k[1], rec'[t].at, rec'[t].seat, Seats(t)[i].state, i) <=>
             Ahead(k[1], rec[t].at, rec[t].seat, Seats(t)[i].state, i)
  BY DEF Alike, Ahead, Counting
<1>2. MovesHere(t, {})
  BY <1>1 DEF MovesHere
<1> QED
  BY <1>2, MovesAlone

\* The last places: nothing is left to write.
LEMMA LastMoves ==
  ASSUME NEW t \in Threads, Alone(t), {rec[t].at, rec'[t].at} \subseteq {"commit", "unlock", "tell", "idle"}
  PROVE  Moves(t, {})
<1>1. MovesHere(t, {})
  BY DEF MovesHere, Ahead, Counting
<1> QED
  BY <1>1, MovesAlone

\* The first human comes first.
LEMMA BeginMoves ==
  ASSUME TypeOK, NEW t \in Threads, Alone(t), FromTo(t, "begin", "time"), rec[t].seat = 1
  PROVE  Moves(t, {})
<1>1. Working(t)
  BY DEF FromTo, Working
<1>2. ASSUME NEW k \in Counters, NEW i \in DOMAIN Seats(t), DueAt(k, rec[t].game, i)
      PROVE  Ahead(k[1], rec'[t].at, rec'[t].seat, Seats(t)[i].state, i) <=>
             Ahead(k[1], rec[t].at, rec[t].seat, Seats(t)[i].state, i)
  <2>1. i \in Nat /\ 1 <= i
    BY <1>1, <1>2, DueFacts
  <2> QED
    BY <2>1 DEF FromTo, Ahead, Counting
<1>3. MovesHere(t, {})
  BY <1>2 DEF MovesHere
<1> QED
  BY <1>3, MovesAlone

\* Nothing was due for the one who has not left.
LEMMA TimeMoves ==
  ASSUME TypeOK, NEW t \in Threads, Alone(t), rec[t].at = "time", On(t, "time", "commit"),
         Seat(t).state # "offline"
  PROVE  Moves(t, {})
<1>1. Working(t)
  BY DEF Working
<1>2. ASSUME NEW k \in Counters, NEW i \in DOMAIN Seats(t), DueAt(k, rec[t].game, i)
      PROVE  Ahead(k[1], rec'[t].at, rec'[t].seat, Seats(t)[i].state, i) <=>
             Ahead(k[1], rec[t].at, rec[t].seat, Seats(t)[i].state, i)
  <2>1. /\ i \in Nat /\ 1 <= i /\ i <= Len(Seats(t)) /\ Len(Seats(t)) \in Nat
        /\ rec[t].seat \in Nat /\ Seat(t) = Seats(t)[rec[t].seat]
    BY <1>1, <1>2, DueFacts, PlaceFacts
  <2>2. i = rec[t].seat => Seats(t)[i].state # "offline"
    BY <2>1
  <2> QED
    BY <2>1, <2>2 DEF On, Ahead, Counting
<1>3. MovesHere(t, {})
  BY <1>2 DEF MovesHere
<1> QED
  BY <1>3, MovesAlone

\* The player's counter is written.
LEMMA PlayerMoves ==
  ASSUME TypeOK, Places, NEW t \in Threads, Alone(t), rec[t].at = "playerSet",
         rec'[t].at = IF Seat(t).state = "run" THEN "run" ELSE "news",
         rec'[t].seat = rec[t].seat, NEW p \in Counters, p = <<"player", Seat(t).user>>
  PROVE  Moves(t, {p})
<1>1. Working(t) /\ games[rec[t].game].counted = TRUE
  BY DEF Working, Places, Counting
<1>2. rec[t].seat \in Nat /\ Seat(t) = Seats(t)[rec[t].seat] /\ Seats(t) = games[rec[t].game].seats
  BY <1>1, PlaceFacts
<1>3. ASSUME NEW k \in Counters, NEW i \in DOMAIN Seats(t), DueAt(k, rec[t].game, i)
      PROVE  Ahead(k[1], rec'[t].at, rec'[t].seat, Seats(t)[i].state, i) <=>
             Ahead(k[1], rec[t].at, rec[t].seat, Seats(t)[i].state, i)
               /\ ~(k \in {p} /\ i = rec[t].seat)
  <2>1. i \in Nat
    BY <1>1, <1>3, DueFacts
  <2>2. CASE k[1] = "player"
    <3>1. i = rec[t].seat => k = p
      BY <1>1, <1>2, <1>3, <2>2, DueFacts
    <3> QED
      BY <1>2, <2>1, <2>2, <3>1 DEF Ahead, Counting
  <2>3. CASE k[1] = "general"
    BY <2>3 DEF Ahead, Counting
  <2>4. CASE k[1] = "run" /\ Seats(t)[i].state = "offline"
    BY <2>4 DEF Ahead, Counting
  <2>5. CASE k[1] = "run" /\ Seats(t)[i].state = "run"
    <3>1. i = rec[t].seat => rec'[t].at = "run"
      BY <1>2, <2>5
    <3> QED
      BY <1>2, <2>1, <2>5, <3>1 DEF Ahead, Counting
  <2> QED
    BY <1>1, <1>3, <2>2, <2>3, <2>4, <2>5, DueFacts
<1>4. MovesHere(t, {p})
  BY <1>3 DEF MovesHere
<1>5. DueAt(p, rec[t].game, rec[t].seat) /\ HasAhead(t, p, rec[t].seat)
  BY <1>1, <1>2 DEF DueAt, HasAhead, Ahead
<1> QED
  BY <1>4, <1>5, MovesAlone

\* The runaway's counter is written.
LEMMA RunMoves ==
  ASSUME TypeOK, Places, NEW t \in Threads, Alone(t), FromTo(t, "runSet", "general"),
         NEW r \in Counters, r = <<"run", Seat(t).user>>
  PROVE  Moves(t, {r})
<1>1. /\ Working(t) /\ rec[t].at = "runSet"
      /\ games[rec[t].game].counted = TRUE /\ Seat(t).state = "run"
  BY DEF FromTo, Working, Places, Counting
<1>2. rec[t].seat \in Nat /\ Seat(t) = Seats(t)[rec[t].seat] /\ Seats(t) = games[rec[t].game].seats
  BY <1>1, PlaceFacts
<1>3. ASSUME NEW k \in Counters, NEW i \in DOMAIN Seats(t), DueAt(k, rec[t].game, i)
      PROVE  Ahead(k[1], rec'[t].at, rec'[t].seat, Seats(t)[i].state, i) <=>
             Ahead(k[1], rec[t].at, rec[t].seat, Seats(t)[i].state, i)
               /\ ~(k \in {r} /\ i = rec[t].seat)
  <2>1. i \in Nat
    BY <1>1, <1>3, DueFacts
  <2>2. CASE k[1] # "run"
    BY <2>2 DEF FromTo, Ahead, Counting
  <2>3. CASE k[1] = "run" /\ Seats(t)[i].state = "offline"
    <3>1. i # rec[t].seat
      BY <1>1, <1>2, <2>3
    <3> QED
      BY <2>3, <3>1 DEF FromTo, Ahead, Counting
  <2>4. CASE k[1] = "run" /\ Seats(t)[i].state = "run"
    <3>1. i = rec[t].seat => k = r
      <4>1. k = <<"run", Seats(t)[i].user>>
        BY <1>1, <1>3, <2>4, DueFacts
      <4> QED
        BY <1>2, <4>1
    <3> QED
      BY <1>2, <2>1, <2>4, <3>1 DEF FromTo, Ahead, Counting
  <2> QED
    BY <1>1, <1>3, <2>2, <2>3, <2>4, DueFacts
<1>4. MovesHere(t, {r})
  BY <1>3 DEF MovesHere
<1>5. DueAt(r, rec[t].game, rec[t].seat) /\ HasAhead(t, r, rec[t].seat)
  <2>1. r[1] = "run" /\ r[2] = Seat(t).user
    OBVIOUS
  <2>2. DueAt(r, rec[t].game, rec[t].seat)
    BY <1>1, <1>2, <2>1 DEF DueAt
  <2>3. Ahead("run", "runSet", rec[t].seat, "run", rec[t].seat)
    BY <1>2 DEF Ahead
  <2> QED
    BY <1>1, <1>2, <2>1, <2>2, <2>3 DEF HasAhead
<1> QED
  BY <1>4, <1>5, MovesAlone

\* The counter of a general is written, and the thread goes on.
LEMMA GeneralMoves ==
  ASSUME TypeOK, Places, NEW t \in Threads, Alone(t), rec[t].at = "generalSet",
         On(t, "player", "lock"), NEW g0 \in Counters, g0 = <<"general", Seat(t).general>>
  PROVE  Moves(t, {g0})
<1>1. Working(t) /\ games[rec[t].game].counted = TRUE
  BY DEF Working, Places, Counting
<1>2. /\ rec[t].seat \in Nat /\ Seat(t) = Seats(t)[rec[t].seat]
      /\ Seats(t) = games[rec[t].game].seats /\ Len(Seats(t)) \in Nat
  BY <1>1, PlaceFacts
<1>3. ASSUME NEW k \in Counters, NEW i \in DOMAIN Seats(t), DueAt(k, rec[t].game, i)
      PROVE  Ahead(k[1], rec'[t].at, rec'[t].seat, Seats(t)[i].state, i) <=>
             Ahead(k[1], rec[t].at, rec[t].seat, Seats(t)[i].state, i)
               /\ ~(k \in {g0} /\ i = rec[t].seat)
  <2>1. i \in Nat /\ i <= Len(Seats(t))
    BY <1>1, <1>3, DueFacts
  <2>2. CASE k[1] = "general"
    <3>1. i = rec[t].seat => k = g0
      <4>1. k = <<"general", Seats(t)[i].general>>
        BY <1>1, <1>3, <2>2, DueFacts
      <4> QED
        BY <1>2, <4>1
    <3> QED
      BY <1>2, <2>1, <2>2, <3>1 DEF On, Ahead, Counting
  <2>3. CASE k[1] # "general"
    <3>1. k # g0
      BY <2>3
    <3>2. ASSUME NEW state
          PROVE  Ahead(k[1], rec'[t].at, rec'[t].seat, state, i) <=>
                 Ahead(k[1], rec[t].at, rec[t].seat, state, i)
      <4>1. CASE rec'[t].at = "player" /\ rec'[t].seat = rec[t].seat + 1
        <5>1. i >= rec[t].seat + 1 <=> i > rec[t].seat
          BY <1>2, <2>1
        <5> QED
          BY <2>3, <4>1, <5>1 DEF Ahead, Counting
      <4>2. CASE rec'[t].at = "lock" /\ rec[t].seat = Len(Seats(t))
        <5>1. ~(i > rec[t].seat)
          BY <1>2, <2>1, <4>2
        <5> QED
          BY <2>3, <4>2, <5>1 DEF Ahead, Counting
      <4> QED
        BY <4>1, <4>2 DEF On
    <3> QED
      BY <3>1, <3>2
  <2> QED
    BY <2>2, <2>3
<1>4. MovesHere(t, {g0})
  BY <1>3 DEF MovesHere
<1>5. DueAt(g0, rec[t].game, rec[t].seat) /\ HasAhead(t, g0, rec[t].seat)
  <2>1. g0[1] = "general" /\ g0[2] = Seat(t).general
    OBVIOUS
  <2>2. DueAt(g0, rec[t].game, rec[t].seat)
    BY <1>1, <1>2, <2>1 DEF DueAt
  <2>3. \A state : Ahead("general", "generalSet", rec[t].seat, state, rec[t].seat)
    BY <1>2 DEF Ahead, Counting
  <2> QED
    BY <2>1, <2>2, <2>3 DEF HasAhead
<1> QED
  BY <1>4, <1>5, MovesAlone

\* The counter of the one who has left is written, and the thread goes on.
LEMMA LeftMoves ==
  ASSUME TypeOK, Places, NEW t \in Threads, Alone(t), rec[t].at = "leftSet",
         On(t, "time", "commit"), NEW r \in Counters, r = <<"run", Seat(t).user>>
  PROVE  Moves(t, {r})
<1>1. Working(t) /\ Seat(t).state = "offline"
  BY DEF Working, Places
<1>2. /\ rec[t].seat \in Nat /\ Seat(t) = Seats(t)[rec[t].seat]
      /\ Seats(t) = games[rec[t].game].seats /\ Len(Seats(t)) \in Nat
  BY <1>1, PlaceFacts
<1>3. ASSUME NEW k \in Counters, NEW i \in DOMAIN Seats(t), DueAt(k, rec[t].game, i)
      PROVE  Ahead(k[1], rec'[t].at, rec'[t].seat, Seats(t)[i].state, i) <=>
             Ahead(k[1], rec[t].at, rec[t].seat, Seats(t)[i].state, i)
               /\ ~(k \in {r} /\ i = rec[t].seat)
  <2>1. i \in Nat /\ i <= Len(Seats(t))
    BY <1>1, <1>3, DueFacts
  <2>2. CASE k[1] = "run" /\ Seats(t)[i].state = "offline"
    <3>1. i = rec[t].seat => k = r
      <4>1. k = <<"run", Seats(t)[i].user>>
        BY <1>1, <1>3, <2>2, DueFacts
      <4> QED
        BY <1>2, <4>1
    <3> QED
      BY <1>2, <2>1, <2>2, <3>1 DEF On, Ahead, Counting
  <2>3. CASE ~(k[1] = "run" /\ Seats(t)[i].state = "offline")
    BY <2>3 DEF On, Ahead, Counting
  <2> QED
    BY <2>2, <2>3
<1>4. MovesHere(t, {r})
  BY <1>3 DEF MovesHere
<1>5. DueAt(r, rec[t].game, rec[t].seat) /\ HasAhead(t, r, rec[t].seat)
  <2>1. r[1] = "run" /\ r[2] = Seat(t).user
    OBVIOUS
  <2>2. DueAt(r, rec[t].game, rec[t].seat)
    BY <1>1, <1>2, <2>1 DEF DueAt
  <2>3. Ahead("run", "leftSet", rec[t].seat, "offline", rec[t].seat)
    BY <1>2 DEF Ahead
  <2> QED
    BY <1>1, <1>2, <2>1, <2>2, <2>3 DEF HasAhead
<1> QED
  BY <1>4, <1>5, MovesAlone

\* Where a step leaves its thread, and what that says of its human.
LEMMA PlacesMove ==
  ASSUME TypeOK, Places, NEW t \in Threads, Alone(t),
         rec'[t].at \in Counting => rec[t].at \in Counting,
         rec'[t].at \in {"run", "runSet", "left", "leftSet"} => rec'[t].seat = rec[t].seat,
         rec'[t].at \in {"run", "runSet"} => Seat(t).state = "run",
         rec'[t].at \in {"left", "leftSet"} => Seat(t).state = "offline"
  PROVE  Places'
<1> SUFFICES ASSUME NEW s \in Threads
             PROVE  /\ rec'[s].at \in Counting => games'[rec'[s].game].counted = TRUE
                    /\ rec'[s].at \in {"run", "runSet"} => Seat(s)'.state = "run"
                    /\ rec'[s].at \in {"left", "leftSet"} => Seat(s)'.state = "offline"
  BY DEF Places
<1>1. games' = games /\ rec'[t].game = rec[t].game
  BY DEF Alone
<1>2. CASE s = t
  <2>1. rec'[t].seat = rec[t].seat => Seat(t)' = Seat(t)
    BY <1>1 DEF Seat, Seats
  <2> QED
    BY <1>1, <1>2, <2>1 DEF Places
<1>3. CASE s # t
  <2>1. rec'[s] = rec[s] /\ Seat(s)' = Seat(s)
    BY <1>1, <1>3 DEF Alone, Seat, Seats
  <2> QED
    BY <1>1, <2>1 DEF Places
<1> QED
  BY <1>2, <1>3

\* A SELECT, and the counter that the thread will write.
LEMMA FindsCount ==
  ASSUME TypeOK, Apart, Apart', CountInv, NEW t \in Threads, Alone(t),
         NEW c \in Counters, NEW at, FindRow(t, c, at), Alike(rec[t].at, at),
         \A k \in Counters : Target(t, k)' => k = c
  PROVE  Finite' /\ Below' /\ Reads' /\ Exact'
<1>1. rec \in [Threads -> [at : Spots, game : Nat, seat : Nat, read : Nat]]
  BY TypeParts DEF RecType
<1>2. rec' = [rec EXCEPT ![t].at = at, ![t].read = db.mem.rows[c]]
  BY DEF FindRow
<1>3. rec'[t].at = at /\ rec'[t].seat = rec[t].seat /\ rec'[t].read = db.mem.rows[c]
  BY <1>1, <1>2
<1>4. Moves(t, {})
  BY <1>3, SameMoves
<1>5. db' = db /\ raced' = raced /\ crashes' = crashes
  BY DEF FindRow
<1>6. \A k \in Counters : Target(t, k)' => rec'[t].read = db.mem.rows[k]
  BY <1>3
<1> QED
  BY <1>4, <1>5, <1>6, OthersCount

\* A step that is neither a SELECT nor about a counter.
LEMMA QuietCount ==
  ASSUME TypeOK, Apart, Apart', CountInv, NEW t \in Threads, Alone(t), Moves(t, {}),
         db'.mem.rows = db.mem.rows,
         db'.disk.rows = db.disk.rows \/ db'.disk.rows = db.mem.rows,
         raced' = raced, crashes' = crashes, rec'[t].at \notin Asking
  PROVE  Finite' /\ Below' /\ Reads' /\ Exact'
  BY OthersCount, TargetFacts

LEMMA RecordsCount ==
  ASSUME TypeOK, Apart, Apart', FirstSeat, CountInv, NEW t \in Threads, Records(t)
  PROVE  CountInv'
<1>1. Alone(t) /\ ~Is(t, "idle") /\ Working(t) /\ Places
  BY Shapes DEF Alone, Is, Working, CountInv
<1>2. games' = games /\ rec'[t].game = rec[t].game /\ Seat(t) \in Human
  BY <1>1, PlaceFacts DEF Alone
<1>3. DbType
  BY TypeParts
<1>4. PICK p \in Counters : p = <<"player", Seat(t).user>>
  BY <1>2, CounterFacts
<1>5. PICK r \in Counters : r = <<"run", Seat(t).user>>
  BY <1>2, CounterFacts
<1>6. PICK g0 \in Counters : g0 = <<"general", Seat(t).general>>
  BY <1>2, CounterFacts
<1>7. ASSUME rec'[t].seat = rec[t].seat PROVE Seat(t)' = Seat(t)
  BY <1>2, <1>7 DEF Seat, Seats
<1>8. CASE FindPlayer(t)
  <2>1. rec[t].at = "player" /\ FindRow(t, p, "playerSet")
    BY <1>4, <1>8 DEF FindPlayer, Is
  <2>2. rec'[t].at = "playerSet" /\ rec'[t].seat = rec[t].seat
    BY <2>1, FindRowFacts DEF FromTo
  <2>3. Places'
    BY <1>1, <2>1, <2>2, PlacesMove DEF Counting
  <2>4. \A k \in Counters : Target(t, k)' => k = p
    BY <1>4, <1>7, <2>2 DEF Target
  <2> QED
    BY <1>1, <2>1, <2>3, <2>4, FindsCount DEF CountInv, Alike
<1>9. CASE FindRun(t)
  <2>1. rec[t].at = "run" /\ FindRow(t, r, "runSet")
    BY <1>5, <1>9 DEF FindRun, Is
  <2>2. rec'[t].at = "runSet" /\ rec'[t].seat = rec[t].seat
    BY <2>1, FindRowFacts DEF FromTo
  <2>3. Places'
    BY <1>1, <2>1, <2>2, PlacesMove DEF Counting, Places
  <2>4. \A k \in Counters : Target(t, k)' => k = r
    BY <1>5, <1>7, <2>2 DEF Target
  <2> QED
    BY <1>1, <2>1, <2>3, <2>4, FindsCount DEF CountInv, Alike
<1>10. CASE FindGeneral(t)
  <2>1. rec[t].at = "general" /\ FindRow(t, g0, "generalSet")
    BY <1>6, <1>10 DEF FindGeneral, Is
  <2>2. rec'[t].at = "generalSet" /\ rec'[t].seat = rec[t].seat
    BY <2>1, FindRowFacts DEF FromTo
  <2>3. Places'
    BY <1>1, <2>1, <2>2, PlacesMove DEF Counting
  <2>4. \A k \in Counters : Target(t, k)' => k = g0
    BY <1>6, <1>7, <2>2 DEF Target
  <2> QED
    BY <1>1, <2>1, <2>3, <2>4, FindsCount DEF CountInv, Alike
<1>11. CASE FindLeft(t)
  <2>1. rec[t].at = "left" /\ FindRow(t, r, "leftSet")
    BY <1>5, <1>11 DEF FindLeft, Is
  <2>2. rec'[t].at = "leftSet" /\ rec'[t].seat = rec[t].seat
    BY <2>1, FindRowFacts DEF FromTo
  <2>3. Places'
    BY <1>1, <2>1, <2>2, PlacesMove DEF Counting, Places
  <2>4. \A k \in Counters : Target(t, k)' => k = r
    BY <1>5, <1>7, <2>2 DEF Target
  <2> QED
    BY <1>1, <2>1, <2>3, <2>4, FindsCount DEF CountInv, Alike
<1>12. CASE WritePlayer(t)
  <2> DEFINE at == IF Seat(t).state = "run" THEN "run" ELSE "news"
  <2>1. rec[t].at = "playerSet" /\ WriteRow(t, p) /\ Goto(t, at)
    BY <1>4, <1>12 DEF WritePlayer, Is
  <2>2. rec'[t].at = at /\ rec'[t].seat = rec[t].seat
    BY <2>1, GotoFacts DEF FromTo
  <2>3. Moves(t, {p})
    BY <1>1, <1>4, <2>1, <2>2, PlayerMoves
  <2>4. Target(t, p) /\ rec'[t].at \notin Asking
    BY <1>4, <2>1, <2>2 DEF Target, Asking
  <2>5. Places'
    BY <1>1, <2>1, <2>2, PlacesMove DEF Counting
  <2> QED
    BY <1>1, <2>1, <2>3, <2>4, <2>5, WritesCount DEF CountInv
<1>13. CASE WriteRun(t)
  <2>1. rec[t].at = "runSet" /\ WriteRow(t, r) /\ Goto(t, "general")
    BY <1>5, <1>13 DEF WriteRun, Is
  <2>2. FromTo(t, "runSet", "general")
    BY <2>1, GotoFacts
  <2>3. Moves(t, {r})
    BY <1>1, <1>5, <2>2, RunMoves
  <2>4. Target(t, r) /\ rec'[t].at \notin Asking
    BY <1>5, <2>2 DEF FromTo, Target, Asking
  <2>5. Places'
    BY <1>1, <2>2, PlacesMove DEF FromTo, Counting
  <2> QED
    BY <1>1, <2>1, <2>3, <2>4, <2>5, WritesCount DEF CountInv
<1>14. CASE WriteGeneral(t)
  <2>1. rec[t].at = "generalSet" /\ WriteRow(t, g0) /\ NextSeat(t, "player", "lock")
    BY <1>6, <1>14 DEF WriteGeneral, Is
  <2>2. On(t, "player", "lock")
    BY <1>1, <2>1, NextSeatFacts
  <2>3. Moves(t, {g0})
    BY <1>1, <1>6, <2>1, <2>2, GeneralMoves
  <2>4. Target(t, g0) /\ rec'[t].at \in {"player", "lock"}
    BY <1>6, <2>1, <2>2 DEF On, Target
  <2>5. rec'[t].at \notin Asking
    BY <2>4 DEF Asking
  <2>6. Places'
    BY <1>1, <2>1, <2>4, PlacesMove DEF Counting
  <2> QED
    BY <1>1, <2>1, <2>3, <2>4, <2>5, <2>6, WritesCount DEF CountInv
<1>15. CASE WriteLeft(t)
  <2>1. rec[t].at = "leftSet" /\ WriteRow(t, r) /\ NextSeat(t, "time", "commit")
    BY <1>5, <1>15 DEF WriteLeft, Is
  <2>2. On(t, "time", "commit")
    BY <1>1, <2>1, NextSeatFacts
  <2>3. Moves(t, {r})
    BY <1>1, <1>5, <2>1, <2>2, LeftMoves
  <2>4. Target(t, r) /\ rec'[t].at \in {"time", "commit"}
    BY <1>5, <2>1, <2>2 DEF On, Target
  <2>5. rec'[t].at \notin Asking
    BY <2>4 DEF Asking
  <2>6. Places'
    BY <1>1, <2>1, <2>4, PlacesMove DEF Counting
  <2> QED
    BY <1>1, <2>1, <2>3, <2>4, <2>5, <2>6, WritesCount DEF CountInv
<1>16. ASSUME Moves(t, {}), raced' = raced, crashes' = crashes,
              db'.mem.rows = db.mem.rows,
              db'.disk.rows = db.disk.rows \/ db'.disk.rows = db.mem.rows,
              rec'[t].at \notin Counting \cup {"leftSet"} \/ rec'[t].at = "general",
              rec'[t].at = "general" => rec[t].at \in Counting,
              rec'[t].at = "left" => rec'[t].seat = rec[t].seat /\ Seat(t).state = "offline"
       PROVE  CountInv'
  <2>1. rec'[t].at \notin Asking
    BY <1>16 DEF Asking, Counting
  <2>2. Places'
    BY <1>1, <1>16, PlacesMove DEF Counting
  <2> QED
    BY <1>1, <1>16, <2>1, <2>2, QuietCount DEF CountInv
<1>17. CASE SendNews(t)
  <2>1. FromTo(t, "news", "general")
    BY <1>17, GotoFacts DEF SendNews, Is, FromTo
  <2>2. Moves(t, {})
    BY <1>1, <2>1, SameMoves DEF FromTo, Alike
  <2> QED
    BY <1>16, <1>17, <2>1, <2>2 DEF SendNews, FromTo, Counting
<1>18. CASE Lock(t)
  <2>1. FromTo(t, "lock", "begin")
    BY <1>18, GotoFacts DEF Lock, Is, FromTo
  <2>2. Moves(t, {})
    BY <1>1, <2>1, SameMoves DEF FromTo, Alike
  <2> QED
    BY <1>16, <1>18, <2>1, <2>2 DEF Lock, FromTo, Counting
<1>19. CASE Begin(t)
  <2>1. FromTo(t, "begin", "time")
    BY <1>19, GotoFacts DEF Begin, Is, FromTo
  <2>2. Moves(t, {})
    BY <1>1, <2>1, BeginMoves DEF FromTo, FirstSeat
  <2>3. db'.mem = db.mem /\ db'.disk = db.disk
    BY <1>3, <1>19 DEF Begin, DbType
  <2> QED
    BY <1>16, <1>19, <2>1, <2>2, <2>3 DEF Begin, FromTo, Counting
<1>20. CASE AddTime(t)
  <2> DEFINE mem == [db.mem EXCEPT !.timed = @ \cup {<<rec[t].game, Seat(t).user>>}]
  <2>1. mem.rows = db.mem.rows
    BY <1>3 DEF DbType, Tables0
  <2>2. db' = [db EXCEPT !.mem = mem, !.disk = IF db.open THEN db.disk ELSE mem]
    BY <1>3, <1>20 DEF AddTime, Exec, DbType
  <2> HIDE DEF mem
  <2>3. db'.mem = mem /\ db'.disk = IF db.open THEN db.disk ELSE mem
    BY <1>3, <2>2 DEF DbType
  <2>4. /\ db'.mem.rows = db.mem.rows
        /\ db'.disk.rows = db.disk.rows \/ db'.disk.rows = db.mem.rows
    BY <2>1, <2>3
  <2>5. rec[t].at = "time" /\ raced' = raced /\ crashes' = crashes
    BY <1>20 DEF AddTime, Is
  <2>6. CASE Seat(t).state = "offline"
    <3>1. FromTo(t, "time", "left")
      BY <1>20, <2>5, <2>6, GotoFacts DEF AddTime, FromTo
    <3>2. Moves(t, {})
      BY <1>1, <3>1, SameMoves DEF FromTo, Alike
    <3> QED
      BY <1>16, <2>4, <2>5, <2>6, <3>1, <3>2 DEF FromTo, Counting
  <2>7. CASE Seat(t).state # "offline"
    <3>1. On(t, "time", "commit")
      BY <1>1, <1>20, <2>7, NextSeatFacts DEF AddTime
    <3>2. Moves(t, {}) /\ rec'[t].at \in {"time", "commit"}
      BY <1>1, <2>5, <2>7, <3>1, TimeMoves DEF On
    <3> QED
      BY <1>16, <2>4, <2>5, <3>2 DEF Counting
  <2> QED
    BY <2>6, <2>7
<1>21. CASE Commit(t)
  <2>1. FromTo(t, "commit", "unlock")
    BY <1>21, GotoFacts DEF Commit, Is, FromTo
  <2>2. Moves(t, {})
    BY <1>1, <2>1, LastMoves DEF FromTo
  <2>3. db'.mem = db.mem /\ db'.disk = db.mem
    BY <1>3, <1>21 DEF Commit, DbType
  <2> QED
    BY <1>16, <1>21, <2>1, <2>2, <2>3 DEF Commit, FromTo, Counting
<1>22. CASE Unlock(t)
  <2>1. FromTo(t, "unlock", "tell")
    BY <1>22, GotoFacts DEF Unlock, Is, FromTo
  <2>2. Moves(t, {})
    BY <1>1, <2>1, LastMoves DEF FromTo
  <2> QED
    BY <1>16, <1>22, <2>1, <2>2 DEF Unlock, FromTo, Counting
<1>23. CASE SendTime(t)
  <2>1. rec[t].at = "tell" /\ rec'[t].at \in {"tell", "idle"}
    BY <1>1, <1>23, NextSeatFacts DEF SendTime, Is, On
  <2>2. Moves(t, {})
    BY <1>1, <2>1, LastMoves
  <2> QED
    BY <1>16, <1>23, <2>1, <2>2 DEF SendTime, Counting
<1> QED
  BY <1>8, <1>9, <1>10, <1>11, <1>12, <1>13, <1>14, <1>15, <1>17, <1>18, <1>19, <1>20,
     <1>21, <1>22, <1>23 DEF Records

\* The main thread writes no counter.
LEMMA LoginCount ==
  ASSUME TypeOK, CountInv, LoginStarts \/ Login
  PROVE  CountInv'
<1>1. rec' = rec /\ games' = games /\ raced' = raced /\ crashes' = crashes
  BY DEF LoginStarts, Login, LoginLocks, LoginBegins, LoginWrites, LoginCommits, LoginUnlocks
<1>2. DbType
  BY TypeParts
<1>3. /\ db'.mem.rows = db.mem.rows
      /\ db'.disk.rows = db.disk.rows \/ db'.disk.rows = db.mem.rows
  <2>1. ASSUME NEW what, NEW next, LoginWrites(what, next)
        PROVE  /\ db'.mem.rows = db.mem.rows
               /\ db'.disk.rows = db.disk.rows \/ db'.disk.rows = db.mem.rows
    <3> DEFINE mem == [db.mem EXCEPT !.logged = @ \cup {<<login.number, what>>}]
    <3>1. mem.rows = db.mem.rows
      BY <1>2 DEF DbType, Tables0
    <3>2. db' = [db EXCEPT !.mem = mem, !.disk = IF db.open THEN db.disk ELSE mem]
      BY <1>2, <2>1 DEF LoginWrites, Exec, DbType
    <3> HIDE DEF mem
    <3>3. db'.mem = mem /\ db'.disk = IF db.open THEN db.disk ELSE mem
      BY <1>2, <3>2 DEF DbType
    <3> QED
      BY <3>1, <3>3
  <2>2. ASSUME LoginBegins \/ LoginCommits
        PROVE  /\ db'.mem.rows = db.mem.rows
               /\ db'.disk.rows = db.disk.rows \/ db'.disk.rows = db.mem.rows
    BY <1>2, <2>2 DEF LoginBegins, LoginCommits, DbType
  <2>3. ASSUME db' = db
        PROVE  /\ db'.mem.rows = db.mem.rows
               /\ db'.disk.rows = db.disk.rows \/ db'.disk.rows = db.mem.rows
    BY <2>3
  <2> QED
    BY <2>1, <2>2, <2>3 DEF LoginStarts, Login, LoginLocks, LoginUnlocks
<1>4. \A k : Done(k)' = Done(k) /\ DueSet(k)' = DueSet(k)
  BY <1>1 DEF Done, DueSet, Seatings, Held, HasAhead, Seats, DueAt
<1>5. Places' /\ Finite'
  BY <1>1, <1>4 DEF CountInv, Places, Finite, Seat, Seats
<1>6. Below' /\ Exact'
  BY <1>1, <1>3, <1>4 DEF CountInv, Below, Exact
<1>7. Reads'
  BY <1>1, <1>4 DEF CountInv, Reads, Target, Seat, Seats
<1> QED
  BY <1>5, <1>6, <1>7 DEF CountInv

\* What a new game makes due its thread has still to write.
LEMMA GameEndsCount ==
  ASSUME TypeOK, CountInv, NEW t \in Threads, NEW seats \in Tables, NEW counted \in BOOLEAN,
         GameEnds(t, seats, counted)
  PROVE  CountInv'
<1>1. PICK n : n = Len(games) + 1
  OBVIOUS
<1>2. /\ DOMAIN games = 1..Len(games) /\ DOMAIN games' = 1..n /\ Len(games) \in Nat
      /\ n \in DOMAIN games' /\ n \notin DOMAIN games
      /\ \A g \in DOMAIN games : games'[g] = games[g]
  BY <1>1, GameEndsType
<1>3. games'[n].seats = seats /\ games'[n].counted = counted
  <2>1. games \in Seq(Game)
    BY DEF TypeOK, Game
  <2>2. games' = Append(games, [seats |-> seats, counted |-> counted])
    BY DEF GameEnds
  <2>3. [seats |-> seats, counted |-> counted] \in Game
    BY DEF Game
  <2>4. games'[n] = [seats |-> seats, counted |-> counted]
    BY <1>1, <2>1, <2>2, <2>3
  <2> QED
    BY <2>4
<1>4. /\ rec[t].at = "idle" /\ rec'[t].game = n /\ rec'[t].seat = 1
      /\ rec'[t].at = IF counted THEN "player" ELSE "lock"
      /\ \A s \in Threads \ {t} : rec'[s] = rec[s]
      /\ db' = db /\ raced' = raced /\ crashes' = crashes
  <2>1. rec \in [Threads -> [at : Spots, game : Nat, seat : Nat, read : Nat]]
    BY TypeParts DEF RecType
  <2>2. rec' = [rec EXCEPT ![t] = [at |-> IF counted THEN "player" ELSE "lock",
                                   game |-> n, seat |-> 1, read |-> 0]]
    BY <1>1 DEF GameEnds
  <2> QED
    BY <2>1, <2>2 DEF GameEnds, Is
<1>5. \A s \in Threads : Working(s) => rec[s].game \in DOMAIN games
  BY DEF TypeOK, Is, Working
<1>6. ASSUME NEW s \in Threads \ {t}, Working(s)
      PROVE  /\ rec'[s] = rec[s] /\ games'[rec[s].game] = games[rec[s].game]
             /\ Seats(s)' = Seats(s) /\ Seat(s)' = Seat(s)
  BY <1>2, <1>4, <1>5, <1>6 DEF Seats, Seat
<1>7. ASSUME NEW k \in Counters, NEW e \in Seatings
      PROVE  /\ e \in Seatings' /\ (DueAt(k, e[1], e[2])' <=> DueAt(k, e[1], e[2]))
             /\ Held(k, e)' <=> Held(k, e)
  <2>1. e = <<e[1], e[2]>> /\ e[1] \in DOMAIN games /\ e[2] \in DOMAIN games[e[1]].seats
    BY SeatingsFacts
  <2>2. games'[e[1]] = games[e[1]] /\ e[1] \in DOMAIN games' /\ e[1] # n
    BY <1>2, <2>1
  <2>3. e \in Seatings'
    BY <2>1, <2>2 DEF Seatings
  <2>4. \A s \in Threads : HasAhead(s, k, e[2]) => Working(s)
    BY DEF HasAhead, Ahead, Working, Counting
  <2>5. \A s \in Threads : HasAhead(s, k, e[2])' => Working(s)'
    BY DEF HasAhead, Ahead, Working, Counting
  <2>6. ASSUME NEW s \in Threads
        PROVE  rec'[s].game = e[1] /\ HasAhead(s, k, e[2])' <=>
               rec[s].game = e[1] /\ HasAhead(s, k, e[2])
    <3>1. CASE s = t
      BY <1>4, <2>2, <2>4, <3>1 DEF Working
    <3>2. CASE s # t /\ Working(s)
      BY <1>6, <3>2 DEF HasAhead
    <3>3. CASE s # t /\ ~Working(s)
      BY <1>4, <2>4, <2>5, <3>3 DEF Working
    <3> QED
      BY <3>1, <3>2, <3>3
  <2>7. Held(k, e)' <=> Held(k, e)
    BY <2>6 DEF Held
  <2> QED
    BY <2>2, <2>3, <2>7 DEF DueAt
<1>8. ASSUME NEW e \in Seatings', e \notin Seatings
      PROVE  e[1] = n /\ e[2] \in DOMAIN seats /\ e = <<n, e[2]>>
  <2>1. e = <<e[1], e[2]>> /\ e[1] \in DOMAIN games' /\ e[2] \in DOMAIN games'[e[1]].seats
    BY <1>8 DEF Seatings
  <2>2. e[1] \in DOMAIN games => e \in Seatings
    BY <1>2, <2>1, SeatingsFacts
  <2>3. e[1] = n
    BY <1>1, <1>2, <1>8, <2>1, <2>2
  <2> QED
    BY <1>3, <2>1, <2>3
<1>9. ASSUME NEW k \in Counters, NEW e \in Seatings', e \notin Seatings, DueAt(k, e[1], e[2])'
      PROVE  Held(k, e)'
  <2>1. e[1] = n /\ e[2] \in DOMAIN seats /\ seats = games'[n].seats
    BY <1>3, <1>8, <1>9
  <2>2. Seats(t)' = seats /\ e[2] \in Nat /\ e[2] >= 1
    BY <1>3, <1>4, <2>1, TableFacts DEF Seats
  <2>3. HasAhead(t, k, e[2])'
    <3>1. \/ k[1] = "player" /\ counted = TRUE
          \/ k[1] = "general" /\ counted = TRUE
          \/ k[1] = "run" /\ seats[e[2]].state = "offline"
          \/ k[1] = "run" /\ seats[e[2]].state = "run" /\ counted = TRUE
      BY <1>3, <1>9, <2>1 DEF DueAt
    <3>2. Ahead(k[1], rec'[t].at, rec'[t].seat, seats[e[2]].state, e[2])
      BY <1>4, <2>2, <3>1 DEF Ahead, Counting
    <3> QED
      BY <2>2, <3>2 DEF HasAhead
  <2> QED
    BY <1>4, <2>1, <2>3 DEF Held
<1>10. ASSUME NEW k \in Counters PROVE Done(k)' = Done(k)
  <2>1. Done(k)' = {e \in DueSet(k)' : ~Held(k, e)'}
    BY DEF Done
  <2>2. DueSet(k)' = {e \in Seatings' : DueAt(k, e[1], e[2])'}
    BY DEF DueSet
  <2>3. \A e : e \in Done(k)' <=> e \in Done(k)
    BY <1>7, <1>9, <2>1, <2>2 DEF Done, DueSet
  <2> QED
    BY <2>3
<1>11. ASSUME NEW k \in Counters PROVE IsFiniteSet(DueSet(k)')
  <2>1. IsFiniteSet(DueSet(k))
    BY DEF CountInv, Finite
  <2>2. DOMAIN seats = 1..Len(seats) /\ Len(seats) \in Nat
    BY TableFacts
  <2>3. IsFiniteSet(1..Len(seats))
    BY <2>2, FS_Interval
  <2>4. IsFiniteSet({n})
    BY FS_Singleton
  <2>5. IsFiniteSet({n} \X (1..Len(seats)))
    BY <2>3, <2>4, FS_Product
  <2>6. IsFiniteSet(DueSet(k) \cup ({n} \X (1..Len(seats))))
    BY <2>1, <2>5, FS_Union
  <2>7. ASSUME NEW e \in DueSet(k)'
        PROVE  e \in DueSet(k) \cup ({n} \X (1..Len(seats)))
    <3>1. e \in Seatings' /\ DueAt(k, e[1], e[2])'
      BY <2>7 DEF DueSet
    <3>2. CASE e \in Seatings
      BY <1>7, <3>1, <3>2 DEF DueSet
    <3>3. CASE e \notin Seatings
      BY <1>8, <2>2, <3>1, <3>3
    <3> QED
      BY <3>2, <3>3
  <2> QED
    BY <2>6, <2>7, FS_Subset
<1>12. Finite'
  BY <1>11 DEF Finite
<1>13. Places'
  <2> SUFFICES ASSUME NEW s \in Threads
               PROVE  /\ rec'[s].at \in Counting => games'[rec'[s].game].counted = TRUE
                      /\ rec'[s].at \in {"run", "runSet"} => Seat(s)'.state = "run"
                      /\ rec'[s].at \in {"left", "leftSet"} => Seat(s)'.state = "offline"
    BY DEF Places
  <2>1. CASE s = t
    BY <1>3, <1>4, <2>1 DEF Counting
  <2>2. CASE s # t /\ Working(s)
    BY <1>6, <2>2 DEF CountInv, Places
  <2>3. CASE s # t /\ ~Working(s)
    BY <1>4, <2>3 DEF Working, Counting
  <2> QED
    BY <2>1, <2>2, <2>3
<1>14. Below' /\ Exact'
  BY <1>4, <1>10 DEF CountInv, Below, Exact
<1>15. ASSUME NEW s \in Threads, NEW k \in Counters, Target(s, k)'
       PROVE  rec'[s].read <= Cardinality(Done(k))'
  <2>1. s # t /\ Working(s)
    BY <1>4, <1>15 DEF Target, Working
  <2>2. Target(s, k) /\ rec'[s] = rec[s]
    BY <1>6, <1>15, <2>1 DEF Target
  <2> QED
    BY <1>10, <2>2 DEF CountInv, Reads
<1>16. Reads'
  BY <1>15 DEF Reads
<1> QED
  BY <1>12, <1>13, <1>14, <1>16 DEF CountInv

\* After a crash nobody has anything to write, and the disk has no more rows.
LEMMA CrashCount ==
  ASSUME TypeOK, CountInv, Crash
  PROVE  CountInv'
<1>1. /\ games' = games /\ db'.mem = db.disk /\ db'.disk = db.disk
      /\ crashes' # 0 /\ \A s \in Threads : rec'[s].at = "idle"
  BY DEF Crash, NoGame, TypeOK
<1>2. Places' /\ Reads' /\ Exact'
  BY <1>1 DEF Places, Reads, Exact, Target, Counting
<1>3. \A k : DueSet(k)' = DueSet(k)
  BY <1>1 DEF DueSet, Seatings, DueAt
<1>4. Finite'
  BY <1>3 DEF CountInv, Finite
<1>5. ASSUME NEW k \in Counters
      PROVE  db.disk.rows[k] <= Cardinality(Done(k))'
  <2>1. \A e : ~Held(k, e)'
    BY <1>1 DEF Held, HasAhead, Ahead, Counting
  <2>2. Done(k)' = DueSet(k)
    BY <1>3, <2>1 DEF Done
  <2>3. /\ Cardinality(Done(k)) \in Nat /\ Cardinality(DueSet(k)) \in Nat
        /\ Cardinality(Done(k)) <= Cardinality(DueSet(k))
    BY DoneFacts DEF CountInv
  <2>4. db.disk.rows[k] <= Cardinality(Done(k)) /\ db.disk.rows[k] \in Nat
    BY RowsTyped DEF CountInv, Below, RowTypes
  <2> QED
    BY <2>2, <2>3, <2>4
<1>6. Below'
  BY <1>1, <1>5 DEF Below
<1> QED
  BY <1>2, <1>4, <1>6 DEF CountInv

LEMMA InitCount == Init => CountInv
<1> SUFFICES ASSUME Init PROVE CountInv
  OBVIOUS
<1>1. /\ \A t \in Threads : rec[t].at = "idle"
      /\ \A k \in Counters : db.mem.rows[k] = 0 /\ db.disk.rows[k] = 0
      /\ DOMAIN games = {}
  BY DEF Init, NoGame, Empty
<1>2. \A k : DueSet(k) = {} /\ Done(k) = {}
  BY <1>1 DEF Done, DueSet, Seatings
<1>3. IsFiniteSet({}) /\ Cardinality({}) = 0
  BY FS_EmptySet
<1>4. Places /\ Finite /\ Reads
  BY <1>1, <1>2, <1>3 DEF Places, Finite, Reads, Target, Counting
<1>5. \A k : Cardinality(Done(k)) = 0
  BY <1>2, <1>3
<1>6. Below /\ Exact
  BY <1>1, <1>5 DEF Below, Exact
<1> QED
  BY <1>4, <1>6 DEF CountInv

\* No counter is ever above what the games that ended make due, whatever the
\* threads interleave and the crashes lose; and when all is written down each
\* is exactly that, unless its row changed between a SELECT and its UPDATE.
THEOREM CountsOnce == Spec => []CountedOnce
<1>1. TypeOK /\ TransactionInv /\ TransactionInv' /\ CountInv /\ [Next]_vars => CountInv'
  <2> SUFFICES ASSUME TypeOK, TransactionInv, TransactionInv', CountInv, [Next]_vars
               PROVE  CountInv'
    OBVIOUS
  <2>1. Apart /\ Apart' /\ FirstSeat
    BY DEF TransactionInv, TimedInv
  <2>2. CASE UNCHANGED vars
    <3>1. \A k : Done(k)' = Done(k) /\ DueSet(k)' = DueSet(k)
      BY <2>2 DEF vars, Done, DueSet, Seatings, Held, HasAhead, Seats, DueAt
    <3>2. Places' /\ Finite'
      BY <2>2, <3>1 DEF vars, CountInv, Places, Finite, Seat, Seats
    <3>3. Below' /\ Exact' /\ Reads'
      BY <2>2, <3>1 DEF vars, CountInv, Below, Exact, Reads, Target, Seat, Seats
    <3> QED
      BY <3>2, <3>3 DEF CountInv
  <2> QED
    BY <2>1, <2>2, RecordsCount, LoginCount, GameEndsCount, CrashCount DEF Next
<1>2. TypeOK /\ CountInv => CountedOnce
  <2> SUFFICES ASSUME TypeOK, CountInv, NEW k \in Counters
               PROVE  /\ db.mem.rows[k] <= Due(k)
                      /\ Settled /\ crashes = 0 /\ k \notin raced => db.mem.rows[k] = Due(k)
    BY DEF CountedOnce
  <2>1. Due(k) = Cardinality(DueSet(k))
    BY SameDue
  <2>2. /\ Cardinality(Done(k)) \in Nat /\ Cardinality(DueSet(k)) \in Nat
        /\ Cardinality(Done(k)) <= Cardinality(DueSet(k))
    BY DoneFacts DEF CountInv
  <2>3. db.mem.rows[k] <= Due(k)
    <3>1. db.mem.rows[k] <= Cardinality(Done(k)) /\ db.mem.rows[k] \in Nat
      BY RowsTyped DEF CountInv, Below, RowTypes
    <3> QED
      BY <2>1, <2>2, <3>1
  <2>4. ASSUME Settled, crashes = 0, k \notin raced PROVE db.mem.rows[k] = Due(k)
    <3>1. \A e : ~Held(k, e)
      BY <2>4 DEF Settled, Is, Held, HasAhead, Ahead, Counting
    <3>2. Done(k) = DueSet(k)
      BY <3>1 DEF Done
    <3> QED
      BY <2>1, <2>4, <3>2 DEF CountInv, Exact
  <2> QED
    BY <2>3, <2>4
<1> QED
  BY <1>1, <1>2, InitCount, Typing, Transactions, PTL DEF Spec

==============================================================================
