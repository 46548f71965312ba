----------------------------- MODULE RoomThreads -----------------------------
(***************************************************************************)
(* The pool of room threads of a server and the renewal of its files:      *)
(* Server::createRoom and refreshMd5 (src/server/server.cpp), RoomThread   *)
(* (src/server/roomthread.cpp), the parts of Room and Lobby that ask       *)
(* isOutdated, and the package and stat commands of the shell, which run   *)
(* in the thread of the shell.                                             *)
(*                                                                         *)
(* The constructor of RoomThread runs an event loop of its own until Lua   *)
(* is loaded, so the main thread serves other messages in the middle of    *)
(* createRoom: `frames' is its stack of unfinished handlers, innermost     *)
(* last.  The shell runs beside it, so whoever is in the middle of a       *)
(* handler may find the files renewed when he goes on.                     *)
(* A version of the files under packages/ stands for its MD5.              *)
(***************************************************************************)
EXTENDS Integers, Sequences, FiniteSets, SequencesExt, FiniteSetsExt

CONSTANTS
  Clients,         \* accounts
  Versions,        \* versions of the files, numbers from 1 on
  RoomsPerThread,  \* roomCountPerThread of the configuration
  Seats,           \* Room.capacity: as many human players fit in a room
  MaxThreads,      \* bound: room threads ever made
  MaxRooms,        \* bound: rooms ever made
  MaxChanges,      \* bound: changes of the files
  MaxLogins,       \* bound: logins
  MaxGames         \* bound: games started

ASSUME PoolConstants ==
  /\ Versions \subseteq Nat \ {0} /\ 1 \in Versions
  /\ {RoomsPerThread, Seats} \subseteq Nat \ {0}
  /\ {MaxThreads, MaxRooms, MaxChanges, MaxLogins, MaxGames} \subseteq Nat

Threads == 1..MaxThreads
Rooms   == 1..MaxRooms
Latched == 0           \* the md5 "" of what was outdated once
Lobby   == 0

VARIABLES
  disk,     \* the version under packages/
  md5,      \* Server.md5
  thread,   \* the RoomThread objects and what their Lua is doing
  room,     \* the Room objects
  client,   \* the players, and the files each of them plays with
  frames,   \* the unfinished handlers of the main thread
  posted,   \* events other threads have posted to the main thread
  shell,    \* how far the command of the shell is
  outlived, \* threads that refreshMd5 or stat found outdated (history)
  slipped,  \* clients who moved while the files were being renewed (history)
  fault,    \* the main thread has used a deleted or uninitialised object
  count     \* how often the bounded things have happened

vars == <<disk, md5, thread, room, client, frames, posted, shell, outlived,
          slipped, fault, count>>

\* own: the room its thread was made for; midway: it was made while the shell
\* was renewing the files (both history).
NoThread == [life |-> "none", md5 |-> Latched, loaded |-> 0, requests |-> {}]
NoRoom   == [life |-> "none", thread |-> 0, md5 |-> Latched, listed |-> FALSE,
             players |-> {}, started |-> FALSE, inLua |-> FALSE,
             own |-> FALSE, midway |-> FALSE]
FreedRoom == [NoRoom EXCEPT !.life = "freed"]
Away     == [at |-> "out", room |-> Lobby, files |-> 0]

Init ==
  /\ disk = 1 /\ md5 = 1
  /\ thread = [t \in Threads |-> NoThread]
  /\ room = [r \in Rooms |-> NoRoom]
  /\ client = [p \in Clients |-> Away]
  /\ frames = <<>> /\ posted = {} /\ shell = "idle"
  /\ outlived = {} /\ slipped = {} /\ fault = "none"
  /\ count = [threads |-> 0, rooms |-> 0, changes |-> 0, logins |-> 0,
              games |-> 0]

Counted(what) == count' = [count EXCEPT ![what] = @ + 1]
Alive(t) == thread[t].life \in {"starting", "serving"}
Children(t) == {r \in Rooms : room[r].thread = t /\ room[r].life = "live"}
Listed == {r \in Rooms : room[r].listed}   \* Server.rooms
Pending(t) == {i \in DOMAIN frames : frames[i].thread = t}
Waiting(p) == \E i \in DOMAIN frames : frames[i].owner = p
InLobby(p) == client[p].at = "in" /\ client[p].room = Lobby

\* The main thread takes an event when it is in an event loop: its own, or
\* that of the innermost constructor.
InLoop == /\ fault = "none"
          /\ \A i \in DOMAIN frames : frames[i].at # "placing"

\* Who moves while the shell renews the files may be missed by it; `install'
\* and `remove' change the files and renew nothing.
Slip(p, fresh) == slipped' = IF shell = "idle" /\ fresh THEN slipped
                             ELSE slipped \cup {p}
Fresh(t) == thread[t].loaded = md5

-----------------------------------------------------------------------------
(* Outdated or not: isOutdated of RoomThread and Room are alike.            *)

Outdated(label) == label # md5
\* mutant: nothing stays outdated
LatchNot(label) == label
Latch(label) == IF Outdated(label) THEN Latched ELSE label

\* The rooms whose isOutdated is asked, of the rooms rs.
AskRooms(rs) == [r \in Rooms |-> IF r \in rs /\ room[r].listed
                                 THEN [room[r] EXCEPT !.md5 = Latch(@)]
                                 ELSE room[r]]
AskThreads(ts) == [t \in Threads |-> IF t \in ts /\ Alive(t)
                                     THEN [thread[t] EXCEPT !.md5 = Latch(@)]
                                     ELSE thread[t]]

-----------------------------------------------------------------------------
(* Creating a room.                                                         *)

\* mutant: a thread takes one room more
IsFullOff(t) == RoomsPerThread < Cardinality(Children(t))
IsFull(t) == RoomsPerThread <= Cardinality(Children(t))

\* mutant: outdated threads are taken too
FitOutdated == {t \in Threads : Alive(t) /\ ~IsFull(t)}
Fit == {t \in Threads : Alive(t) /\ ~IsFull(t) /\ ~Outdated(thread[t].md5)}

\* The threads are asked in their order until one is fit.
Chosen == Min(Fit)
Asked  == IF Fit = {} THEN {t \in Threads : ~IsFull(t)}
          ELSE {t \in 1..Chosen : ~IsFull(t)}

\* A client waits for the answer to what it sent (mainWindow.busy).
CreateRoom(p) ==
  /\ InLoop /\ InLobby(p) /\ ~Waiting(p)
  /\ count.rooms + Len(frames) < MaxRooms
  /\ IF Fit # {}
     THEN /\ frames' = Append(frames, [do |-> "create", owner |-> p,
                                       thread |-> Chosen, at |-> "placing"])
          /\ thread' = AskThreads(Asked)
          /\ UNCHANGED count
     ELSE /\ count.threads < MaxThreads
          /\ LET t == count.threads + 1 IN
             /\ frames' = Append(frames, [do |-> "create", owner |-> p,
                                          thread |-> t, at |-> "waiting"])
             /\ thread' = [AskThreads(Asked) EXCEPT
                             ![t] = [NoThread EXCEPT !.life = "starting",
                                                     !.md5 = md5]]
          /\ Counted("threads")
  /\ UNCHANGED <<disk, md5, room, client, posted, shell, outlived, slipped, fault>>

\* The innermost loop has quit: createRoom goes on with the thread it has.
\* Nothing is asked again.
Place ==
  /\ fault = "none" /\ frames # <<>>
  /\ Last(frames).do = "create" /\ Last(frames).at # "waiting"
  /\ LET f == Last(frames)
         t == f.thread
         r == count.rooms + 1
         p == f.owner
     IN IF ~Alive(t) \/ ~InLobby(p)
        THEN /\ fault' = "createRoom"
             /\ UNCHANGED <<room, client, slipped, count>>
        ELSE /\ room' = [room EXCEPT ![r] =
                  [NoRoom EXCEPT !.life = "live", !.thread = t,
                                 !.md5 = thread[t].md5, !.listed = TRUE,
                                 !.players = {p},
                                 !.own = f.at = "quitting",
                                 !.midway = shell # "idle"]]
             /\ client' = [client EXCEPT ![p].room = r]
             /\ Slip(p, Fresh(t))
             /\ Counted("rooms")
             /\ UNCHANGED fault
  /\ frames' = Front(frames)
  /\ UNCHANGED <<disk, md5, thread, posted, shell, outlived>>

-----------------------------------------------------------------------------
(* Leaving.                                                                 *)

\* The room without p.  Nobody left: it leaves the list, and is deleted once
\* Lua has let go of it.  quitRoom asks whether it is outdated.
Without(p, quit) ==
  LET r    == client[p].room
      rest == room[r].players \ {p}
  IN IF r = Lobby THEN room
     ELSE [room EXCEPT ![r] =
             IF rest = {} /\ ~@.inLua THEN FreedRoom
             ELSE [@ EXCEPT !.players = rest, !.listed = rest # {},
                            !.md5 = IF quit THEN Latch(room[r].md5)
                                     ELSE room[r].md5]]

\* A kick, or a lost connection: in a running game the seat is kept.
InGame(p) == client[p].room # Lobby /\ room[client[p].room].started
Forget(p) == posted \ {<<"kick", p>>}   \* signals to a deleted player are lost
Dropped(p) == [client EXCEPT ![p] = IF InGame(p) THEN [@ EXCEPT !.at = "out"]
                                    ELSE Away]

Disconnect(p) ==
  /\ InLoop /\ client[p].at = "in"
  /\ client' = Dropped(p)
  /\ room' = IF InGame(p) THEN room ELSE Without(p, FALSE)
  /\ posted' = IF InGame(p) THEN posted ELSE Forget(p)
  /\ UNCHANGED <<disk, md5, thread, frames, shell, outlived, slipped, fault, count>>

Kicked(p) ==
  /\ InLoop /\ <<"kick", p>> \in posted
  /\ posted' = posted \ {<<"kick", p>>}
  /\ IF client[p].at = "in"
     THEN /\ client' = Dropped(p)
          /\ room' = IF InGame(p) THEN room ELSE Without(p, FALSE)
     ELSE UNCHANGED <<client, room>>
  /\ UNCHANGED <<disk, md5, thread, frames, shell, outlived, slipped, fault, count>>

\* mutant: leaving an outdated room leads to the lobby
QuitFreely(p) ==
  /\ InLoop /\ client[p].at = "in" /\ client[p].room # Lobby /\ ~InGame(p)
  /\ client' = [client EXCEPT ![p].room = Lobby]
  /\ room' = Without(p, TRUE)
  /\ Slip(p, TRUE)
  /\ UNCHANGED <<disk, md5, thread, frames, posted, shell, outlived, fault, count>>
\* Whoever leaves an outdated room is kicked.
QuitRoom(p) ==
  /\ InLoop /\ client[p].at = "in" /\ client[p].room # Lobby /\ ~InGame(p)
  /\ client' = [client EXCEPT ![p] = IF Outdated(room[@.room].md5) THEN Away
                                     ELSE [@ EXCEPT !.room = Lobby]]
  /\ room' = Without(p, TRUE)
  /\ posted' = IF Outdated(room[client[p].room].md5) THEN Forget(p) ELSE posted
  /\ Slip(p, TRUE)
  /\ UNCHANGED <<disk, md5, thread, frames, shell, outlived, fault, count>>

\* Out of a running game: the living are banned for a while and kicked, the
\* dead go to the lobby as a new object; quitRoom kicks the old one, which
\* has no socket any more.
RunAway(p, died) ==
  /\ InLoop /\ client[p].at = "in" /\ InGame(p)
  /\ client' = [client EXCEPT ![p] = IF died THEN [@ EXCEPT !.room = Lobby]
                                     ELSE Away]
  /\ room' = Without(p, TRUE)
  /\ slipped' = IF died /\ Outdated(client[p].files)
                THEN slipped \cup {p} ELSE slipped
  /\ posted' = Forget(p)
  /\ UNCHANGED <<disk, md5, thread, frames, shell, outlived, fault, count>>

-----------------------------------------------------------------------------
(* Coming in.                                                               *)

\* processRequest compares the MD5 first and admits the player at its end.
Login(p) ==
  /\ InLoop /\ client[p].at = "out" /\ count.logins < MaxLogins
  /\ \A i \in DOMAIN frames : frames[i].owner # p
  /\ client' = [client EXCEPT ![p].files = md5]
  /\ frames' = Append(frames, [do |-> "login", owner |-> p, thread |-> 0,
                               at |-> "placing"])
  /\ Counted("logins")
  /\ UNCHANGED <<disk, md5, thread, room, posted, shell, outlived, slipped, fault>>

\* A seat kept in a running game is taken again, whatever that game runs on.
Admit ==
  /\ fault = "none" /\ frames # <<>> /\ Last(frames).do = "login"
  /\ LET p == Last(frames).owner
         r == client[p].room
         home == r = Lobby \/ thread[room[r].thread].loaded = client[p].files
     IN /\ client' = [client EXCEPT ![p].at = "in"]
        /\ slipped' = IF shell = "idle" /\ home /\ client[p].files = md5
                      THEN slipped \ {p} ELSE slipped \cup {p}
  /\ frames' = Front(frames)
  /\ UNCHANGED <<disk, md5, thread, room, posted, shell, outlived, fault, count>>

EnterRoom(p, r) ==
  /\ InLoop /\ InLobby(p) /\ ~Waiting(p) /\ room[r].listed
  /\ LET joins == /\ ~Outdated(room[r].md5) /\ ~room[r].started
                  /\ Cardinality(room[r].players) < Seats
     IN IF joins
        THEN /\ room' = [room EXCEPT ![r].players = @ \cup {p}]
             /\ client' = [client EXCEPT ![p].room = r]
             /\ Slip(p, Fresh(room[r].thread))
        ELSE /\ room' = AskRooms({r})
             /\ UNCHANGED <<client, slipped>>
  /\ UNCHANGED <<disk, md5, thread, frames, posted, shell, outlived, fault, count>>

\* The list of rooms says which are outdated.
UpdateRoomList(p) ==
  /\ InLoop /\ InLobby(p)
  /\ room' = AskRooms(Listed)
  /\ UNCHANGED <<disk, md5, thread, client, frames, posted, shell, outlived, slipped,
                 fault, count>>

-----------------------------------------------------------------------------
(* Games.  Robots take the seats that are free.                             *)

\* The signal pushRequest has no receiver before the scheduler is connected.
StartGame(p) ==
  /\ InLoop /\ client[p].at = "in" /\ client[p].room # Lobby /\ ~InGame(p)
  /\ LET r  == client[p].room
         t  == room[r].thread
         ps == room[r].players
     IN IF Outdated(room[r].md5)
        THEN /\ room' = [room EXCEPT ![r] = FreedRoom]
             /\ client' = [q \in Clients |-> IF q \in ps THEN Away ELSE client[q]]
             /\ posted' = posted \ {<<"kick", q>> : q \in ps}
             /\ UNCHANGED <<thread, count>>
        ELSE /\ count.games < MaxGames
             /\ room' = [room EXCEPT ![r].started = TRUE]
             /\ thread' = [thread EXCEPT ![t].requests =
                             IF thread[t].life = "serving" THEN @ \cup {r} ELSE @]
             /\ Counted("games")
             /\ UNCHANGED <<client, posted>>
  /\ UNCHANGED <<disk, md5, frames, shell, outlived, slipped, fault>>
\* The scheduler of t takes up a game; the room may be gone by then.
NewRoom(t) ==
  /\ fault = "none" /\ thread[t].life = "serving"
  /\ \E r \in thread[t].requests :
       /\ thread' = [thread EXCEPT ![t].requests = @ \ {r}]
       /\ room' = [room EXCEPT ![r].inLua = room[r].listed]
  /\ UNCHANGED <<disk, md5, client, frames, posted, shell, outlived, slipped, fault, count>>

\* A game ends: the absent are deleted, and the room when nobody is left.
GameOver(r) ==
  /\ fault = "none" /\ room[r].inLua
  /\ LET here == {p \in room[r].players : client[p].at = "in"} IN
     /\ room' = [room EXCEPT ![r] =
                   IF here = {} THEN FreedRoom
                   ELSE [@ EXCEPT !.started = FALSE, !.inLua = FALSE,
                                  !.players = here]]
     /\ client' = [p \in Clients |-> IF p \in room[r].players \ here
                                     THEN Away ELSE client[p]]
  /\ UNCHANGED <<disk, md5, thread, frames, posted, shell, outlived, slipped, fault, count>>

\* mutant: nothing ends the loop of the constructor
LoadSilent(t) ==
  /\ fault = "none" /\ thread[t].life = "starting"
  /\ thread' = [thread EXCEPT ![t].life = "serving", ![t].loaded = disk]
  /\ UNCHANGED <<disk, md5, room, client, frames, posted, shell, outlived, slipped, fault,
                 count>>
\* Lua is loaded from the files as they are now.  The loop of the
\* constructor is told to quit.
Load(t) ==
  /\ fault = "none" /\ thread[t].life = "starting"
  /\ thread' = [thread EXCEPT ![t].life = "serving", ![t].loaded = disk]
  /\ frames' = [i \in DOMAIN frames |->
                  IF i \in Pending(t) /\ frames[i].at = "waiting"
                  THEN [frames[i] EXCEPT !.at = "quitting"] ELSE frames[i]]
  /\ UNCHANGED <<disk, md5, room, client, posted, shell, outlived, slipped, fault, count>>

\* ~RoomThread waits until run() has ended, so Lua is loaded first.  The
\* rooms are children of the thread, and stay in Server.rooms.
DeleteThread(t) ==
  /\ InLoop /\ <<"delete", t>> \in posted
  /\ posted' = posted \ {<<"delete", t>>}
  /\ thread' = [thread EXCEPT ![t] = [NoThread EXCEPT !.life = "freed"]]
  /\ frames' = [i \in DOMAIN frames |->
                  IF i \in Pending(t) THEN [frames[i] EXCEPT !.at = "quitting"]
                  ELSE frames[i]]
  /\ fault' = IF Children(t) # {} THEN "rooms" ELSE fault
  /\ UNCHANGED <<disk, md5, room, client, shell, outlived, slipped, count>>

-----------------------------------------------------------------------------
(* The shell.                                                               *)

\* upgrade, enable, disable: the files change, then refreshMd5 is called.
ChangeFiles(v) ==
  /\ fault = "none" /\ shell = "idle" /\ v # disk /\ count.changes < MaxChanges
  /\ disk' = v /\ shell' = "changed"
  /\ Counted("changes")
  /\ UNCHANGED <<md5, thread, room, client, frames, posted, outlived, slipped, fault>>

\* install, remove: the files change, and that is all.
ChangeQuietly(v) ==
  /\ fault = "none" /\ shell = "idle" /\ v # disk /\ count.changes < MaxChanges
  /\ disk' = v
  /\ Counted("changes")
  /\ UNCHANGED <<md5, thread, room, client, frames, posted, shell, outlived, slipped, fault>>

Recalculate ==
  /\ fault = "none" /\ shell = "changed"
  /\ md5' = disk /\ shell' = "rooms"
  /\ UNCHANGED <<disk, thread, room, client, frames, posted, outlived, slipped, fault, count>>

VisitRooms ==
  /\ fault = "none" /\ shell = "rooms"
  /\ room' = AskRooms(Listed)
  /\ posted' = posted \cup
       {<<"kick", p>> : p \in UNION {room[r].players : r \in
          {r \in Listed : Outdated(room[r].md5) /\ ~room[r].started}}}
  /\ shell' = "threads"
  /\ UNCHANGED <<disk, md5, thread, client, frames, outlived, slipped, fault, count>>

\* Outdated threads without rooms go; refreshMd5 and `stat' do the same.
SweepThreads ==
  /\ thread' = AskThreads(Threads)
  /\ outlived' = outlived \cup {t \in Threads : Alive(t) /\ Outdated(thread[t].md5)}
  /\ posted' = posted \cup
       {<<"delete", t>> : t \in {t \in Threads : /\ Alive(t)
                                                /\ Outdated(thread[t].md5)
                                                /\ Children(t) = {}}}

VisitThreads ==
  /\ fault = "none" /\ shell = "threads"
  /\ SweepThreads /\ shell' = "lobby"
  /\ UNCHANGED <<disk, md5, room, client, frames, slipped, fault, count>>

\* mutant: the lobby is not emptied
KickNobody ==
  /\ fault = "none" /\ shell = "lobby"
  /\ shell' = "idle"
  /\ UNCHANGED <<disk, md5, thread, room, client, frames, posted, outlived, slipped, fault,
                 count>>
KickLobby ==
  /\ fault = "none" /\ shell = "lobby"
  /\ posted' = posted \cup {<<"kick", p>> : p \in {p \in Clients : InLobby(p)}}
  /\ shell' = "idle"
  /\ UNCHANGED <<disk, md5, thread, room, client, frames, outlived, slipped, fault, count>>

\* stat asks every thread for the memory of its Lua; m_scheduler of a thread
\* that is still starting is not initialised.
Stat ==
  /\ fault = "none" /\ shell = "idle"
  /\ SweepThreads
  /\ fault' \in IF \E t \in Threads : thread[t].life = "starting"
                THEN {"none", "getLua"} ELSE {"none"}
  /\ UNCHANGED <<disk, md5, room, client, frames, shell, slipped, count>>

-----------------------------------------------------------------------------
Next ==
  \/ \E p \in Clients :
       \/ CreateRoom(p) \/ Disconnect(p) \/ Kicked(p) \/ QuitRoom(p)
       \/ \E died \in BOOLEAN : RunAway(p, died)
       \/ Login(p) \/ UpdateRoomList(p) \/ StartGame(p)
       \/ \E r \in Rooms : EnterRoom(p, r)
  \/ Place \/ Admit
  \/ \E t \in Threads : NewRoom(t) \/ Load(t) \/ DeleteThread(t)
  \/ \E r \in Rooms : GameOver(r)
  \/ \E v \in Versions : ChangeFiles(v) \/ ChangeQuietly(v)
  \/ Recalculate \/ VisitRooms \/ VisitThreads \/ KickLobby \/ Stat

Spec == Init /\ [][Next]_vars

-----------------------------------------------------------------------------
(* Properties.                                                              *)

\* The values the state can have; a player is in the room he points to.
TypeOK ==
  /\ disk \in Versions /\ md5 \in Versions
  /\ thread \in [Threads ->
       [life : {"none", "starting", "serving", "freed"},
        md5 : Versions \cup {Latched}, loaded : Versions \cup {0},
        requests : SUBSET Rooms]]
  /\ room \in [Rooms ->
       [life : {"none", "live", "freed"}, thread : Threads \cup {0},
        md5 : Versions \cup {Latched}, listed : BOOLEAN,
        players : SUBSET Clients, started : BOOLEAN, inLua : BOOLEAN,
        own : BOOLEAN, midway : BOOLEAN]]
  /\ client \in [Clients -> [at : {"out", "in"}, room : Rooms \cup {Lobby},
                             files : Versions \cup {0}]]
  /\ frames \in Seq([do : {"create", "login"}, owner : Clients,
                     thread : Threads \cup {0},
                     at : {"waiting", "quitting", "placing"}])
  /\ posted \subseteq ({"kick"} \X Clients) \cup ({"delete"} \X Threads)
  /\ shell \in {"idle", "changed", "rooms", "threads", "lobby"}
  /\ outlived \subseteq Threads /\ slipped \subseteq Clients
  /\ fault \in {"none", "createRoom", "rooms", "getLua"}
  /\ \A p \in Clients, r \in Rooms : p \in room[r].players <=> client[p].room = r

\* roomCountPerThread: a thread has at most one room too many, and that one is
\* the room it was made for, which came without asking again after others had
\* filled the thread.
CapacityKept ==
  \A t \in Threads : LET rs == Children(t) IN
    \/ Cardinality(rs) <= RoomsPerThread
    \/ Cardinality(rs) = RoomsPerThread + 1 /\ room[Max(rs)].own

\* Whoever plays in a game has the files its Lua was loaded from, unless he
\* is about to be kicked, moved while the shell was renewing them, ran away dead from an outdated
\* game, or came back to one (Room::startGame, Lobby::enterRoom, refreshMd5).
SameFiles ==
  \A r \in Rooms : \A p \in room[r].players \ slipped :
    room[r].inLua /\ client[p].at = "in" /\ <<"kick", p>> \notin posted
      => client[p].files = thread[room[r].thread].loaded

\* After refreshMd5 who has other files than the server is about to be
\* kicked, plays, or sits in an outdated room, where he can only be kicked.
StaleAreConfined ==
  shell = "idle" => \A p \in Clients \ slipped :
    client[p].at = "in" /\ client[p].files # md5
      => \/ <<"kick", p>> \in posted
         \/ client[p].room # Lobby /\ (InGame(p) \/ Outdated(room[client[p].room].md5))

\* What was found outdated once stays so, although the old MD5 may come back
\* (roomthread.cpp:71): the thread is chosen for no room, nobody enters its
\* rooms and no game starts there.  A room made between the visit of the rooms
\* and that of the threads keeps the old label.
OutdatedForGood ==
  [][\A t \in outlived :
       /\ Pending(t)' \subseteq Pending(t)
       /\ \A r \in Children(t) : ~room[r].midway
            => /\ room'[r].players \subseteq room[r].players
               /\ room'[r].started => room[r].started]_vars

\* No constructor waits for ever: as long as its loop has not been told to
\* quit its thread is still loading Lua, however many of them are nested and
\* whatever was deleted meanwhile.
LoopsQuit ==
  \A i \in DOMAIN frames : frames[i].at = "waiting"
    => thread[frames[i].thread].life = "starting"

\* roomthread.cpp:19: the constructor waits for the scheduler, so that no
\* signal of a player is lost.  Whoever starts a game is heard by Lua.
NoSignalLost ==
  \A r \in Rooms : room[r].life = "live" /\ room[r].started
    => room[r].inLua \/ r \in thread[room[r].thread].requests
=============================================================================
