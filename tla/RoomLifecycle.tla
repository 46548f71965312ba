---------------------------- MODULE RoomLifecycle ----------------------------
(***************************************************************************)
(* Where players are, and when players and rooms are deleted: Server,      *)
(* Lobby, Room, ServerPlayer and AuthManager (src/server/*.cpp) with the   *)
(* part of the room thread that opens and closes games                     *)
(* (lua/server/scheduler.lua, Room:resume of lua/server/room.lua).         *)
(*                                                                         *)
(* A handler of the main thread runs to its end, with everything it calls  *)
(* by direct signal connections: it is one action, written as a function   *)
(* from `server', the heap of the main thread, to the next one.  The room  *)
(* thread works on the same heap in steps of its own (rt); deleteLater and *)
(* queued signals wait in server.posted.                                   *)
(*                                                                         *)
(* A read of a deleted object, or through a null socket, ends the program: *)
(* server.fault says where.  The properties are about what comes before.   *)
(***************************************************************************)
EXTENDS Integers, Sequences, FiniteSets, SequencesExt

CONSTANTS
  Users,       \* accounts
  Rooms,       \* room ids, 1..k
  Capacity,    \* Room.capacity
  MaxObjs,     \* bound: ServerPlayer objects ever made, robots included
  MaxLogins,   \* bound: connections
  MaxDrops,    \* bound: connections lost or given up by the heartbeat
  MaxKicks,    \* bound: players kicked out of a room by another
  MaxGames,    \* bound: games started
  Bot          \* the account of the robots: their ids are negative

ASSUME LifecycleConstants ==
  /\ Cardinality(Rooms) \in Nat /\ Rooms = 1..Cardinality(Rooms)
  /\ Bot \notin Users
  /\ Capacity \in Nat \ {0}
  /\ {MaxObjs, MaxLogins, MaxDrops, MaxKicks, MaxGames} \subseteq Nat

Objs   == 1..MaxObjs
Nobody == 0             \* nullptr
Lobby  == 0

VARIABLES
  server,    \* the objects of the main thread
  rt,        \* what the room thread is doing
  lua,       \* lua[r]: the players of runningRooms[r], {} when there is none
  newrooms,  \* "newroom" requests posted to the room thread
  count      \* how often the bounded things have happened

vars == <<server, rt, lua, newrooms, count>>

\* ServerPlayer.  A socket is "closed" when its connection is gone and the
\* player has not let go of it.
NoObj  == [user |-> Bot, state |-> "Robot", socket |-> "none", room |-> Lobby,
           life |-> "none"]
NoRoom == [players |-> <<>>, observers |-> <<>>, owner |-> Nobody,
           started |-> FALSE, abandoned |-> FALSE, insideGameOver |-> FALSE,
           refs |-> 0, rejected |-> {}, life |-> "none"]
AtRest == [at |-> "idle", room |-> Lobby, players |-> <<>>, to_delete |-> <<>>]

Human(w, o)   == w.obj[o].user # Bot
Online(w, o)  == w.obj[o].state = "Online"
Connected(o)  == server.obj[o].life = "live" /\ server.obj[o].socket = "open"
In(o, r)      == Connected(o) /\ server.obj[o].room = r
FreeObjs      == MaxObjs - server.made
Fault(w, at)  == [w EXCEPT !.fault = IF @ = "none" THEN at ELSE @]
Post(w, what, o) ==
  [w EXCEPT !.posted = Append(@, [do |-> what, of |-> o])]
DeleteLater(w, o) ==    \* one object is deleted once, however often it asks
  IF Contains(w.posted, [do |-> "delete", of |-> o]) THEN w
  ELSE Post(w, "delete", o)
SetState(w, o, s) == [w EXCEPT !.obj[o].state = s]

\* A loop over s, written as a recursive function.
InTurn(f(_, _), w, s) ==
  LET after[i \in 0..Len(s)] == IF i = 0 THEN w ELSE f(after[i - 1], s[i])
  IN after[Len(s)]

Without(s, E) ==        \* s without the members of E
  LET keep(t, e) == IF e \in E THEN t ELSE Append(t, e)
  IN InTurn(keep, <<>>, s)

Init ==
  /\ server = [obj |-> [o \in Objs |-> NoObj], made |-> 0,
               room |-> [r \in Rooms |-> NoRoom], rooms |-> {},
               lobby |-> <<>>, players |-> [u \in Users |-> Nobody],
               posted |-> <<>>, fault |-> "none"]
  /\ rt = AtRest
  /\ lua = [r \in Rooms |-> {}]
  /\ newrooms = <<>>
  /\ count = [logins |-> 0, drops |-> 0, kicks |-> 0, games |-> 0]

-----------------------------------------------------------------------------
(* The functions that the handlers call.                                    *)

New(w, u, state, socket, r) ==
  LET o == w.made + 1 IN
  [w EXCEPT !.made = o,
            !.obj[o] = [user |-> u, state |-> state, socket |-> socket,
                        room |-> r, life |-> "live"]]

LobbyAdd(w, o) ==
  LET w1 == [w EXCEPT !.lobby = Append(@, o), !.obj[o].room = Lobby] IN
  IF w.obj[o].state = "Robot"
  THEN DeleteLater([w1 EXCEPT !.lobby = RemoveFirst(@, o)], o)
  ELSE w1

LobbyRemove(w, o) == [w EXCEPT !.lobby = RemoveFirst(@, o)]

RemoveObserver(w, r, o) ==
  LobbyAdd([w EXCEPT !.room[r].observers = RemoveFirst(@, o)], o)

OnDisconnected(w, o) ==
  LET r == w.obj[o].room IN
  IF r = Lobby THEN DeleteLater(SetState(w, o, "Robot"), o)
  ELSE IF w.room[r].started
       THEN IF Contains(w.room[r].observers, o)
            THEN DeleteLater(RemoveObserver(w, r, o), o)
            ELSE [w EXCEPT !.obj[o].state = "Offline", !.obj[o].socket = "none"]
       ELSE IF w.room[r].insideGameOver THEN SetState(w, o, "Robot")
            ELSE DeleteLater(SetState(w, o, "Robot"), o)

\* disconnectFromHost emits `disconnected' at once if nothing is left to be
\* written; otherwise setSocket(nullptr) cuts the signal off.
Kick(w, o, flushed) ==
  LET w1 == SetState(w, o, "Offline")
      w2 == IF w.obj[o].socket = "none" \/ (w.obj[o].socket = "open" /\ flushed)
            THEN OnDisconnected(w1, o) ELSE w1
  IN [w2 EXCEPT !.obj[o].socket = "none"]

Reconnect(w, o, flushed) ==
  LET w1 == [w EXCEPT !.obj[o].state = "Online", !.obj[o].socket = "open"] IN
  IF w.obj[o].room = Lobby THEN Kick(w1, o, flushed) ELSE w1

AddPlayer(w, r, o) ==
  LET R == w.room[r] IN
  IF w.obj[o].user \in R.rejected \/ Len(R.players) = Capacity \/ R.started
  THEN w
  ELSE LET w1 == [w EXCEPT !.room[r].players = Append(@, o), !.obj[o].room = r]
           w2 == IF Human(w, o) THEN LobbyRemove(w1, o) ELSE w1
       IN IF R.owner # Nobody /\ w.obj[R.owner].life = "freed"
          THEN Fault(w2, "owner") ELSE w2

\* A player who leaves a running game stays in it as "Run"; a new object
\* takes his connection to the lobby, and is banned unless he was dead.
RunAway(w, r, o, died, flushed) ==
  IF w.obj[o].socket = "none" THEN Fault(w, "removeSocket")
  ELSE IF w.made = MaxObjs THEN Fault(w, "bound")
  ELSE LET u  == w.obj[o].user
           n  == w.made + 1
           w1 == New([w EXCEPT !.obj[o].state = "Run", !.obj[o].socket = "none"],
                     u, "Online", w.obj[o].socket, r)
           w2 == LobbyAdd([w1 EXCEPT !.players[u] = n], n)
       IN IF died THEN w2 ELSE Kick(w2, n, flushed)

IsAbandoned(w, r) == \A o \in ToSet(w.room[r].players) : ~Online(w, o)

\* The signal abandoned, and RoomThread::onRoomAbandoned.
Abandon(w, r) ==
  LET w1 == [w EXCEPT !.room[r].abandoned = TRUE, !.room[r].owner = Nobody] IN
  IF w.room[r].abandoned THEN w1
  ELSE LET w2 == [w1 EXCEPT !.rooms = @ \ {r}] IN
       IF w.room[r].refs = 0 THEN Post(w2, "deleteRoom", r) ELSE w2

\* mutant: the owner is kept when he leaves
LeaveOwner(w, r, o, died, flushed) ==
  IF Contains(w.room[r].observers, o) THEN RemoveObserver(w, r, o)
  ELSE LET w1 == IF w.room[r].started THEN RunAway(w, r, o, died, flushed)
                 ELSE LobbyAdd([w EXCEPT !.room[r].players = RemoveFirst(@, o)], o)
       IN IF IsAbandoned(w1, r) THEN Abandon(w1, r) ELSE w1

\* Room::removePlayer
Leave(w, r, o, died, flushed) ==
  IF Contains(w.room[r].observers, o) THEN RemoveObserver(w, r, o)
  ELSE LET w1 == IF w.room[r].started THEN RunAway(w, r, o, died, flushed)
                 ELSE LobbyAdd([w EXCEPT !.room[r].players = RemoveFirst(@, o)], o)
       IN IF IsAbandoned(w1, r) THEN Abandon(w1, r)
          ELSE IF o = w1.room[r].owner
               THEN [w1 EXCEPT !.room[r].owner = Head(w1.room[r].players)]
               ELSE w1

\* Leaving wherever one is, for the destructor of ServerPlayer.
Exit(w, o) ==
  LET r == w.obj[o].room IN
  IF r = Lobby THEN LobbyRemove(w, o)
  ELSE IF w.room[r].life = "freed" THEN Fault(w, "room")
       ELSE Leave(w, r, o, FALSE, FALSE)

\* What every destructor of a player ends with: nothing posted for it is
\* served any more, and its socket goes with it.
Freed(w, S) ==
  [w EXCEPT !.obj = [o \in Objs |-> IF o \in S
                       THEN [NoObj EXCEPT !.user = w.obj[o].user, !.life = "freed"]
                       ELSE @[o]],
            !.posted = Without(@, [do : {"kick", "delete"}, of : S])]

\* A robot's room has connected `destroyed' to its list of players.
Unlisted(w, o) ==
  [w EXCEPT !.room = [r \in Rooms |->
     [w.room[r] EXCEPT !.players = RemoveFirst(@, o)]]]

\* mutant: the account is removed whoever holds it now
DestroyAccount(w, o) ==
  LET w1 == IF Human(w, o)
            THEN [Exit(Exit(w, o), o) EXCEPT !.players[w.obj[o].user] = Nobody]
            ELSE Unlisted(w, o)
  IN Freed(w1, {o})

\* mutant: removePlayer is called once, as one would think is enough
DestroyOnce(w, o) ==
  LET w1 == IF Human(w, o) THEN Exit(w, o)
            ELSE Unlisted(w, o)
      w2 == IF Human(w, o) /\ w.players[w.obj[o].user] = o
            THEN [w1 EXCEPT !.players[w.obj[o].user] = Nobody] ELSE w1
  IN Freed(w2, {o})

\* ~ServerPlayer.  A human leaves the room, which puts him into the lobby, and
\* then the lobby.
Destroy(w, o) ==
  LET w1 == IF Human(w, o) THEN Exit(Exit(w, o), o)
            ELSE Unlisted(w, o)
      w2 == IF Human(w, o) /\ w.players[w.obj[o].user] = o
            THEN [w1 EXCEPT !.players[w.obj[o].user] = Nobody] ELSE w1
  IN Freed(w2, {o})

\* Server::temporarilyBan: the account is kicked, whoever holds it now.
Banned(w, o) == Human(w, o) /\ w.obj[o].state = "Offline"
                            /\ w.players[w.obj[o].user] # Nobody

\* The loops of ~Room.  gameOver runs here in the main thread, so that kicks
\* are direct.
Dismiss(w, s) ==
  LET end(v, o) == LET v1 == IF Banned(v, o)
                             THEN Kick(v, v.players[v.obj[o].user], FALSE) ELSE v
                   IN IF v.obj[o].state # "Online" THEN DeleteLater(v1, o) ELSE v1
  IN InTurn(end, w, s)
TurnOut(w, r, s) ==
  LET out(v, o) == IF Human(v, o) THEN Leave(v, r, o, FALSE, FALSE) ELSE v
  IN InTurn(out, w, s)
LetGo(w, r, s) ==
  LET quit(v, o) == RemoveObserver(v, r, o) IN InTurn(quit, w, s)
DeleteAll(w, s) == InTurn(DeleteLater, w, s)

Ended(w, r) == [w EXCEPT !.room[r].insideGameOver = TRUE, !.room[r].started = FALSE]

\* ~Room.
DestroyRoom(w, r) ==
  LET S  == w.room[r].players
      w1 == IF ~w.room[r].started THEN w
            ELSE [Dismiss(Ended(w, r), S) EXCEPT !.room[r].insideGameOver = FALSE]
      w2 == LetGo(TurnOut(w1, r, S), r, w.room[r].observers)
      bots == {o \in Objs : ~Human(w, o) /\ w.obj[o].room = r}
      w3 == Freed(w2, bots)
  IN [w3 EXCEPT !.room[r] = [NoRoom EXCEPT !.refs = w.room[r].refs,
                                           !.abandoned = TRUE, !.life = "freed"],
                !.posted = Without(@, {[do |-> "deleteRoom", of |-> r]})]

-----------------------------------------------------------------------------
(* The main thread.                                                         *)

Running == server.fault = "none"

Main(w) == server' = w /\ UNCHANGED <<rt, lua>>

\* Server::processRequest, when the account has no player yet.
Admit(w, u) ==
  LET n == w.made + 1
  IN LobbyAdd([New(w, u, "Online", "open", Lobby) EXCEPT !.players[u] = n], n)

\* AuthManager::checkPassword; who gives a wrong name or password changes nothing.
Login(u, flushed) ==
  /\ Running /\ count.logins < MaxLogins
  /\ count' = [count EXCEPT !.logins = @ + 1]
  /\ UNCHANGED newrooms
  /\ LET o  == server.players[u]
         w1 == IF server.obj[o].state \in {"Online", "Robot"}
               THEN Kick(server, o, flushed) ELSE server
     IN IF o = Nobody
        THEN FreeObjs > 0 /\ Main(Admit(server, u))
        ELSE Main(IF w1.obj[o].state = "Offline" THEN Reconnect(w1, o, flushed)
                  ELSE w1)

Disconnect(o) ==
  /\ Running /\ Connected(o) /\ count.drops < MaxDrops
  /\ LET w == OnDisconnected(server, o) IN
       Main(IF w.obj[o].socket = "open" THEN [w EXCEPT !.obj[o].socket = "closed"]
            ELSE w)
  /\ count' = [count EXCEPT !.drops = @ + 1] /\ UNCHANGED newrooms

CreateRoom(o) ==
  /\ Running /\ In(o, Lobby)
  /\ \E r \in Rooms :
       /\ server.room[r].life = "none"
       /\ \A q \in Rooms : q < r => server.room[q].life # "none"
       /\ LET w1 == [server EXCEPT !.room[r].life = "live", !.rooms = @ \cup {r}]
              w2 == AddPlayer(w1, r, o)
          IN Main([w2 EXCEPT !.room[r].owner = o])
  /\ UNCHANGED <<newrooms, count>>

EnterRoom(o, r) ==
  /\ Running /\ In(o, Lobby) /\ r \in server.rooms
  /\ Main(AddPlayer(server, r, o)) /\ UNCHANGED <<newrooms, count>>

ObserveRoom(o, r) ==
  /\ Running /\ In(o, Lobby) /\ r \in server.rooms
  /\ server.room[r].started
  /\ server.obj[o].user \notin server.room[r].rejected
  /\ Main([LobbyRemove(server, o) EXCEPT !.room[r].observers = Append(@, o),
                                         !.obj[o].room = r])
  /\ UNCHANGED <<newrooms, count>>

QuitRoom(o, r, died, flushed) ==
  /\ Running /\ In(o, r)
  /\ IF server.room[r].started THEN FreeObjs > 0 ELSE ~died /\ ~flushed
  /\ Main(Leave(server, r, o, died, flushed))
  /\ UNCHANGED <<newrooms, count>>

AddRobot(o, r) ==
  /\ Running /\ In(o, r) /\ o = server.room[r].owner
  /\ Len(server.room[r].players) # Capacity
  /\ FreeObjs > 0
  /\ Main(AddPlayer(New(server, Bot, "Robot", "none", r), r, server.made + 1))
  /\ UNCHANGED <<newrooms, count>>

\* RoomBase::findPlayer: the first with that id; each robot has its own.
FirstLike(s, p) ==
  Head(SelectSeq(s, LAMBDA q : q = p \/ ( Human(server, p)
                                        /\ server.obj[q].user = server.obj[p].user)))

\* Anybody in the room may send KickPlayer.
KickPlayer(o, r, p) ==
  /\ Running /\ In(o, r) /\ ~server.room[r].started /\ count.kicks < MaxKicks
  /\ Contains(server.room[r].players, p) /\ p = FirstLike(server.room[r].players, p)
  /\ Main([Leave(server, r, p, FALSE, FALSE)
             EXCEPT !.room[r].rejected = @ \cup ({server.obj[p].user} \ {Bot})])
  /\ count' = [count EXCEPT !.kicks = @ + 1] /\ UNCHANGED newrooms

RemoveRejectId(r, u) ==
  /\ Running /\ server.room[r].life = "live" /\ u \in server.room[r].rejected
  /\ Main([server EXCEPT !.room[r].rejected = @ \ {u}])
  /\ UNCHANGED <<newrooms, count>>

StartGame(o, r) ==
  /\ Running /\ In(o, r) /\ count.games < MaxGames
  /\ Len(server.room[r].players) = Capacity /\ ~server.room[r].started
  /\ Main([server EXCEPT !.room[r].started = TRUE])
  /\ newrooms' = Append(newrooms, r)
  /\ count' = [count EXCEPT !.games = @ + 1]

\* The heartbeat thread emits kicked for a player who is online and silent.
Heartbeat(o) ==
  /\ Running /\ o \in {server.players[u] : u \in Users} \ {Nobody}
  /\ Online(server, o) /\ count.drops < MaxDrops
  /\ Main(Post(server, "kick", o))
  /\ count' = [count EXCEPT !.drops = @ + 1] /\ UNCHANGED newrooms

\* The event loop serves what was posted: signals from other threads and
\* deleteLater.
Serve(flushed) ==
  /\ Running /\ server.posted # <<>>
  /\ LET e == Head(server.posted)
         w == [server EXCEPT !.posted = Tail(@)]
     IN /\ flushed => e.do = "kick"
        /\ Main(CASE e.do = "kick"       -> Kick(w, e.of, flushed)
                  [] e.do = "delete"     -> Destroy(w, e.of)
                  [] e.do = "deleteRoom" -> DestroyRoom(w, e.of))
  /\ UNCHANGED <<newrooms, count>>

-----------------------------------------------------------------------------
(* The room thread: HandleRequest "newroom", ResumeRoom, Room:gameOver.     *)

Game(w, pc) == server' = w /\ rt' = pc /\ UNCHANGED count

\* registerRoom finds the room, makes a Lua object of it, and only then takes
\* its reference; Room:run copies the players when it is first resumed.
FindRoom ==
  /\ Running /\ rt.at = "idle" /\ newrooms # <<>>
  /\ newrooms' = Tail(newrooms)
  /\ rt' = IF Head(newrooms) \in server.rooms
           THEN [AtRest EXCEPT !.at = "register", !.room = Head(newrooms)] ELSE rt
  /\ UNCHANGED <<server, lua, count>>

RegisterRoom ==
  /\ Running /\ rt.at = "register"
  /\ LET r == rt.room IN
       IF server.room[r].life = "freed"
       THEN Game(Fault(server, "register"), AtRest) /\ UNCHANGED lua
       ELSE /\ Game([server EXCEPT !.room[r].refs = @ + 1], AtRest)
            /\ lua' = [lua EXCEPT ![r] = ToSet(server.room[r].players)]
  /\ UNCHANGED newrooms

NoHuman(r) == \A o \in lua[r] : ~Online(server, o)

\* The game may be over whenever the room is resumed; it is over when nobody
\* is online.  Until Room::gameOver it goes on as RoomRequest.tla says.
GameOver(r) ==
  /\ Running /\ rt.at = "idle" /\ lua[r] # {}
  /\ LET R == server.room[r] IN
     IF R.life = "freed" \/ \E o \in lua[r] : server.obj[o].life = "freed"
     THEN Game(Fault(server, "lua"), rt)
     ELSE IF ~R.started THEN Game(server, [AtRest EXCEPT !.at = "close", !.room = r])
     ELSE Game(Ended(server, r),
               [AtRest EXCEPT !.at = "scan", !.room = r, !.players = R.players])
  /\ UNCHANGED <<lua, newrooms>>

RoomFreed == server.room[rt.room].life = "freed"

Scan ==
  /\ Running /\ rt.at = "scan" /\ rt.players # <<>>
  /\ LET o == Head(rt.players)
         w == IF Banned(server, o)
              THEN Post(server, "kick", server.players[server.obj[o].user])
              ELSE server
     IN IF RoomFreed \/ server.obj[o].life = "freed"
        THEN Game(Fault(server, "scan"), rt)
        ELSE Game(w, [rt EXCEPT !.players = Tail(@),
                                !.to_delete = IF Online(server, o) THEN @
                                              ELSE Append(@, o)])
  /\ UNCHANGED <<lua, newrooms>>

DeleteScanned ==
  /\ Running /\ rt.at = "scan" /\ rt.players = <<>>
  /\ IF RoomFreed \/ \E o \in ToSet(rt.to_delete) : server.obj[o].life = "freed"
     THEN Game(Fault(server, "scan"), rt)
     ELSE Game([DeleteAll(server, rt.to_delete)
                  EXCEPT !.room[rt.room].insideGameOver = FALSE],
               [AtRest EXCEPT !.at = "close", !.room = rt.room])
  /\ UNCHANGED <<lua, newrooms>>

\* mutant: the reference is kept
CloseKeepsRef ==
  /\ Running /\ rt.at = "close"
  /\ Game(server, AtRest)
  /\ lua' = [lua EXCEPT ![rt.room] = {}] /\ UNCHANGED newrooms

\* mutant: the last reference does not delete the room
CloseNoDelete ==
  /\ Running /\ rt.at = "close"
  /\ Game([server EXCEPT !.room[rt.room].refs = @ - 1], AtRest)
  /\ lua' = [lua EXCEPT ![rt.room] = {}] /\ UNCHANGED newrooms

CloseRoom ==
  /\ Running /\ rt.at = "close"
  /\ LET r == rt.room
         w == [server EXCEPT !.room[r].refs = @ - 1]
     IN Game(IF RoomFreed THEN Fault(server, "close")
             ELSE IF w.room[r].refs = 0 /\ w.room[r].abandoned
             THEN Post(w, "deleteRoom", r) ELSE w, AtRest)
  /\ lua' = [lua EXCEPT ![rt.room] = {}] /\ UNCHANGED newrooms

Next ==
  \/ \E u \in Users, b \in BOOLEAN : Login(u, b)
  \/ \E o \in Objs : Disconnect(o) \/ CreateRoom(o) \/ Heartbeat(o)
  \/ \E o \in Objs, r \in Rooms :
       \/ EnterRoom(o, r) \/ ObserveRoom(o, r) \/ AddRobot(o, r) \/ StartGame(o, r)
       \/ \E died, b \in BOOLEAN : QuitRoom(o, r, died, b)
       \/ \E p \in Objs : KickPlayer(o, r, p)
  \/ \E r \in Rooms, u \in Users : RemoveRejectId(r, u)
  \/ \E b \in BOOLEAN : Serve(b)
  \/ FindRoom \/ RegisterRoom \/ Scan \/ DeleteScanned \/ CloseRoom
  \/ \E r \in Rooms : GameOver(r)

Spec == Init /\ [][Next]_vars

-----------------------------------------------------------------------------
\* Every part of the state has its type; a room has one reference while the
\* room thread keeps a Lua room for it, else none; only live rooms can be found.
TypeOK ==
  /\ server.made \in 0..MaxObjs
  /\ server.obj \in [Objs -> [user : Users \cup {Bot},
                              state : {"Online", "Offline", "Robot", "Run"},
                              socket : {"none", "open", "closed"},
                              room : Rooms \cup {Lobby},
                              life : {"none", "live", "freed"}]]
  /\ Running => \A r \in Rooms : server.room[r].refs = IF lua[r] = {} THEN 0 ELSE 1
  /\ server.rooms \subseteq {r \in Rooms : server.room[r].life = "live"}
  /\ server.players \in [Users -> Objs \cup {Nobody}]

Times(s, o) == Cardinality({i \in DOMAIN s : s[i] = o})
Present(o, r) == Times(server.room[r].players, o) + Times(server.room[r].observers, o)
Doomed(o)   == Contains(server.posted, [do |-> "delete", of |-> o])

\* A player is where his `room' says, and only there: in the lobby, or in a
\* room that still exists, as player or observer; somebody who is about to be
\* deleted may already be missing from the lobby.  Who is deleted is in no
\* list any more.  (removePlayer, addPlayer, the signals playerAdded and
\* playerRemoved, and both destructors.)
InOnePlace ==
  Running =>
  \A o \in Objs :
    LET at == server.obj[o].room IN
    /\ server.obj[o].life = "freed" =>
         /\ Times(server.lobby, o) = 0
         /\ \A r \in Rooms : Present(o, r) = 0
    /\ server.obj[o].life = "live" /\ Human(server, o) =>
         /\ \/ Times(server.lobby, o) = IF at = Lobby THEN 1 ELSE 0
            \/ Times(server.lobby, o) = 0 /\ Doomed(o)
         /\ \A r \in Rooms : Present(o, r) = IF at = r THEN 1 ELSE 0
         /\ at # Lobby => server.room[at].life = "live"

\* An account has at most one connected player, the one Server::findPlayer
\* returns; and findPlayer returns nobody who was deleted.  (Duplicate logins,
\* runners, reconnections and ~ServerPlayer.)
OneSession ==
  Running =>
  /\ \A o \in Objs : Connected(o) => server.players[server.obj[o].user] = o
  /\ \A u \in Users : server.players[u] # Nobody =>
       server.obj[server.players[u]].life = "live"

\* An abandoned room is not forgotten: when nothing is left to be served and
\* the room thread is through with it, it has been deleted.
\* (onRoomAbandoned and decreaseRefCount, each of which may leave it to the
\* other.)
AbandonedIsFreed ==
  Running /\ server.posted = <<>> /\ newrooms = <<>> /\ rt.at = "idle" =>
  \A r \in Rooms : server.room[r].abandoned /\ lua[r] = {} =>
    server.room[r].life = "freed"

\* The owner of a room is one of its players, unless a robot inherited the
\* room and was deleted after a game.  (removePlayer, setOwner.)
OwnerPresent ==
  Running =>
  \A r \in Rooms :
    LET o == server.room[r].owner IN
    server.room[r].life = "live" /\ o # Nobody =>
      \/ Contains(server.room[r].players, o)
      \/ server.obj[o].life = "freed" /\ ~Human(server, o)

\* "When the room is abandoned it must not be deleted as long as Lua has a
\* count" (src/server/room.h:105).  Refuted: registerRoom takes its
\* reference after the room may have been given up.
RoomKept ==
  Running => \A r \in Rooms :
    server.room[r].refs > 0 => server.room[r].life = "live"

\* Room::gameOver cleans up "all players whose state is not online"
\* (src/server/room.cpp:489).  Refuted: who comes back between the scan
\* and deleteLater is deleted.
CleansTheAbsent ==
  Running /\ rt.at = "scan" /\ rt.players = <<>> =>
    \A o \in ToSet(rt.to_delete) : ~Online(server, o)
=============================================================================
