--------------------------- MODULE RoomThreadsProofs ---------------------------
(***************************************************************************)
(* Theorems about RoomThreads, for any number of clients, threads, rooms   *)
(* and versions, and however deep constructors are nested: types, the      *)
(* capacity of threads, that no constructor waits for ever, and that the   *)
(* renewal of the files sets apart those who still have the old ones.      *)
(***************************************************************************)
EXTENDS RoomThreads, FiniteSetTheorems, SequenceTheorems, WellFoundedInduction, TLAPS

Labels     == Versions \cup {Latched}
ThreadType == [life : {"none", "starting", "serving", "freed"}, md5 : Labels,
               loaded : Versions \cup {0}, requests : SUBSET Rooms]
RoomType   == [life : {"none", "live", "freed"}, thread : Threads \cup {0}, md5 : Labels,
               listed : BOOLEAN, players : SUBSET Clients, started : BOOLEAN,
               inLua : BOOLEAN, own : BOOLEAN, midway : BOOLEAN]
ClientType == [at : {"out", "in"}, room : Rooms \cup {Lobby}, files : Versions \cup {0}]
FrameType  == [do : {"create", "login"}, owner : Clients, thread : Threads \cup {0},
               at : {"waiting", "quitting", "placing"}]
CountType  == [threads : Nat, rooms : Nat, changes : Nat, logins : Nat, games : Nat]
PostType   == ({"kick"} \X Clients) \cup ({"delete"} \X Threads)

-----------------------------------------------------------------------------
(* The invariant.                                                           *)

World == /\ disk \in Versions /\ md5 \in Versions /\ posted \subseteq PostType
         /\ shell \in {"idle", "changed", "rooms", "threads", "lobby"}
         /\ outlived \subseteq Threads /\ slipped \subseteq Clients
         /\ fault \in {"none", "createRoom", "rooms", "getLua"}
Numbers == count \in CountType /\ count.threads <= MaxThreads
Typed == /\ World /\ Numbers
         /\ thread \in [Threads -> ThreadType] /\ room \in [Rooms -> RoomType]
         /\ client \in [Clients -> ClientType] /\ frames \in Seq(FrameType)
Seated == \A p \in Clients, r \in Rooms : p \in room[r].players <=> client[p].room = r
\* What was not made yet is not there.
Unmade == /\ \A r \in Rooms : r > count.rooms => room[r] = NoRoom
          /\ \A t \in Threads : t > count.threads => thread[t].life \in {"none", "freed"}
          /\ \A r \in Rooms : room[r].life = "live" => room[r].thread \in 1..count.threads

Size(t) == Cardinality(Children(t))
Few(t)  == Size(t) <= RoomsPerThread
Own(t)  == \E r \in Children(t) : room[r].own /\ \A q \in Children(t) : q <= r
\* An unfinished handler: only the last one is about to place a room without
\* having been through a constructor, and its thread has a place left; a thread
\* that was made for a handler has no room too many until that one is placed.
FrameOK(i) ==
  LET f == frames[i] IN
  /\ f.at = "placing" => i = Len(frames)
  /\ f.do = "login" => f.at = "placing"
  /\ f.do = "create" => f.thread \in 1..count.threads /\ count.rooms + i <= MaxRooms
  /\ f.at = "waiting" => thread[f.thread].life = "starting"
  /\ f.at # "placing" =>
       /\ Few(f.thread)
       /\ \A j \in 1..Len(frames) : j # i /\ frames[j].at # "placing" => frames[j].thread # f.thread
  /\ f.do = "create" /\ f.at = "placing" => Size(f.thread) < RoomsPerThread
Framed == \A i \in 1..Len(frames) : FrameOK(i)
Full   == \A t \in Threads : Few(t) \/ (Size(t) = RoomsPerThread + 1 /\ Own(t))

Inv == Typed /\ Seated /\ Unmade /\ Framed /\ Full

-----------------------------------------------------------------------------
(* Constants, sets and sequences.                                           *)

LEMMA Consts == /\ 1 \in Versions /\ Latched \notin Rooms /\ Lobby \notin Rooms /\ 0 \notin Threads
                /\ RoomsPerThread \in Nat /\ RoomsPerThread >= 1
                /\ MaxThreads \in Nat /\ MaxRooms \in Nat
                /\ Threads \subseteq Nat /\ Rooms \subseteq Nat
<1>1. RoomsPerThread \in Nat \ {0} /\ MaxThreads \in Nat /\ MaxRooms \in Nat /\ 1 \in Versions
  BY PoolConstants
<1> QED
  BY <1>1 DEF Latched, Lobby, Rooms, Threads

LEMMA MinIn == ASSUME NEW S \in SUBSET Nat, S # {} PROVE Min(S) \in S
<1> DEFINE R == OpToRel(<, Nat)
<1>1. IsWellFoundedOn(R, Nat)
  BY NatLessThanWellFounded
<1>2. \A x, y \in Nat : y < x => <<y, x>> \in R
  BY DEF OpToRel
<1> HIDE DEF R
<1>3. PICK x \in S : \A y \in S : ~ (<<y, x>> \in R)
  BY <1>1, WFMin
<1>4. ASSUME NEW y \in S PROVE x =< y
  <2>1. x \in Nat /\ y \in Nat
    BY <1>4
  <2>2. ~ (y < x)
    BY <1>2, <1>3, <1>4, <2>1, Zenon
  <2> QED
    BY <2>1, <2>2
<1> QED
  BY <1>4 DEF Min

LEMMA MaxIs == ASSUME NEW S \in SUBSET Nat, NEW x \in S, \A y \in S : y <= x PROVE Max(S) = x
<1> DEFINE Top(z) == z \in S /\ \A y \in S : z >= y
<1>1. Top(x)
  OBVIOUS
<1>2. Max(S) = CHOOSE z : Top(z)
  BY DEF Max
<1>3. Top(CHOOSE z : Top(z))
  BY <1>1
<1>4. Top(Max(S))
  BY <1>2, <1>3
<1>5. Max(S) >= x /\ x >= Max(S) /\ x \in Nat /\ Max(S) \in Nat
  BY <1>1, <1>4
<1> QED
  BY <1>5

LEMMA FrontLast ==
  ASSUME NEW S, NEW s \in Seq(S), s # <<>>
  PROVE  /\ Front(s) \in Seq(S) /\ Len(Front(s)) = Len(s) - 1
         /\ \A i \in 1..Len(s) - 1 : Front(s)[i] = s[i]
         /\ Len(s) \in Nat \ {0} /\ Last(s) = s[Len(s)] /\ Last(s) \in S
<1>1. Len(s) \in Nat \ {0}
  BY EmptySeq
<1>2. SubSeq(s, 1, Len(s) - 1) \in Seq(S) /\ Len(SubSeq(s, 1, Len(s) - 1)) = Len(s) - 1
      /\ \A i \in 1..Len(s) - 1 : SubSeq(s, 1, Len(s) - 1)[i] = s[i]
  <2> DEFINE n == Len(s) - 1
  <2>1. 1 \in Int /\ n \in Int /\ n >= 0
    BY <1>1
  <2>2. \A i \in 1..n : s[i] \in S
    BY <1>1, ElementOfSeq
  <2> HIDE DEF n
  <2>3. /\ SubSeq(s, 1, n) \in Seq(S)
        /\ Len(SubSeq(s, 1, n)) = IF 1 <= n THEN n - 1 + 1 ELSE 0
        /\ \A i \in 1..n - 1 + 1 : SubSeq(s, 1, n)[i] = s[1 + i - 1]
    BY <2>1, <2>2, SubSeqProperties
  <2>4. SubSeq(s, 1, n) \in Seq(S) /\ Len(SubSeq(s, 1, n)) = n
        /\ \A i \in 1..n : SubSeq(s, 1, n)[i] = s[i]
    BY <2>1, <2>3
  <2> QED
    BY <2>4 DEF n
<1>3. s[Len(s)] \in S
  BY <1>1, ElementOfSeq
<1> QED
  BY <1>1, <1>2, <1>3 DEF Front, Last

\* The children of a thread are finitely many numbers.
LEMMA Finite == \A t : /\ IsFiniteSet(Children(t)) /\ Size(t) \in Nat /\ Children(t) \subseteq Nat
                       /\ IsFiniteSet(Children(t)') /\ Size(t)' \in Nat
<1>1. IsFiniteSet(Rooms)
  BY Consts, FS_Interval DEF Rooms
<1> QED
  BY <1>1, Consts, FS_Subset, FS_CardinalityType DEF Children, Size

-----------------------------------------------------------------------------
(* Steps that make no rooms, no threads and no frames.                      *)

Mild == \A r \in Rooms :
          /\ room'[r].life = "live" => /\ room[r].life = "live" /\ room'[r].own = room[r].own
                                       /\ room'[r].thread = room[r].thread
          /\ room[r] = NoRoom => room'[r] = NoRoom

LEMMA Shrink ==
  ASSUME Mild, NEW t
  PROVE  /\ Children(t)' \subseteq Children(t) /\ Size(t)' <= Size(t)
         /\ Size(t)' = Size(t) /\ Own(t) => Own(t)'
<1>1. Children(t)' \subseteq Children(t) /\ \A r \in Children(t)' : room'[r].own = room[r].own
  BY DEF Mild, Children
<1>2. Size(t)' <= Size(t) /\ (Size(t)' = Size(t) => Children(t)' = Children(t))
  BY <1>1, Finite, FS_Subset DEF Size
<1>3. Children(t)' = Children(t) /\ Own(t) => Own(t)'
  BY <1>1 DEF Own
<1> QED
  BY <1>1, <1>2, <1>3

LEMMA MildFull == ASSUME Full, Mild PROVE Full'
<1> SUFFICES ASSUME NEW t \in Threads PROVE Few(t)' \/ (Size(t)' = RoomsPerThread + 1 /\ Own(t)')
  BY DEF Full
<1>1. Size(t) \in Nat /\ Size(t)' \in Nat
  BY Finite
<1>2. Few(t) \/ (Size(t) = RoomsPerThread + 1 /\ Own(t))
  BY DEF Full
<1>3. Size(t)' <= Size(t) /\ (Size(t)' = Size(t) /\ Own(t) => Own(t)')
  BY Shrink
<1>4. RoomsPerThread \in Nat
  BY Consts
<1>5. Few(t)' <=> Size(t)' <= RoomsPerThread
  BY DEF Few
<1> QED
  BY <1>1, <1>2, <1>3, <1>4, <1>5 DEF Few

LEMMA MildStep ==
  ASSUME Inv, Typed', Seated', Mild, frames' = frames,
         count'.rooms = count.rooms, count'.threads = count.threads,
         \A t \in Threads : thread'[t].life = thread[t].life
  PROVE  Inv'
<1>1. Unmade'
  BY DEF Inv, Unmade, Mild
<1>2. Framed'
  <2> SUFFICES ASSUME NEW i \in 1..Len(frames) PROVE FrameOK(i)'
    BY DEF Framed
  <2>1. FrameOK(i) /\ frames[i] \in FrameType
    BY ElementOfSeq DEF Inv, Framed, Typed
  <2>2. \A t : Size(t)' <= Size(t) /\ Size(t)' \in Nat /\ Size(t) \in Nat
    BY Shrink, Finite
  <2>3. frames[i].do = "create" => frames[i].thread \in Threads
    <3>1. frames[i].do = "create" => frames[i].thread \in 1..count.threads
      BY <2>1 DEF FrameOK
    <3>2. count.threads \in Nat /\ count.threads <= MaxThreads /\ MaxThreads \in Nat
      BY Consts DEF Inv, Typed, Numbers, CountType
    <3> QED
      BY <3>1, <3>2 DEF Threads
  <2>4. frames[i].at = "waiting" => frames[i].do = "create"
    BY <2>1 DEF FrameOK, FrameType
  <2> QED
    BY <2>1, <2>2, <2>3, <2>4, Consts DEF FrameOK, Few
<1> QED
  BY <1>1, <1>2, MildFull DEF Inv

\* A step that leaves the rooms alone.
LEMMA CalmStep ==
  ASSUME Inv, World', Numbers', thread' \in [Threads -> ThreadType],
         UNCHANGED <<room, client, frames>>,
         count'.rooms = count.rooms, count'.threads = count.threads,
         \A t \in Threads : thread'[t].life = thread[t].life
  PROVE  Inv'
<1>1. Typed' /\ Seated' /\ Mild
  BY DEF Inv, Typed, Seated, Mild
<1> QED
  BY <1>1, MildStep

\* A step of rooms and clients.
LEMMA SeatStep ==
  ASSUME Inv, World', room' \in [Rooms -> RoomType], client' \in [Clients -> ClientType],
         Seated', Mild, UNCHANGED <<thread, frames, count>>
  PROVE  Inv'
<1>1. Typed'
  BY DEF Inv, Typed, Numbers
<1> QED
  BY <1>1, MildStep

LEMMA LatchType == ASSUME NEW x \in Labels PROVE Latch(x) \in Labels
  BY DEF Latch, Labels

LEMMA AskedRooms ==
  ASSUME Typed, Seated, NEW rs, room' = AskRooms(rs), client' = client
  PROVE  room' \in [Rooms -> RoomType] /\ Seated' /\ Mild
<1>1. ASSUME NEW r \in Rooms
      PROVE  /\ room'[r] \in RoomType /\ room'[r].players = room[r].players
             /\ room'[r].life = room[r].life /\ room'[r].own = room[r].own
             /\ room'[r].thread = room[r].thread /\ (room[r] = NoRoom => room'[r] = NoRoom)
  <2>1. room'[r] = IF r \in rs /\ room[r].listed THEN [room[r] EXCEPT !.md5 = Latch(@)] ELSE room[r]
    BY DEF AskRooms
  <2>2. room[r] \in RoomType
    BY DEF Typed
  <2>3. Latch(room[r].md5) \in Labels
    BY <2>2, LatchType DEF RoomType
  <2>4. CASE r \in rs /\ room[r].listed
    <3>1. room'[r] = [room[r] EXCEPT !.md5 = Latch(room[r].md5)] /\ room[r] # NoRoom
      BY <2>1, <2>4 DEF NoRoom
    <3> QED
      BY <2>2, <2>3, <3>1 DEF RoomType
  <2>5. CASE ~(r \in rs /\ room[r].listed)
    BY <2>1, <2>2, <2>5
  <2> QED
    BY <2>4, <2>5
<1>2. room' = [r \in Rooms |-> room'[r]]
  BY DEF AskRooms
<1> QED
  BY <1>1, <1>2 DEF Seated, Mild

LEMMA AskedThreads ==
  ASSUME Typed, NEW ts
  PROVE  /\ AskThreads(ts) \in [Threads -> ThreadType]
         /\ \A t \in Threads : AskThreads(ts)[t].life = thread[t].life
<1>1. ASSUME NEW t \in Threads
      PROVE  AskThreads(ts)[t] \in ThreadType /\ AskThreads(ts)[t].life = thread[t].life
  <2>1. thread[t] \in ThreadType
    BY DEF Typed
  <2>2. Latch(thread[t].md5) \in Labels
    BY <2>1, LatchType DEF ThreadType
  <2> QED
    BY <2>1, <2>2 DEF AskThreads, ThreadType
<1>2. AskThreads(ts) = [t \in Threads |-> AskThreads(ts)[t]]
  BY DEF AskThreads
<1> QED
  BY <1>1, <1>2

LEMMA Counting ==
  ASSUME Numbers, NEW what \in {"changes", "logins", "games"}, Counted(what)
  PROVE  Numbers' /\ count'.rooms = count.rooms /\ count'.threads = count.threads
  BY DEF Numbers, Counted, CountType

-----------------------------------------------------------------------------
(* Clients who leave.                                                       *)

LEMMA Made == /\ NoRoom \in RoomType /\ FreedRoom \in RoomType /\ FreedRoom.life = "freed"
              /\ FreedRoom.players = {} /\ NoRoom.players = {} /\ NoRoom.life = "none"
              /\ ~NoRoom.listed /\ ~NoRoom.inLua
              /\ Away \in ClientType /\ Away.room = Lobby
  BY DEF NoRoom, FreedRoom, Away, RoomType, ClientType, Labels

\* Whose room is no room is in none.
LEMMA Apart ==
  ASSUME Inv, NEW p \in Clients
  PROVE  /\ client[p] \in ClientType /\ client[p].room \in Rooms \cup {Lobby}
         /\ client[p].room # Lobby => /\ client[p].room \in Rooms
                                      /\ p \in room[client[p].room].players
                                      /\ room[client[p].room] # NoRoom
         /\ client[p].room = Lobby => \A r \in Rooms : p \notin room[r].players
<1>1. client[p] \in ClientType
  BY DEF Inv, Typed
<1>2. client[p].room \in Rooms \cup {Lobby}
  BY <1>1 DEF ClientType
<1>3. \A r \in Rooms : p \in room[r].players <=> client[p].room = r
  BY DEF Inv, Seated
<1>4. CASE client[p].room = Lobby
  BY <1>1, <1>2, <1>3, <1>4, Consts
<1>5. CASE client[p].room # Lobby
  <2>1. client[p].room \in Rooms /\ p \in room[client[p].room].players
    BY <1>2, <1>3, <1>5
  <2> QED
    BY <1>1, <1>5, <2>1, Made
<1> QED
  BY <1>4, <1>5

\* One room changes, mildly.
LEMMA OneRoom ==
  ASSUME Inv, NEW r \in Rooms, NEW x \in RoomType, room' = [room EXCEPT ![r] = x],
         room[r] # NoRoom,
         x.life = "live" => room[r].life = "live" /\ x.own = room[r].own /\ x.thread = room[r].thread
  PROVE  /\ room' \in [Rooms -> RoomType] /\ Mild /\ room'[r] = x
         /\ \A q \in Rooms : q # r => room'[q] = room[q]
<1>1. room \in [Rooms -> RoomType]
  BY DEF Inv, Typed
<1> QED
  BY <1>1 DEF Mild

LEMMA Leaves ==
  ASSUME Inv, NEW p \in Clients, NEW c \in ClientType, c.room = Lobby, NEW quit,
         client' = [client EXCEPT ![p] = c], room' = Without(p, quit)
  PROVE  room' \in [Rooms -> RoomType] /\ client' \in [Clients -> ClientType] /\ Seated' /\ Mild
<1> DEFINE r    == client[p].room
           rest == room[r].players \ {p}
           l    == IF quit THEN Latch(room[r].md5) ELSE room[r].md5
           y    == [room[r] EXCEPT !.players = rest, !.listed = rest # {}, !.md5 = l]
           x    == IF rest = {} /\ ~room[r].inLua THEN FreedRoom ELSE y
<1>1. /\ client' \in [Clients -> ClientType] /\ client'[p] = c
      /\ \A q \in Clients : q # p => client'[q] = client[q]
      /\ room \in [Rooms -> RoomType]
  BY DEF Inv, Typed
<1>2. CASE r = Lobby
  <2>1. room' = room
    BY <1>2 DEF Without
  <2>2. Seated'
    BY <1>1, <1>2, <2>1, Apart, Consts DEF Inv, Seated
  <2> QED
    BY <1>1, <2>1, <2>2 DEF Mild
<1>3. CASE r # Lobby
  <2>1. r \in Rooms /\ p \in room[r].players /\ room[r] # NoRoom /\ room[r] \in RoomType
    BY <1>1, <1>3, Apart
  <2>2. room' = [room EXCEPT ![r] = x]
    BY <1>3 DEF Without
  <2> HIDE DEF x
  <2>3. l \in Labels
    BY <2>1, LatchType, SMTT(30) DEF RoomType
  <2> HIDE DEF l
  <2>4. /\ y \in RoomType /\ y.players = rest
        /\ y.life = room[r].life /\ y.own = room[r].own /\ y.thread = room[r].thread
    BY <2>1, <2>3, ZenonT(60) DEF RoomType
  <2> HIDE DEF y
  <2>5. /\ x \in RoomType /\ x.players = rest
        /\ x.life = "live" => room[r].life = "live" /\ x.own = room[r].own /\ x.thread = room[r].thread
    BY <2>4, Made DEF x
  <2>6. /\ room' \in [Rooms -> RoomType] /\ Mild /\ room'[r] = x
        /\ \A q \in Rooms : q # r => room'[q] = room[q]
    BY <2>1, <2>2, <2>5, OneRoom
  <2>7. Seated'
    BY <1>1, <2>1, <2>5, <2>6, Consts DEF Inv, Seated
  <2> QED
    BY <1>1, <2>6, <2>7
<1> QED
  BY <1>2, <1>3

\* A lost connection: the seat in a running game is kept.
LEMMA Drops ==
  ASSUME Inv, NEW p \in Clients, client' = Dropped(p),
         room' = IF InGame(p) THEN room ELSE Without(p, FALSE)
  PROVE  room' \in [Rooms -> RoomType] /\ client' \in [Clients -> ClientType] /\ Seated' /\ Mild
<1>1. CASE InGame(p)
  <2> DEFINE c == [client[p] EXCEPT !.at = "out"]
  <2>1. c \in ClientType /\ c.room = client[p].room
    BY Apart DEF ClientType
  <2>2. client' = [client EXCEPT ![p] = c] /\ room' = room
    BY <1>1 DEF Dropped
  <2> HIDE DEF c
  <2>3. /\ client' \in [Clients -> ClientType]
        /\ \A q \in Clients : client'[q].room = client[q].room
    BY <2>1, <2>2 DEF Inv, Typed
  <2> QED
    BY <2>2, <2>3 DEF Inv, Typed, Seated, Mild
<1>2. CASE ~InGame(p)
  BY <1>2, Leaves, Made DEF Dropped
<1> QED
  BY <1>1, <1>2

LEMMA ForgetType == ASSUME World, NEW p PROVE Forget(p) \subseteq PostType
  BY DEF World, Forget

LEMMA DisconnectInv == ASSUME Inv, NEW p \in Clients, Disconnect(p) PROVE Inv'
<1>1. World'
  BY ForgetType DEF Disconnect, Inv, Typed, World
<1> QED
  BY <1>1, Drops, SeatStep DEF Disconnect

LEMMA KickedInv == ASSUME Inv, NEW p \in Clients, Kicked(p) PROVE Inv'
<1>1. World' /\ UNCHANGED <<thread, frames, count>>
  BY DEF Kicked, Inv, Typed, World
<1>2. CASE client[p].at = "in"
  BY <1>1, <1>2, Drops, SeatStep DEF Kicked
<1>3. CASE client[p].at # "in"
  BY <1>1, <1>3, SeatStep DEF Kicked, Inv, Typed, Seated, Mild
<1> QED
  BY <1>2, <1>3

LEMMA QuitRoomInv == ASSUME Inv, NEW p \in Clients, QuitRoom(p) PROVE Inv'
<1>1. World' /\ UNCHANGED <<thread, frames, count>>
  BY ForgetType DEF QuitRoom, Slip, Inv, Typed, World
<1> DEFINE c == IF Outdated(room[client[p].room].md5) THEN Away ELSE [client[p] EXCEPT !.room = Lobby]
<1>2. c \in ClientType /\ c.room = Lobby
  BY Apart, Made DEF ClientType
<1>3. client' = [client EXCEPT ![p] = c] /\ room' = Without(p, TRUE)
  BY DEF QuitRoom
<1> HIDE DEF c
<1> QED
  BY <1>1, <1>2, <1>3, Leaves, SeatStep

LEMMA RunAwayInv == ASSUME Inv, NEW p \in Clients, NEW died \in BOOLEAN, RunAway(p, died) PROVE Inv'
<1>1. World' /\ UNCHANGED <<thread, frames, count>>
  BY ForgetType DEF RunAway, Inv, Typed, World
<1> DEFINE c == IF died THEN [client[p] EXCEPT !.room = Lobby] ELSE Away
<1>2. c \in ClientType /\ c.room = Lobby
  BY Apart, Made DEF ClientType
<1>3. client' = [client EXCEPT ![p] = c] /\ room' = Without(p, TRUE)
  BY DEF RunAway
<1> HIDE DEF c
<1> QED
  BY <1>1, <1>2, <1>3, Leaves, SeatStep

-----------------------------------------------------------------------------
(* Rooms and games.                                                         *)

LEMMA EnterRoomInv ==
  ASSUME Inv, NEW p \in Clients, NEW r \in Rooms, EnterRoom(p, r) PROVE Inv'
<1>1. World' /\ UNCHANGED <<thread, frames, count>>
  BY DEF EnterRoom, Slip, Inv, Typed, World
<1>2. CASE /\ room' = [room EXCEPT ![r].players = @ \cup {p}]
           /\ client' = [client EXCEPT ![p].room = r]
  <2> DEFINE x == [room[r] EXCEPT !.players = room[r].players \cup {p}]
             c == [client[p] EXCEPT !.room = r]
  <2>1. room[r] \in RoomType /\ room[r] # NoRoom
    BY Made DEF Inv, Typed, EnterRoom
  <2>2. /\ x \in RoomType /\ x.players = room[r].players \cup {p}
        /\ x.life = room[r].life /\ x.own = room[r].own /\ x.thread = room[r].thread
    BY <2>1 DEF RoomType
  <2>3. c \in ClientType /\ c.room = r
    BY Apart DEF ClientType
  <2>4. room' = [room EXCEPT ![r] = x] /\ client' = [client EXCEPT ![p] = c]
    BY <1>2
  <2> HIDE DEF x, c
  <2>5. /\ room' \in [Rooms -> RoomType] /\ Mild /\ room'[r] = x
        /\ \A q \in Rooms : q # r => room'[q] = room[q]
    BY <2>1, <2>2, <2>4, OneRoom
  <2>6. /\ client' \in [Clients -> ClientType] /\ client'[p] = c
        /\ \A q \in Clients : q # p => client'[q] = client[q]
    BY <2>3, <2>4 DEF Inv, Typed
  <2>7. \A q \in Rooms : p \notin room[q].players
    BY Apart DEF EnterRoom, InLobby
  <2>8. Seated'
    BY <2>2, <2>3, <2>5, <2>6, <2>7 DEF Inv, Seated
  <2> QED
    BY <1>1, <2>5, <2>6, <2>8, SeatStep
<1>3. CASE room' = AskRooms({r}) /\ client' = client
  BY <1>1, <1>3, AskedRooms, SeatStep DEF Inv, Typed
<1> QED
  BY <1>2, <1>3 DEF EnterRoom

LEMMA UpdateRoomListInv == ASSUME Inv, NEW p \in Clients, UpdateRoomList(p) PROVE Inv'
  BY AskedRooms, SeatStep DEF UpdateRoomList, Inv, Typed, World

\* A room loses some of its players, who are away then.
LEMMA Empties ==
  ASSUME Inv, NEW r \in Rooms, NEW x \in RoomType, room[r] # NoRoom,
         room' = [room EXCEPT ![r] = x], x.players \subseteq room[r].players,
         x.life = "live" => room[r].life = "live" /\ x.own = room[r].own /\ x.thread = room[r].thread,
         client' = [q \in Clients |-> IF q \in room[r].players \ x.players THEN Away ELSE client[q]]
  PROVE  room' \in [Rooms -> RoomType] /\ client' \in [Clients -> ClientType] /\ Seated' /\ Mild
<1>1. /\ room' \in [Rooms -> RoomType] /\ Mild /\ room'[r] = x
      /\ \A q \in Rooms : q # r => room'[q] = room[q]
  BY OneRoom
<1>2. client' \in [Clients -> ClientType]
  BY Made DEF Inv, Typed
<1>3. Seated'
  <2> SUFFICES ASSUME NEW p \in Clients, NEW q \in Rooms
               PROVE  p \in room'[q].players <=> client'[p].room = q
    BY DEF Seated
  <2>1. p \in room[q].players <=> client[p].room = q
    BY DEF Inv, Seated
  <2>2. p \in room[r].players <=> client[p].room = r
    BY DEF Inv, Seated
  <2>3. client'[p] = IF p \in room[r].players \ x.players THEN Away ELSE client[p]
    OBVIOUS
  <2> QED
    BY <1>1, <2>1, <2>2, <2>3, Made, Consts
<1> QED
  BY <1>1, <1>2, <1>3

LEMMA GameOverInv == ASSUME Inv, NEW r \in Rooms, GameOver(r) PROVE Inv'
<1> DEFINE here == {p \in room[r].players : client[p].at = "in"}
           x == IF here = {} THEN FreedRoom
                ELSE [room[r] EXCEPT !.started = FALSE, !.inLua = FALSE, !.players = here]
<1>1. World' /\ UNCHANGED <<thread, frames, count>>
  BY DEF GameOver, Inv, Typed, World
<1>2. room[r] \in RoomType /\ room[r] # NoRoom
  BY Made DEF Inv, Typed, GameOver
<1>3. x \in RoomType /\ x.players = here
  BY <1>2, Made, ZenonT(60) DEF RoomType
<1>4. x.life = "live" => room[r].life = "live" /\ x.own = room[r].own /\ x.thread = room[r].thread
  BY <1>2, Made DEF RoomType
<1>5. /\ room' = [room EXCEPT ![r] = x]
      /\ client' = [q \in Clients |-> IF q \in room[r].players \ here THEN Away ELSE client[q]]
  BY DEF GameOver
<1> HIDE DEF x
<1> QED
  BY <1>1, <1>2, <1>3, <1>4, <1>5, Empties, SeatStep

LEMMA StartGameInv == ASSUME Inv, NEW p \in Clients, StartGame(p) PROVE Inv'
<1>0. PICK r, t : r = client[p].room /\ t = room[r].thread
  OBVIOUS
<1>1. r \in Rooms /\ room[r] # NoRoom /\ room[r] \in RoomType
  BY <1>0, Apart DEF StartGame, Inv, Typed
<1>2. CASE /\ room' = [room EXCEPT ![r] = FreedRoom] /\ posted' \subseteq posted
           /\ client' = [q \in Clients |-> IF q \in room[r].players THEN Away ELSE client[q]]
           /\ UNCHANGED <<thread, count>>
  <2>1. World' /\ frames' = frames
    BY <1>2 DEF StartGame, Inv, Typed, World
  <2>2. /\ room' \in [Rooms -> RoomType] /\ client' \in [Clients -> ClientType]
        /\ Seated' /\ Mild
    BY <1>1, <1>2, Made, Empties
  <2> QED
    BY <1>2, <2>1, <2>2, SeatStep, SMTT(30)
<1>3. CASE /\ room' = [room EXCEPT ![r].started = TRUE]
           /\ thread' = [thread EXCEPT ![t].requests = IF thread[t].life = "serving" THEN @ \cup {r} ELSE @]
           /\ Counted("games") /\ UNCHANGED <<client, posted>>
  <2> DEFINE x == [room[r] EXCEPT !.started = TRUE]
  <2>1. /\ x \in RoomType /\ x.players = room[r].players
        /\ x.life = room[r].life /\ x.own = room[r].own /\ x.thread = room[r].thread
    BY <1>1 DEF RoomType
  <2>2. room' = [room EXCEPT ![r] = x]
    BY <1>3
  <2> HIDE DEF x
  <2>3. /\ room' \in [Rooms -> RoomType] /\ Mild /\ room'[r] = x
        /\ \A q \in Rooms : q # r => room'[q] = room[q]
    BY <1>1, <2>1, <2>2, OneRoom
  <2>4. Seated'
    <3>1. \A q \in Rooms : room'[q].players = room[q].players
      BY <2>1, <2>3
    <3> QED
      BY <1>3, <3>1 DEF Inv, Seated
  <2>5. thread' \in [Threads -> ThreadType] /\ \A h \in Threads : thread'[h].life = thread[h].life
    <3>1. thread \in [Threads -> ThreadType]
      BY DEF Inv, Typed
    <3>2. CASE t \in Threads
      <4>0. PICK rs : rs = IF thread[t].life = "serving" THEN thread[t].requests \cup {r}
                          ELSE thread[t].requests
        OBVIOUS
      <4> DEFINE w == [thread[t] EXCEPT !.requests = rs]
      <4>1. w \in ThreadType /\ w.life = thread[t].life
        <5>1. thread[t] \in ThreadType
          BY <3>1, <3>2
        <5>2. rs \in SUBSET Rooms
          BY <1>1, <4>0, <5>1 DEF ThreadType
        <5> QED
          BY <5>1, <5>2 DEF ThreadType
      <4>2. thread' = [thread EXCEPT ![t] = w]
        BY <1>3, <4>0
      <4> HIDE DEF w
      <4> QED
        BY <3>1, <3>2, <4>1, <4>2
    <3>3. CASE t \notin Threads
      BY <1>3, <3>1, <3>3
    <3> QED
      BY <3>2, <3>3
  <2>6. World' /\ frames' = frames
    BY <1>3 DEF StartGame, Inv, Typed, World
  <2>7. Numbers' /\ count'.rooms = count.rooms /\ count'.threads = count.threads
    BY <1>3, Counting DEF Inv, Typed
  <2>8. Typed'
    BY <1>3, <2>3, <2>5, <2>6, <2>7 DEF Inv, Typed
  <2> QED
    BY <2>3, <2>4, <2>5, <2>6, <2>7, <2>8, MildStep
<1> QED
  BY <1>0, <1>2, <1>3, ZenonT(60) DEF StartGame

LEMMA NewRoomInv == ASSUME Inv, NEW t \in Threads, NewRoom(t) PROVE Inv'
<1>1. PICK r \in thread[t].requests :
         /\ thread' = [thread EXCEPT ![t].requests = @ \ {r}]
         /\ room' = [room EXCEPT ![r].inLua = room[r].listed]
  BY DEF NewRoom
<1>2. thread \in [Threads -> ThreadType] /\ room \in [Rooms -> RoomType]
  BY DEF Inv, Typed
<1>3. r \in Rooms
  BY <1>1, <1>2 DEF ThreadType
<1>4. thread' \in [Threads -> ThreadType] /\ \A h \in Threads : thread'[h].life = thread[h].life
  BY <1>1, <1>2 DEF ThreadType
<1> DEFINE x == [room[r] EXCEPT !.inLua = room[r].listed]
<1>5. /\ x \in RoomType /\ x.players = room[r].players
      /\ x.life = room[r].life /\ x.own = room[r].own /\ x.thread = room[r].thread
  BY <1>2, <1>3 DEF RoomType
<1>6. ASSUME room[r] = NoRoom PROVE x = NoRoom
  <2>1. NoRoom.listed = FALSE
    BY DEF NoRoom
  <2>2. x = [NoRoom EXCEPT !.inLua = FALSE]
    BY <1>6, <2>1
  <2>3. NoRoom.inLua = FALSE
    BY DEF NoRoom
  <2>4. [NoRoom EXCEPT !.inLua = FALSE] = NoRoom
    BY <2>3, Made DEF RoomType
  <2> HIDE DEF x
  <2> QED
    BY <2>2, <2>4
<1>7. room' = [room EXCEPT ![r] = x]
  BY <1>1
<1> HIDE DEF x
<1>8. /\ room' \in [Rooms -> RoomType] /\ Mild
      /\ \A q \in Rooms : room'[q].players = room[q].players
  BY <1>2, <1>3, <1>5, <1>6, <1>7 DEF Mild
<1>9. World' /\ Numbers' /\ UNCHANGED <<client, frames, count>>
  BY DEF NewRoom, Inv, Typed, World, Numbers
<1>10. Typed' /\ Seated'
  BY <1>4, <1>8, <1>9 DEF Inv, Typed, Seated
<1> QED
  BY <1>4, <1>8, <1>9, <1>10, MildStep

-----------------------------------------------------------------------------
(* Unfinished handlers.                                                     *)

LEMMA FrameFacts ==
  ASSUME Inv, NEW i \in 1..Len(frames)
  PROVE  /\ FrameOK(i) /\ frames[i] \in FrameType /\ Len(frames) \in Nat
         /\ frames[i].at # "placing" => frames[i].do = "create"
         /\ frames[i].do = "create" => /\ frames[i].thread \in Threads
                                       /\ frames[i].thread \in 1..count.threads
<1>1. FrameOK(i) /\ frames[i] \in FrameType /\ Len(frames) \in Nat
  BY ElementOfSeq, LenProperties DEF Inv, Framed, Typed
<1>2. frames[i].do = "create" => frames[i].thread \in 1..count.threads
  BY <1>1 DEF FrameOK
<1>3. count.threads \in Nat /\ count.threads <= MaxThreads /\ MaxThreads \in Nat
  BY Consts DEF Inv, Typed, Numbers, CountType
<1> QED
  BY <1>1, <1>2, <1>3 DEF Threads, FrameOK, FrameType

\* Sizes depend on the rooms only.
LEMMA SameSize == ASSUME room' = room, NEW t PROVE Size(t)' = Size(t) /\ Children(t)' = Children(t)
  BY DEF Size, Children

\* What makes a handler one as it should be, its thread being named.
LEMMA FrameIs ==
  ASSUME NEW i, NEW h, h = frames'[i].thread,
         frames'[i].at = "placing" => i = Len(frames'),
         frames'[i].do = "login" => frames'[i].at = "placing",
         frames'[i].do = "create" => h \in 1..count'.threads /\ count'.rooms + i <= MaxRooms,
         frames'[i].at = "waiting" => thread'[h].life = "starting",
         frames'[i].at # "placing" =>
           /\ Few(h)'
           /\ \A j \in 1..Len(frames') : j # i /\ frames'[j].at # "placing" => frames'[j].thread # h,
         frames'[i].do = "create" /\ frames'[i].at = "placing" => Size(h)' < RoomsPerThread
  PROVE  FrameOK(i)'
<1>1. frames'[i].at # "placing" => Few(frames[i].thread)'
  BY DEF Few, Size, Children
<1>2. frames'[i].do = "create" /\ frames'[i].at = "placing" => Size(frames[i].thread)' < RoomsPerThread
  BY DEF Size, Children
<1> QED
  BY <1>1, <1>2 DEF FrameOK

\* A new handler.
LEMMA Appended ==
  ASSUME Inv, NEW f \in FrameType, frames' = Append(frames, f),
         \A i \in 1..Len(frames) : frames[i].at # "placing",
         room' = room, count'.rooms = count.rooms, count'.threads \in Nat,
         count.threads <= count'.threads,
         \A t \in 1..count.threads : thread'[t].life = thread[t].life,
         f.do = "login" => f.at = "placing",
         f.do = "create" => /\ f.thread \in 1..count'.threads
                            /\ count.rooms + Len(frames) + 1 <= MaxRooms,
         f.at = "waiting" => thread'[f.thread].life = "starting",
         f.at # "placing" => Few(f.thread) /\ \A i \in 1..Len(frames) : frames[i].thread # f.thread,
         f.do = "create" /\ f.at = "placing" => Size(f.thread) < RoomsPerThread
  PROVE  Framed' /\ frames' \in Seq(FrameType)
<1> DEFINE n == Len(frames)
<1>1. /\ n \in Nat /\ frames' \in Seq(FrameType) /\ Len(frames') = n + 1 /\ frames'[n + 1] = f
      /\ \A i \in 1..n : frames'[i] = frames[i]
  BY AppendProperties, LenProperties DEF Inv, Typed
<1>2. count.threads \in Nat /\ count.rooms \in Nat /\ MaxRooms \in Nat
  BY Consts DEF Inv, Typed, Numbers, CountType
<1>3. \A t : Few(t)' <=> Few(t)
  BY SameSize DEF Few
<1> SUFFICES ASSUME NEW i \in 1..n + 1 PROVE FrameOK(i)'
  BY <1>1 DEF Framed
<1>4. CASE i = n + 1
  <2>1. \A j \in 1..n + 1 : j # i => j \in 1..n
    BY <1>1, <1>4
  <2>2. PICK h : h = f.thread
    OBVIOUS
  <2>3. frames'[i] = f /\ frames'[i].thread = h /\ i = Len(frames')
    BY <1>1, <1>4, <2>2
  <2>4. Few(h)' = Few(h) /\ Size(h)' = Size(h)
    BY SameSize DEF Few
  <2>5. f.do = "create" => h \in 1..count'.threads /\ count'.rooms + i <= MaxRooms
    BY <1>1, <1>2, <1>4, <2>2
  <2>6. f.at # "placing" =>
          /\ Few(h)
          /\ \A j \in 1..Len(frames') : j # i /\ frames'[j].at # "placing" => frames'[j].thread # h
    BY <1>1, <2>1, <2>2
  <2>7. /\ f.at = "waiting" => thread'[h].life = "starting"
        /\ f.do = "create" /\ f.at = "placing" => Size(h) < RoomsPerThread
    BY <2>2
  <2> QED
    BY <2>3, <2>4, <2>5, <2>6, <2>7, FrameIs
<1>5. CASE i \in 1..n
  <2>1. /\ FrameOK(i) /\ frames[i].do = "create" /\ frames[i].thread \in 1..count.threads
        /\ frames[i].at # "placing"
    BY <1>5, FrameFacts
  <2>2. frames[i].thread \in 1..count'.threads
    BY <1>2, <2>1
  <2>3. \A j \in 1..n + 1 : j # i /\ frames'[j].at # "placing" => frames'[j].thread # frames[i].thread
    <3> SUFFICES ASSUME NEW j \in 1..n + 1, j # i, frames'[j].at # "placing"
                 PROVE  frames'[j].thread # frames[i].thread
      OBVIOUS
    <3>1. CASE j = n + 1
      BY <1>1, <1>5, <3>1
    <3>2. CASE j \in 1..n
      BY <1>1, <2>1, <3>2 DEF FrameOK
    <3> QED
      BY <1>1, <3>1, <3>2
  <2>4. Few(frames[i].thread)' /\ count'.rooms + i <= MaxRooms
    <3>1. PICK h : h = frames[i].thread
      OBVIOUS
    <3>2. Few(h) /\ count.rooms + i <= MaxRooms
      BY <2>1, <3>1 DEF FrameOK
    <3>3. frames'[i].thread = h
      BY <1>1, <1>5, <3>1
    <3>4. Few(h)'
      BY <1>3, <3>2
    <3> QED
      BY <3>2, <3>3, <3>4 DEF Few, Size, Children
  <2>5. frames[i].at = "waiting" => thread'[frames[i].thread].life = "starting"
    BY <2>1 DEF FrameOK
  <2>6. frames'[i] = frames[i]
    BY <1>1, <1>5
  <2> QED
    BY <1>1, <2>1, <2>2, <2>3, <2>4, <2>5, <2>6 DEF FrameOK
<1> QED
  BY <1>1, <1>4, <1>5

LEMMA Loop == ASSUME Inv, InLoop PROVE \A i \in 1..Len(frames) : frames[i].at # "placing"
  BY LenProperties DEF InLoop, Inv, Typed

LEMMA LoginInv == ASSUME Inv, NEW p \in Clients, Login(p) PROVE Inv'
<1> DEFINE f == [do |-> "login", owner |-> p, thread |-> 0, at |-> "placing"]
<1>1. /\ World' /\ Numbers' /\ count'.rooms = count.rooms /\ count'.threads = count.threads
      /\ thread' = thread /\ room' = room
  BY Counting DEF Login, Inv, Typed, World
<1>2. f \in FrameType
  BY DEF FrameType
<1>3. Framed' /\ frames' \in Seq(FrameType)
  <2>1. frames' = Append(frames, f)
    BY DEF Login
  <2>2. f.do = "login" /\ f.at = "placing"
    OBVIOUS
  <2>3. \A i \in 1..Len(frames) : frames[i].at # "placing"
    BY Loop DEF Login
  <2>4. count.threads \in Nat
    BY DEF Inv, Typed, Numbers, CountType
  <2> HIDE DEF f
  <2> QED
    BY <1>1, <1>2, <2>1, <2>2, <2>3, <2>4, Appended
<1>4. client' \in [Clients -> ClientType] /\ \A q \in Clients : client'[q].room = client[q].room
  <2>1. md5 \in Versions
    BY DEF Inv, Typed, World
  <2>2. [client[p] EXCEPT !.files = md5] \in ClientType
    BY <2>1, Apart DEF ClientType
  <2>3. [client[p] EXCEPT !.files = md5].room = client[p].room
    BY Apart DEF ClientType
  <2>4. client' = [client EXCEPT ![p] = [client[p] EXCEPT !.files = md5]]
    BY DEF Login
  <2> QED
    BY <2>2, <2>3, <2>4 DEF Inv, Typed
<1>5. Typed' /\ Seated' /\ Unmade'
  BY <1>1, <1>3, <1>4 DEF Inv, Typed, Seated, Unmade
<1>6. Full'
  <2>1. Mild
    BY <1>1 DEF Mild
  <2> QED
    BY <2>1, MildFull DEF Inv
<1> QED
  BY <1>3, <1>5, <1>6 DEF Inv

LEMMA CreateRoomInv == ASSUME Inv, NEW p \in Clients, CreateRoom(p) PROVE Inv'
<1>1. /\ World' /\ room' = room /\ client' = client
      /\ \A i \in 1..Len(frames) : frames[i].at # "placing"
      /\ count.rooms + Len(frames) < MaxRooms
  BY Loop DEF CreateRoom, Inv, Typed, World
<1>2. Seated' /\ Full'
  <2>1. Mild
    BY <1>1 DEF Mild
  <2> QED
    BY <1>1, <2>1, MildFull DEF Inv, Seated
<1>3. /\ count.threads \in Nat /\ count.rooms \in Nat /\ MaxRooms \in Nat /\ MaxThreads \in Nat
      /\ Len(frames) \in Nat /\ count.threads <= MaxThreads
  BY Consts, LenProperties DEF Inv, Typed, Numbers, CountType
<1>4. /\ AskThreads(Asked) \in [Threads -> ThreadType]
      /\ \A t \in Threads : AskThreads(Asked)[t].life = thread[t].life
  BY AskedThreads DEF Inv
<1>5. \A t \in 1..count.threads : t \in Threads
  BY <1>3 DEF Threads
<1>6. count.rooms + Len(frames) + 1 <= MaxRooms
  BY <1>1, <1>3
<1>7. CASE /\ Fit # {} /\ thread' = AskThreads(Asked) /\ count' = count
           /\ frames' = Append(frames, [do |-> "create", owner |-> p, thread |-> Chosen,
                                        at |-> "placing"])
  <2> DEFINE f == [do |-> "create", owner |-> p, thread |-> Chosen, at |-> "placing"]
  <2>1. Chosen \in Fit
    <3>1. Fit \in SUBSET Nat
      BY Consts DEF Fit
    <3> QED
      BY <1>7, <3>1, MinIn DEF Chosen
  <2>2. /\ Chosen \in Threads /\ Alive(Chosen) /\ ~IsFull(Chosen)
    BY <2>1 DEF Fit
  <2>3. Chosen \in 1..count.threads
    BY <1>3, <2>2, Consts DEF Inv, Unmade, Alive, Threads
  <2>4. Size(Chosen) < RoomsPerThread
    BY <2>2, Finite, Consts DEF IsFull, Size
  <2>5. f \in FrameType
    BY <2>2 DEF FrameType
  <2>6. f.do = "create" /\ f.at = "placing" /\ f.thread = Chosen /\ frames' = Append(frames, f)
    BY <1>7
  <2> HIDE DEF f
  <2>7. \A t \in 1..count.threads : thread'[t].life = thread[t].life
    BY <1>4, <1>5, <1>7
  <2>8. count'.rooms = count.rooms /\ count'.threads = count.threads
    BY <1>7
  <2>9. Framed' /\ frames' \in Seq(FrameType)
    BY <1>1, <1>3, <1>6, <2>3, <2>4, <2>5, <2>6, <2>7, <2>8, Appended
  <2>10. Typed' /\ Unmade'
    BY <1>1, <1>4, <1>7, <2>9 DEF Inv, Typed, Numbers, Unmade
  <2> QED
    BY <1>2, <2>9, <2>10 DEF Inv
<1>8. CASE /\ count.threads < MaxThreads /\ Counted("threads")
           /\ frames' = Append(frames, [do |-> "create", owner |-> p, thread |-> count.threads + 1,
                                        at |-> "waiting"])
           /\ thread' = [AskThreads(Asked) EXCEPT
                           ![count.threads + 1] = [NoThread EXCEPT !.life = "starting", !.md5 = md5]]
  <2> DEFINE t == count.threads + 1
             f == [do |-> "create", owner |-> p, thread |-> t, at |-> "waiting"]
             x == [NoThread EXCEPT !.life = "starting", !.md5 = md5]
  <2>1. t \in Threads
    BY <1>3, <1>8 DEF Threads
  <2>2. x \in ThreadType /\ x.life = "starting"
    BY DEF NoThread, ThreadType, Labels, Inv, Typed, World
  <2>3. thread' = [AskThreads(Asked) EXCEPT ![t] = x]
    BY <1>8
  <2> HIDE DEF x
  <2>4. /\ thread' \in [Threads -> ThreadType] /\ thread'[t].life = "starting"
        /\ \A h \in Threads : h # t => thread'[h].life = thread[h].life
    BY <1>4, <2>1, <2>2, <2>3
  <2>5. count' \in CountType /\ count'.threads = t /\ count'.rooms = count.rooms
    BY <1>8 DEF Counted, Inv, Typed, Numbers, CountType
  <2>6. f \in FrameType
    BY <2>1 DEF FrameType
  <2>7. f.do = "create" /\ f.at = "waiting" /\ f.thread = t /\ frames' = Append(frames, f)
    BY <1>8
  <2> HIDE DEF f
  <2>8. Few(t)
    <3>1. Children(t) = {}
      BY <1>3 DEF Children, Inv, Unmade
    <3> QED
      BY <3>1, FS_EmptySet, Consts DEF Few, Size
  <2>9. \A i \in 1..Len(frames) : frames[i].thread # t
    BY <1>1, <1>3, FrameFacts
  <2>10. \A h \in 1..count.threads : thread'[h].life = thread[h].life
    BY <1>3, <1>5, <2>4
  <2>11. t \in Nat /\ count.threads <= t /\ t \in 1..t /\ t <= MaxThreads
    BY <1>3, <1>8
  <2>12. Unmade'
    <3>1. \A h \in Threads : h > t => thread'[h].life \in {"none", "freed"}
      <4>1. \A h \in Threads : h > t => h # t /\ h > count.threads
        BY <1>3, Consts
      <4> QED
        BY <2>4, <4>1 DEF Inv, Unmade
    <3>2. \A r \in Rooms : room[r].life = "live" => room[r].thread \in 1..t
      BY <1>3 DEF Inv, Unmade
    <3>3. \A r \in Rooms : r > count.rooms => room[r] = NoRoom
      BY DEF Inv, Unmade
    <3> QED
      BY <1>1, <2>5, <3>1, <3>2, <3>3 DEF Unmade
  <2> HIDE DEF t
  <2>13. Framed' /\ frames' \in Seq(FrameType)
    BY <1>1, <1>6, <2>4, <2>5, <2>6, <2>7, <2>8, <2>9, <2>10, <2>11, Appended
  <2>14. Typed'
    BY <1>1, <2>4, <2>5, <2>11, <2>13 DEF Inv, Typed, Numbers
  <2> QED
    BY <1>2, <2>12, <2>13, <2>14 DEF Inv
<1> QED
  BY <1>7, <1>8 DEF CreateRoom

LEMMA Popped ==
  ASSUME Inv, frames # <<>>
  PROVE  /\ Len(frames) \in 1..Len(frames) /\ Last(frames) = frames[Len(frames)]
         /\ Front(frames) \in Seq(FrameType) /\ Len(Front(frames)) = Len(frames) - 1
         /\ \A i \in 1..Len(frames) - 1 : /\ Front(frames)[i] = frames[i] /\ i \in 1..Len(frames)
                                          /\ frames[i].at # "placing" /\ frames[i].do = "create"
<1>1. frames \in Seq(FrameType)
  BY DEF Inv, Typed
<1>2. /\ Front(frames) \in Seq(FrameType) /\ Len(Front(frames)) = Len(frames) - 1
      /\ \A i \in 1..Len(frames) - 1 : Front(frames)[i] = frames[i]
      /\ Len(frames) \in Nat \ {0} /\ Last(frames) = frames[Len(frames)]
  BY <1>1, FrontLast
<1>3. ASSUME NEW i \in 1..Len(frames) - 1
      PROVE  i \in 1..Len(frames) /\ frames[i].at # "placing" /\ frames[i].do = "create"
  <2>1. i \in 1..Len(frames) /\ i # Len(frames)
    BY <1>2
  <2> QED
    BY <2>1, FrameFacts DEF FrameOK
<1> QED
  BY <1>2, <1>3

LEMMA AdmitInv == ASSUME Inv, Admit PROVE Inv'
<1> DEFINE p == Last(frames).owner
           n == Len(frames)
<1>1. /\ frames # <<>> /\ frames' = Front(frames) /\ UNCHANGED <<thread, room, count>>
      /\ client' = [client EXCEPT ![p].at = "in"]
  BY DEF Admit
<1>2. p \in Clients /\ n \in Nat
  BY <1>1, Popped, FrameFacts, SMTT(30) DEF FrameType
<1>3. World'
  BY <1>2 DEF Admit, Inv, Typed, World
<1>4. client' \in [Clients -> ClientType] /\ \A q \in Clients : client'[q].room = client[q].room
  <2> DEFINE c == [client[p] EXCEPT !.at = "in"]
  <2>1. c \in ClientType /\ c.room = client[p].room
    BY <1>2, Apart DEF ClientType
  <2>2. client' = [client EXCEPT ![p] = c]
    BY <1>1
  <2> HIDE DEF c
  <2> QED
    BY <2>1, <2>2 DEF Inv, Typed
<1>5. Typed' /\ Seated' /\ Unmade'
  BY <1>1, <1>3, <1>4, Popped DEF Inv, Typed, Numbers, Seated, Unmade
<1>6. Full'
  <2>1. Mild
    BY <1>1 DEF Mild
  <2> QED
    BY <2>1, MildFull DEF Inv
<1>7. Framed'
  <2> SUFFICES ASSUME NEW i \in 1..n - 1 PROVE FrameOK(i)'
    BY <1>1, Popped DEF Framed
  <2>1. /\ frames'[i] = frames[i] /\ i \in 1..n /\ frames[i].at # "placing"
        /\ \A j \in 1..n - 1 : frames'[j] = frames[j] /\ j \in 1..n
        /\ Len(frames') = n - 1
    BY <1>1, Popped
  <2>2. FrameOK(i)
    BY <2>1, FrameFacts
  <2>3. \A t : Few(t)' <=> Few(t)
    BY <1>1, SameSize DEF Few
  <2> QED
    BY <1>1, <2>1, <2>2, <2>3 DEF FrameOK
<1> QED
  BY <1>5, <1>6, <1>7 DEF Inv

LEMMA CountingRooms ==
  ASSUME Numbers, Counted("rooms")
  PROVE  Numbers' /\ count'.rooms = count.rooms + 1 /\ count'.threads = count.threads
  BY DEF Numbers, Counted, CountType

\* A room is placed.
LEMMA Placed ==
  ASSUME Inv, NEW t \in 1..count.threads, NEW x \in RoomType, x.life = "live", x.thread = t,
         count.rooms + 1 \in Rooms, count.rooms \in Nat,
         room' = [room EXCEPT ![count.rooms + 1] = x]
  PROVE  LET r == count.rooms + 1 IN
         /\ room[r] = NoRoom /\ room' \in [Rooms -> RoomType] /\ room'[r] = x
         /\ \A q \in Rooms : q # r => room'[q] = room[q]
         /\ Size(t)' = Size(t) + 1 /\ (x.own => Own(t)')
         /\ \A h : h # t => Size(h)' = Size(h) /\ (Own(h) => Own(h)')
<1> DEFINE r == count.rooms + 1
<1>1. /\ room[r] = NoRoom /\ room' \in [Rooms -> RoomType] /\ room'[r] = x
      /\ \A q \in Rooms : q # r => room'[q] = room[q]
  BY DEF Inv, Typed, Unmade
<1>2. /\ Children(t)' = Children(t) \cup {r} /\ r \notin Children(t)
      /\ \A h : h # t => Children(h)' = Children(h) /\ r \notin Children(h)
  BY <1>1, Made DEF Children
<1>3. Size(t)' = Size(t) + 1
  <2>1. PICK S : S = Children(t)
    OBVIOUS
  <2>2. IsFiniteSet(S) /\ r \notin S
    BY <1>2, <2>1, Finite
  <2>3. Cardinality(S \cup {r}) = Cardinality(S) + 1
    BY <2>2, FS_AddElement
  <2> QED
    BY <1>2, <2>1, <2>3 DEF Size
<1>4. \A q \in Children(t)' : q <= r
  <2>1. \A q \in Children(t) : q \in Nat /\ q <= count.rooms
    BY Made, Consts DEF Children, Inv, Unmade
  <2> QED
    BY <1>2, <2>1
<1>5. x.own => Own(t)'
  BY <1>1, <1>2, <1>4 DEF Own
<1>6. ASSUME NEW h, h # t PROVE Size(h)' = Size(h) /\ (Own(h) => Own(h)')
  <2>1. Children(h)' = Children(h) /\ \A q \in Children(h) : room'[q] = room[q]
    BY <1>1, <1>2, <1>6 DEF Children
  <2> QED
    BY <2>1 DEF Size, Own
<1> QED
  BY <1>1, <1>3, <1>5, <1>6

\* Place, with names for what it uses.
LEMMA PlaceStep ==
  ASSUME Inv, Place, NEW n, n = Len(frames), NEW f, f = frames[n], NEW t, t = f.thread,
         NEW p, p = f.owner, NEW r, r = count.rooms + 1
  PROVE  Inv'
<1>1. /\ frames # <<>> /\ frames' = Front(frames) /\ thread' = thread
      /\ n \in 1..n /\ Last(frames) = f /\ f.do = "create" /\ f.at # "waiting"
      /\ Len(frames') = n - 1 /\ frames' \in Seq(FrameType)
      /\ \A i \in 1..n - 1 : frames'[i] = frames[i] /\ i \in 1..n /\ frames[i].at # "placing"
  BY Popped DEF Place
<1>2. FrameOK(n) /\ f \in FrameType /\ t \in Threads /\ t \in 1..count.threads
  BY <1>1, FrameFacts
<1>3. p \in Clients /\ f.at \in {"quitting", "placing"}
  BY <1>1, <1>2 DEF FrameType
<1>4. World'
  BY <1>1, <1>3 DEF Place, Slip, Inv, Typed, World
<1>5. n \in Nat /\ count.rooms \in Nat /\ MaxRooms \in Nat /\ count.rooms + n <= MaxRooms
  BY <1>1, <1>2, Consts DEF FrameOK, Inv, Typed, Numbers, CountType
<1>6. ASSUME NEW i \in 1..n - 1
      PROVE  /\ FrameOK(i) /\ frames'[i] = frames[i] /\ i \in 1..n /\ frames[i].at # "placing"
             /\ \A j \in 1..n - 1 : frames'[j] = frames[j] /\ j \in 1..n
  BY <1>1, FrameFacts
<1>7. CASE fault' = "createRoom" /\ UNCHANGED <<room, client, count>>
  <2>1. Typed' /\ Seated' /\ Unmade'
    BY <1>1, <1>4, <1>7 DEF Inv, Typed, Numbers, Seated, Unmade
  <2>2. Full'
    <3>1. Mild
      BY <1>7 DEF Mild
    <3> QED
      BY <3>1, MildFull DEF Inv
  <2>3. ASSUME NEW i \in 1..n - 1 PROVE FrameOK(i)'
    <3>1. PICK h : h = frames[i].thread
      OBVIOUS
    <3>2. Few(h)' <=> Few(h)
      BY <1>7, SameSize DEF Few
    <3>3. /\ frames'[i] = frames[i] /\ frames[i].at # "placing"
          /\ \A j \in 1..n - 1 : frames'[j] = frames[j] /\ j \in 1..n
          /\ Few(h) /\ \A j \in 1..n : j # i /\ frames[j].at # "placing" => frames[j].thread # h
          /\ frames[i].do = "create" => h \in 1..count.threads /\ count.rooms + i <= MaxRooms
          /\ frames[i].at = "waiting" => thread[h].life = "starting"
          /\ frames[i].do = "login" => frames[i].at = "placing"
      BY <1>6, <2>3, <3>1 DEF FrameOK
    <3>4. \A j \in 1..n - 1 : j # i /\ frames'[j].at # "placing" => frames'[j].thread # h
      BY <3>3
    <3>5. /\ h = frames'[i].thread /\ frames'[i].at # "placing" /\ Few(h)'
          /\ frames'[i].do # "login" /\ h \in 1..count'.threads /\ count'.rooms + i <= MaxRooms
          /\ frames'[i].at = "waiting" => thread'[h].life = "starting"
      <4>1. frames[i].do # "login" /\ frames[i].do = "create"
        BY <1>1, <1>6, <3>3, FrameFacts
      <4> QED
        BY <1>1, <1>7, <3>1, <3>2, <3>3, <4>1
    <3>6. \A j \in 1..Len(frames') : j # i /\ frames'[j].at # "placing" => frames'[j].thread # h
      BY <1>1, <3>4
    <3> HIDE DEF FrameOK
    <3> QED
      BY <3>5, <3>6, FrameIs
  <2> QED
    BY <1>1, <2>1, <2>2, <2>3 DEF Inv, Framed
<1>8. CASE /\ InLobby(p) /\ Counted("rooms") /\ client' = [client EXCEPT ![p].room = r]
           /\ room' = [room EXCEPT ![r] =
                [NoRoom EXCEPT !.life = "live", !.thread = t, !.md5 = thread[t].md5,
                               !.listed = TRUE, !.players = {p}, !.own = f.at = "quitting",
                               !.midway = shell # "idle"]]
  <2> DEFINE x == [NoRoom EXCEPT !.life = "live", !.thread = t, !.md5 = thread[t].md5,
                               !.listed = TRUE, !.players = {p}, !.own = f.at = "quitting",
                               !.midway = shell # "idle"]
             c == [client[p] EXCEPT !.room = r]
  <2>1. r \in Rooms
    BY <1>1, <1>5 DEF Rooms
  <2>2. /\ x \in RoomType /\ x.life = "live" /\ x.thread = t /\ x.players = {p}
        /\ x.own <=> f.at = "quitting"
    <3>1. thread[t].md5 \in Labels
      BY <1>2 DEF Inv, Typed, ThreadType
    <3>2. (f.at = "quitting") \in BOOLEAN /\ (shell # "idle") \in BOOLEAN
      OBVIOUS
    <3>3. PICK l, o, m : l = thread[t].md5 /\ o = (f.at = "quitting") /\ m = (shell # "idle")
      OBVIOUS
    <3>4. o \in BOOLEAN /\ m \in BOOLEAN /\ l \in Labels
      BY <3>1, <3>2, <3>3, Zenon
    <3>5. x = [NoRoom EXCEPT !.life = "live", !.thread = t, !.md5 = l, !.listed = TRUE,
                             !.players = {p}, !.own = o, !.midway = m]
      BY <3>3
    <3> HIDE DEF x
    <3>6. x \in RoomType /\ x.life = "live" /\ x.thread = t /\ x.players = {p} /\ x.own = o
      <4>1. t \in Threads /\ p \in Clients
        BY <1>2, <1>3
      <4>2. x = [life |-> "live", thread |-> t, md5 |-> l, listed |-> TRUE, players |-> {p},
                 started |-> FALSE, inLua |-> FALSE, own |-> o, midway |-> m]
        BY <3>5 DEF NoRoom
      <4> QED
        BY <3>4, <4>1, <4>2 DEF RoomType
    <3> QED
      BY <3>3, <3>6, Zenon
  <2>3. room' = [room EXCEPT ![r] = x]
    BY <1>8
  <2> HIDE DEF x
  <2>4. /\ room[r] = NoRoom /\ room' \in [Rooms -> RoomType] /\ room'[r] = x
        /\ \A q \in Rooms : q # r => room'[q] = room[q]
        /\ Size(t)' = Size(t) + 1 /\ (x.own => Own(t)')
        /\ \A h : h # t => Size(h)' = Size(h) /\ (Own(h) => Own(h)')
    BY <1>2, <1>5, <2>1, <2>2, <2>3, Placed
  <2>5. c \in ClientType /\ c.room = r
    BY <1>3, <2>1, Apart DEF ClientType
  <2>6. client' = [client EXCEPT ![p] = c]
    BY <1>8
  <2> HIDE DEF c
  <2>7. /\ client' \in [Clients -> ClientType] /\ client'[p].room = r
        /\ \A q \in Clients : q # p => client'[q] = client[q]
    BY <1>3, <2>5, <2>6 DEF Inv, Typed
  <2>8. Numbers' /\ count'.rooms = r /\ count'.threads = count.threads
    BY <1>8, CountingRooms DEF Inv, Typed
  <2>9. Typed'
    BY <1>1, <1>4, <2>4, <2>7, <2>8 DEF Inv, Typed
  <2>10. Seated'
    <3>1. \A q \in Rooms : p \notin room[q].players
      BY <1>3, <1>8, Apart DEF InLobby
    <3>2. \A q \in Clients : client[q].room # r
      BY <2>1, <2>4, Made DEF Inv, Seated
    <3> QED
      BY <1>3, <2>1, <2>2, <2>4, <2>7, <3>1, <3>2 DEF Inv, Seated
  <2>11. Unmade'
    <3>1. ASSUME NEW q \in Rooms, q > r PROVE room'[q] = NoRoom
      <4>1. q # r /\ q > count.rooms
        BY <1>5, <3>1, Consts
      <4>2. room[q] = NoRoom
        BY <3>1, <4>1 DEF Inv, Unmade
      <4> QED
        BY <2>4, <3>1, <4>1, <4>2
    <3>2. \A h \in Threads : h > count.threads => thread[h].life \in {"none", "freed"}
      BY DEF Inv, Unmade
    <3>3. ASSUME NEW q \in Rooms, room'[q].life = "live" PROVE room'[q].thread \in 1..count.threads
      <4>1. CASE q = r
        BY <1>2, <2>2, <2>4, <4>1
      <4>2. CASE q # r
        BY <2>4, <3>3, <4>2 DEF Inv, Unmade
      <4> QED
        BY <4>1, <4>2
    <3> QED
      BY <1>1, <2>8, <3>1, <3>2, <3>3 DEF Unmade
  <2>12. \A h : Size(h) \in Nat /\ Size(h)' \in Nat
    BY Finite
  <2>13. /\ f.at = "placing" => Size(t) < RoomsPerThread
         /\ f.at = "quitting" => Few(t) /\ \A j \in 1..n : j # n /\ frames[j].at # "placing"
                                                            => frames[j].thread # t
    BY <1>1, <1>2 DEF FrameOK
  <2>14. Full'
    <3> SUFFICES ASSUME NEW h \in Threads
                 PROVE  Few(h)' \/ (Size(h)' = RoomsPerThread + 1 /\ Own(h)')
      BY DEF Full
    <3>1. CASE h # t
      BY <2>4, <3>1 DEF Inv, Full, Few
    <3>2. CASE h = t
      BY <1>3, <2>2, <2>4, <2>12, <2>13, <3>2, Consts DEF Few
    <3> QED
      BY <3>1, <3>2
  <2>15. ASSUME NEW i \in 1..n - 1 PROVE FrameOK(i)'
    <3>1. PICK h : h = frames[i].thread
      OBVIOUS
    <3>2. frames'[i] = frames[i] /\ frames'[i].thread = h /\ frames[i].at # "placing" /\ i # n
      <4>1. i # n
        BY <1>5, <2>15
      <4>2. frames'[i] = frames[i] /\ frames[i].at # "placing"
        BY <1>6, <2>15
      <4> QED
        BY <3>1, <4>1, <4>2
    <3>3. Few(h)'
      <4>1. Few(h)
        BY <1>6, <2>15, <3>1, <3>2 DEF FrameOK
      <4>2. CASE h # t
        BY <2>4, <4>1, <4>2 DEF Few
      <4>3. CASE h = t
        <5>1. f.at = "placing"
          BY <1>3, <1>6, <2>13, <2>15, <3>1, <3>2, <4>3
        <5> QED
          BY <2>4, <2>12, <2>13, <4>3, <5>1, Consts DEF Few
      <4> QED
        BY <4>2, <4>3
    <3>4. count'.rooms + i <= MaxRooms
      BY <1>5, <2>8, <2>15
    <3>5. /\ frames[i].do = "create" => h \in 1..count.threads
          /\ frames[i].at = "waiting" => thread[h].life = "starting"
          /\ frames[i].do = "login" => frames[i].at = "placing"
          /\ \A j \in 1..n : j # i /\ frames[j].at # "placing" => frames[j].thread # h
      BY <1>6, <2>15, <3>1, <3>2 DEF FrameOK
    <3>6. \A j \in 1..n - 1 : j # i /\ frames'[j].at # "placing" => frames'[j].thread # h
      BY <1>6, <2>15, <3>5
    <3>7. thread' = thread /\ count'.threads = count.threads /\ Len(frames') = n - 1
      BY <1>1, <2>8
    <3> QED
      BY <3>2, <3>3, <3>4, <3>5, <3>6, <3>7, FrameIs
  <2>16. Framed'
    BY <1>1, <2>15 DEF Framed
  <2> QED
    BY <2>9, <2>10, <2>11, <2>14, <2>16 DEF Inv
<1> QED
  BY <1>1, <1>7, <1>8 DEF Place

LEMMA PlaceInv == ASSUME Inv, Place PROVE Inv'
<1>1. PICK n, f, t, p, r : /\ n = Len(frames) /\ f = frames[n] /\ t = f.thread /\ p = f.owner
                           /\ r = count.rooms + 1
  OBVIOUS
<1> QED
  BY <1>1, PlaceStep

-----------------------------------------------------------------------------
(* Loops that are told to quit.                                             *)

LEMMA TurnedFrames ==
  ASSUME Inv, NEW C \in SUBSET (1..Len(frames)),
         frames' = [i \in DOMAIN frames |-> IF i \in C THEN [frames[i] EXCEPT !.at = "quitting"]
                                            ELSE frames[i]]
  PROVE  /\ frames' \in Seq(FrameType) /\ Len(frames') = Len(frames)
         /\ \A i \in 1..Len(frames) :
              /\ frames'[i].do = frames[i].do /\ frames'[i].thread = frames[i].thread
              /\ frames'[i].owner = frames[i].owner
              /\ frames'[i].at = IF i \in C THEN "quitting" ELSE frames[i].at
<1> DEFINE n == Len(frames)
<1>1. n \in Nat /\ DOMAIN frames = 1..n /\ \A i \in 1..n : frames[i] \in FrameType
  BY LenProperties, ElementOfSeq DEF Inv, Typed
<1>2. ASSUME NEW i \in 1..n
      PROVE  /\ frames'[i] \in FrameType
             /\ frames'[i].do = frames[i].do /\ frames'[i].thread = frames[i].thread
             /\ frames'[i].owner = frames[i].owner
             /\ frames'[i].at = IF i \in C THEN "quitting" ELSE frames[i].at
  BY <1>1 DEF FrameType
<1>3. frames' \in [1..n -> FrameType] /\ DOMAIN frames' = 1..n
  BY <1>1, <1>2
<1>4. frames' \in Seq(FrameType)
  BY <1>1, <1>3, SeqDef
<1>5. Len(frames') = n
  BY <1>1, <1>3, <1>4, LenProperties
<1> QED
  BY <1>2, <1>4, <1>5

LEMMA Turned ==
  ASSUME Inv, World', NEW t \in Threads, UNCHANGED <<room, client, count>>,
         thread' \in [Threads -> ThreadType], thread'[t].life \in {"serving", "freed"},
         thread'[t].life = "serving" => Alive(t),
         \A h \in Threads : h # t => thread'[h].life = thread[h].life,
         NEW C \in SUBSET (1..Len(frames)),
         \A i \in C : frames[i].at # "placing",
         \A i \in 1..Len(frames) : frames[i].thread = t /\ frames[i].at = "waiting" => i \in C,
         frames' \in Seq(FrameType), Len(frames') = Len(frames),
         \A i \in 1..Len(frames) :
           /\ frames'[i].do = frames[i].do /\ frames'[i].thread = frames[i].thread
           /\ frames'[i].at = IF i \in C THEN "quitting" ELSE frames[i].at
  PROVE  Inv'
<1>1. /\ frames' \in Seq(FrameType) /\ Len(frames') = Len(frames)
      /\ \A i \in 1..Len(frames) :
           /\ frames'[i].do = frames[i].do /\ frames'[i].thread = frames[i].thread
           /\ frames'[i].at = IF i \in C THEN "quitting" ELSE frames[i].at
  OBVIOUS
<1>2. Typed' /\ Seated'
  BY <1>1 DEF Inv, Typed, Numbers, Seated
<1>3. Full'
  <2>1. Mild
    BY DEF Mild
  <2> QED
    BY <2>1, MildFull DEF Inv
<1>4. Unmade'
  <2>1. \A h \in Threads : h > count.threads => thread'[h].life \in {"none", "freed"}
    BY DEF Inv, Unmade, Alive
  <2> QED
    BY <2>1 DEF Inv, Unmade
<1>5. ASSUME NEW i \in 1..Len(frames) PROVE FrameOK(i)'
  <2>1. PICK h : h = frames[i].thread
    OBVIOUS
  <2>2. /\ frames[i].at = "placing" => i = Len(frames)
        /\ frames[i].do = "login" => frames[i].at = "placing"
        /\ frames[i].do = "create" => h \in 1..count.threads /\ count.rooms + i <= MaxRooms
        /\ frames[i].at = "waiting" => thread[h].life = "starting" /\ h \in Threads
        /\ frames[i].at # "placing" =>
             /\ Few(h)
             /\ \A j \in 1..Len(frames) : j # i /\ frames[j].at # "placing" => frames[j].thread # h
        /\ frames[i].do = "create" /\ frames[i].at = "placing" => Size(h) < RoomsPerThread
    BY <1>5, <2>1, FrameFacts DEF FrameOK
  <2>3. Few(h)' = Few(h) /\ Size(h)' = Size(h)
    BY SameSize DEF Few
  <2>4. frames'[i].at = "placing" <=> frames[i].at = "placing"
    BY <1>1, <1>5
  <2>5. \A j \in 1..Len(frames) : frames'[j].at # "placing" => frames[j].at # "placing"
    BY <1>1
  <2>6. frames'[i].at = "waiting" => thread'[h].life = "starting"
    BY <1>1, <1>5, <2>1, <2>2
  <2>7. frames'[i].at # "placing" =>
           /\ Few(h)'
           /\ \A j \in 1..Len(frames') : j # i /\ frames'[j].at # "placing" => frames'[j].thread # h
    BY <1>1, <2>2, <2>3, <2>4, <2>5
  <2>8. h = frames'[i].thread /\ frames'[i].do = frames[i].do
    BY <1>1, <1>5, <2>1
  <2>9. /\ frames'[i].at = "placing" => i = Len(frames')
        /\ frames'[i].do = "login" => frames'[i].at = "placing"
        /\ frames'[i].do = "create" => h \in 1..count'.threads /\ count'.rooms + i <= MaxRooms
        /\ frames'[i].do = "create" /\ frames'[i].at = "placing" => Size(h)' < RoomsPerThread
    BY <1>1, <2>2, <2>3, <2>4, <2>8
  <2> QED
    BY <2>6, <2>7, <2>8, <2>9, FrameIs
<1> QED
  BY <1>1, <1>2, <1>3, <1>4, <1>5 DEF Inv, Framed

LEMMA LoadInv == ASSUME Inv, NEW t \in Threads, Load(t) PROVE Inv'
<1> DEFINE x == [thread[t] EXCEPT !.life = "serving", !.loaded = disk]
<1>0. PICK C : C = {i \in 1..Len(frames) : frames[i].thread = t /\ frames[i].at = "waiting"}
  OBVIOUS
<1>1. World' /\ UNCHANGED <<room, client, count>>
  BY DEF Load, Inv, Typed, World
<1>2. x \in ThreadType /\ x.life = "serving" /\ thread' = [thread EXCEPT ![t] = x]
  BY DEF Load, Inv, Typed, World, ThreadType
<1> HIDE DEF x
<1>3. /\ thread' \in [Threads -> ThreadType] /\ thread'[t].life = "serving" /\ Alive(t)
      /\ \A h \in Threads : h # t => thread'[h].life = thread[h].life
  BY <1>2 DEF Load, Inv, Typed, Alive
<1>4. frames' = [i \in DOMAIN frames |-> IF i \in C THEN [frames[i] EXCEPT !.at = "quitting"]
                                         ELSE frames[i]]
  <2>1. DOMAIN frames = 1..Len(frames)
    BY LenProperties DEF Inv, Typed
  <2> QED
    BY <1>0, <2>1 DEF Load, Pending
<1>5. C \in SUBSET (1..Len(frames)) /\ \A i \in C : frames[i].at # "placing"
  BY <1>0
<1>6. \A i \in 1..Len(frames) : frames[i].thread = t /\ frames[i].at = "waiting" => i \in C
  BY <1>0
<1>7. /\ frames' \in Seq(FrameType) /\ Len(frames') = Len(frames)
      /\ \A i \in 1..Len(frames) :
           /\ frames'[i].do = frames[i].do /\ frames'[i].thread = frames[i].thread
           /\ frames'[i].at = IF i \in C THEN "quitting" ELSE frames[i].at
  BY <1>4, <1>5, TurnedFrames
<1> QED
  BY <1>1, <1>3, <1>5, <1>6, <1>7, Turned

LEMMA DeleteThreadInv == ASSUME Inv, NEW t \in Threads, DeleteThread(t) PROVE Inv'
<1> DEFINE x == [NoThread EXCEPT !.life = "freed"]
<1>0. PICK C : C = {i \in 1..Len(frames) : frames[i].thread = t}
  OBVIOUS
<1>1. World' /\ UNCHANGED <<room, client, count>>
  BY DEF DeleteThread, Inv, Typed, World
<1>2. x \in ThreadType /\ x.life = "freed" /\ thread' = [thread EXCEPT ![t] = x]
  BY DEF DeleteThread, NoThread, ThreadType, Labels
<1> HIDE DEF x
<1>3. /\ thread' \in [Threads -> ThreadType] /\ thread'[t].life = "freed"
      /\ \A h \in Threads : h # t => thread'[h].life = thread[h].life
  BY <1>2 DEF Inv, Typed
<1>4. frames' = [i \in DOMAIN frames |-> IF i \in C THEN [frames[i] EXCEPT !.at = "quitting"]
                                         ELSE frames[i]]
  <2>1. DOMAIN frames = 1..Len(frames)
    BY LenProperties DEF Inv, Typed
  <2> QED
    BY <1>0, <2>1 DEF DeleteThread, Pending
<1>5. C \in SUBSET (1..Len(frames)) /\ \A i \in C : frames[i].at # "placing"
  BY <1>0, Loop DEF DeleteThread
<1>6. \A i \in 1..Len(frames) : frames[i].thread = t /\ frames[i].at = "waiting" => i \in C
  BY <1>0
<1>7. /\ frames' \in Seq(FrameType) /\ Len(frames') = Len(frames)
      /\ \A i \in 1..Len(frames) :
           /\ frames'[i].do = frames[i].do /\ frames'[i].thread = frames[i].thread
           /\ frames'[i].at = IF i \in C THEN "quitting" ELSE frames[i].at
  BY <1>4, <1>5, TurnedFrames
<1> QED
  BY <1>1, <1>3, <1>5, <1>6, <1>7, Turned

-----------------------------------------------------------------------------
(* The shell.                                                               *)

LEMMA ChangeFilesInv == ASSUME Inv, NEW v \in Versions, ChangeFiles(v) PROVE Inv'
<1>1. /\ Numbers' /\ count'.rooms = count.rooms /\ count'.threads = count.threads
      /\ UNCHANGED <<thread, room, client, frames>>
  BY Counting DEF ChangeFiles, Inv, Typed
<1>2. World'
  BY DEF ChangeFiles, Inv, Typed, World
<1> QED
  BY <1>1, <1>2, CalmStep DEF Inv, Typed

LEMMA ChangeQuietlyInv == ASSUME Inv, NEW v \in Versions, ChangeQuietly(v) PROVE Inv'
<1>1. /\ Numbers' /\ count'.rooms = count.rooms /\ count'.threads = count.threads
      /\ UNCHANGED <<thread, room, client, frames>>
  BY Counting DEF ChangeQuietly, Inv, Typed
<1>2. World'
  BY DEF ChangeQuietly, Inv, Typed, World
<1> QED
  BY <1>1, <1>2, CalmStep DEF Inv, Typed

LEMMA RecalculateInv == ASSUME Inv, Recalculate PROVE Inv'
<1>1. World' /\ Numbers' /\ UNCHANGED <<thread, room, client, frames, count>>
  BY DEF Recalculate, Inv, Typed, World, Numbers
<1> QED
  BY <1>1, CalmStep DEF Inv, Typed

LEMMA VisitRoomsInv == ASSUME Inv, VisitRooms PROVE Inv'
<1>1. /\ room' = AskRooms(Listed) /\ shell' = "threads"
      /\ UNCHANGED <<disk, md5, thread, client, frames, outlived, slipped, fault, count>>
  BY DEF VisitRooms
<1>2. posted' \subseteq PostType
  <2>1. \A r \in Listed : room[r].players \subseteq Clients
    BY DEF Listed, Inv, Typed, RoomType
  <2>2. UNION {room[r].players : r \in {r \in Listed : Outdated(room[r].md5) /\ ~room[r].started}}
          \subseteq Clients
    BY <2>1
  <2>3. posted \subseteq PostType
    BY DEF Inv, Typed, World
  <2> QED
    BY <2>2, <2>3 DEF VisitRooms, PostType
<1>3. World'
  BY <1>1, <1>2 DEF Inv, Typed, World
<1>4. room' \in [Rooms -> RoomType] /\ Seated' /\ Mild
  BY <1>1, AskedRooms DEF Inv
<1> QED
  BY <1>1, <1>3, <1>4, SeatStep DEF Inv, Typed

LEMMA Swept ==
  ASSUME Inv, SweepThreads
  PROVE  /\ thread' \in [Threads -> ThreadType] /\ outlived' \subseteq Threads
         /\ \A t \in Threads : thread'[t].life = thread[t].life
         /\ posted' \subseteq PostType
<1>1. /\ thread' \in [Threads -> ThreadType]
      /\ \A t \in Threads : thread'[t].life = thread[t].life
  BY AskedThreads DEF SweepThreads, Inv
<1>2. outlived' \subseteq Threads /\ posted' \subseteq PostType
  BY DEF SweepThreads, Inv, Typed, World, PostType
<1> QED
  BY <1>1, <1>2

LEMMA VisitThreadsInv == ASSUME Inv, VisitThreads PROVE Inv'
<1>1. /\ shell' = "lobby"
      /\ UNCHANGED <<disk, md5, room, client, frames, slipped, fault, count>>
  BY DEF VisitThreads
<1>2. /\ thread' \in [Threads -> ThreadType] /\ outlived' \subseteq Threads
      /\ \A t \in Threads : thread'[t].life = thread[t].life
      /\ posted' \subseteq PostType
  BY Swept DEF VisitThreads
<1>3. World' /\ Numbers'
  BY <1>1, <1>2 DEF Inv, Typed, World, Numbers
<1> QED
  BY <1>1, <1>2, <1>3, CalmStep

LEMMA StatInv == ASSUME Inv, Stat PROVE Inv'
<1>1. /\ fault' \in {"none", "getLua"}
      /\ UNCHANGED <<disk, md5, room, client, frames, shell, slipped, count>>
  BY DEF Stat
<1>2. /\ thread' \in [Threads -> ThreadType] /\ outlived' \subseteq Threads
      /\ \A t \in Threads : thread'[t].life = thread[t].life
      /\ posted' \subseteq PostType
  BY Swept DEF Stat
<1>3. World' /\ Numbers'
  BY <1>1, <1>2 DEF Inv, Typed, World, Numbers
<1> QED
  BY <1>1, <1>2, <1>3, CalmStep

LEMMA KickLobbyInv == ASSUME Inv, KickLobby PROVE Inv'
<1>1. /\ shell' = "idle"
      /\ UNCHANGED <<disk, md5, thread, room, client, frames, outlived, slipped, fault, count>>
  BY DEF KickLobby
<1>2. posted' \subseteq PostType
  BY DEF KickLobby, Inv, Typed, World, PostType
<1>3. World' /\ Numbers'
  BY <1>1, <1>2 DEF Inv, Typed, World, Numbers
<1> QED
  BY <1>1, <1>3, CalmStep DEF Inv, Typed

-----------------------------------------------------------------------------
(* The theorems.                                                            *)

LEMMA InitInv == Init => Inv
<1> SUFFICES ASSUME Init PROVE Inv
  OBVIOUS
<1>1. /\ thread = [t \in Threads |-> NoThread] /\ room = [r \in Rooms |-> NoRoom]
      /\ client = [p \in Clients |-> Away] /\ frames = <<>> /\ count.rooms = 0 /\ count.threads = 0
  BY DEF Init
<1>2. World /\ Numbers
  BY Consts DEF Init, World, Numbers, CountType, PostType
<1>3. NoThread \in ThreadType /\ NoThread.life = "none"
  BY DEF NoThread, ThreadType, Labels
<1>4. frames \in Seq(FrameType) /\ Len(frames) = 0
  BY <1>1, EmptySeq
<1>5. Typed
  BY <1>1, <1>2, <1>3, <1>4, Made DEF Typed
<1>6. Seated
  BY <1>1, Made, Consts DEF Seated
<1>7. Unmade
  BY <1>1, <1>3, Made DEF Unmade
<1>8. Framed
  BY <1>4 DEF Framed
<1>9. Full
  <2>1. ASSUME NEW t \in Threads PROVE Few(t)
    <3>1. Children(t) = {}
      BY <1>1, Made DEF Children
    <3> QED
      BY <3>1, FS_EmptySet, Consts DEF Few, Size
  <2> QED
    BY <2>1 DEF Full
<1> QED
  BY <1>5, <1>6, <1>7, <1>8, <1>9 DEF Inv

LEMMA StutterInv == ASSUME Inv, UNCHANGED vars PROVE Inv'
<1>1. World' /\ Numbers' /\ UNCHANGED <<thread, room, client, frames, count>>
  BY DEF vars, Inv, Typed, World, Numbers
<1> QED
  BY <1>1, CalmStep DEF Inv, Typed

\* Every step keeps the invariant.
LEMMA NextInv == Inv /\ [Next]_vars => Inv'
<1> SUFFICES ASSUME Inv, [Next]_vars PROVE Inv'
  OBVIOUS
<1>1. ASSUME NEW p \in Clients, CreateRoom(p) \/ Disconnect(p) \/ Kicked(p) \/ QuitRoom(p) PROVE Inv'
  BY <1>1, CreateRoomInv, DisconnectInv, KickedInv, QuitRoomInv
<1>2. ASSUME NEW p \in Clients, NEW died \in BOOLEAN, RunAway(p, died) PROVE Inv'
  BY <1>2, RunAwayInv
<1>3. ASSUME NEW p \in Clients, Login(p) \/ UpdateRoomList(p) \/ StartGame(p) PROVE Inv'
  BY <1>3, LoginInv, UpdateRoomListInv, StartGameInv
<1>4. ASSUME NEW p \in Clients, NEW r \in Rooms, EnterRoom(p, r) PROVE Inv'
  BY <1>4, EnterRoomInv
<1>5. ASSUME Place \/ Admit PROVE Inv'
  BY <1>5, PlaceInv, AdmitInv
<1>6. ASSUME NEW t \in Threads, NewRoom(t) \/ Load(t) \/ DeleteThread(t) PROVE Inv'
  BY <1>6, NewRoomInv, LoadInv, DeleteThreadInv
<1>7. ASSUME NEW r \in Rooms, GameOver(r) PROVE Inv'
  BY <1>7, GameOverInv
<1>8. ASSUME NEW v \in Versions, ChangeFiles(v) \/ ChangeQuietly(v) PROVE Inv'
  BY <1>8, ChangeFilesInv, ChangeQuietlyInv
<1>9. ASSUME Recalculate \/ VisitRooms \/ VisitThreads \/ KickLobby \/ Stat PROVE Inv'
  BY <1>9, RecalculateInv, VisitRoomsInv, VisitThreadsInv, KickLobbyInv, StatInv
<1>10. CASE UNCHANGED vars
  BY <1>10, StutterInv
<1> QED
  BY <1>1, <1>2, <1>3, <1>4, <1>5, <1>6, <1>7, <1>8, <1>9, <1>10 DEF Next

LEMMA SpecInv == Spec => []Inv
  BY InitInv, NextInv, PTL DEF Spec

\* The values the state can have, and a player is in the room he points to,
\* whatever is deleted between the posting of an event and its delivery
\* (Server::createRoom, RoomBase::removePlayer, Room::gameOver).
THEOREM Typing == Spec => []TypeOK
<1>1. Inv => TypeOK
  BY DEF Inv, Typed, World, Seated, TypeOK, ThreadType, RoomType, ClientType, FrameType, PostType,
         Labels
<1> QED
  BY <1>1, SpecInv, PTL

\* A thread has at most one room too many, the one it was made for, however
\* deep constructors are nested and whatever comes before their loops quit
\* (Server::createRoom, RoomThread::isFull).
THEOREM Capacity == Spec => []CapacityKept
<1>1. ASSUME Inv PROVE CapacityKept
  <2> SUFFICES ASSUME NEW t \in Threads
               PROVE  \/ Cardinality(Children(t)) <= RoomsPerThread
                      \/ /\ Cardinality(Children(t)) = RoomsPerThread + 1
                         /\ room[Max(Children(t))].own
    BY DEF CapacityKept
  <2>1. Few(t) \/ (Size(t) = RoomsPerThread + 1 /\ Own(t))
    BY <1>1 DEF Inv, Full
  <2>2. ASSUME Own(t) PROVE room[Max(Children(t))].own
    <3>1. PICK r \in Children(t) : room[r].own /\ \A q \in Children(t) : q <= r
      BY <2>2 DEF Own
    <3>2. Max(Children(t)) = r
      BY <3>1, Finite, MaxIs, SMTT(30)
    <3> QED
      BY <3>1, <3>2
  <2> QED
    BY <2>1, <2>2 DEF Few, Size
<1> QED
  BY <1>1, SpecInv, PTL

\* No constructor waits for a loop that nobody will quit
\* (roomthread.cpp:19-36, the destructor included).
THEOREM LoopsQuitting == Spec => []LoopsQuit
<1>1. ASSUME Inv PROVE LoopsQuit
  <2>1. DOMAIN frames = 1..Len(frames)
    BY <1>1, LenProperties DEF Inv, Typed
  <2> QED
    BY <1>1, <2>1 DEF LoopsQuit, Inv, Framed, FrameOK
<1> QED
  BY <1>1, SpecInv, PTL

-----------------------------------------------------------------------------
(* The renewal of the files.                                                *)

\* Threads: between two renewals a label is current or latched, and whoever was
\* found outdated is latched.
Labelled == \A t \in Threads : Alive(t) =>
  thread[t].md5 \in {md5, Latched} \/ shell \in {"rooms", "threads"}
Outlived == \A t \in outlived : thread[t].md5 = Latched /\ t <= count.threads
Unloaded == \A t \in Threads : thread[t].life = "starting" => thread[t].loaded = 0

\* Rooms: who is where, and a label is that of the thread unless one of them was
\* asked already.
Opened == \A r \in Rooms :
  /\ room[r].listed => room[r].life = "live"
  /\ room[r].players # {} => room[r].listed
  /\ room[r].inLua => room[r].started
  /\ room[r].started => room[r].life = "live"
LikeThread == fault # "rooms" => \A r \in Rooms :
  room[r].listed /\ ~room[r].midway /\ room[r].md5 # Latched =>
    /\ shell # "rooms" => room[r].md5 = md5
    /\ room[r].md5 = thread[room[r].thread].md5 \/ (shell = "rooms" /\ room[r].md5 # md5)
\* A game that Lua has not taken up; a thread about to be deleted.
Requested == \A t \in Threads : \A r \in thread[t].requests :
  \/ room[r] = FreedRoom
  \/ room[r].thread = t /\ room[r].started /\ ~room[r].inLua
Doomed == \A t \in Threads : <<"delete", t>> \in posted =>
  /\ t \in outlived
  /\ \A r \in Children(t) : room[r].md5 = Latched /\ ~room[r].started
\* A room with a label that is neither current nor latched was made during a
\* renewal: nobody has entered it since.
Stray == \A r \in Rooms :
  room[r].listed /\ room[r].md5 \notin {md5, Latched} /\ shell # "rooms" =>
    ~room[r].started /\ room[r].players \subseteq slipped

\* Clients: who is out but has a seat, who has other files than the server, and
\* whose files are those of the thread.
Absent == \A p \in Clients :
  client[p].at = "out" /\ client[p].room # Lobby => room[client[p].room].started
Calm(p) == client[p].at = "in" /\ p \notin slipped
Versed == \A p \in Clients : Calm(p) => client[p].files # 0
Confined == \A p \in Clients :
  Calm(p) /\ <<"kick", p>> \notin posted /\ client[p].files # md5 =>
    \/ client[p].room = Lobby /\ shell \in {"rooms", "threads", "lobby"}
    \/ client[p].room # Lobby /\ Outdated(room[client[p].room].md5)
Matched == \A r \in Rooms : \A p \in room[r].players :
  Calm(p) /\ <<"kick", p>> \notin posted =>
    \/ client[p].files = thread[room[r].thread].loaded
    \/ fault = "rooms" /\ ~room[r].inLua
Logging == \A i \in 1..Len(frames) :
  frames[i].do = "login" => client[frames[i].owner].at = "out"

OfThreads == Labelled /\ Outlived /\ Unloaded
OfRooms   == Opened /\ LikeThread /\ Doomed /\ Stray
OfClients == Absent /\ Versed /\ Confined /\ Matched
Renewal   == OfThreads /\ OfRooms /\ Requested /\ OfClients /\ Logging

\* What a step leaves of the labels, but in refreshMd5.
Settled == UNCHANGED <<md5, shell, outlived>>

\* What a step does to a room, if it does not make it.
Shift(r) ==
  /\ room[r].life = "live" /\ room'[r].life = "live"
  /\ room'[r].thread = room[r].thread /\ room'[r].midway = room[r].midway
  /\ room'[r].listed => room[r].listed
  /\ room'[r].players # {} => room'[r].listed
  /\ room'[r].inLua => room'[r].started
  /\ room'[r].md5 \in {room[r].md5, Latch(room[r].md5)}
  /\ room'[r].started => room[r].started \/ (room[r].listed /\ ~Outdated(room[r].md5))
  /\ Outdated(room[r].md5) => room'[r].players \subseteq room[r].players
RoomStep == \A r \in Rooms :
  room'[r] = room[r] \/ (room'[r] = FreedRoom /\ room[r].life = "live") \/ Shift(r)
Grown == \A r \in Rooms :
  \/ room[r] = NoRoom \/ room'[r] = room[r]
  \/ (room'[r] = FreedRoom /\ room[r].life = "live") \/ Shift(r)
LEMMA StepGrows == RoomStep => Grown
  BY DEF RoomStep, Grown

LEMMA LatchIs ==
  ASSUME NEW x, md5 \in Versions
  PROVE  /\ Latch(x) \in {x, Latched} /\ (x = md5 => Latch(x) = x) /\ (x # md5 => Latch(x) = Latched)
         /\ md5 # Latched /\ Outdated(Latched)
<1>1. md5 # Latched
  BY PoolConstants DEF Latched
<1>2. Latch(x) = IF x # md5 THEN Latched ELSE x
  BY DEF Latch, Outdated
<1> QED
  BY <1>1, <1>2 DEF Outdated

LEMMA Numbered == ASSUME Inv PROVE \A t \in 1..count.threads : t \in Threads
<1>1. count.threads \in Nat /\ count.threads <= MaxThreads /\ MaxThreads \in Nat
  BY Consts DEF Inv, Typed, Numbers, CountType
<1> QED
  BY <1>1 DEF Threads

LEMMA HomeThread ==
  ASSUME Inv, NEW r \in Rooms, room[r].life = "live"
  PROVE  room[r].thread \in Threads /\ room[r].thread \in 1..count.threads
<1>1. room[r].thread \in 1..count.threads
  BY DEF Inv, Unmade
<1>2. count.threads \in Nat /\ count.threads <= MaxThreads /\ MaxThreads \in Nat
  BY Consts DEF Inv, Typed, Numbers, CountType
<1> QED
  BY <1>1, <1>2 DEF Threads

LEMMA NotLive == ~FreedRoom.listed /\ ~FreedRoom.started /\ ~FreedRoom.inLua
                 /\ ~NoRoom.started
  BY DEF FreedRoom, NoRoom

\* What a step does to a client.
Leaving(p) ==
  /\ client'[p].at = "out"
  /\ client'[p].room # Lobby => room'[client'[p].room].started
Staying(p) ==
  /\ client'[p] = client[p] /\ (p \in slipped => p \in slipped')
  /\ client[p].at = "in" /\ <<"kick", p>> \in posted => <<"kick", p>> \in posted'
  /\ client[p].at = "out" /\ client[p].room # Lobby /\ room[client[p].room].started =>
       room'[client[p].room].started
Moving(p) ==
  /\ client'[p].at = "in"
  /\ p \notin slipped' =>
       \/ <<"kick", p>> \in posted' /\ client'[p].files # 0
       \/ /\ client'[p].files = md5
          /\ client'[p].room # Lobby => thread'[room'[client'[p].room].thread].loaded = md5
ClientStep == \A p \in Clients : Leaving(p) \/ Staying(p) \/ Moving(p)

LEMMA RoomsKept ==
  ASSUME Inv, Inv', OfRooms, RoomStep, Settled, fault = "none",
         slipped \subseteq slipped', fault' # "rooms",
         \A t \in 1..count.threads : thread'[t].md5 \in {thread[t].md5, Latch(thread[t].md5)},
         \A t \in Threads : <<"delete", t>> \in posted' => <<"delete", t>> \in posted
  PROVE  OfRooms'
<1>1. /\ room \in [Rooms -> RoomType] /\ room' \in [Rooms -> RoomType] /\ md5 \in Versions
      /\ md5' = md5 /\ shell' = shell /\ outlived' = outlived
  BY DEF Inv, Typed, World, Settled
<1>2. ASSUME NEW r \in Rooms
      PROVE  /\ room[r].md5 \in Labels /\ room'[r].md5 \in Labels /\ room[r].listed \in BOOLEAN
             /\ room[r].players \subseteq Clients /\ room'[r].started \in BOOLEAN
             /\ room[r].started \in BOOLEAN
             /\ Latch(room[r].md5) \in {room[r].md5, Latched}
             /\ md5 # Latched /\ Outdated(Latched)
             /\ room[r].md5 = md5 => Latch(room[r].md5) = room[r].md5
             /\ room[r].md5 # md5 => Latch(room[r].md5) = Latched
             /\ room'[r] = room[r] \/ (room'[r] = FreedRoom /\ room[r].life = "live") \/ Shift(r)
  <2>1. room[r] \in RoomType /\ room'[r] \in RoomType
    BY <1>1
  <2>2. room[r].md5 \in Labels /\ room'[r].md5 \in Labels /\ room[r].listed \in BOOLEAN
        /\ room[r].players \subseteq Clients /\ room'[r].started \in BOOLEAN
        /\ room[r].started \in BOOLEAN
    BY <2>1 DEF RoomType
  <2> QED
    BY <1>1, <2>2, LatchIs DEF RoomStep
<1>3. Opened'
  BY <1>2, Made, NotLive DEF OfRooms, Opened, Shift
<1>4. LikeThread'
  <2> SUFFICES ASSUME NEW r \in Rooms, room'[r].listed, ~room'[r].midway, room'[r].md5 # Latched
               PROVE  /\ shell # "rooms" => room'[r].md5 = md5
                      /\ room'[r].md5 = thread'[room'[r].thread].md5
                           \/ (shell = "rooms" /\ room'[r].md5 # md5)
    BY <1>1 DEF LikeThread
  <2>1. /\ room[r].listed /\ ~room[r].midway /\ room'[r].md5 = room[r].md5
        /\ room'[r].thread = room[r].thread
    BY <1>2, NotLive DEF Shift
  <2>2. /\ shell # "rooms" => room[r].md5 = md5
        /\ room[r].md5 = thread[room[r].thread].md5 \/ (shell = "rooms" /\ room[r].md5 # md5)
    BY <2>1 DEF OfRooms, LikeThread
  <2>3. room[r].thread \in 1..count.threads
    <3>1. room[r].life = "live"
      BY <2>1 DEF OfRooms, Opened
    <3> QED
      BY <3>1, HomeThread
  <2>4. thread'[room[r].thread].md5 \in {thread[room[r].thread].md5, Latch(thread[room[r].thread].md5)}
    BY <2>3
  <2>5. thread[room[r].thread].md5 = md5 => Latch(thread[room[r].thread].md5) = md5
    BY <1>1, LatchIs
  <2> QED
    BY <2>1, <2>2, <2>4, <2>5
<1>5. Doomed'
  <2> SUFFICES ASSUME NEW t \in Threads, <<"delete", t>> \in posted'
               PROVE  t \in outlived /\ \A r \in Children(t)' : room'[r].md5 = Latched /\ ~room'[r].started
    BY <1>1 DEF Doomed
  <2>1. t \in outlived /\ \A r \in Children(t) : room[r].md5 = Latched /\ ~room[r].started
    BY DEF OfRooms, Doomed
  <2>2. ASSUME NEW r \in Rooms, r \in Children(t)' PROVE room'[r].md5 = Latched /\ ~room'[r].started
    <3>1. room'[r].thread = t /\ room'[r].life = "live"
      BY <2>2 DEF Children
    <3>2. r \in Children(t)
      BY <1>2, <3>1, Made DEF Children, Shift
    <3>3. room[r].md5 = Latched /\ ~room[r].started
      BY <2>1, <3>2
    <3> QED
      BY <1>2, <3>1, <3>3, Made DEF Shift
  <2> QED
    BY <2>1, <2>2 DEF Children
<1>6. Stray'
  <2> SUFFICES ASSUME NEW r \in Rooms, room'[r].listed, room'[r].md5 \notin {md5, Latched},
                      shell # "rooms"
               PROVE  ~room'[r].started /\ room'[r].players \subseteq slipped'
    BY <1>1 DEF Stray
  <2>1. room[r].listed /\ room'[r].md5 = room[r].md5
    BY <1>2, NotLive DEF Shift
  <2>2. ~room[r].started /\ room[r].players \subseteq slipped
    BY <2>1 DEF OfRooms, Stray
  <2> QED
    BY <1>2, <2>1, <2>2, NotLive DEF Shift, Outdated
<1> QED
  BY <1>3, <1>4, <1>5, <1>6 DEF OfRooms

LEMMA ClientsKept ==
  ASSUME Inv, Inv', OfRooms, OfClients, Grown, ClientStep, Settled, fault = "none",
         \A t \in 1..count.threads :
            thread'[t].loaded = thread[t].loaded \/ thread[t].loaded = 0 \/ Children(t) = {}
  PROVE  OfClients'
<1>1. /\ room \in [Rooms -> RoomType] /\ room' \in [Rooms -> RoomType] /\ md5 \in Versions
      /\ client \in [Clients -> ClientType] /\ client' \in [Clients -> ClientType]
      /\ md5' = md5 /\ shell' = shell
  BY DEF Inv, Typed, World, Settled
<1>2. md5 # 0
  BY <1>1, PoolConstants
<1>3. ASSUME NEW p \in Clients, Staying(p), client[p].room # Lobby, NEW r, r = client[p].room
      PROVE  /\ r \in Rooms /\ p \in room[r].players /\ p \in room'[r].players
             /\ room'[r].thread = room[r].thread /\ room[r].thread \in 1..count.threads
             /\ r \in Children(room[r].thread)
             /\ room[r].md5 # md5 => room'[r].md5 # md5
  <2>1. r \in Rooms /\ p \in room[r].players
    BY <1>3, Apart
  <2>2. p \in room'[r].players
    BY <1>3, <2>1 DEF Staying, Inv, Seated
  <2>3. room'[r] = room[r] \/ Shift(r)
    BY <2>1, <2>2, Made DEF Grown
  <2>4. room[r].life = "live" /\ room[r].md5 \in Labels
    BY <1>1, <2>1 DEF OfRooms, Opened, RoomType
  <2>5. room[r].thread \in 1..count.threads /\ r \in Children(room[r].thread)
    BY <2>1, <2>4, HomeThread DEF Children
  <2>6. room[r].md5 # md5 => room'[r].md5 # md5
    BY <1>1, <2>3, <2>4, LatchIs DEF Shift, Outdated
  <2> QED
    BY <2>1, <2>2, <2>3, <2>5, <2>6 DEF Shift
<1>4. Absent'
  BY <1>3 DEF ClientStep, Leaving, Staying, Moving, OfClients, Absent
<1>5. Versed'
  BY <1>2 DEF ClientStep, Leaving, Staying, Moving, OfClients, Versed, Calm
<1>6. Confined'
  <2> SUFFICES ASSUME NEW p \in Clients, client'[p].at = "in", p \notin slipped',
                      <<"kick", p>> \notin posted', client'[p].files # md5
               PROVE  \/ client'[p].room = Lobby /\ shell \in {"rooms", "threads", "lobby"}
                      \/ client'[p].room # Lobby /\ room'[client'[p].room].md5 # md5
    BY <1>1 DEF Confined, Calm, Outdated
  <2>1. Staying(p)
    BY DEF ClientStep, Leaving, Moving
  <2>2. /\ client'[p] = client[p]
        /\ \/ client[p].room = Lobby /\ shell \in {"rooms", "threads", "lobby"}
           \/ client[p].room # Lobby /\ room[client[p].room].md5 # md5
    BY <2>1 DEF Staying, OfClients, Confined, Calm, Outdated
  <2> QED
    BY <1>3, <2>1, <2>2
<1>7. Matched'
  <2> SUFFICES ASSUME NEW r \in Rooms, NEW p \in room'[r].players, client'[p].at = "in",
                      p \notin slipped', <<"kick", p>> \notin posted'
               PROVE  client'[p].files = thread'[room'[r].thread].loaded
    BY DEF Matched, Calm
  <2>1. p \in Clients /\ client'[p].room = r /\ r # Lobby
    BY <1>1, Consts DEF RoomType, Inv, Seated
  <2>2. CASE Moving(p)
    BY <2>1, <2>2 DEF Moving
  <2>3. CASE Staying(p)
    <3>1. /\ client'[p] = client[p] /\ p \notin slipped /\ <<"kick", p>> \notin posted
          /\ client[p].room = r /\ p \in room[r].players
          /\ room'[r].thread = room[r].thread /\ room[r].thread \in 1..count.threads
          /\ Children(room[r].thread) # {}
      BY <1>3, <2>1, <2>3 DEF Staying
    <3>2. client[p].files = thread[room[r].thread].loaded /\ client[p].files # 0
      BY <2>1, <3>1 DEF OfClients, Matched, Versed, Calm, Staying
    <3>3. thread'[room[r].thread].loaded = thread[room[r].thread].loaded
      BY <3>1, <3>2
    <3> QED
      BY <3>1, <3>2, <3>3
  <2> QED
    BY <2>1, <2>2, <2>3 DEF ClientStep, Leaving
<1> QED
  BY <1>4, <1>5, <1>6, <1>7 DEF OfClients

\* Steps that change neither frames nor what is known of a thread.
Quiet ==
  /\ Settled /\ fault = "none" /\ UNCHANGED <<fault, frames>>
  /\ slipped \subseteq slipped' /\ count'.threads = count.threads
  /\ \A t \in Threads : /\ <<"delete", t>> \in posted' => <<"delete", t>> \in posted
                        /\ thread'[t].md5 = thread[t].md5 /\ thread'[t].life = thread[t].life
                        /\ thread'[t].loaded = thread[t].loaded
StillOut == \A p \in Clients : client[p].at = "out" => client'[p].at = "out"
Pends == \A r \in Rooms :
  /\ room[r] = FreedRoom => room'[r] = FreedRoom
  /\ room[r].started /\ ~room[r].inLua =>
       \/ room'[r] = FreedRoom
       \/ room'[r].thread = room[r].thread /\ room'[r].started /\ ~room'[r].inLua

LEMMA LoggingKept ==
  ASSUME Inv, Logging, StillOut, Len(frames') = Len(frames),
         \A i \in 1..Len(frames) : frames'[i].do = frames[i].do /\ frames'[i].owner = frames[i].owner
  PROVE  Logging'
<1>1. \A i \in 1..Len(frames) : frames[i].owner \in Clients
  BY FrameFacts DEF FrameType
<1> QED
  BY <1>1 DEF Logging, StillOut

LEMMA QuietKept ==
  ASSUME Inv, Inv', Renewal, Quiet, RoomStep, ClientStep, StillOut
  PROVE  OfThreads' /\ OfRooms' /\ OfClients' /\ Logging' /\ Grown
<1>0. Grown /\ \A t \in 1..count.threads : t \in Threads
  BY StepGrows, Numbered
<1>1. OfThreads'
  BY DEF Renewal, OfThreads, Labelled, Alive, Outlived, Unloaded, Quiet, Settled, Inv, Typed, World
<1>2. OfRooms'
  BY <1>0, RoomsKept DEF Renewal, Quiet
<1>3. OfClients'
  BY <1>0, ClientsKept DEF Renewal, Quiet
<1>4. Logging'
  BY LoggingKept DEF Renewal, Quiet
<1> QED
  BY <1>0, <1>1, <1>2, <1>3, <1>4

LEMMA RequestedKept ==
  ASSUME Inv, Requested, Pends, thread' = thread
  PROVE  Requested'
<1>1. \A t \in Threads : thread[t].requests \subseteq Rooms
  BY DEF Inv, Typed, ThreadType
<1> QED
  BY <1>1 DEF Requested, Pends

LEMMA SeatsKept ==
  ASSUME Inv, Inv', Renewal, Quiet, RoomStep, ClientStep, StillOut, Pends, thread' = thread
  PROVE  Renewal' /\ Grown
  BY QuietKept, RequestedKept DEF Renewal

\* Leaving a room.
LEMMA WithoutStep ==
  ASSUME Inv, OfRooms, md5' = md5, NEW p \in Clients, NEW quit \in BOOLEAN, room' = Without(p, quit)
  PROVE  /\ RoomStep /\ Pends
         /\ \A q \in Clients : q # p /\ client[q].room # Lobby =>
              (room[client[q].room].started => room'[client[q].room].started)
<1> DEFINE r    == client[p].room
           rest == room[r].players \ {p}
           l    == IF quit THEN Latch(room[r].md5) ELSE room[r].md5
           y    == [room[r] EXCEPT !.players = rest, !.listed = rest # {}, !.md5 = l]
           x    == IF rest = {} /\ ~room[r].inLua THEN FreedRoom ELSE y
<1>1. CASE r = Lobby
  <2>1. room' = room
    BY <1>1 DEF Without
  <2> QED
    BY <2>1 DEF RoomStep, Pends
<1>2. CASE r # Lobby
  <2>1. r \in Rooms /\ p \in room[r].players /\ room[r] \in RoomType
    BY <1>2, Apart DEF Inv, Typed
  <2>2. room[r].listed /\ room[r].life = "live" /\ (room[r].inLua => room[r].started)
    BY <2>1 DEF OfRooms, Opened
  <2>3. room' = [room EXCEPT ![r] = x]
    BY <1>2 DEF Without
  <2>4. /\ y.players = rest /\ y.listed = (rest # {}) /\ y.md5 = l /\ y.life = room[r].life
        /\ y.thread = room[r].thread /\ y.midway = room[r].midway
        /\ y.started = room[r].started /\ y.inLua = room[r].inLua
    BY <2>1, ZenonT(60) DEF RoomType
  <2> HIDE DEF y
  <2>5. l \in {room[r].md5, Latch(room[r].md5)}
    OBVIOUS
  <2> HIDE DEF l
  <2>6. room'[r] = x /\ \A q \in Rooms : q # r => room'[q] = room[q]
    BY <2>1, <2>3 DEF Inv, Typed
  <2>7. x = FreedRoom \/ (x = y /\ (rest = {} => room[r].inLua))
    BY DEF x
  <2>8. rest # {} => x = y
    BY DEF x
  <2> HIDE DEF x
  <2>9. RoomStep
    <3>1. ASSUME x = y PROVE Shift(r)
      BY <2>2, <2>4, <2>5, <2>6, <3>1, Zenon DEF Shift
    <3> QED
      BY <2>2, <2>6, <2>7, <3>1 DEF RoomStep
  <2>10. Pends
    <3>1. room[r] # FreedRoom
      BY <2>2, Made
    <3>2. room[r].started /\ ~room[r].inLua =>
            \/ room'[r] = FreedRoom
            \/ room'[r].thread = room[r].thread /\ room'[r].started /\ ~room'[r].inLua
      BY <2>4, <2>6, <2>7, Zenon
    <3> QED
      BY <2>6, <3>1, <3>2 DEF Pends
  <2>11. ASSUME NEW q \in Clients, q # p, client[q].room # Lobby
         PROVE  room[client[q].room].started => room'[client[q].room].started
    <3>1. CASE client[q].room = r
      <4>1. q \in rest
        BY <2>11, <3>1, Apart
      <4>2. room'[r].started = room[r].started
        BY <2>4, <2>6, <2>8, <4>1
      <4> QED
        BY <3>1, <4>2
    <3>2. CASE client[q].room # r
      BY <2>6, <2>11, <3>2, Apart
    <3> QED
      BY <3>1, <3>2
  <2> QED
    BY <2>9, <2>10, <2>11
<1> QED
  BY <1>1, <1>2

\* Everybody but p.
LEMMA OthersStay ==
  ASSUME Inv, OfRooms, NEW p \in Clients, slipped \subseteq slipped', Forget(p) \subseteq posted',
         client' = [client EXCEPT ![p] = client'[p]],
         \A q \in Clients : q # p /\ client[q].room # Lobby =>
              (room[client[q].room].started => room'[client[q].room].started),
         Leaving(p) \/ Moving(p)
  PROVE  ClientStep
<1>1. ASSUME NEW q \in Clients, q # p PROVE Staying(q)
  <2>1. client'[q] = client[q]
    BY <1>1 DEF Inv, Typed
  <2>2. <<"kick", q>> \in posted => <<"kick", q>> \in posted'
    BY <1>1 DEF Forget
  <2> QED
    BY <1>1, <2>1, <2>2 DEF Staying
<1> QED
  BY <1>1 DEF ClientStep

LEMMA ForgetDeletes == \A p, t : <<"delete", t>> \in Forget(p) => <<"delete", t>> \in posted
  BY DEF Forget

LEMMA DropsRenewal ==
  ASSUME Inv, Inv', Renewal, NEW p \in Clients, client[p].at = "in", fault = "none",
         client' = Dropped(p), room' = IF InGame(p) THEN room ELSE Without(p, FALSE),
         Forget(p) \subseteq posted', posted' \subseteq posted,
         UNCHANGED <<md5, thread, frames, shell, outlived, slipped, fault, count>>
  PROVE  Renewal' /\ Grown
<1>1. OfRooms
  BY DEF Renewal
<1>2. Quiet
  BY DEF Quiet, Settled
<1>3. /\ RoomStep /\ Pends
      /\ \A q \in Clients : q # p /\ client[q].room # Lobby =>
           (room[client[q].room].started => room'[client[q].room].started)
  <2>1. CASE InGame(p)
    <3>1. room' = room
      BY <2>1
    <3> QED
      BY <3>1 DEF RoomStep, Pends
  <2>2. CASE ~InGame(p)
    <3>1. room' = Without(p, FALSE)
      BY <2>2
    <3> QED
      BY <1>1, <3>1, WithoutStep
  <2> QED
    BY <2>1, <2>2
<1>4. client' = [client EXCEPT ![p] = client'[p]] /\ Leaving(p)
  <2>1. client[p] \in ClientType /\ p \in DOMAIN client
    BY Apart DEF Inv, Typed
  <2>2. CASE InGame(p)
    <3>1. client' = [client EXCEPT ![p] = [client[p] EXCEPT !.at = "out"]] /\ room' = room
      BY <2>2 DEF Dropped
    <3>2. client'[p] = [client[p] EXCEPT !.at = "out"]
      BY <2>1, <3>1
    <3>3. client'[p].at = "out" /\ client'[p].room = client[p].room
      BY <2>1, <3>2 DEF ClientType
    <3> QED
      BY <2>2, <3>1, <3>2, <3>3 DEF Leaving, InGame
  <2>3. CASE ~InGame(p)
    <3>1. client' = [client EXCEPT ![p] = Away]
      BY <2>3 DEF Dropped
    <3>2. client'[p] = Away
      BY <2>1, <3>1
    <3>3. Away.at = "out" /\ Away.room = Lobby
      BY DEF Away
    <3> QED
      BY <3>1, <3>2, <3>3 DEF Leaving
  <2> QED
    BY <2>2, <2>3
<1>5. ClientStep
  BY <1>1, <1>3, <1>4, OthersStay
<1>6. StillOut
  BY <1>4 DEF StillOut, Leaving, Inv, Typed
<1> QED
  BY <1>2, <1>3, <1>5, <1>6, SeatsKept

LEMMA DisconnectRenewal ==
  ASSUME Inv, Inv', Renewal, NEW p \in Clients, Disconnect(p) PROVE Renewal' /\ Grown
<1>1. posted' \subseteq posted /\ Forget(p) \subseteq posted'
  BY DEF Disconnect, Forget
<1> QED
  BY <1>1, DropsRenewal DEF Disconnect, InLoop

LEMMA KickedRenewal ==
  ASSUME Inv, Inv', Renewal, NEW p \in Clients, Kicked(p) PROVE Renewal' /\ Grown
<1>1. posted' \subseteq posted /\ Forget(p) = posted'
  BY DEF Kicked, Forget
<1>2. CASE client[p].at = "in"
  BY <1>1, <1>2, DropsRenewal DEF Kicked, InLoop
<1>3. CASE client[p].at # "in"
  <2>1. Quiet /\ RoomStep /\ Pends /\ StillOut /\ thread' = thread
    BY <1>1, <1>3 DEF Kicked, InLoop, Quiet, Settled, RoomStep, Pends, StillOut
  <2>2. ASSUME NEW q \in Clients PROVE Staying(q)
    BY <1>1, <1>3 DEF Kicked, Staying, Forget
  <2> QED
    BY <2>1, <2>2, SeatsKept DEF ClientStep
<1> QED
  BY <1>2, <1>3

-----------------------------------------------------------------------------
(* Coming and going.                                                       *)

LEMMA QuitRoomRenewal ==
  ASSUME Inv, Inv', Renewal, NEW p \in Clients, QuitRoom(p) PROVE Renewal' /\ Grown
<1> DEFINE r == client[p].room
           c == IF Outdated(room[r].md5) THEN Away ELSE [client[p] EXCEPT !.room = Lobby]
<1>1. /\ fault = "none" /\ client[p].at = "in" /\ r # Lobby /\ OfRooms
      /\ client' = [client EXCEPT ![p] = c] /\ room' = Without(p, TRUE)
      /\ posted' = IF Outdated(room[r].md5) THEN Forget(p) ELSE posted
      /\ slipped' = IF shell = "idle" THEN slipped ELSE slipped \cup {p}
      /\ UNCHANGED <<disk, md5, thread, frames, shell, outlived, fault, count>>
  BY DEF QuitRoom, InLoop, Slip, Renewal
<1>2. client[p] \in ClientType /\ client'[p] = c
  BY <1>1, Apart DEF Inv, Typed
<1>3. Quiet
  BY <1>1, ForgetDeletes DEF Quiet, Settled
<1>4. /\ RoomStep /\ Pends
      /\ \A q \in Clients : q # p /\ client[q].room # Lobby =>
           (room[client[q].room].started => room'[client[q].room].started)
  BY <1>1, WithoutStep
<1>5. Leaving(p) \/ Moving(p)
  <2>1. CASE Outdated(room[r].md5)
    BY <1>2, <2>1 DEF Away, Leaving
  <2>2. CASE ~Outdated(room[r].md5)
    <3>1. client'[p].at = "in" /\ client'[p].room = Lobby /\ client'[p].files = client[p].files
      <4>1. client'[p] = [client[p] EXCEPT !.room = Lobby]
        BY <1>2, <2>2
      <4> QED
        BY <1>1, <1>2, <4>1 DEF ClientType
    <3>2. ASSUME p \notin slipped' PROVE \/ <<"kick", p>> \in posted' /\ client[p].files # 0
                                         \/ client[p].files = md5
      BY <1>1, <2>2, <3>2 DEF Renewal, OfClients, Versed, Confined, Calm
    <3> QED
      BY <3>1, <3>2 DEF Moving
  <2> QED
    BY <2>1, <2>2
<1> HIDE DEF c
<1>6. ClientStep
  <2>1. slipped \subseteq slipped' /\ Forget(p) \subseteq posted'
    BY <1>1 DEF Forget
  <2>2. client' = [client EXCEPT ![p] = client'[p]]
    BY <1>1, <1>2
  <2> QED
    BY <1>1, <1>4, <1>5, <2>1, <2>2, OthersStay
<1>7. StillOut
  BY <1>1 DEF StillOut, Inv, Typed
<1> QED
  BY <1>1, <1>3, <1>4, <1>6, <1>7, SeatsKept

LEMMA RunAwayRenewal ==
  ASSUME Inv, Inv', Renewal, NEW p \in Clients, NEW died \in BOOLEAN, RunAway(p, died)
  PROVE  Renewal' /\ Grown
<1> DEFINE c == IF died THEN [client[p] EXCEPT !.room = Lobby] ELSE Away
<1>1. /\ fault = "none" /\ client[p].at = "in" /\ OfRooms
      /\ client' = [client EXCEPT ![p] = c] /\ room' = Without(p, TRUE)
      /\ posted' = Forget(p)
      /\ slipped' = IF died /\ Outdated(client[p].files) THEN slipped \cup {p} ELSE slipped
      /\ UNCHANGED <<disk, md5, thread, frames, shell, outlived, fault, count>>
  BY DEF RunAway, InLoop, Renewal
<1>2. client[p] \in ClientType /\ client'[p] = c
  BY <1>1, Apart DEF Inv, Typed
<1>3. Quiet
  BY <1>1, ForgetDeletes DEF Quiet, Settled
<1>4. /\ RoomStep /\ Pends
      /\ \A q \in Clients : q # p /\ client[q].room # Lobby =>
           (room[client[q].room].started => room'[client[q].room].started)
  BY <1>1, WithoutStep
<1>5. Leaving(p) \/ Moving(p)
  <2>1. CASE ~died
    BY <1>2, <2>1 DEF Away, Leaving
  <2>2. CASE died
    <3>1. client'[p].at = "in" /\ client'[p].room = Lobby /\ client'[p].files = client[p].files
      <4>1. client'[p] = [client[p] EXCEPT !.room = Lobby]
        BY <1>2, <2>2
      <4> QED
        BY <1>1, <1>2, <4>1 DEF ClientType
    <3> QED
      BY <1>1, <2>2, <3>1 DEF Moving, Outdated
  <2> QED
    BY <2>1, <2>2
<1> HIDE DEF c
<1>6. ClientStep
  <2>1. slipped \subseteq slipped' /\ Forget(p) \subseteq posted'
    BY <1>1 DEF Forget
  <2>2. client' = [client EXCEPT ![p] = client'[p]]
    BY <1>1, <1>2
  <2> QED
    BY <1>1, <1>4, <1>5, <2>1, <2>2, OthersStay
<1>7. StillOut
  BY <1>1 DEF StillOut, Inv, Typed
<1> QED
  BY <1>1, <1>3, <1>4, <1>6, <1>7, SeatsKept

\* Rooms that are asked.
LEMMA AskStep ==
  ASSUME Inv, OfRooms, NEW rs, room' = AskRooms(rs), UNCHANGED <<md5>>
  PROVE  RoomStep /\ Pends /\ \A r \in Rooms : room'[r].started = room[r].started
<1>1. ASSUME NEW r \in Rooms
      PROVE  room'[r] = room[r] \/ (/\ room[r].listed /\ Shift(r)
                                    /\ room'[r].thread = room[r].thread
                                    /\ room'[r].started = room[r].started
                                    /\ room'[r].inLua = room[r].inLua)
  <2>1. room[r] \in RoomType /\ room'[r] = IF r \in rs /\ room[r].listed
                                           THEN [room[r] EXCEPT !.md5 = Latch(@)] ELSE room[r]
    BY DEF AskRooms, Inv, Typed
  <2>2. CASE r \in rs /\ room[r].listed
    <3>1. room'[r] = [room[r] EXCEPT !.md5 = Latch(room[r].md5)]
      BY <2>1, <2>2
    <3>2. /\ room'[r].life = room[r].life /\ room'[r].thread = room[r].thread
          /\ room'[r].midway = room[r].midway /\ room'[r].listed = room[r].listed
          /\ room'[r].players = room[r].players /\ room'[r].started = room[r].started
          /\ room'[r].inLua = room[r].inLua /\ room'[r].md5 = Latch(room[r].md5)
      BY <2>1, <3>1 DEF RoomType
    <3>3. /\ room[r].life = "live" /\ (room[r].inLua => room[r].started)
          /\ (room[r].players # {} => room[r].listed)
      BY <2>2 DEF OfRooms, Opened
    <3> QED
      BY <2>2, <3>2, <3>3, Zenon DEF Shift
  <2> QED
    BY <2>1, <2>2
<1> QED
  BY <1>1, NotLive DEF RoomStep, Pends

LEMMA AsksRenewal ==
  ASSUME Inv, Inv', Renewal, NEW rs, room' = AskRooms(rs), fault = "none",
         UNCHANGED <<md5, thread, client, frames, posted, shell, outlived, slipped, fault, count>>
  PROVE  Renewal' /\ Grown
<1>1. RoomStep /\ Pends /\ \A r \in Rooms : room'[r].started = room[r].started
  BY AskStep DEF Renewal
<1>2. Quiet /\ StillOut
  BY DEF Quiet, Settled, StillOut
<1>3. \A p \in Clients : Staying(p)
  BY <1>1, Apart DEF Staying
<1> QED
  BY <1>1, <1>2, <1>3, SeatsKept DEF ClientStep

LEMMA UpdateRoomListRenewal ==
  ASSUME Inv, Inv', Renewal, NEW p \in Clients, UpdateRoomList(p) PROVE Renewal' /\ Grown
  BY AsksRenewal DEF UpdateRoomList, InLoop

LEMMA EnterRoomRenewal ==
  ASSUME Inv, Inv', Renewal, NEW p \in Clients, NEW r \in Rooms, EnterRoom(p, r)
  PROVE  Renewal' /\ Grown
<1>1. /\ fault = "none" /\ client[p].at = "in" /\ client[p].room = Lobby /\ room[r].listed
      /\ UNCHANGED <<disk, md5, thread, frames, posted, shell, outlived, fault, count>>
  BY DEF EnterRoom, InLoop, InLobby
<1>2. CASE room' = AskRooms({r}) /\ UNCHANGED <<client, slipped>>
  BY <1>1, <1>2, AsksRenewal
<1>3. CASE /\ ~Outdated(room[r].md5) /\ ~room[r].started
           /\ room' = [room EXCEPT ![r].players = @ \cup {p}]
           /\ client' = [client EXCEPT ![p].room = r]
           /\ Slip(p, Fresh(room[r].thread))
  <2>1. /\ room[r] \in RoomType /\ room[r].life = "live" /\ (room[r].inLua => room[r].started)
        /\ client[p] \in ClientType
    BY <1>1, Apart DEF Renewal, OfRooms, Opened, Inv, Typed
  <2>2. /\ room'[r] = [room[r] EXCEPT !.players = @ \cup {p}]
        /\ \A q \in Rooms : q # r => room'[q] = room[q]
    BY <1>3 DEF Inv, Typed
  <2>3. /\ room'[r].life = room[r].life /\ room'[r].thread = room[r].thread
        /\ room'[r].midway = room[r].midway /\ room'[r].listed = room[r].listed
        /\ room'[r].started = room[r].started
        /\ room'[r].inLua = room[r].inLua /\ room'[r].md5 = room[r].md5
    BY <2>1, <2>2 DEF RoomType
  <2>4. Shift(r)
    BY <1>1, <1>3, <2>1, <2>3 DEF Shift
  <2>5. RoomStep /\ Pends
    BY <1>3, <2>1, <2>2, <2>4, Made DEF RoomStep, Pends
  <2>6. Quiet /\ StillOut
    BY <1>1, <1>3 DEF Quiet, Settled, StillOut, Slip, Inv, Typed
  <2>7. \A q \in Rooms : room'[q].started = room[q].started
    BY <2>2, <2>3
  <2>8. client'[p] = [client[p] EXCEPT !.room = r]
    BY <1>3 DEF Inv, Typed
  <2>9. client'[p].at = "in" /\ client'[p].room = r /\ client'[p].files = client[p].files
    BY <1>1, <2>1, <2>8 DEF ClientType
  <2>10. Moving(p)
    <3>1. ASSUME p \notin slipped'
          PROVE  /\ \/ <<"kick", p>> \in posted /\ client[p].files # 0
                    \/ client[p].files = md5
                 /\ thread[room[r].thread].loaded = md5
      BY <1>1, <1>3, <3>1 DEF Slip, Fresh, Renewal, OfClients, Versed, Confined, Calm
    <3> QED
      BY <1>1, <2>3, <2>9, <3>1 DEF Moving
  <2>11. ClientStep
    <3>1. slipped \subseteq slipped' /\ Forget(p) \subseteq posted'
      BY <1>1, <1>3 DEF Slip, Forget
    <3>2. client' = [client EXCEPT ![p] = client'[p]]
      BY <1>3, <2>8
    <3> QED
      BY <2>7, <2>10, <3>1, <3>2, Apart, OthersStay DEF Renewal
  <2> QED
    BY <1>1, <2>5, <2>6, <2>11, SeatsKept
<1> QED
  BY <1>2, <1>3 DEF EnterRoom

-----------------------------------------------------------------------------
(* Games.                                                                  *)

LEMMA GameOverRenewal ==
  ASSUME Inv, Inv', Renewal, NEW r \in Rooms, GameOver(r) PROVE Renewal' /\ Grown
<1> DEFINE here == {p \in room[r].players : client[p].at = "in"}
           y == [room[r] EXCEPT !.started = FALSE, !.inLua = FALSE, !.players = here]
           x == IF here = {} THEN FreedRoom ELSE y
<1>1. /\ fault = "none" /\ room[r].inLua /\ room' = [room EXCEPT ![r] = x]
      /\ client' = [p \in Clients |-> IF p \in room[r].players \ here THEN Away ELSE client[p]]
      /\ UNCHANGED <<disk, md5, thread, frames, posted, shell, outlived, slipped, fault, count>>
  BY DEF GameOver
<1>2. /\ room[r] \in RoomType /\ room'[r] = x
      /\ \A q \in Rooms : q # r => room'[q] = room[q]
  BY <1>1 DEF Inv, Typed
<1>3. /\ y.life = room[r].life /\ y.thread = room[r].thread /\ y.midway = room[r].midway
      /\ y.listed = room[r].listed /\ y.players = here /\ y.md5 = room[r].md5
      /\ y.started = FALSE /\ y.inLua = FALSE
  BY <1>2, ZenonT(60) DEF RoomType
<1>4. x = FreedRoom \/ x = y
  OBVIOUS
<1> HIDE DEF x, y
<1>5. /\ here \subseteq room[r].players /\ (room[r].players # {} => room[r].listed)
      /\ room[r].life = "live"
  BY <1>1 DEF Renewal, OfRooms, Opened
<1>6. RoomStep
  <2>1. ASSUME x = y PROVE Shift(r)
    <3>1. here # {} => room[r].listed
      BY <1>5
    <3> QED
      BY <1>2, <1>3, <1>5, <2>1, <3>1, Zenon DEF Shift
  <2> QED
    BY <1>2, <1>4, <1>5, <2>1 DEF RoomStep
<1>7. Pends
  BY <1>1, <1>2, <1>5, Made DEF Pends
<1>8. Quiet
  BY <1>1 DEF Quiet, Settled
<1>9. Away.at = "out" /\ Away.room = Lobby
  BY DEF Away
<1>10. StillOut
  BY <1>1, <1>9 DEF StillOut
<1>11. ASSUME NEW p \in Clients PROVE Leaving(p) \/ Staying(p)
  <2>1. CASE p \in room[r].players \ here
    BY <1>1, <1>9, <2>1 DEF Leaving
  <2>2. CASE p \notin room[r].players \ here
    <3>1. client'[p] = client[p] /\ slipped' = slipped /\ posted' = posted
      BY <1>1, <2>2
    <3>2. ASSUME client[p].at = "out", client[p].room # Lobby
          PROVE  room[client[p].room].started => room'[client[p].room].started
      <4>1. client[p].room # r
        BY <2>2, <3>2, Apart
      <4> QED
        BY <1>2, <3>2, <4>1, Apart
    <3> QED
      BY <3>1, <3>2 DEF Staying
  <2> QED
    BY <2>1, <2>2
<1> QED
  BY <1>1, <1>6, <1>7, <1>8, <1>10, <1>11, SeatsKept DEF ClientStep

LEMMA StartGameRenewal ==
  ASSUME Inv, Inv', Renewal, NEW p \in Clients, StartGame(p) PROVE Renewal' /\ Grown
<1>0. PICK r, t : r = client[p].room /\ t = room[r].thread
  OBVIOUS
<1>1. /\ fault = "none" /\ client[p].at = "in" /\ r # Lobby /\ ~room[r].started
      /\ UNCHANGED <<disk, md5, frames, shell, outlived, slipped, fault>>
  BY <1>0 DEF StartGame, InLoop, InGame
<1>2. /\ r \in Rooms /\ p \in room[r].players /\ room[r] \in RoomType
      /\ room[r].listed /\ room[r].life = "live" /\ t \in Threads
  BY <1>0, <1>1, Apart, HomeThread DEF Renewal, OfRooms, Opened, Inv, Typed
<1>3. CASE /\ room' = [room EXCEPT ![r] = FreedRoom]
           /\ client' = [q \in Clients |-> IF q \in room[r].players THEN Away ELSE client[q]]
           /\ posted' = posted \ {<<"kick", q>> : q \in room[r].players}
           /\ UNCHANGED <<thread, count>>
  <2>1. room'[r] = FreedRoom /\ \A q \in Rooms : q # r => room'[q] = room[q]
    BY <1>2, <1>3 DEF Inv, Typed
  <2>2. RoomStep /\ Pends
    BY <1>2, <2>1 DEF RoomStep, Pends
  <2>3. Away.at = "out" /\ Away.room = Lobby
    BY DEF Away
  <2>4. Quiet /\ StillOut
    BY <1>1, <1>3, <2>3 DEF Quiet, Settled, StillOut
  <2>5. ASSUME NEW q \in Clients PROVE Leaving(q) \/ Staying(q)
    <3>1. CASE q \in room[r].players
      BY <1>3, <2>3, <3>1 DEF Leaving
    <3>2. CASE q \notin room[r].players
      <4>1. client'[q] = client[q] /\ (<<"kick", q>> \in posted => <<"kick", q>> \in posted')
        BY <1>3, <3>2
      <4>2. client[q].room # Lobby => room'[client[q].room] = room[client[q].room]
        BY <2>1, <3>2, Apart
      <4> QED
        BY <1>1, <4>1, <4>2 DEF Staying
    <3> QED
      BY <3>1, <3>2
  <2> QED
    BY <1>3, <2>2, <2>4, <2>5, SeatsKept DEF ClientStep
<1>4. CASE /\ ~Outdated(room[r].md5) /\ room' = [room EXCEPT ![r].started = TRUE]
           /\ thread' = [thread EXCEPT ![t].requests = IF thread[t].life = "serving" THEN @ \cup {r} ELSE @]
           /\ Counted("games") /\ UNCHANGED <<client, posted>>
  <2>1. /\ room'[r] = [room[r] EXCEPT !.started = TRUE]
        /\ \A q \in Rooms : q # r => room'[q] = room[q]
    BY <1>2, <1>4 DEF Inv, Typed
  <2>2. /\ room'[r].life = room[r].life /\ room'[r].thread = room[r].thread
        /\ room'[r].midway = room[r].midway /\ room'[r].listed = room[r].listed
        /\ room'[r].players = room[r].players /\ room'[r].started = TRUE
        /\ room'[r].inLua = room[r].inLua /\ room'[r].md5 = room[r].md5
    BY <1>2, <2>1, ZenonT(60) DEF RoomType
  <2>3. ~room[r].inLua
    BY <1>1, <1>2 DEF Renewal, OfRooms, Opened
  <2>4. RoomStep /\ Pends /\ \A q \in Rooms : room[q].started => room'[q].started
    <3>1. Shift(r)
      BY <1>2, <1>4, <2>2, <2>3 DEF Shift
    <3> QED
      BY <1>1, <1>2, <2>1, <2>2, <3>1, Made DEF RoomStep, Pends
  <2>5. PICK rs : rs = IF thread[t].life = "serving" THEN thread[t].requests \cup {r}
                       ELSE thread[t].requests
    OBVIOUS
  <2>6. /\ thread[t] \in ThreadType /\ thread'[t] = [thread[t] EXCEPT !.requests = rs]
        /\ \A h \in Threads : h # t => thread'[h] = thread[h]
    BY <1>2, <1>4, <2>5 DEF Inv, Typed
  <2>7. /\ thread'[t].md5 = thread[t].md5 /\ thread'[t].life = thread[t].life
        /\ thread'[t].loaded = thread[t].loaded
        /\ thread'[t].requests \subseteq thread[t].requests \cup {r}
    BY <2>5, <2>6 DEF ThreadType
  <2>8. count'.threads = count.threads
    BY <1>4, Counting DEF Inv, Typed
  <2>9. Quiet /\ StillOut
    BY <1>1, <1>4, <2>6, <2>7, <2>8 DEF Quiet, Settled, StillOut
  <2>10. \A q \in Clients : Staying(q)
    BY <1>1, <1>4, <2>4, Apart DEF Staying
  <2>11. Requested'
    <3> SUFFICES ASSUME NEW h \in Threads, NEW q \in thread'[h].requests
                 PROVE  \/ room'[q] = FreedRoom
                        \/ room'[q].thread = h /\ room'[q].started /\ ~room'[q].inLua
      BY DEF Requested
    <3>1. (h = t /\ q = r) \/ q \in thread[h].requests
      BY <2>6, <2>7
    <3>2. CASE h = t /\ q = r
      BY <1>0, <2>2, <2>3, <3>2
    <3>3. CASE q \in thread[h].requests
      <4>1. q \in Rooms
        BY <3>3 DEF Inv, Typed, ThreadType
      <4>2. \/ room[q] = FreedRoom
            \/ room[q].thread = h /\ room[q].started /\ ~room[q].inLua
        BY <3>3 DEF Renewal, Requested
      <4> QED
        BY <2>4, <4>1, <4>2 DEF Pends
    <3> QED
      BY <3>1, <3>2, <3>3
  <2> QED
    BY <2>4, <2>9, <2>10, <2>11, QuietKept DEF ClientStep, Renewal
<1> QED
  BY <1>0, <1>3, <1>4, ZenonT(60) DEF StartGame

LEMMA NewRoomRenewal ==
  ASSUME Inv, Inv', Renewal, NEW t \in Threads, NewRoom(t) PROVE Renewal' /\ Grown
<1>1. PICK r \in thread[t].requests :
         /\ thread' = [thread EXCEPT ![t].requests = @ \ {r}]
         /\ room' = [room EXCEPT ![r].inLua = room[r].listed]
  BY DEF NewRoom
<1>2. /\ fault = "none"
      /\ UNCHANGED <<disk, md5, client, frames, posted, shell, outlived, slipped, fault, count>>
  BY DEF NewRoom
<1>3. /\ thread \in [Threads -> ThreadType] /\ thread[t] \in ThreadType /\ r \in Rooms
      /\ room[r] \in RoomType
  BY <1>1 DEF Inv, Typed, ThreadType
<1>4. /\ thread'[t] = [thread[t] EXCEPT !.requests = @ \ {r}]
      /\ \A h \in Threads : h # t => thread'[h] = thread[h]
      /\ room'[r] = [room[r] EXCEPT !.inLua = room[r].listed]
      /\ \A q \in Rooms : q # r => room'[q] = room[q]
  BY <1>1, <1>3 DEF Inv, Typed
<1>5. /\ thread'[t].md5 = thread[t].md5 /\ thread'[t].life = thread[t].life
      /\ thread'[t].loaded = thread[t].loaded
      /\ thread'[t].requests = thread[t].requests \ {r}
  BY <1>3, <1>4 DEF ThreadType
<1>6. /\ room'[r].life = room[r].life /\ room'[r].thread = room[r].thread
      /\ room'[r].midway = room[r].midway /\ room'[r].listed = room[r].listed
      /\ room'[r].players = room[r].players /\ room'[r].started = room[r].started
      /\ room'[r].inLua = room[r].listed /\ room'[r].md5 = room[r].md5
  BY <1>3, <1>4 DEF RoomType
<1>7. room[r] = FreedRoom \/ (room[r].thread = t /\ room[r].started /\ ~room[r].inLua)
  BY <1>1 DEF Renewal, Requested
<1>8. ASSUME room[r] = FreedRoom PROVE room'[r] = room[r]
  <2>1. room'[r] = [FreedRoom EXCEPT !.inLua = FALSE]
    <3>1. FreedRoom.listed = FALSE
      BY DEF FreedRoom, NoRoom
    <3> QED
      BY <1>4, <1>8, <3>1
  <2>2. [FreedRoom EXCEPT !.inLua = FALSE] = FreedRoom
    BY NotLive, Made DEF RoomType
  <2> QED
    BY <1>8, <2>1, <2>2
<1>9. RoomStep
  <2>1. ASSUME room[r].started PROVE Shift(r)
    <3>1. room[r].life = "live" /\ (room[r].players # {} => room[r].listed)
      BY <1>3, <2>1 DEF Renewal, OfRooms, Opened
    <3> QED
      BY <1>6, <2>1, <3>1, Zenon DEF Shift
  <2> QED
    BY <1>4, <1>7, <1>8, <2>1 DEF RoomStep
<1>10. Quiet /\ StillOut
  BY <1>2, <1>4, <1>5 DEF Quiet, Settled, StillOut
<1>11. \A q \in Clients : Staying(q)
  BY <1>2, <1>4, <1>6, Apart DEF Staying
<1>12. Requested'
  <2> SUFFICES ASSUME NEW h \in Threads, NEW q \in thread'[h].requests
               PROVE  \/ room'[q] = FreedRoom
                      \/ room'[q].thread = h /\ room'[q].started /\ ~room'[q].inLua
    BY DEF Requested
  <2>1. q \in thread[h].requests /\ (h = t => q # r)
    BY <1>4, <1>5
  <2>2. q \in Rooms
    BY <1>3, <2>1 DEF ThreadType
  <2>3. room[q] = FreedRoom \/ (room[q].thread = h /\ room[q].started /\ ~room[q].inLua)
    BY <2>1 DEF Renewal, Requested
  <2>4. q = r => room[r] = FreedRoom
    BY <1>7, <2>1, <2>3, NotLive
  <2> QED
    BY <1>4, <1>8, <2>2, <2>3, <2>4
<1> QED
  BY <1>9, <1>10, <1>11, <1>12, QuietKept DEF ClientStep, Renewal

-----------------------------------------------------------------------------
(* Logins.                                                                 *)

\* Steps that keep the rooms, and what is known of a thread with rooms.
Still ==
  /\ Settled /\ fault = "none" /\ fault' # "rooms" /\ room' = room
  /\ \A t \in 1..count.threads :
       thread'[t].loaded = thread[t].loaded \/ thread[t].loaded = 0 \/ Children(t) = {}
  /\ \A t \in 1..count.threads : thread'[t].md5 \in {thread[t].md5, Latch(thread[t].md5)}
  /\ \A t \in Threads : <<"delete", t>> \in posted' => <<"delete", t>> \in posted

LEMMA StillKept ==
  ASSUME Inv, Inv', Renewal, Still, slipped \subseteq slipped', ClientStep
  PROVE  OfRooms' /\ OfClients' /\ Grown
<1>1. RoomStep
  BY DEF Still, RoomStep
<1> QED
  BY <1>1, StepGrows, RoomsKept, ClientsKept DEF Still, Renewal

\* A handler is appended.
LEMMA LoggingMore ==
  ASSUME Inv, Logging, StillOut, NEW f, frames' = Append(frames, f),
         f.do = "login" => client'[f.owner].at = "out"
  PROVE  Logging'
<1>1. /\ Len(frames) \in Nat /\ Len(frames') = Len(frames) + 1 /\ frames'[Len(frames) + 1] = f
      /\ \A i \in 1..Len(frames) : frames'[i] = frames[i]
  BY LenProperties DEF Inv, Typed
<1>2. \A i \in 1..Len(frames) : frames[i].owner \in Clients
  BY FrameFacts DEF FrameType
<1>3. \A i \in 1..Len(frames) : frames'[i].do = "login" => client'[frames'[i].owner].at = "out"
  BY <1>1, <1>2 DEF Logging, StillOut
<1>4. \A i \in 1..Len(frames') : i \in 1..Len(frames) \/ i = Len(frames) + 1
  BY <1>1
<1> QED
  BY <1>1, <1>3, <1>4 DEF Logging

LEMMA LoginRenewal ==
  ASSUME Inv, Inv', Renewal, NEW p \in Clients, Login(p) PROVE Renewal' /\ Grown
<1> DEFINE f == [do |-> "login", owner |-> p, thread |-> 0, at |-> "placing"]
<1>1. /\ fault = "none" /\ client[p].at = "out" /\ client' = [client EXCEPT ![p].files = md5]
      /\ frames' = Append(frames, f) /\ count'.threads = count.threads
      /\ UNCHANGED <<disk, md5, thread, room, posted, shell, outlived, slipped, fault>>
  BY Counting DEF Login, InLoop, Inv, Typed
<1>2. f.do = "login" /\ f.owner = p
  OBVIOUS
<1> HIDE DEF f
<1>3. client[p] \in ClientType /\ client'[p] = [client[p] EXCEPT !.files = md5]
  BY <1>1, Apart DEF Inv, Typed
<1>4. client'[p].at = "out" /\ client'[p].room = client[p].room
  BY <1>1, <1>3 DEF ClientType
<1>5. \A q \in Clients : q # p => client'[q] = client[q]
  BY <1>1 DEF Inv, Typed
<1>6. ClientStep
  <2>1. Leaving(p)
    BY <1>1, <1>4 DEF Leaving, Renewal, OfClients, Absent
  <2>2. \A q \in Clients : q # p => Staying(q)
    BY <1>1, <1>5 DEF Staying
  <2> QED
    BY <2>1, <2>2 DEF ClientStep
<1>7. Still /\ StillOut
  BY <1>1, <1>4, <1>5 DEF Still, Settled, StillOut
<1>8. OfRooms' /\ OfClients' /\ Grown
  BY <1>1, <1>6, <1>7, StillKept
<1>9. Logging'
  BY <1>1, <1>2, <1>4, <1>7, LoggingMore DEF Renewal
<1>10. OfThreads' /\ Requested'
  BY <1>1 DEF Renewal, OfThreads, Labelled, Alive, Outlived, Unloaded, Requested
<1> QED
  BY <1>8, <1>9, <1>10 DEF Renewal

LEMMA AdmitRenewal == ASSUME Inv, Inv', Renewal, Admit PROVE Renewal' /\ Grown
<1>0. PICK p : p = Last(frames).owner
  OBVIOUS
<1>1. /\ fault = "none" /\ frames # <<>> /\ client' = [client EXCEPT ![p].at = "in"]
      /\ slipped' = IF /\ shell = "idle"
                       /\ client[p].room = Lobby
                            \/ thread[room[client[p].room].thread].loaded = client[p].files
                       /\ client[p].files = md5
                    THEN slipped \ {p} ELSE slipped \cup {p}
      /\ frames' = Front(frames)
      /\ UNCHANGED <<disk, md5, thread, room, posted, shell, outlived, fault, count>>
  BY <1>0 DEF Admit
<1>2. p \in Clients /\ client[p].at = "out"
  <2>1. Len(frames) \in 1..Len(frames) /\ Last(frames) = frames[Len(frames)]
    BY <1>1, Popped
  <2>2. frames[Len(frames)].do = "login"
    BY <2>1 DEF Admit
  <2> QED
    BY <1>0, <2>1, <2>2, FrameFacts DEF Renewal, Logging, FrameType
<1>3. /\ client[p] \in ClientType /\ client'[p] = [client[p] EXCEPT !.at = "in"]
      /\ \A q \in Clients : q # p => client'[q] = client[q]
  BY <1>1, <1>2, Apart DEF Inv, Typed
<1>4. client'[p].at = "in" /\ client'[p].room = client[p].room /\ client'[p].files = client[p].files
  BY <1>3 DEF ClientType
<1>5. ClientStep
  <2>1. Moving(p)
    BY <1>1, <1>4 DEF Moving
  <2>2. \A q \in Clients : q # p => Staying(q)
    BY <1>1, <1>3 DEF Staying
  <2> QED
    BY <2>1, <2>2 DEF ClientStep
<1>6. Still
  BY <1>1 DEF Still, Settled
<1>7. OfClients' /\ Grown
  <2>1. Grown
    BY <1>1 DEF Grown
  <2> QED
    BY <1>5, <1>6, <2>1, ClientsKept DEF Still, Renewal
<1>8. OfRooms'
  <2>1. Opened' /\ LikeThread' /\ Doomed'
    BY <1>1 DEF Renewal, OfRooms, Opened, LikeThread, Doomed, Children
  <2>2. Stray'
    <3> SUFFICES ASSUME NEW r \in Rooms, room[r].listed, room[r].md5 \notin {md5, Latched},
                        shell # "rooms"
                 PROVE  ~room[r].started /\ room[r].players \subseteq slipped'
      BY <1>1 DEF Stray
    <3>1. ~room[r].started /\ room[r].players \subseteq slipped
      BY DEF Renewal, OfRooms, Stray
    <3>2. p \notin room[r].players
      <4> SUFFICES ASSUME p \in room[r].players PROVE FALSE
        OBVIOUS
      <4>1. client[p].room = r /\ r # Lobby
        BY <1>2, Consts DEF Inv, Seated
      <4> QED
        BY <1>2, <3>1, <4>1 DEF Renewal, OfClients, Absent
    <3> QED
      BY <1>1, <3>1, <3>2
  <2> QED
    BY <2>1, <2>2 DEF OfRooms
<1>9. Logging'
  BY <1>1, Popped DEF Logging
<1>10. OfThreads' /\ Requested'
  BY <1>1 DEF Renewal, OfThreads, Labelled, Alive, Outlived, Unloaded, Requested
<1> QED
  BY <1>7, <1>8, <1>9, <1>10 DEF Renewal

-----------------------------------------------------------------------------
(* Rooms and threads.                                                      *)

\* createRoom goes on with the thread it has, whatever became of it.
LEMMA PlaceRenewal == ASSUME Inv, Inv', Renewal, Place PROVE Renewal' /\ Grown
<1>0. PICK f, t, p, r : /\ f = frames[Len(frames)] /\ t = f.thread /\ p = f.owner
                        /\ r = count.rooms + 1
  OBVIOUS
<1>1. /\ fault = "none" /\ frames # <<>> /\ frames' = Front(frames) /\ Last(frames) = f
      /\ Len(frames) \in 1..Len(frames) /\ f.do = "create"
      /\ UNCHANGED <<disk, md5, thread, posted, shell, outlived>>
  BY <1>0, Popped DEF Place
<1>2. p \in Clients /\ t \in Threads /\ t \in 1..count.threads
  BY <1>0, <1>1, FrameFacts DEF FrameType
<1>3. OfThreads' \/ count'.threads # count.threads
  BY <1>1 DEF Renewal, OfThreads, Labelled, Alive, Outlived, Unloaded
<1>4. CASE fault' = "createRoom" /\ UNCHANGED <<room, client, slipped, count>>
  <2>1. Still
    BY <1>1, <1>4 DEF Still, Settled
  <2>2. ClientStep
    BY <1>1, <1>4 DEF ClientStep, Staying
  <2>3. OfRooms' /\ OfClients' /\ Grown
    BY <1>4, <2>1, <2>2, StillKept
  <2>4. Logging' /\ Requested'
    BY <1>1, <1>4, Popped DEF Logging, Renewal, Requested
  <2> QED
    BY <1>3, <1>4, <2>3, <2>4 DEF Renewal
<1> DEFINE x == [NoRoom EXCEPT !.life = "live", !.thread = t, !.md5 = thread[t].md5,
                               !.listed = TRUE, !.players = {p},
                               !.own = f.at = "quitting", !.midway = shell # "idle"]
<1>5. CASE /\ Alive(t) /\ InLobby(p) /\ room' = [room EXCEPT ![r] = x]
           /\ client' = [client EXCEPT ![p].room = r]
           /\ Slip(p, Fresh(t)) /\ Counted("rooms") /\ UNCHANGED fault
  <2>1. /\ x.life = "live" /\ x.thread = t /\ x.md5 = thread[t].md5 /\ x.listed
        /\ x.players = {p} /\ x.midway = (shell # "idle") /\ ~x.started /\ ~x.inLua
    BY DEF NoRoom
  <2> HIDE DEF x
  <2>2. /\ r \in Rooms /\ room[r] = NoRoom /\ r # Lobby
        /\ count'.threads = count.threads /\ count.rooms \in Nat
    <3>1. FrameOK(Len(frames)) /\ Len(frames) \in Nat
      BY <1>1, FrameFacts
    <3>2. count.rooms + Len(frames) <= MaxRooms
      BY <1>0, <1>1, <3>1 DEF FrameOK
    <3>3. count.rooms \in Nat /\ MaxRooms \in Nat
      BY Consts DEF Inv, Typed, Numbers, CountType
    <3>4. r \in Rooms
      BY <1>0, <1>1, <3>1, <3>2, <3>3 DEF Rooms
    <3>5. r > count.rooms
      BY <1>0, <3>3
    <3>6. room[r] = NoRoom
      BY <3>4, <3>5 DEF Inv, Unmade
    <3>7. count'.threads = count.threads
      BY <1>5, CountingRooms DEF Inv, Typed
    <3> QED
      BY <3>3, <3>4, <3>6, <3>7, Consts
  <2>3. room'[r] = x /\ \A q \in Rooms : q # r => room'[q] = room[q]
    BY <1>5, <2>2 DEF Inv, Typed
  <2>4. /\ client[p].at = "in" /\ client[p].room = Lobby /\ client[p] \in ClientType
        /\ client'[p] = [client[p] EXCEPT !.room = r]
        /\ \A q \in Clients : q # p => client'[q] = client[q]
    BY <1>2, <1>5, Apart DEF InLobby, Inv, Typed
  <2>5. client'[p].at = "in" /\ client'[p].room = r /\ client'[p].files = client[p].files
    BY <2>4 DEF ClientType
  <2>6. slipped \subseteq slipped' /\ (p \notin slipped' => shell = "idle" /\ thread[t].loaded = md5)
    BY <1>5 DEF Slip, Fresh
  <2>7. Grown
    BY <2>2, <2>3 DEF Grown
  <2>8. ClientStep
    <3>1. Moving(p)
      <4>1. p \notin slipped' => \/ <<"kick", p>> \in posted /\ client[p].files # 0
                                 \/ client[p].files = md5
        BY <1>2, <2>4, <2>6 DEF Renewal, OfClients, Versed, Confined, Calm
      <4> QED
        BY <1>1, <2>1, <2>3, <2>5, <2>6, <4>1 DEF Moving
    <3>2. ASSUME NEW q \in Clients, q # p PROVE Staying(q)
      <4>1. client[q].room # Lobby => room'[client[q].room] = room[client[q].room]
        BY <2>2, <2>3, Apart
      <4> QED
        BY <1>1, <2>4, <2>6, <3>2, <4>1 DEF Staying
    <3> QED
      BY <3>1, <3>2 DEF ClientStep
  <2>9. OfClients'
    BY <1>1, <2>7, <2>8, ClientsKept DEF Settled, Renewal
  <2>10. thread[t].md5 \in {md5, Latched} \/ shell \in {"rooms", "threads"}
    BY <1>2, <1>5 DEF Renewal, OfThreads, Labelled
  <2>11. Opened' /\ LikeThread'
    <3>1. Opened'
      BY <2>1, <2>3 DEF Renewal, OfRooms, Opened
    <3>2. LikeThread'
      <4> SUFFICES ASSUME NEW q \in Rooms, room'[q].listed, ~room'[q].midway, room'[q].md5 # Latched
                   PROVE  /\ shell # "rooms" => room'[q].md5 = md5
                          /\ room'[q].md5 = thread[room'[q].thread].md5
                               \/ (shell = "rooms" /\ room'[q].md5 # md5)
        BY <1>1 DEF LikeThread
      <4>1. CASE q = r
        BY <2>1, <2>3, <2>10, <4>1
      <4>2. CASE q # r
        BY <1>1, <2>3, <4>2 DEF Renewal, OfRooms, LikeThread
      <4> QED
        BY <4>1, <4>2
    <3> QED
      BY <3>1, <3>2
  <2>12. Doomed'
    <3> SUFFICES ASSUME NEW h \in Threads, <<"delete", h>> \in posted
                 PROVE  h \in outlived /\ \A q \in Children(h)' : room'[q].md5 = Latched /\ ~room'[q].started
      BY <1>1 DEF Doomed
    <3>1. h \in outlived /\ \A q \in Children(h) : room[q].md5 = Latched /\ ~room[q].started
      BY DEF Renewal, OfRooms, Doomed
    <3>2. ASSUME NEW q \in Children(h)' PROVE room'[q].md5 = Latched /\ ~room'[q].started
      <4>1. q \in Rooms /\ room'[q].thread = h /\ room'[q].life = "live"
        BY DEF Children
      <4>2. CASE q = r
        BY <2>1, <2>3, <3>1, <4>1, <4>2 DEF Renewal, OfThreads, Outlived
      <4>3. CASE q # r
        BY <2>3, <3>1, <4>1, <4>3 DEF Children
      <4> QED
        BY <4>2, <4>3
    <3> QED
      BY <3>1, <3>2
  <2>13. Stray'
    <3> SUFFICES ASSUME NEW q \in Rooms, room'[q].listed, room'[q].md5 \notin {md5, Latched},
                        shell # "rooms"
                 PROVE  ~room'[q].started /\ room'[q].players \subseteq slipped'
      BY <1>1 DEF Stray
    <3>1. CASE q = r
      BY <2>1, <2>3, <2>6, <2>10, <3>1
    <3>2. CASE q # r
      BY <2>3, <2>6, <3>2 DEF Renewal, OfRooms, Stray
    <3> QED
      BY <3>1, <3>2
  <2>14. Logging'
    BY <1>1, Popped DEF Logging
  <2>15. Requested'
    <3>1. Pends
      BY <2>2, <2>3, Made, NotLive DEF Pends
    <3> QED
      BY <1>1, <3>1, RequestedKept DEF Renewal
  <2> QED
    BY <1>3, <2>2, <2>7, <2>9, <2>11, <2>12, <2>13, <2>14, <2>15 DEF Renewal, OfRooms
<1>6. /\ f = Last(frames) /\ t = f.thread /\ p = f.owner /\ r = count.rooms + 1
  BY <1>0, <1>1
<1> QED
  BY <1>4, <1>5, <1>6, ZenonT(60) DEF Place

\* What asking the threads does.
LEMMA AskedLabels ==
  ASSUME Typed, NEW ts, NEW t \in Threads, NEW x, x = AskThreads(ts)[t]
  PROVE  /\ x.life = thread[t].life /\ x.loaded = thread[t].loaded
         /\ x.requests = thread[t].requests
         /\ x.md5 \in {thread[t].md5, Latch(thread[t].md5)}
         /\ t \in ts /\ Alive(t) => x.md5 = Latch(thread[t].md5)
<1>1. thread[t] \in ThreadType
  BY DEF Typed
<1>2. CASE t \in ts /\ Alive(t)
  <2>1. x = [thread[t] EXCEPT !.md5 = Latch(thread[t].md5)]
    BY <1>2 DEF AskThreads
  <2> QED
    BY <1>1, <1>2, <2>1 DEF ThreadType
<1>3. CASE ~(t \in ts /\ Alive(t))
  BY <1>3 DEF AskThreads
<1> QED
  BY <1>2, <1>3

\* A thread that is asked, or has just been made.
Heard(h) == /\ thread'[h].life = thread[h].life /\ thread'[h].loaded = thread[h].loaded
            /\ thread'[h].requests = thread[h].requests
            /\ thread'[h].md5 \in {thread[h].md5, Latch(thread[h].md5)}
Fresher(h) == /\ h > count.threads /\ thread'[h].life = "starting" /\ thread'[h].loaded = 0
              /\ thread'[h].requests = {} /\ thread'[h].md5 = md5

LEMMA HeardKept ==
  ASSUME Inv, OfThreads, Requested, UNCHANGED <<md5, shell, outlived, room>>,
         count'.threads \in Nat, count.threads <= count'.threads,
         \A h \in Threads : Heard(h) \/ Fresher(h)
  PROVE  OfThreads' /\ Requested'
<1>1. /\ md5 \in Versions /\ thread \in [Threads -> ThreadType] /\ outlived \subseteq Threads
      /\ count.threads \in Nat
  BY DEF Inv, Typed, World, Numbers, CountType
<1>2. ASSUME NEW h \in Threads
      PROVE  /\ Latch(thread[h].md5) \in {thread[h].md5, Latched}
             /\ thread[h].md5 = md5 => Latch(thread[h].md5) = md5
  BY <1>1, LatchIs
<1>3. Labelled'
  BY <1>1, <1>2 DEF OfThreads, Labelled, Alive, Heard, Fresher
<1>4. Outlived'
  <2> SUFFICES ASSUME NEW t \in outlived PROVE thread'[t].md5 = Latched /\ t <= count'.threads
    BY DEF Outlived
  <2>1. t \in Threads /\ thread[t].md5 = Latched /\ t <= count.threads /\ t \in Nat
    BY <1>1, Consts DEF OfThreads, Outlived
  <2>2. Heard(t)
    BY <1>1, <2>1 DEF Fresher
  <2> QED
    BY <1>1, <1>2, <2>1, <2>2 DEF Heard
<1>5. Unloaded'
  BY <1>1 DEF OfThreads, Unloaded, Heard, Fresher
<1>6. Requested'
  BY DEF Requested, Heard, Fresher
<1> QED
  BY <1>3, <1>4, <1>5, <1>6 DEF OfThreads

LEMMA CreateRoomRenewal ==
  ASSUME Inv, Inv', Renewal, NEW p \in Clients, CreateRoom(p) PROVE Renewal' /\ Grown
<1>1. /\ fault = "none"
      /\ UNCHANGED <<disk, md5, room, client, posted, shell, outlived, slipped, fault>>
  BY DEF CreateRoom, InLoop
<1>2. /\ count.threads \in Nat /\ count'.threads \in Nat /\ MaxThreads \in Nat
      /\ count.threads <= MaxThreads /\ \A t \in 1..count.threads : t \in Threads
  BY Consts DEF Inv, Typed, Numbers, CountType, Threads
<1>3. /\ count.threads <= count'.threads
      /\ \A h \in Threads : Heard(h) \/ Fresher(h)
      /\ \E f : frames' = Append(frames, f) /\ f.do = "create"
  <2>1. CASE /\ thread' = AskThreads(Asked) /\ count' = count
             /\ frames' = Append(frames, [do |-> "create", owner |-> p, thread |-> Chosen,
                                          at |-> "placing"])
    <3>1. \A h \in Threads : Heard(h)
      BY <2>1, AskedLabels DEF Inv, Heard
    <3>2. \E f : frames' = Append(frames, f) /\ f.do = "create"
      <4> DEFINE f == [do |-> "create", owner |-> p, thread |-> Chosen, at |-> "placing"]
      <4>1. f.do = "create" /\ frames' = Append(frames, f)
        BY <2>1
      <4> QED
        BY <4>1
    <3> QED
      BY <1>2, <2>1, <3>1, <3>2
  <2>2. CASE /\ count.threads < MaxThreads /\ Counted("threads")
             /\ frames' = Append(frames, [do |-> "create", owner |-> p,
                                          thread |-> count.threads + 1, at |-> "waiting"])
             /\ thread' = [AskThreads(Asked) EXCEPT
                  ![count.threads + 1] = [NoThread EXCEPT !.life = "starting", !.md5 = md5]]
    <3> DEFINE t == count.threads + 1
               f == [do |-> "create", owner |-> p, thread |-> t, at |-> "waiting"]
               x == [NoThread EXCEPT !.life = "starting", !.md5 = md5]
    <3>1. t \in Threads
      BY <1>2, <2>2 DEF Threads
    <3>2. x.life = "starting" /\ x.loaded = 0 /\ x.requests = {} /\ x.md5 = md5
      BY DEF NoThread
    <3>3. thread' = [AskThreads(Asked) EXCEPT ![t] = x] /\ t > count.threads
      BY <1>2, <2>2
    <3> HIDE DEF x
    <3>4. Fresher(t)
      BY <3>1, <3>2, <3>3, AskedThreads DEF Inv, Fresher
    <3>5. ASSUME NEW h \in Threads, h # t PROVE Heard(h)
      <4>1. thread'[h] = AskThreads(Asked)[h]
        BY <3>1, <3>3, <3>5, AskedThreads DEF Inv
      <4> QED
        BY <4>1, AskedLabels DEF Inv, Heard
    <3>6. count'.threads = t
      BY <2>2 DEF Counted, Inv, Typed, Numbers, CountType
    <3>7. f.do = "create" /\ frames' = Append(frames, f)
      BY <2>2
    <3> QED
      BY <1>2, <3>4, <3>5, <3>6, <3>7
  <2> QED
    BY <2>1, <2>2 DEF CreateRoom
<1>4. Still
  <2>1. ASSUME NEW t \in 1..count.threads PROVE Heard(t)
    BY <1>2, <1>3 DEF Fresher
  <2> QED
    BY <1>1, <2>1 DEF Still, Settled, Heard
<1>5. ClientStep /\ StillOut
  BY <1>1 DEF ClientStep, Staying, StillOut
<1>6. OfRooms' /\ OfClients' /\ Grown
  BY <1>1, <1>4, <1>5, StillKept
<1>7. OfThreads' /\ Requested'
  BY <1>1, <1>2, <1>3, HeardKept DEF Renewal
<1>8. Logging'
  BY <1>3, <1>5, LoggingMore DEF Renewal
<1> QED
  BY <1>6, <1>7, <1>8 DEF Renewal

\* The handlers of a thread are told to go on: nobody's login.
LEMMA TurnedLogging ==
  ASSUME Inv, Logging, client' = client, NEW C \in SUBSET (1..Len(frames)),
         frames' = [i \in DOMAIN frames |-> IF i \in C THEN [frames[i] EXCEPT !.at = "quitting"]
                                            ELSE frames[i]]
  PROVE  Logging'
<1>1. StillOut
  BY DEF StillOut
<1>2. /\ Len(frames') = Len(frames)
      /\ \A i \in 1..Len(frames) : frames'[i].do = frames[i].do /\ frames'[i].owner = frames[i].owner
  BY TurnedFrames
<1> QED
  BY <1>1, <1>2, LoggingKept

LEMMA LoadRenewal ==
  ASSUME Inv, Inv', Renewal, NEW t \in Threads, Load(t) PROVE Renewal' /\ Grown
<1> DEFINE x == [thread[t] EXCEPT !.life = "serving", !.loaded = disk]
<1>0. PICK C : C = {i \in 1..Len(frames) : frames[i].thread = t /\ frames[i].at = "waiting"}
  OBVIOUS
<1>1. /\ fault = "none" /\ thread[t].life = "starting"
      /\ UNCHANGED <<disk, md5, room, client, posted, shell, outlived, slipped, fault, count>>
      /\ thread' = [thread EXCEPT ![t] = x]
  BY DEF Load
<1>2. thread[t] \in ThreadType /\ thread'[t] = x /\ \A h \in Threads : h # t => thread'[h] = thread[h]
  BY <1>1 DEF Inv, Typed
<1>3. x.life = "serving" /\ x.md5 = thread[t].md5 /\ x.requests = thread[t].requests
  BY <1>2 DEF ThreadType
<1> HIDE DEF x
<1>4. frames' = [i \in DOMAIN frames |-> IF i \in C THEN [frames[i] EXCEPT !.at = "quitting"]
                                         ELSE frames[i]]
  <2>1. DOMAIN frames = 1..Len(frames)
    BY LenProperties DEF Inv, Typed
  <2> QED
    BY <1>0, <2>1 DEF Load, Pending
<1>5. Logging'
  BY <1>0, <1>1, <1>4, TurnedLogging DEF Renewal
<1>6. OfThreads' /\ Requested'
  BY <1>1, <1>2, <1>3 DEF Renewal, OfThreads, Labelled, Alive, Outlived, Unloaded, Requested
<1>7. Still
  <2>1. thread[t].loaded = 0
    BY <1>1 DEF Renewal, OfThreads, Unloaded
  <2>2. \A h \in 1..count.threads : h \in Threads
    BY Numbered
  <2> QED
    BY <1>1, <1>2, <1>3, <2>1, <2>2 DEF Still, Settled
<1>8. ClientStep
  BY <1>1 DEF ClientStep, Staying
<1>9. OfRooms' /\ OfClients' /\ Grown
  BY <1>1, <1>7, <1>8, StillKept
<1> QED
  BY <1>5, <1>6, <1>9 DEF Renewal

LEMMA DeleteThreadRenewal ==
  ASSUME Inv, Inv', Renewal, NEW t \in Threads, DeleteThread(t) PROVE Renewal' /\ Grown
<1> DEFINE x == [NoThread EXCEPT !.life = "freed"]
<1>0. PICK C : C = {i \in 1..Len(frames) : frames[i].thread = t}
  OBVIOUS
<1>1. /\ fault = "none" /\ <<"delete", t>> \in posted /\ posted' = posted \ {<<"delete", t>>}
      /\ fault' = IF Children(t) # {} THEN "rooms" ELSE fault
      /\ UNCHANGED <<disk, md5, room, client, shell, outlived, slipped, count>>
      /\ thread' = [thread EXCEPT ![t] = x]
  BY DEF DeleteThread, InLoop
<1>2. thread[t] \in ThreadType /\ thread'[t] = x /\ \A h \in Threads : h # t => thread'[h] = thread[h]
  BY <1>1 DEF Inv, Typed
<1>3. x.life = "freed" /\ x.md5 = Latched /\ x.requests = {}
  BY DEF NoThread
<1> HIDE DEF x
<1>4. frames' = [i \in DOMAIN frames |-> IF i \in C THEN [frames[i] EXCEPT !.at = "quitting"]
                                         ELSE frames[i]]
  <2>1. DOMAIN frames = 1..Len(frames)
    BY LenProperties DEF Inv, Typed
  <2> QED
    BY <1>0, <2>1 DEF DeleteThread, Pending
<1>5. Logging'
  BY <1>0, <1>1, <1>4, TurnedLogging DEF Renewal
<1>6. OfThreads' /\ Requested'
  BY <1>1, <1>2, <1>3 DEF Renewal, OfThreads, Labelled, Alive, Outlived, Unloaded, Requested
<1>7. /\ t \in outlived /\ thread[t].md5 = Latched
      /\ \A r \in Children(t) : room[r].md5 = Latched /\ ~room[r].started
  BY <1>1 DEF Renewal, OfRooms, Doomed, OfThreads, Outlived
<1>8. Grown
  BY <1>1 DEF Grown
<1>9. CASE Children(t) = {}
  <2>1. Still
    <3>1. \A h \in 1..count.threads : h \in Threads
      BY Numbered
    <3> QED
      BY <1>1, <1>2, <1>3, <1>7, <1>9, <3>1 DEF Still, Settled
  <2>2. ClientStep
    BY <1>1 DEF ClientStep, Staying
  <2>3. OfRooms' /\ OfClients'
    BY <1>1, <2>1, <2>2, StillKept
  <2> QED
    BY <1>5, <1>6, <1>8, <2>3 DEF Renewal
<1>10. CASE Children(t) # {}
  <2>1. fault' = "rooms"
    BY <1>1, <1>10
  <2>2. Opened' /\ LikeThread' /\ Stray' /\ Doomed'
    BY <1>1, <2>1 DEF Renewal, OfRooms, Opened, LikeThread, Stray, Doomed, Children
  <2>3. Absent' /\ Versed' /\ Confined'
    BY <1>1 DEF Renewal, OfClients, Absent, Versed, Confined, Calm, Outdated
  <2>4. Matched'
    <3> SUFFICES ASSUME NEW r \in Rooms, NEW p \in room[r].players, Calm(p), <<"kick", p>> \notin posted
                 PROVE  client[p].files = thread'[room[r].thread].loaded \/ ~room[r].inLua
      BY <1>1, <2>1 DEF Matched, Calm
    <3>1. room[r].life = "live" /\ room[r].thread \in Threads
      BY HomeThread DEF Renewal, OfRooms, Opened
    <3>2. CASE room[r].thread = t
      BY <1>7, <3>1, <3>2 DEF Renewal, OfRooms, Opened, Children
    <3>3. CASE room[r].thread # t
      BY <1>1, <1>2, <3>1, <3>3 DEF Renewal, OfClients, Matched
    <3> QED
      BY <3>2, <3>3
  <2> QED
    BY <1>5, <1>6, <1>8, <2>2, <2>3, <2>4 DEF Renewal, OfRooms, OfClients
<1> QED
  BY <1>9, <1>10

-----------------------------------------------------------------------------
(* The shell.                                                              *)

\* The files change, whether refreshMd5 is called or not.
LEMMA ChangesRenewal ==
  ASSUME Inv, Inv', Renewal, shell = "idle", shell' \in {"idle", "changed"},
         count'.threads = count.threads,
         UNCHANGED <<md5, thread, room, client, frames, posted, outlived, slipped, fault>>
  PROVE  Renewal' /\ Grown
<1>1. OfThreads' /\ Requested'
  BY DEF Renewal, OfThreads, Labelled, Alive, Outlived, Unloaded, Requested
<1>2. OfRooms'
  BY DEF Renewal, OfRooms, Opened, LikeThread, Stray, Doomed, Children
<1>3. Absent' /\ Versed' /\ Matched'
  BY DEF Renewal, OfClients, Absent, Versed, Matched, Calm
<1>4. Confined'
  BY DEF Renewal, OfClients, Confined, Calm, Outdated
<1>5. Logging' /\ Grown
  BY DEF Renewal, Logging, Grown
<1> QED
  BY <1>1, <1>2, <1>3, <1>4, <1>5 DEF Renewal, OfClients

LEMMA ChangeFilesRenewal ==
  ASSUME Inv, Inv', Renewal, NEW v \in Versions, ChangeFiles(v) PROVE Renewal' /\ Grown
<1>1. count'.threads = count.threads
  BY Counting DEF ChangeFiles, Inv, Typed
<1> QED
  BY <1>1, ChangesRenewal DEF ChangeFiles

LEMMA ChangeQuietlyRenewal ==
  ASSUME Inv, Inv', Renewal, NEW v \in Versions, ChangeQuietly(v) PROVE Renewal' /\ Grown
<1>1. count'.threads = count.threads
  BY Counting DEF ChangeQuietly, Inv, Typed
<1> QED
  BY <1>1, ChangesRenewal DEF ChangeQuietly

LEMMA RecalculateRenewal == ASSUME Inv, Inv', Renewal, Recalculate PROVE Renewal' /\ Grown
<1>1. /\ fault = "none" /\ shell = "changed" /\ shell' = "rooms" /\ md5' = disk
      /\ UNCHANGED <<disk, thread, room, client, frames, posted, outlived, slipped, fault, count>>
  BY DEF Recalculate
<1>2. md5' # Latched /\ md5' \in Versions
  BY <1>1, LatchIs, PoolConstants DEF Latched, Inv, Typed, World
<1>3. OfThreads' /\ Requested'
  BY <1>1 DEF Renewal, OfThreads, Labelled, Outlived, Unloaded, Requested
<1>4. LikeThread'
  <2> SUFFICES ASSUME NEW r \in Rooms, room[r].listed, ~room[r].midway, room[r].md5 # Latched
               PROVE  room[r].md5 = thread[room[r].thread].md5
    BY <1>1 DEF LikeThread
  <2> QED
    BY <1>1 DEF Renewal, OfRooms, LikeThread
<1>5. Opened' /\ Stray' /\ Doomed'
  BY <1>1 DEF Renewal, OfRooms, Opened, Stray, Doomed, Children
<1>6. Absent' /\ Versed' /\ Matched'
  BY <1>1 DEF Renewal, OfClients, Absent, Versed, Matched, Calm
<1>7. Confined'
  <2> SUFFICES ASSUME NEW p \in Clients, client[p].at = "in", p \notin slipped,
                      <<"kick", p>> \notin posted, client[p].files # md5', client[p].room # Lobby,
                      NEW r, r = client[p].room
               PROVE  room[r].md5 # md5'
    BY <1>1 DEF Confined, Calm, Outdated
  <2>1. r \in Rooms /\ p \in room[r].players
    BY Apart
  <2>2. room[r].listed
    BY <2>1 DEF Renewal, OfRooms, Opened
  <2>3. room[r].md5 \in {md5, Latched}
    BY <1>1, <2>1, <2>2 DEF Renewal, OfRooms, Stray
  <2>4. client[p].files = md5 \/ room[r].md5 # md5
    BY <1>1 DEF Renewal, OfClients, Confined, Calm, Outdated
  <2> QED
    BY <1>2, <2>3, <2>4
<1>8. Logging' /\ Grown
  BY <1>1 DEF Renewal, Logging, Grown
<1> QED
  BY <1>3, <1>4, <1>5, <1>6, <1>7, <1>8 DEF Renewal, OfRooms, OfClients

\* All the rooms are asked.
LEMMA VisitRoomsRenewal == ASSUME Inv, Inv', Renewal, VisitRooms PROVE Renewal' /\ Grown
<1>1. /\ fault = "none" /\ shell = "rooms" /\ shell' = "threads" /\ room' = AskRooms(Listed)
      /\ posted \subseteq posted'
      /\ \A t : <<"delete", t>> \in posted' => <<"delete", t>> \in posted
      /\ UNCHANGED <<disk, md5, thread, client, frames, outlived, slipped, fault, count>>
  BY DEF VisitRooms
<1>2. RoomStep /\ Pends /\ \A r \in Rooms : room'[r].started = room[r].started
  BY <1>1, AskStep DEF Renewal
<1>3. ASSUME NEW r \in Rooms
      PROVE  /\ room'[r].life = room[r].life /\ room'[r].thread = room[r].thread
             /\ room'[r].midway = room[r].midway /\ room'[r].listed = room[r].listed
             /\ room'[r].players = room[r].players /\ room'[r].inLua = room[r].inLua
             /\ room'[r].md5 = IF room[r].listed THEN Latch(room[r].md5) ELSE room[r].md5
  <2>1. room[r] \in RoomType /\ room'[r] = IF room[r].listed
                                           THEN [room[r] EXCEPT !.md5 = Latch(@)] ELSE room[r]
    BY <1>1 DEF AskRooms, Listed, Inv, Typed
  <2>2. CASE room[r].listed
    <3>1. room'[r] = [room[r] EXCEPT !.md5 = Latch(room[r].md5)]
      BY <2>1, <2>2
    <3>2. /\ room'[r].life = room[r].life /\ room'[r].thread = room[r].thread
          /\ room'[r].midway = room[r].midway /\ room'[r].listed = room[r].listed
          /\ room'[r].players = room[r].players /\ room'[r].inLua = room[r].inLua
          /\ room'[r].md5 = Latch(room[r].md5)
      BY <2>1, <3>1 DEF RoomType
    <3> QED
      BY <2>2, <3>2
  <2> QED
    BY <2>1, <2>2
<1>4. ASSUME NEW x
      PROVE  /\ Latch(x) \in {x, Latched} /\ (x = md5 => Latch(x) = x)
             /\ x # md5 => Latch(x) = Latched
             /\ md5 # Latched
  BY LatchIs DEF Inv, Typed, World
<1>5. OfThreads'
  BY <1>1 DEF Renewal, OfThreads, Labelled, Outlived, Unloaded
<1>6. Opened'
  BY <1>2, <1>3 DEF Renewal, OfRooms, Opened
<1>7. LikeThread'
  <2> SUFFICES ASSUME NEW r \in Rooms, room'[r].listed, ~room'[r].midway, room'[r].md5 # Latched
               PROVE  room'[r].md5 = md5 /\ room'[r].md5 = thread[room'[r].thread].md5
    BY <1>1 DEF LikeThread
  <2>1. room[r].listed /\ ~room[r].midway /\ room[r].md5 = md5 /\ room'[r].md5 = md5
        /\ room'[r].thread = room[r].thread
    BY <1>3, <1>4
  <2> QED
    BY <1>1, <1>4, <2>1 DEF Renewal, OfRooms, LikeThread
<1>8. Doomed'
  <2> SUFFICES ASSUME NEW t \in Threads, <<"delete", t>> \in posted'
               PROVE  t \in outlived /\ \A r \in Children(t)' : room'[r].md5 = Latched /\ ~room'[r].started
    BY <1>1 DEF Doomed
  <2>1. t \in outlived /\ \A r \in Children(t) : room[r].md5 = Latched /\ ~room[r].started
    BY <1>1 DEF Renewal, OfRooms, Doomed
  <2>2. Latch(Latched) = Latched
    BY <1>4
  <2> QED
    BY <1>2, <1>3, <2>1, <2>2 DEF Children
<1>9. Stray'
  BY <1>1, <1>3, <1>4 DEF Stray
<1>10. Requested'
  BY <1>1, <1>2, RequestedKept DEF Renewal
<1>11. Absent'
  BY <1>1, <1>2, Apart DEF Renewal, OfClients, Absent
<1>12. Versed'
  BY <1>1 DEF Renewal, OfClients, Versed, Calm
<1>13. Confined'
  <2> SUFFICES ASSUME NEW p \in Clients, client[p].at = "in", p \notin slipped,
                      <<"kick", p>> \notin posted, client[p].files # md5, client[p].room # Lobby,
                      NEW r, r = client[p].room
               PROVE  room'[r].md5 # md5
    BY <1>1 DEF Confined, Calm, Outdated
  <2>1. r \in Rooms /\ room[r].md5 # md5
    BY Apart DEF Renewal, OfClients, Confined, Calm, Outdated
  <2> QED
    BY <1>3, <1>4, <2>1
<1>14. Matched'
  BY <1>1, <1>3 DEF Renewal, OfClients, Matched, Calm
<1>15. Logging'
  BY <1>1 DEF Renewal, Logging
<1> QED
  BY <1>2, <1>5, <1>6, <1>7, <1>8, <1>9, <1>10, <1>11, <1>12, <1>13, <1>14, <1>15, StepGrows
     DEF Renewal, OfRooms, OfClients

\* All the threads are asked, by refreshMd5 or by stat.
LEMMA SweepsRenewal ==
  ASSUME Inv, Inv', Renewal, SweepThreads, fault = "none", fault' # "rooms",
         \/ shell = "threads" /\ shell' = "lobby"
         \/ shell = "idle" /\ shell' = "idle",
         UNCHANGED <<md5, room, client, frames, slipped, count>>
  PROVE  Renewal' /\ Grown
<1>1. /\ thread' = AskThreads(Threads) /\ posted \subseteq posted'
      /\ outlived' = outlived \cup {t \in Threads : Alive(t) /\ Outdated(thread[t].md5)}
      /\ \A p : <<"kick", p>> \in posted' => <<"kick", p>> \in posted
      /\ \A t \in Threads : <<"delete", t>> \in posted' =>
           \/ <<"delete", t>> \in posted
           \/ Alive(t) /\ Outdated(thread[t].md5) /\ Children(t) = {}
  BY DEF SweepThreads
<1>2. ASSUME NEW t \in Threads
      PROVE  /\ thread'[t].life = thread[t].life /\ thread'[t].loaded = thread[t].loaded
             /\ thread'[t].requests = thread[t].requests
             /\ thread'[t].md5 \in {thread[t].md5, Latch(thread[t].md5)}
             /\ Alive(t) => thread'[t].md5 = Latch(thread[t].md5)
  BY <1>1, AskedLabels DEF Inv
<1>3. ASSUME NEW x
      PROVE  /\ Latch(x) \in {x, Latched} /\ (x = md5 => Latch(x) = x)
             /\ x # md5 => Latch(x) = Latched
             /\ md5 # Latched
  BY LatchIs DEF Inv, Typed, World
<1>4. Labelled' /\ Unloaded'
  BY <1>2, <1>3 DEF Renewal, OfThreads, Labelled, Unloaded, Alive
<1>5. Outlived'
  <2> SUFFICES ASSUME NEW t \in outlived' PROVE thread'[t].md5 = Latched /\ t <= count.threads
    BY DEF Outlived
  <2>1. CASE t \in outlived
    <3>1. t \in Threads /\ thread[t].md5 = Latched /\ t <= count.threads
      BY <2>1 DEF Renewal, OfThreads, Outlived, Inv, Typed, World
    <3> QED
      BY <1>2, <1>3, <3>1
  <2>2. CASE t \in Threads /\ Alive(t) /\ thread[t].md5 # md5
    <3>1. t \in Nat /\ count.threads \in Nat
      BY <2>2, Consts DEF Inv, Typed, Numbers, CountType
    <3>2. ~(t > count.threads)
      BY <2>2 DEF Inv, Unmade, Alive
    <3> QED
      BY <1>2, <1>3, <2>2, <3>1, <3>2
  <2> QED
    BY <1>1, <2>1, <2>2 DEF Outdated
<1>6. Requested'
  BY <1>2 DEF Renewal, Requested
<1>7. Opened' /\ Stray'
  BY DEF Renewal, OfRooms, Opened, Stray
<1>8. LikeThread'
  <2> SUFFICES ASSUME NEW r \in Rooms, room[r].listed, ~room[r].midway, room[r].md5 # Latched
               PROVE  room[r].md5 = md5 /\ room[r].md5 = thread'[room[r].thread].md5
    BY DEF LikeThread
  <2>1. room[r].md5 = md5 /\ room[r].md5 = thread[room[r].thread].md5
    BY DEF Renewal, OfRooms, LikeThread
  <2>2. room[r].thread \in Threads
    BY HomeThread DEF Renewal, OfRooms, Opened
  <2> QED
    BY <1>2, <1>3, <2>1, <2>2
<1>9. Doomed'
  BY <1>1 DEF Renewal, OfRooms, Doomed, Children
<1>10. Absent' /\ Versed'
  BY DEF Renewal, OfClients, Absent, Versed, Calm
<1>11. Confined'
  BY <1>1 DEF Renewal, OfClients, Confined, Calm, Outdated
<1>12. Matched'
  <2> SUFFICES ASSUME NEW r \in Rooms, NEW p \in room[r].players, Calm(p), <<"kick", p>> \notin posted
               PROVE  client[p].files = thread'[room[r].thread].loaded
    BY <1>1 DEF Matched, Calm
  <2>1. room[r].thread \in Threads
    BY HomeThread DEF Renewal, OfRooms, Opened
  <2> QED
    BY <1>2, <2>1 DEF Renewal, OfClients, Matched
<1>13. Logging' /\ Grown
  BY DEF Renewal, Logging, Grown
<1> QED
  BY <1>4, <1>5, <1>6, <1>7, <1>8, <1>9, <1>10, <1>11, <1>12, <1>13
     DEF Renewal, OfThreads, OfRooms, OfClients

LEMMA VisitThreadsRenewal == ASSUME Inv, Inv', Renewal, VisitThreads PROVE Renewal' /\ Grown
  BY SweepsRenewal DEF VisitThreads

LEMMA StatRenewal == ASSUME Inv, Inv', Renewal, Stat PROVE Renewal' /\ Grown
<1>1. fault' # "rooms"
  BY DEF Stat
<1> QED
  BY <1>1, SweepsRenewal DEF Stat

LEMMA KickLobbyRenewal == ASSUME Inv, Inv', Renewal, KickLobby PROVE Renewal' /\ Grown
<1>1. /\ fault = "none" /\ shell = "lobby" /\ shell' = "idle" /\ posted \subseteq posted'
      /\ \A t : <<"delete", t>> \in posted' => <<"delete", t>> \in posted
      /\ \A p \in Clients : InLobby(p) => <<"kick", p>> \in posted'
      /\ UNCHANGED <<disk, md5, thread, room, client, frames, outlived, slipped, fault, count>>
  BY DEF KickLobby
<1>2. OfThreads' /\ Requested'
  BY <1>1 DEF Renewal, OfThreads, Labelled, Alive, Outlived, Unloaded, Requested
<1>3. OfRooms'
  BY <1>1 DEF Renewal, OfRooms, Opened, LikeThread, Stray, Doomed, Children
<1>4. Absent' /\ Versed' /\ Matched'
  BY <1>1 DEF Renewal, OfClients, Absent, Versed, Matched, Calm
<1>5. Confined'
  BY <1>1 DEF Renewal, OfClients, Confined, Calm, Outdated, InLobby
<1>6. Logging' /\ Grown
  BY <1>1 DEF Renewal, Logging, Grown
<1> QED
  BY <1>2, <1>3, <1>4, <1>5, <1>6 DEF Renewal, OfClients

-----------------------------------------------------------------------------
(* The theorems about the renewal.                                         *)

LEMMA InitRenewal == Init => Renewal
<1> SUFFICES ASSUME Init PROVE Renewal
  OBVIOUS
<1>1. /\ thread = [t \in Threads |-> NoThread] /\ room = [r \in Rooms |-> NoRoom]
      /\ client = [p \in Clients |-> Away] /\ frames = <<>> /\ posted = {} /\ outlived = {}
  BY DEF Init
<1>2. /\ NoThread.life = "none" /\ NoThread.requests = {}
      /\ ~NoRoom.listed /\ ~NoRoom.inLua /\ ~NoRoom.started /\ NoRoom.players = {}
      /\ Away.at = "out" /\ Away.room = Lobby
  BY DEF NoThread, NoRoom, Away
<1>3. Len(frames) = 0
  BY <1>1, EmptySeq
<1>4. OfThreads /\ Requested
  BY <1>1, <1>2 DEF OfThreads, Labelled, Alive, Outlived, Unloaded, Requested
<1>5. OfRooms
  BY <1>1, <1>2 DEF OfRooms, Opened, LikeThread, Doomed, Stray
<1>6. OfClients
  BY <1>1, <1>2 DEF OfClients, Absent, Versed, Confined, Matched, Calm
<1>7. Logging
  BY <1>3 DEF Logging
<1> QED
  BY <1>4, <1>5, <1>6, <1>7 DEF Renewal

LEMMA StutterRenewal == ASSUME Inv, Renewal, UNCHANGED vars PROVE Renewal'
<1>1. OfThreads' /\ Requested' /\ Logging'
  BY DEF vars, Renewal, OfThreads, Labelled, Alive, Outlived, Unloaded, Requested, Logging
<1>2. OfRooms'
  BY DEF vars, Renewal, OfRooms, Opened, LikeThread, Doomed, Stray, Children
<1>3. OfClients'
  BY DEF vars, Renewal, OfClients, Absent, Versed, Confined, Matched, Calm, Outdated
<1> QED
  BY <1>1, <1>2, <1>3 DEF Renewal

\* Every step keeps the invariant, and does to a room what it may.
LEMMA NextRenewal == ASSUME Inv, Inv', Renewal, Next PROVE Renewal' /\ Grown /\ fault = "none"
<1> DEFINE G == Renewal' /\ Grown /\ fault = "none"
<1>1. ASSUME NEW p \in Clients, CreateRoom(p) \/ Disconnect(p) \/ Kicked(p) \/ QuitRoom(p) PROVE G
  BY <1>1, CreateRoomRenewal, DisconnectRenewal, KickedRenewal, QuitRoomRenewal
     DEF CreateRoom, Disconnect, Kicked, QuitRoom, InLoop
<1>2. ASSUME NEW p \in Clients, NEW died \in BOOLEAN, RunAway(p, died) PROVE G
  BY <1>2, RunAwayRenewal DEF RunAway, InLoop
<1>3. ASSUME NEW p \in Clients, Login(p) \/ UpdateRoomList(p) \/ StartGame(p) PROVE G
  BY <1>3, LoginRenewal, UpdateRoomListRenewal, StartGameRenewal
     DEF Login, UpdateRoomList, StartGame, InLoop
<1>4. ASSUME NEW p \in Clients, NEW r \in Rooms, EnterRoom(p, r) PROVE G
  BY <1>4, EnterRoomRenewal DEF EnterRoom, InLoop
<1>5. ASSUME Place \/ Admit PROVE G
  BY <1>5, PlaceRenewal, AdmitRenewal DEF Place, Admit
<1>6. ASSUME NEW t \in Threads, NewRoom(t) \/ Load(t) \/ DeleteThread(t) PROVE G
  BY <1>6, NewRoomRenewal, LoadRenewal, DeleteThreadRenewal DEF NewRoom, Load, DeleteThread, InLoop
<1>7. ASSUME NEW r \in Rooms, GameOver(r) PROVE G
  BY <1>7, GameOverRenewal DEF GameOver
<1>8. ASSUME NEW v \in Versions, ChangeFiles(v) \/ ChangeQuietly(v) PROVE G
  BY <1>8, ChangeFilesRenewal, ChangeQuietlyRenewal DEF ChangeFiles, ChangeQuietly
<1>9. ASSUME Recalculate \/ VisitRooms \/ VisitThreads \/ KickLobby \/ Stat PROVE G
  BY <1>9, RecalculateRenewal, VisitRoomsRenewal, VisitThreadsRenewal, KickLobbyRenewal, StatRenewal
     DEF Recalculate, VisitRooms, VisitThreads, KickLobby, Stat
<1> HIDE DEF G
<1>10. G
  BY <1>1, <1>2, <1>3, <1>4, <1>5, <1>6, <1>7, <1>8, <1>9 DEF Next
<1> QED
  BY <1>10 DEF G

LEMMA BothNext == Inv /\ Renewal /\ [Next]_vars => Inv' /\ Renewal'
  BY NextInv, NextRenewal, StutterRenewal

LEMMA SpecRenewal == Spec => [](Inv /\ Renewal)
  BY InitInv, InitRenewal, BothNext, PTL DEF Spec

\* Whoever plays has the files of the game he plays in (Room::startGame,
\* Lobby::enterRoom, Server::refreshMd5), unless he is among those the history
\* sets apart.
THEOREM FilesMatch == Spec => []SameFiles
<1>1. Inv /\ Renewal => SameFiles
  <2> SUFFICES ASSUME Inv, Renewal, NEW r \in Rooms, NEW p \in room[r].players, p \notin slipped,
                      room[r].inLua, client[p].at = "in", <<"kick", p>> \notin posted
               PROVE  client[p].files = thread[room[r].thread].loaded
    BY DEF SameFiles
  <2> QED
    BY DEF Renewal, OfClients, Matched, Calm
<1> QED
  BY <1>1, SpecRenewal, PTL

\* After refreshMd5 nobody is left in the lobby with the old files, and who
\* has them elsewhere can only be kicked or play to the end.
THEOREM Confinement == Spec => []StaleAreConfined
<1>1. Inv /\ Renewal => StaleAreConfined
  BY DEF Renewal, OfClients, Confined, Calm, StaleAreConfined
<1> QED
  BY <1>1, SpecRenewal, PTL

\* What is left of the handlers, and to whom a new one belongs.
LEMMA NewHandlers ==
  ASSUME Inv, Renewal, Next, NEW t \in outlived
  PROVE  Pending(t)' \subseteq Pending(t)
<1> DEFINE n == Len(frames)
<1>1. /\ frames \in Seq(FrameType) /\ n \in Nat /\ DOMAIN frames = 1..n
      /\ t \in Threads /\ thread[t].md5 = Latched /\ t <= count.threads /\ count.threads \in Nat
  BY LenProperties DEF Inv, Typed, World, Numbers, CountType, Renewal, OfThreads, Outlived
<1>2. Outdated(thread[t].md5) /\ t # 0 /\ t \in Nat
  BY <1>1, LatchIs, Consts DEF Inv, Typed, World
<1>3. ASSUME frames' = frames PROVE Pending(t)' \subseteq Pending(t)
  BY <1>3 DEF Pending
<1>4. ASSUME NEW f, frames' = Append(frames, f), f.thread # t PROVE Pending(t)' \subseteq Pending(t)
  <2>1. /\ DOMAIN frames' = 1..n + 1 /\ frames'[n + 1] = f
        /\ \A i \in 1..n : frames'[i] = frames[i]
    BY <1>1, <1>4
  <2>2. ASSUME NEW i \in 1..n + 1, frames'[i].thread = t PROVE i \in 1..n /\ frames[i].thread = t
    <3>1. i # n + 1
      BY <1>4, <2>1, <2>2
    <3> QED
      BY <1>1, <2>1, <2>2, <3>1
  <2> QED
    BY <1>1, <2>1, <2>2 DEF Pending
<1>5. ASSUME frames # <<>>, frames' = Front(frames) PROVE Pending(t)' \subseteq Pending(t)
  <2>1. /\ Front(frames) \in Seq(FrameType) /\ Len(Front(frames)) = n - 1
        /\ \A i \in 1..n - 1 : Front(frames)[i] = frames[i] /\ i \in 1..n
    BY <1>5, Popped
  <2>2. DOMAIN frames' = 1..n - 1
    BY <1>5, <2>1, LenProperties
  <2> QED
    BY <1>1, <1>5, <2>1, <2>2 DEF Pending
<1>6. ASSUME NEW C, frames' = [i \in DOMAIN frames |-> IF i \in C THEN [frames[i] EXCEPT !.at = "quitting"]
                                                      ELSE frames[i]]
      PROVE  Pending(t)' \subseteq Pending(t)
  <2>1. \A i \in 1..n : frames[i] \in FrameType
    BY <1>1, ElementOfSeq
  <2>2. \A i \in 1..n : frames'[i].thread = frames[i].thread
    BY <1>1, <1>6, <2>1 DEF FrameType
  <2>3. DOMAIN frames' = 1..n
    BY <1>1, <1>6
  <2> QED
    BY <1>1, <2>2, <2>3 DEF Pending
<1>7. ASSUME NEW p \in Clients, CreateRoom(p) PROVE Pending(t)' \subseteq Pending(t)
  <2>1. CASE /\ Fit # {}
             /\ frames' = Append(frames, [do |-> "create", owner |-> p, thread |-> Chosen,
                                          at |-> "placing"])
    <3>1. Chosen \in Fit
      <4>1. Fit \in SUBSET Nat
        BY Consts DEF Fit
      <4> QED
        BY <2>1, <4>1, MinIn DEF Chosen
    <3>2. Chosen # t
      BY <1>2, <3>1 DEF Fit
    <3> DEFINE f == [do |-> "create", owner |-> p, thread |-> Chosen, at |-> "placing"]
    <3>3. f.thread = Chosen /\ frames' = Append(frames, f)
      BY <2>1
    <3> HIDE DEF f
    <3> QED
      BY <1>4, <3>2, <3>3
  <2>2. CASE frames' = Append(frames, [do |-> "create", owner |-> p, thread |-> count.threads + 1,
                                       at |-> "waiting"])
    <3> DEFINE f == [do |-> "create", owner |-> p, thread |-> count.threads + 1, at |-> "waiting"]
    <3>1. f.thread = count.threads + 1 /\ frames' = Append(frames, f)
      BY <2>2
    <3> HIDE DEF f
    <3>2. f.thread # t
      BY <1>1, <1>2, <3>1
    <3> QED
      BY <1>4, <3>1, <3>2
  <2> QED
    BY <1>7, <2>1, <2>2 DEF CreateRoom
<1>8. ASSUME NEW p \in Clients, Login(p) PROVE Pending(t)' \subseteq Pending(t)
  <2> DEFINE f == [do |-> "login", owner |-> p, thread |-> 0, at |-> "placing"]
  <2>1. f.thread = 0 /\ frames' = Append(frames, f)
    BY <1>8 DEF Login
  <2> HIDE DEF f
  <2> QED
    BY <1>2, <1>4, <2>1
<1>9. ASSUME Place \/ Admit PROVE Pending(t)' \subseteq Pending(t)
  BY <1>5, <1>9 DEF Place, Admit
<1>10. ASSUME NEW h \in Threads, Load(h) PROVE Pending(t)' \subseteq Pending(t)
  <2> DEFINE C == {i \in Pending(h) : frames[i].at = "waiting"}
  <2>1. frames' = [i \in DOMAIN frames |-> IF i \in C THEN [frames[i] EXCEPT !.at = "quitting"]
                                          ELSE frames[i]]
    BY <1>10 DEF Load
  <2> QED
    BY <1>6, <2>1
<1>11. ASSUME NEW h \in Threads, DeleteThread(h) PROVE Pending(t)' \subseteq Pending(t)
  BY <1>6, <1>11 DEF DeleteThread
<1>12. ASSUME NEW p \in Clients, Disconnect(p) \/ Kicked(p) \/ QuitRoom(p) \/ UpdateRoomList(p)
                                 \/ StartGame(p)
       PROVE  frames' = frames
  BY <1>12 DEF Disconnect, Kicked, QuitRoom, UpdateRoomList, StartGame
<1>13. ASSUME NEW p \in Clients, NEW died \in BOOLEAN, RunAway(p, died) PROVE frames' = frames
  BY <1>13 DEF RunAway
<1>14. ASSUME NEW p \in Clients, NEW r \in Rooms, EnterRoom(p, r) PROVE frames' = frames
  BY <1>14 DEF EnterRoom
<1>15. ASSUME NEW h \in Threads, NewRoom(h) PROVE frames' = frames
  BY <1>15 DEF NewRoom
<1>16. ASSUME NEW r \in Rooms, GameOver(r) PROVE frames' = frames
  BY <1>16 DEF GameOver
<1>17. ASSUME NEW v \in Versions, ChangeFiles(v) \/ ChangeQuietly(v) PROVE frames' = frames
  BY <1>17 DEF ChangeFiles, ChangeQuietly
<1>18. ASSUME Recalculate \/ VisitRooms \/ VisitThreads \/ KickLobby \/ Stat PROVE frames' = frames
  BY <1>18 DEF Recalculate, VisitRooms, VisitThreads, KickLobby, Stat
<1> QED
  BY <1>3, <1>7, <1>8, <1>9, <1>10, <1>11, <1>12, <1>13, <1>14, <1>15, <1>16, <1>17, <1>18 DEF Next

\* The rooms of a thread found outdated: outdated themselves, or out of the list.
LEMMA OldRooms ==
  ASSUME Inv, Renewal, fault = "none", NEW t \in outlived, NEW r \in Children(t), ~room[r].midway
  PROVE  ~room[r].listed \/ Outdated(room[r].md5)
<1>1. r \in Rooms /\ room[r].thread = t
  BY DEF Children
<1>2. md5 # Latched /\ thread[t].md5 = Latched
  BY LatchIs DEF Inv, Typed, World, Renewal, OfThreads, Outlived
<1> QED
  BY <1>1, <1>2 DEF Renewal, OfRooms, LikeThread, Outdated

\* What was found outdated once is of no use any more, although its MD5 may be
\* that of the server again (RoomThread::isOutdated, Room::isOutdated): no
\* handler chooses the thread, and its rooms lose players and games only.
THEOREM ForGood == Spec => OutdatedForGood
<1> DEFINE A == \A t \in outlived :
       /\ Pending(t)' \subseteq Pending(t)
       /\ \A r \in Children(t) : ~room[r].midway
            => /\ room'[r].players \subseteq room[r].players
               /\ room'[r].started => room[r].started
<1>1. ASSUME Inv, Inv', Renewal, Next PROVE A
  <2>1. Grown /\ fault = "none"
    BY <1>1, NextRenewal
  <2>2. ASSUME NEW t \in outlived, NEW r \in Children(t), ~room[r].midway
        PROVE  /\ room'[r].players \subseteq room[r].players
               /\ room'[r].started => room[r].started
    <3>1. r \in Rooms /\ room[r].life = "live" /\ room[r] # NoRoom
      BY Made DEF Children
    <3>2. ~room[r].listed \/ Outdated(room[r].md5)
      BY <1>1, <2>1, <2>2, OldRooms
    <3>3. room'[r] = room[r] \/ room'[r] = FreedRoom \/ Shift(r)
      BY <2>1, <3>1 DEF Grown
    <3>4. CASE room'[r] = FreedRoom
      BY <3>4, Made, NotLive
    <3>5. CASE Shift(r)
      BY <3>2, <3>5 DEF Shift
    <3> QED
      BY <3>3, <3>4, <3>5
  <2>3. ASSUME NEW t \in outlived PROVE Pending(t)' \subseteq Pending(t)
    BY <1>1, NewHandlers
  <2> QED
    BY <2>2, <2>3
<1>2. Inv /\ Renewal /\ Inv' /\ [Next]_vars => [A]_vars
  BY <1>1
<1> HIDE DEF A
<1>3. Spec => [][A]_vars
  BY <1>2, SpecRenewal, PTL DEF Spec
<1> QED
  BY <1>3 DEF OutdatedForGood, A
=============================================================================
