------------------------- MODULE RoomLifecycleProofs -------------------------
EXTENDS RoomLifecycle, SequenceTheorems, WellFoundedInduction, NaturalsInduction,
        FiniteSetTheorems, TLAPS

-----------------------------------------------------------------------------
(* The invariant.                                                           *)

Player    == [user : Users \cup {Bot}, state : {"Online", "Offline", "Robot", "Run"},
              socket : {"none", "open", "closed"}, room : Rooms \cup {Lobby},
              life : {"none", "live", "freed"}]
RoomState == [players : Seq(Objs), observers : Seq(Objs), owner : Objs \cup {Nobody},
              started : BOOLEAN, abandoned : BOOLEAN, insideGameOver : BOOLEAN,
              refs : Int, rejected : SUBSET (Users \cup {Bot}),
              life : {"none", "live", "freed"}]
Event     == [do : {"kick", "delete"}, of : Objs] \cup [do : {"deleteRoom"}, of : Rooms]
Faults    == {"none", "owner", "removeSocket", "bound", "room", "register", "lua",
              "scan", "close"}
Servers   == [obj : [Objs -> Player], made : 0..MaxObjs, room : [Rooms -> RoomState],
              rooms : SUBSET Rooms, lobby : Seq(Objs),
              players : [Users -> Objs \cup {Nobody}], posted : Seq(Event),
              fault : Faults]

-----------------------------------------------------------------------------
(* Numbers, sequences, loops.                                               *)

\* A set of natural numbers has a least member.
LEMMA Least ==
  ASSUME NEW T \in SUBSET Nat, T # {}
  PROVE  \E n \in T : \A m \in T : n <= m
<1> DEFINE R == {ss \in Nat \X Nat : ss[1] < ss[2]}
<1>1. IsWellFoundedOn(R, Nat)
  BY NatLessThanWellFounded DEF OpToRel
<1>2. \A x, y \in Nat : <<y, x>> \in R <=> y < x
  OBVIOUS
<1> HIDE DEF R
<1>3. PICK x \in T : \A y \in T : ~ (<<y, x>> \in R)
  BY <1>1, WFMin
<1>4. \A y \in T : ~(y < x) /\ y \in Nat /\ x \in Nat
  BY <1>2, <1>3
<1> QED
  BY <1>3, <1>4

\* A set that holds 0 and is closed under successors up to n holds n.
LEMMA Steps ==
  ASSUME NEW n \in Nat, NEW T, 0 \in T, \A i \in 1..n : i - 1 \in T => i \in T
  PROVE  \A k \in 0..n : k \in T
<1> DEFINE B == {i \in 0..n : i \notin T}
<1> SUFFICES ASSUME B # {} PROVE FALSE
  OBVIOUS
<1>1. B \in SUBSET Nat
  OBVIOUS
<1> HIDE DEF B
<1>2. PICK m \in B : \A i \in B : m <= i
  BY <1>1, Least
<1>3. m \in 0..n /\ m \notin T
  BY <1>2 DEF B
<1>4. m \in 1..n
  BY <1>3
<1>5. m - 1 \in 0..n /\ ~(m <= m - 1)
  BY <1>4
<1>6. m - 1 \in T
  BY <1>2, <1>5 DEF B
<1> QED
  BY <1>3, <1>4, <1>6

LEMMA ToSetDef == ASSUME NEW S, NEW s \in Seq(S)
  PROVE  ToSet(s) = {s[i] : i \in 1..Len(s)} /\ ToSet(s) \subseteq S
  BY DEF ToSet

LEMMA Appended ==
  ASSUME NEW S, NEW s \in Seq(S), NEW e \in S
  PROVE  Append(s, e) \in Seq(S) /\ ToSet(Append(s, e)) = ToSet(s) \cup {e}
<1>1. Append(s, e) \in Seq(S) /\ Len(Append(s, e)) = Len(s) + 1
  OBVIOUS
<1>2. \A i \in 1..Len(s) + 1 : Append(s, e)[i] = IF i = Len(s) + 1 THEN e ELSE s[i]
  OBVIOUS
<1>3. ToSet(s) = {s[i] : i \in 1..Len(s)} /\ Len(s) \in Nat
  BY ToSetDef
<1>4. ToSet(Append(s, e)) = {Append(s, e)[i] : i \in 1..Len(s) + 1}
  BY <1>1, ToSetDef
<1>5. ASSUME NEW i \in 1..Len(s) + 1 PROVE Append(s, e)[i] \in ToSet(s) \cup {e}
  BY <1>2, <1>3
<1>6. ASSUME NEW i \in 1..Len(s) PROVE s[i] \in ToSet(Append(s, e))
  <2>1. i \in 1..Len(s) + 1 /\ Append(s, e)[i] = s[i]
    BY <1>2, <1>3
  <2> QED
    BY <2>1, <1>4
<1>7. e \in ToSet(Append(s, e))
  <2>1. Len(s) + 1 \in 1..Len(s) + 1 /\ Append(s, e)[Len(s) + 1] = e
    BY <1>2, <1>3
  <2> QED
    BY <2>1, <1>4
<1> QED
  BY <1>1, <1>3, <1>4, <1>5, <1>6, <1>7

LEMMA Beheaded ==
  ASSUME NEW S, NEW s \in Seq(S), s # <<>>
  PROVE  /\ Head(s) \in S /\ Head(s) \in ToSet(s)
         /\ Tail(s) \in Seq(S) /\ ToSet(Tail(s)) \subseteq ToSet(s)
         /\ \A e \in ToSet(s) : e # Head(s) => e \in ToSet(Tail(s))
<1>1. Tail(s) \in Seq(S) /\ Len(Tail(s)) = Len(s) - 1 /\ Len(s) > 0
  OBVIOUS
<1>2. \A i \in 1..Len(s) - 1 : Tail(s)[i] = s[i + 1]
  OBVIOUS
<1>3. Head(s) = s[1]
  OBVIOUS
<1>4. ToSet(s) = {s[i] : i \in 1..Len(s)}
  BY ToSetDef
<1>5. ToSet(Tail(s)) = {Tail(s)[i] : i \in 1..Len(s) - 1}
  BY <1>1, ToSetDef
<1>6. \A e \in ToSet(Tail(s)) : e \in ToSet(s)
  BY <1>1, <1>2, <1>4, <1>5
<1>7. ASSUME NEW e \in ToSet(s), e # Head(s) PROVE e \in ToSet(Tail(s))
  <2>1. PICK i \in 1..Len(s) : s[i] = e
    BY <1>4, <1>7
  <2>2. i - 1 \in 1..Len(s) - 1 /\ Tail(s)[i - 1] = e
    BY <2>1, <1>1, <1>2, <1>3, <1>7
  <2> QED
    BY <2>2, <1>5
<1> QED
  BY <1>1, <1>3, <1>4, <1>6, <1>7

\* RemoveFirst takes one place out, and nobody else.
LEMMA Shortened ==
  ASSUME NEW S, NEW s \in Seq(S), NEW e, NEW j \in 1..Len(s)
  PROVE  LET t == RemoveAt(s, j) IN
         /\ t \in Seq(S) /\ Len(t) = Len(s) - 1
         /\ \A i \in 1..Len(s) - 1 : t[i] = IF i < j THEN s[i] ELSE s[i + 1]
<1> DEFINE a == SubSeq(s, 1, j - 1)
           b == SubSeq(s, j + 1, Len(s))
<1>0. Len(s) \in Nat
  OBVIOUS
<1>1. a \in Seq(S) /\ Len(a) = j - 1 /\ \A i \in 1..j - 1 : a[i] = s[i]
  BY <1>0
<1>2. b \in Seq(S) /\ Len(b) = Len(s) - j /\ \A i \in 1..Len(s) - j : b[i] = s[i + j]
  BY <1>0
<1> HIDE DEF a, b
<1>3. a \o b \in Seq(S) /\ Len(a \o b) = Len(a) + Len(b)
  <2>1. a \in Seq(S) /\ b \in Seq(S)
    BY <1>1, <1>2
  <2> QED
    BY <2>1
<1>4. \A i \in 1..Len(a) + Len(b) :
        (a \o b)[i] = IF i <= Len(a) THEN a[i] ELSE b[i - Len(a)]
  <2>1. a \in Seq(S) /\ b \in Seq(S)
    BY <1>1, <1>2
  <2> QED
    BY <2>1
<1>5. Len(a \o b) = Len(s) - 1
  BY <1>1, <1>2, <1>3, <1>0
<1>6. ASSUME NEW i \in 1..Len(s) - 1
      PROVE  (a \o b)[i] = IF i < j THEN s[i] ELSE s[i + 1]
  <2>0. i \in 1..Len(a) + Len(b)
    BY <1>0, <1>1, <1>2
  <2>1. CASE i < j
    BY <2>0, <2>1, <1>0, <1>1, <1>4
  <2>2. CASE ~(i < j)
    <3>1. i - Len(a) = i - j + 1 /\ i - j + 1 \in 1..Len(s) - j /\ ~(i <= Len(a))
      BY <2>2, <1>0, <1>1
    <3>2. b[i - j + 1] = s[(i - j + 1) + j] /\ (i - j + 1) + j = i + 1
      BY <3>1, <1>2
    <3> QED
      BY <2>0, <2>2, <3>1, <3>2, <1>4
  <2> QED
    BY <2>1, <2>2
<1>7. RemoveAt(s, j) = a \o b
  BY DEF RemoveAt, a, b
<1> QED
  BY <1>3, <1>5, <1>6, <1>7

LEMMA Removed ==
  ASSUME NEW S, NEW s \in Seq(S), NEW e
  PROVE  \/ e \notin ToSet(s) /\ RemoveFirst(s, e) = s
         \/ \E j \in 1..Len(s) : s[j] = e /\ RemoveFirst(s, e) = RemoveAt(s, j)
<1>0. Len(s) \in Nat
  OBVIOUS
<1>1. CASE \E i \in 1..Len(s) : s[i] = e
  <2> DEFINE I == {i \in 1..Len(s) : s[i] = e}
             M == CHOOSE x \in I : \A y \in I : x <= y
  <2>1. RemoveFirst(s, e) = RemoveAt(s, M)
    BY <1>1 DEF RemoveFirst, SelectInSeq, Min
  <2>2. I \in SUBSET Nat /\ I # {}
    BY <1>1
  <2>3. \E x \in I : \A y \in I : x <= y
    <3> HIDE DEF I
    <3> QED
      BY <2>2, Least
  <2>4. M \in I
    <3> HIDE DEF I
    <3> QED
      BY <2>3
  <2> HIDE DEF M
  <2> QED
    BY <2>1, <2>4
<1>2. CASE ~\E i \in 1..Len(s) : s[i] = e
  BY <1>2, ToSetDef DEF RemoveFirst
<1> QED
  BY <1>1, <1>2

LEMMA RemovedSet ==
  ASSUME NEW S, NEW s \in Seq(S), NEW e
  PROVE  LET t == RemoveFirst(s, e) IN
         /\ t \in Seq(S) /\ ToSet(t) \subseteq ToSet(s)
         /\ \A d \in ToSet(s) : d # e => d \in ToSet(t)
         /\ s = <<>> => t = <<>>
<1> DEFINE t == RemoveFirst(s, e)
<1>0. Len(s) \in Nat /\ ToSet(s) = {s[i] : i \in 1..Len(s)}
  BY ToSetDef
<1>1. CASE e \notin ToSet(s) /\ t = s
  BY <1>1
<1>2. ASSUME NEW j \in 1..Len(s), s[j] = e, t = RemoveAt(s, j)
      PROVE  /\ t \in Seq(S) /\ ToSet(t) \subseteq ToSet(s)
             /\ \A d \in ToSet(s) : d # e => d \in ToSet(t)
             /\ s = <<>> => t = <<>>
  <2> HIDE DEF t
  <2>1. t \in Seq(S) /\ Len(t) = Len(s) - 1
    BY <1>2, Shortened
  <2>2. \A i \in 1..Len(s) - 1 : t[i] = IF i < j THEN s[i] ELSE s[i + 1]
    BY <1>2, Shortened
  <2>3. ToSet(t) = {t[i] : i \in 1..Len(s) - 1}
    BY <2>1, ToSetDef
  <2>4. ToSet(t) \subseteq ToSet(s)
    <3> SUFFICES ASSUME NEW i \in 1..Len(s) - 1 PROVE t[i] \in ToSet(s)
      BY <2>3
    <3>1. i \in 1..Len(s) /\ i + 1 \in 1..Len(s)
      BY <1>0
    <3> QED
      BY <2>2, <1>0, <3>1
  <2>5. ASSUME NEW d \in ToSet(s), d # e PROVE d \in ToSet(t)
    <3>1. PICK i \in 1..Len(s) : s[i] = d
      BY <1>0
    <3>2. CASE i < j
      <4>1. i \in 1..Len(s) - 1
        BY <1>0, <3>2
      <4> QED
        BY <4>1, <3>1, <3>2, <2>2, <2>3
    <3>3. CASE ~(i < j)
      <4>1. i - 1 \in 1..Len(s) - 1 /\ ~(i - 1 < j) /\ (i - 1) + 1 = i
        BY <1>0, <3>1, <3>3, <1>2, <2>5
      <4>2. t[i - 1] = s[i]
        BY <4>1, <2>2
      <4> QED
        BY <4>1, <4>2, <3>1, <2>3
    <3> QED
      BY <3>2, <3>3
  <2>6. s # <<>>
    BY <1>2
  <2> QED
    BY <2>1, <2>4, <2>5, <2>6
<1>3. \/ e \notin ToSet(s) /\ t = s
      \/ \E j \in 1..Len(s) : s[j] = e /\ t = RemoveAt(s, j)
  BY Removed
<1> QED
  BY <1>1, <1>2, <1>3

\* g are the results of a loop over s whose body is the function F.
Results(g, F, w, n, s) ==
  g[0] = w /\ \A i \in 1..n : g[i] = F[<<g[i - 1], s[i]>>]

\* Every loop has results.
LEMMA LoopExists ==
  ASSUME NEW W, NEW O, NEW F \in [W \X O -> W], NEW w \in W, NEW n \in Nat,
         NEW s \in [1..n -> O]
  PROVE  \E g \in [0..n -> W] : Results(g, F, w, n, s)
<1> DEFINE T == {k \in 0..n : \E g \in [0..k -> W] :
                   g[0] = w /\ \A i \in 1..k : g[i] = F[<<g[i - 1], s[i]>>]}
<1>1. 0 \in T
  <2>1. [i \in 0..0 |-> w] \in [0..0 -> W]
    OBVIOUS
  <2>2. [i \in 0..0 |-> w][0] = w /\ 1..0 = {}
    OBVIOUS
  <2>3. \A i \in 1..0 : FALSE
    OBVIOUS
  <2>4. \E g \in [0..0 -> W] : g[0] = w /\ \A i \in 1..0 : g[i] = F[<<g[i - 1], s[i]>>]
    BY <2>1, <2>2, <2>3
  <2> QED
    BY <2>4
<1>2. ASSUME NEW k \in 1..n, k - 1 \in T PROVE k \in T
  <2>1. PICK g \in [0..(k-1) -> W] :
          g[0] = w /\ \A i \in 1..(k-1) : g[i] = F[<<g[i - 1], s[i]>>]
    BY <1>2
  <2> DEFINE h == [i \in 0..k |-> IF i = k THEN F[<<g[k - 1], s[k]>>] ELSE g[i]]
  <2>2. F[<<g[k - 1], s[k]>>] \in W
    <3>1. g[k - 1] \in W /\ s[k] \in O
      BY <2>1
    <3> QED
      BY <3>1
  <2>3. h \in [0..k -> W]
    BY <2>2
  <2>4. h[0] = w
    BY <2>1
  <2>5. ASSUME NEW i \in 1..k PROVE h[i] = F[<<h[i - 1], s[i]>>]
    <3>1. CASE i = k
      <4>1. k \in 0..k /\ k - 1 \in 0..k /\ k - 1 # k
        OBVIOUS
      <4>2. h[k] = F[<<g[k - 1], s[k]>>] /\ h[k - 1] = g[k - 1]
        BY <4>1
      <4> QED
        BY <4>2, <3>1
    <3>2. CASE i # k
      <4>1. i \in 1..(k-1) /\ i \in 0..k /\ i - 1 \in 0..k /\ i - 1 # k
        BY <3>2
      <4>2. h[i] = g[i] /\ h[i - 1] = g[i - 1]
        BY <4>1, <3>2
      <4> QED
        BY <4>1, <4>2, <2>1
    <3> QED
      BY <3>1, <3>2
  <2> HIDE DEF h
  <2>6. k \in 0..n
    OBVIOUS
  <2> QED
    BY <2>3, <2>4, <2>5, <2>6
<1> HIDE DEF T
<1>3. \A k \in 0..n : k \in T
  BY <1>1, <1>2, Steps
<1>4. n \in 0..n
  OBVIOUS
<1> QED
  BY <1>3, <1>4 DEF T, Results

\* Without leaves out what it is told to, and nothing else.
LEMMA WithoutSet ==
  ASSUME NEW S, NEW s \in Seq(S), NEW E
  PROVE  Without(s, E) \in Seq(S) /\ ToSet(Without(s, E)) = ToSet(s) \ E
<1> DEFINE n == Len(s)
           keep(t, e) == IF e \in E THEN t ELSE Append(t, e)
           F == [x \in Seq(S) \X S |-> keep(x[1], x[2])]
           after[i \in 0..Len(s)] == IF i = 0 THEN <<>> ELSE keep(after[i - 1], s[i])
           T == {i \in 0..n : after[i] \in Seq(S)
                              /\ ToSet(after[i]) = {s[k] : k \in 1..i} \ E}
<1>1. n \in Nat /\ s \in [1..n -> S]
  OBVIOUS
<1>2. F \in [Seq(S) \X S -> Seq(S)]
  OBVIOUS
<1>3. PICK g \in [0..n -> Seq(S)] :
        g[0] = <<>> /\ \A i \in 1..n : g[i] = F[<<g[i - 1], s[i]>>]
  <2> HIDE DEF F, n
  <2> DEFINE e == <<>>
             W == Seq(S)
  <2>1. F \in [W \X S -> W] /\ e \in W
    BY <1>2
  <2> HIDE DEF e, W
  <2>2. \E g \in [0..n -> W] : Results(g, F, e, n, s)
    BY <1>1, <2>1, LoopExists
  <2> QED
    BY <2>2 DEF e, W, Results
<1>4. g = [i \in 0..n |-> IF i = 0 THEN <<>> ELSE keep(g[i - 1], s[i])]
  <2>1. ASSUME NEW i \in 1..n PROVE g[i] = keep(g[i - 1], s[i])
    <3>1. g[i - 1] \in Seq(S) /\ s[i] \in S
      BY <1>1
    <3> QED
      BY <3>1, <1>3
  <2> HIDE DEF keep, F
  <2> QED
    BY <2>1, <1>3
<1>5. after = [i \in 0..Len(s) |-> IF i = 0 THEN <<>> ELSE keep(after[i - 1], s[i])]
  BY <1>4
<1>6. Without(s, E) = after[n]
  BY DEF Without, InTurn
<1> HIDE DEF after
<1>7. after[0] = <<>> /\ \A i \in 1..n : after[i] = keep(after[i - 1], s[i])
  <2> HIDE DEF keep
  <2> QED
    BY <1>1, <1>5
<1>8. 0 \in T
  <2>1. ToSet(<<>>) = {}
    BY DEF ToSet
  <2>2. {s[k] : k \in 1..0} \ E = {} /\ <<>> \in Seq(S) /\ 0 \in 0..n
    BY <1>1
  <2> QED
    BY <1>7, <2>1, <2>2
<1>9. ASSUME NEW i \in 1..n, i - 1 \in T PROVE i \in T
  <2>1. s[i] \in S /\ after[i - 1] \in Seq(S)
    BY <1>1, <1>9
  <2>2. {s[k] : k \in 1..i} = {s[k] : k \in 1..(i - 1)} \cup {s[i]}
    BY <1>1
  <2>3. after[i] = keep(after[i - 1], s[i])
    BY <1>7
  <2>4. CASE s[i] \in E
    BY <1>1, <1>9, <2>1, <2>2, <2>3, <2>4
  <2>5. CASE s[i] \notin E
    <3>1. after[i] = Append(after[i - 1], s[i])
      BY <2>3, <2>5
    <3>2. after[i] \in Seq(S) /\ ToSet(after[i]) = ToSet(after[i - 1]) \cup {s[i]}
      BY <3>1, <2>1, Appended
    <3>3. ToSet(after[i - 1]) = {s[k] : k \in 1..(i - 1)} \ E
      BY <1>9
    <3>4. ToSet(after[i]) = {s[k] : k \in 1..i} \ E
      BY <3>2, <3>3, <2>2, <2>5
    <3> QED
      BY <1>1, <3>2, <3>4
  <2> QED
    BY <2>4, <2>5
<1> HIDE DEF T
<1>10. n \in T
  <2>1. n \in Nat /\ n \in 0..n
    BY <1>1
  <2> HIDE DEF n
  <2>2. \A k \in 0..n : k \in T
    BY <2>1, <1>8, <1>9, Steps
  <2> QED
    BY <2>1, <2>2
<1>11. ToSet(s) = {s[k] : k \in 1..n}
  BY ToSetDef
<1> QED
  BY <1>6, <1>10, <1>11 DEF T

-----------------------------------------------------------------------------
(* What is true of the heap of the main thread, whatever the room thread    *)
(* does.                                                                    *)

Made(w)  == 1..w.made
Posts(w) == ToSet(w.posted)
Given(r) == [do |-> "deleteRoom", of |-> r]
HumanIn(w, r) == \E o \in ToSet(w.room[r].players) : Human(w, o)

\* Accounts and players: a connected player is the one its account is known
\* by; who is not made yet is nowhere; a robot stays a robot.
Accounts(w) ==
  \A u \in Users : w.players[u] # Nobody =>
    w.obj[w.players[u]].user = u /\ w.obj[w.players[u]].life = "live"
Sockets(w) ==
  \A o \in Objs : w.obj[o].socket # "none" =>
    Human(w, o) /\ w.players[w.obj[o].user] = o
Unmade(w) ==
  \A o \in Objs : o \notin Made(w) =>
    w.obj[o].life = "none" /\ ~Human(w, o) /\ w.obj[o].room = Lobby
RobotsStay(w) == \A o \in Objs : ~Human(w, o) => w.obj[o].state = "Robot"
Posted(w) ==
  \A e \in Posts(w) :
    /\ e.do # "deleteRoom" => e.of \in Made(w)
    /\ e.do = "kick" => Human(w, e.of)
Seated(w) ==
  \A r \in Rooms : /\ ToSet(w.room[r].players) \subseteq Made(w)
                   /\ ToSet(w.room[r].observers) \subseteq Made(w)
Sessions(w) == /\ Accounts(w) /\ Sockets(w) /\ Unmade(w) /\ RobotsStay(w)
               /\ Posted(w) /\ Seated(w)

\* Rooms: a room that can be found has a human, and an owner is one of the
\* players, except in the room y that somebody is just leaving; an abandoned
\* one will be deleted, unless it is x, which is just being deleted, or the
\* room thread has a reference to it.
Places(w) == \A o \in Objs : w.obj[o].room # Lobby => w.room[w.obj[o].room].life # "none"
Empty(w)  ==
  \A r \in Rooms :
    /\ w.room[r].life # "live" => w.room[r].players = <<>> /\ w.room[r].started = FALSE
    /\ w.room[r].life = "none" =>
         /\ w.room[r].abandoned = FALSE /\ w.room[r].owner = Nobody
         /\ w.room[r].rejected = {}
    /\ w.room[r].life = "freed" =>
         w.room[r].abandoned = TRUE /\ w.room[r].owner = Nobody
Found(w, y) ==
  \A r \in w.rooms :
    /\ r # y => HumanIn(w, r)
    /\ w.room[r].life = "live" /\ w.room[r].abandoned = FALSE
Leaving(w) ==
  \A r \in Rooms : Given(r) \in Posts(w) =>
    w.room[r].life = "live" /\ w.room[r].abandoned = TRUE
Left(w, x) ==
  \A r \in Rooms : r # x /\ w.room[r].life = "live" /\ w.room[r].abandoned = TRUE
                         /\ w.room[r].refs = 0 => Given(r) \in Posts(w)
Owned(w, y) ==
  \A r \in Rooms : r # y /\ w.room[r].life = "live" /\ w.room[r].owner # Nobody =>
    \/ w.room[r].owner \in ToSet(w.room[r].players)
    \/ w.obj[w.room[r].owner].life = "freed" /\ ~Human(w, w.room[r].owner)
Households(w, x, y) ==
  Places(w) /\ Empty(w) /\ Found(w, y) /\ Leaving(w) /\ Left(w, x) /\ Owned(w, y)

Good(w, x, y) == w \in Servers /\ Sessions(w) /\ Households(w, x, y)

\* A step that moves nobody between rooms: what helpers like kick,
\* onDisconnected or deleteLater do.
SameRoom(R, Q) ==
  /\ Q.players = R.players /\ Q.owner = R.owner /\ Q.started = R.started
  /\ Q.abandoned = R.abandoned /\ Q.refs = R.refs /\ Q.life = R.life
  /\ ToSet(Q.observers) \subseteq ToSet(R.observers)
  /\ Q.rejected = R.rejected
SamePlayer(w, v, o) ==
  /\ v.obj[o].user = w.obj[o].user /\ v.obj[o].life = w.obj[o].life
  /\ v.obj[o].room \in {w.obj[o].room, Lobby}
  /\ v.obj[o].socket # "none" =>
       \/ w.obj[o].socket # "none"
       \/ Human(w, o) /\ w.players[w.obj[o].user] = o
  /\ v.obj[o].state = w.obj[o].state \/ Human(w, o)
Added(w, v) ==
  /\ \A e \in Posts(w) : e \in Posts(v)
  /\ \A e \in Posts(v) : \/ e \in Posts(w)
                         \/ /\ e.do \in {"kick", "delete"} /\ e.of \in Made(w)
                            /\ e.do = "kick" => Human(w, e.of)
\* What the games rely on, whatever else a handler of the main thread does.
Onward(w, v) ==
  /\ Made(w) \subseteq Made(v)
  /\ \A o \in Made(w) : v.obj[o].user = w.obj[o].user
  /\ \A r \in Rooms :
       /\ v.room[r].refs = w.room[r].refs /\ v.room[r].life = w.room[r].life
       /\ v.room[r].started = w.room[r].started
       /\ w.room[r].started = TRUE /\ HumanIn(w, r) => HumanIn(v, r)
Quiet(w, v) ==
  /\ v \in Servers
  /\ v.made = w.made /\ v.rooms = w.rooms /\ v.players = w.players
  /\ \A r \in Rooms : SameRoom(w.room[r], v.room[r])
  /\ \A o \in Objs : SamePlayer(w, v, o)
  /\ Added(w, v)

LEMMA MadeObjs == ASSUME NEW w \in Servers
  PROVE  Made(w) \subseteq Objs /\ w.made \in Nat /\ Nobody \notin Objs /\ Lobby \notin Rooms
<1>1. w.made \in 0..MaxObjs /\ MaxObjs \in Nat
  BY LifecycleConstants DEF Servers
<1>2. Lobby \notin Rooms
  BY LifecycleConstants DEF Lobby
<1> QED
  BY <1>1, <1>2 DEF Made, Objs, Nobody

LEMMA QuietSelf == ASSUME NEW w \in Servers PROVE Quiet(w, w)
  BY DEF Quiet, SameRoom, SamePlayer, Added

LEMMA QuietTwice ==
  ASSUME NEW w \in Servers, NEW v, NEW z, Quiet(w, v), Quiet(v, z)
  PROVE  Quiet(w, z)
<1>1. v \in Servers /\ z \in Servers
  BY DEF Quiet
<1>2. z.made = w.made /\ z.rooms = w.rooms /\ z.players = w.players
  BY DEF Quiet
<1>3. ASSUME NEW r \in Rooms PROVE SameRoom(w.room[r], z.room[r])
  <2>1. SameRoom(w.room[r], v.room[r]) /\ SameRoom(v.room[r], z.room[r])
    BY DEF Quiet
  <2> QED
    BY <2>1 DEF SameRoom
<1>4. ASSUME NEW o \in Objs PROVE SamePlayer(w, z, o)
  <2>1. SamePlayer(w, v, o) /\ SamePlayer(v, z, o) /\ v.players = w.players
    BY DEF Quiet
  <2> QED
    BY <2>1 DEF SamePlayer, Human
<1>5. Added(w, z)
  <2>1. Added(w, v) /\ Added(v, z) /\ Made(v) = Made(w)
    BY DEF Quiet, Made
  <2>2. \A o \in Objs : v.obj[o].user = w.obj[o].user
    BY DEF Quiet, SamePlayer
  <2>3. \A o \in Made(w) : Human(v, o) <=> Human(w, o)
    BY <2>2, MadeObjs DEF Human
  <2> QED
    BY <2>1, <2>3 DEF Added
<1> QED
  BY <1>1, <1>2, <1>3, <1>4, <1>5 DEF Quiet

LEMMA QuietSessions ==
  ASSUME NEW w \in Servers, NEW v, Quiet(w, v), Sessions(w)
  PROVE  Sessions(v)
<1>1. \A o \in Objs : SamePlayer(w, v, o)
  BY DEF Quiet
<1>2. v \in Servers /\ v.players = w.players /\ Made(v) = Made(w)
  BY DEF Quiet, Made
<1>3. \A o \in Objs : Human(v, o) <=> Human(w, o)
  BY <1>1 DEF SamePlayer, Human
<1>4. \A u \in Users : w.players[u] \in Objs \cup {Nobody}
  BY DEF Servers
<1>5. Accounts(v)
  BY <1>1, <1>2, <1>4 DEF Sessions, Accounts, SamePlayer
<1>6. Sockets(v)
  BY <1>1, <1>2, <1>3 DEF Sessions, Sockets, SamePlayer
<1>7. Unmade(v)
  BY <1>1, <1>2, <1>3 DEF Sessions, Unmade, SamePlayer
<1>8. RobotsStay(v)
  BY <1>1, <1>3 DEF Sessions, RobotsStay, SamePlayer
<1>9. Posted(v)
  <2>1. Added(w, v) /\ Posted(w)
    BY DEF Quiet, Sessions
  <2>2. \A o \in Made(w) : Human(v, o) <=> Human(w, o)
    BY <1>3, MadeObjs
  <2> QED
    BY <1>2, <2>1, <2>2 DEF Added, Posted
<1>10. Seated(v)
  BY <1>2 DEF Quiet, SameRoom, Sessions, Seated
<1> QED
  BY <1>5, <1>6, <1>7, <1>8, <1>9, <1>10 DEF Sessions

LEMMA QuietHouseholds ==
  ASSUME NEW w \in Servers, NEW v, NEW x, NEW y, Quiet(w, v), Sessions(w), Households(w, x, y)
  PROVE  Households(v, x, y)
<1>1. \A o \in Objs : SamePlayer(w, v, o)
  BY DEF Quiet
<1>2. \A r \in Rooms : SameRoom(w.room[r], v.room[r])
  BY DEF Quiet
<1>3. \A o \in Objs : Human(v, o) <=> Human(w, o)
  BY <1>1 DEF SamePlayer, Human
<1>4. v.rooms = w.rooms /\ w.rooms \subseteq Rooms /\ v \in Servers
  BY DEF Quiet, Servers
<1>5. \A r \in Rooms : /\ ToSet(w.room[r].players) \subseteq Objs
                       /\ w.room[r].owner \in Objs \cup {Nobody}
  <2>1. \A r \in Rooms : w.room[r].players \in Seq(Objs) /\ w.room[r].owner \in Objs \cup {Nobody}
    BY DEF Servers, RoomState
  <2> QED
    BY <2>1, ToSetDef
<1>6. \A r \in Rooms : Given(r) \in Posts(v) <=> Given(r) \in Posts(w)
  BY DEF Quiet, Added, Given
<1>7. Places(v)
  <2>1. \A o \in Objs : w.obj[o].room \in Rooms \cup {Lobby}
    BY DEF Servers, Player
  <2> QED
    BY <1>1, <1>2, <2>1 DEF Households, Places, SamePlayer, SameRoom
<1>8. Empty(v)
  BY <1>2 DEF Households, Empty, SameRoom
<1>9. Found(v, y)
  BY <1>2, <1>3, <1>4, <1>5 DEF Households, Found, SameRoom, HumanIn
<1>10. Leaving(v)
  BY <1>2, <1>6 DEF Households, Leaving, SameRoom
<1>11. Left(v, x)
  BY <1>2, <1>6 DEF Households, Left, SameRoom
<1>12. Owned(v, y)
  BY <1>1, <1>2, <1>3, <1>5 DEF Households, Owned, SameRoom, SamePlayer
<1> QED
  BY <1>7, <1>8, <1>9, <1>10, <1>11, <1>12 DEF Households

LEMMA QuietGood ==
  ASSUME NEW w, NEW v, NEW x, NEW y, Good(w, x, y), Quiet(w, v)
  PROVE  Good(v, x, y)
<1>1. w \in Servers /\ Sessions(w) /\ Households(w, x, y) /\ v \in Servers
  BY DEF Good, Quiet
<1> QED
  BY <1>1, QuietSessions, QuietHouseholds DEF Good

LEMMA OnwardSelf == ASSUME NEW w PROVE Onward(w, w)
  BY DEF Onward

LEMMA OnwardTwice == ASSUME NEW w, NEW v, NEW z, Onward(w, v), Onward(v, z)
  PROVE  Onward(w, z)
<1>1. Made(w) \subseteq Made(z) /\ \A o \in Made(w) : z.obj[o].user = w.obj[o].user
  BY DEF Onward
<1>2. \A r \in Rooms :
       /\ z.room[r].refs = w.room[r].refs /\ z.room[r].life = w.room[r].life
       /\ z.room[r].started = w.room[r].started
       /\ w.room[r].started = TRUE /\ HumanIn(w, r) => HumanIn(z, r)
  BY DEF Onward
<1> QED
  BY <1>1, <1>2 DEF Onward

LEMMA QuietOnward == ASSUME NEW w \in Servers, NEW v, Quiet(w, v)
  PROVE  Onward(w, v)
<1>1. Made(v) = Made(w) /\ Made(w) \subseteq Objs
  BY MadeObjs DEF Quiet, Made
<1>2. \A o \in Objs : v.obj[o].user = w.obj[o].user
  BY DEF Quiet, SamePlayer
<1>3. \A r \in Rooms : SameRoom(w.room[r], v.room[r])
  BY DEF Quiet
<1>4. ASSUME NEW r \in Rooms, HumanIn(w, r) PROVE HumanIn(v, r)
  <2>1. w.room[r].players \in Seq(Objs)
    BY DEF Servers, RoomState
  <2>2. ToSet(w.room[r].players) \subseteq Objs /\ v.room[r].players = w.room[r].players
    BY <1>3, <2>1, ToSetDef DEF SameRoom
  <2> QED
    BY <1>2, <1>4, <2>2 DEF HumanIn, Human
<1> QED
  BY <1>1, <1>2, <1>3, <1>4 DEF Onward, SameRoom

\* What is quiet keeps what is good.
LEMMA QuietStep ==
  ASSUME NEW w, NEW v, NEW x, NEW y, Good(w, x, y), Quiet(w, v)
  PROVE  Good(v, x, y) /\ Onward(w, v)
  BY QuietGood, QuietOnward DEF Good

-----------------------------------------------------------------------------
(* The quiet helpers.                                                       *)

\* A player is changed in what may change quietly.
LEMMA Restyled ==
  ASSUME NEW w \in Servers, NEW o \in Objs, NEW p \in Player, NEW v,
         v = [w EXCEPT !.obj[o] = p],
         p.user = w.obj[o].user, p.life = w.obj[o].life,
         p.room \in {w.obj[o].room, Lobby},
         p.socket # "none" => \/ w.obj[o].socket # "none"
                              \/ Human(w, o) /\ w.players[w.obj[o].user] = o,
         p.state = w.obj[o].state \/ Human(w, o)
  PROVE  /\ Quiet(w, v) /\ v.obj[o] = p /\ v.posted = w.posted /\ v.lobby = w.lobby
         /\ v.room = w.room
<1>1. v \in Servers /\ v.made = w.made /\ v.rooms = w.rooms /\ v.players = w.players
  BY DEF Servers
<1>2. v.room = w.room /\ v.posted = w.posted /\ v.lobby = w.lobby
  BY DEF Servers
<1>3. \A q \in Objs : v.obj[q] = IF q = o THEN p ELSE w.obj[q]
  BY DEF Servers
<1>4. \A q \in Objs : SamePlayer(w, v, q)
  BY <1>3 DEF SamePlayer, Human
<1>5. \A r \in Rooms : SameRoom(w.room[r], v.room[r])
  BY <1>2 DEF SameRoom
<1>6. Added(w, v)
  BY <1>2 DEF Added, Posts
<1> QED
  BY <1>1, <1>2, <1>3, <1>4, <1>5, <1>6 DEF Quiet

LEMMA Styles == ASSUME NEW w \in Servers, NEW o \in Objs
  PROVE  w.obj[o] \in Player
  BY DEF Servers

LEMMA SetStateQuiet ==
  ASSUME NEW w \in Servers, NEW o \in Objs, Human(w, o),
         NEW s \in {"Online", "Offline", "Robot", "Run"}
  PROVE  LET v == SetState(w, o, s) IN
         /\ Quiet(w, v) /\ v.posted = w.posted /\ v.lobby = w.lobby /\ v.room = w.room
         /\ v.obj = [w.obj EXCEPT ![o].state = s]
<1> DEFINE p == [w.obj[o] EXCEPT !.state = s]
<1>1. p \in Player /\ p.user = w.obj[o].user /\ p.life = w.obj[o].life
      /\ p.room = w.obj[o].room /\ p.socket = w.obj[o].socket
  BY Styles DEF Player
<1>2. SetState(w, o, s) = [w EXCEPT !.obj[o] = p]
  BY DEF SetState
<1>3. SetState(w, o, s).obj = [w.obj EXCEPT ![o].state = s]
  BY DEF SetState, Servers
<1> HIDE DEF p
<1> QED
  BY <1>1, <1>2, <1>3, Restyled

LEMMA SocketQuiet ==
  ASSUME NEW w \in Servers, NEW o \in Objs, NEW s \in {"none", "open", "closed"},
         s # "none" => \/ w.obj[o].socket # "none"
                       \/ Human(w, o) /\ w.players[w.obj[o].user] = o
  PROVE  LET v == [w EXCEPT !.obj[o].socket = s] IN
         /\ Quiet(w, v) /\ v.posted = w.posted /\ v.lobby = w.lobby /\ v.room = w.room
         /\ v.obj = [w.obj EXCEPT ![o].socket = s]
<1> DEFINE p == [w.obj[o] EXCEPT !.socket = s]
           v == [w EXCEPT !.obj[o] = p]
<1>1. p \in Player /\ p.user = w.obj[o].user /\ p.life = w.obj[o].life
      /\ p.room = w.obj[o].room /\ p.state = w.obj[o].state /\ p.socket = s
  BY Styles DEF Player
<1>2. [w EXCEPT !.obj[o].socket = s] = v
  OBVIOUS
<1>3. v.obj = [w.obj EXCEPT ![o].socket = s]
  BY DEF Servers
<1>4. v = [w EXCEPT !.obj[o] = p]
  OBVIOUS
<1> HIDE DEF p, v
<1> QED
  BY <1>1, <1>2, <1>3, <1>4, Restyled

ToLobby(w, l, o) == [w EXCEPT !.lobby = l, !.obj[o].room = Lobby]

LEMMA LobbyQuiet ==
  ASSUME NEW w \in Servers, NEW l \in Seq(Objs), NEW o \in Objs
  PROVE  LET v == ToLobby(w, l, o) IN
         Quiet(w, v) /\ v.posted = w.posted /\ v.lobby = l /\ v.room = w.room
<1> DEFINE ob == [w.obj EXCEPT ![o].room = Lobby]
           v == ToLobby(w, l, o)
<1>0. v = [w EXCEPT !.lobby = l, !.obj = ob]
  BY DEF ToLobby, Servers
<1> HIDE DEF v
<1>1. ob \in [Objs -> Player]
  <2> DEFINE p == [w.obj[o] EXCEPT !.room = Lobby]
  <2>1. p \in Player
    BY Styles DEF Player
  <2>2. ob = [w.obj EXCEPT ![o] = p]
    OBVIOUS
  <2> HIDE DEF p, ob
  <2> QED
    BY <2>1, <2>2 DEF Servers
<1> HIDE DEF ob
<1>2. v \in Servers
  BY <1>0, <1>1 DEF Servers
<1>3. v.made = w.made /\ v.rooms = w.rooms /\ v.players = w.players /\ v.room = w.room
      /\ v.posted = w.posted /\ v.lobby = l /\ v.obj = ob
  BY <1>0 DEF Servers
<1>4. \A q \in Objs : SamePlayer(w, v, q)
  BY <1>3 DEF SamePlayer, Servers, Player, ob
<1>5. \A r \in Rooms : SameRoom(w.room[r], v.room[r])
  BY <1>3 DEF SameRoom
<1>6. Added(w, v)
  BY <1>3 DEF Added, Posts
<1>7. Quiet(w, v)
  BY <1>2, <1>3, <1>4, <1>5, <1>6 DEF Quiet
<1> QED
  BY <1>3, <1>7 DEF v, ob

LEMMA LobbyOnlyQuiet ==
  ASSUME NEW w \in Servers, NEW l \in Seq(Objs)
  PROVE  LET v == [w EXCEPT !.lobby = l] IN
         /\ Quiet(w, v) /\ v.posted = w.posted /\ v.lobby = l /\ v.room = w.room
         /\ v.obj = w.obj
<1> DEFINE v == [w EXCEPT !.lobby = l]
<1>1. v \in Servers
  BY DEF Servers
<1>2. v.made = w.made /\ v.rooms = w.rooms /\ v.players = w.players /\ v.room = w.room
      /\ v.posted = w.posted /\ v.lobby = l /\ v.obj = w.obj
  BY DEF Servers
<1> HIDE DEF v
<1>4. \A q \in Objs : SamePlayer(w, v, q)
  BY <1>2 DEF SamePlayer
<1>5. \A r \in Rooms : SameRoom(w.room[r], v.room[r])
  BY <1>2 DEF SameRoom
<1>6. Added(w, v)
  BY <1>2 DEF Added, Posts
<1>7. Quiet(w, v)
  BY <1>1, <1>2, <1>4, <1>5, <1>6 DEF Quiet
<1> QED
  BY <1>2, <1>7 DEF v

LEMMA PostQuiet ==
  ASSUME NEW w \in Servers, NEW what \in {"kick", "delete"}, NEW o \in Made(w),
         what = "kick" => Human(w, o)
  PROVE  LET v == Post(w, what, o) IN
         /\ Quiet(w, v) /\ v.obj = w.obj /\ v.lobby = w.lobby /\ v.room = w.room
         /\ Posts(v) = Posts(w) \cup {[do |-> what, of |-> o]}
<1> DEFINE e == [do |-> what, of |-> o]
           v == Post(w, what, o)
<1>0. o \in Objs
  BY MadeObjs
<1>1. e \in Event /\ w.posted \in Seq(Event)
  BY <1>0 DEF Event, Servers
<1>2. e.do = what /\ e.of = o
  OBVIOUS
<1> HIDE DEF e
<1>3. v = [w EXCEPT !.posted = Append(w.posted, e)]
  BY DEF Post, e
<1>4. Append(w.posted, e) \in Seq(Event) /\ ToSet(Append(w.posted, e)) = Posts(w) \cup {e}
  BY <1>1, Appended DEF Posts
<1>5. v \in Servers
  BY <1>3, <1>4 DEF Servers
<1>6. v.made = w.made /\ v.rooms = w.rooms /\ v.players = w.players /\ v.room = w.room
      /\ v.lobby = w.lobby /\ v.obj = w.obj /\ v.posted = Append(w.posted, e)
  BY <1>3 DEF Servers
<1> HIDE DEF v
<1>7. \A q \in Objs : SamePlayer(w, v, q)
  BY <1>6 DEF SamePlayer
<1>8. \A r \in Rooms : SameRoom(w.room[r], v.room[r])
  BY <1>6 DEF SameRoom
<1>9. Posts(v) = Posts(w) \cup {e}
  BY <1>4, <1>6 DEF Posts
<1>10. Added(w, v)
  BY <1>2, <1>9 DEF Added
<1>11. Quiet(w, v)
  BY <1>5, <1>6, <1>7, <1>8, <1>10 DEF Quiet
<1> QED
  BY <1>6, <1>9, <1>11 DEF v, e

LEMMA DeleteLaterQuiet ==
  ASSUME NEW w \in Servers, NEW o \in Made(w)
  PROVE  LET v == DeleteLater(w, o) IN
         /\ Quiet(w, v) /\ v.obj = w.obj /\ v.lobby = w.lobby /\ v.room = w.room
         /\ Posts(v) = Posts(w) \cup {[do |-> "delete", of |-> o]}
<1>1. CASE Contains(w.posted, [do |-> "delete", of |-> o])
  <2>1. DeleteLater(w, o) = w
    BY <1>1 DEF DeleteLater
  <2>2. [do |-> "delete", of |-> o] \in Posts(w)
    <3>1. w.posted \in Seq(Event)
      BY DEF Servers
    <3> QED
      BY <1>1, <3>1, ToSetDef DEF Contains, Posts
  <2> QED
    BY <2>1, <2>2, QuietSelf
<1>2. CASE ~Contains(w.posted, [do |-> "delete", of |-> o])
  <2>1. DeleteLater(w, o) = Post(w, "delete", o)
    BY <1>2 DEF DeleteLater
  <2> QED
    BY <2>1, PostQuiet
<1> QED
  BY <1>1, <1>2

LEMMA LobbyAddQuiet ==
  ASSUME NEW w \in Servers, NEW o \in Made(w)
  PROVE  LET v == LobbyAdd(w, o) IN
         /\ Quiet(w, v) /\ v.room = w.room /\ v.obj = [w.obj EXCEPT ![o].room = Lobby]
         /\ w.obj[o].state # "Robot" => v.lobby = Append(w.lobby, o)
         /\ w.obj[o].state = "Robot" =>
              /\ v.lobby = RemoveFirst(Append(w.lobby, o), o)
              /\ [do |-> "delete", of |-> o] \in Posts(v)
<1> DEFINE l == Append(w.lobby, o)
           w1 == [w EXCEPT !.lobby = l, !.obj[o].room = Lobby]
           w2 == [w1 EXCEPT !.lobby = RemoveFirst(@, o)]
<1>1. o \in Objs /\ w.lobby \in Seq(Objs) /\ l \in Seq(Objs)
  BY MadeObjs DEF Servers
<1>2. Quiet(w, w1) /\ w1.lobby = l /\ w1.obj = [w.obj EXCEPT ![o].room = Lobby] /\ w1.room = w.room
  <2>1. w1 = ToLobby(w, l, o)
    BY DEF ToLobby
  <2> HIDE DEF l, w1
  <2>2. /\ Quiet(w, ToLobby(w, l, o)) /\ ToLobby(w, l, o).lobby = l
        /\ ToLobby(w, l, o).room = w.room
    BY <1>1, LobbyQuiet
  <2>3. ToLobby(w, l, o).obj = [w.obj EXCEPT ![o].room = Lobby]
    BY DEF ToLobby, Servers
  <2> QED
    BY <2>1, <2>2, <2>3, Zenon
<1>3. w1 \in Servers /\ Made(w1) = Made(w)
  BY <1>2 DEF Quiet, Made
<1>4. LobbyAdd(w, o) = IF w.obj[o].state = "Robot" THEN DeleteLater(w2, o) ELSE w1
  BY DEF LobbyAdd
<1> HIDE DEF w1
<1>5. CASE w.obj[o].state # "Robot"
  BY <1>2, <1>4, <1>5
<1>6. CASE w.obj[o].state = "Robot"
  <2>1. RemoveFirst(w1.lobby, o) \in Seq(Objs)
    BY <1>1, <1>2, RemovedSet
  <2>2. Quiet(w1, w2) /\ w2.lobby = RemoveFirst(w1.lobby, o) /\ w2.obj = w1.obj
        /\ w2.room = w1.room
    BY <2>1, <1>3, LobbyOnlyQuiet
  <2>3. w2 \in Servers /\ o \in Made(w2)
    BY <2>2, <1>3 DEF Quiet, Made
  <2> HIDE DEF w2
  <2> DEFINE v == DeleteLater(w2, o)
  <2>4. /\ Quiet(w2, v) /\ v.obj = w2.obj /\ v.lobby = w2.lobby /\ v.room = w2.room
        /\ Posts(v) = Posts(w2) \cup {[do |-> "delete", of |-> o]}
    BY <2>3, DeleteLaterQuiet
  <2> HIDE DEF v
  <2>5. Quiet(w, v)
    BY <1>2, <1>3, <2>2, <2>3, <2>4, QuietTwice
  <2>6. LobbyAdd(w, o) = v
    BY <1>4, <1>6 DEF v
  <2> QED
    BY <1>2, <1>6, <2>2, <2>4, <2>5, <2>6
<1> QED
  BY <1>5, <1>6

LEMMA LobbyRemoveQuiet ==
  ASSUME NEW w \in Servers, NEW o \in Objs
  PROVE  LET v == LobbyRemove(w, o) IN
         /\ Quiet(w, v) /\ v.posted = w.posted /\ v.lobby = RemoveFirst(w.lobby, o)
         /\ v.room = w.room /\ v.obj = w.obj
<1>1. w.lobby \in Seq(Objs) /\ RemoveFirst(w.lobby, o) \in Seq(Objs)
  BY RemovedSet DEF Servers
<1> QED
  BY <1>1, LobbyOnlyQuiet DEF LobbyRemove

SetObservers(w, r, l) == [w EXCEPT !.room[r].observers = l]

LEMMA ObserversQuiet ==
  ASSUME NEW w \in Servers, NEW r \in Rooms, NEW l \in Seq(Objs),
         ToSet(l) \subseteq ToSet(w.room[r].observers)
  PROVE  LET v == SetObservers(w, r, l) IN
         /\ Quiet(w, v) /\ v.posted = w.posted /\ v.lobby = w.lobby /\ v.obj = w.obj
         /\ v.room = [w.room EXCEPT ![r].observers = l]
<1> DEFINE R == [w.room[r] EXCEPT !.observers = l]
           v == SetObservers(w, r, l)
<1>1. w.room[r] \in RoomState
  BY DEF Servers
<1>2. R \in RoomState /\ SameRoom(w.room[r], R)
  <2>1. R \in RoomState
    BY <1>1 DEF RoomState
  <2>2. /\ R.players = w.room[r].players /\ R.owner = w.room[r].owner
        /\ R.started = w.room[r].started /\ R.abandoned = w.room[r].abandoned
        /\ R.refs = w.room[r].refs /\ R.life = w.room[r].life /\ R.observers = l
        /\ R.rejected = w.room[r].rejected
    BY <1>1 DEF RoomState
  <2> HIDE DEF R
  <2> QED
    BY <2>1, <2>2 DEF SameRoom
<1>3. v = [w EXCEPT !.room[r] = R]
  BY DEF SetObservers
<1>4. v.room = [w.room EXCEPT ![r].observers = l]
  BY DEF Servers, SetObservers
<1> HIDE DEF R, v
<1>5. v \in Servers
  <2>1. [w.room EXCEPT ![r] = R] \in [Rooms -> RoomState]
    BY <1>2 DEF Servers
  <2>2. v = [w EXCEPT !.room = [w.room EXCEPT ![r] = R]]
    BY <1>3
  <2> QED
    BY <2>1, <2>2 DEF Servers
<1>6. v.made = w.made /\ v.rooms = w.rooms /\ v.players = w.players /\ v.obj = w.obj
      /\ v.posted = w.posted /\ v.lobby = w.lobby
  BY <1>3 DEF Servers
<1>7. \A q \in Rooms : v.room[q] = IF q = r THEN R ELSE w.room[q]
  BY <1>3 DEF Servers
<1>8. \A q \in Rooms : SameRoom(w.room[q], w.room[q])
  BY DEF SameRoom
<1>9. \A q \in Rooms : SameRoom(w.room[q], v.room[q])
  BY <1>2, <1>7, <1>8
<1>10. \A q \in Objs : SamePlayer(w, v, q)
  BY <1>6 DEF SamePlayer
<1>11. Added(w, v)
  BY <1>6 DEF Added, Posts
<1>12. Quiet(w, v)
  BY <1>5, <1>6, <1>9, <1>10, <1>11 DEF Quiet
<1> QED
  BY <1>4, <1>6, <1>12 DEF v

\* Facts of a good state that the lemmas below keep asking for.
LEMMA GoodTypes ==
  ASSUME NEW w \in Servers
  PROVE  /\ \A r \in Rooms : /\ w.room[r] \in RoomState
                             /\ w.room[r].players \in Seq(Objs)
                             /\ w.room[r].observers \in Seq(Objs)
                             /\ ToSet(w.room[r].players) \subseteq Objs
                             /\ w.room[r].owner \in Objs \cup {Nobody}
         /\ \A o \in Objs : /\ w.obj[o] \in Player
                            /\ w.obj[o].user \in Users \cup {Bot}
                            /\ w.obj[o].room \in Rooms \cup {Lobby}
         /\ \A u \in Users : w.players[u] \in Objs \cup {Nobody}
         /\ w.lobby \in Seq(Objs) /\ w.posted \in Seq(Event) /\ w.rooms \subseteq Rooms
<1>1. \A r \in Rooms : /\ w.room[r] \in RoomState
                       /\ w.room[r].players \in Seq(Objs)
                       /\ w.room[r].observers \in Seq(Objs)
                       /\ w.room[r].owner \in Objs \cup {Nobody}
  BY DEF Servers, RoomState
<1>2. \A r \in Rooms : ToSet(w.room[r].players) \subseteq Objs
  BY <1>1, ToSetDef
<1>3. \A o \in Objs : w.obj[o] \in Player
  BY DEF Servers
<1>4. \A o \in Objs : w.obj[o].user \in Users \cup {Bot} /\ w.obj[o].room \in Rooms \cup {Lobby}
  BY <1>3 DEF Player
<1> QED
  BY <1>1, <1>2, <1>3, <1>4 DEF Servers

\* A step that opens no socket: everything but logging in.
Mutes(w, v) == \A q \in Objs : v.obj[q].socket \in {w.obj[q].socket, "none"}

LEMMA ObjMutes ==
  ASSUME NEW w \in Servers, NEW v, NEW o,
         \/ v.obj = w.obj
         \/ \E s \in {"Offline", "Robot", "Run"} : v.obj = [w.obj EXCEPT ![o].state = s]
         \/ v.obj = [w.obj EXCEPT ![o].room = Lobby]
         \/ v.obj = [w.obj EXCEPT ![o].socket = "none"]
  PROVE  Mutes(w, v)
<1>1. \A q \in Objs : w.obj[q] \in Player
  BY GoodTypes
<1>2. w.obj \in [Objs -> Player]
  BY DEF Servers
<1>3. CASE v.obj = w.obj
  BY <1>3 DEF Mutes
<1>4. ASSUME NEW s \in {"Offline", "Robot", "Run"}, v.obj = [w.obj EXCEPT ![o].state = s] PROVE Mutes(w, v)
  BY <1>1, <1>2, <1>4 DEF Mutes, Player
<1>5. CASE v.obj = [w.obj EXCEPT ![o].room = Lobby]
  BY <1>1, <1>2, <1>5 DEF Mutes, Player
<1>6. CASE v.obj = [w.obj EXCEPT ![o].socket = "none"]
  BY <1>1, <1>2, <1>6 DEF Mutes, Player
<1> QED
  BY <1>3, <1>4, <1>5, <1>6

LEMMA MutesTwice == ASSUME NEW w, NEW v, NEW z, Mutes(w, v), Mutes(v, z)
  PROVE  Mutes(w, z)
  BY DEF Mutes

LEMMA RemoveObserverQuiet ==
  ASSUME NEW w \in Servers, NEW r \in Rooms, NEW o \in Made(w)
  PROVE  LET v == RemoveObserver(w, r, o) IN
         /\ Quiet(w, v) /\ Mutes(w, v)
         /\ v.room = [w.room EXCEPT ![r].observers = RemoveFirst(@, o)]
         /\ v.obj = [w.obj EXCEPT ![o].room = Lobby]
         /\ w.obj[o].state # "Robot" => v.lobby = Append(w.lobby, o)
         /\ w.obj[o].state = "Robot" =>
              /\ v.lobby = RemoveFirst(Append(w.lobby, o), o)
              /\ [do |-> "delete", of |-> o] \in Posts(v)
<1> DEFINE l == RemoveFirst(w.room[r].observers, o)
           w1 == [w EXCEPT !.room[r].observers = l]
           v == LobbyAdd(w1, o)
<1>1. w.room[r].observers \in Seq(Objs)
  BY DEF Servers, RoomState
<1>2. l \in Seq(Objs) /\ ToSet(l) \subseteq ToSet(w.room[r].observers)
  BY <1>1, RemovedSet
<1>3. RemoveObserver(w, r, o) = v
  BY DEF RemoveObserver
<1>4. [w.room EXCEPT ![r].observers = RemoveFirst(@, o)] = [w.room EXCEPT ![r].observers = l]
  BY DEF Servers
<1> HIDE DEF l
<1>5. /\ Quiet(w, w1) /\ w1.lobby = w.lobby /\ w1.obj = w.obj
      /\ w1.room = [w.room EXCEPT ![r].observers = l]
  <2>1. w1 = SetObservers(w, r, l)
    BY DEF SetObservers
  <2> HIDE DEF w1
  <2> QED
    BY <1>2, <2>1, ObserversQuiet
<1>6. w1 \in Servers /\ o \in Made(w1)
  BY <1>5 DEF Quiet, Made
<1> HIDE DEF w1
<1>7. /\ Quiet(w1, v) /\ v.room = w1.room /\ v.obj = [w1.obj EXCEPT ![o].room = Lobby]
      /\ w1.obj[o].state # "Robot" => v.lobby = Append(w1.lobby, o)
      /\ w1.obj[o].state = "Robot" =>
              /\ v.lobby = RemoveFirst(Append(w1.lobby, o), o)
              /\ [do |-> "delete", of |-> o] \in Posts(v)
  BY <1>6, LobbyAddQuiet
<1> HIDE DEF v
<1>8. Quiet(w, v)
  BY <1>5, <1>6, <1>7, QuietTwice
<1>9. v.obj = [w.obj EXCEPT ![o].room = Lobby]
  BY <1>5, <1>7
<1>10. Mutes(w, v)
  BY <1>9, ObjMutes
<1> QED
  BY <1>3, <1>4, <1>5, <1>7, <1>8, <1>10

LEMMA OnDisconnectedQuiet ==
  ASSUME NEW w \in Servers, NEW o \in Made(w), Human(w, o)
  PROVE  Quiet(w, OnDisconnected(w, o))
<1> DEFINE r == w.obj[o].room
           d == SetState(w, o, "Robot")
           q == RemoveObserver(w, r, o)
           f == SetState(w, o, "Offline")
<1>1. o \in Objs /\ r \in Rooms \cup {Lobby}
  BY MadeObjs DEF Servers, Player
<1>2. Quiet(w, d) /\ Quiet(w, f) /\ f.obj = [w.obj EXCEPT ![o].state = "Offline"]
  BY <1>1, SetStateQuiet
<1>3. d \in Servers /\ o \in Made(d) /\ f \in Servers
  BY <1>2 DEF Quiet, Made
<1>4. Quiet(w, DeleteLater(d, o))
  <2> HIDE DEF d
  <2>1. Quiet(d, DeleteLater(d, o))
    BY <1>3, DeleteLaterQuiet
  <2> QED
    BY <2>1, <1>2, QuietTwice
<1>5. CASE r = Lobby
  BY <1>4, <1>5 DEF OnDisconnected
<1>6. CASE r \in Rooms /\ w.room[r].started /\ Contains(w.room[r].observers, o)
  <2>1. Quiet(w, q)
    BY <1>6, RemoveObserverQuiet
  <2>2. q \in Servers /\ o \in Made(q)
    BY <2>1 DEF Quiet, Made
  <2>3. r # Lobby
    BY <1>6, MadeObjs
  <2>4. OnDisconnected(w, o) = DeleteLater(q, o)
    BY <1>6, <2>3 DEF OnDisconnected
  <2> HIDE DEF q
  <2>5. Quiet(q, DeleteLater(q, o))
    BY <2>2, DeleteLaterQuiet
  <2> QED
    BY <2>1, <2>4, <2>5, QuietTwice
<1>7. CASE r \in Rooms /\ w.room[r].started /\ ~Contains(w.room[r].observers, o)
  <2>1. r # Lobby
    BY <1>7, MadeObjs
  <2> DEFINE v == [f EXCEPT !.obj[o].socket = "none"]
  <2>2. OnDisconnected(w, o) = [w EXCEPT !.obj[o].state = "Offline", !.obj[o].socket = "none"]
    BY <1>7, <2>1 DEF OnDisconnected
  <2>3. v = [w EXCEPT !.obj[o].state = "Offline", !.obj[o].socket = "none"]
    BY DEF SetState
  <2> HIDE DEF f
  <2>4. Quiet(f, v)
    BY <1>1, <1>3, SocketQuiet
  <2> QED
    BY <1>2, <2>2, <2>3, <2>4, QuietTwice
<1>8. CASE r \in Rooms /\ ~w.room[r].started
  <2>1. r # Lobby
    BY <1>8, MadeObjs
  <2>2. OnDisconnected(w, o) = d \/ OnDisconnected(w, o) = DeleteLater(d, o)
    BY <1>8, <2>1 DEF OnDisconnected
  <2> QED
    BY <1>2, <1>4, <2>2
<1> QED
  BY <1>1, <1>5, <1>6, <1>7, <1>8

LEMMA KickQuiet ==
  ASSUME NEW w \in Servers, NEW o \in Made(w), Human(w, o), NEW b
  PROVE  /\ Quiet(w, Kick(w, o, b))
         /\ Kick(w, o, b).obj[o].socket = "none"
<1> DEFINE w1 == SetState(w, o, "Offline")
           w2 == IF w.obj[o].socket = "none" \/ (w.obj[o].socket = "open" /\ b)
                 THEN OnDisconnected(w1, o) ELSE w1
           v == [w2 EXCEPT !.obj[o].socket = "none"]
<1>1. o \in Objs
  BY MadeObjs
<1>2. Quiet(w, w1)
  BY <1>1, SetStateQuiet
<1>3. w1 \in Servers /\ o \in Made(w1) /\ Human(w1, o)
  BY <1>1, <1>2 DEF Quiet, Made, SamePlayer, Human
<1>4. Kick(w, o, b) = v
  BY DEF Kick
<1> HIDE DEF w1
<1>5. Quiet(w, OnDisconnected(w1, o))
  BY <1>2, <1>3, OnDisconnectedQuiet, QuietTwice
<1>6. Quiet(w, w2)
  BY <1>2, <1>5
<1>7. w2 \in Servers
  BY <1>6 DEF Quiet
<1> HIDE DEF w2
<1>8. Quiet(w2, v) /\ v.obj = [w2.obj EXCEPT ![o].socket = "none"]
  BY <1>1, <1>7, SocketQuiet
<1>9. v.obj[o].socket = "none"
  BY <1>1, <1>7, <1>8 DEF Servers, Player
<1> HIDE DEF v
<1> QED
  BY <1>4, <1>6, <1>7, <1>8, <1>9, QuietTwice

LEMMA ReconnectQuiet ==
  ASSUME NEW w \in Servers, NEW o \in Made(w), Human(w, o),
         w.players[w.obj[o].user] = o, NEW b
  PROVE  Quiet(w, Reconnect(w, o, b))
<1> DEFINE w0 == SetState(w, o, "Online")
           w1 == [w0 EXCEPT !.obj[o].socket = "open"]
<1>1. o \in Objs
  BY MadeObjs
<1>2. Quiet(w, w0)
  BY <1>1, SetStateQuiet
<1>3. w0 \in Servers /\ Human(w0, o) /\ w0.players[w0.obj[o].user] = o /\ o \in Made(w0)
  BY <1>1, <1>2 DEF Quiet, SamePlayer, Human, Made
<1>4. [w EXCEPT !.obj[o].state = "Online", !.obj[o].socket = "open"] = w1
  BY DEF SetState
<1> HIDE DEF w0
<1>5. Quiet(w0, w1)
  BY <1>1, <1>3, SocketQuiet
<1>6. w1 \in Servers /\ Human(w1, o) /\ o \in Made(w1)
  BY <1>1, <1>3, <1>5 DEF Quiet, SamePlayer, Human, Made
<1>7. Reconnect(w, o, b) = IF w.obj[o].room = Lobby THEN Kick(w1, o, b) ELSE w1
  BY <1>4 DEF Reconnect
<1> HIDE DEF w1
<1>8. Quiet(w, w1)
  BY <1>2, <1>5, QuietTwice
<1>9. Quiet(w1, Kick(w1, o, b))
  BY <1>6, KickQuiet
<1> QED
  BY <1>7, <1>8, <1>9, QuietTwice

LEMMA OnDisconnectedMutes ==
  ASSUME NEW w \in Servers, NEW o \in Made(w), Human(w, o)
  PROVE  Mutes(w, OnDisconnected(w, o))
<1> DEFINE r == w.obj[o].room
           d == SetState(w, o, "Robot")
           q == RemoveObserver(w, r, o)
           f == SetState(w, o, "Offline")
<1>1. o \in Objs /\ r \in Rooms \cup {Lobby}
  BY MadeObjs, GoodTypes
<1>2. /\ Quiet(w, d) /\ d.obj = [w.obj EXCEPT ![o].state = "Robot"]
      /\ Quiet(w, f) /\ f.obj = [w.obj EXCEPT ![o].state = "Offline"]
  BY <1>1, SetStateQuiet
<1>3. d \in Servers /\ o \in Made(d) /\ f \in Servers
  BY <1>2 DEF Quiet, Made
<1>4. Mutes(w, d) /\ Mutes(w, f)
  <2> HIDE DEF d, f
  <2>2. Mutes(w, d)
    BY <1>2 DEF Mutes, Servers, Player
  <2>3. Mutes(w, f)
    BY <1>2 DEF Mutes, Servers, Player
  <2> QED
    BY <2>2, <2>3
<1>5. Mutes(w, DeleteLater(d, o))
  <2> HIDE DEF d
  <2>1. DeleteLater(d, o).obj = d.obj
    BY <1>3, DeleteLaterQuiet
  <2> QED
    BY <2>1, <1>4 DEF Mutes
<1>6. CASE r = Lobby
  BY <1>5, <1>6 DEF OnDisconnected
<1>7. CASE r \in Rooms /\ w.room[r].started /\ Contains(w.room[r].observers, o)
  <2> HIDE DEF r
  <2>00. r \in Rooms
    BY <1>7
  <2>1. Quiet(w, RemoveObserver(w, r, o)) /\ Mutes(w, RemoveObserver(w, r, o))
    BY <2>00, RemoveObserverQuiet
  <2>2. q \in Servers /\ o \in Made(q) /\ r # Lobby
    BY <2>1, <1>7, MadeObjs DEF Quiet, Made
  <2>3. OnDisconnected(w, o) = DeleteLater(q, o)
    BY <1>7, <2>2 DEF OnDisconnected, r
  <2>4. Mutes(w, q)
    BY <2>1
  <2> HIDE DEF q
  <2>5. DeleteLater(q, o).obj = q.obj
    BY <2>2, DeleteLaterQuiet
  <2> QED
    BY <2>3, <2>4, <2>5 DEF Mutes
<1>8. CASE r \in Rooms /\ w.room[r].started /\ ~Contains(w.room[r].observers, o)
  <2>1. r # Lobby
    BY <1>8, MadeObjs
  <2> DEFINE v == [f EXCEPT !.obj[o].socket = "none"]
  <2>2. OnDisconnected(w, o) = [w EXCEPT !.obj[o].state = "Offline", !.obj[o].socket = "none"]
    BY <1>8, <2>1 DEF OnDisconnected
  <2>3. v = [w EXCEPT !.obj[o].state = "Offline", !.obj[o].socket = "none"]
    BY DEF SetState
  <2> HIDE DEF f
  <2>5. v.obj = [f.obj EXCEPT ![o].socket = "none"]
    BY <1>3 DEF Servers
  <2> HIDE DEF v
  <2>6. Mutes(f, v)
    BY <1>3, <2>5, ObjMutes
  <2> QED
    BY <2>2, <2>3, <1>4, <2>6, MutesTwice
<1>9. CASE r \in Rooms /\ ~w.room[r].started
  <2>1. r # Lobby
    BY <1>9, MadeObjs
  <2>2. OnDisconnected(w, o) = d \/ OnDisconnected(w, o) = DeleteLater(d, o)
    BY <1>9, <2>1 DEF OnDisconnected
  <2> QED
    BY <1>4, <1>5, <2>2
<1> QED
  BY <1>1, <1>6, <1>7, <1>8, <1>9

LEMMA KickMutes ==
  ASSUME NEW w \in Servers, NEW o \in Made(w), Human(w, o), NEW b
  PROVE  Mutes(w, Kick(w, o, b))
<1> DEFINE w1 == SetState(w, o, "Offline")
           w2 == IF w.obj[o].socket = "none" \/ (w.obj[o].socket = "open" /\ b)
                 THEN OnDisconnected(w1, o) ELSE w1
           v == [w2 EXCEPT !.obj[o].socket = "none"]
<1>1. o \in Objs
  BY MadeObjs
<1>2. Quiet(w, w1) /\ w1.obj = [w.obj EXCEPT ![o].state = "Offline"]
  BY <1>1, SetStateQuiet
<1>3. w1 \in Servers /\ o \in Made(w1) /\ Human(w1, o)
  BY <1>1, <1>2 DEF Quiet, Made, SamePlayer, Human
<1>4. Kick(w, o, b) = v
  BY DEF Kick
<1> HIDE DEF w1
<1>5. Mutes(w, w1)
  <2>1. \E s \in {"Offline", "Robot", "Run"} : w1.obj = [w.obj EXCEPT ![o].state = s]
    BY <1>2
  <2> QED
    BY <2>1, ObjMutes
<1>6. Quiet(w1, OnDisconnected(w1, o)) /\ Mutes(w1, OnDisconnected(w1, o))
  BY <1>3, OnDisconnectedQuiet, OnDisconnectedMutes
<1>7. w2 \in Servers /\ Mutes(w, w2)
  <2>1. OnDisconnected(w1, o) \in Servers
    BY <1>6 DEF Quiet
  <2>2. Mutes(w, OnDisconnected(w1, o))
    BY <1>5, <1>6, MutesTwice
  <2> QED
    BY <1>3, <1>5, <2>1, <2>2
<1> HIDE DEF w2
<1>8. v.obj = [w2.obj EXCEPT ![o].socket = "none"]
  BY <1>7 DEF Servers
<1> HIDE DEF v
<1>9. Mutes(w2, v)
  BY <1>7, <1>8, ObjMutes
<1> QED
  BY <1>4, <1>7, <1>9, MutesTwice

LEMMA FaultQuiet ==
  ASSUME NEW w \in Servers, NEW at \in Faults
  PROVE  LET v == Fault(w, at) IN
         /\ Quiet(w, v) /\ v.posted = w.posted /\ v.lobby = w.lobby /\ v.room = w.room
         /\ v.obj = w.obj
<1> DEFINE v == Fault(w, at)
<1>1. v \in Servers
  BY DEF Servers, Fault
<1>2. v.made = w.made /\ v.rooms = w.rooms /\ v.players = w.players /\ v.room = w.room
      /\ v.posted = w.posted /\ v.lobby = w.lobby /\ v.obj = w.obj
  BY DEF Servers, Fault
<1> HIDE DEF v
<1>4. \A q \in Objs : SamePlayer(w, v, q)
  BY <1>2 DEF SamePlayer
<1>5. \A r \in Rooms : SameRoom(w.room[r], v.room[r])
  BY <1>2 DEF SameRoom
<1>6. Added(w, v)
  BY <1>2 DEF Added, Posts
<1>7. Quiet(w, v)
  BY <1>1, <1>2, <1>4, <1>5, <1>6 DEF Quiet
<1> QED
  BY <1>2, <1>7 DEF v

-----------------------------------------------------------------------------
(* The helpers that move players, make them and delete them.                *)

NewIs(w, u, st, sk, q, P) == [New(w, u, st, sk, q) EXCEPT !.players = P]

LEMMA NewStep ==
  ASSUME NEW w, NEW x, NEW y, Good(w, x, y), w.made # MaxObjs,
         NEW u \in Users \cup {Bot}, NEW st \in {"Online", "Robot"},
         NEW sk \in {"none", "open", "closed"}, NEW q \in Rooms \cup {Lobby}, NEW P,
         q # Lobby => w.room[q].life # "none",
         u = Bot => st = "Robot" /\ sk = "none" /\ P = w.players,
         u # Bot => /\ P = [w.players EXCEPT ![u] = w.made + 1]
                    /\ \A o \in Objs : w.obj[o].user = u => w.obj[o].socket = "none"
  PROVE  LET v == NewIs(w, u, st, sk, q, P)
             n == w.made + 1 IN
         /\ Good(v, x, y) /\ Onward(w, v)
         /\ n \in Made(v) /\ n \notin Made(w) /\ v.obj[n].user = u /\ v.obj[n].room = q
         /\ v.obj[n].state = st /\ v.room = w.room /\ v.lobby = w.lobby /\ v.posted = w.posted
         /\ v.obj[n].life = "live" /\ v.obj[n].socket = sk
         /\ \A o \in Objs : o # n => v.obj[o] = w.obj[o]
<1> DEFINE n == w.made + 1
           p == [user |-> u, state |-> st, socket |-> sk, room |-> q, life |-> "live"]
           v == NewIs(w, u, st, sk, q, P)
<1>1. w \in Servers /\ Sessions(w) /\ Households(w, x, y)
  BY DEF Good
<1>2. n \in Objs /\ Made(w) \subseteq Objs /\ n \notin Made(w) /\ w.made \in Nat
      /\ n \in 0..MaxObjs
  <2>1. w.made \in 0..MaxObjs /\ MaxObjs \in Nat
    BY <1>1, LifecycleConstants DEF Servers
  <2> QED
    BY <2>1 DEF Objs, Made
<1>3. p \in Player
  BY DEF Player
<1>4. P \in [Users -> Objs \cup {Nobody}]
  <2>1. w.players \in [Users -> Objs \cup {Nobody}]
    BY <1>1 DEF Servers
  <2> QED
    BY <1>2, <2>1
<1>5. p.user = u /\ p.state = st /\ p.socket = sk /\ p.room = q /\ p.life = "live"
  OBVIOUS
<1> HIDE DEF p
<1>6. /\ v.made = n /\ v.rooms = w.rooms /\ v.players = P /\ v.room = w.room
      /\ v.posted = w.posted /\ v.lobby = w.lobby /\ v.obj = [w.obj EXCEPT ![n] = p]
  BY <1>1 DEF NewIs, New, Servers, p
<1>7. v = [w EXCEPT !.made = n, !.obj = [w.obj EXCEPT ![n] = p], !.players = P]
  BY <1>1 DEF NewIs, New, Servers, p
<1>8. [w.obj EXCEPT ![n] = p] \in [Objs -> Player]
  BY <1>1, <1>2, <1>3 DEF Servers
<1>9. v \in Servers
  <2> HIDE DEF v, n
  <2> QED
    BY <1>1, <1>2, <1>4, <1>7, <1>8 DEF Servers
<1>10. \A o \in Objs : v.obj[o] = IF o = n THEN p ELSE w.obj[o]
  BY <1>1, <1>2, <1>6 DEF Servers
<1>11. Made(v) = Made(w) \cup {n}
  BY <1>2, <1>6 DEF Made
<1> HIDE DEF v, n
<1>12. \A o \in Made(w) : v.obj[o] = w.obj[o] /\ (Human(v, o) <=> Human(w, o))
  BY <1>2, <1>10 DEF Human
<1>13. \A r \in Rooms : /\ ToSet(w.room[r].players) \subseteq Made(w)
                        /\ w.room[r].owner \in Objs \cup {Nobody}
  BY <1>1, GoodTypes DEF Sessions, Seated
<1>14. \A r \in Rooms : HumanIn(v, r) <=> HumanIn(w, r)
  BY <1>6, <1>12, <1>13 DEF HumanIn
<1>15. Sessions(v)
  <2>0. \A a \in Users : w.players[a] # Nobody => w.players[a] \in Made(w)
    BY <1>1, GoodTypes DEF Sessions, Accounts, Unmade
  <2>00. Bot \notin Users
    BY LifecycleConstants
  <2>1. Accounts(v)
    <3> SUFFICES ASSUME NEW a \in Users, P[a] # Nobody
                 PROVE  v.obj[P[a]].user = a /\ v.obj[P[a]].life = "live"
      BY <1>6 DEF Accounts
    <3>1. CASE a = u
      <4>1. P[a] = n
        BY <3>1, <1>1, <2>00 DEF n, Servers
      <4> QED
        BY <3>1, <4>1, <1>2, <1>5, <1>10
    <3>2. CASE a # u
      <4>1. P[a] = w.players[a]
        BY <3>2, <1>1 DEF Servers
      <4>2. w.players[a] \in Made(w)
        BY <4>1, <2>0
      <4> QED
        BY <4>1, <4>2, <1>1, <1>12 DEF Sessions, Accounts
    <3> QED
      BY <3>1, <3>2
  <2>2. Sockets(v)
    <3> SUFFICES ASSUME NEW o \in Objs, v.obj[o].socket # "none"
                 PROVE  Human(v, o) /\ P[v.obj[o].user] = o
      BY <1>6 DEF Sockets
    <3>1. CASE o = n
      <4>1. v.obj[o] = p /\ u # Bot /\ u \in Users
        BY <3>1, <1>5, <1>10
      <4>2. P[u] = n
        BY <4>1, <1>1 DEF n, Servers
      <4> QED
        BY <3>1, <4>1, <4>2, <1>5 DEF Human
    <3>2. CASE o # n
      <4>1. v.obj[o] = w.obj[o]
        BY <3>2, <1>10
      <4>2. Human(w, o) /\ w.players[w.obj[o].user] = o
        BY <4>1, <1>1 DEF Sessions, Sockets
      <4>3. w.obj[o].user # u /\ w.obj[o].user \in Users
        BY <4>1, <4>2, <1>1, GoodTypes DEF Human
      <4>4. P[w.obj[o].user] = w.players[w.obj[o].user]
        BY <4>3, <1>1 DEF Servers
      <4> QED
        BY <4>1, <4>2, <4>4 DEF Human
    <3> QED
      BY <3>1, <3>2
  <2>3. Unmade(v)
    BY <1>1, <1>10, <1>11 DEF Sessions, Unmade, Human
  <2>4. RobotsStay(v)
    BY <1>1, <1>5, <1>10 DEF Sessions, RobotsStay, Human
  <2>5. Posted(v)
    BY <1>1, <1>6, <1>11, <1>12 DEF Sessions, Posted, Posts
  <2>6. Seated(v)
    BY <1>1, <1>6, <1>11 DEF Sessions, Seated
  <2> QED
    BY <2>1, <2>2, <2>3, <2>4, <2>5, <2>6 DEF Sessions
<1>16. Households(v, x, y)
  <2>1. Places(v)
    BY <1>1, <1>5, <1>6, <1>10 DEF Households, Places
  <2>2. Empty(v)
    BY <1>1, <1>6 DEF Households, Empty
  <2>3. Found(v, y)
    BY <1>1, <1>6, <1>14, GoodTypes DEF Households, Found
  <2>4. Leaving(v)
    BY <1>1, <1>6 DEF Households, Leaving, Posts
  <2>5. Left(v, x)
    BY <1>1, <1>6 DEF Households, Left, Posts
  <2>6. Owned(v, y)
    <3> SUFFICES ASSUME NEW r \in Rooms, r # y, w.room[r].life = "live",
                        w.room[r].owner # Nobody
                 PROVE  \/ w.room[r].owner \in ToSet(w.room[r].players)
                        \/ /\ v.obj[w.room[r].owner].life = "freed"
                           /\ ~Human(v, w.room[r].owner)
      BY <1>6 DEF Owned
    <3>1. \/ w.room[r].owner \in ToSet(w.room[r].players)
          \/ /\ w.obj[w.room[r].owner].life = "freed"
             /\ ~Human(w, w.room[r].owner)
      BY <1>1 DEF Households, Owned
    <3>2. w.obj[w.room[r].owner].life = "freed" => w.room[r].owner \in Made(w)
      BY <1>1, <1>13 DEF Sessions, Unmade
    <3> QED
      BY <3>1, <3>2, <1>12
  <2> QED
    BY <2>1, <2>2, <2>3, <2>4, <2>5, <2>6 DEF Households
<1>17. Onward(w, v)
  BY <1>6, <1>11, <1>12, <1>14 DEF Onward
<1>18. n \in Made(v)
  BY <1>11
<1>19. v.obj[n] = p
  BY <1>2, <1>10
<1> QED
  BY <1>2, <1>5, <1>6, <1>9, <1>10, <1>15, <1>16, <1>17, <1>18, <1>19 DEF Good, v, n

Sit(w, r, o) == [w EXCEPT !.room[r].players = Append(@, o), !.obj[o].room = r]

LEMMA SitStep ==
  ASSUME NEW w, NEW x, NEW y, Good(w, x, y), NEW r \in Rooms, NEW o \in Made(w),
         w.room[r].life = "live"
  PROVE  LET v == Sit(w, r, o) IN
         /\ Good(v, x, y) /\ Onward(w, v) /\ o \in ToSet(v.room[r].players)
         /\ v.rooms = w.rooms /\ v.made = w.made /\ v.room[r].abandoned = w.room[r].abandoned
         /\ v.room[r].life = w.room[r].life
<1> DEFINE l == Append(w.room[r].players, o)
           R == [w.room[r] EXCEPT !.players = l]
           p == [w.obj[o] EXCEPT !.room = r]
           v == Sit(w, r, o)
<1>1. w \in Servers /\ Sessions(w) /\ Households(w, x, y) /\ o \in Objs
  BY MadeObjs DEF Good
<1>2. w.room[r] \in RoomState /\ w.room[r].players \in Seq(Objs) /\ w.obj[o] \in Player
  BY <1>1, GoodTypes
<1>3. l \in Seq(Objs) /\ ToSet(l) = ToSet(w.room[r].players) \cup {o}
  BY <1>1, <1>2, Appended
<1>4. v.room = [w.room EXCEPT ![r] = R] /\ v.obj = [w.obj EXCEPT ![o] = p]
      /\ v.made = w.made /\ v.rooms = w.rooms /\ v.players = w.players
      /\ v.posted = w.posted /\ v.lobby = w.lobby
  BY <1>1 DEF Sit, Servers
<1>5. v = [w EXCEPT !.room = [w.room EXCEPT ![r] = R], !.obj = [w.obj EXCEPT ![o] = p]]
  BY <1>1 DEF Sit, Servers
<1> HIDE DEF l
<1>6. /\ R \in RoomState /\ R.players = l /\ R.owner = w.room[r].owner
      /\ R.started = w.room[r].started /\ R.abandoned = w.room[r].abandoned
      /\ R.refs = w.room[r].refs /\ R.life = w.room[r].life
      /\ R.observers = w.room[r].observers /\ R.rejected = w.room[r].rejected
  BY <1>2, <1>3 DEF RoomState
<1>7. /\ p \in Player /\ p.user = w.obj[o].user /\ p.state = w.obj[o].state
      /\ p.socket = w.obj[o].socket /\ p.life = w.obj[o].life /\ p.room = r
  BY <1>2 DEF Player
<1> HIDE DEF R, p, v
<1>8. v \in Servers
  <2>1. [w.room EXCEPT ![r] = R] \in [Rooms -> RoomState]
        /\ [w.obj EXCEPT ![o] = p] \in [Objs -> Player]
    BY <1>1, <1>6, <1>7 DEF Servers
  <2> QED
    BY <1>1, <1>5, <2>1 DEF Servers
<1>9. \A q \in Rooms : v.room[q] = IF q = r THEN R ELSE w.room[q]
  BY <1>1, <1>4 DEF Servers
<1>10. \A q \in Objs : v.obj[q] = IF q = o THEN p ELSE w.obj[q]
  BY <1>1, <1>4 DEF Servers
<1>11. Made(v) = Made(w) /\ Posts(v) = Posts(w)
  BY <1>4 DEF Made, Posts
<1>12. \A q \in Objs : /\ Human(v, q) <=> Human(w, q)
                       /\ v.obj[q].user = w.obj[q].user /\ v.obj[q].state = w.obj[q].state
                       /\ v.obj[q].life = w.obj[q].life /\ v.obj[q].socket = w.obj[q].socket
  BY <1>7, <1>10 DEF Human
<1>13. \A q \in Rooms : ToSet(w.room[q].players) \subseteq ToSet(v.room[q].players)
  BY <1>3, <1>6, <1>9
<1>14. \A q \in Rooms : HumanIn(w, q) => HumanIn(v, q)
  BY <1>1, <1>12, <1>13, GoodTypes DEF HumanIn
<1>15. Sessions(v)
  <2>1. Accounts(v)
    BY <1>1, <1>4, <1>12, GoodTypes DEF Sessions, Accounts
  <2>2. Sockets(v)
    BY <1>1, <1>4, <1>12 DEF Sessions, Sockets
  <2>3. Unmade(v)
    BY <1>1, <1>10, <1>11, <1>12 DEF Sessions, Unmade
  <2>4. RobotsStay(v)
    BY <1>1, <1>12 DEF Sessions, RobotsStay
  <2>5. Posted(v)
    BY <1>1, <1>11, <1>12, MadeObjs DEF Sessions, Posted
  <2>6. Seated(v)
    BY <1>1, <1>3, <1>6, <1>9, <1>11 DEF Sessions, Seated
  <2> QED
    BY <2>1, <2>2, <2>3, <2>4, <2>5, <2>6 DEF Sessions
<1>16. Households(v, x, y)
  <2>0. \A q \in Rooms : /\ v.room[q].life = w.room[q].life
                         /\ v.room[q].abandoned = w.room[q].abandoned
                         /\ v.room[q].owner = w.room[q].owner
                         /\ v.room[q].refs = w.room[q].refs
                         /\ v.room[q].started = w.room[q].started
                         /\ v.room[q].rejected = w.room[q].rejected
    BY <1>6, <1>9
  <2>1. Places(v)
    <3> SUFFICES ASSUME NEW q \in Objs, v.obj[q].room # Lobby
                 PROVE  v.room[v.obj[q].room].life # "none"
      BY DEF Places
    <3>1. CASE q = o
      BY <3>1, <1>7, <1>10, <2>0
    <3>2. CASE q # o
      <4>1. v.obj[q] = w.obj[q] /\ w.obj[q].room \in Rooms
        BY <3>2, <1>1, <1>10, GoodTypes
      <4>2. w.room[w.obj[q].room].life # "none"
        BY <4>1, <1>1 DEF Households, Places
      <4> QED
        BY <4>1, <4>2, <2>0
    <3> QED
      BY <3>1, <3>2
  <2>2. Empty(v)
    <3>1. \A q \in Rooms : q # r => v.room[q].players = w.room[q].players
      BY <1>9
    <3> QED
      BY <1>1, <2>0, <3>1 DEF Households, Empty
  <2>3. Found(v, y)
    BY <1>1, <1>4, <1>14, <2>0, GoodTypes DEF Households, Found
  <2>4. Leaving(v)
    BY <1>1, <1>11, <2>0 DEF Households, Leaving
  <2>5. Left(v, x)
    BY <1>1, <1>11, <2>0 DEF Households, Left
  <2>6. Owned(v, y)
    <3> SUFFICES ASSUME NEW q \in Rooms, q # y, w.room[q].life = "live",
                        w.room[q].owner # Nobody
                 PROVE  \/ w.room[q].owner \in ToSet(v.room[q].players)
                        \/ /\ v.obj[w.room[q].owner].life = "freed"
                           /\ ~Human(v, w.room[q].owner)
      BY <2>0 DEF Owned
    <3>1. w.room[q].owner \in Objs
      BY <1>1, GoodTypes
    <3>2. \/ w.room[q].owner \in ToSet(w.room[q].players)
          \/ /\ w.obj[w.room[q].owner].life = "freed"
             /\ ~Human(w, w.room[q].owner)
      BY <1>1 DEF Households, Owned
    <3> QED
      BY <3>1, <3>2, <1>12, <1>13
  <2> QED
    BY <2>1, <2>2, <2>3, <2>4, <2>5, <2>6 DEF Households
<1>17. Onward(w, v)
  <2>1. \A q \in Made(w) : v.obj[q].user = w.obj[q].user
    BY <1>1, <1>12, MadeObjs
  <2> QED
    BY <1>6, <1>9, <1>11, <1>14, <2>1 DEF Onward
<1> QED
  BY <1>3, <1>4, <1>6, <1>8, <1>9, <1>15, <1>16, <1>17 DEF Good, v

LEMMA AddPlayerStep ==
  ASSUME NEW w, NEW x, NEW y, Good(w, x, y), NEW r \in Rooms, NEW o \in Made(w),
         w.room[r].life = "live"
  PROVE  LET v == AddPlayer(w, r, o) IN
         /\ Good(v, x, y) /\ Onward(w, v) /\ v.rooms = w.rooms /\ v.made = w.made
         /\ v.room[r].abandoned = w.room[r].abandoned
         /\ v.room[r].life = w.room[r].life
         /\ ~(\/ w.obj[o].user \in w.room[r].rejected
              \/ Len(w.room[r].players) = Capacity \/ w.room[r].started) =>
              o \in ToSet(v.room[r].players)
<1> DEFINE w1 == Sit(w, r, o)
           w2 == IF Human(w, o) THEN LobbyRemove(w1, o) ELSE w1
           v == AddPlayer(w, r, o)
           w3 == Fault(w2, "owner")
           no == \/ w.obj[o].user \in w.room[r].rejected
                 \/ Len(w.room[r].players) = Capacity \/ w.room[r].started
<1>1. w \in Servers /\ o \in Objs
  BY MadeObjs DEF Good
<1>2. v = IF no THEN w ELSE IF w.room[r].owner # Nobody /\ w.obj[w.room[r].owner].life = "freed"
                         THEN w3 ELSE w2
  BY DEF AddPlayer, Sit
<1> HIDE DEF v, no
<1>3. /\ Good(w1, x, y) /\ Onward(w, w1) /\ o \in ToSet(w1.room[r].players)
      /\ w1.rooms = w.rooms /\ w1.made = w.made /\ w1.room[r].abandoned = w.room[r].abandoned
      /\ w1.room[r].life = w.room[r].life
  BY SitStep
<1> HIDE DEF w1
<1>4. Quiet(w1, w2)
  <2>1. w1 \in Servers
    BY <1>3 DEF Good
  <2> QED
    BY <1>1, <2>1, LobbyRemoveQuiet, QuietSelf
<1> HIDE DEF w2
<1>5. Quiet(w2, w3)
  <2>1. w2 \in Servers
    BY <1>4 DEF Quiet
  <2> QED
    <3>1. "owner" \in Faults
      BY DEF Faults
    <3>2. Quiet(w2, Fault(w2, "owner"))
      BY <2>1, <3>1, FaultQuiet
    <3> QED
      BY <3>2
<1> HIDE DEF w3
<1>6. Quiet(w1, w3)
  <2>1. w1 \in Servers
    BY <1>3 DEF Good
  <2> QED
    BY <1>4, <1>5, <2>1, QuietTwice
<1>7. ASSUME NEW z, Quiet(w1, z)
      PROVE  /\ Good(z, x, y) /\ Onward(w, z) /\ z.rooms = w.rooms /\ z.made = w.made
             /\ z.room[r].abandoned = w.room[r].abandoned
             /\ z.room[r].life = w.room[r].life
             /\ o \in ToSet(z.room[r].players)
  <2>1. Good(z, x, y) /\ Onward(w1, z)
    BY <1>3, <1>7, QuietStep
  <2>2. z.rooms = w1.rooms /\ z.made = w1.made /\ SameRoom(w1.room[r], z.room[r])
    BY <1>7 DEF Quiet
  <2> QED
    BY <1>3, <2>1, <2>2, OnwardTwice DEF SameRoom
<1>8. CASE no
  BY <1>2, <1>8, OnwardSelf DEF v, no
<1>9. CASE ~no
  BY <1>2, <1>4, <1>6, <1>7, <1>9 DEF v, no
<1> QED
  BY <1>8, <1>9

LEMMA AdmitStep ==
  ASSUME NEW w, NEW x, NEW y, Good(w, x, y), w.made # MaxObjs, NEW u \in Users,
         w.players[u] = Nobody
  PROVE  Good(Admit(w, u), x, y) /\ Onward(w, Admit(w, u))
<1> DEFINE n == w.made + 1
           P == [w.players EXCEPT ![u] = w.made + 1]
           w1 == NewIs(w, u, "Online", "open", Lobby, P)
<1>1. w \in Servers /\ u # Bot
  BY LifecycleConstants DEF Good
<1>2. \A o \in Objs : w.obj[o].user = u => w.obj[o].socket = "none"
  BY MadeObjs DEF Good, Sessions, Sockets, Nobody, Objs
<1>3. Admit(w, u) = LobbyAdd(w1, n)
  BY <1>1 DEF Admit, NewIs, New, Servers
<1>4. P = [w.players EXCEPT ![u] = w.made + 1]
  OBVIOUS
<1> HIDE DEF P, w1
<1>5. Good(w1, x, y) /\ Onward(w, w1) /\ n \in Made(w1)
  BY <1>1, <1>2, <1>4, NewStep DEF w1
<1> HIDE DEF n
<1>6. Quiet(w1, LobbyAdd(w1, n))
  BY <1>5, LobbyAddQuiet DEF Good
<1>7. Good(LobbyAdd(w1, n), x, y) /\ Onward(w1, LobbyAdd(w1, n))
  BY <1>5, <1>6, QuietStep
<1> QED
  BY <1>3, <1>5, <1>7, OnwardTwice

\* Nobody gets a connection, and an account only passes to somebody new.
Shuts(w, v) ==
  /\ \A q \in Objs : v.obj[q].socket # "none" =>
       w.obj[q].socket # "none" /\ v.obj[q].user = w.obj[q].user
  /\ \A u \in Users : v.players[u] = w.players[u] \/ v.players[u] \notin Made(w)
  /\ Made(w) \subseteq Made(v)

LEMMA QuietShuts == ASSUME NEW w \in Servers, NEW v, Quiet(w, v), Mutes(w, v)
  PROVE  Shuts(w, v)
<1>1. v.players = w.players /\ Made(v) = Made(w)
  BY DEF Quiet, Made
<1>2. \A q \in Objs : v.obj[q].user = w.obj[q].user
  BY DEF Quiet, SamePlayer
<1> QED
  BY <1>1, <1>2 DEF Shuts, Mutes

LEMMA ShutsTwice == ASSUME NEW w, NEW v, NEW z, Shuts(w, v), Shuts(v, z)
  PROVE  Shuts(w, z)
  BY DEF Shuts

LEMMA RunAwayStep ==
  ASSUME NEW w, NEW x, NEW y, Good(w, x, y), NEW r \in Rooms, NEW o \in Made(w),
         w.room[r].life # "none", NEW died, NEW b
  PROVE  LET v == RunAway(w, r, o, died, b) IN
         /\ Good(v, x, y) /\ Onward(w, v) /\ v.rooms = w.rooms
         /\ \A q \in Rooms : SameRoom(w.room[q], v.room[q])
         /\ died = FALSE => Shuts(w, v)
<1> DEFINE v == RunAway(w, r, o, died, b)
<1>1. w \in Servers /\ o \in Objs
  BY MadeObjs DEF Good
<1>2. ASSUME NEW z, Quiet(w, z)
      PROVE  /\ Good(z, x, y) /\ Onward(w, z) /\ z.rooms = w.rooms
             /\ \A q \in Rooms : SameRoom(w.room[q], z.room[q])
             /\ Mutes(w, z) => Shuts(w, z)
  BY <1>1, <1>2, QuietStep, QuietShuts DEF Quiet
<1>3. CASE w.obj[o].socket = "none"
  <2>1. v = Fault(w, "removeSocket")
    BY <1>3 DEF RunAway
  <2> HIDE DEF v
  <2>2. Quiet(w, v) /\ Mutes(w, v)
    <3>1. "removeSocket" \in Faults
      BY DEF Faults
    <3>2. Quiet(w, Fault(w, "removeSocket")) /\ Fault(w, "removeSocket").obj = w.obj
      BY <1>1, <3>1, FaultQuiet
    <3> QED
      BY <2>1, <3>2 DEF Mutes
  <2> QED
    BY <1>2, <2>2 DEF v
<1>4. CASE w.obj[o].socket # "none" /\ w.made = MaxObjs
  <2>1. v = Fault(w, "bound")
    BY <1>4 DEF RunAway
  <2> HIDE DEF v
  <2>2. Quiet(w, v) /\ Mutes(w, v)
    <3>1. "bound" \in Faults
      BY DEF Faults
    <3>2. Quiet(w, Fault(w, "bound")) /\ Fault(w, "bound").obj = w.obj
      BY <1>1, <3>1, FaultQuiet
    <3> QED
      BY <2>1, <3>2 DEF Mutes
  <2> QED
    BY <1>2, <2>2 DEF v
<1>5. CASE w.obj[o].socket # "none" /\ w.made # MaxObjs
  <2> DEFINE u == w.obj[o].user
             sk == w.obj[o].socket
             n == w.made + 1
             w0 == SetState(w, o, "Run")
             w1 == [w0 EXCEPT !.obj[o].socket = "none"]
             P == [w1.players EXCEPT ![u] = w1.made + 1]
             w2 == NewIs(w1, u, "Online", sk, r, P)
             w3 == LobbyAdd(w2, n)
             w4 == Kick(w3, n, b)
  <2>1. Human(w, o) /\ w.players[u] = o /\ u \in Users /\ u # Bot
    BY <1>1, <1>5, GoodTypes DEF Good, Sessions, Sockets, Human
  <2>2. sk \in {"none", "open", "closed"}
    BY <1>1, GoodTypes DEF Player
  <2>3. Quiet(w, w0) /\ w0.obj = [w.obj EXCEPT ![o].state = "Run"]
    BY <1>1, <2>1, SetStateQuiet
  <2>4. w0 \in Servers
    BY <2>3 DEF Quiet
  <2>00. v = IF died THEN w3 ELSE w4
    BY <1>1, <1>5 DEF RunAway, NewIs, New, SetState, Servers
  <2> HIDE DEF w0, v
  <2>5. Quiet(w0, w1) /\ w1.obj = [w0.obj EXCEPT ![o].socket = "none"]
    BY <1>1, <2>4, SocketQuiet
  <2>6. Quiet(w, w1)
    BY <1>1, <2>3, <2>5, QuietTwice
  <2>7. w1 \in Servers /\ w1.made = w.made /\ w1.players = w.players /\ w1.rooms = w.rooms
    BY <2>6 DEF Quiet
  <2> HIDE DEF w1
  <2>8. /\ Good(w1, x, y) /\ Onward(w, w1)
        /\ \A q \in Rooms : SameRoom(w.room[q], w1.room[q])
    BY <1>2, <2>6
  <2>108. Shuts(w, w1)
    <3>1. Mutes(w, w0)
      BY <1>1, <2>3 DEF Mutes, Servers, Player
    <3>2. Mutes(w0, w1)
      BY <2>4, <2>5 DEF Mutes, Servers, Player
    <3> QED
      BY <1>1, <2>6, <3>1, <3>2, MutesTwice, QuietShuts
  <2>9. w1.obj[o].socket = "none"
    BY <1>1, <2>4, <2>5 DEF Servers, Player
  <2>10. \A p \in Objs : w1.obj[p].user = u => w1.obj[p].socket = "none"
    <3> SUFFICES ASSUME NEW p \in Objs, w1.obj[p].user = u, w1.obj[p].socket # "none"
                 PROVE  FALSE
      OBVIOUS
    <3>1. w1.players[u] = p
      BY <2>8 DEF Good, Sessions, Sockets
    <3> QED
      BY <2>1, <2>7, <2>9, <3>1
  <2>11. w1.room[r].life # "none"
    BY <2>8 DEF SameRoom
  <2>12. P = [w1.players EXCEPT ![u] = w1.made + 1]
    OBVIOUS
  <2> HIDE DEF P, u, sk, w2
  <2>13. /\ Good(w2, x, y) /\ Onward(w1, w2) /\ w1.made + 1 \in Made(w2)
         /\ w2.obj[w1.made + 1].user = u /\ w2.room = w1.room
         /\ w1.made + 1 \notin Made(w1)
         /\ \A q \in Objs : q # w1.made + 1 => w2.obj[q] = w1.obj[q]
    <3>1. w2 = NewIs(w1, u, "Online", sk, r, P)
      BY DEF w2
    <3>2. w1.made # MaxObjs /\ u \in Users \cup {Bot} /\ r \in Rooms \cup {Lobby}
      BY <1>5, <2>1, <2>7
    <3>4. r # Lobby => w1.room[r].life # "none"
      BY <2>11
    <3>5. u = Bot => "Online" = "Robot" /\ sk = "none" /\ P = w1.players
      BY <2>1
    <3>6. u # Bot => /\ P = [w1.players EXCEPT ![u] = w1.made + 1]
                     /\ \A p \in Objs : w1.obj[p].user = u => w1.obj[p].socket = "none"
      BY <2>10, <2>12
    <3>7. Good(w1, x, y) /\ "Online" \in {"Online", "Robot"}
      BY <2>8
    <3>3. LET v2 == NewIs(w1, u, "Online", sk, r, P)
              n1 == w1.made + 1 IN
          /\ Good(v2, x, y) /\ Onward(w1, v2) /\ n1 \in Made(v2)
          /\ v2.obj[n1].user = u /\ v2.room = w1.room /\ n1 \notin Made(w1)
          /\ \A q \in Objs : q # n1 => v2.obj[q] = w1.obj[q]
      BY <3>2, <3>4, <3>5, <3>6, <3>7, <2>2, NewStep
    <3> QED
      BY <3>1, <3>3
  <2>14. w2.rooms = w1.rooms /\ w2.players = P
    BY <2>7 DEF w2, NewIs, New, Servers
  <2>15. n \in Made(w2) /\ w2.obj[n].user = u /\ n \in Objs
    BY <2>7, <2>13, MadeObjs DEF Good
  <2> HIDE DEF n, w3
  <2>16. Quiet(w2, w3)
    BY <2>13, <2>15, LobbyAddQuiet DEF Good, w3
  <2>17. w3 \in Servers /\ n \in Made(w3) /\ Human(w3, n)
    BY <2>1, <2>15, <2>16 DEF Quiet, SamePlayer, Human, Made
  <2> HIDE DEF w4
  <2>18. Quiet(w3, w4)
    BY <2>17, KickQuiet DEF w4
  <2>19. Quiet(w2, v)
    BY <2>00, <2>13, <2>16, <2>18, QuietTwice DEF Good
  <2>20. Good(v, x, y) /\ Onward(w2, v)
    BY <2>13, <2>19, QuietStep
  <2>21. Onward(w, v)
    BY <2>8, <2>13, <2>20, OnwardTwice
  <2>22. v.rooms = w.rooms
    BY <2>7, <2>14, <2>19 DEF Quiet
  <2>23. \A q \in Rooms : SameRoom(w.room[q], v.room[q])
    BY <2>8, <2>13, <2>19 DEF Quiet, SameRoom
  <2>24. ASSUME died = FALSE PROVE Shuts(w, v)
    <3>1. v = w4
      BY <2>00, <2>24 DEF w4
    <3>2. Mutes(w2, w3)
      <4>1. w2 \in Servers
        BY <2>13 DEF Good
      <4>2. w3.obj = [w2.obj EXCEPT ![n].room = Lobby]
        BY <2>13, <2>15, LobbyAddQuiet DEF Good, w3
      <4> QED
        BY <4>1, <4>2, ObjMutes
    <3>3. Mutes(w3, w4)
      BY <2>17, KickMutes DEF w4
    <3>4. w4.obj[n].socket = "none"
      BY <2>17, KickQuiet DEF w4
    <3>5. Mutes(w2, w4) /\ Quiet(w2, w4)
      BY <2>13, <2>16, <2>18, <3>2, <3>3, MutesTwice, QuietTwice DEF Good
    <3>6. \A q \in Objs : w4.obj[q].user = w2.obj[q].user
      BY <3>5 DEF Quiet, SamePlayer
    <3>7. \A q \in Objs : w4.obj[q].socket # "none" =>
            w1.obj[q].socket # "none" /\ w4.obj[q].user = w1.obj[q].user
      <4> SUFFICES ASSUME NEW q \in Objs, w4.obj[q].socket # "none"
                   PROVE  w1.obj[q].socket # "none" /\ w4.obj[q].user = w1.obj[q].user
        OBVIOUS
      <4>1. q # n /\ n = w1.made + 1
        BY <2>7, <3>4 DEF n
      <4>2. w2.obj[q] = w1.obj[q]
        BY <2>13, <4>1
      <4> QED
        BY <3>5, <3>6, <4>2 DEF Mutes
    <3>8. \A a \in Users : w4.players[a] = w1.players[a] \/ w4.players[a] \notin Made(w1)
      <4>1. w4.players = P
        BY <2>14, <3>5 DEF Quiet
      <4>2. w1.players \in [Users -> Objs \cup {Nobody}]
        BY <2>7 DEF Servers
      <4> QED
        BY <2>12, <2>13, <4>1, <4>2
    <3>9. Made(w1) \subseteq Made(w4)
      <4>1. Made(w4) = Made(w2)
        BY <3>5 DEF Quiet, Made
      <4> QED
        BY <2>13, <4>1 DEF Onward
    <3>10. Shuts(w1, w4)
      BY <3>7, <3>8, <3>9 DEF Shuts
    <3> QED
      BY <2>108, <3>1, <3>10, ShutsTwice
  <2> QED
    BY <2>20, <2>21, <2>22, <2>23, <2>24 DEF v
<1> QED
  BY <1>3, <1>4, <1>5

\* Players are taken out of rooms: once from every room of Q.
Thin(w, Q, o) ==
  [w EXCEPT !.room = [q \in Rooms |->
     IF q \in Q THEN [w.room[q] EXCEPT !.players = RemoveFirst(@, o)] ELSE w.room[q]]]

LEMMA ThinFacts ==
  ASSUME NEW w, NEW x, NEW y, Good(w, x, y), NEW Q, NEW o
  PROVE  LET v == Thin(w, Q, o) IN
         /\ v \in Servers /\ Sessions(v)
         /\ Places(v) /\ Empty(v) /\ Leaving(v) /\ Left(v, x)
         /\ v.made = w.made /\ v.rooms = w.rooms /\ v.obj = w.obj /\ v.players = w.players
         /\ v.posted = w.posted /\ v.lobby = w.lobby
         /\ \A q \in Rooms :
              /\ v.room[q].owner = w.room[q].owner /\ v.room[q].started = w.room[q].started
              /\ v.room[q].abandoned = w.room[q].abandoned
              /\ v.room[q].refs = w.room[q].refs /\ v.room[q].life = w.room[q].life
              /\ v.room[q].rejected = w.room[q].rejected
              /\ v.room[q].observers = w.room[q].observers
              /\ \A p \in ToSet(w.room[q].players) : p # o => p \in ToSet(v.room[q].players)
              /\ v.room[q].players = IF q \in Q THEN RemoveFirst(w.room[q].players, o)
                                     ELSE w.room[q].players
<1> DEFINE T == [q \in Rooms |->
                   IF q \in Q THEN [w.room[q] EXCEPT !.players = RemoveFirst(@, o)]
                   ELSE w.room[q]]
           v == Thin(w, Q, o)
<1>1. w \in Servers /\ Sessions(w) /\ Households(w, x, y)
  BY DEF Good
<1>2. ASSUME NEW q \in Rooms
      PROVE  /\ T[q] \in RoomState
             /\ T[q].owner = w.room[q].owner /\ T[q].started = w.room[q].started
             /\ T[q].abandoned = w.room[q].abandoned
             /\ T[q].refs = w.room[q].refs /\ T[q].life = w.room[q].life
             /\ T[q].rejected = w.room[q].rejected
             /\ T[q].observers = w.room[q].observers
             /\ T[q].players = IF q \in Q THEN RemoveFirst(w.room[q].players, o)
                               ELSE w.room[q].players
  <2> DEFINE l == RemoveFirst(w.room[q].players, o)
             R == [w.room[q] EXCEPT !.players = l]
  <2>1. w.room[q] \in RoomState /\ w.room[q].players \in Seq(Objs)
    BY <1>1, GoodTypes
  <2>2. l \in Seq(Objs)
    BY <2>1, RemovedSet
  <2>3. T[q] = IF q \in Q THEN R ELSE w.room[q]
    OBVIOUS
  <2> HIDE DEF l, T
  <2>4. /\ R \in RoomState /\ R.players = l /\ R.owner = w.room[q].owner
        /\ R.started = w.room[q].started /\ R.abandoned = w.room[q].abandoned
        /\ R.refs = w.room[q].refs /\ R.life = w.room[q].life
        /\ R.observers = w.room[q].observers /\ R.rejected = w.room[q].rejected
    BY <2>1, <2>2 DEF RoomState
  <2> HIDE DEF R
  <2>5. CASE q \in Q
    BY <2>3, <2>4, <2>5 DEF l
  <2>6. CASE q \notin Q
    BY <2>1, <2>3, <2>6
  <2> QED
    BY <2>5, <2>6
<1>3. v = [w EXCEPT !.room = T] /\ T = [q \in Rooms |-> T[q]]
  BY DEF Thin
<1> HIDE DEF T, v
<1>4. T \in [Rooms -> RoomState]
  BY <1>2, <1>3
<1>5. v \in Servers
  BY <1>1, <1>3, <1>4 DEF Servers
<1>6. /\ v.made = w.made /\ v.rooms = w.rooms /\ v.obj = w.obj /\ v.players = w.players
      /\ v.posted = w.posted /\ v.lobby = w.lobby /\ v.room = T
  BY <1>1, <1>3 DEF Servers
<1>7. ASSUME NEW q \in Rooms
      PROVE  /\ ToSet(v.room[q].players) \subseteq ToSet(w.room[q].players)
             /\ \A p \in ToSet(w.room[q].players) : p # o => p \in ToSet(v.room[q].players)
             /\ w.room[q].players = <<>> => v.room[q].players = <<>>
  <2>1. w.room[q].players \in Seq(Objs)
    BY <1>1, GoodTypes
  <2>2. LET t == RemoveFirst(w.room[q].players, o) IN
        /\ ToSet(t) \subseteq ToSet(w.room[q].players)
        /\ \A p \in ToSet(w.room[q].players) : p # o => p \in ToSet(t)
        /\ w.room[q].players = <<>> => t = <<>>
    BY <2>1, RemovedSet
  <2>3. v.room[q].players = IF q \in Q THEN RemoveFirst(w.room[q].players, o)
                            ELSE w.room[q].players
    BY <1>2, <1>6
  <2> QED
    BY <2>2, <2>3
<1>8. Made(v) = Made(w) /\ Posts(v) = Posts(w)
  BY <1>6 DEF Made, Posts
<1>9. \A q \in Rooms : /\ v.room[q].life = w.room[q].life
                       /\ v.room[q].abandoned = w.room[q].abandoned
                       /\ v.room[q].owner = w.room[q].owner
                       /\ v.room[q].refs = w.room[q].refs
                       /\ v.room[q].started = w.room[q].started
                       /\ v.room[q].rejected = w.room[q].rejected
                       /\ v.room[q].observers = w.room[q].observers
  BY <1>2, <1>6
<1>10. Sessions(v)
  <2>1. Accounts(v) /\ Sockets(v) /\ Unmade(v) /\ RobotsStay(v)
    BY <1>1, <1>6, <1>8 DEF Sessions, Accounts, Sockets, Unmade, RobotsStay, Human
  <2>2. Posted(v)
    BY <1>1, <1>6, <1>8 DEF Sessions, Posted, Human
  <2>3. Seated(v)
    BY <1>1, <1>7, <1>8, <1>9 DEF Sessions, Seated
  <2> QED
    BY <2>1, <2>2, <2>3 DEF Sessions
<1>11. Places(v)
  <2>1. \A q \in Objs : w.obj[q].room \in Rooms \cup {Lobby}
    BY <1>1, GoodTypes
  <2> QED
    BY <1>1, <1>6, <1>9, <2>1 DEF Households, Places
<1>12. Empty(v)
  BY <1>1, <1>7, <1>9 DEF Households, Empty
<1>13. Leaving(v) /\ Left(v, x)
  BY <1>1, <1>8, <1>9 DEF Households, Leaving, Left
<1>14. \A q \in Rooms : v.room[q].players =
          IF q \in Q THEN RemoveFirst(w.room[q].players, o) ELSE w.room[q].players
  BY <1>2, <1>6
<1> QED
  BY <1>5, <1>6, <1>7, <1>9, <1>10, <1>11, <1>12, <1>13, <1>14 DEF v

LEMMA ThinOne ==
  ASSUME NEW w, NEW x, Good(w, x, Lobby), NEW r \in Rooms, NEW o,
         w.room[r].started = FALSE
  PROVE  Good(Thin(w, {r}, o), x, r) /\ Onward(w, Thin(w, {r}, o))
<1> DEFINE v == Thin(w, {r}, o)
<1>1. w \in Servers /\ Households(w, x, Lobby) /\ Lobby \notin Rooms
  BY MadeObjs DEF Good
<1>2. /\ v \in Servers /\ Sessions(v)
      /\ Places(v) /\ Empty(v) /\ Leaving(v) /\ Left(v, x)
      /\ v.made = w.made /\ v.rooms = w.rooms /\ v.obj = w.obj
  BY ThinFacts
<1>3. \A q \in Rooms :
              /\ v.room[q].owner = w.room[q].owner /\ v.room[q].started = w.room[q].started
              /\ v.room[q].abandoned = w.room[q].abandoned
              /\ v.room[q].refs = w.room[q].refs /\ v.room[q].life = w.room[q].life
              /\ q # r => v.room[q].players = w.room[q].players
  BY ThinFacts
<1> HIDE DEF v
<1>4. Found(v, r)
  <2>1. \A q \in Rooms : q # r => (HumanIn(w, q) <=> HumanIn(v, q))
    BY <1>2, <1>3 DEF HumanIn, Human
  <2>2. w.rooms \subseteq Rooms
    BY <1>1, GoodTypes
  <2> QED
    BY <1>1, <1>2, <1>3, <2>1, <2>2 DEF Households, Found
<1>5. Owned(v, r)
  BY <1>1, <1>2, <1>3 DEF Households, Owned, Human
<1>6. Onward(w, v)
  BY <1>2, <1>3 DEF Onward, Made, HumanIn, Human
<1> QED
  BY <1>2, <1>4, <1>5, <1>6 DEF Good, Households, v

LEMMA ThinRobot ==
  ASSUME NEW w, NEW x, NEW y, Good(w, x, y), NEW o \in Objs,
         w.obj[o].life = "freed", ~Human(w, o)
  PROVE  Good(Thin(w, Rooms, o), x, y) /\ Onward(w, Thin(w, Rooms, o))
<1> DEFINE v == Thin(w, Rooms, o)
<1>1. w \in Servers /\ Households(w, x, y)
  BY DEF Good
<1>2. /\ v \in Servers /\ Sessions(v)
      /\ Places(v) /\ Empty(v) /\ Leaving(v) /\ Left(v, x)
      /\ v.made = w.made /\ v.rooms = w.rooms /\ v.obj = w.obj
  BY ThinFacts
<1>3. \A q \in Rooms :
              /\ v.room[q].owner = w.room[q].owner /\ v.room[q].started = w.room[q].started
              /\ v.room[q].abandoned = w.room[q].abandoned
              /\ v.room[q].refs = w.room[q].refs /\ v.room[q].life = w.room[q].life
              /\ \A p \in ToSet(w.room[q].players) : p # o => p \in ToSet(v.room[q].players)
  BY ThinFacts
<1> HIDE DEF v
<1>4. \A q \in Rooms : HumanIn(w, q) => HumanIn(v, q)
  BY <1>2, <1>3 DEF HumanIn, Human
<1>5. Found(v, y)
  BY <1>1, <1>2, <1>3, <1>4, GoodTypes DEF Households, Found
<1>6. Owned(v, y)
  BY <1>1, <1>2, <1>3 DEF Households, Owned, Human
<1>7. Onward(w, v)
  BY <1>2, <1>3, <1>4 DEF Onward, Made
<1> QED
  BY <1>2, <1>5, <1>6, <1>7 DEF Good, Households, v

LEMMA Weaker ==
  ASSUME NEW w, NEW x, NEW r, Good(w, x, Lobby), r \in Rooms
  PROVE  Good(w, x, r)
<1>1. w \in Servers /\ Lobby \notin Rooms /\ w.rooms \subseteq Rooms
  BY MadeObjs DEF Good, Servers
<1> QED
  BY <1>1 DEF Good, Households, Found, Owned

\* A room changes its owner, or is given up.
SetRoom(w, r, R) == [w EXCEPT !.room[r] = R]
Renewed(R, Q) ==
  /\ R.life = "live" \/ Q.owner = Nobody
  /\ R.life # "none"
  /\ Q.players = R.players /\ Q.started = R.started /\ Q.refs = R.refs
  /\ Q.life = R.life /\ Q.observers = R.observers /\ Q.rejected = R.rejected
  /\ R.abandoned = TRUE => Q.abandoned = TRUE

LEMMA RoomFacts ==
  ASSUME NEW w, NEW x, NEW y, Good(w, x, y), NEW r \in Rooms, NEW R \in RoomState,
         Renewed(w.room[r], R)
  PROVE  LET v == SetRoom(w, r, R) IN
         /\ v \in Servers /\ Sessions(v) /\ Places(v) /\ Empty(v) /\ Leaving(v)
         /\ v.made = w.made /\ v.rooms = w.rooms /\ v.obj = w.obj /\ v.players = w.players
         /\ v.posted = w.posted /\ v.lobby = w.lobby
         /\ \A q \in Rooms :
              /\ q # r => v.room[q] = w.room[q]
              /\ v.room[q].started = w.room[q].started
              /\ v.room[q].refs = w.room[q].refs /\ v.room[q].life = w.room[q].life
              /\ v.room[q].players = w.room[q].players
         /\ v.room[r] = R
<1> DEFINE v == SetRoom(w, r, R)
<1>1. w \in Servers /\ Sessions(w) /\ Households(w, x, y)
  BY DEF Good
<1>2. w.room[r] \in RoomState
  BY <1>1, GoodTypes
<1>3. /\ w.room[r].life = "live" \/ R.owner = Nobody
      /\ w.room[r].life # "none"
      /\ R.players = w.room[r].players /\ R.started = w.room[r].started
      /\ R.refs = w.room[r].refs /\ R.life = w.room[r].life
      /\ R.observers = w.room[r].observers /\ R.rejected = w.room[r].rejected
      /\ w.room[r].abandoned = TRUE => R.abandoned = TRUE
  BY DEF Renewed
<1>4. v.room = [w.room EXCEPT ![r] = R]
  BY <1>1 DEF SetRoom, Servers
<1>5. v = [w EXCEPT !.room = [w.room EXCEPT ![r] = R]]
  BY <1>1 DEF SetRoom, Servers
<1> HIDE DEF v
<1>6. [w.room EXCEPT ![r] = R] \in [Rooms -> RoomState]
  BY <1>1 DEF Servers
<1>7. v \in Servers
  BY <1>1, <1>5, <1>6 DEF Servers
<1>8. /\ v.made = w.made /\ v.rooms = w.rooms /\ v.obj = w.obj /\ v.players = w.players
      /\ v.posted = w.posted /\ v.lobby = w.lobby
  BY <1>1, <1>5 DEF Servers
<1>9. \A q \in Rooms : v.room[q] = IF q = r THEN R ELSE w.room[q]
  BY <1>1, <1>4 DEF Servers
<1>10. Made(v) = Made(w) /\ Posts(v) = Posts(w)
  BY <1>8 DEF Made, Posts
<1>11. \A q \in Rooms :
              /\ q # r => v.room[q] = w.room[q]
              /\ v.room[q].started = w.room[q].started
              /\ v.room[q].refs = w.room[q].refs /\ v.room[q].life = w.room[q].life
              /\ v.room[q].players = w.room[q].players
              /\ v.room[q].observers = w.room[q].observers
              /\ v.room[q].rejected = w.room[q].rejected
  BY <1>3, <1>9
<1>12. Sessions(v)
  <2>1. Accounts(v) /\ Sockets(v) /\ Unmade(v) /\ RobotsStay(v)
    BY <1>1, <1>8, <1>10 DEF Sessions, Accounts, Sockets, Unmade, RobotsStay, Human
  <2>2. Posted(v)
    BY <1>1, <1>8, <1>10 DEF Sessions, Posted, Human
  <2>3. Seated(v)
    BY <1>1, <1>10, <1>11 DEF Sessions, Seated
  <2> QED
    BY <2>1, <2>2, <2>3 DEF Sessions
<1>13. Places(v)
  <2>1. \A q \in Objs : w.obj[q].room \in Rooms \cup {Lobby}
    BY <1>1, GoodTypes
  <2> QED
    BY <1>1, <1>8, <1>11, <2>1 DEF Households, Places
<1>14. v.room[r] = R
  BY <1>9
<1>15. Empty(v)
  <2>2. w.room[r].life \in {"live", "freed"}
    BY <1>2, <1>3 DEF RoomState
  <2> QED
    BY <1>1, <1>3, <1>11, <1>14, <2>2 DEF Households, Empty
<1>16. Leaving(v)
  BY <1>1, <1>3, <1>10, <1>11, <1>14 DEF Households, Leaving
<1> QED
  BY <1>7, <1>8, <1>11, <1>12, <1>13, <1>14, <1>15, <1>16 DEF v

LEMMA AbandonStep ==
  ASSUME NEW w, NEW x, NEW r \in Rooms, Good(w, x, r), w.room[r].life # "none"
  PROVE  LET v == Abandon(w, r) IN
         /\ Good(v, x, Lobby) /\ Onward(w, v) /\ v.made = w.made
         /\ v.obj = w.obj /\ v.lobby = w.lobby
         /\ v.players = w.players /\ v.rooms \subseteq w.rooms
         /\ \A e \in Posts(w) : e \in Posts(v)
         /\ \A q \in Rooms : /\ v.room[q].players = w.room[q].players
                             /\ v.room[q].life = w.room[q].life
<1> DEFINE R == [w.room[r] EXCEPT !.abandoned = TRUE, !.owner = Nobody]
           w1 == SetRoom(w, r, R)
           w2 == [w1 EXCEPT !.rooms = @ \ {r}]
           e == Given(r)
           v == Abandon(w, r)
<1>1. w \in Servers /\ Sessions(w) /\ Households(w, x, r) /\ Lobby \notin Rooms
  BY MadeObjs DEF Good
<1>2. w.room[r].abandoned \in BOOLEAN /\ w.posted \in Seq(Event) /\ e \in Event
  BY <1>1 DEF Servers, RoomState, Event, Given
<1>3. v = IF w.room[r].abandoned = TRUE THEN w1
          ELSE IF w.room[r].refs = 0 THEN [w2 EXCEPT !.posted = Append(@, e)] ELSE w2
  <2>1. w1 = [w EXCEPT !.room[r].abandoned = TRUE, !.room[r].owner = Nobody]
    BY <1>1, GoodTypes DEF SetRoom, Servers
  <2> HIDE DEF w1
  <2> QED
    BY <1>2, <2>1 DEF Abandon, Post, Given
<1>4. /\ w1 \in Servers /\ Sessions(w1) /\ Places(w1) /\ Empty(w1) /\ Leaving(w1)
      /\ w1.made = w.made /\ w1.rooms = w.rooms /\ w1.obj = w.obj /\ w1.players = w.players
      /\ w1.posted = w.posted /\ w1.lobby = w.lobby
      /\ \A q \in Rooms :
              /\ q # r => w1.room[q] = w.room[q]
              /\ w1.room[q].started = w.room[q].started
              /\ w1.room[q].refs = w.room[q].refs /\ w1.room[q].life = w.room[q].life
              /\ w1.room[q].players = w.room[q].players
      /\ w1.room[r].owner = Nobody /\ w1.room[r].abandoned = TRUE
  <2>0. w.room[r] \in RoomState
    BY <1>1, GoodTypes
  <2>1. /\ R \in RoomState /\ R.players = w.room[r].players /\ R.started = w.room[r].started
        /\ R.refs = w.room[r].refs /\ R.life = w.room[r].life
        /\ R.observers = w.room[r].observers /\ R.rejected = w.room[r].rejected
        /\ R.abandoned = TRUE /\ R.owner = Nobody
    BY <2>0 DEF RoomState
  <2>4. Renewed(w.room[r], R)
    BY <2>1 DEF Renewed
  <2> HIDE DEF R
  <2>2. /\ w1 \in Servers /\ Sessions(w1) /\ Places(w1) /\ Empty(w1) /\ Leaving(w1)
        /\ w1.made = w.made /\ w1.rooms = w.rooms /\ w1.obj = w.obj /\ w1.players = w.players
        /\ w1.posted = w.posted /\ w1.lobby = w.lobby
    BY <2>1, <2>4, RoomFacts
  <2>3. /\ \A q \in Rooms :
              /\ q # r => w1.room[q] = w.room[q]
              /\ w1.room[q].started = w.room[q].started
              /\ w1.room[q].refs = w.room[q].refs /\ w1.room[q].life = w.room[q].life
              /\ w1.room[q].players = w.room[q].players
        /\ w1.room[r] = R
    BY <2>1, <2>4, RoomFacts
  <2> QED
    BY <2>1, <2>2, <2>3
<1> HIDE DEF w1
<1>5. Onward(w, w1)
  BY <1>4 DEF Onward, Made, HumanIn, Human
<1>6. Owned(w1, Lobby)
  BY <1>1, <1>4 DEF Households, Owned, Human
<1>7. \A q \in Rooms : HumanIn(w1, q) <=> HumanIn(w, q)
  BY <1>4 DEF HumanIn, Human
<1>8. w.rooms \subseteq Rooms
  BY <1>1, GoodTypes
<1>9. CASE w.room[r].abandoned = TRUE
  <2>1. Found(w1, Lobby)
    BY <1>1, <1>4, <1>7, <1>8, <1>9 DEF Households, Found
  <2>2. Left(w1, x)
    BY <1>1, <1>4, <1>9 DEF Households, Left, Posts
  <2> QED
    BY <1>3, <1>4, <1>5, <1>6, <1>9, <2>1, <2>2 DEF Good, Households, Posts, v
<1>10. CASE w.room[r].abandoned # TRUE
  <2>1. w.room[r].life = "live"
    <3>1. w.room[r].life \in {"none", "live", "freed"}
      BY <1>1 DEF Servers, RoomState
    <3> QED
      BY <1>1, <1>10, <3>1 DEF Households, Empty
  <2>2. /\ w2.rooms = w.rooms \ {r} /\ w2.made = w1.made /\ w2.obj = w1.obj
        /\ w2.players = w1.players /\ w2.posted = w1.posted /\ w2.lobby = w1.lobby
        /\ w2.room = w1.room /\ w2 \in Servers
    BY <1>4 DEF Servers
  <2>3. Found(w2, Lobby)
    BY <1>1, <1>4, <1>7, <1>8, <2>2 DEF Households, Found, HumanIn, Human
  <2>4. \A q \in Rooms : q # x /\ q # r /\ w1.room[q].life = "live"
                       /\ w1.room[q].abandoned = TRUE /\ w1.room[q].refs = 0
                       => Given(q) \in Posts(w)
    BY <1>1, <1>4 DEF Households, Left
  <2>5. ASSUME NEW z \in Servers, z.rooms = w2.rooms, z.made = w2.made, z.obj = w2.obj,
               z.players = w2.players, z.lobby = w2.lobby, z.room = w2.room,
               \A d \in Posts(w) : d \in Posts(z),
               \A d \in Posts(z) : d \in Posts(w) \/ d = e,
               w1.room[r].refs = 0 => e \in Posts(z)
        PROVE  /\ Good(z, x, Lobby) /\ Onward(w, z) /\ z.made = w.made
               /\ z.obj = w.obj /\ z.lobby = w.lobby
               /\ z.players = w.players /\ z.rooms \subseteq w.rooms
               /\ \A d \in Posts(w) : d \in Posts(z)
               /\ \A q \in Rooms : /\ z.room[q].players = w.room[q].players
                                   /\ z.room[q].life = w.room[q].life
    <3>0. \A q \in Rooms : Given(q) = e <=> q = r
      BY DEF Given
    <3>00. e.do = "deleteRoom"
      BY DEF Given
    <3> HIDE DEF e, w2
    <3>1. Accounts(z) /\ Sockets(z) /\ Unmade(z) /\ RobotsStay(z) /\ Seated(z)
      BY <1>4, <2>2, <2>5
      DEF Sessions, Accounts, Sockets, Unmade, RobotsStay, Seated, Human, Made
    <3>2. Posted(z)
      <4>1. Posted(w1) /\ Posts(w1) = Posts(w)
        BY <1>4 DEF Sessions, Posts
      <4> QED
        BY <1>4, <2>2, <2>5, <3>00, <4>1 DEF Posted, Human, Made
    <3>3. Places(z) /\ Empty(z) /\ Found(z, Lobby) /\ Owned(z, Lobby)
      BY <1>4, <1>6, <2>2, <2>3, <2>5 DEF Places, Empty, Found, Owned, HumanIn, Human
    <3>4. Leaving(z)
      <4>1. Leaving(w1) /\ Posts(w1) = Posts(w)
        BY <1>4 DEF Posts
      <4> QED
        BY <1>4, <2>1, <2>2, <2>5, <3>0, <4>1 DEF Leaving
    <3>5. Left(z, x)
      BY <2>2, <2>4, <2>5 DEF Left, e
    <3>6. Onward(w, z)
      BY <1>5, <2>2, <2>5 DEF Onward, Made, HumanIn, Human
    <3> QED
      BY <1>4, <2>2, <2>5, <3>1, <3>2, <3>3, <3>4, <3>5, <3>6 DEF Good, Sessions, Households
  <2> DEFINE w3 == [w2 EXCEPT !.posted = Append(@, e)]
  <2>6. CASE w.room[r].refs = 0
    <3>1. Append(w2.posted, e) \in Seq(Event)
          /\ ToSet(Append(w2.posted, e)) = Posts(w) \cup {e}
      BY <1>2, <1>4, <2>2, Appended DEF Posts
    <3> HIDE DEF w2, e
    <3>2. /\ w3.rooms = w2.rooms /\ w3.made = w2.made /\ w3.obj = w2.obj
          /\ w3.players = w2.players /\ w3.posted = Append(w2.posted, e) /\ w3.lobby = w2.lobby
          /\ w3.room = w2.room /\ w3 \in Servers
      BY <2>2, <3>1 DEF Servers
    <3>3. Posts(w3) = Posts(w) \cup {e}
      BY <3>1, <3>2 DEF Posts
    <3> HIDE DEF w3
    <3>4. v = w3
      BY <1>3, <1>10, <2>6 DEF w3
    <3> QED
      BY <2>5, <3>2, <3>3, <3>4
  <2>7. CASE w.room[r].refs # 0
    <3>1. Posts(w2) = Posts(w)
      BY <1>4, <2>2 DEF Posts
    <3> HIDE DEF w2
    <3>2. v = w2
      BY <1>3, <1>10, <2>7
    <3> HIDE DEF v
    <3>3. w1.room[r].refs # 0
      BY <1>4, <2>7
    <3> QED
      BY <2>2, <2>5, <3>1, <3>2, <3>3 DEF v
  <2> QED
    BY <2>6, <2>7
<1> QED
  BY <1>9, <1>10

\* removePlayer after the player is out: the room is given up, or has an owner.
Settle(w, r, o) ==
  IF IsAbandoned(w, r) THEN Abandon(w, r)
  ELSE IF o = w.room[r].owner THEN [w EXCEPT !.room[r].owner = Head(w.room[r].players)]
       ELSE w

LEMMA SettleStep ==
  ASSUME NEW w, NEW x, NEW r \in Rooms, NEW o, Good(w, x, r), w.room[r].life # "none",
         w.room[r].life = "live" /\ w.room[r].owner # Nobody /\ w.room[r].owner # o =>
           \/ w.room[r].owner \in ToSet(w.room[r].players)
           \/ w.obj[w.room[r].owner].life = "freed" /\ ~Human(w, w.room[r].owner)
  PROVE  LET v == Settle(w, r, o) IN
         /\ Good(v, x, Lobby) /\ Onward(w, v)
         /\ v.obj = w.obj /\ v.lobby = w.lobby
         /\ v.players = w.players /\ v.rooms \subseteq w.rooms
         /\ \A e \in Posts(w) : e \in Posts(v)
         /\ \A q \in Rooms : /\ v.room[q].players = w.room[q].players
                             /\ v.room[q].life = w.room[q].life
<1> DEFINE v == Settle(w, r, o)
<1>1. w \in Servers /\ Sessions(w) /\ Households(w, x, r) /\ Lobby \notin Rooms
  BY MadeObjs DEF Good
<1>2. CASE IsAbandoned(w, r)
  <2>1. v = Abandon(w, r)
    BY <1>2 DEF Settle
  <2>2. LET z == Abandon(w, r) IN
         /\ Good(z, x, Lobby) /\ Onward(w, z)
         /\ z.obj = w.obj /\ z.lobby = w.lobby
         /\ z.players = w.players /\ z.rooms \subseteq w.rooms
         /\ \A e \in Posts(w) : e \in Posts(z)
         /\ \A q \in Rooms : /\ z.room[q].players = w.room[q].players
                             /\ z.room[q].life = w.room[q].life
    BY AbandonStep
  <2> HIDE DEF v
  <2> QED
    BY <2>1, <2>2 DEF v
<1>3. CASE ~IsAbandoned(w, r)
  <2>1. PICK p \in ToSet(w.room[r].players) : w.obj[p].state = "Online"
    BY <1>3 DEF IsAbandoned, Online
  <2>2. p \in Objs /\ Human(w, p)
    BY <1>1, <2>1, GoodTypes DEF Sessions, RobotsStay
  <2>3. HumanIn(w, r)
    BY <2>1, <2>2 DEF HumanIn
  <2>4. Found(w, Lobby)
    BY <1>1, <2>3 DEF Households, Found
  <2>5. w.room[r].players # <<>>
    BY <2>1 DEF ToSet
  <2>6. CASE o # w.room[r].owner
    <3>1. v = w
      BY <1>3, <2>6 DEF Settle
    <3>2. Owned(w, Lobby)
      BY <1>1, <2>6 DEF Households, Owned
    <3> HIDE DEF v
    <3>3. Good(w, x, Lobby)
      BY <1>1, <2>4, <3>2 DEF Good, Households
    <3> QED
      BY <3>1, <3>3, OnwardSelf DEF v
  <2>7. CASE o = w.room[r].owner
    <3> DEFINE h == Head(w.room[r].players)
               R == [w.room[r] EXCEPT !.owner = h]
               z == SetRoom(w, r, R)
    <3>1. h \in Objs /\ h \in ToSet(w.room[r].players) /\ w.room[r].players \in Seq(Objs)
      BY <1>1, <2>5, GoodTypes, Beheaded
    <3>2. w.room[r] \in RoomState
      BY <1>1, GoodTypes
    <3>3. v = z
      BY <1>3, <2>7 DEF Settle, SetRoom
    <3> HIDE DEF v, z, h
    <3>12. /\ R \in RoomState /\ R.players = w.room[r].players /\ R.started = w.room[r].started
           /\ R.refs = w.room[r].refs /\ R.life = w.room[r].life
           /\ R.observers = w.room[r].observers /\ R.rejected = w.room[r].rejected
           /\ R.abandoned = w.room[r].abandoned /\ R.owner = h
      BY <3>1, <3>2 DEF RoomState
    <3> HIDE DEF R
    <3>4. w.room[r].life = "live"
      <4>1. w.room[r].life \in {"none", "live", "freed"}
        BY <1>1 DEF Servers, RoomState
      <4> QED
        BY <1>1, <2>5, <4>1 DEF Households, Empty
    <3>13. Renewed(w.room[r], R)
      BY <3>4, <3>12 DEF Renewed
    <3>5. /\ z \in Servers /\ Sessions(z) /\ Places(z) /\ Empty(z) /\ Leaving(z)
          /\ z.made = w.made /\ z.rooms = w.rooms /\ z.obj = w.obj /\ z.players = w.players
          /\ z.posted = w.posted /\ z.lobby = w.lobby
      BY <3>12, <3>13, RoomFacts DEF z
    <3>6. /\ \A q \in Rooms :
                /\ q # r => z.room[q] = w.room[q]
                /\ z.room[q].started = w.room[q].started
                /\ z.room[q].refs = w.room[q].refs /\ z.room[q].life = w.room[q].life
                /\ z.room[q].players = w.room[q].players
          /\ z.room[r] = R
      BY <3>12, <3>13, RoomFacts DEF z
    <3>7. z.room[r].abandoned = w.room[r].abandoned /\ z.room[r].owner = h
      BY <3>6, <3>12
    <3>8. Found(z, Lobby)
      <4>1. \A q \in Rooms : HumanIn(w, q) <=> HumanIn(z, q)
        BY <3>5, <3>6 DEF HumanIn, Human
      <4>2. w.rooms \subseteq Rooms
        BY <1>1, GoodTypes
      <4> QED
        BY <2>4, <3>5, <3>6, <3>7, <4>1, <4>2 DEF Found
    <3>9. Left(z, x)
      BY <1>1, <3>5, <3>6, <3>7 DEF Households, Left, Posts
    <3>10. Owned(z, Lobby)
      BY <1>1, <3>1, <3>5, <3>6, <3>7 DEF Households, Owned, Human
    <3>11. Onward(w, z)
      BY <3>5, <3>6 DEF Onward, Made, HumanIn, Human
    <3> QED
      BY <3>3, <3>5, <3>6, <3>8, <3>9, <3>10, <3>11 DEF Good, Households, Posts, v
  <2> QED
    BY <2>6, <2>7
<1> QED
  BY <1>2, <1>3

LEMMA LeaveStep ==
  ASSUME NEW w, NEW x, Good(w, x, Lobby), NEW r \in Rooms, NEW o \in Made(w),
         w.room[r].life # "none", NEW died, NEW b
  PROVE  LET v == Leave(w, r, o, died, b) IN
         /\ Good(v, x, Lobby) /\ Onward(w, v) /\ v.rooms \subseteq w.rooms
         /\ died = FALSE => Shuts(w, v)
<1> DEFINE v == Leave(w, r, o, died, b)
           t == Thin(w, {r}, o)
           w1 == IF w.room[r].started THEN RunAway(w, r, o, died, b) ELSE LobbyAdd(t, o)
<1>1. w \in Servers /\ Households(w, x, Lobby) /\ Lobby \notin Rooms /\ o \in Objs
  BY MadeObjs DEF Good
<1>2. CASE Contains(w.room[r].observers, o)
  <2>1. v = RemoveObserver(w, r, o)
    BY <1>2 DEF Leave
  <2>2. Quiet(w, RemoveObserver(w, r, o)) /\ Mutes(w, RemoveObserver(w, r, o))
    BY <1>1, RemoveObserverQuiet
  <2> HIDE DEF v
  <2>3. Quiet(w, v) /\ Shuts(w, v)
    BY <1>1, <2>1, <2>2, QuietShuts
  <2>4. v.rooms = w.rooms
    BY <2>3 DEF Quiet
  <2> QED
    BY <2>3, <2>4, QuietStep DEF v
<1>3. CASE ~Contains(w.room[r].observers, o)
  <2>1. t = [w EXCEPT !.room[r].players = RemoveFirst(@, o)]
    <3>1. [q \in Rooms |-> IF q \in {r} THEN [w.room[q] EXCEPT !.players = RemoveFirst(@, o)]
                           ELSE w.room[q]]
          = [w.room EXCEPT ![r].players = RemoveFirst(@, o)]
      BY <1>1 DEF Servers
    <3> QED
      BY <3>1 DEF Thin
  <2>2. v = Settle(w1, r, o)
    <3> HIDE DEF t
    <3> QED
      BY <1>3, <2>1 DEF Leave, Settle
  <2> HIDE DEF v, t, w1
  <2>3. ASSUME Good(w1, x, r), Onward(w, w1), w1.rooms = w.rooms,
               died = FALSE => Shuts(w, w1),
               w1.room[r].life = "live" /\ w1.room[r].owner # Nobody /\ w1.room[r].owner # o =>
                 \/ w1.room[r].owner \in ToSet(w1.room[r].players)
                 \/ w1.obj[w1.room[r].owner].life = "freed" /\ ~Human(w1, w1.room[r].owner)
        PROVE  /\ Good(v, x, Lobby) /\ Onward(w, v) /\ v.rooms \subseteq w.rooms
               /\ died = FALSE => Shuts(w, v)
    <3>1. w1.room[r].life # "none"
      BY <2>3 DEF Onward
    <3>2. /\ Good(Settle(w1, r, o), x, Lobby) /\ Onward(w1, Settle(w1, r, o))
          /\ Settle(w1, r, o).rooms \subseteq w1.rooms
          /\ Settle(w1, r, o).obj = w1.obj /\ Settle(w1, r, o).players = w1.players
      BY <2>3, <3>1, SettleStep
    <3>3. Shuts(w1, v)
      BY <2>2, <3>2 DEF Shuts, Onward
    <3> QED
      BY <2>2, <2>3, <3>2, <3>3, OnwardTwice, ShutsTwice
  <2>4. CASE w.room[r].started = TRUE
    <3>1. w1 = RunAway(w, r, o, died, b)
      BY <2>4 DEF w1
    <3>2. /\ Good(w1, x, Lobby) /\ Onward(w, w1) /\ w1.rooms = w.rooms
          /\ died = FALSE => Shuts(w, w1)
      <4>1. LET z == RunAway(w, r, o, died, b) IN
            /\ Good(z, x, Lobby) /\ Onward(w, z) /\ z.rooms = w.rooms
            /\ \A q \in Rooms : SameRoom(w.room[q], z.room[q])
            /\ died = FALSE => Shuts(w, z)
        BY RunAwayStep, Zenon
      <4> QED
        BY <3>1, <4>1
    <3>3. Good(w1, x, r)
      BY <3>2, Weaker
    <3>4. w1.room[r].life = "live" /\ w1.room[r].owner # Nobody =>
            \/ w1.room[r].owner \in ToSet(w1.room[r].players)
            \/ w1.obj[w1.room[r].owner].life = "freed" /\ ~Human(w1, w1.room[r].owner)
      BY <1>1, <3>2 DEF Good, Households, Owned
    <3> QED
      BY <2>3, <3>2, <3>3, <3>4 DEF v
  <2>5. CASE w.room[r].started = FALSE
    <3>1. w1 = LobbyAdd(t, o)
      BY <2>5 DEF w1
    <3>2. Good(t, x, r) /\ Onward(w, t)
      BY <2>5, ThinOne DEF t
    <3>3. o \in Made(t) /\ t \in Servers
      BY <3>2 DEF Onward, Good
    <3>4. Quiet(t, w1)
      BY <3>1, <3>3, LobbyAddQuiet
    <3>5. Good(w1, x, r) /\ Onward(t, w1)
      BY <3>2, <3>4, QuietStep
    <3>6. Onward(w, w1)
      BY <3>2, <3>5, OnwardTwice
    <3>7. w.room[r].life = "live" /\ w.room[r].owner # Nobody =>
            \/ w.room[r].owner \in ToSet(w.room[r].players)
            \/ w.obj[w.room[r].owner].life = "freed" /\ ~Human(w, w.room[r].owner)
      BY <1>1 DEF Households, Owned
    <3>8. /\ t.obj = w.obj /\ t.rooms = w.rooms /\ t.players = w.players /\ t.made = w.made /\ t.room[r].owner = w.room[r].owner
          /\ \A p \in ToSet(w.room[r].players) : p # o => p \in ToSet(t.room[r].players)
      BY ThinFacts DEF t
    <3>9. /\ w1.rooms = t.rooms /\ w1.room[r].owner = t.room[r].owner /\ w1.room[r].players = t.room[r].players
          /\ \A p \in Objs : /\ w1.obj[p].life = t.obj[p].life
                             /\ w1.obj[p].user = t.obj[p].user
      BY <3>4 DEF Quiet, SameRoom, SamePlayer
    <3>10. w1.room[r].life = w.room[r].life /\ w.room[r].owner \in Objs \cup {Nobody}
      BY <1>1, <3>6, GoodTypes DEF Onward
    <3>11. w1.room[r].life = "live" /\ w1.room[r].owner # Nobody /\ w1.room[r].owner # o =>
                 \/ w1.room[r].owner \in ToSet(w1.room[r].players)
                 \/ w1.obj[w1.room[r].owner].life = "freed" /\ ~Human(w1, w1.room[r].owner)
      BY <3>7, <3>8, <3>9, <3>10 DEF Human
    <3> QED
      <4>1. Shuts(w, t)
        BY <3>8 DEF Shuts, Made
      <4>2. w1.obj = [t.obj EXCEPT ![o].room = Lobby]
        BY <3>1, <3>3, LobbyAddQuiet
      <4>3. Shuts(t, w1)
        BY <3>3, <3>4, <4>2, ObjMutes, QuietShuts
      <4>4. Shuts(w, w1)
        BY <4>1, <4>3, ShutsTwice
      <4> QED
        BY <2>3, <3>5, <3>6, <3>8, <3>9, <3>11, <4>4 DEF v
  <2>6. w.room[r].started \in BOOLEAN
    BY <1>1 DEF Servers, RoomState
  <2> QED
    BY <2>4, <2>5, <2>6
<1> QED
  BY <1>2, <1>3

LEMMA ExitStep ==
  ASSUME NEW w, NEW x, Good(w, x, Lobby), NEW o \in Made(w)
  PROVE  Good(Exit(w, o), x, Lobby) /\ Onward(w, Exit(w, o)) /\ Shuts(w, Exit(w, o))
<1> DEFINE r == w.obj[o].room
           f == FALSE
<1>1. w \in Servers /\ o \in Objs /\ r \in Rooms \cup {Lobby}
      /\ (r # Lobby => w.room[r].life # "none")
  BY MadeObjs, GoodTypes DEF Good, Households, Places
<1>2. CASE r = Lobby
  <2>1. Exit(w, o) = LobbyRemove(w, o)
    BY <1>2 DEF Exit
  <2>2. Quiet(w, LobbyRemove(w, o)) /\ LobbyRemove(w, o).obj = w.obj
    BY <1>1, LobbyRemoveQuiet
  <2>3. Mutes(w, LobbyRemove(w, o))
    BY <2>2 DEF Mutes
  <2> QED
    BY <1>1, <2>1, <2>2, <2>3, QuietStep, QuietShuts
<1>3. CASE r # Lobby /\ w.room[r].life = "freed"
  <2>1. Exit(w, o) = Fault(w, "room")
    BY <1>3 DEF Exit
  <2>2. "room" \in Faults
    BY DEF Faults
  <2>3. Quiet(w, Fault(w, "room")) /\ Fault(w, "room").obj = w.obj
    BY <1>1, <2>2, FaultQuiet
  <2>4. Mutes(w, Fault(w, "room"))
    BY <2>3 DEF Mutes
  <2> QED
    BY <1>1, <2>1, <2>3, <2>4, QuietStep, QuietShuts
<1>4. CASE r # Lobby /\ w.room[r].life # "freed"
  <2>1. Exit(w, o) = Leave(w, r, o, f, f)
    BY <1>4 DEF Exit
  <2>3. f = FALSE
    OBVIOUS
  <2> HIDE DEF f, r
  <2>2. /\ Good(Leave(w, r, o, f, f), x, Lobby) /\ Onward(w, Leave(w, r, o, f, f))
        /\ f = FALSE => Shuts(w, Leave(w, r, o, f, f))
    BY <1>1, <1>4, LeaveStep
  <2> QED
    BY <2>1, <2>2, <2>3
<1> QED
  BY <1>2, <1>3, <1>4

Gone(u) == [NoObj EXCEPT !.user = u, !.life = "freed"]
FreedIs(w, S, P) == [Freed(w, S) EXCEPT !.players = P]

LEMMA FreedStep ==
  ASSUME NEW w, NEW x, NEW y, Good(w, x, y), NEW S \in SUBSET Made(w),
         NEW P \in [Users -> Objs \cup {Nobody}],
         \A u \in Users : \/ P[u] = w.players[u] /\ P[u] \notin S
                         \/ /\ P[u] = Nobody
                            /\ \A o \in Objs : o \notin S /\ w.obj[o].user = u =>
                                 w.obj[o].socket = "none"
  PROVE  LET v == FreedIs(w, S, P) IN
         /\ Good(v, x, y) /\ Onward(w, v)
         /\ v.room = w.room /\ v.rooms = w.rooms /\ v.made = w.made /\ v.lobby = w.lobby
         /\ \A o \in Objs : v.obj[o] = IF o \in S THEN Gone(w.obj[o].user) ELSE w.obj[o]
         /\ Posts(v) = Posts(w) \ [do : {"kick", "delete"}, of : S]
<1> DEFINE gone(o) == Gone(w.obj[o].user)
           D == [do : {"kick", "delete"}, of : S]
           ob == [o \in Objs |-> IF o \in S THEN gone(o) ELSE w.obj[o]]
           l == Without(w.posted, D)
           v == FreedIs(w, S, P)
<1>1. w \in Servers /\ Sessions(w) /\ Households(w, x, y) /\ Made(w) \subseteq Objs
  BY MadeObjs DEF Good
<1>2. \A o \in Objs : /\ gone(o).user = w.obj[o].user /\ gone(o).life = "freed"
                      /\ gone(o).state = "Robot" /\ gone(o).socket = "none"
                      /\ gone(o).room = Lobby /\ gone(o) \in Player
  BY <1>1, GoodTypes DEF Gone, NoObj, Player
<1>3. l \in Seq(Event) /\ ToSet(l) = Posts(w) \ D
  <2>1. w.posted \in Seq(Event)
    BY <1>1, GoodTypes
  <2> HIDE DEF D
  <2> QED
    BY <2>1, WithoutSet DEF Posts
<1>4. v = [w EXCEPT !.obj = ob, !.posted = l, !.players = P]
  BY <1>1 DEF FreedIs, Freed, Gone, Servers
<1> HIDE DEF gone
<1>5. ob \in [Objs -> Player] /\ \A o \in Objs : ob[o] = IF o \in S THEN gone(o) ELSE w.obj[o]
  BY <1>1, <1>2, GoodTypes
<1>6. \A r \in Rooms : Given(r) \notin D
  BY DEF Given
<1>7. \A e \in D : e.of \in S /\ e.do \in {"kick", "delete"}
  OBVIOUS
<1>8. \A e \in Posts(w) \ D : e.do # "deleteRoom" => e.of \notin S
  <2> SUFFICES ASSUME NEW e \in Posts(w), e \notin D, e.do # "deleteRoom", e.of \in S
               PROVE  FALSE
    OBVIOUS
  <2>1. e \in Event
    BY <1>1, GoodTypes, ToSetDef DEF Posts
  <2>2. e \in [do : {"kick", "delete"}, of : Objs]
    BY <2>1 DEF Event
  <2> QED
    BY <2>2
<1> HIDE DEF l, ob, D, v
<1>9. /\ v.obj = ob /\ v.posted = l /\ v.players = P /\ v.room = w.room /\ v.rooms = w.rooms
      /\ v.made = w.made /\ v.lobby = w.lobby /\ v \in Servers
  BY <1>1, <1>3, <1>4, <1>5 DEF Servers
<1>10. Made(v) = Made(w) /\ Posts(v) = Posts(w) \ D
  BY <1>3, <1>9 DEF Made, Posts
<1>11. \A o \in Objs : Human(v, o) <=> Human(w, o)
  BY <1>2, <1>5, <1>9 DEF Human
<1>12. Sessions(v)
  <2>1. Accounts(v)
    <3> SUFFICES ASSUME NEW u \in Users, P[u] # Nobody
                 PROVE  v.obj[P[u]].user = u /\ v.obj[P[u]].life = "live"
      BY <1>9 DEF Accounts
    <3>1. P[u] = w.players[u] /\ P[u] \in Objs /\ P[u] \notin S
      OBVIOUS
    <3>2. v.obj[P[u]] = w.obj[P[u]]
      BY <1>5, <1>9, <3>1
    <3> QED
      BY <1>1, <3>1, <3>2 DEF Sessions, Accounts
  <2>2. Sockets(v)
    <3> SUFFICES ASSUME NEW o \in Objs, v.obj[o].socket # "none"
                 PROVE  Human(v, o) /\ P[v.obj[o].user] = o
      BY <1>9 DEF Sockets
    <3>1. o \notin S /\ v.obj[o] = w.obj[o]
      BY <1>2, <1>5, <1>9
    <3>2. Human(w, o) /\ w.players[w.obj[o].user] = o /\ w.obj[o].user \in Users
      BY <1>1, <3>1, GoodTypes DEF Sessions, Sockets, Human
    <3> QED
      BY <1>11, <3>1, <3>2
  <2>3. Unmade(v)
    BY <1>1, <1>5, <1>9, <1>10, <1>11 DEF Sessions, Unmade
  <2>4. RobotsStay(v)
    BY <1>1, <1>2, <1>5, <1>9, <1>11 DEF Sessions, RobotsStay
  <2>5. Posted(v)
    BY <1>1, <1>10, <1>11 DEF Sessions, Posted
  <2>6. Seated(v)
    BY <1>1, <1>9, <1>10 DEF Sessions, Seated
  <2> QED
    BY <2>1, <2>2, <2>3, <2>4, <2>5, <2>6 DEF Sessions
<1>13. \A q \in Rooms : HumanIn(v, q) <=> HumanIn(w, q)
  BY <1>1, <1>9, <1>11, GoodTypes DEF HumanIn
<1>14. Households(v, x, y)
  <2>1. Places(v)
    BY <1>1, <1>2, <1>5, <1>9 DEF Households, Places
  <2>2. Empty(v)
    BY <1>1, <1>9 DEF Households, Empty
  <2>3. Found(v, y)
    BY <1>1, <1>9, <1>13, GoodTypes DEF Households, Found
  <2>4. Leaving(v)
    BY <1>1, <1>9, <1>10 DEF Households, Leaving
  <2>5. Left(v, x)
    BY <1>1, <1>6, <1>9, <1>10 DEF Households, Left
  <2>6. Owned(v, y)
    <3> SUFFICES ASSUME NEW r \in Rooms, r # y, w.room[r].life = "live",
                        w.room[r].owner # Nobody
                 PROVE  \/ w.room[r].owner \in ToSet(w.room[r].players)
                        \/ /\ v.obj[w.room[r].owner].life = "freed"
                           /\ ~Human(v, w.room[r].owner)
      BY <1>9 DEF Owned
    <3>1. w.room[r].owner \in Objs
      BY <1>1, GoodTypes
    <3>2. \/ w.room[r].owner \in ToSet(w.room[r].players)
          \/ /\ w.obj[w.room[r].owner].life = "freed"
             /\ ~Human(w, w.room[r].owner)
      BY <1>1 DEF Households, Owned
    <3>3. w.obj[w.room[r].owner].life = "freed" => v.obj[w.room[r].owner].life = "freed"
      BY <1>2, <1>5, <1>9, <3>1
    <3> QED
      BY <1>11, <3>1, <3>2, <3>3
  <2> QED
    BY <2>1, <2>2, <2>3, <2>4, <2>5, <2>6 DEF Households
<1>15. Onward(w, v)
  <2>1. \A o \in Made(w) : v.obj[o].user = w.obj[o].user
    BY <1>1, <1>2, <1>5, <1>9
  <2> QED
    BY <1>9, <1>10, <1>13, <2>1 DEF Onward
<1> QED
  BY <1>5, <1>9, <1>10, <1>12, <1>14, <1>15 DEF Good, v, gone, D

LEMMA DestroyStep ==
  ASSUME NEW w, NEW x, Good(w, x, Lobby), NEW o \in Made(w)
  PROVE  Good(Destroy(w, o), x, Lobby) /\ Onward(w, Destroy(w, o))
<1> DEFINE S == {o}
           u == w.obj[o].user
<1>1. w \in Servers /\ Sessions(w) /\ o \in Objs /\ S \in SUBSET Made(w)
  BY MadeObjs DEF Good
<1>2. \A a \in Users : w.players[a] \in Objs \cup {Nobody} /\ a # Bot /\ Nobody \notin Objs
  BY <1>1, GoodTypes, LifecycleConstants, MadeObjs
<1>3. CASE Human(w, o)
  <2> DEFINE w1 == Exit(Exit(w, o), o)
             P == IF w.players[u] = o THEN [w1.players EXCEPT ![u] = Nobody] ELSE w1.players
             v == Destroy(w, o)
  <2>1. Good(w1, x, Lobby) /\ Onward(w, w1) /\ Shuts(w, w1)
    <3>1. Good(Exit(w, o), x, Lobby) /\ Onward(w, Exit(w, o)) /\ Shuts(w, Exit(w, o))
      BY ExitStep
    <3>2. o \in Made(Exit(w, o))
      BY <3>1 DEF Onward
    <3>3. Good(w1, x, Lobby) /\ Onward(Exit(w, o), w1) /\ Shuts(Exit(w, o), w1)
      BY <3>1, <3>2, ExitStep
    <3> QED
      BY <3>1, <3>3, OnwardTwice, ShutsTwice
  <2>2. u \in Users
    BY <1>1, <1>3, GoodTypes DEF Human
  <2>3. w1 \in Servers /\ S \in SUBSET Made(w1) /\ Sessions(w1)
    BY <2>1 DEF Good, Onward
  <2>4. w1.players \in [Users -> Objs \cup {Nobody}]
    BY <2>3 DEF Servers
  <2>5. v = FreedIs(w1, S, P)
    <3>1. v = Freed(IF w.players[u] = o THEN [w1 EXCEPT !.players[u] = Nobody] ELSE w1, S)
      BY <1>3 DEF Destroy
    <3> HIDE DEF w1, v
    <3> DEFINE A(y) == [q \in Objs |-> IF q \in S
                         THEN Gone(y.obj[q].user)
                         ELSE y.obj[q]]
               B(y) == Without(y.posted, [do : {"kick", "delete"}, of : S])
    <3>2. ASSUME NEW y \in Servers PROVE Freed(y, S) = [y EXCEPT !.obj = A(y), !.posted = B(y)]
      BY DEF Freed, Gone, Servers
    <3>3. CASE w.players[u] = o
      <4> DEFINE z == [w1 EXCEPT !.players = P]
      <4>1. z \in Servers /\ z.obj = w1.obj /\ z.posted = w1.posted
        BY <2>2, <2>3, <2>4 DEF Servers
      <4>2. v = Freed(z, S)
        BY <2>3, <3>1, <3>3 DEF Servers
      <4>5. z = [w1 EXCEPT !.players = P]
        OBVIOUS
      <4> HIDE DEF z, P
      <4>3. v = [z EXCEPT !.obj = A(w1), !.posted = B(w1)]
        BY <3>2, <4>1, <4>2
      <4>4. Freed(w1, S) = [w1 EXCEPT !.obj = A(w1), !.posted = B(w1)]
        BY <2>3, <3>2
      <4> HIDE DEF A, B
      <4>6. [Freed(w1, S) EXCEPT !.players = P]
            = [w1 EXCEPT !.obj = A(w1), !.posted = B(w1), !.players = P]
        BY <2>3, <4>4 DEF Servers
      <4> QED
        BY <2>3, <4>3, <4>5, <4>6 DEF FreedIs, Servers
    <3>4. CASE w.players[u] # o
      <4>1. v = Freed(w1, S)
        BY <3>1, <3>4
      <4>2. Freed(w1, S) = [w1 EXCEPT !.obj = A(w1), !.posted = B(w1)]
        BY <2>3, <3>2
      <4> HIDE DEF A, B
      <4>3. [Freed(w1, S) EXCEPT !.players = w1.players] = Freed(w1, S)
        BY <2>3, <4>2 DEF Servers
      <4> QED
        BY <3>4, <4>1, <4>3 DEF FreedIs
    <3> QED
      BY <3>3, <3>4
  <2> HIDE DEF w1, v
  <2>6. P \in [Users -> Objs \cup {Nobody}]
    BY <2>4
  <2>7. \A a \in Users : \/ P[a] = w1.players[a] /\ P[a] \notin S
                         \/ /\ P[a] = Nobody
                            /\ \A q \in Objs : q \notin S /\ w1.obj[q].user = a =>
                                 w1.obj[q].socket = "none"
    <3> SUFFICES ASSUME NEW a \in Users
                 PROVE  \/ P[a] = w1.players[a] /\ P[a] \notin S
                        \/ /\ P[a] = Nobody
                           /\ \A q \in Objs : q \notin S /\ w1.obj[q].user = a =>
                                 w1.obj[q].socket = "none"
      OBVIOUS
    <3>0. w1.obj[o].user = u
      BY <2>1 DEF Onward
    <3>1. CASE a # u
      <4>1. P[a] = w1.players[a]
        BY <2>4, <3>1
      <4>2. w1.players[a] # o
        BY <1>1, <1>2, <2>3, <3>0, <3>1 DEF Sessions, Accounts
      <4> QED
        BY <4>1, <4>2
    <3>2. CASE a = u /\ w.players[u] = o
      <4>1. P[a] = Nobody
        BY <2>2, <2>4, <3>2
      <4>2. ASSUME NEW q \in Objs, q \notin S, w1.obj[q].user = a, w1.obj[q].socket # "none"
            PROVE  FALSE
        <5>1. w.obj[q].socket # "none" /\ w.obj[q].user = u
          BY <2>1, <3>2, <4>2 DEF Shuts
        <5>2. w.players[u] = q
          BY <1>1, <5>1 DEF Sessions, Sockets
        <5> QED
          BY <3>2, <4>2, <5>2
      <4> QED
        BY <4>1, <4>2
    <3>3. CASE a = u /\ w.players[u] # o
      <4>1. P[a] = w1.players[a]
        BY <3>3
      <4>2. w1.players[a] = w.players[a] \/ w1.players[a] \notin Made(w)
        BY <2>1 DEF Shuts
      <4> QED
        BY <3>3, <4>1, <4>2
    <3> QED
      BY <3>1, <3>2, <3>3
  <2> HIDE DEF P, S
  <2>8. Good(FreedIs(w1, S, P), x, Lobby) /\ Onward(w1, FreedIs(w1, S, P))
    BY <2>1, <2>3, <2>6, <2>7, FreedStep
  <2> QED
    BY <2>1, <2>5, <2>8, OnwardTwice DEF v
<1>4. CASE ~Human(w, o)
  <2> DEFINE P == w.players
             f == FreedIs(w, S, P)
             v == Destroy(w, o)
  <2>1. P \in [Users -> Objs \cup {Nobody}]
    BY <1>1 DEF Servers
  <2>2. \A a \in Users : \/ P[a] = w.players[a] /\ P[a] \notin S
                         \/ /\ P[a] = Nobody
                            /\ \A q \in Objs : q \notin S /\ w.obj[q].user = a =>
                                 w.obj[q].socket = "none"
    BY <1>1, <1>2, <1>4 DEF Sessions, Accounts, Human
  <2>3. v = Thin(f, Rooms, o)
    <3> DEFINE A == [q \in Objs |-> IF q \in S
                         THEN Gone(w.obj[q].user)
                         ELSE w.obj[q]]
               B == Without(w.posted, [do : {"kick", "delete"}, of : S])
               T == [q \in Rooms |-> [w.room[q] EXCEPT !.players = RemoveFirst(@, o)]]
               z == [w EXCEPT !.room = T]
    <3>1. v = Freed(z, S)
      <4>1. z = Unlisted(w, o)
        BY DEF Unlisted
      <4> HIDE DEF z
      <4> QED
        BY <1>4, <4>1 DEF Destroy
    <3>2. z.obj = w.obj /\ z.posted = w.posted
      BY <1>1 DEF Servers
    <3>3. Freed(z, S) = [z EXCEPT !.obj = A, !.posted = B]
      <4> HIDE DEF z
      <4> QED
        BY <3>2 DEF Freed, Gone
    <3>4. Freed(w, S) = [w EXCEPT !.obj = A, !.posted = B]
      BY <1>1 DEF Freed, Gone, Servers
    <3>6. T = [q \in Rooms |-> [w.room[q] EXCEPT !.players = RemoveFirst(@, o)]]
      OBVIOUS
    <3> HIDE DEF A, B, T
    <3>5. f = [w EXCEPT !.obj = A, !.posted = B] /\ f.room = w.room
      BY <1>1, <3>4 DEF FreedIs, Servers
    <3> HIDE DEF f, v
    <3>7. Thin(f, Rooms, o) = [f EXCEPT !.room = T]
      BY <3>5, <3>6 DEF Thin
    <3>8. [f EXCEPT !.room = T] = [w EXCEPT !.obj = A, !.posted = B, !.room = T]
      BY <1>1, <3>5 DEF Servers
    <3>9. [z EXCEPT !.obj = A, !.posted = B] = [w EXCEPT !.obj = A, !.posted = B, !.room = T]
      BY <1>1 DEF Servers
    <3> QED
      BY <3>1, <3>3, <3>7, <3>8, <3>9
  <2> HIDE DEF v, P
  <2>4. /\ Good(f, x, Lobby) /\ Onward(w, f)
        /\ f.obj[o] = Gone(w.obj[o].user)
    <3> HIDE DEF S
    <3>1. /\ Good(FreedIs(w, S, P), x, Lobby) /\ Onward(w, FreedIs(w, S, P))
          /\ \A q \in Objs : FreedIs(w, S, P).obj[q] = IF q \in S
              THEN Gone(w.obj[q].user) ELSE w.obj[q]
      BY <1>1, <2>1, <2>2, FreedStep
    <3> QED
      BY <1>1, <3>1 DEF S
  <2> HIDE DEF f
  <2>5. f.obj[o].life = "freed" /\ ~Human(f, o)
    BY <1>4, <2>4 DEF Gone, NoObj, Human
  <2>6. Good(Thin(f, Rooms, o), x, Lobby) /\ Onward(f, Thin(f, Rooms, o))
    BY <1>1, <2>4, <2>5, ThinRobot
  <2> QED
    BY <2>3, <2>4, <2>6, OnwardTwice DEF v
<1> QED
  BY <1>3, <1>4

-----------------------------------------------------------------------------
(* The destructor of a room.                                                *)

\* What everybody but the room r can rely on while r is being deleted.
Aside(w, v, r) ==
  /\ Made(w) \subseteq Made(v)
  /\ \A o \in Made(w) : v.obj[o].user = w.obj[o].user
  /\ \A q \in Rooms :
       /\ v.room[q].refs = w.room[q].refs
       /\ q # r => /\ v.room[q].life = w.room[q].life
                   /\ v.room[q].started = w.room[q].started
                   /\ w.room[q].started = TRUE /\ HumanIn(w, q) => HumanIn(v, q)

LEMMA OnwardAside == ASSUME NEW w, NEW v, NEW r, Onward(w, v)
  PROVE  Aside(w, v, r)
  BY DEF Onward, Aside

LEMMA AsideTwice == ASSUME NEW w, NEW v, NEW z, NEW r, Aside(w, v, r), Aside(v, z, r)
  PROVE  Aside(w, z, r)
<1>1. Made(w) \subseteq Made(z) /\ \A o \in Made(w) : z.obj[o].user = w.obj[o].user
  BY DEF Aside
<1>2. \A q \in Rooms :
       /\ z.room[q].refs = w.room[q].refs
       /\ q # r => /\ z.room[q].life = w.room[q].life
                   /\ z.room[q].started = w.room[q].started
                   /\ w.room[q].started = TRUE /\ HumanIn(w, q) => HumanIn(z, q)
  BY DEF Aside
<1> QED
  BY <1>1, <1>2 DEF Aside

\* The states that ~Room goes through.
Kept(w, r) ==
  {v \in Servers : /\ Good(v, r, Lobby) /\ Aside(w, v, r) /\ r \notin v.rooms
                   /\ v.room[r].life = "live"}

LEMMA QuietKept ==
  ASSUME NEW w, NEW r \in Rooms, NEW v \in Kept(w, r), NEW z, Quiet(v, z)
  PROVE  z \in Kept(w, r)
<1>1. v \in Servers /\ Good(v, r, Lobby) /\ Aside(w, v, r) /\ r \notin v.rooms
      /\ v.room[r].life = "live"
  BY DEF Kept
<1>2. Good(z, r, Lobby) /\ Onward(v, z)
  BY <1>1, QuietStep
<1>3. Aside(w, z, r)
  BY <1>1, <1>2, OnwardAside, AsideTwice
<1>4. z \in Servers /\ z.rooms = v.rooms /\ z.room[r].life = v.room[r].life
  BY DEF Quiet, SameRoom
<1> QED
  BY <1>1, <1>2, <1>3, <1>4 DEF Kept

\* A loop that keeps W ends in W.
Keeps(g, W, F, w, n, s) ==
  g[0] = w /\ \A i \in 1..n : g[i - 1] \in W => g[i] = F[<<g[i - 1], s[i]>>]

LEMMA LoopEnds ==
  ASSUME NEW W, NEW O, NEW F \in [W \X O -> W], NEW w \in W, NEW n \in Nat,
         NEW s \in [1..n -> O], NEW g, Keeps(g, W, F, w, n, s)
  PROVE  g[n] \in W
<1> DEFINE T == {i \in 0..n : g[i] \in W}
<1>0. g[0] = w /\ \A i \in 1..n : g[i - 1] \in W => g[i] = F[<<g[i - 1], s[i]>>]
  BY DEF Keeps
<1>1. 0 \in T
  BY <1>0
<1>2. ASSUME NEW i \in 1..n, i - 1 \in T PROVE i \in T
  <2>1. g[i - 1] \in W /\ s[i] \in O
    BY <1>2
  <2>2. F[<<g[i - 1], s[i]>>] \in W
    BY <2>1
  <2> QED
    BY <1>0, <2>1, <2>2
<1> HIDE DEF T
<1>3. \A k \in 0..n : k \in T
  BY <1>1, <1>2, Steps
<1>4. n \in 0..n
  OBVIOUS
<1> QED
  BY <1>3, <1>4 DEF T

LEMMA DismissKept ==
  ASSUME NEW w, NEW r \in Rooms, NEW z \in Kept(w, r), NEW s \in Seq(Made(w))
  PROVE  Dismiss(z, s) \in Kept(w, r)
<1> DEFINE W == Kept(w, r)
           O == Made(w)
           n == Len(s)
           end(v, o) == LET v1 == IF Banned(v, o)
                                  THEN Kick(v, v.players[v.obj[o].user], FALSE) ELSE v
                        IN IF v.obj[o].state # "Online" THEN DeleteLater(v1, o) ELSE v1
           F == [p \in W \X O |-> end(p[1], p[2])]
           after[i \in 0..Len(s)] == IF i = 0 THEN z ELSE end(after[i - 1], s[i])
<1>1. ASSUME NEW v \in W, NEW o \in O PROVE end(v, o) \in W
  <2> DEFINE v1 == IF Banned(v, o) THEN Kick(v, v.players[v.obj[o].user], FALSE) ELSE v
  <2>1. v \in Servers /\ Sessions(v) /\ Aside(w, v, r)
    BY DEF Kept, Good
  <2>2. o \in Made(v) /\ o \in Objs
    BY <2>1, MadeObjs DEF Aside
  <2>3. v1 \in W
    <3>1. CASE Banned(v, o)
      <4> DEFINE p == v.players[v.obj[o].user]
      <4>1. p # Nobody /\ v.obj[o].user \in Users
        BY <2>1, <2>2, <3>1, GoodTypes DEF Banned, Human
      <4>2. p \in Objs /\ v.obj[p].user = v.obj[o].user /\ v.obj[p].life = "live"
        BY <2>1, <4>1, GoodTypes DEF Sessions, Accounts
      <4>3. p \in Made(v) /\ Human(v, p)
        BY <2>1, <4>1, <4>2, LifecycleConstants DEF Sessions, Unmade, Human
      <4> HIDE DEF p
      <4>4. Quiet(v, Kick(v, p, FALSE))
        BY <2>1, <4>3, KickQuiet
      <4>5. Kick(v, p, FALSE) \in W
        BY <4>4, QuietKept
      <4> QED
        BY <3>1, <4>5 DEF p
    <3> QED
      BY <3>1
  <2> HIDE DEF v1
  <2>4. v1 \in Servers /\ o \in Made(v1)
    BY <2>3 DEF Kept, Aside
  <2>5. Quiet(v1, DeleteLater(v1, o))
    BY <2>4, DeleteLaterQuiet
  <2>6. DeleteLater(v1, o) \in W
    BY <2>3, <2>5, QuietKept
  <2> QED
    BY <2>3, <2>6 DEF v1
<1>2. n \in Nat /\ s \in [1..n -> O] /\ z \in W
  OBVIOUS
<1>3. F \in [W \X O -> W]
  <2> HIDE DEF end, W, O
  <2> QED
    BY <1>1
<1>4. \A v \in W, o \in O : F[<<v, o>>] = end(v, o)
  <2> HIDE DEF end, W, O
  <2> QED
    OBVIOUS
<1> HIDE DEF F, W, O, n
<1>5. PICK g \in [0..n -> W] : Results(g, F, z, n, s)
  BY <1>2, <1>3, LoopExists
<1>6. g = [i \in 0..n |-> IF i = 0 THEN z ELSE end(g[i - 1], s[i])]
  <2>1. ASSUME NEW i \in 1..n PROVE g[i] = end(g[i - 1], s[i])
    <3>1. g[i - 1] \in W /\ s[i] \in O
      BY <1>2
    <3> HIDE DEF end
    <3> QED
      BY <3>1, <1>4, <1>5 DEF Results
  <2> HIDE DEF end
  <2> QED
    BY <2>1, <1>2, <1>5 DEF Results
<1>7. after = [i \in 0..Len(s) |-> IF i = 0 THEN z ELSE end(after[i - 1], s[i])]
  <2> HIDE DEF end
  <2> QED
    BY <1>6 DEF n
<1>8. Dismiss(z, s) = after[n]
  BY DEF Dismiss, InTurn, n
<1> HIDE DEF after
<1>9. after[0] = z /\ \A i \in 1..n : after[i] = end(after[i - 1], s[i])
  <2> HIDE DEF end
  <2>1. after[0] = z
    BY <1>2, <1>7 DEF n
  <2>2. ASSUME NEW i \in 1..n PROVE after[i] = end(after[i - 1], s[i])
    <3>1. i \in 0..Len(s) /\ i # 0
      BY <1>2 DEF n
    <3> QED
      BY <1>7, <3>1
  <2> QED
    BY <2>1, <2>2
<1>10. \A i \in 1..n : after[i - 1] \in W => after[i] = F[<<after[i - 1], s[i]>>]
  <2> HIDE DEF end
  <2> QED
    BY <1>2, <1>4, <1>9
<1>11. after[n] \in W
  <2>1. Keeps(after, W, F, z, n, s)
    BY <1>9, <1>10 DEF Keeps
  <2> QED
    BY <1>2, <1>3, <2>1, LoopEnds
<1> QED
  BY <1>8, <1>11 DEF W

LEMMA TurnOutKept ==
  ASSUME NEW w, NEW r \in Rooms, NEW z \in Kept(w, r), NEW s \in Seq(Made(w))
  PROVE  TurnOut(z, r, s) \in Kept(w, r)
<1> DEFINE W == Kept(w, r)
           O == Made(w)
           n == Len(s)
           out(v, o) == IF Human(v, o) THEN Leave(v, r, o, FALSE, FALSE) ELSE v
           F == [p \in W \X O |-> out(p[1], p[2])]
           after[i \in 0..Len(s)] == IF i = 0 THEN z ELSE out(after[i - 1], s[i])
<1>1. ASSUME NEW v \in W, NEW o \in O PROVE out(v, o) \in W
  <2> DEFINE f == FALSE
             y == Leave(v, r, o, f, f)
  <2>1. /\ v \in Servers /\ Good(v, r, Lobby) /\ Aside(w, v, r) /\ r \notin v.rooms
        /\ v.room[r].life = "live"
    BY DEF Kept
  <2>2. o \in Made(v)
    BY <2>1 DEF Aside
  <2>3. out(v, o) = v \/ out(v, o) = y
    OBVIOUS
  <2> HIDE DEF f, out
  <2>4. Good(y, r, Lobby) /\ Onward(v, y) /\ y.rooms \subseteq v.rooms
    BY <2>1, <2>2, LeaveStep
  <2> HIDE DEF y
  <2>5. Aside(w, y, r) /\ y.room[r].life = "live" /\ y \in Servers
    BY <2>1, <2>4, OnwardAside, AsideTwice DEF Onward, Good
  <2>6. y \in W
    BY <2>1, <2>4, <2>5 DEF Kept
  <2> QED
    BY <2>3, <2>6
<1>2. n \in Nat /\ s \in [1..n -> O] /\ z \in W
  OBVIOUS
<1>3. F \in [W \X O -> W]
  <2> HIDE DEF out, W, O
  <2> QED
    BY <1>1
<1>4. \A v \in W, o \in O : F[<<v, o>>] = out(v, o)
  <2> HIDE DEF out, W, O
  <2> QED
    OBVIOUS
<1> HIDE DEF F, W, O, n
<1>5. PICK g \in [0..n -> W] : Results(g, F, z, n, s)
  BY <1>2, <1>3, LoopExists
<1>6. g = [i \in 0..n |-> IF i = 0 THEN z ELSE out(g[i - 1], s[i])]
  <2>1. ASSUME NEW i \in 1..n PROVE g[i] = out(g[i - 1], s[i])
    <3>1. g[i - 1] \in W /\ s[i] \in O
      BY <1>2
    <3> HIDE DEF out
    <3> QED
      BY <3>1, <1>4, <1>5 DEF Results
  <2> HIDE DEF out
  <2> QED
    BY <2>1, <1>2, <1>5 DEF Results
<1>7. after = [i \in 0..Len(s) |-> IF i = 0 THEN z ELSE out(after[i - 1], s[i])]
  <2> HIDE DEF out
  <2> QED
    BY <1>6 DEF n
<1>8. TurnOut(z, r, s) = after[n]
  BY DEF TurnOut, InTurn, n
<1> HIDE DEF after
<1>9. after[0] = z /\ \A i \in 1..n : after[i] = out(after[i - 1], s[i])
  <2> HIDE DEF out
  <2>1. after[0] = z
    BY <1>2, <1>7 DEF n
  <2>2. ASSUME NEW i \in 1..n PROVE after[i] = out(after[i - 1], s[i])
    <3>1. i \in 0..Len(s) /\ i # 0
      BY <1>2 DEF n
    <3> QED
      BY <1>7, <3>1
  <2> QED
    BY <2>1, <2>2
<1>10. \A i \in 1..n : after[i - 1] \in W => after[i] = F[<<after[i - 1], s[i]>>]
  <2> HIDE DEF out
  <2> QED
    BY <1>2, <1>4, <1>9
<1>11. after[n] \in W
  <2>1. Keeps(after, W, F, z, n, s)
    BY <1>9, <1>10 DEF Keeps
  <2> QED
    BY <1>2, <1>3, <2>1, LoopEnds
<1> QED
  BY <1>8, <1>11 DEF W

LEMMA LetGoKept ==
  ASSUME NEW w, NEW r \in Rooms, NEW z \in Kept(w, r), NEW s \in Seq(Made(w))
  PROVE  LetGo(z, r, s) \in Kept(w, r)
<1> DEFINE W == Kept(w, r)
           O == Made(w)
           n == Len(s)
           quit(v, o) == RemoveObserver(v, r, o)
           F == [p \in W \X O |-> quit(p[1], p[2])]
           after[i \in 0..Len(s)] == IF i = 0 THEN z ELSE quit(after[i - 1], s[i])
<1>1. ASSUME NEW v \in W, NEW o \in O PROVE quit(v, o) \in W
  <2>1. v \in Servers /\ o \in Made(v)
    BY DEF Kept, Aside
  <2>2. Quiet(v, RemoveObserver(v, r, o))
    BY <2>1, RemoveObserverQuiet
  <2> QED
    BY <2>2, QuietKept
<1>2. n \in Nat /\ s \in [1..n -> O] /\ z \in W
  OBVIOUS
<1>3. F \in [W \X O -> W]
  <2> HIDE DEF quit, W, O
  <2> QED
    BY <1>1
<1>4. \A v \in W, o \in O : F[<<v, o>>] = quit(v, o)
  <2> HIDE DEF quit, W, O
  <2> QED
    OBVIOUS
<1> HIDE DEF F, W, O, n
<1>5. PICK g \in [0..n -> W] : Results(g, F, z, n, s)
  BY <1>2, <1>3, LoopExists
<1>6. g = [i \in 0..n |-> IF i = 0 THEN z ELSE quit(g[i - 1], s[i])]
  <2>1. ASSUME NEW i \in 1..n PROVE g[i] = quit(g[i - 1], s[i])
    <3>1. g[i - 1] \in W /\ s[i] \in O
      BY <1>2
    <3> HIDE DEF quit
    <3> QED
      BY <3>1, <1>4, <1>5 DEF Results
  <2> HIDE DEF quit
  <2> QED
    BY <2>1, <1>2, <1>5 DEF Results
<1>7. after = [i \in 0..Len(s) |-> IF i = 0 THEN z ELSE quit(after[i - 1], s[i])]
  <2> HIDE DEF quit
  <2> QED
    BY <1>6 DEF n
<1>8. LetGo(z, r, s) = after[n]
  BY DEF LetGo, InTurn, n
<1> HIDE DEF after
<1>9. after[0] = z /\ \A i \in 1..n : after[i] = quit(after[i - 1], s[i])
  <2> HIDE DEF quit
  <2>1. after[0] = z
    BY <1>2, <1>7 DEF n
  <2>2. ASSUME NEW i \in 1..n PROVE after[i] = quit(after[i - 1], s[i])
    <3>1. i \in 0..Len(s) /\ i # 0
      BY <1>2 DEF n
    <3> QED
      BY <1>7, <3>1
  <2> QED
    BY <2>1, <2>2
<1>10. \A i \in 1..n : after[i - 1] \in W => after[i] = F[<<after[i - 1], s[i]>>]
  <2> HIDE DEF quit
  <2> QED
    BY <1>2, <1>4, <1>9
<1>11. after[n] \in W
  <2>1. Keeps(after, W, F, z, n, s)
    BY <1>9, <1>10 DEF Keeps
  <2> QED
    BY <1>2, <1>3, <2>1, LoopEnds
<1> QED
  BY <1>8, <1>11 DEF W

LEMMA DeleteAllQuiet ==
  ASSUME NEW z \in Servers, NEW s \in Seq(Made(z))
  PROVE  Quiet(z, DeleteAll(z, s))
<1> DEFINE W == {v \in Servers : Quiet(z, v)}
           O == Made(z)
           n == Len(s)
           del(v, o) == DeleteLater(v, o)
           F == [p \in W \X O |-> del(p[1], p[2])]
           after[i \in 0..Len(s)] == IF i = 0 THEN z ELSE del(after[i - 1], s[i])
<1>1. ASSUME NEW v \in W, NEW o \in O PROVE del(v, o) \in W
  <2>1. v \in Servers /\ o \in Made(v)
    BY DEF Quiet, Made
  <2>2. Quiet(v, DeleteLater(v, o))
    BY <2>1, DeleteLaterQuiet
  <2>3. Quiet(z, DeleteLater(v, o))
    BY <2>2, QuietTwice
  <2> QED
    BY <2>3 DEF Quiet
<1>2. n \in Nat /\ s \in [1..n -> O] /\ z \in W
  BY QuietSelf
<1>3. F \in [W \X O -> W]
  <2> HIDE DEF del, W, O
  <2> QED
    BY <1>1
<1>4. \A v \in W, o \in O : F[<<v, o>>] = del(v, o)
  <2> HIDE DEF del, W, O
  <2> QED
    OBVIOUS
<1> HIDE DEF F, W, O, n
<1>5. PICK g \in [0..n -> W] : Results(g, F, z, n, s)
  BY <1>2, <1>3, LoopExists
<1>6. g = [i \in 0..n |-> IF i = 0 THEN z ELSE del(g[i - 1], s[i])]
  <2>1. ASSUME NEW i \in 1..n PROVE g[i] = del(g[i - 1], s[i])
    <3>1. g[i - 1] \in W /\ s[i] \in O
      BY <1>2
    <3> HIDE DEF del
    <3> QED
      BY <3>1, <1>4, <1>5 DEF Results
  <2> HIDE DEF del
  <2> QED
    BY <2>1, <1>2, <1>5 DEF Results
<1>7. after = [i \in 0..Len(s) |-> IF i = 0 THEN z ELSE del(after[i - 1], s[i])]
  <2> HIDE DEF del
  <2> QED
    BY <1>6 DEF n
<1>8. DeleteAll(z, s) = after[n]
  BY DEF DeleteAll, InTurn, n
<1> HIDE DEF after
<1>9. after[0] = z /\ \A i \in 1..n : after[i] = del(after[i - 1], s[i])
  <2> HIDE DEF del
  <2>1. after[0] = z
    BY <1>2, <1>7 DEF n
  <2>2. ASSUME NEW i \in 1..n PROVE after[i] = del(after[i - 1], s[i])
    <3>1. i \in 0..Len(s) /\ i # 0
      BY <1>2 DEF n
    <3> QED
      BY <1>7, <3>1
  <2> QED
    BY <2>1, <2>2
<1>10. \A i \in 1..n : after[i - 1] \in W => after[i] = F[<<after[i - 1], s[i]>>]
  <2> HIDE DEF del
  <2> QED
    BY <1>2, <1>4, <1>9
<1>11. after[n] \in W
  <2>1. Keeps(after, W, F, z, n, s)
    BY <1>9, <1>10 DEF Keeps
  <2> QED
    BY <1>2, <1>3, <2>1, LoopEnds
<1> QED
  BY <1>8, <1>11 DEF W

\* A game ends: the room is as it was, but not started.
LEMMA EndedStep ==
  ASSUME NEW w, NEW x, NEW y, Good(w, x, y), NEW r \in Rooms
  PROVE  LET v == Ended(w, r) IN
         /\ Good(v, x, y) /\ Aside(w, v, r)
         /\ v.made = w.made /\ v.rooms = w.rooms /\ v.room[r].life = w.room[r].life
         /\ v.room[r].players = w.room[r].players /\ v.obj = w.obj
         /\ v.room[r].refs = w.room[r].refs
<1> DEFINE R == [w.room[r] EXCEPT !.insideGameOver = TRUE, !.started = FALSE]
           v == Ended(w, r)
<1>1. w \in Servers /\ Sessions(w) /\ Households(w, x, y)
  BY DEF Good
<1>2. w.room[r] \in RoomState
  BY <1>1, GoodTypes
<1>3. v.room = [w.room EXCEPT ![r] = R]
  BY <1>1 DEF Ended, Servers
<1>4. v = [w EXCEPT !.room = [w.room EXCEPT ![r] = R]]
  BY <1>1 DEF Ended, Servers
<1>5. /\ R \in RoomState /\ R.players = w.room[r].players /\ R.owner = w.room[r].owner
      /\ R.started = FALSE /\ R.abandoned = w.room[r].abandoned
      /\ R.refs = w.room[r].refs /\ R.life = w.room[r].life
      /\ R.observers = w.room[r].observers /\ R.rejected = w.room[r].rejected
  BY <1>2 DEF RoomState
<1> HIDE DEF R, v
<1>6. [w.room EXCEPT ![r] = R] \in [Rooms -> RoomState]
  BY <1>1, <1>5 DEF Servers
<1>7. v \in Servers
  BY <1>1, <1>4, <1>6 DEF Servers
<1>8. /\ v.made = w.made /\ v.rooms = w.rooms /\ v.obj = w.obj /\ v.players = w.players
      /\ v.posted = w.posted /\ v.lobby = w.lobby
  BY <1>1, <1>4 DEF Servers
<1>9. \A q \in Rooms : v.room[q] = IF q = r THEN R ELSE w.room[q]
  BY <1>1, <1>3 DEF Servers
<1>10. Made(v) = Made(w) /\ Posts(v) = Posts(w)
  BY <1>8 DEF Made, Posts
<1>11. \A q \in Rooms :
              /\ q # r => v.room[q] = w.room[q]
              /\ v.room[q].owner = w.room[q].owner
              /\ v.room[q].abandoned = w.room[q].abandoned
              /\ v.room[q].started = w.room[q].started \/ v.room[q].started = FALSE
              /\ v.room[q].refs = w.room[q].refs /\ v.room[q].life = w.room[q].life
              /\ v.room[q].players = w.room[q].players
              /\ v.room[q].observers = w.room[q].observers
              /\ v.room[q].rejected = w.room[q].rejected
  BY <1>5, <1>9
<1>12. Sessions(v)
  <2>1. Accounts(v) /\ Sockets(v) /\ Unmade(v) /\ RobotsStay(v)
    BY <1>1, <1>8, <1>10 DEF Sessions, Accounts, Sockets, Unmade, RobotsStay, Human
  <2>2. Posted(v)
    BY <1>1, <1>8, <1>10 DEF Sessions, Posted, Human
  <2>3. Seated(v)
    BY <1>1, <1>10, <1>11 DEF Sessions, Seated
  <2> QED
    BY <2>1, <2>2, <2>3 DEF Sessions
<1>13. \A q \in Rooms : HumanIn(v, q) <=> HumanIn(w, q)
  BY <1>8, <1>11 DEF HumanIn, Human
<1>14. Households(v, x, y)
  <2>0. w.rooms \subseteq Rooms /\ \A q \in Objs : w.obj[q].room \in Rooms \cup {Lobby}
    BY <1>1, GoodTypes
  <2>1. Places(v)
    BY <1>1, <1>8, <1>11, <2>0 DEF Households, Places
  <2>2. Empty(v)
    BY <1>1, <1>11 DEF Households, Empty
  <2>3. Found(v, y)
    BY <1>1, <1>8, <1>11, <1>13, <2>0 DEF Households, Found
  <2>4. Leaving(v) /\ Left(v, x)
    BY <1>1, <1>10, <1>11 DEF Households, Leaving, Left
  <2>5. Owned(v, y)
    BY <1>1, <1>8, <1>11 DEF Households, Owned, Human
  <2> QED
    BY <2>1, <2>2, <2>3, <2>4, <2>5 DEF Households
<1>15. Aside(w, v, r)
  BY <1>8, <1>10, <1>11, <1>13 DEF Aside
<1> QED
  BY <1>7, <1>8, <1>11, <1>12, <1>14, <1>15 DEF Good, v

SetInside(w, r, b) == [w EXCEPT !.room[r].insideGameOver = b]

LEMMA InsideQuiet ==
  ASSUME NEW w \in Servers, NEW r \in Rooms, NEW b \in {TRUE, FALSE}
  PROVE  Quiet(w, SetInside(w, r, b))
<1> DEFINE R == [w.room[r] EXCEPT !.insideGameOver = b]
           v == SetInside(w, r, b)
<1>1. w.room[r] \in RoomState
  BY GoodTypes
<1>2. v.room = [w.room EXCEPT ![r] = R]
  BY DEF SetInside, Servers
<1>3. v = [w EXCEPT !.room = [w.room EXCEPT ![r] = R]]
  BY DEF SetInside, Servers
<1>4. R \in RoomState /\ SameRoom(w.room[r], R)
  BY <1>1 DEF RoomState, SameRoom
<1> HIDE DEF R, v
<1>5. [w.room EXCEPT ![r] = R] \in [Rooms -> RoomState]
  BY <1>4 DEF Servers
<1>6. v \in Servers
  BY <1>3, <1>5 DEF Servers
<1>7. /\ v.made = w.made /\ v.rooms = w.rooms /\ v.obj = w.obj /\ v.players = w.players
      /\ v.posted = w.posted /\ v.lobby = w.lobby
  BY <1>3 DEF Servers
<1>8. \A q \in Rooms : v.room[q] = IF q = r THEN R ELSE w.room[q]
  BY <1>2 DEF Servers
<1>9. \A q \in Rooms : SameRoom(w.room[q], v.room[q])
  BY <1>4, <1>8 DEF SameRoom
<1>10. \A q \in Objs : SamePlayer(w, v, q)
  BY <1>7 DEF SamePlayer
<1>11. Added(w, v)
  BY <1>7 DEF Added, Posts
<1> QED
  BY <1>6, <1>7, <1>9, <1>10, <1>11 DEF Quiet, v

Ruin(n) == [NoRoom EXCEPT !.refs = n, !.abandoned = TRUE, !.life = "freed"]
Razed(w, r, n) ==
  [w EXCEPT !.room[r] = Ruin(n), !.posted = Without(@, {Given(r)})]

LEMMA RazedStep ==
  ASSUME NEW w, NEW r \in Rooms, Good(w, r, Lobby), r \notin w.rooms, NEW n,
         n = w.room[r].refs
  PROVE  LET v == Razed(w, r, n) IN
         /\ Good(v, Lobby, Lobby) /\ Aside(w, v, r) /\ v.room[r].life = "freed"
<1> DEFINE R == Ruin(n)
           D == {Given(r)}
           l == Without(w.posted, D)
           v == Razed(w, r, n)
<1>1. w \in Servers /\ Sessions(w) /\ Households(w, r, Lobby) /\ Lobby \notin Rooms
  BY MadeObjs DEF Good
<1>2. w.room[r] \in RoomState /\ n \in Int
  BY <1>1, GoodTypes DEF RoomState
<1>3. /\ R \in RoomState /\ R.players = <<>> /\ R.owner = Nobody
      /\ R.started = FALSE /\ R.abandoned = TRUE
      /\ R.refs = w.room[r].refs /\ R.life = "freed"
      /\ R.observers = <<>> /\ R.rejected = {}
  <2>1. /\ R.players = <<>> /\ R.owner = Nobody
        /\ R.started = FALSE /\ R.abandoned = TRUE
        /\ R.refs = n /\ R.life = "freed"
        /\ R.observers = <<>> /\ R.rejected = {}
    BY DEF Ruin, NoRoom
  <2>2. NoRoom \in RoomState
    BY DEF NoRoom, RoomState
  <2>3. R \in RoomState
    BY <1>2, <2>2 DEF Ruin, RoomState
  <2> QED
    BY <2>1, <2>3
<1>4. l \in Seq(Event) /\ ToSet(l) = Posts(w) \ D
  <2>1. w.posted \in Seq(Event)
    BY <1>1, GoodTypes
  <2> HIDE DEF D
  <2> QED
    BY <2>1, WithoutSet DEF Posts
<1>5. v = [w EXCEPT !.room = [w.room EXCEPT ![r] = R], !.posted = l]
  BY <1>1 DEF Razed, Servers
<1> HIDE DEF R, v, l
<1>6. [w.room EXCEPT ![r] = R] \in [Rooms -> RoomState]
  BY <1>1, <1>3 DEF Servers
<1>7. v \in Servers
  BY <1>1, <1>4, <1>5, <1>6 DEF Servers
<1>8. /\ v.made = w.made /\ v.rooms = w.rooms /\ v.obj = w.obj /\ v.players = w.players
      /\ v.posted = l /\ v.lobby = w.lobby
  BY <1>1, <1>5 DEF Servers
<1>9. \A q \in Rooms : v.room[q] = IF q = r THEN R ELSE w.room[q]
  BY <1>1, <1>5 DEF Servers
<1>10. Made(v) = Made(w) /\ Posts(v) = Posts(w) \ D
  BY <1>4, <1>8 DEF Made, Posts
<1>11. \A q \in Rooms : Given(q) \in Posts(v) <=> Given(q) \in Posts(w) /\ q # r
  <2>1. \A q \in Rooms : Given(q) = Given(r) <=> q = r
    BY DEF Given
  <2> QED
    BY <1>10, <2>1
<1>12. \A q \in Rooms : q # r => v.room[q] = w.room[q]
  BY <1>9
<1>13. v.room[r] = R
  BY <1>9
<1>14. Sessions(v)
  <2>1. Accounts(v) /\ Sockets(v) /\ Unmade(v) /\ RobotsStay(v)
    BY <1>1, <1>8, <1>10 DEF Sessions, Accounts, Sockets, Unmade, RobotsStay, Human
  <2>2. Posted(v)
    BY <1>1, <1>8, <1>10 DEF Sessions, Posted, Human
  <2>3. Seated(v)
    <3>1. ToSet(<<>>) = {}
      BY DEF ToSet
    <3> QED
      BY <1>1, <1>3, <1>10, <1>12, <1>13, <3>1 DEF Sessions, Seated
  <2> QED
    BY <2>1, <2>2, <2>3 DEF Sessions
<1>15. \A q \in Rooms : q # r => (HumanIn(v, q) <=> HumanIn(w, q))
  BY <1>8, <1>12 DEF HumanIn, Human
<1>16. Households(v, Lobby, Lobby)
  <2>0. w.rooms \subseteq Rooms /\ \A q \in Objs : w.obj[q].room \in Rooms \cup {Lobby}
    BY <1>1, GoodTypes
  <2>1. Places(v)
    BY <1>1, <1>3, <1>8, <1>12, <1>13, <2>0 DEF Households, Places
  <2>2. Empty(v)
    BY <1>1, <1>3, <1>12, <1>13 DEF Households, Empty
  <2>3. Found(v, Lobby)
    BY <1>1, <1>8, <1>12, <1>15, <2>0 DEF Households, Found
  <2>4. Leaving(v) /\ Left(v, Lobby)
    BY <1>1, <1>3, <1>11, <1>12, <1>13 DEF Households, Leaving, Left
  <2>5. Owned(v, Lobby)
    BY <1>1, <1>3, <1>8, <1>12, <1>13 DEF Households, Owned, Human
  <2> QED
    BY <2>1, <2>2, <2>3, <2>4, <2>5 DEF Households
<1>17. Aside(w, v, r)
  BY <1>3, <1>8, <1>10, <1>12, <1>13, <1>15 DEF Aside
<1> QED
  BY <1>3, <1>7, <1>13, <1>14, <1>16, <1>17 DEF Good, v

LEMMA SeqIn == ASSUME NEW S, NEW s \in Seq(S), NEW T, ToSet(s) \subseteq T
  PROVE  s \in Seq(T)
<1>1. Len(s) \in Nat /\ s \in [1..Len(s) -> S]
  OBVIOUS
<1>2. \A i \in 1..Len(s) : s[i] \in T
  BY ToSetDef
<1>3. s = [i \in 1..Len(s) |-> s[i]]
  BY <1>1
<1>4. [i \in 1..Len(s) |-> s[i]] \in Seq(T)
  BY <1>1, <1>2
<1> QED
  BY <1>3, <1>4

LEMMA FreedSame == ASSUME NEW w \in Servers, NEW S
  PROVE  Freed(w, S) = FreedIs(w, S, w.players)
<1> DEFINE A == [q \in Objs |-> IF q \in S THEN Gone(w.obj[q].user) ELSE w.obj[q]]
           B == Without(w.posted, [do : {"kick", "delete"}, of : S])
<1>1. Freed(w, S) = [w EXCEPT !.obj = A, !.posted = B]
  BY DEF Freed, Gone, Servers
<1> HIDE DEF A, B
<1>2. [Freed(w, S) EXCEPT !.players = w.players] = Freed(w, S)
  BY <1>1 DEF Servers
<1> QED
  BY <1>2 DEF FreedIs

LEMMA DestroyRoomStep ==
  ASSUME NEW w, NEW r \in Rooms, Good(w, r, Lobby), w.room[r].life = "live",
         w.room[r].abandoned = TRUE
  PROVE  LET v == DestroyRoom(w, r) IN
         /\ Good(v, Lobby, Lobby) /\ Aside(w, v, r) /\ v.room[r].life = "freed"
<1> DEFINE S == w.room[r].players
           e == Ended(w, r)
           d == Dismiss(e, S)
           w1 == IF ~w.room[r].started THEN w ELSE SetInside(d, r, FALSE)
           t == TurnOut(w1, r, S)
           Q == w.room[r].observers
           w2 == LetGo(t, r, Q)
           bots == {o \in Objs : ~Human(w, o) /\ w.obj[o].room = r}
           w3 == Freed(w2, bots)
           n == w.room[r].refs
           v == DestroyRoom(w, r)
<1>1. w \in Servers /\ Sessions(w) /\ Households(w, r, Lobby) /\ Lobby \notin Rooms
  BY MadeObjs DEF Good
<1>2. S \in Seq(Made(w)) /\ Q \in Seq(Made(w))
  <2>1. S \in Seq(Objs) /\ Q \in Seq(Objs)
    BY <1>1, GoodTypes
  <2>2. ToSet(S) \subseteq Made(w) /\ ToSet(Q) \subseteq Made(w)
    BY <1>1 DEF Sessions, Seated
  <2> HIDE DEF S, Q
  <2> QED
    BY <2>1, <2>2, SeqIn
<1>3. r \notin w.rooms
  BY <1>1 DEF Households, Found
<1>4. w \in Kept(w, r)
  BY <1>1, <1>3, OnwardSelf, OnwardAside DEF Kept
<1>5. v = Razed(w3, r, n)
  <2>1. w1 = IF ~w.room[r].started THEN w ELSE [d EXCEPT !.room[r].insideGameOver = FALSE]
    BY DEF SetInside
  <2> HIDE DEF w1
  <2> QED
    BY <2>1 DEF DestroyRoom, Razed, Ruin, Given
<1> HIDE DEF S, Q, v, n
<1>6. w1 \in Kept(w, r)
  <2>1. e \in Kept(w, r)
    <3>1. Good(Ended(w, r), r, Lobby) /\ Aside(w, Ended(w, r), r)
          /\ Ended(w, r).rooms = w.rooms /\ Ended(w, r).room[r].life = w.room[r].life
      BY EndedStep
    <3> QED
      BY <1>3, <3>1 DEF Kept, Good
  <2> HIDE DEF e
  <2>2. d \in Kept(w, r)
    BY <1>2, <2>1, DismissKept
  <2> HIDE DEF d
  <2>3. Quiet(d, SetInside(d, r, FALSE))
    BY <2>2, InsideQuiet DEF Kept
  <2>4. SetInside(d, r, FALSE) \in Kept(w, r)
    BY <2>2, <2>3, QuietKept
  <2> QED
    BY <1>4, <2>4
<1> HIDE DEF w1
<1>7. t \in Kept(w, r)
  BY <1>2, <1>6, TurnOutKept
<1> HIDE DEF t
<1>8. w2 \in Kept(w, r)
  BY <1>2, <1>7, LetGoKept
<1> HIDE DEF w2
<1>9. w2 \in Servers /\ Good(w2, r, Lobby) /\ Aside(w, w2, r) /\ r \notin w2.rooms
  BY <1>8 DEF Kept
<1>10. bots \in SUBSET Made(w2)
  <2>1. \A o \in Objs : o \notin Made(w) => w.obj[o].room = Lobby
    BY <1>1 DEF Sessions, Unmade
  <2> QED
    BY <1>1, <1>9, <2>1 DEF Aside
<1>11. \A o \in bots : ~Human(w2, o)
  <2>1. bots \subseteq Made(w)
    BY <1>1 DEF Sessions, Unmade
  <2> QED
    BY <1>9, <2>1 DEF Aside, Human
<1> HIDE DEF bots
<1> DEFINE P == w2.players
<1>12. P \in [Users -> Objs \cup {Nobody}]
  BY <1>9 DEF Servers
<1>13. \A a \in Users : \/ P[a] = w2.players[a] /\ P[a] \notin bots
                        \/ /\ P[a] = Nobody
                           /\ \A q \in Objs : q \notin bots /\ w2.obj[q].user = a =>
                                w2.obj[q].socket = "none"
  <2> SUFFICES ASSUME NEW a \in Users, w2.players[a] \in bots PROVE FALSE
    OBVIOUS
  <2>1. w2.players[a] # Nobody
    BY <1>9, <1>10, MadeObjs
  <2>2. w2.obj[w2.players[a]].user = a
    BY <1>9, <2>1 DEF Good, Sessions, Accounts
  <2> QED
    BY <1>11, <2>2, LifecycleConstants DEF Human
<1> HIDE DEF P, w3
<1>14. /\ Good(w3, r, Lobby) /\ Onward(w2, w3) /\ w3.rooms = w2.rooms
  <2>1. w3 = FreedIs(w2, bots, P)
    BY <1>9, FreedSame DEF w3, P
  <2>2. Good(FreedIs(w2, bots, P), r, Lobby) /\ Onward(w2, FreedIs(w2, bots, P))
    BY <1>9, <1>10, <1>12, <1>13, FreedStep
  <2>3. FreedIs(w2, bots, P).rooms = w2.rooms
    BY <1>9 DEF FreedIs, Freed, Servers
  <2> QED
    BY <2>1, <2>2, <2>3
<1>15. Aside(w, w3, r)
  BY <1>9, <1>14, OnwardAside, AsideTwice
<1>16. r \notin w3.rooms /\ n = w3.room[r].refs
  BY <1>9, <1>14, <1>15 DEF Aside, n
<1>17. /\ Good(Razed(w3, r, n), Lobby, Lobby) /\ Aside(w3, Razed(w3, r, n), r)
       /\ Razed(w3, r, n).room[r].life = "freed"
  BY <1>14, <1>16, RazedStep
<1> QED
  BY <1>5, <1>15, <1>17, AsideTwice DEF v

-----------------------------------------------------------------------------
(* The handlers of the main thread.                                         *)

\* Who an account is known by, who is connected, and who is somewhere.
LEMMA KnownPlayers ==
  ASSUME NEW w \in Servers, Sessions(w)
  PROVE  /\ \A u \in Users : w.players[u] # Nobody =>
              /\ w.players[u] \in Made(w) /\ w.players[u] \in Objs
              /\ Human(w, w.players[u]) /\ w.obj[w.players[u]].user = u
         /\ \A o \in Objs : w.obj[o].life = "live" => o \in Made(w)
         /\ \A o \in Objs : w.obj[o].socket # "none" => o \in Made(w) /\ Human(w, o)
<1>1. \A u \in Users : u # Bot /\ w.players[u] \in Objs \cup {Nobody}
  BY GoodTypes, LifecycleConstants
<1>2. \A o \in Objs : w.obj[o].life = "live" => o \in Made(w)
  BY DEF Sessions, Unmade
<1>3. \A o \in Objs : Human(w, o) => o \in Made(w)
  BY DEF Sessions, Unmade
<1> QED
  BY <1>1, <1>2, <1>3 DEF Sessions, Accounts, Sockets, Human

LEMMA LoginStep ==
  ASSUME NEW w, NEW x, Good(w, x, Lobby), NEW u \in Users, NEW b,
         w.players[u] # Nobody
  PROVE  LET o  == w.players[u]
             w1 == IF w.obj[o].state \in {"Online", "Robot"} THEN Kick(w, o, b) ELSE w
             v  == IF w1.obj[o].state = "Offline" THEN Reconnect(w1, o, b) ELSE w1
         IN Good(v, x, Lobby) /\ Onward(w, v)
<1> DEFINE o  == w.players[u]
           w1 == IF w.obj[o].state \in {"Online", "Robot"} THEN Kick(w, o, b) ELSE w
           v  == IF w1.obj[o].state = "Offline" THEN Reconnect(w1, o, b) ELSE w1
<1>1. w \in Servers /\ Sessions(w)
  BY DEF Good
<1>2. o \in Made(w) /\ o \in Objs /\ Human(w, o) /\ w.obj[o].user = u
  BY <1>1, KnownPlayers
<1>3. w.players[u] = o
  OBVIOUS
<1> HIDE DEF o
<1>4. Quiet(w, w1)
  BY <1>1, <1>2, KickQuiet, QuietSelf
<1> HIDE DEF w1
<1>5. w1 \in Servers /\ o \in Made(w1) /\ Human(w1, o) /\ w1.players[w1.obj[o].user] = o
  BY <1>2, <1>3, <1>4 DEF Quiet, SamePlayer, Made, Human
<1>6. Quiet(w1, Reconnect(w1, o, b))
  BY <1>5, ReconnectQuiet
<1>7. Quiet(w1, v)
  BY <1>5, <1>6, QuietSelf
<1> HIDE DEF v
<1>8. Quiet(w, v)
  BY <1>1, <1>4, <1>7, QuietTwice
<1> QED
  BY <1>8, QuietStep DEF v, w1, o

LEMMA DisconnectStep ==
  ASSUME NEW w, NEW x, Good(w, x, Lobby), NEW o \in Objs, w.obj[o].socket # "none"
  PROVE  LET w1 == OnDisconnected(w, o)
             v  == IF w1.obj[o].socket = "open" THEN [w1 EXCEPT !.obj[o].socket = "closed"]
                   ELSE w1
         IN Good(v, x, Lobby) /\ Onward(w, v)
<1> DEFINE w1 == OnDisconnected(w, o)
           w2 == [w1 EXCEPT !.obj[o].socket = "closed"]
           v  == IF w1.obj[o].socket = "open" THEN w2 ELSE w1
<1>1. w \in Servers /\ Sessions(w)
  BY DEF Good
<1>2. o \in Made(w) /\ Human(w, o)
  BY <1>1, KnownPlayers
<1>3. Quiet(w, w1)
  BY <1>1, <1>2, OnDisconnectedQuiet
<1> HIDE DEF w1
<1>4. w1 \in Servers
  BY <1>3 DEF Quiet
<1>5. w1.obj[o].socket = "open" => Quiet(w1, w2)
  <2>1. "closed" \in {"none", "open", "closed"}
    OBVIOUS
  <2> SUFFICES ASSUME w1.obj[o].socket = "open" PROVE Quiet(w1, w2)
    OBVIOUS
  <2>2. w1.obj[o].socket # "none"
    OBVIOUS
  <2> QED
    BY <1>4, <2>1, <2>2, SocketQuiet
<1>6. Quiet(w1, w1)
  BY <1>4, QuietSelf
<1> HIDE DEF w2
<1>7. Quiet(w1, v)
  BY <1>5, <1>6
<1> HIDE DEF v
<1>8. Quiet(w, v)
  BY <1>1, <1>3, <1>7, QuietTwice
<1> QED
  BY <1>8, QuietStep DEF v, w2, w1

\* What a room may become when only its ban list or its references change.
Amended(R, Q) ==
  /\ Q.players = R.players /\ Q.observers = R.observers /\ Q.owner = R.owner
  /\ Q.abandoned = R.abandoned /\ Q.life = R.life
  /\ R.life # "live" => Q.started = FALSE
  /\ R.life = "none" => Q.rejected = R.rejected

\* The room r of w is amended, and nothing else happens.
Amends(w, v, r) ==
  /\ v \in Servers /\ v.made = w.made /\ v.rooms = w.rooms /\ v.obj = w.obj
  /\ v.players = w.players /\ v.posted = w.posted
  /\ \A q \in Rooms : q # r => v.room[q] = w.room[q]
  /\ Amended(w.room[r], v.room[r])

LEMMA AmendIs ==
  ASSUME NEW w \in Servers, NEW r \in Rooms, NEW R \in RoomState, Amended(w.room[r], R)
  PROVE  Amends(w, SetRoom(w, r, R), r) /\ SetRoom(w, r, R).room[r] = R
<1> DEFINE v == SetRoom(w, r, R)
<1>1. v = [w EXCEPT !.room = [w.room EXCEPT ![r] = R]]
  BY DEF SetRoom, Servers
<1> HIDE DEF v
<1>2. [w.room EXCEPT ![r] = R] \in [Rooms -> RoomState]
  BY DEF Servers
<1>3. v \in Servers
  BY <1>1, <1>2 DEF Servers
<1>4. /\ v.made = w.made /\ v.rooms = w.rooms /\ v.obj = w.obj /\ v.players = w.players
      /\ v.posted = w.posted
  BY <1>1 DEF Servers
<1>5. v.room = [w.room EXCEPT ![r] = R]
  BY <1>1 DEF Servers
<1>6. \A q \in Rooms : v.room[q] = IF q = r THEN R ELSE w.room[q]
  BY <1>5 DEF Servers
<1> QED
  BY <1>3, <1>4, <1>6 DEF Amends, v

LEMMA AmendGood ==
  ASSUME NEW w, NEW v, NEW y, NEW r \in Rooms, Good(w, Lobby, y), Amends(w, v, r)
  PROVE  Good(v, r, y)
<1>1. w \in Servers /\ Sessions(w) /\ Households(w, Lobby, y) /\ Lobby \notin Rooms
  BY MadeObjs DEF Good
<1>2. /\ v.room[r].players = w.room[r].players /\ v.room[r].observers = w.room[r].observers
      /\ v.room[r].owner = w.room[r].owner
      /\ v.room[r].abandoned = w.room[r].abandoned /\ v.room[r].life = w.room[r].life
      /\ w.room[r].life # "live" => v.room[r].started = FALSE
      /\ w.room[r].life = "none" => v.room[r].rejected = w.room[r].rejected
  BY DEF Amended, Amends
<1>7. v \in Servers
  BY DEF Amends
<1>8. /\ v.made = w.made /\ v.rooms = w.rooms /\ v.obj = w.obj /\ v.players = w.players
      /\ v.posted = w.posted
  BY DEF Amends
<1>10. Made(v) = Made(w) /\ Posts(v) = Posts(w)
  BY <1>8 DEF Made, Posts
<1>11. \A q \in Rooms :
              /\ q # r => v.room[q] = w.room[q]
              /\ v.room[q].owner = w.room[q].owner
              /\ v.room[q].abandoned = w.room[q].abandoned
              /\ v.room[q].life = w.room[q].life
              /\ v.room[q].players = w.room[q].players
              /\ v.room[q].observers = w.room[q].observers
  BY <1>2 DEF Amends
<1>13. Sessions(v)
  <2>1. Accounts(v) /\ Sockets(v) /\ Unmade(v) /\ RobotsStay(v)
    BY <1>1, <1>8, <1>10 DEF Sessions, Accounts, Sockets, Unmade, RobotsStay, Human
  <2>2. Posted(v)
    BY <1>1, <1>8, <1>10 DEF Sessions, Posted, Human
  <2>3. Seated(v)
    BY <1>1, <1>10, <1>11 DEF Sessions, Seated
  <2> QED
    BY <2>1, <2>2, <2>3 DEF Sessions
<1>14. \A q \in Rooms : HumanIn(v, q) <=> HumanIn(w, q)
  BY <1>8, <1>11 DEF HumanIn, Human
<1>15. Places(v) /\ Empty(v) /\ Found(v, y) /\ Leaving(v) /\ Owned(v, y)
  <2>0. w.rooms \subseteq Rooms /\ \A q \in Objs : w.obj[q].room \in Rooms \cup {Lobby}
    BY <1>1, GoodTypes
  <2>1. Places(v)
    BY <1>1, <1>8, <1>11, <2>0 DEF Households, Places
  <2>2. Empty(v)
    BY <1>1, <1>2, <1>11 DEF Households, Empty
  <2>3. Found(v, y)
    BY <1>1, <1>8, <1>11, <1>14, <2>0 DEF Households, Found
  <2>4. Leaving(v)
    BY <1>1, <1>10, <1>11 DEF Households, Leaving
  <2>5. Owned(v, y)
    BY <1>1, <1>8, <1>11 DEF Households, Owned, Human
  <2> QED
    BY <2>1, <2>2, <2>3, <2>4, <2>5
<1>16. Left(v, r)
  BY <1>1, <1>10, <1>11 DEF Households, Left
<1> QED
  BY <1>7, <1>13, <1>15, <1>16 DEF Good, Households

\* Unless the last reference of an abandoned room is given up, the room stays
\* as good as it was.
LEMMA AmendKept ==
  ASSUME NEW w, NEW v, NEW y, NEW r \in Rooms, Good(w, Lobby, y), Amends(w, v, r),
         v.room[r].refs = w.room[r].refs \/ v.room[r].refs # 0 \/ v.room[r].abandoned = FALSE
  PROVE  Good(v, Lobby, y)
<1>1. Good(v, r, y)
  BY AmendGood
<1>2. Left(v, Lobby)
  <2>1. Posts(v) = Posts(w) /\ Lobby \notin Rooms
    BY MadeObjs DEF Posts, Amends, Good
  <2>2. /\ \A q \in Rooms : q # r => v.room[q] = w.room[q]
        /\ v.room[r].abandoned = w.room[r].abandoned /\ v.room[r].life = w.room[r].life
    BY DEF Amends, Amended
  <2> QED
    BY <2>1, <2>2 DEF Good, Households, Left
<1> QED
  BY <1>1, <1>2 DEF Good, Households

LEMMA AmendOnward ==
  ASSUME NEW w, NEW v, NEW r \in Rooms, Amends(w, v, r),
         v.room[r].refs = w.room[r].refs, v.room[r].started = w.room[r].started
  PROVE  Onward(w, v)
<1>1. /\ v.made = w.made /\ v.obj = w.obj
      /\ \A q \in Rooms : q # r => v.room[q] = w.room[q]
      /\ v.room[r].life = w.room[r].life /\ v.room[r].players = w.room[r].players
  BY DEF Amends, Amended
<1> QED
  BY <1>1 DEF Onward, Made, HumanIn, Human

LEMMA AmendAside ==
  ASSUME NEW w, NEW v, NEW r \in Rooms, Amends(w, v, r), v.room[r].refs = w.room[r].refs
  PROVE  Aside(w, v, r)
<1>1. /\ v.made = w.made /\ v.obj = w.obj
      /\ \A q \in Rooms : q # r => v.room[q] = w.room[q]
      /\ v.room[r].life = w.room[r].life /\ v.room[r].players = w.room[r].players
  BY DEF Amends, Amended
<1> QED
  BY <1>1 DEF Aside, Made, HumanIn, Human

\* Lists of who was banned.
SetRejected(w, r, X) == [w EXCEPT !.room[r].rejected = X]

LEMMA RejectStep ==
  ASSUME NEW w, Good(w, Lobby, Lobby), NEW r \in Rooms, NEW X \in SUBSET (Users \cup {Bot}),
         w.room[r].life # "none"
  PROVE  Good(SetRejected(w, r, X), Lobby, Lobby) /\ Onward(w, SetRejected(w, r, X))
<1> DEFINE R == [w.room[r] EXCEPT !.rejected = X]
           v == SetRoom(w, r, R)
<1>1. w \in Servers /\ Households(w, Lobby, Lobby)
  BY DEF Good
<1>2. w.room[r] \in RoomState
  BY <1>1, GoodTypes
<1>3. SetRejected(w, r, X) = v
  BY DEF SetRejected, SetRoom
<1>4. /\ R \in RoomState /\ R.players = w.room[r].players /\ R.owner = w.room[r].owner
      /\ R.started = w.room[r].started /\ R.abandoned = w.room[r].abandoned
      /\ R.refs = w.room[r].refs /\ R.life = w.room[r].life
      /\ R.observers = w.room[r].observers
  BY <1>2 DEF RoomState
<1> HIDE DEF R
<1>5. Amended(w.room[r], R)
  BY <1>1, <1>4 DEF Amended, Households, Empty
<1>6. Amends(w, v, r) /\ v.room[r] = R
  BY <1>1, <1>4, <1>5, AmendIs
<1> HIDE DEF v
<1>7. v.room[r].refs = w.room[r].refs /\ v.room[r].started = w.room[r].started
  BY <1>4, <1>6
<1>8. Good(v, Lobby, Lobby)
  BY <1>6, <1>7, AmendKept
<1>9. Onward(w, v)
  BY <1>6, <1>7, AmendOnward
<1> QED
  BY <1>3, <1>8, <1>9

\* Room::startGame.
Begun(w, r) == [w EXCEPT !.room[r].started = TRUE]

LEMMA BegunStep ==
  ASSUME NEW w, Good(w, Lobby, Lobby), NEW r \in Rooms, w.room[r].life = "live"
  PROVE  LET v == Begun(w, r) IN
         /\ Good(v, Lobby, Lobby) /\ Aside(w, v, r) /\ v.made = w.made
         /\ v.room[r].started = TRUE /\ v.room[r].life = "live"
<1> DEFINE R == [w.room[r] EXCEPT !.started = TRUE]
           v == SetRoom(w, r, R)
<1>1. w \in Servers /\ Households(w, Lobby, Lobby)
  BY DEF Good
<1>2. w.room[r] \in RoomState
  BY <1>1, GoodTypes
<1>3. Begun(w, r) = v
  BY DEF Begun, SetRoom
<1>4. /\ R \in RoomState /\ R.players = w.room[r].players /\ R.owner = w.room[r].owner
      /\ R.started = TRUE /\ R.abandoned = w.room[r].abandoned
      /\ R.refs = w.room[r].refs /\ R.life = w.room[r].life
      /\ R.observers = w.room[r].observers /\ R.rejected = w.room[r].rejected
  BY <1>2 DEF RoomState
<1> HIDE DEF R
<1>5. Amended(w.room[r], R)
  BY <1>4 DEF Amended
<1>6. Amends(w, v, r) /\ v.room[r] = R
  BY <1>1, <1>4, <1>5, AmendIs
<1> HIDE DEF v
<1>7. v.room[r].refs = w.room[r].refs /\ v.room[r].life = "live" /\ v.room[r].started = TRUE
      /\ v.made = w.made
  BY <1>4, <1>6 DEF Amends
<1>8. Good(v, Lobby, Lobby)
  BY <1>6, <1>7, AmendKept
<1>9. Aside(w, v, r)
  BY <1>6, <1>7, AmendAside
<1> QED
  BY <1>3, <1>7, <1>8, <1>9

-----------------------------------------------------------------------------
(* Opening, watching and closing a room.                                    *)

\* The room changes hands: to one of its players.
SetOwner(w, r, o) == [w EXCEPT !.room[r].owner = o]

LEMMA OwnerStep ==
  ASSUME NEW w, NEW x, NEW r \in Rooms, Good(w, x, r), NEW o \in ToSet(w.room[r].players),
         HumanIn(w, r)
  PROVE  Good(SetOwner(w, r, o), x, Lobby) /\ Onward(w, SetOwner(w, r, o))
<1> DEFINE R == [w.room[r] EXCEPT !.owner = o]
           z == SetRoom(w, r, R)
<1>1. w \in Servers /\ Sessions(w) /\ Households(w, x, r) /\ Lobby \notin Rooms
  BY MadeObjs DEF Good
<1>2. w.room[r] \in RoomState /\ o \in Objs
  BY <1>1, GoodTypes
<1>3. SetOwner(w, r, o) = z
  BY DEF SetOwner, SetRoom
<1> HIDE DEF z
<1>4. /\ R \in RoomState /\ R.players = w.room[r].players /\ R.started = w.room[r].started
      /\ R.refs = w.room[r].refs /\ R.life = w.room[r].life
      /\ R.observers = w.room[r].observers /\ R.rejected = w.room[r].rejected
      /\ R.abandoned = w.room[r].abandoned /\ R.owner = o
  BY <1>2 DEF RoomState
<1> HIDE DEF R
<1>5. w.room[r].life = "live"
  <2>1. w.room[r].life \in {"none", "live", "freed"} /\ w.room[r].players # <<>>
    BY <1>1 DEF Servers, RoomState, ToSet
  <2> QED
    BY <1>1, <2>1 DEF Households, Empty
<1>6. Renewed(w.room[r], R)
  BY <1>4, <1>5 DEF Renewed
<1>7. /\ z \in Servers /\ Sessions(z) /\ Places(z) /\ Empty(z) /\ Leaving(z)
      /\ z.made = w.made /\ z.rooms = w.rooms /\ z.obj = w.obj /\ z.players = w.players
      /\ z.posted = w.posted /\ z.lobby = w.lobby
  BY <1>4, <1>6, RoomFacts DEF z
<1>8. /\ \A q \in Rooms :
            /\ q # r => z.room[q] = w.room[q]
            /\ z.room[q].started = w.room[q].started
            /\ z.room[q].refs = w.room[q].refs /\ z.room[q].life = w.room[q].life
            /\ z.room[q].players = w.room[q].players
      /\ z.room[r] = R
  BY <1>4, <1>6, RoomFacts DEF z
<1>9. z.room[r].abandoned = w.room[r].abandoned /\ z.room[r].owner = o
  BY <1>4, <1>8
<1>10. Found(z, Lobby)
  <2>1. \A q \in Rooms : HumanIn(w, q) <=> HumanIn(z, q)
    BY <1>7, <1>8 DEF HumanIn, Human
  <2>2. w.rooms \subseteq Rooms
    BY <1>1, GoodTypes
  <2> QED
    BY <1>1, <1>7, <1>8, <1>9, <2>1, <2>2 DEF Households, Found
<1>11. Left(z, x)
  BY <1>1, <1>7, <1>8, <1>9 DEF Households, Left, Posts
<1>12. Owned(z, Lobby)
  BY <1>1, <1>7, <1>8, <1>9 DEF Households, Owned, Human
<1>13. Onward(w, z)
  BY <1>7, <1>8 DEF Onward, Made, HumanIn, Human
<1> QED
  BY <1>3, <1>7, <1>10, <1>11, <1>12, <1>13 DEF Good, Households

\* Server::createRoom, as far as the new room.
Opened(w, r) == [w EXCEPT !.room[r].life = "live", !.rooms = @ \cup {r}]

LEMMA OpenedStep ==
  ASSUME NEW w, Good(w, Lobby, Lobby), NEW r \in Rooms, w.room[r].life = "none"
  PROVE  LET v == Opened(w, r) IN
         /\ Good(v, Lobby, r) /\ Aside(w, v, r) /\ v.made = w.made /\ v.obj = w.obj
         /\ v.room[r].life = "live" /\ v.room[r].players = <<>>
         /\ v.room[r].rejected = {} /\ v.room[r].started = FALSE
<1> DEFINE R == [w.room[r] EXCEPT !.life = "live"]
           v == Opened(w, r)
<1>1. w \in Servers /\ Sessions(w) /\ Households(w, Lobby, Lobby) /\ Lobby \notin Rooms
  BY MadeObjs DEF Good
<1>2. w.room[r] \in RoomState /\ w.rooms \subseteq Rooms
      /\ \A q \in Objs : w.obj[q].room \in Rooms \cup {Lobby}
  BY <1>1, GoodTypes
<1>3. v = [w EXCEPT !.room = [w.room EXCEPT ![r] = R], !.rooms = w.rooms \cup {r}]
  BY <1>1 DEF Opened, Servers
<1> HIDE DEF v
<1>4. /\ R \in RoomState /\ R.players = w.room[r].players /\ R.owner = w.room[r].owner
      /\ R.started = w.room[r].started /\ R.abandoned = w.room[r].abandoned
      /\ R.refs = w.room[r].refs /\ R.life = "live"
      /\ R.observers = w.room[r].observers /\ R.rejected = w.room[r].rejected
  BY <1>2 DEF RoomState
<1> HIDE DEF R
<1>5. /\ w.room[r].players = <<>> /\ w.room[r].started = FALSE
      /\ w.room[r].abandoned = FALSE /\ w.room[r].owner = Nobody /\ w.room[r].rejected = {}
  <2>1. w.room[r].life # "live"
    OBVIOUS
  <2> QED
    BY <1>1, <2>1 DEF Households, Empty
<1>6. [w.room EXCEPT ![r] = R] \in [Rooms -> RoomState]
      /\ w.rooms \cup {r} \in SUBSET Rooms
  BY <1>1, <1>2, <1>4 DEF Servers
<1>7. v \in Servers
  BY <1>1, <1>3, <1>6 DEF Servers
<1>8. /\ v.made = w.made /\ v.obj = w.obj /\ v.players = w.players
      /\ v.posted = w.posted /\ v.rooms = w.rooms \cup {r}
      /\ v.room = [w.room EXCEPT ![r] = R]
  BY <1>1, <1>3 DEF Servers
<1>9. \A q \in Rooms : v.room[q] = IF q = r THEN R ELSE w.room[q]
  BY <1>1, <1>8 DEF Servers
<1>10. Made(v) = Made(w) /\ Posts(v) = Posts(w)
  BY <1>8 DEF Made, Posts
<1>11. \A q \in Rooms :
         /\ v.room[q].owner = w.room[q].owner
         /\ v.room[q].abandoned = w.room[q].abandoned
         /\ v.room[q].players = w.room[q].players
         /\ v.room[q].observers = w.room[q].observers
         /\ v.room[q].refs = w.room[q].refs
         /\ v.room[q].started = w.room[q].started
         /\ v.room[q].life = IF q = r THEN "live" ELSE w.room[q].life
         /\ v.room[q].rejected = w.room[q].rejected
  BY <1>4, <1>9
<1>12. Sessions(v)
  <2>1. Accounts(v) /\ Sockets(v) /\ Unmade(v) /\ RobotsStay(v)
    BY <1>1, <1>8, <1>10 DEF Sessions, Accounts, Sockets, Unmade, RobotsStay, Human
  <2>2. Posted(v)
    BY <1>1, <1>8, <1>10 DEF Sessions, Posted, Human
  <2>3. Seated(v)
    BY <1>1, <1>10, <1>11 DEF Sessions, Seated
  <2> QED
    BY <2>1, <2>2, <2>3 DEF Sessions
<1>13. \A q \in Rooms : HumanIn(v, q) <=> HumanIn(w, q)
  BY <1>8, <1>11 DEF HumanIn, Human
<1>14. Households(v, Lobby, r)
  <2>1. Places(v)
    BY <1>1, <1>2, <1>8, <1>11 DEF Households, Places
  <2>2. Empty(v)
    BY <1>1, <1>11 DEF Households, Empty
  <2>3. Found(v, r)
    BY <1>1, <1>2, <1>5, <1>8, <1>11, <1>13 DEF Households, Found
  <2>4. Leaving(v)
    BY <1>1, <1>10, <1>11 DEF Households, Leaving
  <2>5. Left(v, Lobby)
    BY <1>1, <1>5, <1>10, <1>11 DEF Households, Left
  <2>6. Owned(v, r)
    BY <1>1, <1>8, <1>11 DEF Households, Owned, Human
  <2> QED
    BY <2>1, <2>2, <2>3, <2>4, <2>5, <2>6 DEF Households
<1>15. Aside(w, v, r)
  BY <1>8, <1>10, <1>11, <1>13 DEF Aside
<1> QED
  BY <1>5, <1>7, <1>8, <1>11, <1>12, <1>14, <1>15 DEF Good, v

LEMMA CreateRoomStep ==
  ASSUME NEW w, Good(w, Lobby, Lobby), NEW r \in Rooms, w.room[r].life = "none",
         NEW o \in Made(w), Human(w, o)
  PROVE  LET v == SetOwner(AddPlayer(Opened(w, r), r, o), r, o) IN
         Good(v, Lobby, Lobby) /\ Aside(w, v, r)
<1> DEFINE w1 == Opened(w, r)
           w2 == AddPlayer(w1, r, o)
           v  == SetOwner(w2, r, o)
<1>1. /\ Good(w1, Lobby, r) /\ Aside(w, w1, r) /\ w1.made = w.made /\ w1.obj = w.obj
      /\ w1.room[r].life = "live" /\ w1.room[r].players = <<>>
      /\ w1.room[r].rejected = {} /\ w1.room[r].started = FALSE
  BY OpenedStep
<1> HIDE DEF w1
<1>2. o \in Made(w1) /\ Human(w1, o) /\ Len(w1.room[r].players) # Capacity
  BY <1>1, LifecycleConstants DEF Made, Human
<1>3. /\ Good(w2, Lobby, r) /\ Onward(w1, w2)
      /\ ~(\/ w1.obj[o].user \in w1.room[r].rejected
              \/ Len(w1.room[r].players) = Capacity \/ w1.room[r].started) =>
              o \in ToSet(w2.room[r].players)
  BY <1>1, <1>2, AddPlayerStep
<1> HIDE DEF w2
<1>4. o \in ToSet(w2.room[r].players)
  BY <1>1, <1>2, <1>3
<1>5. HumanIn(w2, r)
  <2>1. Human(w2, o)
    BY <1>2, <1>3 DEF Onward, Human
  <2> QED
    BY <1>4, <2>1 DEF HumanIn
<1>6. Good(v, Lobby, Lobby) /\ Onward(w2, v)
  BY <1>3, <1>4, <1>5, OwnerStep
<1> HIDE DEF v
<1>7. Aside(w1, w2, r) /\ Aside(w2, v, r)
  BY <1>3, <1>6, OnwardAside
<1>8. Aside(w1, v, r)
  BY <1>7, AsideTwice
<1>9. Aside(w, v, r)
  BY <1>1, <1>8, AsideTwice
<1> QED
  BY <1>6, <1>9 DEF v, w2, w1

\* Room::addObserver: from the lobby into the room.
Watch(w, r, o) == [w EXCEPT !.room[r].observers = Append(@, o), !.obj[o].room = r]

LEMMA WatchStep ==
  ASSUME NEW w, Good(w, Lobby, Lobby), NEW r \in Rooms, NEW o \in Made(w),
         w.room[r].life = "live"
  PROVE  Good(Watch(w, r, o), Lobby, Lobby) /\ Onward(w, Watch(w, r, o))
<1> DEFINE l == Append(w.room[r].observers, o)
           R == [w.room[r] EXCEPT !.observers = l]
           p == [w.obj[o] EXCEPT !.room = r]
           v == Watch(w, r, o)
<1>1. w \in Servers /\ Sessions(w) /\ Households(w, Lobby, Lobby) /\ o \in Objs
  BY MadeObjs DEF Good
<1>2. w.room[r] \in RoomState /\ w.room[r].observers \in Seq(Objs) /\ w.obj[o] \in Player
  BY <1>1, GoodTypes
<1>3. l \in Seq(Objs) /\ ToSet(l) = ToSet(w.room[r].observers) \cup {o}
  BY <1>1, <1>2, Appended
<1>4. v.room = [w.room EXCEPT ![r] = R] /\ v.obj = [w.obj EXCEPT ![o] = p]
      /\ v.made = w.made /\ v.rooms = w.rooms /\ v.players = w.players
      /\ v.posted = w.posted
  BY <1>1 DEF Watch, Servers
<1>5. v = [w EXCEPT !.room = [w.room EXCEPT ![r] = R], !.obj = [w.obj EXCEPT ![o] = p]]
  BY <1>1 DEF Watch, Servers
<1> HIDE DEF l
<1>6. /\ R \in RoomState /\ R.players = w.room[r].players /\ R.owner = w.room[r].owner
      /\ R.started = w.room[r].started /\ R.abandoned = w.room[r].abandoned
      /\ R.refs = w.room[r].refs /\ R.life = w.room[r].life
      /\ R.observers = l /\ R.rejected = w.room[r].rejected
  BY <1>2, <1>3 DEF RoomState
<1>7. /\ p \in Player /\ p.user = w.obj[o].user /\ p.state = w.obj[o].state
      /\ p.socket = w.obj[o].socket /\ p.life = w.obj[o].life /\ p.room = r
  BY <1>2 DEF Player
<1> HIDE DEF R, p, v
<1>8. v \in Servers
  <2>1. [w.room EXCEPT ![r] = R] \in [Rooms -> RoomState]
        /\ [w.obj EXCEPT ![o] = p] \in [Objs -> Player]
    BY <1>1, <1>6, <1>7 DEF Servers
  <2> QED
    BY <1>1, <1>5, <2>1 DEF Servers
<1>9. \A q \in Rooms : v.room[q] = IF q = r THEN R ELSE w.room[q]
  BY <1>1, <1>4 DEF Servers
<1>10. \A q \in Objs : v.obj[q] = IF q = o THEN p ELSE w.obj[q]
  BY <1>1, <1>4 DEF Servers
<1>11. Made(v) = Made(w) /\ Posts(v) = Posts(w)
  BY <1>4 DEF Made, Posts
<1>12. \A q \in Objs : /\ Human(v, q) <=> Human(w, q)
                       /\ v.obj[q].user = w.obj[q].user /\ v.obj[q].state = w.obj[q].state
                       /\ v.obj[q].life = w.obj[q].life /\ v.obj[q].socket = w.obj[q].socket
  BY <1>7, <1>10 DEF Human
<1>13. \A q \in Rooms : /\ v.room[q].life = w.room[q].life
                        /\ v.room[q].players = w.room[q].players
                        /\ v.room[q].abandoned = w.room[q].abandoned
                        /\ v.room[q].owner = w.room[q].owner
                        /\ v.room[q].refs = w.room[q].refs
                        /\ v.room[q].started = w.room[q].started
                        /\ v.room[q].rejected = w.room[q].rejected
  BY <1>6, <1>9
<1>14. \A q \in Rooms : HumanIn(v, q) <=> HumanIn(w, q)
  BY <1>1, <1>12, <1>13, GoodTypes DEF HumanIn
<1>15. Sessions(v)
  <2>1. Accounts(v)
    BY <1>1, <1>4, <1>12, GoodTypes DEF Sessions, Accounts
  <2>2. Sockets(v)
    BY <1>1, <1>4, <1>12 DEF Sessions, Sockets
  <2>3. Unmade(v)
    BY <1>1, <1>10, <1>11, <1>12 DEF Sessions, Unmade
  <2>4. RobotsStay(v)
    BY <1>1, <1>12 DEF Sessions, RobotsStay
  <2>5. Posted(v)
    BY <1>1, <1>11, <1>12, MadeObjs DEF Sessions, Posted
  <2>6. Seated(v)
    BY <1>1, <1>3, <1>6, <1>9, <1>11 DEF Sessions, Seated
  <2> QED
    BY <2>1, <2>2, <2>3, <2>4, <2>5, <2>6 DEF Sessions
<1>16. Households(v, Lobby, Lobby)
  <2>1. Places(v)
    <3> SUFFICES ASSUME NEW q \in Objs, v.obj[q].room # Lobby
                 PROVE  v.room[v.obj[q].room].life # "none"
      BY DEF Places
    <3>1. CASE q = o
      BY <3>1, <1>7, <1>10, <1>13
    <3>2. CASE q # o
      <4>1. v.obj[q] = w.obj[q] /\ w.obj[q].room \in Rooms
        BY <3>2, <1>1, <1>10, GoodTypes
      <4>2. w.room[w.obj[q].room].life # "none"
        BY <4>1, <1>1 DEF Households, Places
      <4> QED
        BY <4>1, <4>2, <1>13
    <3> QED
      BY <3>1, <3>2
  <2>2. Empty(v)
    BY <1>1, <1>13 DEF Households, Empty
  <2>3. Found(v, Lobby)
    BY <1>1, <1>4, <1>13, <1>14, GoodTypes DEF Households, Found
  <2>4. Leaving(v)
    BY <1>1, <1>11, <1>13 DEF Households, Leaving
  <2>5. Left(v, Lobby)
    BY <1>1, <1>11, <1>13 DEF Households, Left
  <2>6. Owned(v, Lobby)
    <3> SUFFICES ASSUME NEW q \in Rooms, q # Lobby, w.room[q].life = "live",
                        w.room[q].owner # Nobody
                 PROVE  \/ w.room[q].owner \in ToSet(w.room[q].players)
                        \/ /\ v.obj[w.room[q].owner].life = "freed"
                           /\ ~Human(v, w.room[q].owner)
      BY <1>13 DEF Owned
    <3>1. w.room[q].owner \in Objs
      BY <1>1, GoodTypes
    <3>2. \/ w.room[q].owner \in ToSet(w.room[q].players)
          \/ /\ w.obj[w.room[q].owner].life = "freed"
             /\ ~Human(w, w.room[q].owner)
      BY <1>1 DEF Households, Owned
    <3> QED
      BY <3>1, <3>2, <1>12
  <2> QED
    BY <2>1, <2>2, <2>3, <2>4, <2>5, <2>6 DEF Households
<1>17. Onward(w, v)
  <2>1. \A q \in Made(w) : v.obj[q].user = w.obj[q].user
    BY <1>1, <1>12, MadeObjs
  <2> QED
    BY <1>11, <1>13, <1>14, <2>1 DEF Onward
<1> QED
  BY <1>8, <1>15, <1>16, <1>17 DEF Good, v

LEMMA ObserveStep ==
  ASSUME NEW w, Good(w, Lobby, Lobby), NEW r \in Rooms, NEW o \in Made(w),
         w.room[r].life = "live"
  PROVE  LET v == Watch(LobbyRemove(w, o), r, o) IN
         Good(v, Lobby, Lobby) /\ Onward(w, v)
<1> DEFINE w1 == LobbyRemove(w, o)
<1>1. w \in Servers /\ o \in Objs
  BY MadeObjs DEF Good
<1>2. Quiet(w, w1)
  BY <1>1, LobbyRemoveQuiet
<1> HIDE DEF w1
<1>3. Good(w1, Lobby, Lobby) /\ Onward(w, w1)
  BY <1>2, QuietStep
<1>4. o \in Made(w1) /\ w1.room[r].life = "live"
  BY <1>2 DEF Quiet, Made, SameRoom
<1>5. Good(Watch(w1, r, o), Lobby, Lobby) /\ Onward(w1, Watch(w1, r, o))
  BY <1>3, <1>4, WatchStep
<1>6. Onward(w, Watch(w1, r, o))
  BY <1>3, <1>5, OnwardTwice
<1> QED
  BY <1>5, <1>6 DEF w1

\* AddRobot: a new object that joins the room.
LEMMA AddRobotStep ==
  ASSUME NEW w, Good(w, Lobby, Lobby), NEW r \in Rooms, w.room[r].life = "live",
         w.made # MaxObjs
  PROVE  LET v == AddPlayer(New(w, Bot, "Robot", "none", r), r, w.made + 1) IN
         Good(v, Lobby, Lobby) /\ Onward(w, v)
<1> DEFINE w1 == NewIs(w, Bot, "Robot", "none", r, w.players)
           n  == w.made + 1
           v  == AddPlayer(w1, r, n)
<1>1. w \in Servers
  BY DEF Good
<1>2. New(w, Bot, "Robot", "none", r) = w1
  BY <1>1 DEF NewIs, New, Servers
<1>3. /\ Good(w1, Lobby, Lobby) /\ Onward(w, w1) /\ n \in Made(w1) /\ w1.room = w.room
  BY LifecycleConstants, NewStep
<1> HIDE DEF w1, n
<1>4. Good(v, Lobby, Lobby) /\ Onward(w1, v)
  BY <1>3, AddPlayerStep
<1> HIDE DEF v
<1>5. Onward(w, v)
  BY <1>3, <1>4, OnwardTwice
<1> QED
  BY <1>2, <1>4, <1>5 DEF v, n

LEMMA KickPlayerStep ==
  ASSUME NEW w, Good(w, Lobby, Lobby), NEW r \in Rooms, w.room[r].life # "none",
         NEW p \in Made(w), NEW u \in Users \cup {Bot}
  PROVE  LET v == [Leave(w, r, p, FALSE, FALSE) EXCEPT !.room[r].rejected = @ \cup ({u} \ {Bot})]
         IN Good(v, Lobby, Lobby) /\ Onward(w, v)
<1> DEFINE w1 == Leave(w, r, p, FALSE, FALSE)
           X == w1.room[r].rejected \cup ({u} \ {Bot})
           v == SetRejected(w1, r, X)
<1>1. Good(w1, Lobby, Lobby) /\ Onward(w, w1)
  BY LeaveStep
<1> HIDE DEF w1
<1>2. X \in SUBSET (Users \cup {Bot})
  <2>1. w1.room[r] \in RoomState
    BY <1>1, GoodTypes DEF Good
  <2> QED
    BY <2>1 DEF RoomState
<1>3. [w1 EXCEPT !.room[r].rejected = @ \cup ({u} \ {Bot})] = v
  BY <1>1 DEF Good, Servers, SetRejected
<1> HIDE DEF X
<1>4. w1.room[r].life # "none"
  BY <1>1 DEF Onward
<1>5. Good(v, Lobby, Lobby) /\ Onward(w1, v)
  BY <1>1, <1>2, <1>4, RejectStep
<1> HIDE DEF v
<1>6. Onward(w, v)
  BY <1>1, <1>5, OnwardTwice
<1> QED
  BY <1>3, <1>5, <1>6 DEF w1

\* What is posted for an abandoned room makes up for the last reference.
LEMMA GivenStep ==
  ASSUME NEW w, NEW r \in Rooms, Good(w, r, Lobby), w.room[r].life = "live",
         w.room[r].abandoned = TRUE
  PROVE  LET v == Post(w, "deleteRoom", r) IN
         Good(v, Lobby, Lobby) /\ Onward(w, v) /\ v.room = w.room
<1> DEFINE e == Given(r)
           v == Post(w, "deleteRoom", r)
<1>1. w \in Servers /\ Sessions(w) /\ Households(w, r, Lobby)
  BY DEF Good
<1>2. e \in Event /\ e.do = "deleteRoom" /\ w.posted \in Seq(Event)
  BY <1>1 DEF Given, Event, Servers
<1>3. Append(w.posted, e) \in Seq(Event) /\ ToSet(Append(w.posted, e)) = Posts(w) \cup {e}
  BY <1>2, Appended DEF Posts
<1>4. v = [w EXCEPT !.posted = Append(w.posted, e)]
  BY <1>1 DEF Post, Given, Servers
<1>5. \A q \in Rooms : Given(q) = e <=> q = r
  BY DEF Given
<1> HIDE DEF v, e
<1>6. v \in Servers /\ v.made = w.made /\ v.rooms = w.rooms /\ v.obj = w.obj
      /\ v.players = w.players /\ v.room = w.room /\ v.posted = Append(w.posted, e)
  BY <1>1, <1>3, <1>4 DEF Servers
<1>7. Posts(v) = Posts(w) \cup {e} /\ Made(v) = Made(w)
  BY <1>3, <1>6 DEF Posts, Made
<1>8. Sessions(v)
  <2>1. Accounts(v) /\ Sockets(v) /\ Unmade(v) /\ RobotsStay(v) /\ Seated(v)
    BY <1>1, <1>6, <1>7
    DEF Sessions, Accounts, Sockets, Unmade, RobotsStay, Seated, Human
  <2>2. Posted(v)
    BY <1>1, <1>2, <1>6, <1>7 DEF Sessions, Posted, Human
  <2> QED
    BY <2>1, <2>2 DEF Sessions
<1>9. Places(v) /\ Empty(v) /\ Found(v, Lobby) /\ Owned(v, Lobby)
  BY <1>1, <1>6 DEF Households, Places, Empty, Found, Owned, HumanIn, Human
<1>10. Leaving(v)
  BY <1>1, <1>5, <1>6, <1>7 DEF Households, Leaving
<1>11. Left(v, Lobby)
  BY <1>1, <1>5, <1>6, <1>7 DEF Households, Left
<1>12. Onward(w, v)
  BY <1>6, <1>7 DEF Onward, HumanIn, Human
<1> QED
  BY <1>6, <1>8, <1>9, <1>10, <1>11, <1>12 DEF Good, Households, v

\* The event loop takes the first of what was posted.
Popped(w) == [w EXCEPT !.posted = Tail(@)]

LEMMA PoppedStep ==
  ASSUME NEW w, Good(w, Lobby, Lobby), w.posted # <<>>, NEW x,
         \A r \in Rooms : r # x => Head(w.posted) # Given(r)
  PROVE  LET v == Popped(w) IN
         /\ Good(v, x, Lobby) /\ Onward(w, v) /\ v.made = w.made /\ v.room = w.room
         /\ v.obj = w.obj
<1> DEFINE v == Popped(w)
<1>1. w \in Servers /\ Sessions(w) /\ Households(w, Lobby, Lobby) /\ Lobby \notin Rooms
  BY MadeObjs DEF Good
<1>2. w.posted \in Seq(Event)
  BY <1>1, GoodTypes
<1>3. /\ Tail(w.posted) \in Seq(Event) /\ ToSet(Tail(w.posted)) \subseteq Posts(w)
      /\ \A e \in Posts(w) : e # Head(w.posted) => e \in ToSet(Tail(w.posted))
  BY <1>2, Beheaded DEF Posts
<1>4. v = [w EXCEPT !.posted = Tail(w.posted)]
  BY <1>1 DEF Popped, Servers
<1> HIDE DEF v
<1>6. v \in Servers /\ v.made = w.made /\ v.rooms = w.rooms /\ v.obj = w.obj
      /\ v.players = w.players /\ v.room = w.room /\ v.posted = Tail(w.posted)
  BY <1>1, <1>3, <1>4 DEF Servers
<1>7. Posts(v) \subseteq Posts(w) /\ Made(v) = Made(w)
      /\ \A e \in Posts(w) : e # Head(w.posted) => e \in Posts(v)
  BY <1>3, <1>6 DEF Posts, Made
<1>8. Sessions(v)
  <2>1. Accounts(v) /\ Sockets(v) /\ Unmade(v) /\ RobotsStay(v) /\ Seated(v)
    BY <1>1, <1>6, <1>7
    DEF Sessions, Accounts, Sockets, Unmade, RobotsStay, Seated, Human
  <2>2. Posted(v)
    BY <1>1, <1>6, <1>7 DEF Sessions, Posted, Human
  <2> QED
    BY <2>1, <2>2 DEF Sessions
<1>9. Places(v) /\ Empty(v) /\ Found(v, Lobby) /\ Owned(v, Lobby)
  BY <1>1, <1>6 DEF Households, Places, Empty, Found, Owned, HumanIn, Human
<1>10. Leaving(v)
  BY <1>1, <1>6, <1>7 DEF Households, Leaving
<1>11. Left(v, x)
  BY <1>1, <1>6, <1>7 DEF Households, Left
<1>12. Onward(w, v)
  BY <1>6, <1>7 DEF Onward, HumanIn, Human
<1> QED
  BY <1>6, <1>8, <1>9, <1>10, <1>11, <1>12 DEF Good, Households, v

-----------------------------------------------------------------------------
(* What the room thread relies on.                                          *)

Queued(q, r)       == r \in ToSet(q)
Registering(pc, r) == pc.at = "register" /\ pc.room = r
Closing(pc, r)     == pc.at \in {"scan", "close"} /\ pc.room = r

\* A room has one reference while there is a Lua room for it.  A room is
\* queued or registered only between its start and its game, and then it
\* has started, or is gone; while it lives somebody plays in it.  A Lua room
\* outlives the game only while the room thread is closing it.
InPlay(w, pc, l, q, r) ==
  /\ w.room[r].refs = IF l[r] = {} THEN 0 ELSE 1
  /\ w.room[r].life = "none" => l[r] = {}
  /\ Registering(pc, r) => l[r] = {} /\ ~Queued(q, r)
  /\ Registering(pc, r) /\ w.room[r].life = "live" => HumanIn(w, r)
  /\ Closing(pc, r) => l[r] # {}
  /\ Queued(q, r) \/ Registering(pc, r) =>
       w.room[r].life = "freed" \/ w.room[r].started = TRUE
  /\ Queued(q, r) => l[r] = {} \/ Closing(pc, r)
  /\ w.room[r].life = "live" /\ w.room[r].started = FALSE =>
       l[r] = {} \/ Closing(pc, r)
Scanning(w, pc) == ToSet(pc.players) \subseteq Made(w) /\ ToSet(pc.to_delete) \subseteq Made(w)
Once(q)         == \A i, j \in 1..Len(q) : q[i] = q[j] => i = j
Games(w, pc, l, q) ==
  (\A r \in Rooms : InPlay(w, pc, l, q, r)) /\ Scanning(w, pc) /\ Once(q)

Pcs     == [at : {"idle", "register", "scan", "close"}, room : Rooms \cup {Lobby},
            players : Seq(Objs), to_delete : Seq(Objs)]
Threads(pc, l, q) ==
  /\ pc \in Pcs /\ l \in [Rooms -> SUBSET Objs] /\ q \in Seq(Rooms)
  /\ pc.at # "idle" => pc.room \in Rooms

\* The invariant: everything above holds between two steps, and the games
\* are in order until the program has died.
IInv ==
  /\ Good(server, Lobby, Lobby)
  /\ Threads(rt, lua, newrooms)
  /\ Running => Games(server, rt, lua, newrooms)

LEMMA ScanningOn ==
  ASSUME NEW w, NEW v, NEW pc, Scanning(w, pc), Made(w) \subseteq Made(v)
  PROVE  Scanning(v, pc)
  BY DEF Scanning

LEMMA GamesOnward ==
  ASSUME NEW w, NEW v, NEW pc, NEW l, NEW q, Games(w, pc, l, q), Onward(w, v)
  PROVE  Games(v, pc, l, q)
<1>1. ASSUME NEW r \in Rooms PROVE InPlay(v, pc, l, q, r)
  <2>1. InPlay(w, pc, l, q, r)
    BY DEF Games
  <2>2. /\ v.room[r].refs = w.room[r].refs /\ v.room[r].life = w.room[r].life
        /\ v.room[r].started = w.room[r].started
        /\ w.room[r].started = TRUE /\ HumanIn(w, r) => HumanIn(v, r)
    BY DEF Onward
  <2> QED
    BY <2>1, <2>2 DEF InPlay
<1>2. Scanning(v, pc)
  BY ScanningOn DEF Games, Onward
<1> QED
  BY <1>1, <1>2 DEF Games

\* A room may come or go beside the games.
LEMMA GamesAside ==
  ASSUME NEW w, NEW v, NEW pc, NEW l, NEW q, Games(w, pc, l, q), Good(w, Lobby, Lobby),
         NEW r \in Rooms, Aside(w, v, r),
         v.room[r].life = "freed" \/ w.room[r].life = "none"
  PROVE  Games(v, pc, l, q)
<1>1. ASSUME NEW p \in Rooms, p # r PROVE InPlay(v, pc, l, q, p)
  <2>1. InPlay(w, pc, l, q, p)
    BY DEF Games
  <2>2. /\ v.room[p].refs = w.room[p].refs /\ v.room[p].life = w.room[p].life
        /\ v.room[p].started = w.room[p].started
        /\ w.room[p].started = TRUE /\ HumanIn(w, p) => HumanIn(v, p)
    BY <1>1 DEF Aside
  <2> QED
    BY <2>1, <2>2 DEF InPlay
<1>2. InPlay(w, pc, l, q, r) /\ v.room[r].refs = w.room[r].refs
  BY DEF Games, Aside
<1>3. v.room[r].life = "freed" => InPlay(v, pc, l, q, r)
  BY <1>2 DEF InPlay
<1>4. ASSUME w.room[r].life = "none" PROVE InPlay(v, pc, l, q, r)
  <2>1. w.room[r].started = FALSE
    BY <1>4 DEF Good, Households, Empty
  <2>2. l[r] = {} /\ ~Queued(q, r) /\ ~Registering(pc, r) /\ ~Closing(pc, r)
    BY <1>2, <1>4, <2>1 DEF InPlay
  <2> QED
    BY <1>2, <2>2 DEF InPlay
<1>5. Scanning(v, pc)
  BY ScanningOn DEF Games, Aside
<1> QED
  BY <1>1, <1>3, <1>4, <1>5 DEF Games

-----------------------------------------------------------------------------
(* The steps of the main thread.                                            *)

\* What a connected player is, and where.
LEMMA ConnectedAre ==
  ASSUME NEW w, Good(w, Lobby, Lobby), NEW o \in Objs, w.obj[o].socket = "open"
  PROVE  /\ o \in Made(w) /\ Human(w, o)
         /\ w.obj[o].room # Lobby => w.room[w.obj[o].room].life # "none"
<1>1. w \in Servers /\ Sessions(w)
  BY DEF Good
<1>2. w.obj[o].socket # "none"
  OBVIOUS
<1>3. o \in Made(w) /\ Human(w, o)
  BY <1>1, <1>2, KnownPlayers
<1> QED
  BY <1>3 DEF Good, Households, Places

\* The main thread's step leaves the room thread alone.
LEMMA MainInv ==
  ASSUME NEW w, NEW v, NEW pc, NEW l, NEW q,
         IInv, Running, w = server, pc = rt, l = lua, q = newrooms,
         v = server', UNCHANGED <<rt, lua, newrooms>>,
         Good(v, Lobby, Lobby), Games(v, pc, l, q)
  PROVE  IInv'
<1>1. Threads(pc, l, q)
  BY DEF IInv
<1>2. pc = rt' /\ l = lua' /\ q = newrooms'
  OBVIOUS
<1> QED
  BY <1>1, <1>2 DEF IInv

LEMMA OnwardInv ==
  ASSUME NEW w, NEW v, IInv, Running, w = server, v = server',
         UNCHANGED <<rt, lua, newrooms>>, Good(v, Lobby, Lobby), Onward(w, v)
  PROVE  IInv'
<1>1. PICK pc, l, q : pc = rt /\ l = lua /\ q = newrooms
  OBVIOUS
<1>2. Games(w, pc, l, q)
  BY <1>1 DEF IInv
<1>3. Games(v, pc, l, q)
  BY <1>2, GamesOnward
<1> QED
  BY <1>1, <1>3, MainInv

LEMMA AsideInv ==
  ASSUME NEW w, NEW v, IInv, Running, w = server, v = server',
         UNCHANGED <<rt, lua, newrooms>>, Good(v, Lobby, Lobby),
         NEW r \in Rooms, Aside(w, v, r),
         v.room[r].life = "freed" \/ w.room[r].life = "none"
  PROVE  IInv'
<1>1. PICK pc, l, q : pc = rt /\ l = lua /\ q = newrooms
  OBVIOUS
<1>2. Games(w, pc, l, q) /\ Good(w, Lobby, Lobby)
  BY <1>1 DEF IInv
<1>3. Games(v, pc, l, q)
  BY <1>2, GamesAside
<1> QED
  BY <1>1, <1>3, MainInv

LEMMA LoginInv ==
  ASSUME IInv, NEW u \in Users, NEW b \in BOOLEAN, Login(u, b)
  PROVE  IInv'
<1>1. PICK w, v : w = server /\ v = server'
  OBVIOUS
<1>2. Good(w, Lobby, Lobby) /\ Running /\ UNCHANGED <<rt, lua, newrooms>>
  BY <1>1 DEF IInv, Login, Main
<1>3. CASE w.players[u] = Nobody
  <2>1. v = Admit(w, u) /\ MaxObjs - w.made > 0
    BY <1>1, <1>3 DEF Login, Main, FreeObjs
  <2>2. w.made # MaxObjs
    BY <1>2, <2>1, LifecycleConstants DEF Good, Servers
  <2>3. Good(Admit(w, u), Lobby, Lobby) /\ Onward(w, Admit(w, u))
    BY <1>2, <1>3, <2>2, AdmitStep
  <2> QED
    BY <1>1, <1>2, <2>1, <2>3, OnwardInv
<1>4. CASE w.players[u] # Nobody
  <2> DEFINE o  == w.players[u]
             w1 == IF w.obj[o].state \in {"Online", "Robot"} THEN Kick(w, o, b) ELSE w
             z  == IF w1.obj[o].state = "Offline" THEN Reconnect(w1, o, b) ELSE w1
  <2>1. v = z
    BY <1>1, <1>4 DEF Login, Main
  <2>2. Good(z, Lobby, Lobby) /\ Onward(w, z)
    BY <1>2, <1>4, LoginStep
  <2> HIDE DEF z
  <2> QED
    BY <1>1, <1>2, <2>1, <2>2, OnwardInv
<1> QED
  BY <1>3, <1>4

LEMMA DisconnectInv ==
  ASSUME IInv, NEW o \in Objs, Disconnect(o)
  PROVE  IInv'
<1>1. PICK w, v : w = server /\ v = server'
  OBVIOUS
<1>2. Good(w, Lobby, Lobby) /\ Running /\ UNCHANGED <<rt, lua, newrooms>>
      /\ w.obj[o].socket = "open"
  BY <1>1 DEF IInv, Disconnect, Main, Connected
<1> DEFINE w1 == OnDisconnected(w, o)
           z  == IF w1.obj[o].socket = "open" THEN [w1 EXCEPT !.obj[o].socket = "closed"]
                 ELSE w1
<1>3. v = z
  BY <1>1 DEF Disconnect, Main
<1>4. w.obj[o].socket # "none"
  BY <1>2
<1>5. Good(z, Lobby, Lobby) /\ Onward(w, z)
  BY <1>2, <1>4, DisconnectStep
<1> HIDE DEF z
<1> QED
  BY <1>1, <1>2, <1>3, <1>5, OnwardInv

LEMMA CreateRoomInv ==
  ASSUME IInv, NEW o \in Objs, CreateRoom(o)
  PROVE  IInv'
<1>1. PICK w, v : w = server /\ v = server'
  OBVIOUS
<1>2. Good(w, Lobby, Lobby) /\ Running /\ UNCHANGED <<rt, lua, newrooms>>
      /\ w.obj[o].socket = "open"
  BY <1>1 DEF IInv, CreateRoom, Main, Connected, In
<1>3. PICK r \in Rooms :
        w.room[r].life = "none" /\ v = SetOwner(AddPlayer(Opened(w, r), r, o), r, o)
  BY <1>1 DEF CreateRoom, Main, SetOwner, Opened
<1>4. o \in Made(w) /\ Human(w, o)
  BY <1>2, ConnectedAre
<1>5. Good(v, Lobby, Lobby) /\ Aside(w, v, r)
  BY <1>2, <1>3, <1>4, CreateRoomStep
<1> QED
  BY <1>1, <1>2, <1>3, <1>5, AsideInv

LEMMA EnterRoomInv ==
  ASSUME IInv, NEW o \in Objs, NEW r \in Rooms, EnterRoom(o, r)
  PROVE  IInv'
<1>1. PICK w, v : w = server /\ v = server'
  OBVIOUS
<1>2. Good(w, Lobby, Lobby) /\ Running /\ UNCHANGED <<rt, lua, newrooms>>
      /\ w.obj[o].socket = "open" /\ r \in w.rooms /\ v = AddPlayer(w, r, o)
  BY <1>1 DEF IInv, EnterRoom, Main, Connected, In
<1>3. w.room[r].life = "live" /\ o \in Made(w)
  BY <1>2, ConnectedAre DEF Good, Households, Found
<1>4. Good(v, Lobby, Lobby) /\ Onward(w, v)
  BY <1>2, <1>3, AddPlayerStep
<1> QED
  BY <1>1, <1>2, <1>4, OnwardInv

LEMMA ObserveRoomInv ==
  ASSUME IInv, NEW o \in Objs, NEW r \in Rooms, ObserveRoom(o, r)
  PROVE  IInv'
<1>1. PICK w, v : w = server /\ v = server'
  OBVIOUS
<1>2. Good(w, Lobby, Lobby) /\ Running /\ UNCHANGED <<rt, lua, newrooms>>
      /\ w.obj[o].socket = "open" /\ r \in w.rooms
      /\ v = Watch(LobbyRemove(w, o), r, o)
  BY <1>1 DEF IInv, ObserveRoom, Main, Connected, In, Watch
<1>3. w.room[r].life = "live" /\ o \in Made(w)
  BY <1>2, ConnectedAre DEF Good, Households, Found
<1>4. Good(v, Lobby, Lobby) /\ Onward(w, v)
  BY <1>2, <1>3, ObserveStep
<1> QED
  BY <1>1, <1>2, <1>4, OnwardInv

LEMMA QuitRoomInv ==
  ASSUME IInv, NEW o \in Objs, NEW r \in Rooms, NEW died \in BOOLEAN, NEW b \in BOOLEAN,
         QuitRoom(o, r, died, b)
  PROVE  IInv'
<1>1. PICK w, v : w = server /\ v = server'
  OBVIOUS
<1>2. Good(w, Lobby, Lobby) /\ Running /\ UNCHANGED <<rt, lua, newrooms>>
      /\ w.obj[o].socket = "open" /\ w.obj[o].room = r /\ v = Leave(w, r, o, died, b)
  BY <1>1 DEF IInv, QuitRoom, Main, Connected, In
<1>3. Lobby \notin Rooms
  BY <1>2, MadeObjs DEF Good
<1>4. w.room[r].life # "none" /\ o \in Made(w)
  BY <1>2, <1>3, ConnectedAre
<1>5. Good(v, Lobby, Lobby) /\ Onward(w, v)
  BY <1>2, <1>4, LeaveStep
<1> QED
  BY <1>1, <1>2, <1>5, OnwardInv

LEMMA AddRobotInv ==
  ASSUME IInv, NEW o \in Objs, NEW r \in Rooms, AddRobot(o, r)
  PROVE  IInv'
<1>1. PICK w, v : w = server /\ v = server'
  OBVIOUS
<1>2. Good(w, Lobby, Lobby) /\ Running /\ UNCHANGED <<rt, lua, newrooms>>
      /\ o = w.room[r].owner /\ MaxObjs - w.made > 0
      /\ v = AddPlayer(New(w, Bot, "Robot", "none", r), r, w.made + 1)
  BY <1>1 DEF IInv, AddRobot, Main, FreeObjs
<1>3. w \in Servers /\ o # Nobody
  BY <1>2, MadeObjs DEF Good
<1>4. w.room[r].life = "live" /\ w.made # MaxObjs
  <2>1. w.room[r].life \in {"none", "live", "freed"} /\ w.made \in Nat
    BY <1>3, MadeObjs DEF Servers, RoomState
  <2> QED
    BY <1>2, <1>3, <2>1, LifecycleConstants DEF Good, Households, Empty
<1>5. Good(v, Lobby, Lobby) /\ Onward(w, v)
  BY <1>2, <1>4, AddRobotStep
<1> QED
  BY <1>1, <1>2, <1>5, OnwardInv

LEMMA KickPlayerInv ==
  ASSUME IInv, NEW o \in Objs, NEW r \in Rooms, NEW p \in Objs, KickPlayer(o, r, p)
  PROVE  IInv'
<1>1. PICK w, v : w = server /\ v = server'
  OBVIOUS
<1> DEFINE u == w.obj[p].user
           z == [Leave(w, r, p, FALSE, FALSE) EXCEPT !.room[r].rejected = @ \cup ({u} \ {Bot})]
<1>2. Good(w, Lobby, Lobby) /\ Running /\ UNCHANGED <<rt, lua, newrooms>>
      /\ w.obj[o].socket = "open" /\ w.obj[o].room = r
      /\ Contains(w.room[r].players, p) /\ v = z
  BY <1>1 DEF IInv, KickPlayer, Main, Connected, In
<1>3. w \in Servers /\ Sessions(w) /\ Lobby \notin Rooms
  BY <1>2, MadeObjs DEF Good
<1>4. w.room[r].players \in Seq(Objs)
  BY <1>3, GoodTypes
<1>5. p \in ToSet(w.room[r].players)
  BY <1>2, <1>4, ToSetDef DEF Contains
<1>6. p \in Made(w)
  BY <1>3, <1>5 DEF Sessions, Seated
<1>7. w.room[r].life # "none"
  BY <1>2, <1>3, ConnectedAre
<1>8. u \in Users \cup {Bot}
  BY <1>3, GoodTypes
<1> HIDE DEF u
<1>9. Good(z, Lobby, Lobby) /\ Onward(w, z)
  BY <1>2, <1>6, <1>7, <1>8, KickPlayerStep
<1> HIDE DEF z
<1> QED
  BY <1>1, <1>2, <1>9, OnwardInv

LEMMA RemoveRejectIdInv ==
  ASSUME IInv, NEW r \in Rooms, NEW u \in Users, RemoveRejectId(r, u)
  PROVE  IInv'
<1>1. PICK w, v : w = server /\ v = server'
  OBVIOUS
<1> DEFINE X == w.room[r].rejected \ {u}
<1>2. Good(w, Lobby, Lobby) /\ Running /\ UNCHANGED <<rt, lua, newrooms>>
      /\ w.room[r].life = "live" /\ v = [w EXCEPT !.room[r].rejected = @ \ {u}]
  BY <1>1 DEF IInv, RemoveRejectId, Main
<1>3. X \in SUBSET (Users \cup {Bot}) /\ w.room[r].life # "none"
  <2>1. w.room[r] \in RoomState
    BY <1>2, GoodTypes DEF Good
  <2> QED
    BY <1>2, <2>1 DEF RoomState
<1>4. v = SetRejected(w, r, X)
  BY <1>2 DEF Good, Servers, SetRejected
<1> HIDE DEF X
<1>5. Good(SetRejected(w, r, X), Lobby, Lobby) /\ Onward(w, SetRejected(w, r, X))
  BY <1>2, <1>3, RejectStep
<1>6. Good(v, Lobby, Lobby) /\ Onward(w, v)
  BY <1>4, <1>5
<1> QED
  BY <1>1, <1>2, <1>6, OnwardInv

LEMMA HeartbeatInv ==
  ASSUME IInv, NEW o \in Objs, Heartbeat(o)
  PROVE  IInv'
<1>1. PICK w, v : w = server /\ v = server'
  OBVIOUS
<1>2. Good(w, Lobby, Lobby) /\ Running /\ UNCHANGED <<rt, lua, newrooms>>
      /\ o \in {w.players[u] : u \in Users} \ {Nobody} /\ v = Post(w, "kick", o)
  BY <1>1 DEF IInv, Heartbeat, Main
<1>3. w \in Servers /\ Sessions(w)
  BY <1>2 DEF Good
<1>4. o \in Made(w) /\ Human(w, o)
  BY <1>2, <1>3, KnownPlayers
<1>5. Quiet(w, v)
  BY <1>2, <1>3, <1>4, PostQuiet
<1>6. Good(v, Lobby, Lobby) /\ Onward(w, v)
  BY <1>2, <1>5, QuietStep
<1> QED
  BY <1>1, <1>2, <1>6, OnwardInv

LEMMA ServeInv ==
  ASSUME IInv, NEW b \in BOOLEAN, Serve(b)
  PROVE  IInv'
<1>1. PICK w, v : w = server /\ v = server'
  OBVIOUS
<1> DEFINE e == Head(w.posted)
           z == Popped(w)
<1>2. Good(w, Lobby, Lobby) /\ Running /\ UNCHANGED <<rt, lua, newrooms>> /\ w.posted # <<>>
  BY <1>1 DEF IInv, Serve, Main
<1>3. /\ e.do = "kick" => v = Kick(z, e.of, b)
      /\ e.do = "delete" => v = Destroy(z, e.of)
      /\ e.do = "deleteRoom" => v = DestroyRoom(z, e.of)
  BY <1>1 DEF Serve, Main, Popped
<1>4. w \in Servers /\ Sessions(w)
  BY <1>2 DEF Good
<1>5. e \in Event /\ e \in Posts(w)
  BY <1>2, <1>4, GoodTypes, Beheaded DEF Posts
<1> HIDE DEF e, z
<1>6. CASE e.do # "deleteRoom"
  <2>1. \A r \in Rooms : r # Lobby => e # Given(r)
    BY <1>6 DEF Given
  <2>2. /\ Good(z, Lobby, Lobby) /\ Onward(w, z) /\ z.made = w.made /\ z.obj = w.obj
    BY <1>2, <2>1, PoppedStep DEF e, z
  <2>3. e.of \in Made(z) /\ e.do = "kick" => Human(z, e.of)
    BY <1>4, <1>5, <1>6, <2>2 DEF Sessions, Posted, Made, Human
  <2>4. e.of \in Made(z)
    BY <1>4, <1>5, <1>6, <2>2 DEF Sessions, Posted, Made
  <2>5. CASE e.do = "kick"
    <3>1. Quiet(z, v)
      BY <1>3, <2>2, <2>3, <2>4, <2>5, KickQuiet DEF Good
    <3>2. Good(v, Lobby, Lobby) /\ Onward(z, v)
      BY <2>2, <3>1, QuietStep
    <3>3. Onward(w, v)
      BY <2>2, <3>2, OnwardTwice
    <3> QED
      BY <1>1, <1>2, <3>2, <3>3, OnwardInv
  <2>6. CASE e.do = "delete"
    <3>1. Good(v, Lobby, Lobby) /\ Onward(z, v)
      BY <1>3, <2>2, <2>4, <2>6, DestroyStep
    <3>2. Onward(w, v)
      BY <2>2, <3>1, OnwardTwice
    <3> QED
      BY <1>1, <1>2, <3>1, <3>2, OnwardInv
  <2> QED
    BY <1>5, <1>6, <2>5, <2>6 DEF Event
<1>7. CASE e.do = "deleteRoom"
  <2>1. e.of \in Rooms /\ e = Given(e.of)
    BY <1>5, <1>7 DEF Event, Given
  <2>2. PICK r \in Rooms : e = Given(r) /\ e.of = r
    BY <2>1
  <2>3. w.room[r].life = "live" /\ w.room[r].abandoned = TRUE
    BY <1>2, <1>5, <2>2 DEF Good, Households, Leaving
  <2>4. \A p \in Rooms : p # r => e # Given(p)
    BY <2>2 DEF Given
  <2>5. Good(z, r, Lobby) /\ Onward(w, z) /\ z.room = w.room
    BY <1>2, <2>4, PoppedStep DEF e, z
  <2>6. z.room[r].life = "live" /\ z.room[r].abandoned = TRUE
    BY <2>3, <2>5
  <2>7. v = DestroyRoom(z, r)
    BY <1>3, <1>7, <2>2
  <2>8. Good(v, Lobby, Lobby) /\ Aside(z, v, r) /\ v.room[r].life = "freed"
    BY <2>5, <2>6, <2>7, DestroyRoomStep
  <2>9. Aside(w, v, r)
    BY <2>5, <2>8, OnwardAside, AsideTwice
  <2> QED
    BY <1>1, <1>2, <2>8, <2>9, AsideInv
<1> QED
  BY <1>6, <1>7

-----------------------------------------------------------------------------
(* Starting a game, and the steps of the room thread.                       *)

LEMMA OnceAppend ==
  ASSUME NEW q \in Seq(Rooms), Once(q), NEW r \in Rooms, ~Queued(q, r)
  PROVE  Once(Append(q, r)) /\ \A p \in Rooms : Queued(Append(q, r), p) <=> Queued(q, p) \/ p = r
<1>1. \A i \in 1..Len(q) : q[i] # r
  BY ToSetDef DEF Queued
<1>2. Once(Append(q, r))
  <2> SUFFICES ASSUME NEW i \in 1..Len(q) + 1, NEW j \in 1..Len(q) + 1,
                      Append(q, r)[i] = Append(q, r)[j]
               PROVE  i = j
    BY DEF Once
  <2>1. i \in 1..Len(q) /\ j \in 1..Len(q) => i = j
    BY DEF Once
  <2> QED
    BY <1>1, <2>1
<1> QED
  BY <1>2, Appended DEF Queued

LEMMA OnceTail ==
  ASSUME NEW q \in Seq(Rooms), Once(q), q # <<>>
  PROVE  Once(Tail(q)) /\ Tail(q) \in Seq(Rooms) /\ Head(q) \in Rooms
         /\ \A p \in Rooms : Queued(Tail(q), p) <=> Queued(q, p) /\ p # Head(q)
<1>1. /\ Head(q) \in Rooms /\ Head(q) \in ToSet(q)
      /\ Tail(q) \in Seq(Rooms) /\ ToSet(Tail(q)) \subseteq ToSet(q)
      /\ \A e \in ToSet(q) : e # Head(q) => e \in ToSet(Tail(q))
  BY Beheaded
<1>2. Len(Tail(q)) = Len(q) - 1 /\ \A i \in 1..Len(q) - 1 : Tail(q)[i] = q[i + 1]
  OBVIOUS
<1>3. Once(Tail(q))
  <2> SUFFICES ASSUME NEW i \in 1..Len(q) - 1, NEW j \in 1..Len(q) - 1,
                      Tail(q)[i] = Tail(q)[j]
               PROVE  i = j
    BY <1>2 DEF Once
  <2>1. i + 1 \in 1..Len(q) /\ j + 1 \in 1..Len(q) /\ q[i + 1] = q[j + 1]
    BY <1>2
  <2>2. i + 1 = j + 1
    BY <2>1 DEF Once
  <2> QED
    BY <2>2
<1>4. Head(q) \notin ToSet(Tail(q))
  <2> DEFINE t == Tail(q)
  <2>1. t \in Seq(Rooms) /\ Len(t) = Len(q) - 1 /\ Head(q) = q[1]
    BY <1>1, <1>2
  <2> HIDE DEF t
  <2>2. ToSet(t) = {t[i] : i \in 1..Len(t)}
    BY <2>1, ToSetDef
  <2>0. ToSet(Tail(q)) = {Tail(q)[i] : i \in 1..Len(q) - 1} /\ Head(q) = q[1]
    BY <2>1, <2>2 DEF t
  <2> SUFFICES ASSUME NEW i \in 1..Len(q) - 1, Tail(q)[i] = q[1] PROVE FALSE
    BY <2>0
  <2>3. i + 1 \in 1..Len(q) /\ 1 \in 1..Len(q) /\ q[i + 1] = q[1]
    BY <1>2
  <2>4. i + 1 = 1
    BY <2>3 DEF Once
  <2> QED
    BY <2>4
<1> QED
  BY <1>1, <1>3, <1>4 DEF Queued

LEMMA StartGameInv ==
  ASSUME IInv, NEW o \in Objs, NEW r \in Rooms, StartGame(o, r)
  PROVE  IInv'
<1>1. PICK w, v, pc, l, q, z :
        w = server /\ v = server' /\ pc = rt /\ l = lua /\ q = newrooms /\ z = newrooms'
  OBVIOUS
<1>2. /\ Good(w, Lobby, Lobby) /\ Games(w, pc, l, q) /\ Threads(pc, l, q)
      /\ UNCHANGED <<rt, lua>>
      /\ Len(w.room[r].players) = Capacity /\ w.room[r].started # TRUE
      /\ z = Append(q, r) /\ v = Begun(w, r)
  BY <1>1 DEF IInv, StartGame, Main, Begun
<1>3. w \in Servers /\ Households(w, Lobby, Lobby)
  BY <1>2 DEF Good
<1>4. w.room[r].life = "live" /\ w.room[r].started = FALSE
  <2>1. w.room[r].life \in {"none", "live", "freed"} /\ w.room[r].started \in BOOLEAN
    BY <1>3 DEF Servers, RoomState
  <2>2. w.room[r].players # <<>>
    BY <1>2, LifecycleConstants
  <2> QED
    BY <1>2, <1>3, <2>1, <2>2 DEF Households, Empty
<1>5. /\ Good(v, Lobby, Lobby) /\ Aside(w, v, r) /\ v.made = w.made
      /\ v.room[r].started = TRUE /\ v.room[r].life = "live"
  BY <1>2, <1>4, BegunStep
<1>6. InPlay(w, pc, l, q, r)
  BY <1>2 DEF Games
<1>7. ~Queued(q, r) /\ ~Registering(pc, r) /\ (l[r] = {} \/ Closing(pc, r))
  BY <1>4, <1>6 DEF InPlay
<1>8. q \in Seq(Rooms) /\ Once(q)
  BY <1>2 DEF Threads, Games
<1>9. Once(z) /\ \A p \in Rooms : Queued(z, p) <=> Queued(q, p) \/ p = r
  BY <1>2, <1>7, <1>8, OnceAppend
<1>10. z \in Seq(Rooms)
  BY <1>2, <1>8
<1>11. InPlay(v, pc, l, z, r)
  <2>1. v.room[r].refs = w.room[r].refs
    BY <1>5 DEF Aside
  <2> QED
    BY <1>5, <1>6, <1>7, <2>1 DEF InPlay
<1>12. ASSUME NEW p \in Rooms, p # r PROVE InPlay(v, pc, l, z, p)
  <2>1. InPlay(w, pc, l, q, p)
    BY <1>2 DEF Games
  <2>2. /\ v.room[p].refs = w.room[p].refs /\ v.room[p].life = w.room[p].life
        /\ v.room[p].started = w.room[p].started
        /\ w.room[p].started = TRUE /\ HumanIn(w, p) => HumanIn(v, p)
    BY <1>5, <1>12 DEF Aside
  <2>3. Queued(z, p) <=> Queued(q, p)
    BY <1>9, <1>12
  <2> QED
    BY <2>1, <2>2, <2>3 DEF InPlay
<1>13. Scanning(v, pc)
  BY <1>2, <1>5, ScanningOn DEF Games, Aside
<1>14. Games(v, pc, l, z)
  BY <1>9, <1>11, <1>12, <1>13 DEF Games
<1>15. Threads(pc, l, z)
  BY <1>2, <1>10 DEF Threads
<1>16. pc = rt' /\ l = lua' /\ z = newrooms' /\ v = server'
  BY <1>1, <1>2
<1> QED
  BY <1>5, <1>14, <1>15, <1>16 DEF IInv

LEMMA FindRoomInv ==
  ASSUME IInv, FindRoom
  PROVE  IInv'
<1>1. PICK w, pc, l, q, z, d :
        w = server /\ pc = rt /\ l = lua /\ q = newrooms /\ z = newrooms' /\ d = rt'
  OBVIOUS
<1> DEFINE r == Head(q)
<1>2. /\ Good(w, Lobby, Lobby) /\ Games(w, pc, l, q) /\ Threads(pc, l, q)
      /\ UNCHANGED <<server, lua>> /\ pc.at = "idle" /\ q # <<>> /\ z = Tail(q)
      /\ d = IF r \in w.rooms THEN [AtRest EXCEPT !.at = "register", !.room = r] ELSE pc
  BY <1>1 DEF IInv, FindRoom
<1>3. q \in Seq(Rooms) /\ Once(q) /\ pc \in Pcs
  BY <1>2 DEF Threads, Games
<1>4. /\ Once(z) /\ z \in Seq(Rooms) /\ r \in Rooms
      /\ \A p \in Rooms : Queued(z, p) <=> Queued(q, p) /\ p # r
  BY <1>2, <1>3, OnceTail
<1>5. Queued(q, r)
  BY <1>2, <1>3, Beheaded DEF Queued
<1> HIDE DEF r
<1>6. ASSUME NEW p \in Rooms PROVE InPlay(w, pc, l, q, p) /\ ~Registering(pc, p) /\ ~Closing(pc, p)
  BY <1>2 DEF Games, Registering, Closing
<1>7. CASE r \in w.rooms
  <2>1. d = [AtRest EXCEPT !.at = "register", !.room = r]
    BY <1>2, <1>7
  <2>2. /\ d.at = "register" /\ d.room = r /\ d.players = <<>> /\ d.to_delete = <<>>
        /\ d \in Pcs
    <3>1. d = [at |-> "register", room |-> r, players |-> <<>>, to_delete |-> <<>>]
      BY <2>1 DEF AtRest
    <3>2. <<>> \in Seq(Objs) /\ r \in Rooms \cup {Lobby}
      BY <1>4
    <3> QED
      BY <3>1, <3>2 DEF Pcs
  <2> HIDE DEF r
  <2>3. w.room[r].life = "live" /\ HumanIn(w, r)
    <3>1. r # Lobby
      BY <1>2, <1>4, MadeObjs DEF Good
    <3> QED
      BY <1>2, <1>7, <3>1 DEF Good, Households, Found
  <2>4. ASSUME NEW p \in Rooms PROVE InPlay(w, d, l, z, p)
    <3>1. Registering(d, p) <=> p = r
      BY <2>2 DEF Registering
    <3>2. ~Closing(d, p)
      BY <2>2 DEF Closing
    <3> QED
      BY <1>4, <1>5, <1>6, <2>3, <3>1, <3>2 DEF InPlay
  <2>5. Scanning(w, d)
    BY <2>2 DEF Scanning, ToSet
  <2>6. Games(w, d, l, z)
    BY <1>4, <2>4, <2>5 DEF Games
  <2>7. Threads(d, l, z)
    BY <1>2, <1>4, <2>2 DEF Threads
  <2>8. d = rt' /\ l = lua' /\ z = newrooms' /\ w = server'
    BY <1>1, <1>2
  <2> QED
    BY <1>2, <2>6, <2>7, <2>8 DEF IInv
<1>8. CASE r \notin w.rooms
  <2>1. d = pc
    BY <1>2, <1>8
  <2>2. ASSUME NEW p \in Rooms PROVE InPlay(w, pc, l, z, p)
    BY <1>4, <1>6 DEF InPlay
  <2>3. Games(w, pc, l, z)
    BY <1>2, <1>4, <2>2 DEF Games
  <2>4. Threads(pc, l, z)
    BY <1>2, <1>4 DEF Threads
  <2>5. pc = rt' /\ l = lua' /\ z = newrooms' /\ w = server'
    BY <1>1, <1>2, <2>1
  <2> QED
    BY <1>2, <2>3, <2>4, <2>5 DEF IInv
<1> QED
  BY <1>7, <1>8

\* A step that ends the program leaves nothing to be shown of the games.
LEMMA FaultInv ==
  ASSUME NEW w, NEW at \in Faults \ {"none"}, IInv, Running, w = server,
         server' = Fault(w, at), rt' \in {rt, AtRest}, UNCHANGED <<lua, newrooms>>
  PROVE  IInv'
<1>1. PICK v, pc, d, l, q :
        v = server' /\ pc = rt /\ d = rt' /\ l = lua /\ q = newrooms
  OBVIOUS
<1>2. Good(w, Lobby, Lobby) /\ Threads(pc, l, q) /\ w \in Servers
  BY <1>1 DEF IInv, Good
<1>3. v = Fault(w, at) /\ d \in {pc, AtRest} /\ w.fault = "none" /\ l = lua' /\ q = newrooms'
  BY <1>1 DEF Running
<1>4. Quiet(w, v)
  BY <1>2, <1>3, FaultQuiet
<1>5. Good(v, Lobby, Lobby)
  BY <1>2, <1>4, QuietGood
<1>6. v.fault # "none"
  <2>1. v.fault = at
    BY <1>2, <1>3 DEF Fault, Servers
  <2> QED
    BY <2>1
<1>7. Threads(d, l, q)
  <2>1. AtRest \in Pcs /\ AtRest.at = "idle"
    BY DEF AtRest, Pcs
  <2> QED
    BY <1>2, <1>3, <2>1 DEF Threads
<1> QED
  BY <1>1, <1>3, <1>5, <1>6, <1>7 DEF IInv, Running

LEMMA RegisterRoomInv ==
  ASSUME IInv, RegisterRoom
  PROVE  IInv'
<1>1. PICK w, v, pc, l, k, q :
        w = server /\ v = server' /\ pc = rt /\ l = lua /\ k = lua' /\ q = newrooms
  OBVIOUS
<1> DEFINE r == pc.room
<1>2. /\ Good(w, Lobby, Lobby) /\ Games(w, pc, l, q) /\ Threads(pc, l, q)
      /\ pc.at = "register" /\ Running /\ rt' = AtRest /\ UNCHANGED newrooms
      /\ w.room[r].life = "freed" => v = Fault(w, "register") /\ k = l
      /\ w.room[r].life # "freed" =>
           /\ v = [w EXCEPT !.room[r].refs = @ + 1]
           /\ k = [l EXCEPT ![r] = ToSet(w.room[r].players)]
  BY <1>1 DEF IInv, RegisterRoom, Game
<1>3. r \in Rooms /\ l \in [Rooms -> SUBSET Objs] /\ w \in Servers /\ q \in Seq(Rooms)
  BY <1>2 DEF Threads, Good
<1>4. PICK p \in Rooms : p = r
  BY <1>3
<1>5. /\ w.room[p].life = "freed" => v = Fault(w, "register") /\ k = l
      /\ w.room[p].life # "freed" =>
           /\ v = [w EXCEPT !.room[p].refs = @ + 1]
           /\ k = [l EXCEPT ![p] = ToSet(w.room[p].players)]
      /\ Registering(pc, p)
  BY <1>2, <1>4 DEF Registering
<1> HIDE DEF r
<1>6. CASE w.room[p].life = "freed"
  <2>1. "register" \in Faults \ {"none"}
    BY DEF Faults
  <2>2. server' = Fault(w, "register") /\ UNCHANGED <<lua, newrooms>> /\ rt' \in {rt, AtRest}
    BY <1>1, <1>2, <1>5, <1>6
  <2> QED
    BY <1>1, <1>2, <2>1, <2>2, FaultInv
<1>7. CASE w.room[p].life # "freed"
  <2>1. InPlay(w, pc, l, q, p)
    BY <1>2 DEF Games
  <2>2. /\ l[p] = {} /\ ~Queued(q, p) /\ w.room[p].started = TRUE /\ w.room[p].refs = 0
        /\ w.room[p].life # "none"
    <3>1. l[p] = {} /\ ~Queued(q, p) /\ w.room[p].started = TRUE /\ w.room[p].refs = 0
      BY <1>5, <1>7, <2>1 DEF InPlay
    <3>2. w.room[p].life = "live"
      BY <1>2, <3>1 DEF Good, Households, Empty
    <3> QED
      BY <3>1, <3>2
  <2>3. w.room[p].life = "live" /\ HumanIn(w, p)
    <3>1. w.room[p].life = "live"
      BY <1>2, <2>2 DEF Good, Households, Empty
    <3> QED
      BY <1>5, <2>1, <3>1 DEF InPlay
  <2>4. ToSet(w.room[p].players) \in SUBSET Objs /\ ToSet(w.room[p].players) # {}
    BY <1>3, <2>3, GoodTypes DEF HumanIn
  <2> DEFINE R == [w.room[p] EXCEPT !.refs = 1]
             z == SetRoom(w, p, R)
  <2>5. v = z
    BY <1>3, <1>5, <1>7, <2>2 DEF SetRoom, Servers
  <2>6. w.room[p] \in RoomState
    BY <1>3, GoodTypes
  <2>7. /\ R \in RoomState /\ R.players = w.room[p].players /\ R.owner = w.room[p].owner
        /\ R.started = w.room[p].started /\ R.abandoned = w.room[p].abandoned
        /\ R.refs = 1 /\ R.life = w.room[p].life
        /\ R.observers = w.room[p].observers /\ R.rejected = w.room[p].rejected
    BY <2>6 DEF RoomState
  <2> HIDE DEF R
  <2>8. Amended(w.room[p], R)
    BY <2>3, <2>7 DEF Amended
  <2>9. Amends(w, z, p) /\ z.room[p] = R
    BY <1>3, <2>7, <2>8, AmendIs
  <2> HIDE DEF z
  <2>10. Amends(w, v, p) /\ v.room[p] = R /\ v.room[p].refs # 0
    BY <2>5, <2>7, <2>9
  <2>11. Good(v, Lobby, Lobby)
    BY <1>2, <2>10, AmendKept
  <2>12. k \in [Rooms -> SUBSET Objs] /\ k[p] = ToSet(w.room[p].players)
         /\ \A s \in Rooms : s # p => k[s] = l[s]
    BY <1>3, <1>5, <1>7, <2>4
  <2>13. /\ AtRest \in Pcs /\ AtRest.at = "idle" /\ AtRest.players = <<>>
         /\ AtRest.to_delete = <<>>
    BY DEF AtRest, Pcs
  <2>14. \A s \in Rooms : ~Registering(AtRest, s) /\ ~Closing(AtRest, s)
    BY <2>13 DEF Registering, Closing
  <2>15. InPlay(v, AtRest, k, q, p)
    <3>1. v.room[p].refs = 1 /\ v.room[p].life = "live" /\ v.room[p].started = TRUE
      BY <2>2, <2>3, <2>7, <2>10
    <3>2. k[p] # {}
      BY <2>4, <2>12
    <3> QED
      BY <2>2, <2>14, <3>1, <3>2 DEF InPlay
  <2>16. ASSUME NEW s \in Rooms, s # p PROVE InPlay(v, AtRest, k, q, s)
    <3>1. InPlay(w, pc, l, q, s) /\ v.room[s] = w.room[s] /\ k[s] = l[s]
      BY <1>2, <2>10, <2>12, <2>16 DEF Games, Amends
    <3>2. ~Closing(pc, s)
      BY <1>2 DEF Closing
    <3> QED
      BY <2>14, <3>1, <3>2 DEF InPlay
  <2>17. Scanning(v, AtRest)
    BY <2>13 DEF Scanning, ToSet
  <2>18. Games(v, AtRest, k, q)
    BY <1>2, <2>15, <2>16, <2>17 DEF Games
  <2>19. Threads(AtRest, k, q)
    BY <1>3, <2>12, <2>13 DEF Threads
  <2>20. rt' = AtRest /\ k = lua' /\ q = newrooms' /\ v = server'
    BY <1>1, <1>2
  <2> QED
    BY <2>11, <2>18, <2>19, <2>20 DEF IInv
<1> QED
  BY <1>6, <1>7

\* The room thread's own steps that change only what it is doing.
LEMMA GameInv ==
  ASSUME NEW w, NEW v, NEW pc, NEW d, NEW l, NEW q,
         IInv, w = server, v = server', pc = rt, d = rt', l = lua, q = newrooms,
         UNCHANGED <<lua, newrooms>>, Good(v, Lobby, Lobby), d \in Pcs,
         d.at # "idle" => d.room \in Rooms, Games(v, d, l, q)
  PROVE  IInv'
<1>1. Threads(pc, l, q)
  BY DEF IInv
<1>2. Threads(d, l, q)
  BY <1>1 DEF Threads
<1>3. d = rt' /\ l = lua' /\ q = newrooms'
  OBVIOUS
<1> QED
  BY <1>2, <1>3 DEF IInv

LEMMA GameOverInv ==
  ASSUME IInv, NEW r \in Rooms, GameOver(r)
  PROVE  IInv'
<1>1. PICK w, v, pc, d, l, q :
        w = server /\ v = server' /\ pc = rt /\ d = rt' /\ l = lua /\ q = newrooms
  OBVIOUS
<1> DEFINE bad == w.room[r].life = "freed" \/ \E o \in l[r] : w.obj[o].life = "freed"
           c == [AtRest EXCEPT !.at = "close", !.room = r]
           s == [AtRest EXCEPT !.at = "scan", !.room = r, !.players = w.room[r].players]
<1>2. /\ Good(w, Lobby, Lobby) /\ Games(w, pc, l, q) /\ Threads(pc, l, q) /\ Running
      /\ UNCHANGED <<lua, newrooms>> /\ pc.at = "idle" /\ l[r] # {}
      /\ bad => v = Fault(w, "lua") /\ d = pc
      /\ ~bad /\ w.room[r].started # TRUE => v = w /\ d = c
      /\ ~bad /\ w.room[r].started = TRUE => v = Ended(w, r) /\ d = s
  BY <1>1 DEF IInv, GameOver, Game, Good, Servers, RoomState
<1>3. w \in Servers /\ \A p \in Rooms : ~Registering(pc, p) /\ ~Closing(pc, p)
  BY <1>2 DEF Good, Registering, Closing
<1>4. \A p \in Rooms : InPlay(w, pc, l, q, p)
  BY <1>2 DEF Games
<1>5. ~Queued(q, r)
  BY <1>2, <1>3, <1>4 DEF InPlay
<1>6. CASE bad
  <2>1. "lua" \in Faults \ {"none"}
    BY DEF Faults
  <2>2. server' = Fault(w, "lua") /\ rt' \in {rt, AtRest}
    BY <1>1, <1>2, <1>6
  <2> QED
    BY <1>1, <1>2, <2>1, <2>2, FaultInv
<1>7. CASE ~bad /\ w.room[r].started # TRUE
  <2>1. c = [at |-> "close", room |-> r, players |-> <<>>, to_delete |-> <<>>]
    <3>1. PICK e : e = c
      OBVIOUS
    <3>2. e = [at |-> "close", room |-> r, players |-> <<>>, to_delete |-> <<>>]
      BY <3>1 DEF AtRest
    <3> QED
      BY <3>1, <3>2
  <2>2. <<>> \in Seq(Objs)
    OBVIOUS
  <2>3. c \in Pcs /\ c.at = "close" /\ c.room = r /\ c.players = <<>> /\ c.to_delete = <<>>
    BY <2>1, <2>2 DEF Pcs
  <2> HIDE DEF c, bad, s
  <2>4. v = w /\ d = c
    BY <1>2, <1>7
  <2>5. \A p \in Rooms : ~Registering(c, p) /\ (Closing(c, p) <=> p = r)
    BY <2>3 DEF Registering, Closing
  <2>6. \A p \in Rooms : InPlay(w, c, l, q, p)
    BY <1>2, <1>3, <1>4, <2>5 DEF InPlay
  <2>7. Scanning(w, c)
    BY <2>3 DEF Scanning, ToSet
  <2>8. Games(w, c, l, q)
    BY <1>2, <2>6, <2>7 DEF Games
  <2>9. Good(v, Lobby, Lobby) /\ d \in Pcs /\ d.room \in Rooms /\ Games(v, d, l, q)
    BY <1>2, <2>3, <2>4, <2>8
  <2> QED
    BY <1>1, <1>2, <2>9, GameInv
<1>8. CASE ~bad /\ w.room[r].started = TRUE
  <2>0. w.room[r].players \in Seq(Objs)
    BY <1>3, GoodTypes
  <2>1. s = [at |-> "scan", room |-> r, players |-> w.room[r].players, to_delete |-> <<>>]
    <3>1. PICK e : e = s
      OBVIOUS
    <3>2. e = [at |-> "scan", room |-> r, players |-> w.room[r].players,
               to_delete |-> <<>>]
      BY <3>1 DEF AtRest
    <3> QED
      BY <3>1, <3>2
  <2>2. <<>> \in Seq(Objs)
    OBVIOUS
  <2>3. s \in Pcs /\ s.at = "scan" /\ s.room = r /\ s.players = w.room[r].players
        /\ s.to_delete = <<>>
    BY <2>0, <2>1, <2>2 DEF Pcs
  <2> HIDE DEF c, bad, s
  <2>4. v = Ended(w, r) /\ d = s
    BY <1>2, <1>8
  <2>5. \A p \in Rooms : ~Registering(s, p) /\ (Closing(s, p) <=> p = r)
    BY <2>3 DEF Registering, Closing
  <2>6. /\ Good(v, Lobby, Lobby) /\ Aside(w, v, r) /\ v.made = w.made
        /\ v.room[r].life = w.room[r].life /\ v.room[r].refs = w.room[r].refs
    BY <1>2, <2>4, EndedStep
  <2>7. InPlay(v, s, l, q, r)
    BY <1>2, <1>4, <1>5, <2>5, <2>6 DEF InPlay
  <2>8. ASSUME NEW p \in Rooms, p # r PROVE InPlay(v, s, l, q, p)
    <3>1. InPlay(w, pc, l, q, p)
      BY <1>4
    <3>2. /\ v.room[p].refs = w.room[p].refs /\ v.room[p].life = w.room[p].life
          /\ v.room[p].started = w.room[p].started
      BY <2>6, <2>8 DEF Aside
    <3> QED
      BY <1>3, <2>5, <2>8, <3>1, <3>2 DEF InPlay
  <2>9. Scanning(v, s)
    <3>1. ToSet(w.room[r].players) \subseteq Made(w)
      BY <1>2 DEF Good, Sessions, Seated
    <3> QED
      BY <2>3, <2>6, <3>1 DEF Scanning, ToSet, Made
  <2>10. Games(v, s, l, q)
    BY <1>2, <2>7, <2>8, <2>9 DEF Games
  <2>11. d \in Pcs /\ d.room \in Rooms /\ Games(v, d, l, q)
    BY <2>3, <2>4, <2>10
  <2> QED
    BY <1>1, <1>2, <2>6, <2>11, GameInv
<1> QED
  BY <1>6, <1>7, <1>8

LEMMA ScanInv ==
  ASSUME IInv, Scan
  PROVE  IInv'
<1>1. PICK w, v, pc, d, l, q :
        w = server /\ v = server' /\ pc = rt /\ d = rt' /\ l = lua /\ q = newrooms
  OBVIOUS
<1> DEFINE o   == Head(pc.players)
           bad == w.room[pc.room].life = "freed" \/ w.obj[o].life = "freed"
           z   == IF Banned(w, o) THEN Post(w, "kick", w.players[w.obj[o].user]) ELSE w
           n   == IF Online(w, o) THEN pc.to_delete ELSE Append(pc.to_delete, o)
<1>2. /\ Good(w, Lobby, Lobby) /\ Games(w, pc, l, q) /\ Threads(pc, l, q) /\ Running
      /\ UNCHANGED <<lua, newrooms>> /\ pc.at = "scan" /\ pc.players # <<>>
      /\ bad => v = Fault(w, "scan") /\ d = pc
      /\ ~bad => v = z /\ d = [pc EXCEPT !.players = Tail(@),
                                         !.to_delete = IF Online(w, o) THEN @ ELSE Append(@, o)]
  BY <1>1 DEF IInv, Scan, Game, RoomFreed
<1>3. w \in Servers /\ Sessions(w) /\ pc \in Pcs /\ pc.room \in Rooms
  BY <1>2 DEF Good, Threads
<1>4. /\ pc.players \in Seq(Objs) /\ pc.to_delete \in Seq(Objs)
      /\ ToSet(pc.players) \subseteq Made(w) /\ ToSet(pc.to_delete) \subseteq Made(w)
  BY <1>2, <1>3 DEF Pcs, Games, Scanning
<1>5. /\ o \in Objs /\ o \in ToSet(pc.players)
      /\ Tail(pc.players) \in Seq(Objs) /\ ToSet(Tail(pc.players)) \subseteq Made(w)
  BY <1>2, <1>4, Beheaded
<1>6. CASE bad
  <2>1. "scan" \in Faults \ {"none"}
    BY DEF Faults
  <2>2. server' = Fault(w, "scan") /\ rt' \in {rt, AtRest}
    BY <1>1, <1>2, <1>6
  <2> QED
    BY <1>1, <1>2, <2>1, <2>2, FaultInv
<1>7. CASE ~bad
  <2>1. n \in Seq(Objs) /\ ToSet(n) \subseteq Made(w)
    <3>1. /\ Append(pc.to_delete, o) \in Seq(Objs)
          /\ ToSet(Append(pc.to_delete, o)) = ToSet(pc.to_delete) \cup {o}
      BY <1>4, <1>5, Appended
    <3> HIDE DEF o
    <3> QED
      BY <1>4, <1>5, <3>1
  <2>2. d = [pc EXCEPT !.players = Tail(pc.players), !.to_delete = n]
    BY <1>2, <1>3, <1>7 DEF Pcs
  <2>3. v = z
    BY <1>2, <1>7
  <2> HIDE DEF n, bad
  <2>4. /\ d.at = pc.at /\ d.room = pc.room /\ d.players = Tail(pc.players)
        /\ d.to_delete = n /\ d \in Pcs
    BY <1>3, <1>5, <2>1, <2>2 DEF Pcs
  <2>5. Quiet(w, z)
    <3>1. CASE Banned(w, o)
      <4> DEFINE p == w.players[w.obj[o].user]
      <4>1. p # Nobody /\ w.obj[o].user \in Users
        BY <1>3, <1>5, <3>1, GoodTypes DEF Banned, Human
      <4>2. p \in Made(w) /\ Human(w, p)
        BY <1>3, <4>1, KnownPlayers
      <4> HIDE DEF p
      <4>3. Quiet(w, Post(w, "kick", p))
        BY <1>3, <4>2, PostQuiet
      <4> QED
        BY <3>1, <4>3 DEF p
    <3>2. CASE ~Banned(w, o)
      BY <1>3, <3>2, QuietSelf
    <3> QED
      BY <3>1, <3>2
  <2> HIDE DEF z, o
  <2>6. Good(v, Lobby, Lobby) /\ Onward(w, v)
    BY <1>2, <2>3, <2>5, QuietStep
  <2>7. Games(v, pc, l, q)
    BY <1>2, <2>6, GamesOnward
  <2>8. Games(v, d, l, q)
    <3>1. \A p \in Rooms : /\ Registering(d, p) <=> Registering(pc, p)
                           /\ Closing(d, p) <=> Closing(pc, p)
      BY <2>4 DEF Registering, Closing
    <3>2. \A p \in Rooms : InPlay(v, d, l, q, p)
      BY <2>7, <3>1 DEF Games, InPlay
    <3>3. Scanning(v, d)
      BY <1>5, <2>1, <2>4, <2>6 DEF Scanning, Onward
    <3> QED
      BY <2>7, <3>2, <3>3 DEF Games
  <2> QED
    BY <1>1, <1>2, <1>3, <2>4, <2>6, <2>8, GameInv
<1> QED
  BY <1>6, <1>7

LEMMA DeleteScannedInv ==
  ASSUME IInv, DeleteScanned
  PROVE  IInv'
<1>1. PICK w, v, pc, d, l, q :
        w = server /\ v = server' /\ pc = rt /\ d = rt' /\ l = lua /\ q = newrooms
  OBVIOUS
<1> DEFINE r   == pc.room
           bad == w.room[r].life = "freed"
                    \/ \E o \in ToSet(pc.to_delete) : w.obj[o].life = "freed"
           z   == DeleteAll(w, pc.to_delete)
           c   == [AtRest EXCEPT !.at = "close", !.room = r]
<1>2. /\ Good(w, Lobby, Lobby) /\ Games(w, pc, l, q) /\ Threads(pc, l, q) /\ Running
      /\ UNCHANGED <<lua, newrooms>> /\ pc.at = "scan"
      /\ bad => v = Fault(w, "scan") /\ d = pc
      /\ ~bad => v = SetInside(z, r, FALSE) /\ d = c
  BY <1>1 DEF IInv, DeleteScanned, Game, RoomFreed, SetInside
<1>3. w \in Servers /\ pc \in Pcs /\ r \in Rooms
  BY <1>2 DEF Good, Threads
<1>4. pc.to_delete \in Seq(Objs) /\ ToSet(pc.to_delete) \subseteq Made(w)
  BY <1>2, <1>3 DEF Pcs, Games, Scanning
<1>5. CASE bad
  <2>1. "scan" \in Faults \ {"none"}
    BY DEF Faults
  <2>2. server' = Fault(w, "scan") /\ rt' \in {rt, AtRest}
    BY <1>1, <1>2, <1>5
  <2> QED
    BY <1>1, <1>2, <2>1, <2>2, FaultInv
<1>6. CASE ~bad
  <2>1. c \in Pcs /\ c.at = "close" /\ c.room = r /\ c.players = <<>> /\ c.to_delete = <<>>
    <3>1. PICK e : e = c
      OBVIOUS
    <3>2. e = [at |-> "close", room |-> r, players |-> <<>>, to_delete |-> <<>>]
      BY <3>1 DEF AtRest
    <3>3. <<>> \in Seq(Objs)
      OBVIOUS
    <3> HIDE DEF c
    <3>4. e \in Pcs
      BY <1>3, <3>2, <3>3 DEF Pcs
    <3>5. e.at = "close" /\ e.room = r /\ e.players = <<>> /\ e.to_delete = <<>>
      BY <3>2
    <3> QED
      BY <3>1, <3>4, <3>5
  <2> HIDE DEF c, bad
  <2>2. v = SetInside(z, r, FALSE) /\ d = c
    BY <1>2, <1>6
  <2>3. pc.to_delete \in Seq(Made(w))
    BY <1>4, SeqIn
  <2>4. Quiet(w, z)
    BY <1>3, <2>3, DeleteAllQuiet
  <2>5. z \in Servers
    BY <2>4 DEF Quiet
  <2> HIDE DEF z, r
  <2>6. Quiet(z, SetInside(z, r, FALSE))
    BY <1>3, <2>5, InsideQuiet
  <2>7. Quiet(w, v)
    BY <1>3, <2>2, <2>4, <2>6, QuietTwice
  <2>8. Good(v, Lobby, Lobby) /\ Onward(w, v)
    BY <1>2, <2>7, QuietStep
  <2>9. Games(v, pc, l, q)
    BY <1>2, <2>8, GamesOnward
  <2>10. Games(v, c, l, q)
    <3>1. \A p \in Rooms : /\ ~Registering(c, p) /\ ~Registering(pc, p)
                           /\ Closing(c, p) <=> Closing(pc, p)
      BY <1>2, <2>1 DEF Registering, Closing, r
    <3>2. \A p \in Rooms : InPlay(v, c, l, q, p)
      BY <2>9, <3>1 DEF Games, InPlay
    <3>3. Scanning(v, c)
      BY <2>1 DEF Scanning, ToSet
    <3> QED
      BY <2>9, <3>2, <3>3 DEF Games
  <2>11. d \in Pcs /\ d.room \in Rooms /\ Games(v, d, l, q)
    BY <1>3, <2>1, <2>2, <2>10
  <2> QED
    BY <1>1, <1>2, <2>8, <2>11, GameInv
<1> QED
  BY <1>5, <1>6

\* The room thread gives up its reference.
Released(w, r) == [w EXCEPT !.room[r].refs = @ - 1]

LEMMA ReleasedStep ==
  ASSUME NEW w, Good(w, Lobby, Lobby), NEW r \in Rooms, w.room[r].refs = 1,
         w.room[r].life # "freed", w.room[r].life # "none"
  PROVE  LET v == Released(w, r)
             z == IF v.room[r].refs = 0 /\ v.room[r].abandoned
                  THEN Post(v, "deleteRoom", r) ELSE v
         IN /\ Good(z, Lobby, Lobby)
            /\ z.room[r].refs = 0 /\ z.room[r].life = "live" /\ z.made = w.made
            /\ z.room[r].started = w.room[r].started
            /\ \A p \in Rooms : p # r => z.room[p] = w.room[p]
            /\ \A p \in Rooms : HumanIn(w, p) => HumanIn(z, p)
<1> DEFINE R == [w.room[r] EXCEPT !.refs = 0]
           v == SetRoom(w, r, R)
           z == IF v.room[r].refs = 0 /\ v.room[r].abandoned
                THEN Post(v, "deleteRoom", r) ELSE v
<1>1. w \in Servers
  BY DEF Good
<1>2. w.room[r] \in RoomState /\ w.room[r].abandoned \in BOOLEAN /\ w.room[r].life = "live"
  <2>1. w.room[r] \in RoomState
    BY <1>1, GoodTypes
  <2> QED
    BY <2>1 DEF RoomState
<1>3. Released(w, r) = v
  BY <1>1 DEF Released, SetRoom, Servers
<1>4. /\ R \in RoomState /\ R.players = w.room[r].players /\ R.owner = w.room[r].owner
      /\ R.started = w.room[r].started /\ R.abandoned = w.room[r].abandoned
      /\ R.refs = 0 /\ R.life = w.room[r].life
      /\ R.observers = w.room[r].observers /\ R.rejected = w.room[r].rejected
  BY <1>2 DEF RoomState
<1> HIDE DEF R
<1>5. Amended(w.room[r], R)
  BY <1>2, <1>4 DEF Amended
<1>6. Amends(w, v, r) /\ v.room[r] = R
  BY <1>1, <1>4, <1>5, AmendIs
<1> HIDE DEF v
<1>7. v.room[r].refs = 0 /\ v.room[r].life = "live" /\ v.made = w.made
      /\ v.room[r].started = w.room[r].started
      /\ v.room[r].abandoned = w.room[r].abandoned
      /\ \A p \in Rooms : p # r => v.room[p] = w.room[p]
  BY <1>2, <1>4, <1>6 DEF Amends
<1>8. \A p \in Rooms : HumanIn(w, p) => HumanIn(v, p)
  <2>1. v.obj = w.obj /\ v.room[r].players = w.room[r].players
    BY <1>4, <1>6 DEF Amends
  <2> QED
    BY <1>7, <2>1 DEF HumanIn, Human
<1>9. CASE w.room[r].abandoned = TRUE
  <2>1. Good(v, r, Lobby)
    BY <1>6, AmendGood
  <2>2. z = Post(v, "deleteRoom", r)
    BY <1>7, <1>9
  <2> HIDE DEF z
  <2>3. Good(z, Lobby, Lobby) /\ Onward(v, z) /\ z.room = v.room
    <3>1. v.room[r].abandoned = TRUE
      BY <1>7, <1>9
    <3> QED
      BY <1>7, <2>1, <2>2, <3>1, GivenStep
  <2>4. z.made = w.made
    BY <1>7, <2>2 DEF Post
  <2>5. \A p \in Rooms : HumanIn(v, p) => HumanIn(z, p)
    <3>1. z.obj = v.obj
      BY <2>2 DEF Post
    <3> QED
      BY <2>3, <3>1 DEF HumanIn, Human
  <2> QED
    BY <1>3, <1>7, <1>8, <2>3, <2>4, <2>5 DEF z
<1>10. CASE w.room[r].abandoned = FALSE
  <2>1. v.room[r].abandoned = FALSE
    BY <1>7, <1>10
  <2>2. Good(v, Lobby, Lobby)
    BY <1>6, <2>1, AmendKept
  <2>3. z = v
    BY <2>1
  <2> HIDE DEF z
  <2> QED
    BY <1>3, <1>7, <1>8, <2>2, <2>3 DEF z
<1> QED
  BY <1>2, <1>9, <1>10

LEMMA CloseRoomInv ==
  ASSUME IInv, CloseRoom
  PROVE  IInv'
<1>1. PICK w, v, pc, l, k, q :
        w = server /\ v = server' /\ pc = rt /\ l = lua /\ k = lua' /\ q = newrooms
  OBVIOUS
<1>2. /\ Good(w, Lobby, Lobby) /\ Games(w, pc, l, q) /\ Threads(pc, l, q) /\ Running
      /\ UNCHANGED newrooms /\ pc.at = "close" /\ rt' = AtRest
  BY <1>1 DEF IInv, CloseRoom, Game
<1>3. PICK r \in Rooms : r = pc.room
  BY <1>2 DEF Threads
<1> DEFINE y == Released(w, r)
           z == IF y.room[r].refs = 0 /\ y.room[r].abandoned THEN Post(y, "deleteRoom", r)
                ELSE y
<1>4. /\ k = [l EXCEPT ![r] = {}]
      /\ w.room[r].life = "freed" => v = Fault(w, "close")
      /\ w.room[r].life # "freed" => v = z
  BY <1>1, <1>3 DEF CloseRoom, Game, RoomFreed, Released
<1>5. l \in [Rooms -> SUBSET Objs] /\ q \in Seq(Rooms) /\ w \in Servers
  BY <1>2 DEF Threads, Good
<1>6. Closing(pc, r) /\ \A p \in Rooms : p # r => ~Closing(pc, p)
  BY <1>2, <1>3 DEF Closing
<1>7. \A p \in Rooms : InPlay(w, pc, l, q, p)
  BY <1>2 DEF Games
<1>8. w.room[r].refs = 1 /\ w.room[r].life # "none" /\ l[r] # {}
  BY <1>6, <1>7 DEF InPlay
<1>9. k \in [Rooms -> SUBSET Objs] /\ k[r] = {} /\ \A p \in Rooms : p # r => k[p] = l[p]
  BY <1>4, <1>5
<1>10. /\ AtRest \in Pcs /\ AtRest.at = "idle" /\ AtRest.players = <<>>
       /\ AtRest.to_delete = <<>>
  BY DEF AtRest, Pcs
<1>11. Threads(AtRest, k, q)
  BY <1>5, <1>9, <1>10 DEF Threads
<1>12. rt' = AtRest /\ k = lua' /\ q = newrooms' /\ v = server'
  BY <1>1, <1>2
<1>13. CASE w.room[r].life = "freed"
  <2>1. v = Fault(w, "close")
    BY <1>4, <1>13
  <2>2. "close" \in Faults
    BY DEF Faults
  <2>3. Quiet(w, v)
    BY <1>5, <2>1, <2>2, FaultQuiet
  <2>4. Good(v, Lobby, Lobby)
    BY <1>2, <2>3, QuietGood
  <2>5. v.fault # "none"
    <3>1. w.fault = "none"
      BY <1>1, <1>2 DEF Running
    <3> QED
      BY <1>5, <2>1, <3>1 DEF Fault, Servers
  <2> QED
    BY <1>11, <1>12, <2>4, <2>5 DEF IInv, Running
<1>14. CASE w.room[r].life # "freed"
  <2>1. v = z
    BY <1>4, <1>14
  <2>2. /\ Good(z, Lobby, Lobby)
        /\ z.room[r].refs = 0 /\ z.room[r].life = "live" /\ z.made = w.made
        /\ z.room[r].started = w.room[r].started
        /\ \A p \in Rooms : p # r => z.room[p] = w.room[p]
        /\ \A p \in Rooms : HumanIn(w, p) => HumanIn(z, p)
    BY <1>2, <1>8, <1>14, ReleasedStep
  <2> HIDE DEF z
  <2>3. \A p \in Rooms : ~Registering(AtRest, p) /\ ~Closing(AtRest, p) /\ ~Registering(pc, p)
    BY <1>2, <1>10 DEF Registering, Closing
  <2>5. InPlay(z, AtRest, k, q, r)
    BY <1>7, <1>9, <1>14, <2>2, <2>3 DEF InPlay
  <2>6. ASSUME NEW p \in Rooms, p # r PROVE InPlay(z, AtRest, k, q, p)
    <3>1. InPlay(w, pc, l, q, p) /\ z.room[p] = w.room[p] /\ k[p] = l[p] /\ ~Closing(pc, p)
      BY <1>6, <1>7, <1>9, <2>2, <2>6
    <3> QED
      BY <2>3, <3>1 DEF InPlay
  <2>7. Scanning(z, AtRest)
    BY <1>10 DEF Scanning, ToSet
  <2>8. Games(z, AtRest, k, q)
    BY <1>2, <2>5, <2>6, <2>7 DEF Games
  <2> QED
    BY <1>11, <1>12, <2>1, <2>2, <2>8 DEF IInv
<1> QED
  BY <1>13, <1>14

-----------------------------------------------------------------------------
(* The theorems.                                                            *)

LEMMA InitInv == Init => IInv
<1> SUFFICES ASSUME Init PROVE IInv
  OBVIOUS
<1>1. PICK w, pc, l, q : w = server /\ pc = rt /\ l = lua /\ q = newrooms
  OBVIOUS
<1>2. /\ w = [obj |-> [o \in Objs |-> NoObj], made |-> 0,
              room |-> [r \in Rooms |-> NoRoom], rooms |-> {},
              lobby |-> <<>>, players |-> [u \in Users |-> Nobody],
              posted |-> <<>>, fault |-> "none"]
      /\ pc = AtRest /\ l = [r \in Rooms |-> {}] /\ q = <<>>
  BY <1>1 DEF Init
<1>3. /\ NoRoom.players = <<>> /\ NoRoom.observers = <<>> /\ NoRoom.owner = Nobody
      /\ NoRoom.started = FALSE /\ NoRoom.abandoned = FALSE /\ NoRoom.refs = 0
      /\ NoRoom.rejected = {} /\ NoRoom.life = "none" /\ NoRoom \in RoomState
  BY DEF NoRoom, RoomState
<1>4. /\ NoObj.user = Bot /\ NoObj.state = "Robot" /\ NoObj.socket = "none"
      /\ NoObj.room = Lobby /\ NoObj.life = "none" /\ NoObj \in Player
  BY DEF NoObj, Player
<1>5. /\ \A o \in Objs : w.obj[o] = NoObj
      /\ \A r \in Rooms : w.room[r] = NoRoom
      /\ \A u \in Users : w.players[u] = Nobody
      /\ w.made = 0 /\ w.rooms = {} /\ w.posted = <<>>
  BY <1>2
<1>6. w \in Servers
  <2>1. "none" \in Faults /\ <<>> \in Seq(Event) /\ <<>> \in Seq(Objs) /\ 0 \in 0..MaxObjs
    BY LifecycleConstants DEF Faults
  <2>2. /\ [o \in Objs |-> NoObj] \in [Objs -> Player]
        /\ [r \in Rooms |-> NoRoom] \in [Rooms -> RoomState]
        /\ [u \in Users |-> Nobody] \in [Users -> Objs \cup {Nobody}]
    BY <1>3, <1>4
  <2> QED
    BY <1>2, <2>1, <2>2 DEF Servers
<1>7. Posts(w) = {} /\ ToSet(<<>>) = {} /\ Made(w) = {}
  BY <1>5 DEF Posts, ToSet, Made
<1>8. Sessions(w)
  BY <1>3, <1>4, <1>5, <1>7
  DEF Sessions, Accounts, Sockets, Unmade, RobotsStay, Posted, Seated, Human
<1>9. Households(w, Lobby, Lobby)
  BY <1>3, <1>4, <1>5, <1>7
  DEF Households, Places, Empty, Found, Leaving, Left, Owned
<1>10. /\ AtRest \in Pcs /\ AtRest.at = "idle" /\ AtRest.players = <<>>
       /\ AtRest.to_delete = <<>>
  BY DEF AtRest, Pcs
<1>11. Threads(pc, l, q)
  BY <1>2, <1>10 DEF Threads
<1>12. \A r \in Rooms : l[r] = {} /\ ~Queued(q, r) /\ ~Registering(pc, r) /\ ~Closing(pc, r)
  BY <1>2, <1>7, <1>10 DEF Queued, Registering, Closing
<1>13. Games(w, pc, l, q)
  <2>1. \A r \in Rooms : InPlay(w, pc, l, q, r)
    BY <1>3, <1>5, <1>12 DEF InPlay
  <2>2. Scanning(w, pc)
    BY <1>2, <1>7, <1>10 DEF Scanning
  <2>3. Once(q)
    BY <1>2 DEF Once
  <2> QED
    BY <2>1, <2>2, <2>3 DEF Games
<1> QED
  BY <1>1, <1>6, <1>8, <1>9, <1>11, <1>13 DEF IInv, Good

LEMMA NextInv == IInv /\ [Next]_vars => IInv'
<1> SUFFICES ASSUME IInv, [Next]_vars PROVE IInv'
  OBVIOUS
<1>1. CASE UNCHANGED vars
  BY <1>1 DEF vars, IInv, Running
<1>2. CASE Next
  <2>1. CASE \E u \in Users, b \in BOOLEAN : Login(u, b)
    BY <2>1, LoginInv
  <2>2. CASE \E o \in Objs : Disconnect(o) \/ CreateRoom(o) \/ Heartbeat(o)
    BY <2>2, DisconnectInv, CreateRoomInv, HeartbeatInv
  <2>3. CASE \E o \in Objs, r \in Rooms :
               EnterRoom(o, r) \/ ObserveRoom(o, r) \/ AddRobot(o, r) \/ StartGame(o, r)
    BY <2>3, EnterRoomInv, ObserveRoomInv, AddRobotInv, StartGameInv
  <2>4. CASE \E o \in Objs, r \in Rooms, died, b \in BOOLEAN : QuitRoom(o, r, died, b)
    BY <2>4, QuitRoomInv
  <2>5. CASE \E o \in Objs, r \in Rooms, p \in Objs : KickPlayer(o, r, p)
    BY <2>5, KickPlayerInv
  <2>6. CASE \E r \in Rooms, u \in Users : RemoveRejectId(r, u)
    BY <2>6, RemoveRejectIdInv
  <2>7. CASE \E b \in BOOLEAN : Serve(b)
    BY <2>7, ServeInv
  <2>8. CASE FindRoom \/ RegisterRoom \/ Scan \/ DeleteScanned \/ CloseRoom
    BY <2>8, FindRoomInv, RegisterRoomInv, ScanInv, DeleteScannedInv, CloseRoomInv
  <2>9. CASE \E r \in Rooms : GameOver(r)
    BY <2>9, GameOverInv
  <2> QED
    BY <1>2, <2>1, <2>2, <2>3, <2>4, <2>5, <2>6, <2>7, <2>8, <2>9 DEF Next
<1> QED
  BY <1>1, <1>2

\* The invariant is one: it holds in every state that the program can reach.
THEOREM Invariance == Spec => []IInv
  BY InitInv, NextInv, PTL DEF Spec

\* Every part of the state has its type; a room has one reference exactly
\* while the room thread keeps a Lua room for it (Room::increaseRefCount and
\* decreaseRefCount against registerRoom and the end of Room:resume), and only
\* live rooms can be found by their id.
THEOREM Typing == Spec => []TypeOK
<1>1. ASSUME IInv PROVE TypeOK
  <2>1. PICK w, l : w = server /\ l = lua
    OBVIOUS
  <2>2. Good(w, Lobby, Lobby) /\ w \in Servers
    BY <1>1, <2>1 DEF IInv, Good
  <2>3. w.made \in 0..MaxObjs /\ w.obj \in [Objs -> Player]
        /\ w.players \in [Users -> Objs \cup {Nobody}]
    BY <2>2 DEF Servers
  <2>4. w.rooms \subseteq {r \in Rooms : w.room[r].life = "live"}
    BY <2>2, GoodTypes DEF Good, Households, Found
  <2>5. Running => \A r \in Rooms : w.room[r].refs = IF l[r] = {} THEN 0 ELSE 1
    BY <1>1, <2>1 DEF IInv, Games, InPlay
  <2> QED
    BY <2>1, <2>3, <2>4, <2>5 DEF TypeOK, Player
<1> QED
  BY <1>1, Invariance, PTL

\* An account has at most one connected player, the one Server::findPlayer
\* returns, and findPlayer returns nobody who was deleted, whatever comes
\* between duplicate logins, flights from a game, reconnections and
\* ~ServerPlayer.
THEOREM OneSessionEach == Spec => []OneSession
<1>1. ASSUME IInv PROVE OneSession
  <2>1. PICK w : w = server
    OBVIOUS
  <2>2. Accounts(w) /\ Sockets(w)
    BY <1>1, <2>1 DEF IInv, Good, Sessions
  <2> QED
    BY <2>1, <2>2 DEF OneSession, Accounts, Sockets, Connected
<1> QED
  BY <1>1, Invariance, PTL

\* An abandoned room is deleted by the main thread (onRoomAbandoned) or by
\* the room thread that drops its last reference (decreaseRefCount): when all
\* that was posted is served, and no Lua room is left, it is gone.
THEOREM NoneIsForgotten == Spec => []AbandonedIsFreed
<1>1. ASSUME IInv PROVE AbandonedIsFreed
  <2>1. PICK w, l : w = server /\ l = lua
    OBVIOUS
  <2>2. SUFFICES ASSUME Running, w.posted = <<>>, NEW r \in Rooms,
                        w.room[r].abandoned, l[r] = {}
                 PROVE  w.room[r].life = "freed"
    BY <2>1 DEF AbandonedIsFreed
  <2>3. w \in Servers /\ Households(w, Lobby, Lobby) /\ Lobby \notin Rooms
    BY <1>1, <2>1, MadeObjs DEF IInv, Good
  <2>4. w.room[r].life \in {"none", "live", "freed"} /\ w.room[r].abandoned = TRUE
    BY <2>2, <2>3 DEF Servers, RoomState
  <2>5. w.room[r].refs = 0
    BY <1>1, <2>1, <2>2 DEF IInv, Games, InPlay
  <2>6. Given(r) \notin Posts(w)
    BY <2>2 DEF Posts, ToSet
  <2> QED
    BY <2>3, <2>4, <2>5, <2>6 DEF Households, Empty, Left
<1> QED
  BY <1>1, Invariance, PTL

\* The owner of a room is one of its players, or a robot that inherited the
\* room and was deleted after a game: Room::removePlayer hands the room on in
\* the same step that takes the owner out, however he leaves.
THEOREM OwnersArePresent == Spec => []OwnerPresent
<1>1. ASSUME IInv PROVE OwnerPresent
  <2>1. PICK w : w = server
    OBVIOUS
  <2>2. w \in Servers /\ Owned(w, Lobby) /\ Lobby \notin Rooms
    BY <1>1, <2>1, MadeObjs DEF IInv, Good, Households
  <2>3. \A r \in Rooms : w.room[r].players \in Seq(Objs)
    BY <2>2, GoodTypes
  <2>4. \A r \in Rooms, o \in Objs :
          o \in ToSet(w.room[r].players) => Contains(w.room[r].players, o)
    BY <2>3, ToSetDef DEF Contains
  <2>5. \A r \in Rooms : w.room[r].owner \in Objs \cup {Nobody}
    BY <2>2, GoodTypes
  <2> QED
    BY <2>1, <2>2, <2>4, <2>5 DEF OwnerPresent, Owned
<1> QED
  BY <1>1, Invariance, PTL
=============================================================================
