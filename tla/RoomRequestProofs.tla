-------------------------- MODULE RoomRequestProofs --------------------------
(***************************************************************************)
(* Theorems about RoomRequest, for any table, any number of winners, any   *)
(* time limit and any number of lost connections: types, that replies are  *)
(* noticed, that the AI answers last, that a race is fair, that an answer  *)
(* is the player's own, and who is counted as idle.                        *)
(*                                                                         *)
(* The invariant says where the coroutine is (Place), who has been sent    *)
(* the request (Asking, Connected), keeps account of those still to answer *)
(* and of the winners (Distinct, Limit, Placed, Accounted), says what may  *)
(* be relied on while the AI has its turn (AITurn), that what the Router   *)
(* has recorded answers the question its player looks at (Current), and    *)
(* that a reply which has not been polled is still ahead of the cursor, or *)
(* a wake-up for it on its way (Noticed).                                  *)
(***************************************************************************)
EXTENDS RoomRequest, SequenceTheorems, WellFoundedInduction, TLAPS

-----------------------------------------------------------------------------
(* The invariant.                                                           *)

Replies  == [ask : Nat, seat : Seats \cup {NoSeat},
             value : {"__notready", "ok", "__cancel"}]
Expected == [ask : Nat, seat : Seats] \cup {Nothing}
Given    == [by : {"human"}, value : {"ok", "__cancel", "default"}, ask : Nat,
             seat : Seats \cup {NoSeat}, raw : BOOLEAN]
Computed == [by : {"ai"}, value : {"ok", "__cancel", "default"}, raw : BOOLEAN]
Lost     == [by : {"race"}, value : {"__failed_in_race", "default"}]
Default  == [by : {"nobody"}, value : {"default"}]
Answers  == Given \cup Computed \cup Lost \cup Default \cup {Nil}
Wakes    == [reason : Reasons, of : Nat]
PCs      == {"game", "send", "request", "think", "head", "poll", "wait",
             "waiting", "finish", "delayed", "over"}

\* Types, the parts of the state that the coroutine owns and the shared ones.
Lists ==
  /\ asked \in Seq(Seats) /\ players \in Seq(Seats) /\ winners \in Seq(Seats)
  /\ toSend \in Seq(Seats) /\ order \in Seq(Seats)
  /\ pending_requests \in [Players -> Seq(Seats)]
Locals ==
  /\ pc \in PCs /\ back \in {"head", "poll"}
  /\ result \in [Seats -> Answers]
  /\ send_success \subseteq Users /\ refused \subseteq Players
  /\ ai_started \in BOOLEAN /\ changed \in BOOLEAN /\ resume_reason \in Wakes
  /\ cursor \in Nat /\ view \in [Players -> Seats \cup {NoSeat}]
  /\ hasSurrendered \in BOOLEAN /\ timewaste_count \in [Seats -> Nat]
  /\ unheard \in [Seats -> Nat]
Shared ==
  /\ state \in [Players -> {"Online", "Offline", "Robot"}]
  /\ \A u \in Users : state[u] # "Robot"
  /\ \A u \in Bots : state[u] = "Robot"
  /\ thinking \in [Players -> BOOLEAN]
  /\ m_reply \in [Players -> Replies] /\ expected \in [Players -> Expected]
  /\ timer \in BOOLEAN
Outside ==
  /\ main \in {Idle} \cup ({"replyReady", "onDisconnected"} \X Users)
  /\ relayed \in Seq(Nat) /\ wake \in Seq(Wakes)
  /\ kicks \subseteq Users /\ delays \subseteq Nat /\ dropped \subseteq Users
  /\ age \in Nat /\ parity \in {0, 1}
  /\ ask \in Nat /\ delayed \in Nat /\ drops \in Nat /\ surrenders \in Nat
Types == Lists /\ Locals /\ Shared /\ Outside

Sending == pc \in {"send", "request", "think"}
FirstPass == Sending /\ back = "head"
Addressee == Controller[Head(toSend)]
Sampled(u) == u \in send_success \cup refused

\* Where the coroutine is.
Place ==
  /\ cursor <= Len(players)
  /\ pc \in {"request", "think"} => toSend # <<>> /\ view[Addressee] = Head(toSend)
  /\ pc = "wait" => cursor > 0 /\ Sent(Seat) /\ view[Controller[Seat]] = Seat
  /\ Sending /\ back = "poll" => changed
  /\ FirstPass => ~ai_started
  /\ ai_started => pc \notin {"head", "waiting"}
  /\ pc = "finish" => hasSurrendered \/ (cursor = 0 /\ (ai_started \/ players = <<>>))

\* Who has been sent the request.
Asking ==
  /\ send_success \cap refused = {}
  /\ pc \in {"request", "think"} => Sampled(Addressee)
  /\ \A k \in DOMAIN asked : thinking[Controller[asked[k]]] => Sampled(Controller[asked[k]])
  /\ \A k \in DOMAIN asked :
       \/ Sampled(Controller[asked[k]])
       \/ FirstPass /\ \E j \in DOMAIN toSend : toSend[j] = asked[k]
  /\ \A u \in Players : \A k \in DOMAIN pending_requests[u] :
       Controller[pending_requests[u][k]] = u
  /\ back = "poll" /\ pc = "send" =>
       toSend = <<>> \/ (Len(toSend) = 1 /\ Addressee \in send_success)
  /\ back = "poll" /\ pc \in {"request", "think"} => Len(toSend) = 1
Connected == \A u \in Users : u \in send_success /\ u \notin dropped => Online(u)

\* Who is still to answer, and who has won.
Distinct ==
  /\ IsInjective(players) /\ IsInjective(winners)
  /\ \A j \in DOMAIN winners, k \in DOMAIN players : winners[j] # players[k]
Limit == Len(winners) <= Winners /\ (Len(winners) = Winners => players = <<>>)
Placed ==
  /\ \A k \in DOMAIN winners : result[winners[k]].by \in {"human", "ai"}
  /\ \A s \in Seats : result[s].by = "race" => Len(winners) = Winners
Accounted ==
  \A k \in DOMAIN asked :
    \/ result[asked[k]] # Nil
    \/ \E j \in DOMAIN players : players[j] = asked[k]
    \/ ai_started /\ TimedOut

\* The AI has its turn.
Absent(u) == u \in refused \cup dropped \cup Bots
AITurn ==
  /\ \A s \in Seats : result[s].by = "ai" => ai_started
  /\ ai_started =>
       /\ \A k \in DOMAIN asked :
            result[asked[k]] # Nil \/ Absent(Controller[asked[k]]) \/ TimedOut
       /\ \A k \in DOMAIN players :
            /\ Sent(players[k]) => Controller[players[k]] \in dropped
            /\ k > cursor => Controller[players[k]] \in dropped

\* What the Router has recorded answers the question the player looks at.
Current ==
  \A u \in Users :
    u \in send_success /\ u \notin dropped /\ ~(pc = "request" /\ Addressee = u) =>
      /\ expected[u] = Nothing \/ (expected[u].ask = ask /\ expected[u].seat = view[u])
      /\ m_reply[u].value = "__notready"
           \/ (m_reply[u].ask = ask /\ m_reply[u].seat = view[u])

\* A reply that has not been polled will be.
Replied(s) ==
  /\ Controller[s] \notin dropped /\ Sent(s) /\ view[Controller[s]] = s
  /\ m_reply[Controller[s]].value # "__notready"
Noticed ==
  pc \in {"poll", "wait", "waiting"} /\ wake = <<>> /\ main[1] # "replyReady" =>
    \A k \in DOMAIN players :
      Replied(players[k]) => pc # "waiting" /\ (k <= cursor \/ changed)

Inv == Types /\ Place /\ Asking /\ Connected /\ Distinct /\ Limit /\ Placed
       /\ Accounted /\ AITurn /\ Current /\ Noticed /\ AnswersAreTheirs

-----------------------------------------------------------------------------
(* Lists.                                                                   *)

\* RemoveAt takes one member out.
LEMMA RemoveAtFacts ==
  ASSUME NEW S, NEW s \in Seq(S), NEW i \in 1..Len(s)
  PROVE  /\ RemoveAt(s, i) \in Seq(S)
         /\ Len(RemoveAt(s, i)) = Len(s) - 1
         /\ \A j \in 1..Len(s) - 1 : RemoveAt(s, i)[j] = IF j < i THEN s[j] ELSE s[j + 1]
<1> DEFINE low == SubSeq(s, 1, i - 1)  high == SubSeq(s, i + 1, Len(s))
<1>1. /\ low \in Seq(S) /\ Len(low) = i - 1 /\ \A j \in 1..i - 1 : low[j] = s[j]
      /\ high \in Seq(S) /\ Len(high) = Len(s) - i
      /\ \A j \in 1..Len(s) - i : high[j] = s[i + j]
  OBVIOUS
<1>2. RemoveAt(s, i) = low \o high
  BY DEF RemoveAt
<1> HIDE DEF low, high
<1>3. Len(low \o high) = Len(s) - 1 /\ low \o high \in Seq(S)
  BY <1>1
<1>4. ASSUME NEW j \in 1..Len(s) - 1
      PROVE  (low \o high)[j] = IF j < i THEN s[j] ELSE s[j + 1]
  <2>1. CASE j < i
    BY <2>1, <1>1
  <2>2. CASE ~ (j < i)
    <3>1. j - (i - 1) \in 1..Len(s) - i
      BY <2>2
    <3> QED
      BY <2>2, <3>1, <1>1
  <2> QED
    BY <2>1, <2>2
<1> QED
  BY <1>2, <1>3, <1>4

\* A set of numbers has a least one.
LEMMA Least ==
  ASSUME NEW S \in SUBSET Nat, S # {}
  PROVE  \E x \in S : \A y \in S : x <= y
<1> DEFINE R == OpToRel(<, Nat)
<1>1. IsWellFoundedOn(R, Nat)
  BY NatLessThanWellFounded
<1>2. \A x, y \in Nat : y < x => <<y, x>> \in R
  BY DEF OpToRel
<1> HIDE DEF R
<1>3. PICK x \in S : \A y \in S : ~ (<<y, x>> \in R)
  BY <1>1, WFMin
<1>4. ASSUME NEW y \in S PROVE x <= y
  <2>1. x \in Nat /\ y \in Nat
    BY <1>4
  <2>2. ~ (y < x)
    BY <1>2, <1>3, <1>4, <2>1, Zenon
  <2> QED
    BY <2>1, <2>2
<1> QED
  BY <1>4

\* Induction up to N, for a set of numbers.
LEMMA Upwards ==
  ASSUME NEW N \in Nat, NEW good, 0 \in good, \A n \in 1..N : n - 1 \in good => n \in good
  PROVE  \A n \in 0..N : n \in good
<1> DEFINE bad == {n \in 0..N : n \notin good}
<1> SUFFICES ASSUME bad # {} PROVE FALSE
  OBVIOUS
<1>1. bad \in SUBSET Nat
  OBVIOUS
<1>2. PICK n \in bad : \A m \in bad : n <= m
  BY <1>1, Least
<1>3. n \in 1..N /\ n - 1 \in 0..N /\ n - 1 \notin bad
  BY <1>2
<1> QED
  BY <1>2, <1>3

\* The lists that Without goes through.
KeptOne(list, gone, g, k) ==
  IF list[k] \in gone THEN g[k - 1] ELSE Append(g[k - 1], list[k])
KeptUpTo(list, gone, g, n) ==
  /\ g \in [0..n -> Seq(Seats)] /\ g[0] = <<>>
  /\ \A k \in 1..n : g[k] = KeptOne(list, gone, g, k)

\* They exist, although they are defined one from the other.
LEMMA KeptExists ==
  ASSUME NEW list \in Seq(Seats), NEW gone
  PROVE  \E g : KeptUpTo(list, gone, g, Len(list))
<1> DEFINE N == Len(list)
           good == {n \in 0..N : \E g : KeptUpTo(list, gone, g, n)}
<1>0. N \in Nat
  OBVIOUS
<1>1. 0 \in good
  <2>1. KeptUpTo(list, gone, [k \in 0..0 |-> <<>>], 0)
    BY DEF KeptUpTo
  <2> QED
    BY <1>0, <2>1
<1>2. ASSUME NEW n \in 1..N, n - 1 \in good PROVE n \in good
  <2>1. PICK g : KeptUpTo(list, gone, g, n - 1)
    BY <1>2
  <2> DEFINE h == [k \in 0..n |-> IF k = n THEN KeptOne(list, gone, g, n) ELSE g[k]]
  <2>2. n \in Nat /\ n - 1 \in Nat /\ n \in 1..Len(list) /\ list[n] \in Seats
    BY <1>0
  <2>3. g \in [0..n - 1 -> Seq(Seats)] /\ g[n - 1] \in Seq(Seats)
    BY <2>1, <2>2 DEF KeptUpTo
  <2>4. KeptOne(list, gone, g, n) \in Seq(Seats)
    BY <2>2, <2>3 DEF KeptOne
  <2>5. h \in [0..n -> Seq(Seats)]
    BY <2>2, <2>3, <2>4
  <2>6. h[0] = g[0] /\ \A k \in 1..n - 1 : h[k] = g[k] /\ h[k - 1] = g[k - 1]
    BY <2>2
  <2>7. h[n] = KeptOne(list, gone, g, n) /\ h[n - 1] = g[n - 1]
    BY <2>2
  <2> HIDE DEF h
  <2>8. ASSUME NEW k \in 1..n PROVE h[k] = KeptOne(list, gone, h, k)
    <3>1. CASE k = n
      BY <3>1, <2>7 DEF KeptOne
    <3>2. CASE k # n
      <4>1. k \in 1..n - 1
        BY <3>2, <2>2
      <4>2. g[k] = KeptOne(list, gone, g, k)
        BY <4>1, <2>1 DEF KeptUpTo
      <4> QED
        BY <4>1, <4>2, <2>6 DEF KeptOne
    <3> QED
      BY <3>1, <3>2
  <2>9. KeptUpTo(list, gone, h, n)
    BY <2>1, <2>5, <2>6, <2>8 DEF KeptUpTo
  <2> QED
    BY <1>0, <2>2, <2>9
<1>3. N \in good
  <2> HIDE DEF good
  <2>1. \A n \in 0..N : n \in good
    BY <1>0, <1>1, <1>2, Upwards
  <2> QED
    BY <1>0, <2>1
<1> QED
  BY <1>3

\* Without returns the last of them.
LEMMA WithoutDef ==
  ASSUME NEW list \in Seq(Seats), NEW gone
  PROVE  \E kept : /\ KeptUpTo(list, gone, kept, Len(list))
                   /\ Without(list, gone) = kept[Len(list)]
<1> DEFINE N == Len(list)
           Is(f) == f = [k \in 0..N |->
                           IF k = 0 THEN <<>>
                           ELSE IF list[k] \in gone THEN f[k - 1] ELSE Append(f[k - 1], list[k])]
           kept == CHOOSE f : Is(f)
<1>0. N \in Nat
  OBVIOUS
<1>1. PICK g : KeptUpTo(list, gone, g, N)
  BY KeptExists
<1>2. Is(g)
  <2> DEFINE h == [k \in 0..N |-> IF k = 0 THEN <<>>
                     ELSE IF list[k] \in gone THEN g[k - 1] ELSE Append(g[k - 1], list[k])]
  <2>1. DOMAIN g = 0..N /\ g = [k \in 0..N |-> g[k]]
    BY <1>1 DEF KeptUpTo
  <2>2. ASSUME NEW k \in 0..N PROVE g[k] = h[k]
    <3>1. CASE k = 0
      BY <3>1, <1>1, <1>0 DEF KeptUpTo
    <3>2. CASE k # 0
      <4>1. k \in 1..N
        BY <3>2, <1>0
      <4> QED
        BY <4>1, <1>1, <1>0 DEF KeptUpTo, KeptOne
    <3> QED
      BY <3>1, <3>2
  <2>3. h = [k \in 0..N |-> h[k]]
    OBVIOUS
  <2> HIDE DEF h, N
  <2>4. g = h
    BY <2>1, <2>2, <2>3, Zenon
  <2> QED
    BY <2>4 DEF h
<1>3. Without(list, gone) = kept[N]
  BY DEF Without
<1>4. Is(kept)
  <2> HIDE DEF Is
  <2> QED
    BY <1>2
<1> HIDE DEF kept
<1>5. kept[0] = <<>> /\ \A k \in 1..N : kept[k] = KeptOne(list, gone, kept, k)
  <2>1. 0 \in 0..N /\ \A k \in 1..N : k \in 0..N /\ k # 0
    BY <1>0
  <2> QED
    BY <1>4, <2>1 DEF KeptOne
<1>6. \A k \in 0..N : kept[k] \in Seq(Seats)
  <2> DEFINE good == {k \in 0..N : kept[k] \in Seq(Seats)}
  <2>1. 0 \in good
    <3>1. kept[0] \in Seq(Seats) /\ 0 \in 0..N
      BY <1>0, <1>5
    <3> QED
      BY <3>1
  <2>2. ASSUME NEW n \in 1..N, n - 1 \in good PROVE n \in good
    <3>1. kept[n - 1] \in Seq(Seats) /\ list[n] \in Seats /\ n \in 0..N
      BY <2>2, <1>0
    <3>2. kept[n] = KeptOne(list, gone, kept, n)
      BY <1>5
    <3>3. KeptOne(list, gone, kept, n) \in Seq(Seats)
      BY <3>1 DEF KeptOne
    <3> QED
      BY <3>1, <3>2, <3>3
  <2>3. \A n \in 0..N : n \in good
    <3> HIDE DEF good
    <3> QED
      BY <1>0, <2>1, <2>2, Upwards
  <2> QED
    BY <2>3
<1>7. kept \in [0..N -> Seq(Seats)]
  <2>1. DOMAIN kept = 0..N /\ kept = [k \in 0..N |-> kept[k]]
    BY <1>4
  <2> QED
    BY <1>6, <2>1
<1>8. KeptUpTo(list, gone, kept, N)
  BY <1>5, <1>7 DEF KeptUpTo
<1> QED
  BY <1>3, <1>8

\* What is left is what is not gone, once each if it was so before.
Remains(list, gone, n, s) ==
  /\ \A j \in 1..Len(s) : s[j] \notin gone /\ \E k \in 1..n : s[j] = list[k]
  /\ \A k \in 1..n : list[k] \notin gone => \E j \in 1..Len(s) : s[j] = list[k]
  /\ IsInjective(list) => IsInjective(s)

\* One more member is kept.
LEMMA RemainsStep ==
  ASSUME NEW list \in Seq(Seats), NEW gone, NEW n \in 1..Len(list), NEW s \in Seq(Seats),
         list[n] \notin gone, Remains(list, gone, n - 1, s)
  PROVE  Remains(list, gone, n, Append(s, list[n]))
<1> DEFINE t == Append(s, list[n])
<1>1. /\ list[n] \in Seats /\ n \in Nat /\ Len(s) \in Nat /\ DOMAIN s = 1..Len(s)
      /\ DOMAIN list = 1..Len(list) /\ Len(list) \in Nat
  OBVIOUS
<1>2. /\ Len(t) = Len(s) + 1 /\ t[Len(s) + 1] = list[n] /\ DOMAIN t = 1..Len(s) + 1
      /\ \A j \in 1..Len(s) : t[j] = s[j]
  BY <1>1
<1> HIDE DEF t
<1>3. ASSUME NEW j \in 1..Len(t) PROVE t[j] \notin gone /\ \E k \in 1..n : t[j] = list[k]
  <2>1. CASE j \in 1..Len(s)
    BY <2>1, <1>1, <1>2 DEF Remains
  <2>2. CASE j \notin 1..Len(s)
    BY <2>2, <1>1, <1>2
  <2> QED
    BY <2>1, <2>2
<1>4. ASSUME NEW k \in 1..n, list[k] \notin gone PROVE \E j \in 1..Len(t) : t[j] = list[k]
  <2>1. CASE k = n
    BY <2>1, <1>1, <1>2
  <2>2. CASE k # n
    <3>1. PICK j \in 1..Len(s) : s[j] = list[k]
      BY <2>2, <1>1, <1>4 DEF Remains
    <3> QED
      BY <3>1, <1>1, <1>2
  <2> QED
    BY <2>1, <2>2
<1>5. ASSUME IsInjective(list), NEW a \in 1..Len(t), NEW b \in 1..Len(t), t[a] = t[b], a < b
      PROVE  FALSE
  <2>1. a \in 1..Len(s) /\ t[a] = s[a]
    BY <1>1, <1>2, <1>5
  <2>2. CASE b = Len(s) + 1
    <3>1. PICK k \in 1..n - 1 : s[a] = list[k]
      BY <2>1 DEF Remains
    <3>2. list[k] = list[n] /\ k \in DOMAIN list /\ n \in DOMAIN list /\ k # n
      BY <3>1, <2>1, <2>2, <1>1, <1>2, <1>5
    <3> QED
      BY <3>2, <1>5 DEF IsInjective
  <2>3. CASE b # Len(s) + 1
    <3>1. b \in 1..Len(s) /\ t[b] = s[b]
      BY <2>3, <1>1, <1>2, <1>5
    <3>2. IsInjective(s)
      BY <1>5 DEF Remains
    <3>3. a \in DOMAIN s /\ b \in DOMAIN s /\ s[a] = s[b] /\ a # b
      BY <3>1, <2>1, <1>1, <1>5
    <3> QED
      BY <3>2, <3>3 DEF IsInjective
  <2> QED
    BY <2>2, <2>3
<1>6. IsInjective(list) => IsInjective(t)
  <2> SUFFICES ASSUME IsInjective(list), NEW a \in DOMAIN t, NEW b \in DOMAIN t, t[a] = t[b]
               PROVE  a = b
    BY DEF IsInjective
  <2>1. a \in 1..Len(t) /\ b \in 1..Len(t) /\ ~(a < b) /\ ~(b < a)
    BY <1>2, <1>5
  <2> QED
    BY <2>1, <1>1, <1>2
<1>7. Remains(list, gone, n, t)
  BY <1>3, <1>4, <1>6 DEF Remains
<1> QED
  BY <1>7 DEF t

\* Without returns what its name says: the members that are not gone.
LEMMA WithoutFacts ==
  ASSUME NEW list \in Seq(Seats), NEW gone
  PROVE  /\ Without(list, gone) \in Seq(Seats)
         /\ Remains(list, gone, Len(list), Without(list, gone))
<1> DEFINE N == Len(list)
<1>0. N \in Nat
  OBVIOUS
<1>1. PICK kept : KeptUpTo(list, gone, kept, N) /\ Without(list, gone) = kept[N]
  BY WithoutDef
<1>2. /\ \A k \in 0..N : kept[k] \in Seq(Seats)
      /\ kept[0] = <<>> /\ \A k \in 1..N : kept[k] = KeptOne(list, gone, kept, k)
  BY <1>1 DEF KeptUpTo
<1> DEFINE good == {n \in 0..N : Remains(list, gone, n, kept[n])}
<1>3. 0 \in good
  <2>1. Remains(list, gone, 0, <<>>)
    BY DEF Remains, IsInjective
  <2> QED
    BY <2>1, <1>0, <1>2
<1>4. ASSUME NEW n \in 1..N, n - 1 \in good PROVE n \in good
  <2>1. Remains(list, gone, n - 1, kept[n - 1]) /\ n \in 0..N /\ n - 1 \in 0..N /\ n \in Nat
    BY <1>0, <1>4
  <2>2. kept[n - 1] \in Seq(Seats) /\ kept[n] = KeptOne(list, gone, kept, n)
    BY <1>2, <2>1
  <2>3. CASE list[n] \in gone
    <3>1. kept[n] = kept[n - 1]
      BY <2>2, <2>3 DEF KeptOne
    <3>2. Remains(list, gone, n, kept[n - 1])
      BY <2>1, <2>3 DEF Remains
    <3> QED
      BY <3>1, <3>2, <2>1
  <2>4. CASE list[n] \notin gone
    <3>1. kept[n] = Append(kept[n - 1], list[n])
      BY <2>2, <2>4 DEF KeptOne
    <3>2. Remains(list, gone, n, Append(kept[n - 1], list[n]))
      BY <2>1, <2>2, <2>4, RemainsStep
    <3> QED
      BY <3>1, <3>2, <2>1
  <2> QED
    BY <2>3, <2>4
<1>5. N \in good
  <2> HIDE DEF good
  <2>1. \A n \in 0..N : n \in good
    BY <1>0, <1>3, <1>4, Upwards
  <2> QED
    BY <1>0, <2>1
<1> QED
  BY <1>0, <1>1, <1>2, <1>5

-----------------------------------------------------------------------------
(* Steps.  The coroutine moves by itself, is resumed, or stands still while *)
(* the rest of the program goes on.                                         *)

\* What the constants are assumed to be.
LEMMA Consts ==
  /\ Users \cap Bots = {} /\ Players = Users \cup Bots /\ Controller \in [Seats -> Players]
  /\ Winners \in Nat \ {0} /\ Timeout \in Nat \ {0} /\ MaxWaste \in Nat \ {0}
BY ConstantsAssumption DEF Players

Asks      == \E Q \in Questions : Ask(Q)
DelayEnds == \E d \in delays : DelayDone(d)
Elsewhere ==
  \/ RequestTimer \/ ReplyReady \/ Disconnected \/ RelayTimer \/ Tick
  \/ \E u \in Users : RecordReply(u) \/ Disconnect(u) \/ Kick(u) \/ Reconnect(u)

\* Every step is one of these.
LEMMA NextCases ==
  ASSUME [Next]_vars
  PROVE  \/ Asks \/ Coroutine \/ Delay \/ WakeUp \/ DelayEnds \/ Surrender \/ Elsewhere
         \/ UNCHANGED vars
BY DEF Next, Asks, Coroutine, DelayEnds, Elsewhere

\* What does not concern the coroutine leaves it alone; who has lost his
\* connection, and what has run out of time, stays so during a request.
StandsStill ==
  /\ UNCHANGED <<pc, asked, players, result, winners, send_success, refused>>
  /\ UNCHANGED <<pending_requests, ai_started, changed, resume_reason, cursor>>
  /\ UNCHANGED <<toSend, back, view, hasSurrendered, timewaste_count, unheard, ask>>
  /\ dropped \subseteq dropped' /\ parity' = parity /\ age' \in {age, age + 1}
  /\ kicks' \subseteq kicks

\* Nothing else moves it.
LEMMA StandStill == ASSUME Elsewhere \/ UNCHANGED vars PROVE StandsStill
<1> USE DEF StandsStill, vars, request, game, shared, mainVars, clock, history
<1>1. CASE RequestTimer
  BY <1>1 DEF RequestTimer
<1>2. CASE ReplyReady \/ Disconnected
  BY <1>2 DEF ReplyReady, OnReady, Disconnected
<1>3. CASE RelayTimer \/ Tick
  BY <1>3 DEF RelayTimer, Tick
<1>4. ASSUME NEW u \in Users, RecordReply(u) \/ Disconnect(u)
      PROVE  StandsStill
  BY <1>4 DEF RecordReply, Disconnect
<1>5. ASSUME NEW u \in Users, Kick(u) \/ Reconnect(u)
      PROVE  StandsStill
  BY <1>5 DEF Kick, Reconnect
<1>6. CASE UNCHANGED vars
  BY <1>6
<1> QED
  BY <1>1, <1>2, <1>3, <1>4, <1>5, <1>6 DEF Elsewhere

\* A coroutine that is resumed polls again, or the game goes on or is over.
GoesOn ==
  /\ pc \in {"waiting", "delayed"} /\ pc' \in {"head", "game", "over"}
  /\ pc' = "head" => pc = "waiting"
  /\ UNCHANGED <<asked, players, result, winners, send_success, refused>>
  /\ UNCHANGED <<pending_requests, ai_started, changed, cursor>>
  /\ UNCHANGED <<toSend, back, view, timewaste_count, unheard, ask>>
  /\ UNCHANGED <<state, thinking, m_reply, expected, dropped, order, age, parity>>
  /\ UNCHANGED <<main, relayed, kicks, delayed, drops>>
  /\ hasSurrendered' \in {hasSurrendered, TRUE}
  /\ resume_reason' = resume_reason \/ pc = "waiting"

\* A wake-up, the end of a delay or a surrender resumes it.
LEMMA GoOn == ASSUME WakeUp \/ DelayEnds \/ Surrender PROVE GoesOn
<1>1. ASSUME NEW w, ResumeRoom(w), hasSurrendered' \in {hasSurrendered, TRUE}
      PROVE  GoesOn
  BY <1>1 DEF ResumeRoom, GoesOn, clock
<1>2. CASE WakeUp
  BY <1>1, <1>2 DEF WakeUp
<1>3. CASE DelayEnds
  BY <1>1, <1>3 DEF DelayEnds, DelayDone
<1>4. CASE Surrender
  BY <1>1, <1>4 DEF Surrender
<1> QED
  BY <1>2, <1>3, <1>4

-----------------------------------------------------------------------------
(* Types.                                                                   *)

\* An answer is put in order, and stays whose it was.
LEMMA NormalFacts ==
  ASSUME NEW a \in Answers
  PROVE  /\ Normal(a) \in Answers /\ Normal(a) # Nil
         /\ a # Nil => Normal(a).by = a.by
         /\ a = Nil => Normal(a).by = "nobody"
         /\ Normal(a).by = "human" /\ Normal(a).value = "ok" =>
              /\ a.by = "human" /\ a.value = "ok" /\ Normal(a) = a
<1>1. CASE a = Nil
  BY <1>1 DEF Normal, Nil, Answers, Default
<1>2. CASE a \in Given
  BY <1>2 DEF Normal, Nil, Answers, Given
<1>3. CASE a \in Computed
  BY <1>3 DEF Normal, Nil, Answers, Computed
<1>4. CASE a \in Lost
  BY <1>4 DEF Normal, Nil, Answers, Lost
<1>5. CASE a \in Default
  BY <1>5 DEF Normal, Nil, Answers, Default
<1> QED
  BY <1>1, <1>2, <1>3, <1>4, <1>5 DEF Answers

\* An answer is taken: the seat is through, or with it everybody.
TakesOne(a) ==
  /\ players' = RemoveAt(players, cursor) /\ cursor' = cursor - 1
  /\ \A s \in Seats : result'[s] = IF s = Seat THEN a ELSE result[s]
  /\ \/ winners' = winners
     \/ winners' = Append(winners, Seat) /\ Len(winners) + 1 < Winners
TakesAll(a) ==
  /\ players' = <<>> /\ cursor' = 0
  /\ winners' = Append(winners, Seat) /\ Len(winners) + 1 >= Winners
  /\ result'[Seat] = a
  /\ \A s \in Seats \ {Seat} :
       \/ result'[s] = result[s] /\ (result[s] # Nil \/ \A k \in 1..Len(players) : players[k] # s)
       \/ /\ result'[s] = [by |-> "race", value |-> "__failed_in_race"] /\ result[s] = Nil
          /\ \E k \in 1..Len(players) : players[k] = s

\* The seat at the cursor.
LEMMA SeatFacts ==
  ASSUME Types, cursor > 0, cursor <= Len(players)
  PROVE  /\ cursor \in 1..Len(players) /\ Seat \in Seats /\ Controller[Seat] \in Players
         /\ Len(players) \in Nat /\ DOMAIN players = 1..Len(players)
BY Consts DEF Types, Lists, Locals, Seat

\* Answered does one or the other.
LEMMA Taken ==
  ASSUME Types, cursor > 0, cursor <= Len(players),
         NEW a \in Answers, Answered(Seat, a, Winners)
  PROVE  /\ TakesOne(a) \/ TakesAll(a)
         /\ players' \in Seq(Seats) /\ winners' \in Seq(Seats) /\ result' \in [Seats -> Answers]
         /\ changed' = TRUE /\ cursor' \in Nat /\ cursor' <= Len(players')
<1> DEFINE rest == RemoveAt(players, cursor)
           won  == a.value # "__cancel" \/ AcceptCancel
           wins == IF won THEN Append(winners, Seat) ELSE winners
           over == won /\ Len(wins) >= Winners
           race == [by |-> "race", value |-> "__failed_in_race"]
<1>0. /\ cursor \in 1..Len(players) /\ Seat \in Seats /\ Len(players) \in Nat
      /\ players \in Seq(Seats) /\ winners \in Seq(Seats) /\ result \in [Seats -> Answers]
      /\ Winners \in Nat /\ Len(winners) \in Nat
  <2>1. cursor \in 1..Len(players) /\ Seat \in Seats /\ Len(players) \in Nat
    BY SeatFacts
  <2>2. players \in Seq(Seats) /\ winners \in Seq(Seats) /\ result \in [Seats -> Answers]
    BY DEF Types, Lists, Locals
  <2> QED
    BY <2>1, <2>2, Consts
<1>1. /\ winners' = wins /\ players' = (IF over THEN <<>> ELSE rest)
      /\ result' = [r \in Seats |-> CASE r = Seat -> a
                      [] over /\ r # Seat /\ Contains(rest, r) /\ result[r] = Nil -> race
                      [] OTHER -> result[r]]
      /\ cursor' = (IF over THEN 0 ELSE cursor - 1) /\ changed' = TRUE
  BY DEF Answered, TakeAnswer
<1>2. /\ rest \in Seq(Seats) /\ Len(rest) = Len(players) - 1
      /\ \A j \in 1..Len(players) - 1 : rest[j] = IF j < cursor THEN players[j] ELSE players[j + 1]
  BY <1>0, RemoveAtFacts
<1>3. wins \in Seq(Seats) /\ Len(Append(winners, Seat)) = Len(winners) + 1
  BY <1>0
<1>4. race \in Answers
  BY DEF Answers, Lost
<1> HIDE DEF rest, race
<1>5. result' \in [Seats -> Answers]
  <2> HIDE DEF over
  <2> QED
    BY <1>0, <1>1, <1>4
<1>6. \A r \in Seats \ {Seat} : Contains(rest, r) <=> \E k \in 1..Len(players) : players[k] = r
  <2> SUFFICES ASSUME NEW r \in Seats \ {Seat}
               PROVE  Contains(rest, r) <=> \E k \in 1..Len(players) : players[k] = r
    OBVIOUS
  <2>1. ASSUME Contains(rest, r) PROVE \E k \in 1..Len(players) : players[k] = r
    <3>1. PICK j \in 1..Len(players) - 1 : rest[j] = r
      BY <2>1, <1>2 DEF Contains
    <3> QED
      BY <3>1, <1>0, <1>2
  <2>2. ASSUME NEW k \in 1..Len(players), players[k] = r PROVE Contains(rest, r)
    <3>1. k # cursor
      BY <2>2 DEF Seat
    <3>2. CASE k < cursor
      <4>1. k \in 1..Len(players) - 1 /\ rest[k] = r
        BY <3>2, <1>0, <1>2, <2>2
      <4> QED
        BY <4>1, <1>2 DEF Contains
    <3>3. CASE k > cursor
      <4>1. k - 1 \in 1..Len(players) - 1 /\ ~(k - 1 < cursor) /\ k - 1 + 1 = k
        BY <3>3, <1>0
      <4>2. rest[k - 1] = r
        BY <4>1, <1>2, <2>2
      <4> QED
        BY <4>1, <4>2, <1>2 DEF Contains
    <3> QED
      BY <3>1, <3>2, <3>3, <1>0
  <2> QED
    BY <2>1, <2>2
<1>7. CASE over
  <2>1. players' = <<>> /\ cursor' = 0 /\ winners' = Append(winners, Seat)
    BY <1>1, <1>7
  <2>2. Len(winners) + 1 >= Winners
    BY <1>0, <1>3, <1>7
  <2>3. result'[Seat] = a
    BY <1>0, <1>1
  <2>4. \A r \in Seats \ {Seat} :
          result'[r] = IF Contains(rest, r) /\ result[r] = Nil THEN race ELSE result[r]
    <3> HIDE DEF over
    <3> QED
      BY <1>1, <1>7
  <2>5. TakesAll(a)
    <3> HIDE DEF over
    <3> QED
      BY <2>1, <2>2, <2>3, <2>4, <1>6 DEF TakesAll, race
  <2> QED
    BY <2>1, <2>5, <1>1, <1>3, <1>5
<1>8. CASE ~over
  <2>1. players' = rest /\ cursor' = cursor - 1 /\ winners' = wins
    BY <1>1, <1>8
  <2>2. wins = winners \/ (wins = Append(winners, Seat) /\ Len(winners) + 1 < Winners)
    BY <1>0, <1>3, <1>8
  <2>3. \A s \in Seats : result'[s] = IF s = Seat THEN a ELSE result[s]
    <3> HIDE DEF over
    <3> QED
      BY <1>1, <1>8
  <2>4. TakesOne(a)
    BY <2>1, <2>2, <2>3 DEF TakesOne, rest
  <2> QED
    BY <2>1, <2>4, <1>0, <1>1, <1>2, <1>3, <1>5
<1> QED
  BY <1>7, <1>8


\* The invariant holds initially.
LEMMA InitInv == ASSUME Init PROVE Inv
<1> USE DEF Init
<1>1. Lists
  BY DEF Lists
<1>2. Locals
  BY DEF Locals, PCs, Answers, Wakes, Reasons, NoWake, Wake
<1>3. Shared
  <2>1. NotReady \in Replies /\ Nothing \in Expected
    BY DEF Replies, Expected, NotReady, Nothing, NoSeat
  <2>2. \A u \in Bots : u \notin Users
    BY Consts
  <2> QED
    BY <2>1, <2>2, Consts DEF Shared
<1>4. Outside
  BY DEF Outside, Idle
<1>5. Place /\ Asking /\ Connected /\ Distinct
  BY Consts DEF Place, Asking, Connected, Distinct, Sending, FirstPass, IsInjective
<1>6. Limit /\ Placed /\ Accounted /\ AITurn
  BY Consts DEF Limit, Placed, Accounted, AITurn, Nil
<1>7. Current /\ Noticed /\ AnswersAreTheirs
  BY DEF Current, Noticed, AnswersAreTheirs, Nil
<1> QED
  BY <1>1, <1>2, <1>3, <1>4, <1>5, <1>6, <1>7 DEF Inv, Types

\* The reply that is polled, as the answer that is stored for the seat.
Polled == [by |-> "human",
           value |-> IF Online(Controller[Seat]) THEN m_reply[Controller[Seat]].value ELSE "__cancel",
           ask |-> IF Online(Controller[Seat]) THEN m_reply[Controller[Seat]].ask ELSE 0,
           seat |-> IF Online(Controller[Seat]) THEN m_reply[Controller[Seat]].seat ELSE NoSeat,
           raw |-> ai_started /\ (Online(Controller[Seat]) =>
                                    m_reply[Controller[Seat]].value # "__cancel")
                   /\ Online(Controller[Seat])]

\* What Wait does.
Passes == /\ Skip /\ pc' = "poll"
          /\ Online(Controller[Seat]) /\ m_reply[Controller[Seat]].value = "__notready"
          /\ UNCHANGED <<thinking, pending_requests, toSend, back>>
Hears ==
  /\ Answered(Seat, Polled, Winners) /\ Polled \in Given
  /\ Online(Controller[Seat]) => m_reply[Controller[Seat]].value # "__notready"
  /\ thinking' = [thinking EXCEPT ![Controller[Seat]] = FALSE]
  /\ back' = "poll"
  /\ \/ pc' = "poll" /\ UNCHANGED <<toSend, pending_requests>>
     \/ /\ pc' = "send" /\ pending_requests[Controller[Seat]] # <<>>
        /\ toSend' = <<Head(pending_requests[Controller[Seat]])>>
        /\ pending_requests' = [pending_requests EXCEPT ![Controller[Seat]] = Tail(@)]

\* A player who is polled has replied or not.
LEMMA WaitCases ==
  ASSUME Types, cursor > 0, cursor <= Len(players), Wait
  PROVE  /\ Passes \/ Hears
         /\ pc = "wait"
         /\ UNCHANGED <<asked, send_success, refused, ai_started, resume_reason, view,
                        game, state, m_reply, expected, timer, mainVars, clock, history>>
<1> DEFINE u == Controller[Seat]
           r == IF Online(u) THEN m_reply[u] ELSE [NotReady EXCEPT !.value = "__cancel"]
           a == [by |-> "human", value |-> r.value, ask |-> r.ask, seat |-> r.seat,
                 raw |-> ai_started /\ r.value # "__cancel"]
<1>0. u \in Players /\ m_reply[u] \in Replies /\ ai_started \in BOOLEAN
  BY SeatFacts DEF Types, Locals, Shared
<1>1. /\ r.value = IF Online(u) THEN m_reply[u].value ELSE "__cancel"
      /\ r.ask = IF Online(u) THEN m_reply[u].ask ELSE 0
      /\ r.seat = IF Online(u) THEN m_reply[u].seat ELSE NoSeat
  BY DEF NotReady
<1>2. r.value \in {"__notready", "ok", "__cancel"} /\ r.ask \in Nat /\ r.seat \in Seats \cup {NoSeat}
  BY <1>0, <1>1 DEF Replies
<1>3. /\ pc = "wait"
      /\ UNCHANGED <<asked, send_success, refused, ai_started, resume_reason, view,
                     game, state, m_reply, expected, timer, mainVars, clock, history>>
  BY DEF Wait, WaitForReply
<1>4. \/ /\ r.value = "__notready" /\ Skip /\ pc' = "poll"
         /\ UNCHANGED <<thinking, pending_requests, toSend, back>>
      \/ /\ r.value # "__notready" /\ thinking' = [thinking EXCEPT ![u] = FALSE]
         /\ Answered(Seat, a, Winners) /\ back' = "poll"
         /\ IF pending_requests[u] = <<>>
            THEN pc' = "poll" /\ UNCHANGED <<toSend, pending_requests>>
            ELSE /\ pc' = "send"
                 /\ toSend' = <<Head(pending_requests[u])>>
                 /\ pending_requests' = [pending_requests EXCEPT ![u] = Tail(@)]
  BY DEF Wait, WaitForReply
<1>5. a = Polled
  BY <1>0, <1>1 DEF Polled
<1>6. r.value # "__notready" => a \in Given
  BY <1>0, <1>2 DEF Given
<1>7. ASSUME r.value = "__notready" PROVE Online(u) /\ m_reply[u].value = "__notready"
  BY <1>1, <1>7
<1>8. ASSUME r.value # "__notready" PROVE Online(u) => m_reply[u].value # "__notready"
  BY <1>1, <1>8
<1> HIDE DEF r, a
<1> QED
  BY <1>3, <1>4, <1>5, <1>6, <1>7, <1>8 DEF Passes, Hears

\* What PollRobot does.
LEMMA RobotCases ==
  ASSUME Types, cursor <= Len(players), PollRobot
  PROVE  /\ \/ ~ai_started /\ Skip
            \/ /\ ai_started
               /\ \E a \in Computed : Answered(Seat, a, Winners)
         /\ pc = "poll" /\ pc' = "poll" /\ cursor > 0
         /\ ~(Online(Controller[Seat]) /\ Sent(Seat))
         /\ UNCHANGED <<asked, send_success, refused, pending_requests, ai_started,
                        resume_reason, toSend, back, view, game, shared, mainVars, clock,
                        history>>
<1>1. ASSUME NEW v \in {"ok", "__cancel"}
      PROVE  [by |-> "ai", value |-> v, raw |-> FALSE] \in Computed
  BY DEF Computed
<1> QED
  BY <1>1 DEF PollRobot, RobotSeat

\* A request begins.
LEMMA AskFacts ==
  ASSUME NEW Q \in Questions, Ask(Q)
  PROVE  /\ Q \in Seq(Seats) /\ Q # <<>> /\ IsInjective(Q)
         /\ pc = "game" /\ pc' = "send" /\ back' = "head"
         /\ asked' = Q /\ players' = Q /\ toSend' = Q
         /\ result' = [s \in Seats |-> Nil] /\ winners' = <<>>
         /\ send_success' = {} /\ refused' = {}
         /\ pending_requests' = [u \in Players |-> <<>>]
         /\ ai_started' = FALSE /\ changed' = FALSE
         /\ resume_reason' = NoWake /\ cursor' = 0
         /\ thinking' = [u \in Players |->
                           thinking[u] /\ \A s \in Range(Q) : Controller[s] # u]
         /\ timer' = TRUE /\ age' = 0 /\ parity' \in {0, 1}
         /\ ask' = ask + 1 /\ order' = <<>> /\ dropped' = {}
         /\ UNCHANGED <<view, game, state, m_reply, expected, mainVars, delayed, drops,
                        surrenders>>
BY ConstantsAssumption DEF Ask, StartAsk

\* The players left: all of them, or those the request was not sent to.
LEMMA LeftFacts ==
  ASSUME Types
  PROVE  /\ Left \in Seq(Seats)
         /\ ~TimedOut => Left = players
         /\ \A j \in 1..Len(Left) : \E k \in 1..Len(players) : Left[j] = players[k]
         /\ TimedOut => \A j \in 1..Len(Left) : ~Sent(Left[j])
         /\ \A k \in 1..Len(players) :
              (TimedOut /\ Sent(players[k])) \/ \E j \in 1..Len(Left) : Left[j] = players[k]
         /\ IsInjective(players) => IsInjective(Left)
<1> DEFINE gone == {s \in Seats : Sent(s)}
<1>1. players \in Seq(Seats) /\ DOMAIN players = 1..Len(players)
  BY DEF Types, Lists
<1>2. /\ Without(players, gone) \in Seq(Seats)
      /\ Remains(players, gone, Len(players), Without(players, gone))
  BY <1>1, WithoutFacts
<1>3. CASE TimedOut
  <2>1. Left = Without(players, gone)
    BY <1>3 DEF Left
  <2>2. \A k \in 1..Len(players) : players[k] \in Seats
    BY <1>1
  <2>3. \A j \in 1..Len(Left) : Left[j] \in Seats
    BY <2>1, <1>2
  <2> QED
    BY <1>2, <1>3, <2>1, <2>2, <2>3 DEF Remains
<1>4. CASE ~TimedOut
  BY <1>1, <1>4 DEF Left
<1> QED
  BY <1>3, <1>4

\* A round of polling begins, or a surrender ends the request.
Round ==
  /\ ~hasSurrendered /\ pc' = "poll"
  /\ players' = Left /\ ai_started' = (ai_started \/ RobotsOnly(Left))
  /\ changed' = FALSE /\ cursor' = Len(Left)
GivesUp == hasSurrendered /\ pc' = "finish" /\ UNCHANGED <<players, ai_started, changed, cursor>>

\* The head of the loop does one or the other.
LEMMA HeadCases ==
  ASSUME LoopHead
  PROVE  /\ pc = "head" /\ (Round \/ GivesUp)
         /\ UNCHANGED <<asked, result, winners, send_success, refused, pending_requests,
                        resume_reason, toSend, back, view, game, shared, mainVars, clock,
                        history>>
BY DEF LoopHead, PollAll, Round, GivesUp

\* The cursor goes on.
LEMMA SkipFacts ==
  ASSUME Types, cursor > 0, Skip
  PROVE  cursor' = cursor - 1 /\ cursor' \in Nat /\ UNCHANGED <<players, result, winners, changed>>
BY DEF Skip, Types, Locals

\* What is left to be sent.
LEMMA ToSendFacts ==
  ASSUME Types, toSend # <<>>
  PROVE  /\ Head(toSend) \in Seats /\ Addressee \in Players /\ Tail(toSend) \in Seq(Seats)
         /\ Len(toSend) \in Nat \ {0} /\ Len(Tail(toSend)) = Len(toSend) - 1
         /\ Head(toSend) = toSend[1] /\ DOMAIN toSend = 1..Len(toSend)
         /\ \A j \in 1..Len(toSend) - 1 : Tail(toSend)[j] = toSend[j + 1]
<1>1. toSend \in Seq(Seats) /\ Controller \in [Seats -> Players]
  BY Consts DEF Types, Lists
<1> QED
  BY <1>1 DEF Addressee

\* The lists stay lists of seats.
LEMMA ListsStep ==
  ASSUME Types, Place, [Next]_vars
  PROVE  Lists'
<1> USE DEF Lists
<1>0. Lists
  BY DEF Types
<1>1. CASE Asks
  <2>1. PICK Q \in Questions : Ask(Q)
    BY <1>1 DEF Asks
  <2>2. /\ Q \in Seq(Seats) /\ asked' = Q /\ players' = Q /\ toSend' = Q /\ winners' = <<>>
        /\ order' = <<>> /\ pending_requests' = [u \in Players |-> <<>>]
    BY <2>1, AskFacts
  <2>3. <<>> \in Seq(Seats)
    OBVIOUS
  <2> QED
    BY <2>2, <2>3
<1>2. CASE SendPacket
  <2>1. toSend # <<>> /\ Head(toSend) \in Seats /\ Addressee \in Players /\ Tail(toSend) \in Seq(Seats)
    BY <1>2, ToSendFacts DEF SendPacket
  <2>2. \/ UNCHANGED <<toSend, pending_requests>>
        \/ /\ toSend' = Tail(toSend)
           /\ pending_requests' = [pending_requests EXCEPT ![Addressee] = Append(@, Head(toSend))]
    BY <1>2 DEF SendPacket, SendLater, SendNow, Addressee
  <2>3. UNCHANGED <<asked, players, winners, order>>
    BY <1>2 DEF SendPacket, history
  <2>4. Append(pending_requests[Addressee], Head(toSend)) \in Seq(Seats)
    BY <1>0, <2>1
  <2>5. pending_requests' \in [Players -> Seq(Seats)]
    BY <1>0, <2>1, <2>2, <2>4
  <2> QED
    BY <1>0, <2>1, <2>2, <2>3, <2>5
<1>3. CASE DoRequest
  BY <1>0, <1>3 DEF DoRequest, request, history
<1>4. CASE SetThinking
  <2>1. toSend # <<>>
    BY <1>4 DEF SetThinking, Place
  <2>2. Tail(toSend) \in Seq(Seats)
    BY <2>1, ToSendFacts
  <2> QED
    BY <1>0, <1>4, <2>2 DEF SetThinking, history
<1>5. CASE SendDone \/ PollEnd \/ PollNobody \/ GameOver
  BY <1>0, <1>5 DEF SendDone, PollEnd, PollNobody, GameOver, request, history
<1>6. CASE LoopHead
  BY <1>0, <1>6, HeadCases, LeftFacts DEF Round, GivesUp, history
<1>7. CASE PollHuman
  BY <1>0, <1>7 DEF PollHuman, PollIf, Skip, history
<1>8. CASE PollRobot
  <2>1. UNCHANGED <<asked, pending_requests, toSend, order>>
    BY <1>8 DEF PollRobot, history
  <2>2. CASE ~ai_started /\ Skip
    BY <1>0, <2>1, <2>2 DEF Skip
  <2>3. ASSUME NEW a \in Computed, Answered(Seat, a, Winners)
        PROVE  players' \in Seq(Seats) /\ winners' \in Seq(Seats)
    <3>1. a \in Answers /\ cursor > 0 /\ cursor <= Len(players)
      BY <1>8 DEF Answers, PollRobot, RobotSeat, Place
    <3> QED
      BY <2>3, <3>1, Taken
  <2> QED
    BY <1>0, <1>8, <2>1, <2>2, <2>3, RobotCases DEF Place
<1>9. CASE Wait
  <2>1. cursor > 0 /\ cursor <= Len(players)
    BY <1>9 DEF Place, Wait, WaitForReply
  <2>2. UNCHANGED <<asked, order>> /\ (Passes \/ Hears)
    BY <1>9, <2>1, WaitCases DEF history
  <2>3. CASE Passes
    BY <1>0, <2>2, <2>3 DEF Passes, Skip
  <2>4. CASE Hears
    <3> DEFINE u == Controller[Seat]
    <3>1. Polled \in Answers /\ Answered(Seat, Polled, Winners) /\ u \in Players
      BY <2>1, <2>4, SeatFacts DEF Hears, Answers
    <3>2. players' \in Seq(Seats) /\ winners' \in Seq(Seats)
      BY <2>1, <3>1, Taken
    <3>3. pending_requests[u] # <<>> =>
             Head(pending_requests[u]) \in Seats /\ Tail(pending_requests[u]) \in Seq(Seats)
      BY <1>0, <3>1
    <3>4. \/ UNCHANGED <<toSend, pending_requests>>
          \/ /\ pending_requests[u] # <<>> /\ toSend' = <<Head(pending_requests[u])>>
             /\ pending_requests' = [pending_requests EXCEPT ![u] = Tail(@)]
      BY <2>4 DEF Hears
    <3>5. toSend' \in Seq(Seats) /\ pending_requests' \in [Players -> Seq(Seats)]
      <4>1. CASE UNCHANGED <<toSend, pending_requests>>
        BY <1>0, <4>1
      <4>2. CASE pending_requests[u] # <<>>
                 /\ toSend' = <<Head(pending_requests[u])>>
                 /\ pending_requests' = [pending_requests EXCEPT ![u] = Tail(@)]
        <5> DEFINE h == Head(pending_requests[u])  t == Tail(pending_requests[u])
        <5>1. h \in Seats /\ t \in Seq(Seats) /\ toSend' = <<h>>
              /\ pending_requests' = [pending_requests EXCEPT ![u] = t]
          BY <3>3, <4>2
        <5> HIDE DEF h, t, u
        <5> QED
          BY <1>0, <3>1, <5>1
      <4> QED
        BY <3>4, <4>1, <4>2
    <3> QED
      BY <1>0, <2>2, <3>2, <3>5
  <2> QED
    BY <2>2, <2>3, <2>4
<1>10. CASE Finish \/ Delay
  BY <1>0, <1>10 DEF Finish, FinishAsk, Delay, request, clock
<1>11. CASE WakeUp \/ DelayEnds \/ Surrender
  BY <1>0, <1>11, GoOn DEF GoesOn
<1>12. CASE Elsewhere \/ UNCHANGED vars
  <2>1. UNCHANGED <<asked, players, winners, toSend, pending_requests>>
    BY <1>12, StandStill DEF StandsStill
  <2>2. order' \in Seq(Seats)
    <3>1. ASSUME NEW u \in Users, RecordReply(u) PROVE order' \in Seq(Seats)
      <4>1. expected[u] \in [ask : Nat, seat : Seats]
        BY <3>1, Consts DEF RecordReply, Types, Shared, Expected
      <4>2. order' = order \/ order' = Append(order, expected[u].seat)
        BY <3>1 DEF RecordReply
      <4>3. Append(order, expected[u].seat) \in Seq(Seats)
        BY <1>0, <4>1, AppendProperties
      <4> QED
        BY <1>0, <4>2, <4>3
    <3> QED
      BY <1>0, <1>12, <3>1 DEF Elsewhere, RequestTimer, ReplyReady, OnReady, Disconnected,
         RelayTimer, Tick, Disconnect, Kick, Reconnect, vars, history
  <2> QED
    BY <1>0, <2>1, <2>2
<1> QED
  BY <1>1, <1>2, <1>3, <1>4, <1>5, <1>6, <1>7, <1>8, <1>9, <1>10, <1>11, <1>12, NextCases
  DEF Coroutine

\* A player who is online is human.
LEMMA OnlineUsers == ASSUME Types, NEW u \in Players, Online(u) PROVE u \in Users
BY Consts DEF Types, Shared, Online

\* What Finish leaves behind.
LEMMA FinishFacts ==
  ASSUME Types, Finish
  PROVE  /\ pc = "finish" /\ pc' \in {"game", "delayed"}
         /\ hasSurrendered' = FALSE /\ timer' = FALSE
         /\ \A s \in Seats : result'[s] \in {result[s], Normal(result[s])}
         /\ result' \in [Seats -> Answers]
         /\ \A k \in DOMAIN asked : ~thinking'[Controller[asked[k]]]
         /\ thinking' \in [Players -> BOOLEAN]
         /\ \A u \in Players : thinking'[u] => thinking[u]
         /\ timewaste_count' \in [Seats -> Nat] /\ unheard' \in [Seats -> Nat]
         /\ \A s \in Seats : timewaste_count'[s] > timewaste_count[s]
              => result[s] = Nil /\ s \in Range(asked)
         /\ \A s \in Seats :
              \/ timewaste_count'[s] = 0
              \/ timewaste_count'[s] = timewaste_count[s] /\ unheard'[s] = unheard[s]
              \/ /\ timewaste_count'[s] = timewaste_count[s] + 1
                 /\ InTime(s) \/ unheard'[s] = unheard[s] + 1
         /\ \A u \in kicks' \ kicks : \E s \in Seats :
              /\ Controller[s] = u /\ result[s] = Nil /\ s \in Range(asked)
              /\ timewaste_count[s] + 1 >= MaxWaste
              /\ InTime(s) \/ unheard'[s] = unheard[s] + 1
         /\ kicks' \subseteq Users /\ delays' \subseteq Nat /\ delayed' \in Nat
         /\ UNCHANGED <<asked, players, winners, send_success, refused, pending_requests,
                        ai_started, changed, resume_reason, cursor, toSend, back, view,
                        state, m_reply, expected, main, relayed, wake, clock, ask, drops,
                        surrenders, order, dropped>>
<1> DEFINE wasted == {s \in Seats : result[s] = Nil}
           seats == Range(asked)
           kicked == {s \in seats : /\ s \in wasted
                                    /\ timewaste_count[s] + 1 >= MaxWaste
                                    /\ Online(Controller[s])}
<1>0. /\ asked \in Seq(Seats) /\ result \in [Seats -> Answers] /\ kicks \subseteq Users
      /\ thinking \in [Players -> BOOLEAN]
      /\ timewaste_count \in [Seats -> Nat] /\ unheard \in [Seats -> Nat]
      /\ delays \subseteq Nat /\ delayed \in Nat /\ Controller \in [Seats -> Players]
  BY Consts DEF Types, Lists, Locals, Shared, Outside
<1>1. seats \subseteq Seats
  BY <1>0 DEF Range
<1>2. /\ pc = "finish" /\ hasSurrendered' = FALSE /\ timer' = FALSE
      /\ thinking' = [u \in Players |-> thinking[u] /\ \A s \in seats : Controller[s] # u]
      /\ result' = [s \in Seats |-> IF s \in seats THEN Normal(result[s]) ELSE result[s]]
      /\ timewaste_count' = [s \in Seats |->
           CASE s \notin seats                   -> timewaste_count[s]
             [] s \in seats /\ s \in wasted /\ s \notin kicked -> timewaste_count[s] + 1
             [] OTHER                            -> 0]
      /\ unheard' = [s \in Seats |->
           CASE s \notin seats -> unheard[s]
             [] s \in seats /\ InTime(s) -> 0
             [] OTHER -> unheard[s] + 1]
      /\ kicks' = kicks \cup {Controller[s] : s \in kicked}
      /\ UNCHANGED <<asked, players, winners, send_success, refused, pending_requests,
                     ai_started, changed, resume_reason, cursor, toSend, back, view,
                     state, m_reply, expected, main, relayed, wake, clock, ask, drops,
                     surrenders, order, dropped>>
  BY DEF Finish, FinishAsk
<1>3. /\ pc' \in {"game", "delayed"}
      /\ UNCHANGED <<delays, delayed>> \/ (delayed' = delayed + 1 /\ delays' = delays \cup {delayed'})
  BY DEF Finish, FinishAsk
<1>4. {Controller[s] : s \in kicked} \subseteq Users
  <2> SUFFICES ASSUME NEW s \in kicked PROVE Controller[s] \in Users
    OBVIOUS
  <2>1. s \in Seats /\ Online(Controller[s]) /\ Controller[s] \in Players
    BY <1>0, <1>1
  <2> QED
    BY <2>1, OnlineUsers
<1>5. \A k \in DOMAIN asked : asked[k] \in seats /\ asked[k] \in Seats /\ Controller[asked[k]] \in Players
  BY <1>0 DEF Range
<1> HIDE DEF seats, kicked
<1>6. \A s \in Seats : result'[s] \in {result[s], Normal(result[s])}
  BY <1>2
<1>7. result' \in [Seats -> Answers]
  <2>1. DOMAIN result' = Seats /\ result' = [s \in Seats |-> result'[s]]
    BY <1>2
  <2>2. \A s \in Seats : Normal(result[s]) \in Answers /\ result[s] \in Answers
    BY <1>0, NormalFacts
  <2>3. \A s \in Seats : result'[s] \in Answers
    BY <1>6, <2>2
  <2> QED
    BY <2>1, <2>3, Zenon
<1>8. thinking' \in [Players -> BOOLEAN] /\ \A u \in Players : thinking'[u] => thinking[u]
  BY <1>2
<1>9. \A k \in DOMAIN asked : ~thinking'[Controller[asked[k]]]
  <2> SUFFICES ASSUME NEW k \in DOMAIN asked PROVE ~thinking'[Controller[asked[k]]]
    OBVIOUS
  <2>1. asked[k] \in seats /\ Controller[asked[k]] \in Players
    BY <1>5
  <2>2. thinking'[Controller[asked[k]]] =
          (thinking[Controller[asked[k]]] /\ \A s \in seats : Controller[s] # Controller[asked[k]])
    BY <1>2, <2>1
  <2> QED
    BY <2>1, <2>2
<1>10. /\ timewaste_count' \in [Seats -> Nat]
       /\ \A s \in Seats : timewaste_count'[s] > timewaste_count[s] => result[s] = Nil /\ s \in seats
  <2>1. ASSUME NEW s \in Seats
        PROVE  /\ timewaste_count'[s] \in Nat
               /\ timewaste_count'[s] > timewaste_count[s] => result[s] = Nil /\ s \in seats
    <3>1. timewaste_count[s] \in Nat
      BY <1>0
    <3>2. \/ timewaste_count'[s] = timewaste_count[s]
          \/ timewaste_count'[s] = timewaste_count[s] + 1 /\ s \in seats /\ s \in wasted
          \/ timewaste_count'[s] = 0
      BY <1>2
    <3> QED
      BY <3>1, <3>2
  <2>2. timewaste_count' = [s \in Seats |-> timewaste_count'[s]]
    BY <1>2
  <2> QED
    BY <2>1, <2>2
<1>11. kicks' \subseteq Users /\ delays' \subseteq Nat /\ delayed' \in Nat
  BY <1>0, <1>2, <1>3, <1>4
<1>12. unheard' \in [Seats -> Nat]
  <2>1. ASSUME NEW s \in Seats PROVE unheard'[s] \in Nat
    <3>1. unheard[s] \in Nat
      BY <1>0
    <3>2. unheard'[s] \in {0, unheard[s], unheard[s] + 1}
      BY <1>2
    <3> QED
      BY <3>1, <3>2
  <2>2. unheard' = [s \in Seats |-> unheard'[s]]
    BY <1>2
  <2> QED
    BY <2>1, <2>2
<1>13. ASSUME NEW s \in Seats
       PROVE  /\ s \in seats => InTime(s) \/ unheard'[s] = unheard[s] + 1
              /\ s \notin seats => unheard'[s] = unheard[s]
  BY <1>2
<1>14. \A s \in Seats :
         \/ timewaste_count'[s] = 0
         \/ timewaste_count'[s] = timewaste_count[s] /\ unheard'[s] = unheard[s]
         \/ /\ timewaste_count'[s] = timewaste_count[s] + 1
            /\ InTime(s) \/ unheard'[s] = unheard[s] + 1
  <2> SUFFICES ASSUME NEW s \in Seats
               PROVE  \/ timewaste_count'[s] = 0
                      \/ timewaste_count'[s] = timewaste_count[s] /\ unheard'[s] = unheard[s]
                      \/ /\ timewaste_count'[s] = timewaste_count[s] + 1
                         /\ InTime(s) \/ unheard'[s] = unheard[s] + 1
    OBVIOUS
  <2>1. \/ timewaste_count'[s] = timewaste_count[s] /\ s \notin seats
        \/ timewaste_count'[s] = timewaste_count[s] + 1 /\ s \in seats
        \/ timewaste_count'[s] = 0
    BY <1>2
  <2> QED
    BY <1>13, <2>1
<1>15. \A u \in kicks' \ kicks : \E s \in Seats :
         /\ Controller[s] = u /\ result[s] = Nil /\ s \in seats
         /\ timewaste_count[s] + 1 >= MaxWaste
         /\ InTime(s) \/ unheard'[s] = unheard[s] + 1
  <2> SUFFICES ASSUME NEW u \in kicks' \ kicks
               PROVE  \E s \in Seats :
                        /\ Controller[s] = u /\ result[s] = Nil /\ s \in seats
                        /\ timewaste_count[s] + 1 >= MaxWaste
                        /\ InTime(s) \/ unheard'[s] = unheard[s] + 1
    OBVIOUS
  <2>1. PICK s \in kicked : Controller[s] = u
    BY <1>2
  <2>2. s \in seats /\ s \in Seats /\ result[s] = Nil /\ timewaste_count[s] + 1 >= MaxWaste
    BY <1>1, <2>1 DEF kicked
  <2> QED
    BY <1>13, <2>1, <2>2
<1> QED
  BY <1>2, <1>3, <1>6, <1>7, <1>8, <1>9, <1>10, <1>11, <1>12, <1>14, <1>15 DEF seats

\* What a resumed coroutine is told.
LEMMA WakesStep ==
  ASSUME Types, WakeUp \/ DelayEnds \/ Surrender
  PROVE  /\ resume_reason' \in Wakes /\ wake' \in Seq(Wakes) /\ delays' \subseteq Nat
         /\ timer' \in BOOLEAN /\ surrenders' \in Nat
         /\ wake' = wake \/ WakeUp
<1>0. /\ wake \in Seq(Wakes) /\ delays \subseteq Nat /\ resume_reason \in Wakes
      /\ timer \in BOOLEAN /\ surrenders \in Nat
  BY DEF Types, Outside, Locals, Shared
<1>1. ASSUME NEW w \in Wakes, ResumeRoom(w) PROVE resume_reason' \in Wakes /\ timer' \in BOOLEAN
  BY <1>0, <1>1 DEF ResumeRoom
<1>2. CASE WakeUp
  <2>1. wake # <<>> /\ wake' = Tail(wake) /\ ResumeRoom(Head(wake)) /\ UNCHANGED <<delays, surrenders>>
    BY <1>2 DEF WakeUp
  <2>2. Head(wake) \in Wakes /\ Tail(wake) \in Seq(Wakes)
    BY <1>0, <2>1
  <2> QED
    BY <1>0, <1>1, <1>2, <2>1, <2>2
<1>3. CASE DelayEnds
  <2>1. PICK d \in delays : DelayDone(d)
    BY <1>3 DEF DelayEnds
  <2>2. Wake("delay_done", d) \in Wakes
    BY <1>0 DEF Wake, Wakes, Reasons
  <2> QED
    BY <1>0, <1>1, <2>1, <2>2 DEF DelayDone
<1>4. CASE Surrender
  <2>1. Wake("nil", 0) \in Wakes
    BY DEF Wake, Wakes, Reasons
  <2> QED
    BY <1>0, <1>1, <1>4, <2>1 DEF Surrender
<1> QED
  BY <1>2, <1>3, <1>4

\* The rest of what the coroutine owns.
LEMMA LocalsStep ==
  ASSUME Types, Place, [Next]_vars
  PROVE  Locals'
<1> USE DEF Locals, PCs
<1>0. Locals
  BY DEF Types
<1>1. CASE Asks
  <2>1. PICK Q \in Questions : Ask(Q)
    BY <1>1 DEF Asks
  <2>2. NoWake \in Wakes /\ Nil \in Answers
    BY DEF NoWake, Wake, Wakes, Reasons, Answers
  <2>3. result' \in [Seats -> Answers]
    BY <2>1, <2>2, AskFacts
  <2>4. /\ pc' = "send" /\ back' = "head" /\ send_success' = {} /\ refused' = {}
        /\ ai_started' = FALSE /\ changed' = FALSE /\ resume_reason' = NoWake /\ cursor' = 0
        /\ UNCHANGED <<view, hasSurrendered, timewaste_count, unheard>>
    BY <2>1, AskFacts DEF game
  <2> QED
    BY <1>0, <2>2, <2>3, <2>4
<1>2. CASE SendPacket
  <2>1. toSend # <<>> /\ Head(toSend) \in Seats /\ Addressee \in Players
    BY <1>2, ToSendFacts DEF SendPacket
  <2>2. Online(Addressee) => Addressee \in Users
    BY <2>1, OnlineUsers
  <2>3. \/ UNCHANGED <<pc, view, send_success, refused>>
        \/ /\ pc' = "request" /\ view' = [view EXCEPT ![Addressee] = Head(toSend)]
           /\ send_success' = IF Online(Addressee) THEN send_success \cup {Addressee}
                              ELSE send_success \ {Addressee}
           /\ refused' = IF Online(Addressee) THEN refused \ {Addressee}
                         ELSE refused \cup {Addressee}
    BY <1>2 DEF SendPacket, SendLater, SendNow, Addressee
  <2>4. UNCHANGED <<back, result, ai_started, changed, resume_reason, cursor, game>>
    BY <1>2 DEF SendPacket
  <2>5. view' \in [Players -> Seats \cup {NoSeat}] /\ send_success' \subseteq Users /\ refused' \subseteq Players
    BY <1>0, <2>1, <2>2, <2>3
  <2>6. pc' \in PCs
    BY <1>0, <2>3
  <2> QED
    BY <1>0, <2>4, <2>5, <2>6 DEF game
<1>3. CASE DoRequest \/ SetThinking \/ SendDone
  BY <1>0, <1>3 DEF DoRequest, SetThinking, SendDone, request, game
<1>4. CASE PollEnd \/ PollNobody \/ GameOver
  BY <1>0, <1>4 DEF PollEnd, PollNobody, GameOver, request, game
<1>5. CASE LoopHead
  <2>1. Left \in Seq(Seats)
    BY LeftFacts
  <2>2. ai_started' \in BOOLEAN /\ changed' \in BOOLEAN /\ cursor' \in Nat /\ pc' \in PCs
    <3>1. CASE Round
      <4>1. (ai_started \/ RobotsOnly(Left)) \in BOOLEAN /\ Len(Left) \in Nat
        BY <2>1
      <4> QED
        BY <2>1, <3>1, <4>1 DEF Round
    <3>2. CASE GivesUp
      BY <1>0, <3>2 DEF GivesUp
    <3> QED
      BY <1>5, <3>1, <3>2, HeadCases
  <2> QED
    BY <1>0, <1>5, <2>2, HeadCases DEF game
<1>6. CASE PollHuman
  <2>1. Skip \/ UNCHANGED <<players, result, winners, changed, cursor>>
    BY <1>6 DEF PollHuman, PollIf
  <2>2. cursor' \in Nat /\ UNCHANGED <<result, changed>>
    BY <1>0, <1>6, <2>1, SkipFacts DEF PollHuman, PollIf
  <2> QED
    BY <1>0, <1>6, <2>2 DEF PollHuman, PollIf, game
<1>7. CASE PollRobot
  <2>1. /\ cursor > 0 /\ cursor <= Len(players)
        /\ UNCHANGED <<pc, back, send_success, refused, ai_started, resume_reason, view, game>>
    BY <1>7, RobotCases DEF Place
  <2>2. cursor' \in Nat /\ changed' \in BOOLEAN /\ result' \in [Seats -> Answers]
    <3>1. CASE Skip
      BY <1>0, <2>1, <3>1, SkipFacts
    <3>2. ASSUME NEW a \in Computed, Answered(Seat, a, Winners)
          PROVE  cursor' \in Nat /\ changed' \in BOOLEAN /\ result' \in [Seats -> Answers]
      <4>1. a \in Answers
        BY DEF Answers
      <4> QED
        BY <2>1, <3>2, <4>1, Taken
    <3> QED
      BY <1>7, <2>1, <3>1, <3>2, RobotCases
  <2> QED
    BY <1>0, <2>1, <2>2 DEF game
<1>8. CASE Wait
  <2>1. cursor > 0 /\ cursor <= Len(players)
    BY <1>8 DEF Place, Wait, WaitForReply
  <2>2. /\ Passes \/ Hears
        /\ UNCHANGED <<send_success, refused, ai_started, resume_reason, view, game>>
    BY <1>8, <2>1, WaitCases
  <2>3. CASE Passes
    <3>1. cursor' \in Nat /\ UNCHANGED <<result, changed, back>> /\ pc' = "poll"
      BY <2>1, <2>3, SkipFacts DEF Passes
    <3> QED
      BY <1>0, <2>2, <3>1 DEF game
  <2>4. CASE Hears
    <3>1. Answered(Seat, Polled, Winners) /\ Polled \in Answers /\ back' = "poll" /\ pc' \in {"poll", "send"}
      BY <2>4 DEF Hears, Answers
    <3>2. cursor' \in Nat /\ changed' = TRUE /\ result' \in [Seats -> Answers]
      BY <2>1, <3>1, Taken
    <3> QED
      BY <1>0, <2>2, <3>1, <3>2 DEF game
  <2> QED
    BY <2>2, <2>3, <2>4
<1>9. CASE Finish
  BY <1>0, <1>9, FinishFacts
<1>10. CASE Delay
  BY <1>0, <1>10 DEF Delay, request, game
<1>11. CASE WakeUp \/ DelayEnds \/ Surrender
  <2>1. resume_reason' \in Wakes
    BY <1>11, WakesStep
  <2>2. GoesOn
    BY <1>11, GoOn
  <2> QED
    BY <1>0, <2>1, <2>2 DEF GoesOn
<1>12. CASE Elsewhere \/ UNCHANGED vars
  BY <1>0, <1>12, StandStill DEF StandsStill
<1> QED
  BY <1>1, <1>2, <1>3, <1>4, <1>5, <1>6, <1>7, <1>8, <1>9, <1>10, <1>11, <1>12, NextCases
  DEF Coroutine

\* What it shares with the main thread.
LEMMA SharedStep ==
  ASSUME Types, Place, [Next]_vars
  PROVE  Shared'
<1> USE DEF Shared
<1>0. Shared
  BY DEF Types
<1>01. NotReady \in Replies /\ Nothing \in Expected /\ \A u \in Bots : u \notin Users
  BY Consts DEF Replies, Expected, NotReady, Nothing, NoSeat
<1>1. CASE Asks
  BY <1>0, <1>1, AskFacts DEF Asks
<1>2. CASE SendPacket \/ SendDone \/ LoopHead \/ PollHuman \/ PollEnd
  BY <1>0, <1>2 DEF SendPacket, SendDone, LoopHead, PollAll, PollHuman, PollIf, PollEnd, shared
<1>3. CASE DoRequest
  <2>1. toSend # <<>>
    BY <1>3 DEF DoRequest, Place
  <2>2. Addressee \in Players /\ [ask |-> ask, seat |-> Head(toSend)] \in Expected
    BY <2>1, ToSendFacts DEF Expected, Types, Outside
  <2>3. \/ UNCHANGED <<m_reply, expected>>
        \/ /\ m_reply' = [m_reply EXCEPT ![Addressee] = NotReady]
           /\ expected' = [expected EXCEPT ![Addressee] = [ask |-> ask, seat |-> Head(toSend)]]
    BY <1>3 DEF DoRequest, Addressee
  <2>4. m_reply' \in [Players -> Replies] /\ expected' \in [Players -> Expected]
    BY <1>0, <1>01, <2>2, <2>3
  <2> QED
    BY <1>0, <1>3, <2>4 DEF DoRequest
<1>4. CASE SetThinking
  <2>1. toSend # <<>>
    BY <1>4 DEF SetThinking, Place
  <2>2. Addressee \in Players
    BY <2>1, ToSendFacts
  <2> QED
    BY <1>0, <1>4, <2>2 DEF SetThinking, Addressee
<1>5. CASE PollRobot
  BY <1>0, <1>5, RobotCases DEF Place, shared
<1>6. CASE PollNobody \/ GameOver
  BY <1>0, <1>6 DEF PollNobody, GameOver
<1>7. CASE Wait
  <2>1. cursor > 0 /\ cursor <= Len(players)
    BY <1>7 DEF Place, Wait, WaitForReply
  <2>2. Controller[Seat] \in Players
    BY <2>1, SeatFacts
  <2>3. /\ thinking' = thinking \/ thinking' = [thinking EXCEPT ![Controller[Seat]] = FALSE]
        /\ UNCHANGED <<state, m_reply, expected, timer>>
    BY <1>7, <2>1, WaitCases DEF Passes, Hears
  <2> QED
    BY <1>0, <2>2, <2>3
<1>8. CASE Finish
  BY <1>0, <1>8, FinishFacts
<1>9. CASE Delay
  BY <1>0, <1>9 DEF Delay, shared
<1>10. CASE WakeUp \/ DelayEnds \/ Surrender
  <2>1. timer' \in BOOLEAN
    BY <1>10, WakesStep
  <2> QED
    BY <1>0, <1>10, <2>1, GoOn DEF GoesOn
<1>11. CASE Elsewhere
  <2>1. CASE RequestTimer \/ RelayTimer \/ Tick
    BY <1>0, <2>1 DEF RequestTimer, RelayTimer, Tick, shared
  <2>2. CASE ReplyReady
    <3>1. main[2] \in Players
      BY <2>2, Consts DEF ReplyReady, OnReady, Types, Outside, Idle
    <3> QED
      BY <1>0, <2>2, <3>1 DEF ReplyReady, OnReady
  <2>3. CASE Disconnected
    <3>1. main[2] \in Users
      BY <2>3 DEF Disconnected, Types, Outside, Idle
    <3> QED
      BY <1>0, <1>01, <2>3, <3>1, Consts DEF Disconnected
  <2>4. ASSUME NEW u \in Users, RecordReply(u) PROVE Shared'
    <3>1. u \in Players /\ expected[u] \in [ask : Nat, seat : Seats]
      BY <1>0, <2>4, Consts DEF RecordReply, Expected
    <3>2. \A v \in {"ok", "__cancel"} :
             [ask |-> expected[u].ask, seat |-> expected[u].seat, value |-> v] \in Replies
      BY <3>1 DEF Replies
    <3>3. /\ expected' = [expected EXCEPT ![u] = Nothing] /\ UNCHANGED <<state, thinking, timer>>
          /\ \/ m_reply' = m_reply
             \/ \E v \in {"ok", "__cancel"} : m_reply' = [m_reply EXCEPT ![u] =
                   [ask |-> expected[u].ask, seat |-> expected[u].seat, value |-> v]]
      BY <2>4 DEF RecordReply
    <3>4. m_reply' \in [Players -> Replies]
      BY <1>0, <3>1, <3>2, <3>3
    <3> QED
      BY <1>0, <1>01, <3>1, <3>3, <3>4
  <2>5. ASSUME NEW u \in Users, Disconnect(u) PROVE Shared'
    BY <1>0, <2>5 DEF Disconnect, shared
  <2>6. ASSUME NEW u \in Users, Kick(u) \/ Reconnect(u) PROVE Shared'
    BY <1>0, <1>01, <2>6, Consts DEF Kick, Reconnect
  <2> QED
    BY <1>11, <2>1, <2>2, <2>3, <2>4, <2>5, <2>6 DEF Elsewhere
<1>12. CASE UNCHANGED vars
  BY <1>0, <1>12 DEF vars, shared
<1> QED
  BY <1>1, <1>2, <1>3, <1>4, <1>5, <1>6, <1>7, <1>8, <1>9, <1>10, <1>11, <1>12, NextCases
  DEF Coroutine

\* What belongs to the main thread, and time.
LEMMA OutsideStep ==
  ASSUME Types, Place, [Next]_vars
  PROVE  Outside'
<1> USE DEF Outside
<1>0. Outside
  BY DEF Types
<1>1. CASE Asks
  <2>1. PICK Q \in Questions : Ask(Q)
    BY <1>1 DEF Asks
  <2>2. /\ age' = 0 /\ parity' \in {0, 1} /\ ask' = ask + 1 /\ dropped' = {}
        /\ UNCHANGED <<main, relayed, kicks, wake, delays, delayed, drops, surrenders>>
    BY <2>1, AskFacts DEF mainVars
  <2> QED
    BY <1>0, <2>2
<1>2. CASE SendPacket \/ DoRequest \/ SetThinking \/ SendDone
  BY <1>0, <1>2 DEF SendPacket, DoRequest, SetThinking, SendDone, mainVars, clock, history
<1>3. CASE LoopHead \/ PollHuman
  BY <1>0, <1>3 DEF LoopHead, PollAll, PollHuman, PollIf, mainVars, clock, history
<1>4. CASE PollRobot
  BY <1>0, <1>4, RobotCases DEF Place, mainVars, clock, history
<1>5. CASE PollNobody \/ PollEnd \/ GameOver
  BY <1>0, <1>5 DEF PollNobody, PollEnd, GameOver, mainVars, clock, history
<1>6. CASE Wait
  BY <1>0, <1>6, WaitCases DEF Place, Wait, WaitForReply, mainVars, clock, history
<1>7. CASE Finish
  BY <1>0, <1>7, FinishFacts DEF clock
<1>8. CASE Delay
  BY <1>0, <1>8 DEF Delay, clock
<1>9. CASE WakeUp \/ DelayEnds \/ Surrender
  <2>1. wake' \in Seq(Wakes) /\ delays' \subseteq Nat /\ surrenders' \in Nat
    BY <1>9, WakesStep
  <2> QED
    BY <1>0, <1>9, <2>1, GoOn DEF GoesOn
<1>10. CASE Elsewhere
  <2>1. CASE RequestTimer
    <3>1. Append(relayed, ask) \in Seq(Nat)
      BY <1>0
    <3> QED
      BY <1>0, <2>1, <3>1 DEF RequestTimer, clock, history
  <2>2. CASE ReplyReady
    <3>1. Append(wake, Wake("reply", 0)) \in Seq(Wakes)
      <4>1. Wake("reply", 0) \in Wakes
        BY DEF Wake, Wakes, Reasons
      <4> QED
        BY <1>0, <4>1, AppendProperties
    <3>2. /\ main' = Idle /\ wake' = Append(wake, Wake("reply", 0))
          /\ UNCHANGED <<relayed, kicks, delays, clock, history>>
      BY <2>2 DEF ReplyReady, OnReady
    <3> QED
      BY <1>0, <3>1, <3>2 DEF clock, history
  <2>3. CASE Disconnected
    <3>1. main[2] \in Users
      BY <1>0, <2>3 DEF Disconnected, Idle
    <3> QED
      BY <1>0, <2>3, <3>1 DEF Disconnected, clock
  <2>4. CASE RelayTimer
    <3>1. /\ main' = main /\ relayed' = Tail(relayed)
          /\ wake' = Append(wake, Wake("request_timer", Head(relayed)))
          /\ UNCHANGED <<kicks, delays, clock, history>> /\ relayed # <<>>
      BY <2>4 DEF RelayTimer
    <3>2. Tail(relayed) \in Seq(Nat) /\ Head(relayed) \in Nat
      BY <1>0, <3>1
    <3>3. Wake("request_timer", Head(relayed)) \in Wakes
      BY <3>2 DEF Wake, Wakes, Reasons
    <3>4. wake' \in Seq(Wakes)
      BY <1>0, <3>1, <3>3, AppendProperties
    <3> QED
      BY <1>0, <3>1, <3>2, <3>4 DEF clock, history
  <2>5. CASE Tick
    BY <1>0, <2>5 DEF Tick, mainVars, history
  <2>6. ASSUME NEW u \in Users, RecordReply(u) PROVE Outside'
    <3>1. /\ main' \in {Idle, <<"replyReady", u>>}
          /\ UNCHANGED <<relayed, kicks, wake, delays, clock, ask, delayed, drops, surrenders,
                         dropped>>
      BY <2>6 DEF RecordReply
    <3> QED
      BY <1>0, <3>1 DEF clock
  <2>7. \A u \in Users : WakeIfThinking(u) => wake' \in Seq(Wakes)
    <3>1. Wake("player_disconnect", 0) \in Wakes
      BY DEF Wake, Wakes, Reasons
    <3>2. Append(wake, Wake("player_disconnect", 0)) \in Seq(Wakes)
      BY <1>0, <3>1, AppendProperties
    <3> QED
      BY <1>0, <3>2 DEF WakeIfThinking
  <2>8. ASSUME NEW u \in Users, Disconnect(u) PROVE Outside'
    BY <1>0, <2>7, <2>8 DEF Disconnect, clock
  <2>9. ASSUME NEW u \in Users, Kick(u) \/ Reconnect(u) PROVE Outside'
    BY <1>0, <2>7, <2>9 DEF Kick, Reconnect, mainVars, clock, history
  <2> QED
    BY <1>10, <2>1, <2>2, <2>3, <2>4, <2>5, <2>6, <2>8, <2>9 DEF Elsewhere
<1>11. CASE UNCHANGED vars
  BY <1>0, <1>11 DEF vars, mainVars, clock, history
<1> QED
  BY <1>1, <1>2, <1>3, <1>4, <1>5, <1>6, <1>7, <1>8, <1>9, <1>10, <1>11, NextCases
  DEF Coroutine

\* All types together.
LEMMA TypesStep == ASSUME Types, Place, [Next]_vars PROVE Types'
BY ListsStep, LocalsStep, SharedStep, OutsideStep DEF Types

\* The coroutine is where it should be.
LEMMA PlaceStep ==
  ASSUME Types, Place, Limit, [Next]_vars
  PROVE  Place'
<1> USE DEF Place, Sending, FirstPass
<1>0. /\ Types' /\ Types /\ Len(players) \in Nat /\ Len(players') \in Nat
      /\ cursor \in Nat /\ Len(winners) \in Nat /\ Winners \in Nat
  <2>1. Types'
    BY TypesStep
  <2>2. players \in Seq(Seats) /\ players' \in Seq(Seats) /\ winners \in Seq(Seats) /\ cursor \in Nat
    BY <2>1 DEF Types, Lists, Locals
  <2> QED
    BY <2>1, <2>2, Consts
<1>1. CASE Asks
  <2>1. PICK Q \in Questions : Ask(Q)
    BY <1>1 DEF Asks
  <2>2. pc' = "send" /\ back' = "head" /\ cursor' = 0 /\ ai_started' = FALSE
    BY <2>1, AskFacts
  <2> QED
    BY <1>0, <2>2
<1>2. CASE SendPacket
  <2>1. toSend # <<>> /\ Head(toSend) \in Seats /\ Addressee \in Players /\ pc = "send"
    BY <1>2, ToSendFacts DEF SendPacket
  <2>2. \/ pc' = pc
        \/ pc' = "request" /\ view' = [view EXCEPT ![Addressee] = Head(toSend)] /\ toSend' = toSend
    BY <1>2 DEF SendPacket, SendLater, SendNow, Addressee
  <2>3. UNCHANGED <<back, changed, ai_started, cursor, players>>
    BY <1>2 DEF SendPacket
  <2>4. pc' = "request" => toSend' # <<>> /\ view'[Addressee'] = Head(toSend')
    BY <2>1, <2>2 DEF Types, Locals, Addressee
  <2> QED
    BY <2>1, <2>2, <2>3, <2>4
<1>3. CASE DoRequest \/ SetThinking
  BY <1>3 DEF DoRequest, SetThinking, request, Addressee
<1>4. CASE SendDone
  BY <1>4 DEF SendDone, request, Types, Locals
<1>5. CASE LoopHead
  <2>1. pc' \in {"poll", "finish"}
    BY <1>5, HeadCases DEF Round, GivesUp
  <2>2. cursor' <= Len(players') /\ (pc' = "finish" => hasSurrendered')
    <3>1. CASE Round
      BY <1>0, <2>1, <3>1 DEF Round
    <3>2. CASE GivesUp
      BY <1>0, <1>5, <3>2, HeadCases DEF GivesUp, game
    <3> QED
      BY <1>5, <3>1, <3>2, HeadCases
  <2> QED
    BY <2>1, <2>2
<1>6. CASE PollHuman
  <2>1. \/ pc' = "wait" /\ view[Controller[Seat]] = Seat /\ UNCHANGED <<players, cursor>>
        \/ Skip /\ pc' = pc
    BY <1>6 DEF PollHuman, PollIf
  <2>2. pc = "poll" /\ cursor > 0 /\ Sent(Seat) /\ UNCHANGED <<send_success, view, ai_started>>
    BY <1>6 DEF PollHuman, PollIf
  <2>3. CASE pc' = "wait"
    BY <2>1, <2>2, <2>3 DEF Seat, Sent
  <2>4. CASE Skip /\ pc' = pc
    <3>1. cursor' <= Len(players')
      BY <1>0, <2>2, <2>4, SkipFacts
    <3> QED
      BY <2>2, <2>4, <3>1
  <2> QED
    BY <2>1, <2>3, <2>4
<1>7. CASE PollRobot
  <2>1. pc' = "poll" /\ cursor > 0
    BY <1>7, RobotCases
  <2>2. CASE Skip
    BY <1>0, <2>1, <2>2, SkipFacts
  <2>3. ASSUME NEW a \in Computed, Answered(Seat, a, Winners) PROVE cursor' <= Len(players')
    <3>1. a \in Answers
      BY DEF Answers
    <3> QED
      BY <2>1, <2>3, <3>1, Taken
  <2> QED
    BY <1>7, <2>1, <2>2, <2>3, RobotCases
<1>8. CASE Wait
  <2>1. cursor > 0 /\ cursor <= Len(players)
    BY <1>8 DEF Wait, WaitForReply
  <2>2. CASE Passes
    BY <1>0, <2>1, <2>2, SkipFacts DEF Passes
  <2>3. CASE Hears
    <3>1. Answered(Seat, Polled, Winners) /\ Polled \in Answers /\ back' = "poll" /\ pc' \in {"poll", "send"}
      BY <2>3 DEF Hears, Answers
    <3>2. changed' = TRUE /\ cursor' <= Len(players')
      BY <2>1, <3>1, Taken
    <3> QED
      BY <3>1, <3>2
  <2> QED
    BY <1>8, <2>1, <2>2, <2>3, WaitCases
<1>9. CASE PollEnd
  <2>1. Len(winners) >= Winners => players = <<>>
    BY <1>0 DEF Limit
  <2>2. /\ cursor = 0 /\ pc' \in {"finish", "head", "waiting"}
        /\ pc' = "finish" => players = <<>> \/ ai_started
        /\ ai_started => pc' = "finish"
        /\ UNCHANGED <<players, cursor, ai_started>>
    BY <1>9, <2>1 DEF PollEnd, request
  <2> QED
    BY <1>0, <2>2
<1>10. CASE PollNobody \/ GameOver
  BY <1>10 DEF PollNobody, GameOver, request
<1>11. CASE Finish
  BY <1>11, FinishFacts
<1>12. CASE Delay
  BY <1>12 DEF Delay, request
<1>13. CASE WakeUp \/ DelayEnds \/ Surrender
  <2>1. /\ pc \in {"waiting", "delayed"} /\ pc' \in {"head", "game", "over"}
        /\ pc' = "head" => pc = "waiting"
        /\ UNCHANGED <<players, cursor, ai_started>>
    BY <1>13, GoOn DEF GoesOn
  <2> QED
    BY <2>1
<1>14. CASE Elsewhere \/ UNCHANGED vars
  BY <1>14, StandStill DEF StandsStill, Seat, Sent, Addressee
<1> QED
  BY <1>1, <1>2, <1>3, <1>4, <1>5, <1>6, <1>7, <1>8, <1>9, <1>10, <1>11, <1>12, <1>13,
     <1>14, NextCases
  DEF Coroutine

-----------------------------------------------------------------------------
(* Who has been sent the request.                                           *)

\* Sending leaves alone what polling works on, and the other way round.
SendStep == SendPacket \/ DoRequest \/ SetThinking \/ SendDone
PollStep == LoopHead \/ PollHuman \/ PollRobot \/ PollNobody \/ PollEnd \/ GameOver \/ Delay

\* Sending does not touch the lists of the request.
LEMMA SendKeeps ==
  ASSUME SendStep
  PROVE  /\ Sending
         /\ UNCHANGED <<asked, players, result, winners, ai_started, changed>>
         /\ UNCHANGED <<resume_reason, cursor, back, hasSurrendered, timewaste_count, unheard>>
         /\ UNCHANGED <<state, timer>>
         /\ UNCHANGED <<main, relayed, kicks, wake, delays, age, parity>>
         /\ UNCHANGED <<ask, delayed, drops, surrenders, order, dropped>>
         /\ pc' = back \/ Sending'
<1> USE DEF Sending, request, game, shared, mainVars, clock, history
<1>1. CASE SendPacket
  BY <1>1 DEF SendPacket, SendNow, SendLater
<1>2. CASE DoRequest \/ SetThinking \/ SendDone
  BY <1>2 DEF DoRequest, SetThinking, SendDone
<1> QED
  BY <1>1, <1>2 DEF SendStep

\* Polling does not touch what is sent, nor what is shared.
LEMMA PollKeeps ==
  ASSUME Types, Place, PollStep
  PROVE  /\ pc \in {"head", "poll", "finish", "game"}
         /\ pc' \in {"head", "poll", "wait", "waiting", "finish", "over", "delayed"}
         /\ UNCHANGED <<asked, send_success, refused, pending_requests, resume_reason>>
         /\ UNCHANGED <<toSend, back, view, hasSurrendered, timewaste_count, unheard>>
         /\ UNCHANGED <<state, thinking>>
         /\ UNCHANGED <<m_reply, expected, main, relayed, kicks, wake, age, parity>>
         /\ UNCHANGED <<ask, drops, surrenders, order, dropped>>
<1> USE DEF request, game, shared, mainVars, clock, history
<1>1. CASE LoopHead
  BY <1>1, HeadCases DEF Round, GivesUp
<1>2. CASE PollHuman
  BY <1>2 DEF PollHuman, PollIf
<1>3. CASE PollRobot
  BY <1>3, RobotCases DEF Place
<1>4. CASE PollNobody \/ GameOver
  BY <1>4 DEF PollNobody, GameOver, RobotSeat
<1>5. CASE PollEnd \/ Delay
  BY <1>5 DEF PollEnd, Delay
<1> QED
  BY <1>1, <1>2, <1>3, <1>4, <1>5 DEF PollStep

\* What Wait does, with the invariant that guards it.
LEMMA WaitFacts ==
  ASSUME Types, Place, Wait
  PROVE  /\ cursor > 0 /\ cursor <= Len(players) /\ pc = "wait"
         /\ Seat \in Seats /\ Controller[Seat] \in Users
         /\ Sent(Seat) /\ view[Controller[Seat]] = Seat
         /\ Passes \/ Hears
         /\ UNCHANGED <<asked, send_success, refused, ai_started, resume_reason, view>>
         /\ UNCHANGED <<hasSurrendered, timewaste_count, unheard>>
         /\ UNCHANGED <<state, m_reply, expected, timer>>
         /\ UNCHANGED <<main, relayed, kicks, wake, delays, age, parity>>
         /\ UNCHANGED <<ask, delayed, drops, surrenders, order, dropped>>
<1>1. cursor > 0 /\ cursor <= Len(players) /\ Sent(Seat) /\ view[Controller[Seat]] = Seat
  BY DEF Place, Wait, WaitForReply
<1>2. Seat \in Seats /\ Controller[Seat] \in Users
  BY <1>1, SeatFacts DEF Types, Locals, Sent
<1> QED
  BY <1>1, <1>2, WaitCases DEF game, mainVars, clock, history

\* The steps again, in the groups used from here on.
LEMMA MoreCases ==
  ASSUME [Next]_vars
  PROVE  \/ Asks \/ SendStep \/ PollStep \/ Wait \/ Finish
         \/ WakeUp \/ DelayEnds \/ Surrender
         \/ Elsewhere \/ UNCHANGED vars
BY NextCases DEF Coroutine, SendStep, PollStep

\* Only SetThinking makes a player think.
LEMMA ElsewhereThinks ==
  ASSUME Types, Elsewhere \/ UNCHANGED vars
  PROVE  \A u \in Players : thinking'[u] => thinking[u]
<1> USE DEF shared
<1>0. thinking \in [Players -> BOOLEAN]
  BY DEF Types, Shared
<1>1. CASE ReplyReady
  BY <1>0, <1>1 DEF ReplyReady, OnReady
<1>2. CASE RequestTimer \/ Disconnected \/ RelayTimer \/ Tick
  BY <1>2 DEF RequestTimer, Disconnected, RelayTimer, Tick
<1>3. ASSUME NEW u \in Users, RecordReply(u) \/ Disconnect(u) \/ Kick(u) \/ Reconnect(u)
      PROVE  thinking' = thinking
  BY <1>3 DEF RecordReply, Disconnect, Kick, Reconnect
<1>4. CASE UNCHANGED vars
  BY <1>4 DEF vars
<1> QED
  BY <1>1, <1>2, <1>3, <1>4 DEF Elsewhere

\* Sending to a player who was not thinking.
Sends ==
  /\ pc' = "request" /\ view' = [view EXCEPT ![Addressee] = Head(toSend)]
  /\ \/ /\ Online(Addressee)
        /\ send_success' = send_success \cup {Addressee} /\ refused' = refused \ {Addressee}
     \/ /\ ~Online(Addressee)
        /\ send_success' = send_success \ {Addressee} /\ refused' = refused \cup {Addressee}
  /\ ~thinking[Addressee] /\ UNCHANGED <<toSend, pending_requests>>
Postpones ==
  /\ thinking[Addressee] /\ toSend' = Tail(toSend)
  /\ pending_requests' =
       [pending_requests EXCEPT ![Addressee] = Append(pending_requests[Addressee], Head(toSend))]
  /\ UNCHANGED <<pc, view, send_success, refused>>

\* SendPacket does one or the other.
LEMMA SendCases ==
  ASSUME Types, SendPacket
  PROVE  /\ pc = "send" /\ toSend # <<>> /\ (Sends \/ Postpones)
         /\ UNCHANGED <<thinking, m_reply, expected>>
BY DEF SendPacket, SendNow, SendLater, Sends, Postpones, Addressee, shared

\* Who was sent the request is online unless the connection was lost since.
LEMMA ConnectedStep ==
  ASSUME Types, Place, Connected, [Next]_vars
  PROVE  Connected'
<1> USE DEF Connected, Online
<1>1. CASE Asks
  BY <1>1, AskFacts DEF Asks
<1>2. CASE SendStep
  <2>1. state' = state /\ dropped' = dropped
    BY <1>2, SendKeeps
  <2>2. CASE SendPacket
    BY <2>1, <2>2, SendCases DEF Sends, Postpones
  <2>3. CASE DoRequest \/ SetThinking \/ SendDone
    BY <2>1, <2>3 DEF DoRequest, SetThinking, SendDone, request
  <2> QED
    BY <1>2, <2>2, <2>3 DEF SendStep
<1>3. CASE PollStep
  BY <1>3, PollKeeps
<1>4. CASE Wait
  BY <1>4, WaitFacts
<1>5. CASE Finish
  BY <1>5, FinishFacts
<1>6. CASE WakeUp \/ DelayEnds \/ Surrender
  BY <1>6, GoOn DEF GoesOn
<1>7. CASE Elsewhere \/ UNCHANGED vars
  <2>1. send_success' = send_success /\ dropped \subseteq dropped'
    BY <1>7, StandStill DEF StandsStill
  <2>2. CASE Disconnected
    <3>1. main[2] \in Players /\ state \in [Players -> {"Online", "Offline", "Robot"}]
      BY <2>2, Consts DEF Disconnected, Types, Outside, Shared, Idle
    <3> QED
      BY <2>1, <2>2, <3>1, Consts DEF Disconnected
  <2>3. ASSUME NEW u \in Users, Kick(u) \/ Reconnect(u) PROVE Connected'
    <3>1. u \in Players /\ state \in [Players -> {"Online", "Offline", "Robot"}]
      BY Consts DEF Types, Shared
    <3> QED
      BY <2>1, <2>3, <3>1, Consts DEF Kick, Reconnect
  <2>4. CASE RequestTimer \/ ReplyReady \/ RelayTimer \/ Tick \/ UNCHANGED vars
    BY <2>1, <2>4 DEF RequestTimer, ReplyReady, OnReady, RelayTimer, Tick, vars, shared
  <2>5. ASSUME NEW u \in Users, RecordReply(u) \/ Disconnect(u) PROVE Connected'
    BY <2>1, <2>5 DEF RecordReply, Disconnect, shared
  <2> QED
    BY <1>7, <2>2, <2>3, <2>4, <2>5 DEF Elsewhere
<1> QED
  BY <1>1, <1>2, <1>3, <1>4, <1>5, <1>6, <1>7, MoreCases

\* Everybody asked has been sampled once the first pass is over, and nobody
\* thinks of this request before.
LEMMA AskingStep ==
  ASSUME Types, Place, Asking, [Next]_vars
  PROVE  Asking'
<1> DEFINE A(k) == Controller[asked[k]]
<1>0. /\ Types' /\ Controller \in [Seats -> Players] /\ asked \in Seq(Seats)
      /\ \A k \in DOMAIN asked : asked[k] \in Seats /\ A(k) \in Players
      /\ thinking \in [Players -> BOOLEAN] /\ pending_requests \in [Players -> Seq(Seats)]
      /\ send_success \subseteq Users /\ refused \subseteq Players
  <2>1. /\ Types' /\ Controller \in [Seats -> Players] /\ asked \in Seq(Seats)
        /\ thinking \in [Players -> BOOLEAN] /\ pending_requests \in [Players -> Seq(Seats)]
        /\ send_success \subseteq Users /\ refused \subseteq Players
    BY TypesStep, Consts DEF Types, Lists, Locals, Shared
  <2>2. \A k \in DOMAIN asked : asked[k] \in Seats
    BY <2>1
  <2> QED
    BY <2>1, <2>2
<1>1. CASE Asks
  <2>1. PICK Q \in Questions : Ask(Q)
    BY <1>1 DEF Asks
  <2>2. /\ Q \in Seq(Seats) /\ asked' = Q /\ toSend' = Q /\ pc' = "send" /\ back' = "head"
        /\ send_success' = {} /\ refused' = {} /\ pending_requests' = [u \in Players |-> <<>>]
        /\ thinking' = [u \in Players |-> thinking[u] /\ \A s \in Range(Q) : Controller[s] # u]
    BY <2>1, AskFacts
  <2>3. ASSUME NEW k \in DOMAIN Q PROVE ~thinking'[Controller[Q[k]]]
    <3>1. Q[k] \in Range(Q) /\ Controller[Q[k]] \in Players
      BY <1>0, <2>2 DEF Range
    <3> QED
      BY <2>2, <3>1
  <2> QED
    BY <2>2, <2>3 DEF Asking, FirstPass, Sending
<1>2. CASE SendPacket
  <2>0. /\ Head(toSend) \in Seats /\ Addressee \in Players /\ Tail(toSend) \in Seq(Seats)
        /\ Len(toSend) \in Nat \ {0} /\ Len(Tail(toSend)) = Len(toSend) - 1
        /\ Head(toSend) = toSend[1] /\ DOMAIN toSend = 1..Len(toSend)
        /\ \A j \in 1..Len(toSend) - 1 : Tail(toSend)[j] = toSend[j + 1]
    BY <1>2, ToSendFacts DEF SendPacket
  <2>1. /\ pc = "send" /\ UNCHANGED <<asked, back, thinking>> /\ (Sends \/ Postpones)
    BY <1>2, SendCases, SendKeeps DEF SendStep
  <2>2. CASE Sends
    <3>1. /\ send_success' \cap refused' = {} /\ Sampled(Addressee)'
          /\ \A u \in Players : Sampled(u) => Sampled(u)'
          /\ UNCHANGED <<toSend, pending_requests>> /\ pc' = "request"
      BY <2>0, <2>2 DEF Asking, Sends, Sampled, Addressee
    <3>2. back = "poll" => Len(toSend) = 1
      BY <2>0, <2>1 DEF Asking
    <3> HIDE DEF A
    <3> QED
      BY <1>0, <2>0, <2>1, <3>1, <3>2 DEF Asking, FirstPass, Sending, A, Addressee
  <2>3. CASE Postpones
    <3>1. UNCHANGED <<pc, send_success, refused>> /\ toSend' = Tail(toSend) /\ thinking[Addressee]
      BY <2>3 DEF Postpones
    <3>2. ASSUME NEW k \in DOMAIN asked, ~Sampled(A(k))
          PROVE  \E j \in DOMAIN toSend' : toSend'[j] = asked[k]
      <4>1. PICK j \in DOMAIN toSend : toSend[j] = asked[k]
        BY <3>2 DEF Asking
      <4>2. j # 1
        BY <2>0, <3>1, <3>2, <4>1 DEF Asking, Addressee
      <4>3. j - 1 \in 1..Len(toSend) - 1 /\ Tail(toSend)[j - 1] = toSend[j]
        BY <2>0, <4>1, <4>2
      <4>4. DOMAIN Tail(toSend) = 1..Len(toSend) - 1
        BY <2>0
      <4> QED
        BY <3>1, <4>1, <4>3, <4>4
    <3>3. ASSUME NEW u \in Players, NEW k \in DOMAIN pending_requests'[u]
          PROVE  Controller[pending_requests'[u][k]] = u
      <4>1. CASE u # Addressee
        BY <1>0, <2>0, <2>3, <3>3, <4>1 DEF Postpones, Asking
      <4>2. CASE u = Addressee
        <5> DEFINE p == pending_requests[u]  h == Head(toSend)
        <5>1. pending_requests'[u] = Append(p, h) /\ p \in Seq(Seats) /\ h \in Seats
          BY <1>0, <2>0, <2>3, <4>2 DEF Postpones
        <5>2. \A m \in 1..Len(p) : Controller[p[m]] = u
          BY <5>1 DEF Asking
        <5>3. Controller[h] = u
          BY <4>2 DEF Addressee
        <5>4. k \in 1..Len(p) + 1
          BY <3>3, <5>1
        <5> HIDE DEF p, h
        <5>5. CASE k \in 1..Len(p)
          BY <5>1, <5>2, <5>5
        <5>6. CASE k = Len(p) + 1
          BY <5>1, <5>3, <5>6
        <5> QED
          BY <5>1, <5>4, <5>5, <5>6
      <4> QED
        BY <4>1, <4>2
    <3>4. back = "poll" => toSend' = <<>>
      <4>1. back = "poll" => Len(Tail(toSend)) = 0
        BY <2>0, <2>1 DEF Asking
      <4> QED
        BY <2>0, <3>1, <4>1
    <3>5. back = "head" \/ \A k \in DOMAIN asked : Sampled(A(k))
      BY DEF Asking, FirstPass
    <3> QED
      BY <2>1, <3>1, <3>2, <3>3, <3>4, <3>5 DEF Asking, FirstPass, Sending, Sampled, Addressee
  <2> QED
    BY <2>1, <2>2, <2>3
<1>3. CASE DoRequest
  BY <1>3 DEF DoRequest, request, Asking, FirstPass, Sending, Sampled, Addressee
<1>4. CASE SetThinking
  <2>0. /\ pc = "think" /\ pc' = "send" /\ thinking' = [thinking EXCEPT ![Addressee] = TRUE]
        /\ toSend' = Tail(toSend) /\ toSend # <<>>
        /\ UNCHANGED <<asked, send_success, refused, back, pending_requests>>
    BY <1>4 DEF SetThinking, Addressee, Place
  <2>1. /\ Head(toSend) \in Seats /\ Addressee \in Players /\ Tail(toSend) \in Seq(Seats)
        /\ Len(toSend) \in Nat \ {0} /\ Len(Tail(toSend)) = Len(toSend) - 1
        /\ Head(toSend) = toSend[1] /\ DOMAIN toSend = 1..Len(toSend)
        /\ \A j \in 1..Len(toSend) - 1 : Tail(toSend)[j] = toSend[j + 1]
    BY <2>0, ToSendFacts
  <2>2. Sampled(Addressee)
    BY <2>0 DEF Asking
  <2>3. ASSUME NEW k \in DOMAIN asked, ~Sampled(A(k))
        PROVE  FirstPass /\ \E j \in DOMAIN toSend' : toSend'[j] = asked[k]
    <3>1. PICK j \in DOMAIN toSend : toSend[j] = asked[k]
      BY <2>3 DEF Asking
    <3>2. j # 1
      BY <2>1, <2>2, <2>3, <3>1 DEF Addressee
    <3>3. j - 1 \in 1..Len(toSend) - 1 /\ Tail(toSend)[j - 1] = toSend[j]
      BY <2>1, <3>1, <3>2
    <3>4. DOMAIN Tail(toSend) = 1..Len(toSend) - 1
      BY <2>1
    <3>5. FirstPass
      BY <2>3 DEF Asking
    <3> QED
      BY <2>0, <3>1, <3>3, <3>4, <3>5
  <2>4. ASSUME NEW k \in DOMAIN asked, thinking'[A(k)] PROVE Sampled(A(k))
    <3>1. A(k) = Addressee \/ thinking[A(k)]
      BY <1>0, <2>0, <2>1, <2>4
    <3> QED
      BY <2>2, <3>1 DEF Asking
  <2>5. back = "poll" => toSend' = <<>>
    <3>1. back = "poll" => Len(Tail(toSend)) = 0
      BY <2>0, <2>1 DEF Asking
    <3> QED
      BY <2>0, <2>1, <3>1
  <2> QED
    BY <2>0, <2>3, <2>4, <2>5 DEF Asking, FirstPass, Sending, Sampled, Addressee
<1>5. CASE SendDone
  BY <1>5 DEF SendDone, request, shared, Asking, FirstPass, Sending, Sampled, Types, Locals
<1>6. CASE PollStep
  <2>1. \A k \in DOMAIN asked : Sampled(A(k))
    BY <1>6, PollKeeps DEF Asking, FirstPass, Sending
  <2>2. pc' \notin {"send", "request", "think"}
    BY <1>6, PollKeeps
  <2>3. UNCHANGED <<asked, send_success, refused, pending_requests, back, thinking>>
    BY <1>6, PollKeeps
  <2> QED
    BY <2>1, <2>2, <2>3 DEF Asking, Sampled
<1>7. CASE Wait
  <2>0. /\ Controller[Seat] \in Users /\ Controller[Seat] \in Players /\ Sent(Seat) /\ pc = "wait"
        /\ UNCHANGED <<asked, send_success, refused>> /\ (Passes \/ Hears)
    BY <1>7, WaitFacts, Consts
  <2>1. \A k \in DOMAIN asked : Sampled(A(k))
    BY <2>0 DEF Asking, FirstPass, Sending
  <2>2. CASE Passes
    BY <2>0, <2>1, <2>2 DEF Passes, Asking, Sampled
  <2>3. CASE Hears
    <3> DEFINE u == Controller[Seat]  p == pending_requests[u]
    <3>0. p \in Seq(Seats) /\ \A m \in 1..Len(p) : Controller[p[m]] = u
      BY <1>0, <2>0 DEF Asking
    <3>1. /\ thinking' = [thinking EXCEPT ![u] = FALSE] /\ back' = "poll"
          /\ \/ pc' = "poll" /\ UNCHANGED <<toSend, pending_requests>>
             \/ /\ pc' = "send" /\ p # <<>> /\ toSend' = <<Head(p)>>
                /\ pending_requests' = [pending_requests EXCEPT ![u] = Tail(p)]
      BY <2>3 DEF Hears
    <3>2. p # <<>> => /\ Head(p) = p[1] /\ 1 \in 1..Len(p) /\ Tail(p) \in Seq(Seats)
                      /\ Len(Tail(p)) = Len(p) - 1
                      /\ \A m \in 1..Len(p) - 1 : Tail(p)[m] = p[m + 1] /\ m + 1 \in 1..Len(p)
      BY <3>0
    <3>3. p # <<>> => Controller[Head(p)] = u /\ \A m \in DOMAIN Tail(p) : Controller[Tail(p)[m]] = u
      <4>1. p # <<>> => DOMAIN Tail(p) = 1..Len(p) - 1
        BY <3>2
      <4> QED
        BY <3>0, <3>2, <4>1
    <3>4. \A k \in DOMAIN asked : thinking'[A(k)] => thinking[A(k)]
      BY <1>0, <2>0, <3>1
    <3> HIDE DEF p
    <3>5. ASSUME NEW v \in Players, NEW k \in DOMAIN pending_requests'[v]
          PROVE  Controller[pending_requests'[v][k]] = v
      <4>1. \A j \in DOMAIN pending_requests[v] : Controller[pending_requests[v][j]] = v
        BY DEF Asking
      <4>2. pending_requests'[v] = pending_requests[v] \/ (v = u /\ p # <<>> /\ pending_requests'[v] = Tail(p))
        BY <1>0, <2>0, <3>1
      <4> QED
        BY <3>3, <3>5, <4>1, <4>2
    <3>6. pc' = "send" => Len(toSend') = 1 /\ Addressee' = u /\ u \in send_success
      <4>1. pc' = "send" => toSend' = <<Head(p)>> /\ Controller[Head(p)] = u
        BY <3>1, <3>3
      <4> QED
        BY <2>0, <4>1 DEF Addressee, Sent
    <3> QED
      BY <2>0, <2>1, <3>1, <3>4, <3>5, <3>6 DEF Asking, Sampled
  <2> QED
    BY <2>0, <2>2, <2>3
<1>8. CASE Finish
  <2>1. \A k \in DOMAIN asked : Sampled(A(k))
    BY <1>8, FinishFacts DEF Asking, FirstPass, Sending
  <2> QED
    BY <1>0, <1>8, <2>1, FinishFacts DEF Asking, Sampled
<1>9. CASE WakeUp \/ DelayEnds \/ Surrender
  <2>1. GoesOn
    BY <1>9, GoOn
  <2>2. \A k \in DOMAIN asked : Sampled(A(k))
    BY <2>1 DEF Asking, FirstPass, Sending, GoesOn
  <2> QED
    BY <2>1, <2>2 DEF Asking, Sampled, GoesOn
<1>10. CASE Elsewhere \/ UNCHANGED vars
  <2>1. \A u \in Players : thinking'[u] => thinking[u]
    BY <1>10, ElsewhereThinks
  <2>2. UNCHANGED <<pc, asked, send_success, refused, pending_requests, toSend, back>>
    BY <1>10, StandStill DEF StandsStill
  <2> QED
    BY <1>0, <2>1, <2>2 DEF Asking, Sampled, FirstPass, Sending, Addressee
<1> QED
  BY <1>1, <1>2, <1>3, <1>4, <1>5, <1>6, <1>7, <1>8, <1>9, <1>10, MoreCases DEF SendStep

-----------------------------------------------------------------------------
(* Who is still to answer, and who has won.                                 *)

\* The list of those still to answer without the one at the cursor.
LEMMA RestFacts ==
  ASSUME NEW ps \in Seq(Seats), NEW i \in 1..Len(ps)
  PROVE  /\ \A j \in DOMAIN RemoveAt(ps, i) :
              \E k \in DOMAIN ps : /\ RemoveAt(ps, i)[j] = ps[k] /\ k # i
                                   /\ j > i - 1 => k > i
         /\ \A k \in DOMAIN ps : k # i => \E j \in DOMAIN RemoveAt(ps, i) : RemoveAt(ps, i)[j] = ps[k]
         /\ IsInjective(ps) => IsInjective(RemoveAt(ps, i))
<1> DEFINE rest == RemoveAt(ps, i)
<1>1. /\ rest \in Seq(Seats) /\ Len(rest) = Len(ps) - 1
      /\ \A j \in 1..Len(ps) - 1 : rest[j] = IF j < i THEN ps[j] ELSE ps[j + 1]
  BY RemoveAtFacts
<1>2. /\ DOMAIN ps = 1..Len(ps) /\ Len(ps) \in Nat /\ i \in Nat /\ i >= 1 /\ i <= Len(ps)
  OBVIOUS
<1>3. DOMAIN rest = 1..Len(ps) - 1
  BY <1>1
<1> HIDE DEF rest
<1>4. ASSUME NEW j \in DOMAIN rest
      PROVE  \E k \in DOMAIN ps : /\ rest[j] = ps[k] /\ k # i /\ (j > i - 1 => k > i)
  <2>1. CASE j < i
    BY <2>1, <1>1, <1>2, <1>3
  <2>2. CASE ~(j < i)
    <3>1. j + 1 \in DOMAIN ps /\ rest[j] = ps[j + 1] /\ j + 1 > i
      BY <2>2, <1>1, <1>2, <1>3
    <3>2. j + 1 # i
      BY <3>1, <1>2
    <3> QED
      BY <3>1, <3>2
  <2> QED
    BY <2>1, <2>2
<1>5. ASSUME NEW k \in DOMAIN ps, k # i PROVE \E j \in DOMAIN rest : rest[j] = ps[k]
  <2>1. CASE k < i
    BY <2>1, <1>1, <1>2, <1>3
  <2>2. CASE k > i
    <3>1. k - 1 \in 1..Len(ps) - 1 /\ ~(k - 1 < i) /\ k - 1 + 1 = k
      BY <2>2, <1>2
    <3> QED
      BY <3>1, <1>1, <1>3
  <2> QED
    BY <2>1, <2>2, <1>2, <1>5
<1>6. IsInjective(ps) => IsInjective(rest)
  <2> SUFFICES ASSUME IsInjective(ps), NEW a \in DOMAIN rest, NEW b \in DOMAIN rest, rest[a] = rest[b]
               PROVE  a = b
    BY DEF IsInjective
  <2> DEFINE up(j) == IF j < i THEN j ELSE j + 1
  <2>1. \A j \in DOMAIN rest : up(j) \in DOMAIN ps /\ rest[j] = ps[up(j)]
    BY <1>1, <1>2, <1>3
  <2>2. up(a) = up(b)
    <3> HIDE DEF up
    <3> QED
      BY <2>1 DEF IsInjective
  <2>3. a \in Int /\ b \in Int
    BY <1>2, <1>3
  <2> QED
    BY <1>2, <2>2, <2>3
<1> QED
  BY <1>4, <1>5, <1>6 DEF rest

\* Everything that an answer at the cursor changes in the accounts.
LEMMA TakingCounts ==
  ASSUME Types, Distinct, Limit, Placed, cursor > 0, cursor <= Len(players),
         NEW a \in Given \cup Computed, Answered(Seat, a, Winners)
  PROVE  /\ Distinct' /\ Limit' /\ Placed'
         /\ \A s \in Seats : result[s] # Nil => result'[s] # Nil
         /\ \A s \in Seats : result'[s] = result[s] \/ (s = Seat /\ result'[s] = a) \/ result'[s].by = "race"
         /\ \A k \in DOMAIN players : result'[players[k]] # Nil
              \/ \E j \in DOMAIN players' : players'[j] = players[k]
         /\ \A j \in DOMAIN players' :
              \E k \in DOMAIN players : players'[j] = players[k] /\ (j > cursor' => k > cursor)
<1> DEFINE race == [by |-> "race", value |-> "__failed_in_race"]
<1>0. /\ cursor \in 1..Len(players) /\ Seat \in Seats /\ DOMAIN players = 1..Len(players)
      /\ Len(players) \in Nat /\ players \in Seq(Seats) /\ winners \in Seq(Seats)
      /\ Len(winners) \in Nat /\ Winners \in Nat /\ Winners > 0 /\ players # <<>>
      /\ result \in [Seats -> Answers] /\ Seat = players[cursor]
  <2>1. /\ cursor \in 1..Len(players) /\ Seat \in Seats
        /\ DOMAIN players = 1..Len(players) /\ Len(players) \in Nat
    BY SeatFacts
  <2>2. players \in Seq(Seats) /\ winners \in Seq(Seats) /\ result \in [Seats -> Answers]
    BY DEF Types, Lists, Locals
  <2>3. players # <<>>
    BY <2>1, <2>2
  <2>4. Len(winners) \in Nat /\ Winners \in Nat /\ Winners > 0
    BY <2>2, Consts
  <2>5. QED
    BY <2>1, <2>2, <2>3, <2>4 DEF Seat
<1>1. a \in Answers /\ a # Nil /\ a.by \in {"human", "ai"}
  BY DEF Answers, Given, Computed, Nil
<1>2. TakesOne(a) \/ TakesAll(a)
  BY <1>1, Taken
<1>3. Len(winners) < Winners /\ \A s \in Seats : result[s].by # "race"
  BY <1>0 DEF Limit, Placed
<1>4. /\ Len(Append(winners, Seat)) = Len(winners) + 1
      /\ DOMAIN Append(winners, Seat) = 1..Len(winners) + 1
      /\ \A j \in 1..Len(winners) : Append(winners, Seat)[j] = winners[j] /\ winners[j] \in Seats
      /\ Append(winners, Seat)[Len(winners) + 1] = Seat
      /\ DOMAIN winners = 1..Len(winners)
  BY <1>0
<1>5. \A j \in DOMAIN winners : winners[j] # Seat /\ result[winners[j]] # Nil
  <2>1. Nil.by \notin {"human", "ai"}
    BY DEF Nil
  <2> QED
    BY <1>0, <2>1 DEF Distinct, Placed
<1>6. IsInjective(Append(winners, Seat))
  <2> DEFINE w == Append(winners, Seat)
  <2> SUFFICES ASSUME NEW b \in DOMAIN w, NEW c \in DOMAIN w, w[b] = w[c] PROVE b = c
    BY DEF IsInjective
  <2>0. /\ DOMAIN w = 1..Len(winners) + 1 /\ w[Len(winners) + 1] = Seat
        /\ \A j \in 1..Len(winners) : w[j] = winners[j]
    BY <1>4
  <2> HIDE DEF w
  <2>1. CASE b \in DOMAIN winners /\ c \in DOMAIN winners
    BY <1>4, <2>0, <2>1 DEF Distinct, IsInjective
  <2>2. CASE b \notin DOMAIN winners \/ c \notin DOMAIN winners
    <3>1. \A d \in DOMAIN w : d \in DOMAIN winners \/ d = Len(winners) + 1
      BY <1>0, <1>4, <2>0
    <3>2. \A d \in DOMAIN w : d \in DOMAIN winners => w[d] # Seat
      BY <1>4, <1>5, <2>0
    <3> QED
      BY <2>0, <2>2, <3>1, <3>2
  <2> QED
    BY <2>1, <2>2
<1>7. CASE TakesOne(a)
  <2> DEFINE rest == RemoveAt(players, cursor)
  <2>0. /\ players' = rest /\ cursor' = cursor - 1
        /\ \A s \in Seats : result'[s] = IF s = Seat THEN a ELSE result[s]
        /\ \/ winners' = winners
           \/ winners' = Append(winners, Seat) /\ Len(winners) + 1 < Winners
    BY <1>7 DEF TakesOne
  <2>1. /\ \A j \in DOMAIN rest : \E k \in DOMAIN players :
              rest[j] = players[k] /\ k # cursor /\ (j > cursor - 1 => k > cursor)
        /\ \A k \in DOMAIN players : k # cursor => \E j \in DOMAIN rest : rest[j] = players[k]
        /\ IsInjective(rest)
    BY <1>0, RestFacts DEF Distinct
  <2> HIDE DEF rest
  <2>2. \A j \in DOMAIN rest : rest[j] # Seat
    BY <1>0, <2>1 DEF Distinct, IsInjective
  <2>3. Distinct'
    <3>1. \A j \in DOMAIN winners' : winners'[j] = Seat \/ \E i \in DOMAIN winners : winners'[j] = winners[i]
      <4>1. \A j \in 1..Len(winners) + 1 : j \in 1..Len(winners) \/ j = Len(winners) + 1
        BY <1>0
      <4> QED
        BY <1>4, <2>0, <4>1
    <3>2. ASSUME NEW j \in DOMAIN winners', NEW k \in DOMAIN rest PROVE winners'[j] # rest[k]
      <4>1. PICK i \in DOMAIN players : rest[k] = players[i]
        BY <2>1
      <4> QED
        BY <2>2, <3>1, <4>1 DEF Distinct
    <3>3. IsInjective(winners')
      BY <1>6, <2>0 DEF Distinct
    <3> QED
      BY <2>0, <2>1, <3>2, <3>3 DEF Distinct
  <2>4. Limit'
    <3>1. Len(winners') = Len(winners) \/ (Len(winners') = Len(winners) + 1 /\ Len(winners) + 1 < Winners)
      BY <1>4, <2>0
    <3>2. Len(winners') < Winners
      BY <1>0, <1>3, <3>1
    <3> QED
      BY <1>0, <3>1, <3>2 DEF Limit
  <2>5. Placed'
    <3>1. ASSUME NEW j \in DOMAIN winners' PROVE result'[winners'[j]].by \in {"human", "ai"}
      <4>1. CASE winners'[j] = Seat
        BY <1>0, <1>1, <2>0, <4>1
      <4>2. CASE j \in DOMAIN winners /\ winners'[j] = winners[j]
        <5>1. winners[j] \in Seats /\ winners[j] # Seat
          BY <1>4, <1>5, <4>2
        <5> QED
          BY <2>0, <4>2, <5>1 DEF Placed
      <4>3. \A d \in 1..Len(winners) + 1 : d \in 1..Len(winners) \/ d = Len(winners) + 1
        BY <1>0
      <4> QED
        BY <1>4, <2>0, <3>1, <4>1, <4>2, <4>3
    <3>2. \A s \in Seats : result'[s].by # "race"
      BY <1>1, <1>3, <2>0
    <3> QED
      BY <3>1, <3>2 DEF Placed
  <2>6. \A k \in DOMAIN players : result'[players[k]] # Nil \/ \E j \in DOMAIN rest : rest[j] = players[k]
    BY <1>0, <1>1, <2>0, <2>1
  <2> QED
    BY <1>1, <2>0, <2>1, <2>3, <2>4, <2>5, <2>6
<1>8. CASE TakesAll(a)
  <2>0. /\ players' = <<>> /\ winners' = Append(winners, Seat) /\ Len(winners) + 1 = Winners
        /\ result'[Seat] = a
        /\ \A s \in Seats \ {Seat} :
             \/ result'[s] = result[s] /\ (result[s] # Nil \/ \A k \in DOMAIN players : players[k] # s)
             \/ result'[s] = race /\ result[s] = Nil
    BY <1>0, <1>3, <1>8 DEF TakesAll
  <2>1. race # Nil /\ race.by = "race"
    BY DEF Nil
  <2> HIDE DEF race
  <2>2. Distinct'
    <3>1. DOMAIN players' = {} /\ IsInjective(players')
      BY <2>0 DEF IsInjective
    <3> QED
      BY <1>6, <2>0, <3>1 DEF Distinct
  <2>3. Limit'
    <3>1. Len(winners') = Len(winners) + 1
      BY <1>4, <2>0
    <3> QED
      BY <1>0, <2>0, <3>1 DEF Limit
  <2>4. Placed'
    <3>1. ASSUME NEW j \in DOMAIN winners' PROVE result'[winners'[j]].by \in {"human", "ai"}
      <4>1. CASE winners'[j] = Seat
        BY <1>1, <2>0, <4>1
      <4>2. CASE j \in DOMAIN winners /\ winners'[j] = winners[j]
        <5>1. winners[j] \in Seats /\ winners[j] # Seat /\ result[winners[j]] # Nil
          BY <1>4, <1>5, <4>2
        <5>2. result'[winners[j]] = result[winners[j]]
          BY <2>0, <5>1
        <5> QED
          BY <4>2, <5>2 DEF Placed
      <4>3. \A d \in 1..Len(winners) + 1 : d \in 1..Len(winners) \/ d = Len(winners) + 1
        BY <1>0
      <4> QED
        BY <1>4, <2>0, <3>1, <4>1, <4>2, <4>3
    <3>2. Len(winners') = Winners
      BY <1>4, <2>0
    <3> QED
      BY <3>1, <3>2 DEF Placed
  <2>5. \A s \in Seats : result[s] # Nil => result'[s] # Nil
    BY <1>1, <2>0
  <2>6. \A s \in Seats : result'[s] = result[s] \/ (s = Seat /\ result'[s] = a) \/ result'[s].by = "race"
    BY <2>0, <2>1
  <2>7. \A k \in DOMAIN players : players[k] \in Seats
    BY <1>0
  <2>8. \A k \in DOMAIN players : result'[players[k]] # Nil
    BY <1>1, <2>0, <2>1, <2>7
  <2>9. DOMAIN players' = {}
    BY <2>0
  <2> QED
    BY <2>2, <2>3, <2>4, <2>5, <2>6, <2>8, <2>9
<1> QED
  BY <1>2, <1>7, <1>8

\* Polling goes through the list or takes an answer.
Polls ==
  \/ Skip /\ (ai_started => Sent(Seat))
  \/ \E a \in Given \cup Computed : Answered(Seat, a, Winners) /\ (a \in Computed => ai_started)
\* PollRobot and Wait do one or the other.
LEMMA PollsCases ==
  ASSUME Types, Place, PollRobot \/ Wait
  PROVE  Polls /\ cursor > 0 /\ cursor <= Len(players) /\ UNCHANGED <<asked, ai_started, resume_reason, age, parity>>
<1>1. CASE PollRobot
  BY <1>1, RobotCases DEF Polls, Place, clock
<1>2. CASE Wait
  <2>1. \A x \in Given : ~(x \in Computed)
    BY DEF Given, Computed
  <2> QED
    BY <1>2, <2>1, WaitFacts DEF Polls, Passes, Hears
<1> QED
  BY <1>1, <1>2

\* The other steps of polling leave the accounts alone.
LEMMA OtherPolls ==
  ASSUME PollHuman \/ PollNobody \/ PollEnd \/ GameOver \/ Delay
  PROVE  /\ UNCHANGED <<asked, players, winners, result, ai_started, resume_reason, age, parity>>
         /\ cursor' = cursor \/ (PollHuman /\ cursor' = cursor - 1)
BY DEF PollHuman, PollIf, Skip, PollNobody, PollEnd, GameOver, Delay, request, clock

\* Nobody wins twice, or after the limit, or is both a winner and asked.
LEMMA CountsStep ==
  ASSUME Types, Place, Distinct, Limit, Placed, [Next]_vars
  PROVE  Distinct' /\ Limit' /\ Placed'
<1> DEFINE Goal == Distinct' /\ Limit' /\ Placed'
<1>0. ASSUME UNCHANGED <<players, winners, result>> PROVE Goal
  BY <1>0 DEF Distinct, Limit, Placed
<1>1. CASE Asks
  <2>1. PICK Q \in Questions : Ask(Q)
    BY <1>1 DEF Asks
  <2>2. IsInjective(Q) /\ players' = Q /\ winners' = <<>> /\ result' = [s \in Seats |-> Nil]
    BY <2>1, AskFacts
  <2>3. IsInjective(<<>>) /\ Len(<<>>) = 0 /\ DOMAIN <<>> = {} /\ Nil.by # "race"
    BY DEF IsInjective, Nil
  <2> QED
    BY <2>2, <2>3, Consts DEF Distinct, Limit, Placed
<1>2. CASE SendStep
  BY <1>0, <1>2, SendKeeps
<1>3. CASE LoopHead
  <2>1. UNCHANGED <<winners, result>>
    BY <1>3, HeadCases
  <2>2. CASE Round
    <3>1. /\ players' = Left /\ Left \in Seq(Seats) /\ players \in Seq(Seats)
          /\ IsInjective(Left) /\ \A j \in 1..Len(Left) : \E k \in 1..Len(players) : Left[j] = players[k]
      BY <2>2, LeftFacts DEF Round, Distinct, Types, Lists
    <3>2. Distinct'
      BY <2>1, <3>1 DEF Distinct
    <3>3. players = <<>> => Left = <<>>
      <4>1. players = <<>> => Len(Left) = 0
        BY <3>1
      <4> QED
        BY <3>1, <4>1
    <3> QED
      BY <2>1, <3>1, <3>2, <3>3 DEF Limit, Placed
  <2> QED
    BY <1>0, <1>3, <2>1, <2>2, HeadCases DEF GivesUp
<1>4. CASE PollRobot \/ Wait
  BY <1>0, <1>4, PollsCases, TakingCounts DEF Polls, Skip
<1>5. CASE PollHuman \/ PollNobody \/ PollEnd \/ GameOver \/ Delay
  BY <1>0, <1>5, OtherPolls
<1>6. CASE Finish
  <2>1. UNCHANGED <<players, winners>> /\ result' \in [Seats -> Answers]
    BY <1>6, FinishFacts
  <2>2. ASSUME NEW s \in Seats
        PROVE  /\ result[s].by \in {"human", "ai"} => result'[s].by = result[s].by
               /\ result'[s].by = "race" => result[s].by = "race"
    <3>1. result[s] \in Answers /\ result'[s] \in {result[s], Normal(result[s])}
      BY <1>6, FinishFacts DEF Types, Locals
    <3>2. Nil.by \notin {"human", "ai"}
      BY DEF Nil
    <3> QED
      BY <3>1, <3>2, NormalFacts
  <2>3. \A k \in DOMAIN winners : winners[k] \in Seats
    BY DEF Types, Lists
  <2> QED
    BY <2>1, <2>2, <2>3 DEF Distinct, Limit, Placed
<1>7. CASE WakeUp \/ DelayEnds \/ Surrender
  BY <1>0, <1>7, GoOn DEF GoesOn
<1>8. CASE Elsewhere \/ UNCHANGED vars
  BY <1>0, <1>8, StandStill DEF StandsStill
<1> QED
  BY <1>1, <1>2, <1>3, <1>4, <1>5, <1>6, <1>7, <1>8, MoreCases DEF PollStep

\* Time that has run out stays so.
LEMMA TimedOutStays ==
  ASSUME Types, resume_reason' = resume_reason, parity' = parity, age' \in {age, age + 1}, TimedOut
  PROVE  TimedOut'
<1>1. age \in Nat /\ parity \in Nat /\ Timeout \in Nat
  BY Consts DEF Types, Outside
<1>2. Elapsed <= Elapsed' /\ Elapsed \in Int /\ Elapsed' \in Int
  <2>1. CASE age' = age
    BY <1>1, <2>1 DEF Elapsed
  <2>2. CASE age' = age + 1
    BY <1>1, <2>2 DEF Elapsed
  <2> QED
    BY <2>1, <2>2
<1>3. Elapsed >= Timeout => Elapsed' >= Timeout
  <2> HIDE DEF Elapsed
  <2> QED
    BY <1>1, <1>2
<1> QED
  BY <1>3 DEF TimedOut

\* A coroutine in which the AI has started is not suspended in a request.
LEMMA GoOnTime ==
  ASSUME Types, Place, GoesOn, ai_started, TimedOut
  PROVE  TimedOut'
<1>1. resume_reason' = resume_reason /\ parity' = parity /\ age' = age
  BY DEF GoesOn, Place
<1> QED
  BY <1>1, TimedOutStays

\* Whoever was asked has an answer, is still asked, or was given up.
LEMMA AccountedStep ==
  ASSUME Types, Place, Distinct, Limit, Placed, Accounted, [Next]_vars
  PROVE  Accounted'
<1>0. ASSUME UNCHANGED <<asked, players, ai_started>>,
             \A s \in Seats : result[s] # Nil => result'[s] # Nil,
             ai_started => (TimedOut => TimedOut')
      PROVE  Accounted'
  <2>1. \A k \in DOMAIN asked : asked[k] \in Seats
    BY DEF Types, Lists
  <2> QED
    BY <1>0, <2>1 DEF Accounted
<1>1. CASE Asks
  BY <1>1, AskFacts DEF Asks, Accounted
<1>2. CASE SendStep
  BY <1>0, <1>2, SendKeeps, TimedOutStays
<1>3. CASE LoopHead
  <2>1. UNCHANGED <<asked, result, resume_reason, age, parity>> /\ (TimedOut => TimedOut')
    BY <1>3, HeadCases, TimedOutStays DEF clock
  <2>2. CASE Round
    <3>1. DOMAIN players = 1..Len(players) /\ DOMAIN Left = 1..Len(Left) /\ players' = Left
      BY <2>2, LeftFacts DEF Types, Lists, Round
    <3>2. TimedOut => ai_started'
      <4>1. TimedOut => RobotsOnly(Left)
        BY <3>1, LeftFacts DEF RobotsOnly
      <4> QED
        BY <2>2, <4>1 DEF Round
    <3>3. ASSUME NEW k \in DOMAIN asked
          PROVE  result[asked[k]] # Nil \/ (\E j \in DOMAIN Left : Left[j] = asked[k]) \/ TimedOut
      BY <3>1, LeftFacts DEF Accounted
    <3> QED
      BY <2>1, <3>1, <3>2, <3>3 DEF Accounted
  <2> QED
    BY <1>0, <1>3, <2>1, <2>2, HeadCases DEF GivesUp
<1>4. CASE PollRobot \/ Wait
  <2>0. UNCHANGED <<asked, ai_started>> /\ (TimedOut => TimedOut') /\ cursor > 0 /\ cursor <= Len(players)
    BY <1>4, PollsCases, TimedOutStays
  <2>1. CASE Skip
    BY <1>0, <2>0, <2>1 DEF Skip
  <2>2. ASSUME NEW a \in Given \cup Computed, Answered(Seat, a, Winners)
        PROVE  Accounted'
    <3>1. /\ \A s \in Seats : result[s] # Nil => result'[s] # Nil
          /\ \A k \in DOMAIN players : result'[players[k]] # Nil
               \/ \E j \in DOMAIN players' : players'[j] = players[k]
      BY <2>0, <2>2, TakingCounts
    <3>2. \A k \in DOMAIN asked : asked[k] \in Seats
      BY DEF Types, Lists
    <3>3. ASSUME NEW k \in DOMAIN asked
          PROVE  \/ result'[asked[k]] # Nil
                 \/ \E j \in DOMAIN players' : players'[j] = asked[k]
                 \/ ai_started /\ TimedOut
      BY <3>1, <3>2 DEF Accounted
    <3> QED
      BY <2>0, <3>3 DEF Accounted
  <2> QED
    BY <1>4, <2>1, <2>2, PollsCases DEF Polls
<1>5. CASE PollHuman \/ PollNobody \/ PollEnd \/ GameOver \/ Delay
  BY <1>0, <1>5, OtherPolls, TimedOutStays
<1>6. CASE Finish
  <2>1. UNCHANGED <<asked, players, ai_started, resume_reason, age, parity>>
    BY <1>6, FinishFacts DEF clock
  <2>2. ASSUME NEW s \in Seats, result[s] # Nil PROVE result'[s] # Nil
    <3>1. result[s] \in Answers /\ result'[s] \in {result[s], Normal(result[s])}
      BY <1>6, FinishFacts DEF Types, Locals
    <3> QED
      BY <2>2, <3>1, NormalFacts
  <2> QED
    BY <1>0, <2>1, <2>2, TimedOutStays
<1>7. CASE WakeUp \/ DelayEnds \/ Surrender
  <2>1. GoesOn
    BY <1>7, GoOn
  <2> QED
    BY <1>0, <2>1, GoOnTime DEF GoesOn
<1>8. CASE Elsewhere \/ UNCHANGED vars
  <2>1. StandsStill
    BY <1>8, StandStill
  <2> QED
    BY <1>0, <2>1, TimedOutStays DEF StandsStill
<1> QED
  BY <1>1, <1>2, <1>3, <1>4, <1>5, <1>6, <1>7, <1>8, MoreCases DEF PollStep

\* What the AI's turn rests on, apart from the list and the cursor.
LEMMA TurnKept ==
  ASSUME Types, Place, AITurn, UNCHANGED <<asked, ai_started>>,
         ai_started => UNCHANGED send_success /\ refused \subseteq refused' /\ dropped \subseteq dropped',
         \A s \in Seats : result[s] # Nil => result'[s] # Nil,
         \A s \in Seats : result'[s].by = "ai" => ai_started,
         ai_started => (TimedOut => TimedOut'),
         ai_started => \A j \in DOMAIN players' :
              \E k \in DOMAIN players : /\ players'[j] = players[k]
                                        /\ j > cursor' => k > cursor \/ Sent(players[k])
  PROVE  AITurn'
<1>1. \A k \in DOMAIN asked : asked[k] \in Seats
  BY DEF Types, Lists
<1>2. ASSUME ai_started, NEW k \in DOMAIN asked
      PROVE  result'[asked[k]] # Nil \/ Absent(Controller[asked[k]])' \/ TimedOut'
  BY <1>1, <1>2 DEF AITurn, Absent
<1>3. ASSUME ai_started, NEW j \in DOMAIN players'
      PROVE  /\ Sent(players[j])' => Controller[players'[j]] \in dropped'
             /\ j > cursor' => Controller[players'[j]] \in dropped'
  <2>1. PICK k \in DOMAIN players : players'[j] = players[k] /\ (j > cursor' => k > cursor \/ Sent(players[k]))
    BY <1>3
  <2>2. /\ Sent(players[k]) => Controller[players[k]] \in dropped
        /\ k > cursor => Controller[players[k]] \in dropped
    BY <1>3 DEF AITurn
  <2>3. send_success' = send_success /\ dropped \subseteq dropped'
    BY <1>3
  <2>4. k > cursor \/ Sent(players[k]) => Controller[players[k]] \in dropped'
    BY <2>2, <2>3
  <2>5. Sent(players[j])' <=> Sent(players[k])
    BY <2>1, <2>3 DEF Sent
  <2> QED
    BY <2>1, <2>4, <2>5
<1>4. asked' = asked /\ ai_started' = ai_started
  OBVIOUS
<1>5. \A s \in Seats : result'[s].by = "ai" => ai_started'
  BY <1>4
<1> QED
  BY <1>2, <1>3, <1>4, <1>5 DEF AITurn

\* Once the AI has its turn, no human is left who could answer.
LEMMA AITurnStep ==
  ASSUME Types, Place, Asking, Connected, Distinct, Limit, Placed, Accounted, AITurn, [Next]_vars
  PROVE  AITurn'
<1>0. /\ players \in Seq(Seats) /\ DOMAIN players = 1..Len(players) /\ cursor \in Nat
      /\ result \in [Seats -> Answers]
      /\ \A s \in Seats : result[s].by = "ai" => ai_started
      /\ \A s \in Seats : Controller[s] \in Players
  BY Consts DEF Types, Lists, Locals, AITurn
<1>1. CASE Asks
  <2>1. ai_started' = FALSE /\ result' = [s \in Seats |-> Nil] /\ Nil.by # "ai"
    BY <1>1, AskFacts DEF Asks, Nil
  <2> QED
    BY <2>1 DEF AITurn
<1>2. CASE SendStep
  <2>0. UNCHANGED <<asked, ai_started, players, cursor, result, dropped, resume_reason, age, parity>>
    BY <1>2, SendKeeps
  <2>1. ai_started => (UNCHANGED <<send_success>> /\ refused \subseteq refused') \/ SendPacket
    BY <1>2 DEF SendStep, DoRequest, SetThinking, SendDone, request
  <2>2. CASE SendPacket /\ ai_started
    <3>1. (Sends \/ Postpones) /\ pc = "send" /\ toSend # <<>>
      BY <2>2, SendCases
    <3>2. back = "poll" /\ Addressee \in send_success /\ Addressee \notin refused
      BY <2>2, <3>1 DEF Place, FirstPass, Sending, Types, Locals, Asking
    <3>3. \A u \in Players : Absent(u) => Absent(u)'
      BY <2>0, <3>1, <3>2 DEF Sends, Postpones, Absent
    <3>4. send_success' \subseteq send_success
      BY <3>1, <3>2 DEF Sends, Postpones
    <3>5. \A k \in DOMAIN asked : asked[k] \in Seats
      BY DEF Types, Lists
    <3>6. TimedOut => TimedOut'
      BY <2>0, TimedOutStays
    <3> QED
      BY <1>0, <2>0, <2>2, <3>3, <3>4, <3>5, <3>6 DEF AITurn, Sent
  <2>3. CASE ~(SendPacket /\ ai_started)
    BY <1>0, <2>0, <2>1, <2>3, TurnKept, TimedOutStays
  <2> QED
    BY <2>2, <2>3
<1>3. CASE LoopHead
  <2>1. UNCHANGED <<asked, result, send_success, refused, dropped, resume_reason, age, parity>>
    BY <1>3, HeadCases DEF history, clock
  <2>2. TimedOut => TimedOut'
    BY <2>1, TimedOutStays
  <2>3. CASE Round
    <3>0. ~ai_started /\ pc = "head" /\ players' = Left /\ cursor' = Len(Left)
          /\ (ai_started' => RobotsOnly(Left)) /\ DOMAIN Left = 1..Len(Left) /\ Left \in Seq(Seats)
      <4>1. Left \in Seq(Seats)
        BY LeftFacts
      <4>2. pc = "head" /\ ~ai_started
        BY <1>3, HeadCases DEF Place
      <4>3. ai_started' => RobotsOnly(Left)
        BY <2>3, <4>2 DEF Round
      <4>4. players' = Left /\ cursor' = Len(Left)
        BY <2>3 DEF Round
      <4> QED
        BY <4>1, <4>2, <4>3, <4>4
    <3>1. ASSUME ai_started', NEW j \in DOMAIN Left, Sent(Left[j])
          PROVE  Controller[Left[j]] \in dropped
      <4>1. ~Online(Controller[Left[j]]) /\ Controller[Left[j]] \in Users
        BY <3>0, <3>1 DEF RobotsOnly, Types, Locals, Sent
      <4> QED
        BY <3>1, <4>1 DEF Connected, Sent
    <3>2. ASSUME ai_started', NEW k \in DOMAIN asked
          PROVE  result[asked[k]] # Nil \/ Absent(Controller[asked[k]]) \/ TimedOut
      <4>1. CASE \E j \in DOMAIN players : players[j] = asked[k]
        <5>1. PICK j \in DOMAIN players : players[j] = asked[k]
          BY <4>1
        <5>2. SUFFICES ASSUME ~TimedOut PROVE Absent(Controller[asked[k]])
          OBVIOUS
        <5>3. Left = players
          BY <5>2, LeftFacts
        <5>4. Sent(asked[k]) => Controller[asked[k]] \in dropped
          BY <3>1, <3>2, <5>1, <5>3
        <5>5. ~Sent(asked[k]) => Controller[asked[k]] \in refused
          BY <3>0 DEF Asking, FirstPass, Sending, Sampled, Sent
        <5> QED
          BY <5>4, <5>5 DEF Absent
      <4> QED
        BY <3>0, <4>1 DEF Accounted
    <3>3. \A j \in DOMAIN Left : ~(j > Len(Left))
      BY <3>0
    <3> QED
      BY <1>0, <2>1, <2>2, <3>0, <3>1, <3>2, <3>3 DEF AITurn, Sent, Absent
  <2>4. CASE GivesUp
    BY <1>0, <2>1, <2>2, <2>4, TurnKept DEF GivesUp
  <2> QED
    BY <1>3, <2>3, <2>4, HeadCases
<1>4. CASE PollRobot \/ Wait
  <2>0. /\ UNCHANGED <<asked, ai_started, send_success, refused, dropped>>
        /\ (TimedOut => TimedOut') /\ cursor > 0 /\ cursor <= Len(players)
    BY <1>4, PollsCases, TimedOutStays, WaitFacts, RobotCases DEF Place, history
  <2>1. CASE Skip /\ (ai_started => Sent(Seat))
    <3>1. UNCHANGED <<players, result>> /\ cursor' = cursor - 1
      BY <2>1 DEF Skip
    <3>2. ai_started => Sent(players[cursor])
      BY <2>1 DEF Seat
    <3>3. \A j \in DOMAIN players : j > cursor - 1 => j > cursor \/ j = cursor
      BY <1>0
    <3> QED
      BY <1>0, <2>0, <3>1, <3>2, <3>3, TurnKept
  <2>2. ASSUME NEW a \in Given \cup Computed, Answered(Seat, a, Winners), a \in Computed => ai_started
        PROVE  AITurn'
    <3>1. /\ \A s \in Seats : result[s] # Nil => result'[s] # Nil
          /\ \A s \in Seats : result'[s] = result[s] \/ (s = Seat /\ result'[s] = a) \/ result'[s].by = "race"
          /\ \A j \in DOMAIN players' :
              \E k \in DOMAIN players : players'[j] = players[k] /\ (j > cursor' => k > cursor)
      <4>1. Answered(Seat, a, Winners) /\ a \in Given \cup Computed
        BY <2>2
      <4>2. \A s \in Seats : result[s] # Nil => result'[s] # Nil
        BY <2>0, <4>1, TakingCounts
      <4>3. ASSUME NEW s \in Seats
            PROVE  result'[s] = result[s] \/ (s = Seat /\ result'[s] = a) \/ result'[s].by = "race"
        BY <2>0, <4>1, TakingCounts
      <4>4. \A j \in DOMAIN players' :
              \E k \in DOMAIN players : players'[j] = players[k] /\ (j > cursor' => k > cursor)
        BY <2>0, <4>1, TakingCounts
      <4> QED
        BY <4>2, <4>3, <4>4
    <3>2. a.by = "ai" => ai_started
      BY <2>2 DEF Given, Computed
    <3>3. \A s \in Seats : result'[s].by = "ai" => ai_started
      BY <1>0, <3>1, <3>2
    <3> QED
      BY <2>0, <3>1, <3>3, TurnKept
  <2> QED
    BY <1>4, <2>1, <2>2, PollsCases DEF Polls
<1>5. CASE PollHuman \/ PollNobody \/ PollEnd \/ GameOver \/ Delay
  <2>1. /\ UNCHANGED <<asked, players, result, ai_started, resume_reason, age, parity>>
        /\ cursor' = cursor \/ (PollHuman /\ cursor' = cursor - 1)
    BY <1>5, OtherPolls
  <2>2. UNCHANGED <<send_success, refused, dropped>>
    BY <1>5, PollKeeps DEF PollStep
  <2>3. PollHuman => cursor > 0 /\ Sent(players[cursor])
    BY DEF PollHuman, PollIf, Seat
  <2>4. \A j \in DOMAIN players : j > cursor - 1 => j > cursor \/ j = cursor
    BY <1>0
  <2>5. \A j \in DOMAIN players : j > cursor' => j > cursor \/ Sent(players[j])
    BY <2>1, <2>3, <2>4
  <2> QED
    BY <1>0, <2>1, <2>2, <2>5, TurnKept, TimedOutStays
<1>6. CASE Finish
  <2>1. UNCHANGED <<asked, players, cursor, ai_started, send_success, refused, dropped,
                    resume_reason, age, parity>>
    BY <1>6, FinishFacts DEF clock
  <2>2. ASSUME NEW s \in Seats
        PROVE  (result[s] # Nil => result'[s] # Nil) /\ (result'[s].by = "ai" => ai_started)
    <3>1. result[s] \in Answers /\ result'[s] \in {result[s], Normal(result[s])}
      BY <1>0, <1>6, FinishFacts
    <3> QED
      BY <1>0, <3>1, NormalFacts
  <2> QED
    BY <1>0, <2>1, <2>2, TurnKept, TimedOutStays
<1>7. CASE WakeUp \/ DelayEnds \/ Surrender
  <2>1. GoesOn
    BY <1>7, GoOn
  <2> QED
    BY <1>0, <2>1, GoOnTime, TurnKept DEF GoesOn
<1>8. CASE Elsewhere \/ UNCHANGED vars
  <2>1. StandsStill
    BY <1>8, StandStill
  <2> QED
    BY <1>0, <2>1, TurnKept, TimedOutStays DEF StandsStill
<1> QED
  BY <1>1, <1>2, <1>3, <1>4, <1>5, <1>6, <1>7, <1>8, MoreCases DEF PollStep

-----------------------------------------------------------------------------
(* What the Router has recorded.                                            *)

\* Elsewhere, a reply is recorded for the expected request, and it is forgotten
\* which request is expected when the connection is lost.
Records(u) ==
  /\ expected' = [expected EXCEPT ![u] = Nothing] /\ dropped' = dropped
  /\ wake' = wake
  /\ \/ m_reply' = m_reply /\ main' = main
     \/ /\ main' = <<"replyReady", u>>
        /\ \E v \in {"ok", "__cancel"} : m_reply' = [m_reply EXCEPT ![u] =
              [ask |-> expected[u].ask, seat |-> expected[u].seat, value |-> v]]
Forgets(u) ==
  /\ expected' = [expected EXCEPT ![u] = Nothing] /\ dropped' = dropped \cup {u}
  /\ m_reply' = m_reply

\* Nothing else touches the replies.
LEMMA ElsewhereCases ==
  ASSUME Types, Elsewhere \/ UNCHANGED vars
  PROVE  \/ UNCHANGED <<m_reply, expected>> /\ dropped' = dropped
         \/ \E u \in Users : expected[u] # Nothing /\ Records(u)
         \/ \E u \in Users : Forgets(u)
<1> USE DEF shared, mainVars, history
<1>1. CASE RequestTimer \/ ReplyReady \/ RelayTimer \/ Tick \/ UNCHANGED vars
  BY <1>1 DEF RequestTimer, ReplyReady, OnReady, RelayTimer, Tick, vars
<1>2. CASE Disconnected
  <2>1. main[2] \in Users
    BY <1>2 DEF Disconnected, Types, Outside, Idle
  <2> QED
    BY <1>2, <2>1 DEF Disconnected, Forgets
<1>3. ASSUME NEW u \in Users, RecordReply(u) PROVE expected[u] # Nothing /\ Records(u)
  <2>1. PICK late \in BOOLEAN, v \in {"ok", "__cancel"} :
          IF late THEN UNCHANGED <<m_reply, main, order>>
          ELSE /\ m_reply' = [m_reply EXCEPT ![u] =
                     [ask |-> expected[u].ask, seat |-> expected[u].seat, value |-> v]]
               /\ main' = <<"replyReady", u>>
    BY <1>3 DEF RecordReply
  <2>2. /\ expected[u] # Nothing /\ expected' = [expected EXCEPT ![u] = Nothing]
        /\ dropped' = dropped /\ wake' = wake
    BY <1>3 DEF RecordReply
  <2> QED
    BY <2>1, <2>2 DEF Records
<1>4. ASSUME NEW u \in Users, Disconnect(u) \/ Reconnect(u)
      PROVE  UNCHANGED <<m_reply, expected>> /\ dropped' = dropped
  BY <1>4 DEF Disconnect, Reconnect
<1>5. ASSUME NEW u \in Users, Kick(u) PROVE Forgets(u)
  BY <1>5 DEF Kick, Forgets
<1> QED
  BY <1>1, <1>2, <1>3, <1>4, <1>5 DEF Elsewhere

\* A recorded reply answers this request, for the seat looked at.
LEMMA CurrentStep ==
  ASSUME Types, Place, Connected, Current, [Next]_vars
  PROVE  Current'
<1> DEFINE Awaits(u) == u \in send_success /\ u \notin dropped /\ ~(pc = "request" /\ Addressee = u)
           Is(u) ==
             /\ expected[u] = Nothing \/ (expected[u].ask = ask /\ expected[u].seat = view[u])
             /\ m_reply[u].value = "__notready"
                  \/ (m_reply[u].ask = ask /\ m_reply[u].seat = view[u])
<1>0. /\ \A u \in Users : Awaits(u) => Is(u)
      /\ \A u \in Users : u \in Players
      /\ expected \in [Players -> Expected] /\ m_reply \in [Players -> Replies]
      /\ view \in [Players -> Seats \cup {NoSeat}]
  BY Consts DEF Current, Types, Locals, Shared
<1>01. ASSUME \A u \in Users : Awaits(u)' => Is(u)' PROVE Current'
  BY <1>01 DEF Current
<1>02. ASSUME UNCHANGED <<send_success, view, m_reply, expected, ask>>, dropped \subseteq dropped',
              pc # "request"
       PROVE  Current'
  <2>1. \A u \in Users : Awaits(u)' => Awaits(u)
    BY <1>02
  <2>2. \A u \in Users : Is(u)' <=> Is(u)
    BY <1>02
  <2> HIDE DEF Awaits, Is
  <2> QED
    BY <1>0, <1>01, <2>1, <2>2
<1>1. CASE Asks
  <2>1. send_success' = {}
    BY <1>1, AskFacts DEF Asks
  <2> QED
    BY <1>01, <2>1
<1>2. CASE SendPacket
  <2>0. /\ pc = "send" /\ (Sends \/ Postpones) /\ UNCHANGED <<m_reply, expected, ask, dropped>>
        /\ Addressee \in Players
    BY <1>2, SendCases, SendKeeps, ToSendFacts DEF SendStep
  <2>1. CASE Sends
    <3>1. ASSUME NEW u \in Users, Awaits(u)' PROVE Awaits(u) /\ view'[u] = view[u]
      <4>1. Addressee' = Addressee /\ pc' = "request"
        BY <2>1 DEF Sends, Addressee
      <4>2. u # Addressee
        BY <3>1, <4>1
      <4> QED
        BY <1>0, <2>0, <2>1, <3>1, <4>2 DEF Sends
    <3> QED
      BY <1>0, <1>01, <2>0, <3>1
  <2>2. CASE Postpones
    BY <1>02, <2>0, <2>2 DEF Postpones
  <2> QED
    BY <2>0, <2>1, <2>2
<1>3. CASE DoRequest
  <2>0. /\ pc = "request" /\ pc' = "think" /\ toSend # <<>> /\ view[Addressee] = Head(toSend)
        /\ UNCHANGED <<send_success, view, ask, dropped, toSend>>
    BY <1>3 DEF DoRequest, Place, request, history
  <2>1. Addressee \in Players
    BY <2>0, ToSendFacts
  <2>2. \/ /\ Online(Addressee) /\ m_reply' = [m_reply EXCEPT ![Addressee] = NotReady]
           /\ expected' = [expected EXCEPT ![Addressee] = [ask |-> ask, seat |-> Head(toSend)]]
        \/ ~Online(Addressee) /\ UNCHANGED <<m_reply, expected>>
    BY <1>3 DEF DoRequest, Addressee
  <2>3. ASSUME NEW u \in Users, Awaits(u)' PROVE Is(u)'
    <3>1. CASE u = Addressee
      <4>1. Online(u)
        BY <2>0, <2>3 DEF Connected
      <4>2. m_reply'[u] = NotReady /\ expected'[u] = [ask |-> ask, seat |-> Head(toSend)]
        BY <1>0, <2>1, <2>2, <3>1, <4>1
      <4> QED
        BY <2>0, <3>1, <4>2 DEF NotReady
    <3>2. CASE u # Addressee
      <4>1. Is(u)
        BY <1>0, <2>0, <2>3, <3>2
      <4> QED
        BY <1>0, <2>0, <2>1, <2>2, <3>2, <4>1
    <3> QED
      BY <3>1, <3>2
  <2> QED
    BY <1>01, <2>3
<1>4. CASE SetThinking \/ SendDone
  BY <1>02, <1>4 DEF SetThinking, SendDone, request, shared, history
<1>5. CASE PollStep
  BY <1>02, <1>5, PollKeeps
<1>6. CASE Wait
  BY <1>02, <1>6, WaitFacts
<1>7. CASE Finish
  BY <1>02, <1>7, FinishFacts
<1>8. CASE WakeUp \/ DelayEnds \/ Surrender
  BY <1>02, <1>8, GoOn DEF GoesOn
<1>9. CASE Elsewhere \/ UNCHANGED vars
  <2>0. /\ UNCHANGED <<pc, toSend, send_success, view, ask>> /\ dropped \subseteq dropped'
        /\ \A u \in Users : Awaits(u)' => Awaits(u)
    BY <1>9, StandStill DEF StandsStill, Addressee
  <2>1. CASE UNCHANGED <<m_reply, expected>>
    BY <1>0, <1>01, <2>0, <2>1
  <2>2. ASSUME NEW w \in Users, expected[w] # Nothing, Records(w) PROVE Current'
    <3>1. ASSUME NEW u \in Users, Awaits(u)' PROVE Is(u)'
      <4>0. Is(u)
        BY <1>0, <2>0, <3>1
      <4>1. CASE u # w
        <5>1. expected'[u] = expected[u] /\ m_reply'[u] = m_reply[u]
          BY <1>0, <2>2, <4>1 DEF Records
        <5> QED
          BY <2>0, <4>0, <5>1
      <4>2. CASE u = w
        <5>1. expected'[u] = Nothing
          BY <1>0, <2>2, <4>2 DEF Records
        <5>2. \/ m_reply' = m_reply
              \/ m_reply'[u].ask = expected[u].ask /\ m_reply'[u].seat = expected[u].seat
          BY <1>0, <2>2, <4>2 DEF Records
        <5> QED
          BY <2>0, <2>2, <4>0, <4>2, <5>1, <5>2
      <4> QED
        BY <4>1, <4>2
    <3> QED
      BY <1>01, <3>1
  <2>3. ASSUME NEW w \in Users, Forgets(w) PROVE Current'
    <3>1. ASSUME NEW u \in Users, Awaits(u)' PROVE Is(u)'
      <4>1. Is(u) /\ u # w
        BY <1>0, <2>0, <2>3, <3>1 DEF Forgets
      <4> QED
        BY <1>0, <2>0, <2>3, <4>1 DEF Forgets
    <3> QED
      BY <1>01, <3>1
  <2> QED
    BY <1>9, <2>1, <2>2, <2>3, ElsewhereCases
<1> QED
  BY <1>1, <1>2, <1>3, <1>4, <1>5, <1>6, <1>7, <1>8, <1>9, MoreCases DEF SendStep

\* So does the answer that is stored.
LEMMA TheirsStep ==
  ASSUME Types, Place, Connected, Distinct, Limit, Placed, AITurn, Current, AnswersAreTheirs,
         [Next]_vars
  PROVE  AnswersAreTheirs'
<1> DEFINE Good(a, s) == a.ask = ask /\ a.seat = s /\ ~a.raw
<1>0. ASSUME UNCHANGED ask, dropped \subseteq dropped',
             \A s \in Seats : \/ result'[s] = result[s]
                              \/ ~(result'[s].by = "human" /\ result'[s].value = "ok")
                              \/ Controller[s] \notin dropped => Good(result'[s], s)
      PROVE  AnswersAreTheirs'
  BY <1>0 DEF AnswersAreTheirs
<1>1. CASE Asks
  <2>1. result' = [s \in Seats |-> Nil] /\ Nil.by # "human"
    BY <1>1, AskFacts DEF Asks, Nil
  <2> QED
    BY <2>1 DEF AnswersAreTheirs
<1>2. CASE SendStep
  BY <1>0, <1>2, SendKeeps
<1>3. CASE LoopHead
  BY <1>0, <1>3, HeadCases DEF history
<1>4. CASE PollHuman \/ PollNobody \/ PollEnd \/ GameOver \/ Delay
  <2>1. UNCHANGED <<result, ask, dropped>>
    BY <1>4, OtherPolls, PollKeeps DEF PollStep
  <2> QED
    BY <1>0, <2>1
<1>5. CASE PollRobot
  <2>0. UNCHANGED <<ask, dropped>> /\ cursor > 0 /\ cursor <= Len(players)
    BY <1>5, RobotCases DEF Place, history
  <2>1. CASE Skip
    BY <1>0, <2>0, <2>1 DEF Skip
  <2>2. ASSUME NEW a \in Computed, Answered(Seat, a, Winners) PROVE AnswersAreTheirs'
    <3>1. \A s \in Seats : result'[s] = result[s] \/ (s = Seat /\ result'[s] = a) \/ result'[s].by = "race"
      BY <2>0, <2>2, TakingCounts
    <3>2. a.by = "ai"
      BY DEF Computed
    <3> QED
      BY <1>0, <2>0, <3>1, <3>2
  <2> QED
    BY <1>5, <2>0, <2>1, <2>2, RobotCases
<1>6. CASE Wait
  <2>0. /\ UNCHANGED <<ask, dropped>> /\ (Passes \/ Hears) /\ cursor > 0 /\ cursor <= Len(players)
        /\ pc = "wait" /\ Sent(Seat) /\ Controller[Seat] \in Users /\ view[Controller[Seat]] = Seat
    BY <1>6, WaitFacts
  <2>1. CASE Passes
    BY <1>0, <2>0, <2>1 DEF Passes, Skip
  <2>2. CASE Hears
    <3> DEFINE u == Controller[Seat]
    <3>0. Answered(Seat, Polled, Winners) /\ Polled \in Given /\ (Online(u) => m_reply[u].value # "__notready")
      BY <2>2 DEF Hears
    <3>1. \A s \in Seats : result'[s] = result[s] \/ (s = Seat /\ result'[s] = Polled) \/ result'[s].by = "race"
      BY <2>0, <3>0, TakingCounts
    <3>2. ASSUME u \notin dropped, Polled.value = "ok" PROVE Good(Polled, Seat)
      <4>1. Online(u)
        BY <3>2 DEF Polled
      <4>2. m_reply[u].ask = ask /\ m_reply[u].seat = Seat
        BY <2>0, <3>0, <3>2, <4>1 DEF Current, Sent
      <4>3. ~ai_started
        <5>1. cursor \in DOMAIN players /\ Seat = players[cursor]
          BY <2>0, SeatFacts DEF Seat
        <5> QED
          BY <2>0, <3>2, <5>1 DEF AITurn
      <4> QED
        BY <4>1, <4>2, <4>3 DEF Polled
    <3> HIDE DEF u, Good
    <3> QED
      BY <1>0, <2>0, <3>1, <3>2 DEF u
  <2> QED
    BY <2>0, <2>1, <2>2
<1>7. CASE Finish
  <2>1. UNCHANGED <<ask, dropped>>
    BY <1>7, FinishFacts
  <2>2. ASSUME NEW s \in Seats, result'[s].by = "human", result'[s].value = "ok"
        PROVE  result'[s] = result[s]
    <3>1. result[s] \in Answers /\ result'[s] \in {result[s], Normal(result[s])}
      BY <1>7, FinishFacts DEF Types, Locals
    <3> QED
      BY <2>2, <3>1, NormalFacts
  <2> QED
    BY <1>0, <2>1, <2>2
<1>8. CASE WakeUp \/ DelayEnds \/ Surrender
  BY <1>0, <1>8, GoOn DEF GoesOn
<1>9. CASE Elsewhere \/ UNCHANGED vars
  BY <1>0, <1>9, StandStill DEF StandsStill
<1> QED
  BY <1>1, <1>2, <1>3, <1>4, <1>5, <1>6, <1>7, <1>8, <1>9, MoreCases DEF PollStep

-----------------------------------------------------------------------------
(* Replies are noticed.                                                     *)

\* No wake-up is on its way.
Quiet == wake = <<>> /\ main[1] # "replyReady"

\* A reply that has come is ahead of the cursor, or wakes the room up.
LEMMA NoticedStep ==
  ASSUME Types, Place, Connected, Noticed, [Next]_vars
  PROVE  Noticed'
<1>0. /\ cursor \in Nat /\ players \in Seq(Seats) /\ DOMAIN players = 1..Len(players)
      /\ \A k \in DOMAIN players : players[k] \in Seats /\ Controller[players[k]] \in Players
  <2>1. players \in Seq(Seats) /\ cursor \in Nat
    BY DEF Types, Lists, Locals
  <2>2. \A k \in DOMAIN players : players[k] \in Seats
    BY <2>1
  <2> QED
    BY <2>1, <2>2, Consts
<1>01. ASSUME pc' \notin {"poll", "wait", "waiting"} PROVE Noticed'
  BY <1>01 DEF Noticed
<1>02. ASSUME pc' \in {"poll", "wait"}, changed' PROVE Noticed'
  BY <1>02 DEF Noticed
<1>1. CASE Asks
  BY <1>01, <1>1, AskFacts DEF Asks
<1>2. CASE SendStep
  <2>1. Sending /\ (pc' = back \/ Sending') /\ changed' = changed /\ back \in {"head", "poll"}
    BY <1>2, SendKeeps DEF Types, Locals
  <2> QED
    BY <1>01, <1>02, <2>1 DEF Place, Sending
<1>3. CASE LoopHead
  <2>1. CASE Round
    <3>1. players' = Left /\ cursor' = Len(Left) /\ pc' = "poll" /\ DOMAIN Left = 1..Len(Left)
      BY <2>1, LeftFacts DEF Round
    <3>2. \A k \in DOMAIN players' : k <= cursor'
      <4>1. Len(Left) \in Nat
        BY LeftFacts
      <4> QED
        BY <3>1, <4>1
    <3> QED
      BY <3>1, <3>2 DEF Noticed
  <2>2. CASE GivesUp
    BY <1>01, <2>2 DEF GivesUp
  <2> QED
    BY <1>3, <2>1, <2>2, HeadCases
<1>4. CASE PollHuman
  <2>0. /\ pc = "poll" /\ cursor > 0
        /\ UNCHANGED <<dropped, send_success, view, m_reply, wake, main>>
    BY <1>4, PollKeeps DEF PollStep, PollHuman, PollIf
  <2>1. \/ pc' = "wait" /\ UNCHANGED <<players, changed, cursor>>
        \/ /\ view[Controller[Seat]] # Seat /\ pc' = "poll" /\ cursor' = cursor - 1
           /\ UNCHANGED <<players, changed>>
    BY <1>4, <2>0 DEF PollHuman, PollIf, Skip
  <2>2. ASSUME NEW k \in DOMAIN players, Quiet, Replied(players[k]) PROVE k <= cursor \/ changed
    BY <2>0, <2>2 DEF Noticed, Quiet
  <2>3. ASSUME NEW k \in DOMAIN players, Quiet, Replied(players[k]) PROVE k <= cursor' \/ changed
    BY <1>0, <2>0, <2>1, <2>2, <2>3 DEF Replied, Seat
  <2> QED
    BY <2>0, <2>1, <2>3 DEF Noticed, Quiet, Replied, Sent
<1>5. CASE PollRobot \/ Wait
  <2>0. /\ pc \in {"poll", "wait"} /\ cursor > 0 /\ cursor <= Len(players)
        /\ UNCHANGED <<dropped, send_success, view, m_reply, wake, main>>
    BY <1>5, PollKeeps, WaitFacts, PollsCases DEF PollStep, Wait, WaitForReply, PollRobot, RobotSeat
  <2>1. CASE \E a \in Answers : Answered(Seat, a, Winners)
    <3>1. changed' = TRUE
      BY <2>0, <2>1, Taken
    <3> QED
      BY <1>01, <1>02, <3>1, <1>5, RobotCases, WaitFacts DEF Passes, Hears, Place
  <2>2. CASE Skip /\ pc' = "poll" /\ ~Replied(Seat)
    <3>1. UNCHANGED <<players, changed>> /\ cursor' = cursor - 1 /\ ~Replied(players[cursor])
      BY <2>2 DEF Skip, Seat
    <3>2. ASSUME NEW k \in DOMAIN players, Quiet, Replied(players[k]) PROVE k <= cursor \/ changed
      BY <2>0, <3>2 DEF Noticed, Quiet
    <3>3. ASSUME NEW k \in DOMAIN players, Quiet, Replied(players[k]) PROVE k <= cursor' \/ changed
      <4>1. k # cursor
        BY <3>1, <3>3
      <4>2. k <= cursor \/ changed
        BY <3>2, <3>3
      <4> QED
        BY <1>0, <3>1, <4>1, <4>2
    <3> QED
      BY <2>0, <2>2, <3>1, <3>3 DEF Noticed, Quiet, Replied, Sent
  <2>3. CASE PollRobot
    <3>1. ~Replied(Seat)
      <4>1. ~(Online(Controller[Seat]) /\ Sent(Seat))
        BY <2>3, RobotCases DEF Place
      <4>2. Sent(Seat) => Controller[Seat] \in Users
        BY DEF Sent, Types, Locals
      <4> QED
        BY <4>1, <4>2 DEF Replied, Connected, Sent
    <3>2. pc' = "poll" /\ (Skip \/ \E a \in Answers : Answered(Seat, a, Winners))
      BY <2>3, RobotCases DEF Place, Answers
    <3> QED
      BY <2>1, <2>2, <3>1, <3>2
  <2>4. CASE Wait
    <3>1. CASE Passes
      BY <2>2, <3>1 DEF Passes, Replied
    <3>2. CASE Hears
      BY <2>1, <3>2 DEF Hears, Answers
    <3> QED
      BY <2>4, <3>1, <3>2, WaitFacts
  <2> QED
    BY <1>5, <2>3, <2>4
<1>6. CASE PollEnd
  <2>0. /\ UNCHANGED <<players, dropped, send_success, view, m_reply, wake, main, changed>>
        /\ pc = "poll" /\ cursor = 0 /\ pc' \in {"finish", "head", "waiting"}
        /\ pc' = "waiting" => ~changed
    BY <1>6 DEF PollEnd, request, shared, mainVars, history
  <2>1. ASSUME NEW k \in DOMAIN players, Quiet, Replied(players[k]) PROVE changed
    <3>1. k <= 0 \/ changed
      BY <2>0, <2>1 DEF Noticed, Quiet
    <3> QED
      BY <1>0, <3>1
  <2> QED
    BY <1>01, <2>0, <2>1 DEF Noticed, Quiet, Replied, Sent
<1>7. CASE PollNobody \/ GameOver \/ Delay
  BY <1>01, <1>7 DEF PollNobody, GameOver, Delay
<1>8. CASE Finish
  BY <1>01, <1>8, FinishFacts
<1>9. CASE WakeUp \/ DelayEnds \/ Surrender
  BY <1>01, <1>9, GoOn DEF GoesOn
<1>10. CASE Elsewhere \/ UNCHANGED vars
  <2>0. UNCHANGED <<pc, players, send_success, view, cursor, changed>> /\ dropped \subseteq dropped'
    BY <1>10, StandStill DEF StandsStill
  <2>1. m_reply \in [Players -> Replies] /\ wake \in Seq(Wakes)
    BY DEF Types, Shared, Outside
  <2>2. \/ wake' # <<>> \/ main'[1] = "replyReady"
        \/ m_reply' = m_reply /\ (Quiet' => Quiet)
    <3> USE DEF shared, mainVars, Quiet
    <3>1. CASE RequestTimer \/ Tick \/ UNCHANGED vars
      BY <3>1 DEF RequestTimer, Tick, vars
    <3>2. CASE ReplyReady \/ RelayTimer
      <4>1. \A w \in Wakes : Append(wake, w) # <<>>
        BY <2>1
      <4>2. PICK w : wake' = Append(wake, w) /\ w \in Wakes
        <5>1. wake' \in Seq(Wakes)
          BY OutsideStep DEF Outside
        <5>2. Wake("reply", 0) \in Wakes
          BY DEF Wake, Wakes, Reasons
        <5>3. relayed # <<>> => Wake("request_timer", Head(relayed)) \in Wakes
          BY DEF Wake, Wakes, Reasons, Types, Outside
        <5> QED
          BY <3>2, <5>2, <5>3 DEF ReplyReady, OnReady, RelayTimer
      <4> QED
        BY <4>1, <4>2
    <3>3. CASE Disconnected
      BY <3>3 DEF Disconnected
    <3>4. ASSUME NEW u \in Users, RecordReply(u)
          PROVE  main'[1] = "replyReady" \/ (m_reply' = m_reply /\ (Quiet' => Quiet))
      <4>1. wake' = wake /\ \/ main' = <<"replyReady", u>>
                            \/ m_reply' = m_reply /\ main' = main
        BY <3>4 DEF RecordReply
      <4> QED
        BY <4>1
    <3>5. ASSUME NEW u \in Users, Disconnect(u) \/ Kick(u) \/ Reconnect(u)
          PROVE  wake' # <<>> \/ (m_reply' = m_reply /\ (Quiet' => Quiet))
      <4>1. m_reply' = m_reply /\ main = Idle
        BY <3>5 DEF Disconnect, Kick, Reconnect
      <4>2. wake' = wake \/ wake' = Append(wake, Wake("player_disconnect", 0))
        BY <3>5 DEF Disconnect, Kick, Reconnect, WakeIfThinking
      <4>3. Wake("player_disconnect", 0) \in Wakes
        BY DEF Wake, Wakes, Reasons
      <4>4. Append(wake, Wake("player_disconnect", 0)) # <<>>
        <5>1. \A w \in Wakes : Append(wake, w) # <<>>
          BY <2>1
        <5> QED
          BY <4>3, <5>1
      <4>5. main[1] # "replyReady"
        <5>1. Idle[1] = "idle"
          BY DEF Idle
        <5> HIDE DEF Quiet
        <5> QED
          BY <4>1, <5>1
      <4>6. wake' = wake => (Quiet' => Quiet)
        BY <4>5
      <4> QED
        BY <4>1, <4>2, <4>4, <4>6
    <3> QED
      BY <1>10, <3>1, <3>2, <3>3, <3>4, <3>5 DEF Elsewhere
  <2>3. CASE wake' # <<>> \/ main'[1] = "replyReady"
    BY <2>3 DEF Noticed
  <2>4. CASE m_reply' = m_reply /\ (Quiet' => Quiet)
    <3>1. \A k \in DOMAIN players : Replied(players[k])' => Replied(players[k])
      BY <2>0, <2>4 DEF Replied, Sent
    <3> QED
      BY <2>0, <2>4, <3>1 DEF Noticed, Quiet
  <2> QED
    BY <2>2, <2>3, <2>4
<1> QED
  BY <1>1, <1>2, <1>3, <1>4, <1>5, <1>6, <1>7, <1>8, <1>9, <1>10, MoreCases DEF PollStep

-----------------------------------------------------------------------------
(* Theorems.                                                                *)

\* The invariant is inductive.
LEMMA InvStep == ASSUME Inv, [Next]_vars PROVE Inv'
BY TypesStep, PlaceStep, AskingStep, ConnectedStep, CountsStep, AccountedStep, AITurnStep,
   CurrentStep, NoticedStep, TheirsStep
DEF Inv

\* The invariant holds in every reachable state of a room that asks its players.
THEOREM Invariance == Spec => []Inv
<1>1. Init => Inv
  BY InitInv
<1>2. Inv /\ [Next]_vars => Inv'
  BY InvStep
<1> QED
  BY <1>1, <1>2, PTL DEF Spec

\* Types, of every reachable state: among others, the cursor of the polling loop
\* stays within the list that the loop shortens.
THEOREM Typing == Spec => []TypeOK
<1>1. Inv => TypeOK
  <2> SUFFICES ASSUME Inv PROVE TypeOK
    OBVIOUS
  <2>0. Types /\ Place
    BY DEF Inv
  <2>1. /\ pc \in PCs /\ {asked, players, winners, toSend, order} \subseteq Seq(Seats)
        /\ send_success \subseteq Users /\ refused \subseteq Players /\ DOMAIN result = Seats
        /\ pending_requests \in [Players -> Seq(Seats)]
        /\ view \in [Players -> Seats \cup {NoSeat}] /\ timewaste_count \in [Seats -> Nat]
        /\ unheard \in [Seats -> Nat]
    BY <2>0 DEF Types, Lists, Locals
  <2>2. {ai_started, changed, hasSurrendered, timer} \subseteq BOOLEAN
    BY <2>0 DEF Types, Locals, Shared
  <2>3. resume_reason.reason \in Reasons /\ \A k \in DOMAIN wake : wake[k].reason \in Reasons
    <3>1. resume_reason \in Wakes /\ wake \in Seq(Wakes)
      BY <2>0 DEF Types, Locals, Outside
    <3>2. \A k \in DOMAIN wake : wake[k] \in Wakes
      BY <3>1
    <3> QED
      BY <3>1, <3>2 DEF Wakes
  <2>4. cursor \in 0..Len(players) /\ back \in {"head", "poll"}
    BY <2>0 DEF Types, Lists, Locals, Place
  <2>5. (pc \in {"request", "think"} => toSend # <<>>) /\ (pc = "wait" => cursor > 0)
    BY <2>0 DEF Place
  <2>6. /\ \A u \in Users : state[u] \in {"Online", "Offline"}
        /\ \A u \in Bots : state[u] = "Robot"
        /\ thinking \in [Players -> BOOLEAN]
    BY <2>0, Consts DEF Types, Shared
  <2>7. /\ main = Idle \/ main \in {"replyReady", "onDisconnected"} \X Users
        /\ kicks \subseteq Users /\ delays \subseteq Nat
        /\ {age, parity, ask, delayed, drops, surrenders} \subseteq Nat
    BY <2>0 DEF Types, Outside
  <2> QED
    BY <2>1, <2>2, <2>3, <2>4, <2>5, <2>6, <2>7 DEF TypeOK, PCs
<1> QED
  BY <1>1, Invariance, PTL

\* No reply is lost: a room that yields in Request:ask with no wake-up on its way
\* has polled every reply recorded by the main thread.
THEOREM Heard == Spec => []NoLostReply
<1>1. Inv => NoLostReply
  BY DEF Inv, Noticed, NoLostReply, Replied, Idle
<1> QED
  BY <1>1, Invariance, PTL

\* The AI computes an answer only when no human is left who could give his: the
\* others have answered, are gone, were not sent the request, or are out of time.
THEOREM HumansFirst == Spec => []AIAnswersLast
<1>1. Inv => AIAnswersLast
  BY DEF Inv, AITurn, Absent, AIAnswersLast
<1> QED
  BY <1>1, Invariance, PTL

\* Request.n limits the winners, whatever the order of replies and of the seats in
\* the loop: nobody wins twice, and only a complete race has losers.
THEOREM FairRace == Spec => []RaceIsFair
<1>1. Inv => RaceIsFair
  BY DEF Inv, Limit, Distinct, Placed, RaceIsFair
<1> QED
  BY <1>1, Invariance, PTL

\* The answer kept for a seat is what its player replied to this very request, as
\* long as he does not lose his connection: a client that controls several seats
\* does not answer for the wrong one.
THEOREM OwnAnswers == Spec => []AnswersAreTheirs
<1>1. Inv => AnswersAreTheirs
  BY DEF Inv
<1> QED
  BY <1>1, Invariance, PTL

\* A seat without an answer when the request finishes let the time run out, or
\* left, or somebody surrendered; and it did not answer in time.
LEMMA Wasters ==
  ASSUME Inv, Finish, NEW s \in Range(asked), result[s] = Nil
  PROVE  /\ TimedOut \/ hasSurrendered \/ Controller[s] \in dropped
         /\ ~InTime(s)
<1>0. asked \in Seq(Seats) /\ players \in Seq(Seats)
  BY DEF Inv, Types, Lists
<1>1. PICK k \in DOMAIN asked : asked[k] = s
  BY DEF Range
<1>2. pc = "finish"
  BY DEF Finish, FinishAsk
<1>3. ASSUME ~hasSurrendered, ~TimedOut PROVE Controller[s] \in dropped
  <2>1. PICK j \in DOMAIN players : players[j] = s
    BY <1>1, <1>2, <1>3 DEF Inv, Accounted
  <2>2. players # <<>> /\ j > 0
    BY <1>0, <2>1
  <2>3. cursor = 0 /\ ai_started
    BY <1>2, <1>3, <2>2 DEF Inv, Place
  <2> QED
    BY <2>1, <2>2, <2>3 DEF Inv, AITurn
<1> QED
  BY <1>3 DEF InTime

\* The count of idleness, kept over several requests, and the seats that nothing
\* was heard of.
Unheard == \A s \in Seats : timewaste_count[s] <= unheard[s]

\* What a step does to both.
LEMMA WasteStep ==
  ASSUME Inv, Unheard, [Next]_vars
  PROVE  /\ Unheard'
         /\ \A s \in Seats : timewaste_count'[s] > timewaste_count[s]
              => result[s] = Nil /\ (TimedOut \/ hasSurrendered \/ Controller[s] \in dropped)
         /\ \A u \in kicks' \ kicks :
              \E s \in Seats : Controller[s] = u /\ unheard'[s] >= MaxWaste
<1>0. /\ timewaste_count \in [Seats -> Nat] /\ unheard \in [Seats -> Nat]
      /\ MaxWaste \in Nat
  BY Consts DEF Inv, Types, Locals
<1>1. CASE UNCHANGED <<timewaste_count, unheard>> /\ kicks' \subseteq kicks
  BY <1>0, <1>1 DEF Unheard
<1>2. CASE Finish
  <2>1. ASSUME NEW s \in Seats, timewaste_count'[s] > timewaste_count[s]
        PROVE  /\ result[s] = Nil /\ ~InTime(s)
               /\ TimedOut \/ hasSurrendered \/ Controller[s] \in dropped
    <3>1. result[s] = Nil /\ s \in Range(asked)
      BY <1>2, <2>1, FinishFacts DEF Inv
    <3> QED
      BY <1>2, <3>1, Wasters
  <2>2. ASSUME NEW s \in Seats PROVE timewaste_count'[s] <= unheard'[s]
    <3>1. /\ timewaste_count[s] \in Nat /\ unheard[s] \in Nat
          /\ timewaste_count'[s] \in Nat /\ unheard'[s] \in Nat
      BY <1>0, <1>2, FinishFacts DEF Inv
    <3>2. timewaste_count[s] <= unheard[s]
      BY DEF Unheard
    <3>3. \/ timewaste_count'[s] = 0
          \/ timewaste_count'[s] = timewaste_count[s] /\ unheard'[s] = unheard[s]
          \/ /\ timewaste_count'[s] = timewaste_count[s] + 1
             /\ InTime(s) \/ unheard'[s] = unheard[s] + 1
      BY <1>2, FinishFacts DEF Inv
    <3>4. timewaste_count'[s] = timewaste_count[s] + 1 => ~InTime(s)
      BY <2>1, <3>1
    <3> QED
      BY <3>1, <3>2, <3>3, <3>4
  <2>3. ASSUME NEW u \in kicks' \ kicks
        PROVE  \E s \in Seats : Controller[s] = u /\ unheard'[s] >= MaxWaste
    <3>1. PICK s \in Seats :
            /\ Controller[s] = u /\ result[s] = Nil /\ s \in Range(asked)
            /\ timewaste_count[s] + 1 >= MaxWaste
            /\ InTime(s) \/ unheard'[s] = unheard[s] + 1
      BY <1>2, FinishFacts DEF Inv
    <3>2. unheard'[s] = unheard[s] + 1
      BY <1>2, <3>1, Wasters
    <3>3. timewaste_count[s] \in Nat /\ unheard[s] \in Nat /\ timewaste_count[s] <= unheard[s]
      BY <1>0 DEF Unheard
    <3> QED
      BY <1>0, <3>1, <3>2, <3>3
  <2> QED
    BY <2>1, <2>2, <2>3 DEF Unheard
<1>3. CASE Asks
  BY <1>1, <1>3, AskFacts DEF Asks, game, mainVars
<1>4. CASE SendStep
  BY <1>1, <1>4, SendKeeps
<1>5. CASE PollStep \/ Wait
  BY <1>1, <1>5, PollKeeps, WaitFacts DEF Inv
<1>6. CASE WakeUp \/ DelayEnds \/ Surrender
  BY <1>1, <1>6, GoOn DEF GoesOn
<1>7. CASE Elsewhere \/ UNCHANGED vars
  BY <1>1, <1>7, StandStill DEF StandsStill
<1> QED
  BY <1>2, <1>3, <1>4, <1>5, <1>6, <1>7, MoreCases

\* Request:_finish only counts those as idle who let the time run out, left, or
\* whose request ended with a surrender, never the losers of a race; and kicks
\* only for a seat that did not answer in time in the last MaxWaste requests to it.
THEOREM IdleOnly == Spec => WasteIsIdleness
<1>1. Init => Unheard
  BY DEF Init, Unheard
<1>2. Inv /\ Unheard /\ [Next]_vars => Unheard'
  BY WasteStep
<1>3. Inv /\ Unheard /\ [Next]_vars =>
        [/\ \A s \in Seats :
              /\ timewaste_count'[s] <= unheard'[s]
              /\ timewaste_count'[s] > timewaste_count[s]
                   => /\ result[s] = Nil
                      /\ TimedOut \/ hasSurrendered \/ Controller[s] \in dropped
         /\ \A u \in kicks' \ kicks :
              \E s \in Seats : Controller[s] = u /\ unheard'[s] >= MaxWaste]_vars
  BY WasteStep DEF Unheard
<1> QED
  BY <1>1, <1>2, <1>3, Invariance, PTL DEF Spec, WasteIsIdleness
=============================================================================
