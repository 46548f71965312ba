---------------------------- MODULE RouterProofs ----------------------------
(* What Router.tla promises for every number of players, threads and        *)
(* requests.                                                                *)
EXTENDS Router, SequenceTheorems, TLAPS

(* The elements of a queue after the two operations the channels use.       *)
LEMMA RangeAppend ==
  ASSUME NEW S, NEW s \in Seq(S), NEW e \in S
  PROVE  Range(Append(s, e)) = Range(s) \cup {e}
<1>1. /\ Append(s, e) \in Seq(S)
      /\ Len(Append(s, e)) = Len(s) + 1
      /\ \A i \in 1 .. Len(s) : Append(s, e)[i] = s[i]
      /\ Append(s, e)[Len(s) + 1] = e
  BY AppendProperties
<1>2. DOMAIN s = 1 .. Len(s) /\ DOMAIN Append(s, e) = 1 .. Len(s) + 1
  BY <1>1
<1>3. Len(s) \in Nat
  OBVIOUS
<1> QED
  BY <1>1, <1>2, <1>3 DEF Range

LEMMA RangeTail ==
  ASSUME NEW S, NEW s \in Seq(S), s # <<>>
  PROVE  /\ Head(s) \in Range(s)
         /\ Range(Tail(s)) \subseteq Range(s)
         /\ Tail(s) # s
<1>1. /\ Tail(s) \in Seq(S) /\ Len(Tail(s)) = Len(s) - 1
      /\ \A i \in 1 .. Len(Tail(s)) : Tail(s)[i] = s[i + 1]
      /\ Head(s) = s[1] /\ Len(s) \in Nat /\ Len(s) > 0
  BY HeadTailProperties, EmptySeq
<1>2. DOMAIN s = 1 .. Len(s) /\ DOMAIN Tail(s) = 1 .. Len(s) - 1
  BY <1>1
<1>3. Head(s) \in Range(s)
  BY <1>1, <1>2 DEF Range
<1>4. \A i \in 1 .. Len(s) - 1 : i + 1 \in 1 .. Len(s)
  BY <1>1
<1>5. Range(Tail(s)) \subseteq Range(s)
  BY <1>1, <1>2, <1>4 DEF Range
<1>6. \A n \in Nat : n - 1 # n
  OBVIOUS
<1>7. Tail(s) # s
  BY <1>1, <1>6
<1> QED
  BY <1>3, <1>5, <1>7

-----------------------------------------------------------------------------
(* Every reachable state is well typed.                                     *)
THEOREM Typing == Spec => []TypeOK
<1>1. Init => TypeOK
  BY ConstantsAssumption DEF Init, TypeOK, Packet, NoPacket, NoId, NotReady
<1>2. TypeOK /\ [Next]_vars => TypeOK'
  <2> SUFFICES ASSUME TypeOK, [Next]_vars PROVE TypeOK'
    OBVIOUS
  <2> USE DEF TypeOK, Step, threadVars, lockVars, netVars, histVars
  <2>1. ASSUME NEW t \in Threads, NEW p \in Players, Drain(t, p) PROVE TypeOK'
    BY <2>1 DEF Drain
  <2>2. ASSUME NEW t \in Threads, Load(t) PROVE TypeOK'
    BY <2>2 DEF Load
  <2>3. ASSUME NEW t \in Threads, Store(t) PROVE TypeOK'
    BY <2>3 DEF Store
  <2>4. ASSUME NEW t \in Threads, Expect(t) PROVE TypeOK'
    <3>1. asked[t] \in Players /\ requestId \in Nat
      BY <2>4 DEF Expect, Record
    <3>2. /\ expectedReplyId' \in [Players -> Nat \cup {NoId}]
          /\ m_reply' \in [Players -> Nat]
          /\ expired' \in [Players -> BOOLEAN]
      BY <2>4, <3>1 DEF Expect, Record, NotReady
    <3>3. /\ serial' \in [Players -> Nat]
          /\ signalled' \in [Players -> Nat]
          /\ aborted' \in [Players -> BOOLEAN]
      BY <2>4, <3>1 DEF Expect, Record
    <3>4. \A u \in Threads : /\ pc'[u] # "idle" => asked'[u] \in Players
                             /\ pc'[u] \in {"expect", "send"} => requestId' > 0
      BY <2>4, <3>1 DEF Expect, Record
    <3>5. pc' \in [Threads -> {"idle", "load", "store", "expect", "send"}]
      BY <2>4 DEF Expect, Record
    <3>6. /\ requestId' = requestId /\ asked' = asked /\ loaded' = loaded
          /\ replyReadySemaphore' = replyReadySemaphore /\ connected' = connected
          /\ toClient' = toClient /\ toServer' = toServer /\ clientId' = clientId
      BY <2>4 DEF Expect, Record
    <3>7. /\ requestId' \in Nat
          /\ asked' \in [Threads -> Players \cup {NoPlayer}]
          /\ loaded' \in [Threads -> Nat]
          /\ replyReadySemaphore' \in [Players -> Nat]
          /\ connected' \in [Players -> BOOLEAN]
      BY <3>6
    <3>8. /\ toClient' \in [Players -> Seq(Packet)]
          /\ toServer' \in [Players -> Seq(Packet)]
          /\ clientId' \in [Players -> Packet \cup {NoPacket}]
      BY <3>6
    <3> QED
      BY <3>2, <3>3, <3>4, <3>5, <3>7, <3>8
  <2>5. ASSUME NEW t \in Threads, Send(t) PROVE TypeOK'
    <3>1. asked[t] \in Players /\ requestId \in Nat \ {0}
      BY <2>5 DEF Send
    <3>2. [id |-> requestId, serial |-> serial[asked[t]]] \in Packet
      BY <3>1 DEF Packet
    <3>3. toClient' \in [Players -> Seq(Packet)]
      BY <2>5, <3>1, <3>2, AppendProperties DEF Send
    <3> QED
      BY <2>5, <3>3 DEF Send
  <2>6. ASSUME NEW t \in Threads, NEW p \in Players, Poll(t, p) PROVE TypeOK'
    <3>1. replyReadySemaphore[p] - 1 \in Nat
      BY <2>6 DEF Poll, Acquire
    <3>2. replyReadySemaphore' \in [Players -> Nat]
      BY <2>6, <3>1 DEF Poll, Acquire
    <3> QED
      BY <2>6, <3>2 DEF Poll, Acquire
  <2>7. ASSUME NEW p \in Players, HandleReply(p) PROVE TypeOK'
    <3>1. Head(toServer[p]) \in Packet /\ Tail(toServer[p]) \in Seq(Packet)
      BY <2>7, HeadTailProperties DEF HandleReply, TakeReply
    <3>2. Head(toServer[p]).serial \in Nat
      BY <3>1 DEF Packet
    <3>3. /\ expectedReplyId' \in [Players -> Nat \cup {NoId}]
          /\ m_reply' \in [Players -> Nat]
          /\ replyReadySemaphore' \in [Players -> Nat]
          /\ signalled' \in [Players -> Nat]
      <4> replyReadySemaphore[p] + 1 \in Nat /\ signalled[p] + 1 \in Nat
        OBVIOUS
      <4>1. CASE Head(toServer[p]).id # expectedReplyId[p]
        BY <2>7, <4>1 DEF HandleReply, TakeReply
      <4>2. CASE Head(toServer[p]).id = expectedReplyId[p] /\ expired[p]
        BY <2>7, <4>2 DEF HandleReply, TakeReply
      <4>3. CASE Head(toServer[p]).id = expectedReplyId[p] /\ ~expired[p]
        <5>1. /\ expectedReplyId' = [expectedReplyId EXCEPT ![p] = NoId]
              /\ m_reply' = [m_reply EXCEPT ![p] = Head(toServer[p]).serial]
              /\ replyReadySemaphore' =
                   [replyReadySemaphore EXCEPT ![p] = replyReadySemaphore[p] + 1]
              /\ signalled' = [signalled EXCEPT ![p] = signalled[p] + 1]
          BY <2>7, <4>3 DEF HandleReply, TakeReply
        <5> QED
          BY <5>1, <3>2
      <4> QED
        BY <4>1, <4>2, <4>3
    <3>4. toServer' \in [Players -> Seq(Packet)]
      BY <2>7, <3>1 DEF HandleReply, TakeReply
    <3> QED
      BY <2>7, <3>3, <3>4 DEF HandleReply, TakeReply
  <2>8. ASSUME NEW p \in Players, LoseSocket(p) PROVE TypeOK'
    <3>1. /\ expectedReplyId' \in [Players -> Nat \cup {NoId}]
          /\ replyReadySemaphore' \in [Players -> Nat]
          /\ aborted' \in [Players -> BOOLEAN]
      <4> replyReadySemaphore[p] + 1 \in Nat
        OBVIOUS
      <4>1. CASE expectedReplyId[p] # NoId /\ AbortRequest(p)
        BY <2>8, <4>1 DEF LoseSocket, AbortRequest
      <4>2. CASE UNCHANGED <<replyReadySemaphore, expectedReplyId, aborted>>
        BY <2>8, <4>2 DEF LoseSocket
      <4> QED
        BY <2>8, <4>1, <4>2 DEF LoseSocket, AbortRequest
    <3>2. /\ connected' \in [Players -> BOOLEAN]
          /\ toClient' \in [Players -> Seq(Packet)]
          /\ toServer' \in [Players -> Seq(Packet)]
      BY <2>8, EmptySeq DEF LoseSocket
    <3> QED
      BY <2>8, <3>1, <3>2 DEF LoseSocket
  <2>9. ASSUME NEW p \in Players, SetSocket(p) PROVE TypeOK'
    BY <2>9 DEF SetSocket
  <2>10. ASSUME NEW p \in Players, Expire(p) PROVE TypeOK'
    BY <2>10 DEF Expire
  <2>11. ASSUME NEW p \in Players, ClientReceive(p) PROVE TypeOK'
    BY <2>11, HeadTailProperties DEF ClientReceive
  <2>12. ASSUME NEW p \in Players, ClientReply(p) PROVE TypeOK'
    <3>1. clientId[p] \in Packet
      BY <2>12 DEF ClientReply
    <3>2. toServer' \in [Players -> Seq(Packet)]
      BY <2>12, <3>1, AppendProperties DEF ClientReply
    <3> QED
      BY <2>12, <3>2 DEF ClientReply
  <2>13. CASE UNCHANGED vars
    BY <2>13 DEF vars
  <2> QED
    BY <2>1, <2>2, <2>3, <2>4, <2>5, <2>6, <2>7, <2>8, <2>9, <2>10, <2>11,
       <2>12, <2>13 DEF Next
<1> QED
  BY <1>1, <1>2, PTL DEF Spec

-----------------------------------------------------------------------------
(* replyReady is emitted at most once per request, whatever the number of   *)
(* room threads: only a router that still expects a reply emits it, and it  *)
(* stops expecting one as it does.                                          *)
Unsignalled ==
  \A p \in Players : expectedReplyId[p] # NoId => signalled[p] = 0

THEOREM OneSignal == Spec => []OneSignalPerRequest
<1> DEFINE I == Unsignalled /\ OneSignalPerRequest
<1>1. Init => I
  BY DEF Init, Unsignalled, OneSignalPerRequest
<1>2. TypeOK /\ I /\ [Next]_vars => I'
  <2> SUFFICES ASSUME TypeOK, I, [Next]_vars, NEW q \in Players
               PROVE  /\ (expectedReplyId[q] # NoId => signalled[q] = 0)'
                      /\ (signalled[q] <= 1)'
    BY DEF Unsignalled, OneSignalPerRequest
  <2>1. /\ expectedReplyId[q] # NoId => signalled[q] = 0
        /\ signalled[q] <= 1
    BY DEF Unsignalled, OneSignalPerRequest
  <2>2. /\ expectedReplyId \in [Players -> Nat \cup {NoId}]
        /\ signalled \in [Players -> Nat]
    BY DEF TypeOK
  <2>3. CASE UNCHANGED <<expectedReplyId, signalled>>
    BY <2>1, <2>3
  <2>4. ASSUME NEW t \in Threads, Expect(t)
        PROVE  UNCHANGED <<expectedReplyId, signalled>>
               \/ (q # asked[t] /\ UNCHANGED <<expectedReplyId[q], signalled[q]>>)
               \/ signalled'[q] = 0
    BY <2>2, <2>4 DEF Expect, Record
  <2>5. ASSUME NEW p \in Players, HandleReply(p)
        PROVE  \/ UNCHANGED <<expectedReplyId[q], signalled[q]>>
               \/ expectedReplyId'[q] = NoId /\ signalled'[q] <= 1
    <3>1. Head(toServer[p]) \in Packet
      BY <2>5, HeadTailProperties DEF HandleReply, TakeReply, TypeOK
    <3>2. Head(toServer[p]).id # NoId
      BY <3>1 DEF Packet, NoId
    <3>3. CASE Head(toServer[p]).id # expectedReplyId[p]
      BY <2>5, <3>3 DEF HandleReply, TakeReply
    <3>4. CASE Head(toServer[p]).id = expectedReplyId[p]
      <4>1. p = q => signalled[q] = 0
        BY <2>1, <3>2, <3>4
      <4> QED
        BY <2>1, <2>2, <2>5, <3>4, <4>1 DEF HandleReply, TakeReply
    <3> QED
      BY <3>3, <3>4
  <2>6. ASSUME NEW p \in Players, LoseSocket(p)
        PROVE  /\ expectedReplyId'[q] \in {expectedReplyId[q], NoId}
               /\ signalled' = signalled
    BY <2>2, <2>6 DEF LoseSocket, AbortRequest
  <2>7. CASE \E t \in Threads : Expect(t)
    BY <2>1, <2>4, <2>7
  <2>8. CASE \E p \in Players : HandleReply(p)
    BY <2>1, <2>5, <2>8
  <2>9. CASE \E p \in Players : LoseSocket(p)
    BY <2>1, <2>6, <2>9
  <2> QED
    BY <2>3, <2>7, <2>8, <2>9
    DEF Next, vars, threadVars, lockVars, netVars, histVars, Drain, Load, Store,
        Send, Poll, Acquire, SetSocket, Expire, ClientReceive, ClientReply
<1> QED
  BY <1>1, <1>2, Typing, PTL DEF Spec

-----------------------------------------------------------------------------
(* Which packets can be around after a step: Send adds the one it sends,    *)
(* every other step only moves packets along or loses them.                 *)
SentBy(t) == [id |-> requestId, serial |-> serial[asked[t]]]

LEMMA PacketsOfSend ==
  ASSUME TypeOK, NEW t \in Threads, Send(t), NEW q \in Players
  PROVE  Packets(q)' \subseteq
           IF q = asked[t] THEN Packets(q) \cup {SentBy(t)} ELSE Packets(q)
<1>1. asked[t] \in Players /\ SentBy(t) \in Packet
  BY DEF Send, Step, TypeOK, Packet, SentBy
<1>2. toServer' = toServer /\ clientId' = clientId
  BY DEF Send
<1>3. CASE q = asked[t] /\ connected[q]
  <2>1. toClient'[q] = Append(toClient[q], SentBy(t))
    BY <1>1, <1>3 DEF Send, TypeOK, SentBy
  <2>2. Range(toClient'[q]) = Range(toClient[q]) \cup {SentBy(t)}
    BY <1>1, <2>1, RangeAppend DEF TypeOK
  <2> QED
    BY <1>2, <1>3, <2>2 DEF Packets
<1>4. CASE ~(q = asked[t] /\ connected[q])
  <2>1. toClient'[q] = toClient[q]
    BY <1>1, <1>4 DEF Send, TypeOK
  <2> QED
    BY <1>2, <2>1 DEF Packets
<1> QED
  BY <1>3, <1>4

LEMMA PacketsOfOthers ==
  ASSUME TypeOK, [Next]_vars, \A t \in Threads : ~Send(t), NEW q \in Players
  PROVE  Packets(q)' \subseteq Packets(q)
<1>1. /\ toClient \in [Players -> Seq(Packet)]
      /\ toServer \in [Players -> Seq(Packet)]
      /\ clientId \in [Players -> Packet \cup {NoPacket}]
  BY DEF TypeOK
<1>2. CASE UNCHANGED <<toClient, toServer, clientId>>
  BY <1>2 DEF Packets
<1>3. ASSUME NEW p \in Players, HandleReply(p) PROVE Packets(q)' \subseteq Packets(q)
  <2>1. Range(Tail(toServer[p])) \subseteq Range(toServer[p])
    BY <1>1, <1>3, RangeTail DEF HandleReply, TakeReply
  <2>2. toServer'[q] = IF q = p THEN Tail(toServer[p]) ELSE toServer[q]
    BY <1>1, <1>3 DEF HandleReply, TakeReply
  <2> QED
    BY <1>3, <2>1, <2>2 DEF HandleReply, TakeReply, Packets
<1>4. ASSUME NEW p \in Players, LoseSocket(p) PROVE Packets(q)' \subseteq Packets(q)
  <2>1. /\ toServer'[q] = IF q = p THEN <<>> ELSE toServer[q]
        /\ toClient'[q] = IF q = p THEN <<>> ELSE toClient[q]
        /\ clientId' = clientId
    BY <1>1, <1>4 DEF LoseSocket
  <2>2. Range(<<>>) = {}
    BY DEF Range
  <2> QED
    BY <2>1, <2>2 DEF Packets
<1>5. ASSUME NEW p \in Players, SetSocket(p) PROVE Packets(q)' \subseteq Packets(q)
  <2>1. clientId'[q] = IF q = p THEN NoPacket ELSE clientId[q]
    BY <1>1, <1>5 DEF SetSocket
  <2> QED
    BY <1>5, <2>1 DEF SetSocket, Packets
<1>6. ASSUME NEW p \in Players, ClientReceive(p)
      PROVE  Packets(q)' \subseteq Packets(q)
  <2>1. /\ Range(Tail(toClient[p])) \subseteq Range(toClient[p])
        /\ Head(toClient[p]) \in Range(toClient[p])
    BY <1>1, <1>6, RangeTail DEF ClientReceive
  <2>2. /\ toClient'[q] = IF q = p THEN Tail(toClient[p]) ELSE toClient[q]
        /\ clientId'[q] = IF q = p THEN Head(toClient[p]) ELSE clientId[q]
    BY <1>1, <1>6 DEF ClientReceive
  <2> QED
    BY <1>6, <2>1, <2>2 DEF ClientReceive, Packets
<1>7. ASSUME NEW p \in Players, ClientReply(p) PROVE Packets(q)' \subseteq Packets(q)
  <2>1. clientId[p] # NoPacket /\ clientId[p] \in Packet
    BY <1>1, <1>7 DEF ClientReply
  <2>2. Range(Append(toServer[p], clientId[p])) = Range(toServer[p]) \cup {clientId[p]}
    BY <1>1, <2>1, RangeAppend
  <2>3. toServer'[q] = IF q = p THEN Append(toServer[p], clientId[p]) ELSE toServer[q]
    BY <1>1, <1>7 DEF ClientReply
  <2> QED
    BY <1>7, <2>1, <2>2, <2>3 DEF ClientReply, Packets
<1> QED
  BY <1>2, <1>3, <1>4, <1>5, <1>6, <1>7
  DEF Next, vars, threadVars, lockVars, netVars, histVars, Drain, Load, Store,
      Expect, Record, Poll, Acquire, Expire

LEMMA PacketsTyped ==
  ASSUME TypeOK, NEW q \in Players, NEW k \in Packets(q)
  PROVE  k.id \in Nat \ {0} /\ k.serial \in Nat
<1>1. /\ toClient[q] \in Seq(Packet) /\ toServer[q] \in Seq(Packet)
      /\ clientId[q] \in Packet \cup {NoPacket}
  BY DEF TypeOK
<1>2. Range(toClient[q]) \subseteq Packet /\ Range(toServer[q]) \subseteq Packet
  BY <1>1, RangeOfSeq
<1> QED
  BY <1>1, <1>2 DEF Packets, Packet

-----------------------------------------------------------------------------
(* With one room thread, ids and requests correspond.                       *)
SoleThread == \A t, u \in Threads : t = u

LEMMA IdsAgreeStep ==
  ASSUME SoleThread, TypeOK, IdsAgree, [Next]_vars
  PROVE  IdsAgree'
<1>1. /\ requestId \in Nat /\ serial \in [Players -> Nat]
      /\ expectedReplyId \in [Players -> Nat \cup {NoId}]
      /\ signalled \in [Players -> Nat]
      /\ expired \in [Players -> BOOLEAN] /\ aborted \in [Players -> BOOLEAN]
      /\ pc \in [Threads -> {"idle", "load", "store", "expect", "send"}]
      /\ loaded \in [Threads -> Nat]
  BY DEF TypeOK
<1>2. \A u \in Threads : Fresh(u)
  BY DEF IdsAgree
<1>3. \A q \in Players : Matched(q)
  BY DEF IdsAgree
<1>4. NoId < 0
  BY DEF NoId
<1>5. ASSUME NEW t \in Threads, Send(t) PROVE IdsAgree'
  <2>1. /\ pc[t] = "send" /\ pc'[t] = "idle" /\ asked[t] \in Players
        /\ requestId > 0
    BY <1>5 DEF Send, Step, TypeOK
  <2>2. UNCHANGED <<requestId, expectedReplyId, expired, serial, signalled, aborted>>
    BY <1>5 DEF Send, lockVars, histVars
  <2>3. \A u \in Threads : Fresh(u)'
    BY <2>1 DEF SoleThread, Fresh
  <2>4. ASSUME NEW q \in Players PROVE Matched(q)'
    <3>1. ASSUME NEW k \in Packets(q)'
          PROVE  k \in Packets(q) \/ (q = asked[t] /\ k = SentBy(t))
      BY <1>5, PacketsOfSend
    <3>2. q = asked[t] =>
            /\ expectedReplyId[q] \in {NoId, requestId}
            /\ ~expired[q] /\ ~aborted[q] /\ signalled[q] = 0 =>
                 expectedReplyId[q] = requestId
      BY <1>2, <2>1 DEF Fresh
    <3> QED
      BY <1>1, <1>3, <2>2, <3>1, <3>2 DEF Matched, SentBy
  <2> QED
    BY <2>3, <2>4 DEF IdsAgree
<1>6. ASSUME NEW t \in Threads, Expect(t) PROVE IdsAgree'
  <2>1. /\ pc[t] = "expect" /\ pc'[t] = "send" /\ asked[t] \in Players
        /\ requestId > 0 /\ requestId' = requestId /\ asked' = asked
    BY <1>1, <1>6 DEF Expect, Record, Step, TypeOK
  <2>2. ASSUME NEW q \in Players, q # asked[t]
        PROVE  UNCHANGED <<expectedReplyId[q], expired[q], serial[q], signalled[q],
                           aborted[q]>>
    BY <1>1, <1>6, <2>2 DEF Expect, Record
  <2>3. LET p == asked[t] IN
          /\ expectedReplyId'[p] = requestId /\ ~expired'[p]
          /\ serial'[p] = serial[p] + 1 /\ signalled'[p] = 0 /\ ~aborted'[p]
    BY <1>1, <1>6, <2>1 DEF Expect, Record
  <2>4. ASSUME NEW q \in Players PROVE Packets(q)' = Packets(q)
    BY <1>6 DEF Expect, Record, netVars, Packets
  <2>5. ASSUME NEW q \in Players
        PROVE  /\ \A k \in Packets(q) : k.id < requestId
               /\ expectedReplyId[q] < requestId
    BY <1>2, <2>1 DEF Fresh
  <2>6. \A u \in Threads : Fresh(u)'
    BY <2>1, <2>2, <2>3, <2>4, <2>5 DEF SoleThread, Fresh
  <2>7. ASSUME NEW q \in Players PROVE Matched(q)'
    <3>1. ASSUME NEW k \in Packets(q)
          PROVE  /\ k.id \in Nat /\ k.serial \in Nat
                 /\ k.id < requestId /\ k.serial <= serial[q]
      BY <1>3, <2>5, PacketsTyped DEF Matched
    <3>2. CASE q = asked[t]
      BY <1>1, <2>1, <2>3, <2>4, <3>1, <3>2 DEF Matched
    <3>3. CASE q # asked[t]
      BY <1>3, <2>1, <2>2, <2>4, <3>3 DEF Matched
    <3> QED
      BY <3>2, <3>3
  <2> QED
    BY <2>6, <2>7 DEF IdsAgree
<1>7. ASSUME NEW t \in Threads, Store(t) PROVE IdsAgree'
  <2>1. /\ pc[t] = "store" /\ pc'[t] = "expect" /\ requestId' = requestId + 1
        /\ UNCHANGED <<expectedReplyId, expired, serial, signalled, aborted>>
    <3>1. loaded[t] = requestId
      BY <1>2, <1>7 DEF Fresh, Store, Step
    <3> QED
      BY <1>1, <1>7, <3>1 DEF Store, Step, lockVars, histVars
  <2>2. ASSUME NEW q \in Players PROVE Packets(q)' = Packets(q)
    BY <1>7 DEF Store, netVars, Packets
  <2>3. ASSUME NEW q \in Players, NEW k \in Packets(q)
        PROVE  k.id \in Nat /\ k.id <= requestId
    BY <1>3, PacketsTyped DEF Matched
  <2>4. \A u \in Threads : Fresh(u)'
    <3>1. ASSUME NEW q \in Players PROVE expectedReplyId[q] < requestId + 1
      BY <1>1, <1>3, <1>4 DEF Matched, NoId
    <3> QED
      BY <1>1, <2>1, <2>2, <2>3, <3>1 DEF SoleThread, Fresh
  <2>5. ASSUME NEW q \in Players PROVE Matched(q)'
    <3>1. expectedReplyId[q] <= requestId + 1
      BY <1>1, <1>3, <1>4 DEF Matched, NoId
    <3> QED
      BY <1>1, <1>3, <2>1, <2>2, <2>3, <3>1 DEF Matched
  <2> QED
    BY <2>4, <2>5 DEF IdsAgree
<1> DEFINE Quiet == /\ UNCHANGED <<requestId, serial>>
                    /\ \A q \in Players : Packets(q)' \subseteq Packets(q)
<1>8. ASSUME Quiet,
             UNCHANGED <<expectedReplyId, expired, signalled, aborted>>
      PROVE  \A q \in Players : Matched(q)'
  BY <1>3, <1>8 DEF Matched
<1>9. ASSUME Quiet, UNCHANGED <<pc, asked, loaded>>, NEW p \in Players,
             \A q \in Players : /\ q # p => UNCHANGED <<expectedReplyId[q], expired[q],
                                                       signalled[q], aborted[q]>>
                               /\ expectedReplyId'[q] \in {expectedReplyId[q], NoId},
             UNCHANGED <<expectedReplyId[p], signalled[p], aborted[p], expired[p]>>
               \/ expired'[p] \/ aborted'[p] \/ (signalled'[p] # 0)
      PROVE  IdsAgree'
  <2>1. ASSUME NEW q \in Players PROVE Matched(q)'
    <3>1. /\ expectedReplyId'[q] \in {expectedReplyId[q], NoId}
          /\ requestId' = requestId /\ serial' = serial
          /\ Packets(q)' \subseteq Packets(q)
          /\ \/ UNCHANGED <<expectedReplyId[q], expired[q], signalled[q], aborted[q]>>
             \/ expired'[q] \/ aborted'[q] \/ signalled'[q] # 0
      BY <1>9
    <3>2. \A k \in Packets(q) : k.id # NoId
      BY PacketsTyped DEF NoId
    <3>3. NoId <= requestId /\ NoId # 0
      BY <1>1 DEF NoId
    <3> QED
      BY <1>3, <3>1, <3>2, <3>3 DEF Matched
  <2>2. ASSUME NEW u \in Threads PROVE Fresh(u)'
    <3>1. \A q \in Players : /\ expectedReplyId'[q] \in {expectedReplyId[q], NoId}
                            /\ Packets(q)' \subseteq Packets(q)
      BY <1>9
    <3>2. NoId < requestId
      BY <1>1 DEF NoId
    <3>3. \/ UNCHANGED <<expectedReplyId[asked[u]], expired[asked[u]],
                         signalled[asked[u]], aborted[asked[u]]>>
          \/ expired'[asked[u]] \/ aborted'[asked[u]] \/ signalled'[asked[u]] # 0
          \/ asked[u] \notin Players
      BY <1>9
    <3>4. pc[u] = "send" => asked[u] \in Players
      BY DEF TypeOK
    <3> QED
      BY <1>2, <1>9, <3>1, <3>2, <3>3, <3>4 DEF Fresh
  <2> QED
    BY <2>1, <2>2 DEF IdsAgree
<1>10. ASSUME \A t \in Threads : ~Send(t)
       PROVE  \A q \in Players : Packets(q)' \subseteq Packets(q)
  BY <1>10, PacketsOfOthers
<1>11. ASSUME NEW t \in Threads,
              Load(t) \/ \E p \in Players : Drain(t, p)
       PROVE  IdsAgree'
  <2>1. /\ UNCHANGED <<requestId, serial, expectedReplyId, expired, signalled, aborted>>
        /\ UNCHANGED netVars
        /\ \/ pc'[t] = "load"
           \/ pc'[t] = "store" /\ loaded'[t] = requestId
    BY <1>1, <1>11 DEF Load, Drain, Step, lockVars, histVars, netVars
  <2>2. \A q \in Players : Packets(q)' = Packets(q)
    BY <2>1 DEF Packets, netVars
  <2>3. \A u \in Threads : Fresh(u)'
    BY <2>1 DEF SoleThread, Fresh
  <2>4. \A q \in Players : Matched(q)'
    BY <1>8, <2>1, <2>2
  <2> QED
    BY <2>3, <2>4 DEF IdsAgree
<1>12. ASSUME NEW p \in Players,
              HandleReply(p) \/ LoseSocket(p) \/ Expire(p) \/ SetSocket(p)
                \/ ClientReceive(p) \/ ClientReply(p)
       PROVE  IdsAgree'
  <2>1. Quiet
    <3>1. UNCHANGED <<requestId, serial, pc>>
      BY <1>12 DEF HandleReply, TakeReply, LoseSocket, Expire, SetSocket, ClientReceive,
                   ClientReply, threadVars, histVars
    <3>2. \A t \in Threads : ~Send(t)
      BY <1>1, <3>1 DEF Send, Step
    <3> QED
      BY <1>10, <3>1, <3>2
  <2>2. UNCHANGED <<pc, asked, loaded>>
    BY <1>12 DEF HandleReply, TakeReply, LoseSocket, Expire, SetSocket, ClientReceive,
                 ClientReply, threadVars
  <2>3. CASE HandleReply(p)
    <3>1. CASE Head(toServer[p]).id # expectedReplyId[p]
      BY <1>9, <2>1, <2>2, <2>3, <3>1 DEF HandleReply, TakeReply
    <3>2. CASE Head(toServer[p]).id = expectedReplyId[p] /\ expired[p]
      BY <1>1, <1>9, <2>1, <2>2, <2>3, <3>2 DEF HandleReply, TakeReply
    <3>3. CASE Head(toServer[p]).id = expectedReplyId[p] /\ ~expired[p]
      <4>1. /\ expectedReplyId' = [expectedReplyId EXCEPT ![p] = NoId]
            /\ signalled' = [signalled EXCEPT ![p] = signalled[p] + 1]
            /\ UNCHANGED <<expired, aborted>>
        BY <2>3, <3>3 DEF HandleReply, TakeReply
      <4>2. signalled'[p] # 0
        BY <1>1, <4>1
      <4> QED
        BY <1>1, <1>9, <2>1, <2>2, <4>1, <4>2
    <3> QED
      BY <3>1, <3>2, <3>3
  <2>4. CASE LoseSocket(p)
    <3>1. UNCHANGED <<expired, signalled>>
      BY <2>4 DEF LoseSocket
    <3>2. \/ UNCHANGED <<expectedReplyId, aborted>>
          \/ /\ expectedReplyId' = [expectedReplyId EXCEPT ![p] = NoId]
             /\ aborted' = [aborted EXCEPT ![p] = TRUE]
      BY <2>4 DEF LoseSocket, AbortRequest
    <3> QED
      BY <1>1, <1>9, <2>1, <2>2, <3>1, <3>2
  <2>5. CASE Expire(p)
    BY <1>1, <1>9, <2>1, <2>2, <2>5 DEF Expire, histVars
  <2>6. CASE SetSocket(p) \/ ClientReceive(p) \/ ClientReply(p)
    <3>1. UNCHANGED <<expectedReplyId, expired, signalled, aborted>>
      BY <2>6 DEF SetSocket, ClientReceive, ClientReply, lockVars, histVars
    <3> QED
      BY <1>9, <2>1, <2>2, <3>1
  <2> QED
    BY <1>12, <2>3, <2>4, <2>5, <2>6
<1>13. ASSUME UNCHANGED vars \/ \E t \in Threads, p \in Players : Poll(t, p)
       PROVE  IdsAgree'
  <2>1. /\ UNCHANGED <<pc, asked, loaded, requestId, serial>>
        /\ UNCHANGED <<expectedReplyId, expired, signalled, aborted>>
        /\ UNCHANGED netVars
    BY <1>13 DEF Poll, Acquire, vars, threadVars, lockVars, netVars, histVars
  <2>2. \A q \in Players : Packets(q)' = Packets(q)
    BY <2>1 DEF Packets, netVars
  <2>3. \A u \in Threads : Fresh(u)'
    BY <1>2, <2>1, <2>2 DEF Fresh
  <2>4. \A q \in Players : Matched(q)'
    BY <1>8, <2>1, <2>2
  <2> QED
    BY <2>3, <2>4 DEF IdsAgree
<1> QED
  BY <1>5, <1>6, <1>7, <1>11, <1>12, <1>13 DEF Next

THEOREM IdsAlwaysAgree == SoleThread => (Spec => []IdsAgree)
<1> SUFFICES ASSUME SoleThread PROVE Spec => []IdsAgree
  OBVIOUS
<1>1. Init => IdsAgree
  <2> SUFFICES ASSUME Init PROVE IdsAgree
    OBVIOUS
  <2>1. \A q \in Players : Packets(q) = {}
    BY DEF Init, Packets, Range
  <2>2. \A q \in Players : expectedReplyId[q] <= requestId /\ expectedReplyId[q] # 0
    BY DEF Init, NoId
  <2>3. \A t \in Threads : pc[t] = "idle"
    BY DEF Init
  <2> QED
    BY <2>1, <2>2, <2>3 DEF IdsAgree, Fresh, Matched
<1>2. TypeOK /\ IdsAgree /\ [Next]_vars => IdsAgree'
  BY IdsAgreeStep
<1> QED
  BY <1>1, <1>2, Typing, PTL DEF Spec

(* A reply the room thread reads answers the current request.               *)
THEOREM ReplyMatches == SoleThread => (Spec => []ReplyMatchesRequest)
<1>1. Init => ReplyMatchesRequest
  BY DEF Init, ReplyMatchesRequest, Polled
<1>2. TypeOK /\ IdsAgree /\ ReplyMatchesRequest /\ [Next]_vars => ReplyMatchesRequest'
  <2> SUFFICES ASSUME TypeOK, IdsAgree, [Next]_vars, NEW q \in Players,
                      m_reply[q] # NotReady => m_reply[q] = serial[q]
               PROVE  m_reply'[q] # NotReady => m_reply'[q] = serial'[q]
    BY DEF ReplyMatchesRequest, Polled
  <2>1. ASSUME NEW t \in Threads, Expect(t)
        PROVE  UNCHANGED <<m_reply[q], serial[q]>> \/ m_reply'[q] = NotReady
    BY <2>1 DEF Expect, Record, TypeOK
  <2>2. ASSUME NEW p \in Players, HandleReply(p)
        PROVE  /\ serial' = serial
               /\ m_reply'[q] \in {m_reply[q], serial[q]}
    <3>1. serial' = serial
      BY <2>2 DEF HandleReply, TakeReply
    <3>2. Head(toServer[p]) \in Packets(p)
      BY <2>2, RangeTail DEF HandleReply, TakeReply, Packets, TypeOK
    <3>3. Head(toServer[p]).id = expectedReplyId[p] => Head(toServer[p]).serial = serial[p]
      BY <3>2 DEF IdsAgree, Matched
    <3>4. \/ m_reply' = m_reply
          \/ /\ Head(toServer[p]).id = expectedReplyId[p]
             /\ m_reply' = [m_reply EXCEPT ![p] = Head(toServer[p]).serial]
      BY <2>2 DEF HandleReply, TakeReply
    <3> QED
      BY <3>1, <3>3, <3>4 DEF TypeOK
  <2>3. CASE UNCHANGED <<m_reply, serial>>
    BY <2>3
  <2>4. CASE \E t \in Threads : Expect(t)
    BY <2>1, <2>4
  <2>5. CASE \E p \in Players : HandleReply(p)
    BY <2>2, <2>5
  <2> QED
    BY <2>3, <2>4, <2>5
    DEF Next, vars, threadVars, lockVars, netVars, histVars, Drain, Load, Store, Send,
        Poll, Acquire, LoseSocket, SetSocket, Expire, ClientReceive, ClientReply
<1> QED
  BY <1>1, <1>2, IdsAlwaysAgree, Typing, PTL DEF Spec

(* The first answer in time is recorded.                                    *)
THEOREM FirstReply == SoleThread => (Spec => FirstReplyRecorded)
<1> DEFINE Recorded ==
      \A p \in Players :
        (/\ toServer[p] # <<>> /\ connected[p] /\ connected'[p]
         /\ toServer'[p] = Tail(toServer[p])
         /\ Head(toServer[p]).serial = serial[p]
         /\ ~expired[p] /\ ~aborted[p] /\ signalled[p] = 0)
        => m_reply'[p] = serial[p]
<1>1. TypeOK /\ IdsAgree /\ [Next]_vars => [Recorded]_vars
  <2> SUFFICES ASSUME TypeOK, IdsAgree, Next, NEW p \in Players,
                      toServer[p] # <<>>, connected'[p],
                      toServer'[p] = Tail(toServer[p]),
                      Head(toServer[p]).serial = serial[p],
                      ~expired[p], ~aborted[p], signalled[p] = 0
               PROVE  m_reply'[p] = serial[p]
    OBVIOUS
  <2>1. toServer \in [Players -> Seq(Packet)] /\ connected \in [Players -> BOOLEAN]
    BY DEF TypeOK
  <2>2. toServer'[p] # toServer[p]
    BY <2>1, RangeTail
  <2>3. ASSUME NEW q \in Players, LoseSocket(q) PROVE FALSE
    <3>1. q # p
      BY <2>1, <2>3 DEF LoseSocket
    <3> QED
      BY <2>1, <2>2, <2>3, <3>1 DEF LoseSocket
  <2>4. ASSUME NEW q \in Players, ClientReply(q) PROVE FALSE
    <3>1. q = p
      BY <2>1, <2>2, <2>4 DEF ClientReply
    <3>2. toServer'[p] = Append(toServer[p], clientId[p]) /\ clientId[p] \in Packet
      BY <2>4, <3>1 DEF ClientReply, TypeOK
    <3>3. /\ Len(toServer'[p]) = Len(toServer[p]) + 1
          /\ Len(toServer'[p]) = Len(toServer[p]) - 1
          /\ Len(toServer[p]) \in Nat
      BY <2>1, <3>2, AppendProperties, HeadTailProperties
    <3> QED
      BY <3>3
  <2>5. PICK q \in Players : HandleReply(q)
    BY <2>2, <2>3, <2>4
    DEF Next, netVars, Drain, Load, Store, Expect, Record, Send, Poll, Acquire, SetSocket, Expire,
        ClientReceive
  <2>6. q = p
    BY <2>1, <2>2, <2>5 DEF HandleReply, TakeReply
  <2>7. Head(toServer[p]) \in Packets(p)
    BY <2>1, RangeTail DEF Packets
  <2>8. Head(toServer[p]).id = expectedReplyId[p]
    BY <2>7 DEF IdsAgree, Matched
  <2>9. m_reply' = [m_reply EXCEPT ![p] = Head(toServer[p]).serial]
    BY <2>5, <2>6, <2>8 DEF HandleReply, TakeReply
  <2> QED
    BY <2>9 DEF TypeOK
<1> QED
  BY <1>1, IdsAlwaysAgree, Typing, PTL DEF Spec, FirstReplyRecorded
=============================================================================
