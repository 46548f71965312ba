------------------------------- MODULE Router -------------------------------
(***************************************************************************)
(* Request/reply matching between the room threads and the clients         *)
(* (src/src/network/router.cpp).                                           *)
(*                                                                         *)
(* A room thread calls Router::request for a player of one of its rooms    *)
(* and later polls Router::waitForReply(0).  The main thread owns the      *)
(* sockets: it delivers requests, runs handlePacket for every packet a     *)
(* client sends, and runs abortRequest when a socket is lost.  The two     *)
(* threads meet in expectedReplyId, m_reply and replyReadySemaphore, which *)
(* replyMutex protects, and all room threads meet in `static int           *)
(* requestId', which nothing protects.                                     *)
(*                                                                         *)
(* serial, and the serial field of messages, are history: they number the  *)
(* requests of a player, so that a reply can be compared with the request  *)
(* its sender was looking at.  The code only sees the id field.            *)
(***************************************************************************)
EXTENDS Integers, Sequences, Functions

CONSTANTS
  Players,      \* the players, one Router each
  Threads,      \* the room threads
  Home,         \* Home[p]: the thread that runs the room of p
  MaxSerial,    \* bound: requests issued to one player
  MaxInFlight,  \* bound: packets of one client not yet read by the server
  NoPlayer      \* no player (a room thread that is not in Router::request)

ASSUME ConstantsAssumption ==
  /\ Home \in [Players -> Threads]
  /\ MaxSerial \in Nat
  /\ MaxInFlight \in Nat
  /\ NoPlayer \notin Players

NotReady == 0   \* m_reply = "__notready"; an answer is the serial it answers
NoId     == -1  \* expectedReplyId when no reply is expected

Packet   == [id : Nat \ {0}, serial : Nat]
NoPacket == [id |-> 0, serial |-> 0]

VARIABLES
  requestId,           \* the static counter shared by every Router
  pc,                  \* per thread: the next step of Router::request
  asked,               \* per thread: the player it is calling request for
  loaded,              \* per thread: the register of requestId++
  expectedReplyId,
  m_reply,
  replyReadySemaphore,
  expired,             \* more than replyTimeout seconds since requestStartTime
  connected,           \* the player has a socket
  toClient, toServer,  \* TCP streams
  clientId,            \* Router::requestId of the client's own Router
  serial,              \* history: requests issued to the player
  signalled, aborted   \* history: what became of the last one: replyReady
                       \* emissions, abortRequest

threadVars == <<requestId, pc, asked, loaded>>
lockVars   == <<expectedReplyId, m_reply, replyReadySemaphore, expired>>
netVars    == <<connected, toClient, toServer, clientId>>
histVars   == <<serial, signalled, aborted>>
vars == <<threadVars, lockVars, netVars, histVars>>

Init ==
  /\ requestId = 0
  /\ pc = [t \in Threads |-> "idle"]
  /\ asked = [t \in Threads |-> NoPlayer]
  /\ loaded = [t \in Threads |-> 0]
  /\ expectedReplyId = [p \in Players |-> NoId]
  /\ m_reply = [p \in Players |-> NotReady]
  /\ replyReadySemaphore = [p \in Players |-> 0]
  /\ expired = [p \in Players |-> FALSE]
  /\ connected = [p \in Players |-> TRUE]
  /\ toClient = [p \in Players |-> <<>>]
  /\ toServer = [p \in Players |-> <<>>]
  /\ clientId = [p \in Players |-> NoPacket]
  /\ serial = [p \in Players |-> 0]
  /\ signalled = [p \in Players |-> 0]
  /\ aborted = [p \in Players |-> FALSE]

-----------------------------------------------------------------------------
(* Router::request, on the room thread.                                     *)

Step(t, from, to) == pc[t] = from /\ pc' = [pc EXCEPT ![t] = to]

\* The semaphore is emptied before the lock is taken.  ServerPlayer::doRequest
\* returns at once for a player who is not online.
Drain(t, p) ==
  /\ Step(t, "idle", "load")
  /\ Home[p] = t /\ connected[p] /\ serial[p] < MaxSerial
  /\ asked' = [asked EXCEPT ![t] = p]
  /\ replyReadySemaphore' = [replyReadySemaphore EXCEPT ![p] = 0]
  /\ UNCHANGED <<requestId, loaded, expectedReplyId, m_reply, expired, netVars,
                 histVars>>

\* requestId++ is a load and a store; no lock is held.
Load(t) ==
  /\ Step(t, "load", "store")
  /\ loaded' = [loaded EXCEPT ![t] = requestId]
  /\ UNCHANGED <<requestId, asked, lockVars, netVars, histVars>>

StoreUnchanged(t) ==   \* mutant: the counter is not incremented
  /\ Step(t, "store", "expect")
  /\ UNCHANGED <<requestId, asked, loaded, lockVars, netVars, histVars>>

Store(t) ==
  /\ Step(t, "store", "expect")
  /\ requestId' = loaded[t] + 1
  /\ UNCHANGED <<asked, loaded, lockVars, netVars, histVars>>

\* Under replyMutex; the shared counter is read again.
Record(t, id, reply) ==
  /\ Step(t, "expect", "send")
  /\ LET p == asked[t] IN
       /\ expectedReplyId' = [expectedReplyId EXCEPT ![p] = id]
       /\ m_reply' = [m_reply EXCEPT ![p] = reply]
       /\ expired' = [expired EXCEPT ![p] = FALSE]
       /\ serial' = [serial EXCEPT ![p] = @ + 1]
       /\ signalled' = [signalled EXCEPT ![p] = 0]
       /\ aborted' = [aborted EXCEPT ![p] = FALSE]
  /\ UNCHANGED <<requestId, asked, loaded, replyReadySemaphore, netVars>>

ExpectOldId(t) == Record(t, loaded[t], NotReady)               \* mutant
ExpectKeepsReply(t) == Record(t, requestId, m_reply[asked[t]]) \* mutant

Expect(t) == Record(t, requestId, NotReady)

\* The packet is built from the shared counter, read once more, and handed to
\* the main thread, for which the room thread waits.
Send(t) ==
  /\ Step(t, "send", "idle")
  /\ LET p == asked[t] IN
       toClient' = IF connected[p]
                   THEN [toClient EXCEPT ![p] =
                           Append(@, [id |-> requestId, serial |-> serial[p]])]
                   ELSE toClient
  /\ UNCHANGED <<requestId, asked, loaded, lockVars, connected, toServer,
                 clientId, histVars>>

\* Router::waitForReply(0): at most one permit is taken, m_reply is returned
\* whatever the semaphore said (Polled is the answer).
Polled(p) == m_reply[p]

Acquire(t, p) ==
  /\ pc[t] = "idle" /\ Home[p] = t /\ connected[p]
  /\ replyReadySemaphore' = [replyReadySemaphore EXCEPT ![p] = @ - 1]
  /\ UNCHANGED <<threadVars, expectedReplyId, m_reply, expired, netVars, histVars>>

PollBlind(t, p) == Acquire(t, p)  \* mutant: acquires an unavailable permit

Poll(t, p) == replyReadySemaphore[p] > 0 /\ Acquire(t, p)

-----------------------------------------------------------------------------
(* The main thread.                                                         *)

\* Router::handlePacket for a reply: an unexpected id is ignored; a late reply
\* uses the expectation up but is not recorded.
TakeReply(p, expectNext) ==
  /\ toServer[p] # <<>>
  /\ toServer' = [toServer EXCEPT ![p] = Tail(@)]
  /\ LET packet == Head(toServer[p]) IN
       IF packet.id # expectedReplyId[p]
       THEN UNCHANGED <<expectedReplyId, m_reply, replyReadySemaphore, signalled>>
       ELSE /\ expectedReplyId' = [expectedReplyId EXCEPT ![p] = expectNext]
            /\ IF expired[p]
               THEN UNCHANGED <<m_reply, replyReadySemaphore, signalled>>
               ELSE /\ m_reply' = [m_reply EXCEPT ![p] = packet.serial]
                    /\ replyReadySemaphore' = [replyReadySemaphore EXCEPT ![p] = @ + 1]
                    /\ signalled' = [signalled EXCEPT ![p] = @ + 1]
  /\ UNCHANGED <<threadVars, expired, connected, toClient, clientId, serial, aborted>>

HandleReplyAgain(p) == TakeReply(p, expectedReplyId[p])  \* mutant: keeps expecting

HandleReply(p) == TakeReply(p, NoId)

\* Router::abortRequest, connected to the socket's disconnected signal: the
\* waiter is released, m_reply is left as it is and replyReady is not emitted.
AbortRequest(p) ==
  IF expectedReplyId[p] # NoId
  THEN /\ replyReadySemaphore' = [replyReadySemaphore EXCEPT ![p] = @ + 1]
       /\ expectedReplyId' = [expectedReplyId EXCEPT ![p] = NoId]
       /\ aborted' = [aborted EXCEPT ![p] = TRUE]
  ELSE UNCHANGED <<replyReadySemaphore, expectedReplyId, aborted>>

\* The socket goes.  ServerPlayer::kick takes the socket off the Router before
\* its disconnected signal when bytes are still unsent: then nothing is aborted.
LoseSocket(p) ==
  /\ connected[p]
  /\ connected' = [connected EXCEPT ![p] = FALSE]
  /\ toClient' = [toClient EXCEPT ![p] = <<>>]
  /\ toServer' = [toServer EXCEPT ![p] = <<>>]
  /\ \/ AbortRequest(p)
     \/ UNCHANGED <<replyReadySemaphore, expectedReplyId, aborted>>
  /\ UNCHANGED <<threadVars, m_reply, expired, clientId, serial, signalled>>

\* ServerPlayer::reconnect: Router::setSocket with the socket of a new client.
SetSocket(p) ==
  /\ ~connected[p]
  /\ connected' = [connected EXCEPT ![p] = TRUE]
  /\ clientId' = [clientId EXCEPT ![p] = NoPacket]
  /\ UNCHANGED <<threadVars, lockVars, toClient, toServer, histVars>>

\* replyTimeout runs out (Bound: one bit, the comparison the code makes).
Expire(p) ==
  /\ expectedReplyId[p] # NoId /\ ~expired[p]
  /\ expired' = [expired EXCEPT ![p] = TRUE]
  /\ UNCHANGED <<threadVars, expectedReplyId, m_reply, replyReadySemaphore,
                 netVars, histVars>>

-----------------------------------------------------------------------------
(* The client's Router: it remembers the last request id it received, and   *)
(* reply() answers with it whenever, and as often as, its user clicks.      *)

ClientReceive(p) ==
  /\ toClient[p] # <<>>
  /\ clientId' = [clientId EXCEPT ![p] = Head(toClient[p])]
  /\ toClient' = [toClient EXCEPT ![p] = Tail(@)]
  /\ UNCHANGED <<threadVars, lockVars, connected, toServer, histVars>>

ClientReply(p) ==
  /\ connected[p] /\ clientId[p] # NoPacket
  /\ Len(toServer[p]) < MaxInFlight
  /\ toServer' = [toServer EXCEPT ![p] = Append(@, clientId[p])]
  /\ UNCHANGED <<threadVars, lockVars, connected, toClient, clientId, histVars>>

Next ==
  \/ \E t \in Threads, p \in Players : Drain(t, p)
  \/ \E t \in Threads : Load(t)
  \/ \E t \in Threads : Store(t)
  \/ \E t \in Threads : Expect(t)
  \/ \E t \in Threads : Send(t)
  \/ \E t \in Threads, p \in Players : Poll(t, p)
  \/ \E p \in Players : HandleReply(p)
  \/ \E p \in Players : LoseSocket(p)
  \/ \E p \in Players : SetSocket(p)
  \/ \E p \in Players : Expire(p)
  \/ \E p \in Players : ClientReceive(p)
  \/ \E p \in Players : ClientReply(p)

Spec == Init /\ [][Next]_vars

-----------------------------------------------------------------------------
(* Properties.                                                              *)

TypeOK ==
  /\ requestId \in Nat
  /\ pc \in [Threads -> {"idle", "load", "store", "expect", "send"}]
  /\ asked \in [Threads -> Players \cup {NoPlayer}]
  /\ \A t \in Threads : /\ pc[t] # "idle" => asked[t] \in Players
                        /\ pc[t] \in {"expect", "send"} => requestId > 0
  /\ loaded \in [Threads -> Nat]
  /\ expectedReplyId \in [Players -> Nat \cup {NoId}]
  /\ m_reply \in [Players -> Nat]
  /\ replyReadySemaphore \in [Players -> Nat]
  /\ expired \in [Players -> BOOLEAN]
  /\ connected \in [Players -> BOOLEAN]
  /\ toClient \in [Players -> Seq(Packet)]
  /\ toServer \in [Players -> Seq(Packet)]
  /\ clientId \in [Players -> Packet \cup {NoPacket}]
  /\ serial \in [Players -> Nat]
  /\ signalled \in [Players -> Nat]
  /\ aborted \in [Players -> BOOLEAN]

\* An answer that the room thread can read answers the player's last request,
\* never an earlier one: docs/dev/protocol.rst says the request id is there to
\* make replies correspond to requests.
ReplyMatchesRequest ==
  \A p \in Players : Polled(p) # NotReady => Polled(p) = serial[p]

\* Every packet of p that is on the wire, or is the last one its client received.
Packets(p) ==
  Range(toClient[p]) \cup Range(toServer[p]) \cup ({clientId[p]} \ {NoPacket})

\* What makes the ids work when one room thread issues them all: an id is fresh
\* until it is sent, and among the packets of a player exactly the current
\* request and the answers to it carry the id that is expected.
Fresh(t) ==
  /\ pc[t] = "store" => loaded[t] = requestId
  /\ pc[t] \in {"expect", "send"} =>
       \A p \in Players :
         /\ \A k \in Packets(p) : k.id < requestId
         /\ pc[t] = "expect" \/ p # asked[t] => expectedReplyId[p] < requestId
  /\ pc[t] = "send" =>
       LET p == asked[t] IN
         /\ expectedReplyId[p] \in {NoId, requestId}
         /\ ~expired[p] /\ ~aborted[p] /\ signalled[p] = 0 =>
              expectedReplyId[p] = requestId

Matched(p) ==
  /\ expectedReplyId[p] <= requestId /\ expectedReplyId[p] # 0
  /\ \A k \in Packets(p) :
       /\ k.id <= requestId /\ k.serial <= serial[p]
       /\ k.id = expectedReplyId[p] => k.serial = serial[p]
       /\ /\ k.serial = serial[p]
          /\ ~expired[p] /\ ~aborted[p] /\ signalled[p] = 0
          => k.id = expectedReplyId[p]

IdsAgree == (\A t \in Threads : Fresh(t)) /\ (\A p \in Players : Matched(p))

\* However often a client answers, replyReady (which wakes the room) is emitted
\* at most once for a request.
OneSignalPerRequest == \A p \in Players : signalled[p] <= 1

\* The first answer to the current request is never ignored while it is in time:
\* when handlePacket consumes it, it is recorded, unless the request was aborted
\* with an earlier socket.
FirstReplyRecorded ==
  [][\A p \in Players :
       (/\ toServer[p] # <<>> /\ connected[p] /\ connected'[p]
        /\ toServer'[p] = Tail(toServer[p])
        /\ Head(toServer[p]).serial = serial[p]
        /\ ~expired[p] /\ ~aborted[p] /\ signalled[p] = 0)
       => m_reply'[p] = serial[p]]_vars
=============================================================================
