--------------------------- MODULE AdmissionProofs ---------------------------
(***************************************************************************)
(* Theorems about Admission, for any number of users, devices, connections,*)
(* commands and crashes: types and the relations between the tables of the *)
(* server, that nobody is logged in twice, that bans hold, that who is in  *)
(* has his rows, and that both sides of a connection use the same cipher.  *)
(***************************************************************************)
EXTENDS Admission, FiniteSetTheorems, SequenceTheorems, TLAPS

-----------------------------------------------------------------------------
(* Sockets.                                                                 *)

What  == {"NetworkDelayTest", "InstallKey", "Setup", "ErrorDlg", "ErrorMsg", "RefreshRoomList"}
ConnType ==
  [st : {"none", "greeted", "request", "player", "closed"}, user : UserIds,
   device : DeviceIds, setup : Setups, timer : BOOLEAN,
   serverKey : BOOLEAN, clientKey : BOOLEAN,
   toClient : Seq(Messages), toServer : Seq(Messages)]

\* What the server's tables know of a connection.
Alike(k, l) == k.st = l.st /\ k.user = l.user /\ k.device = l.device /\ k.timer = l.timer

LEMMA NoConnType == NoConn \in ConnType
  BY DEF NoConn, ConnType, UserIds, DeviceIds, NoDevice, Setups

\* Sending leaves the tables alone.
LEMMA SendType ==
  ASSUME NEW k \in ConnType, NEW what \in What
  PROVE  /\ ToClient(k, what) \in ConnType /\ Alike(ToClient(k, what), k)
         /\ ToServer(k, what) \in ConnType /\ Alike(ToServer(k, what), k)
<1>1. /\ Message(what, k.serverKey) \in Messages /\ Message(what, k.clientKey) \in Messages
      /\ k.toClient \in Seq(Messages) /\ k.toServer \in Seq(Messages)
  BY DEF Message, Messages, ConnType, What
<1>2. /\ Append(k.toClient, Message(what, k.serverKey)) \in Seq(Messages)
      /\ Append(k.toServer, Message(what, k.clientKey)) \in Seq(Messages)
  BY <1>1
<1> HIDE DEF Messages
<1> QED
  BY <1>2 DEF ToClient, ToServer, ConnType, Alike

\* So does receiving.
LEMMA ReceiveType ==
  ASSUME NEW k \in ConnType
  PROVE  /\ k.toClient # <<>> =>
              /\ [k EXCEPT !.toClient = Tail(@)] \in ConnType
              /\ Alike([k EXCEPT !.toClient = Tail(@)], k)
              /\ Head(k.toClient).what \in What
         /\ k.toServer # <<>> =>
              /\ [k EXCEPT !.toServer = Tail(@)] \in ConnType
              /\ Alike([k EXCEPT !.toServer = Tail(@)], k)
<1>1. k.toClient \in Seq(Messages) /\ k.toServer \in Seq(Messages)
  BY DEF ConnType
<1>2. /\ k.toClient # <<>> => /\ Tail(k.toClient) \in Seq(Messages)
                              /\ Head(k.toClient) \in Messages
      /\ k.toServer # <<>> => Tail(k.toServer) \in Seq(Messages)
  BY <1>1
<1>3. Head(k.toClient) \in Messages => Head(k.toClient).what \in What
  BY DEF Messages, What
<1> HIDE DEF Messages
<1> QED
  BY <1>1, <1>2, <1>3 DEF ConnType, Alike

\* A connection that is closed, from either side.
LEMMA CloseType ==
  ASSUME NEW k \in ConnType
  PROVE  /\ Close(k) \in ConnType /\ Close(k).st = "closed"
         /\ Gone(k) \in ConnType /\ Gone(k).st = "closed"
<1>1. NoConn \in ConnType
  BY NoConnType
<1> HIDE DEF NoConn
<1> QED
  BY <1>1 DEF Close, Gone, ConnType

LEMMA RefuseType ==
  ASSUME NEW k \in ConnType, NEW what \in What
  PROVE  Refuse(k, what) \in ConnType /\ Refuse(k, what).st = "closed"
  BY SendType, CloseType DEF Refuse

\* The client reacts, which the server's tables do not notice.
LEMMA HandledType ==
  ASSUME NEW k \in ConnType, NEW what \in What
  PROVE  Handled(k, what) \in ConnType /\ Alike(Handled(k, what), k)
<1>1. "Setup" \in What /\ "RefreshRoomList" \in What
  BY DEF What
<1>2. ToServer(k, "Setup") \in ConnType /\ Alike(ToServer(k, "Setup"), k)
  BY <1>1, SendType
<1>3. ToServer(k, "RefreshRoomList") \in ConnType /\ Alike(ToServer(k, "RefreshRoomList"), k)
  BY <1>1, SendType
<1>4. InstallMyKey(k) \in ConnType /\ Alike(InstallMyKey(k), k)
  BY DEF InstallMyKey, ConnType, Alike
<1>5. Alike(k, k)
  BY DEF Alike
<1> QED
  BY <1>2, <1>3, <1>4, <1>5 DEF Handled, SendSetupPacket

-----------------------------------------------------------------------------
(* The invariant.                                                           *)

PlayerType  == [state : {"none", "online", "offline"}, conn : Conns \cup {Nobody},
                inGame : BOOLEAN]
DbType      == [users : SUBSET Users, gameinfo : SUBSET Users, banned : SUBSET Users,
                banuuid : SUBSET Devices, banip : SUBSET Devices,
                uuid : [Users -> DeviceIds], ip : [Users -> DeviceIds]]
RequestType == [at : {"idle", "version", "device", "key", "account", "register", "password",
                      "login", "insert"},
                conn : Conns \cup {Nobody}, banned : BOOLEAN]
CountType   == [conns : Nat, commands : Nat, crashes : Nat]
Todos       == { <<>>, <<"account", "find", "uuid", "find">>, <<"find", "uuid", "find">>,
                 <<"uuid", "find">>, <<"find">>, <<"unaccount", "unuuid">>, <<"unuuid">>,
                 <<"ip", "find">>, <<"unip">> }

Types ==
  /\ conn \in [Conns -> ConnType] /\ player \in [Users -> PlayerType] /\ db \in DbType
  /\ request \in RequestType /\ shell \in [todo : Todos, user : UserIds]
  /\ kicks \subseteq Users /\ slipped \subseteq Conns /\ count \in CountType

\* Connections not made yet; whose a connection is; which timers may run.
Sockets ==
  \A c \in Conns :
    /\ count.conns < c => conn[c].st = "none"
    /\ conn[c].st \in {"greeted", "request", "player"} =>
         conn[c].user \in Users /\ conn[c].device \in Devices
    /\ conn[c].timer => conn[c].st \in {"greeted", "closed"}

\* Players and their connections point at each other.
Linked ==
  /\ \A c \in Conns : conn[c].st = "player" => player[conn[c].user].conn = c
  /\ \A u \in Users :
       /\ player[u].state = "online" <=> player[u].conn # Nobody
       /\ player[u].state = "none" => ~player[u].inGame
       /\ player[u].conn # Nobody =>
            conn[player[u].conn].st = "player" /\ conn[player[u].conn].user = u

\* Who is in is in the tables; who is registered has an address on record.
Rows ==
  /\ \A u \in Users : player[u].state # "none" =>
       u \in db.users /\ db.uuid[u] # NoDevice /\ u \in db.gameinfo
  /\ \A u \in db.users : db.ip[u] # NoDevice

\* What is so of the request at the places of processRequest.
Asked ==
  /\ request.at = "idle" <=> request.conn = Nobody
  /\ request.conn # Nobody => conn[request.conn].st = "request"
  /\ request.at \in {"register", "password", "login", "insert"} =>
       conn[request.conn].user \in db.users
  /\ request.at \in {"login", "insert"} =>
       ~request.banned /\ player[conn[request.conn].user].state = "none"
  /\ request.at = "insert" =>
       /\ db.uuid[conn[request.conn].user] # NoDevice
       /\ conn[request.conn].user \in db.gameinfo

Ordered == shell.todo # <<>> => shell.user \in db.users

\* `ban' is between banAccount and its search for the player.
Searching(u) == shell.todo = <<"find", "uuid", "find">> /\ shell.user = u
Banned ==
  /\ \A u \in db.banned : player[u].state = "online" =>
       u \in kicks \/ player[u].conn \in slipped \/ Searching(u)
  /\ request.at \in {"password", "login", "insert"} /\ ~request.banned
       /\ conn[request.conn].user \in db.banned => request.conn \in slipped

Inv == Types /\ Sockets /\ Linked /\ Rows /\ Asked /\ Ordered /\ Banned

LEMMA ConnIds == \A c \in Conns : c \in Nat /\ c # Nobody
<1>1. Cardinality(Conns) \in Nat /\ Conns = 1..Cardinality(Conns)
  BY AdmissionConstants, FS_CardinalityType
<1> QED
  BY <1>1 DEF Nobody

\* What follows a command.
LEMMA TodoFacts ==
  ASSUME NEW todo \in Todos, todo # <<>>
  PROVE  /\ Tail(todo) \in Todos
         /\ Head(todo) = "account" => Tail(todo) = <<"find", "uuid", "find">>
         /\ Tail(todo) = <<"find", "uuid", "find">> => Head(todo) = "account"
         /\ Head(todo) = "account" => todo # <<"find", "uuid", "find">>
         /\ todo = <<"find", "uuid", "find">> => Head(todo) = "find"
<1>1. CASE todo = <<"account", "find", "uuid", "find">>
  <2>1. Head(todo) = "account" /\ Tail(todo) = <<"find", "uuid", "find">> /\ Len(todo) = 4
    BY <1>1
  <2>2. Len(<<"find", "uuid", "find">>) = 3
    OBVIOUS
  <2> QED
    BY <2>1, <2>2 DEF Todos
<1>2. CASE todo = <<"find", "uuid", "find">>
  <2>1. Head(todo) = "find" /\ Tail(todo) = <<"uuid", "find">>
    BY <1>2
  <2> QED
    BY <2>1 DEF Todos
<1>3. CASE todo = <<"uuid", "find">>
  <2>1. Head(todo) = "uuid" /\ Tail(todo) = <<"find">>
    BY <1>3
  <2> QED
    BY <2>1 DEF Todos
<1>4. CASE todo = <<"unaccount", "unuuid">>
  <2>1. Head(todo) = "unaccount" /\ Tail(todo) = <<"unuuid">>
    BY <1>4
  <2> QED
    BY <2>1 DEF Todos
<1>5. CASE todo = <<"ip", "find">>
  <2>1. Head(todo) = "ip" /\ Tail(todo) = <<"find">>
    BY <1>5
  <2> QED
    BY <2>1 DEF Todos
<1>6. ASSUME NEW step \in {"find", "unuuid", "unip"}, todo = <<step>>
      PROVE  /\ Tail(todo) = <<>> /\ Head(todo) # "account"
             /\ todo # <<"find", "uuid", "find">>
  <2>1. Len(todo) = 1 /\ Head(todo) = step /\ todo \in Seq({step})
    BY <1>6
  <2>2. Tail(todo) \in Seq({step}) /\ Len(Tail(todo)) = 0
    BY <2>1
  <2>3. Len(<<"find", "uuid", "find">>) = 3
    OBVIOUS
  <2>4. Tail(todo) = <<>>
    BY <2>2, EmptySeq
  <2>5. todo # <<"find", "uuid", "find">>
    BY <2>1, <2>3
  <2> QED
    BY <2>1, <2>4, <2>5
<1>7. CASE todo \in {<<"find">>, <<"unuuid">>, <<"unip">>}
  <2>1. /\ Tail(todo) = <<>> /\ Head(todo) # "account"
        /\ todo # <<"find", "uuid", "find">>
    BY <1>6, <1>7
  <2>2. <<"find", "uuid", "find">> # <<>>
    OBVIOUS
  <2> QED
    BY <2>1, <2>2 DEF Todos
<1> QED
  BY <1>1, <1>2, <1>3, <1>4, <1>5, <1>7 DEF Todos

\* The invariant contains the types and what the runs check.
LEMMA InvImplies == Inv => TypeOK /\ OneLogin /\ BansHold /\ AdmittedHasRows
<1> SUFFICES ASSUME Inv PROVE TypeOK /\ OneLogin /\ BansHold /\ AdmittedHasRows
  OBVIOUS
<1>1. TypeOK
  BY DEF Inv, Types, ConnType, PlayerType, DbType, RequestType, CountType, Linked, Rows, Asked,
         TypeOK, MainFree, Requests
<1>2. OneLogin
  <2> SUFFICES ASSUME NEW c \in Conns
               PROVE  conn[c].st = "player" <=>
                        \E u \in Users : /\ player[u].state = "online" /\ player[u].conn = c
                                         /\ conn[c].user = u
    BY DEF OneLogin, User
  <2>1. c # Nobody
    BY ConnIds
  <2>2. conn[c].st = "player" => conn[c].user \in Users
    BY DEF Inv, Sockets
  <2> QED
    BY <2>1, <2>2 DEF Inv, Linked
<1>3. BansHold
  <2>1. shell.todo = <<>> => \A u \in Users : ~Searching(u)
    BY DEF Searching
  <2>2. db.banned \subseteq Users
    BY DEF Inv, Types, DbType
  <2> QED
    BY <2>1, <2>2 DEF Inv, Banned, BansHold
<1>4. AdmittedHasRows
  BY DEF Inv, Rows, AdmittedHasRows
<1> QED
  BY <1>1, <1>2, <1>3, <1>4

LEMMA InitInv == Init => Inv
<1> SUFFICES ASSUME Init PROVE Inv
  OBVIOUS
<1>1. Types
  <2>1. conn \in [Conns -> ConnType]
    BY NoConnType DEF Init
  <2>2. player \in [Users -> PlayerType]
    BY DEF Init, Absent, PlayerType
  <2>3. db \in DbType
    BY DEF Init, DbType, DeviceIds
  <2>4. request \in RequestType
    BY DEF Init, NoRequest, RequestType
  <2>5. shell \in [todo : Todos, user : UserIds]
    BY DEF Init, NoCommand, Todos, UserIds
  <2> QED
    BY <2>1, <2>2, <2>3, <2>4, <2>5 DEF Init, Types, CountType
<1>2. Sockets /\ Linked /\ Rows /\ Asked /\ Ordered /\ Banned
  BY DEF Init, NoConn, Absent, NoRequest, NoCommand, Sockets, Linked, Rows, Asked, Ordered, Banned
<1> QED
  BY <1>1, <1>2 DEF Inv

-----------------------------------------------------------------------------
(* Steps that the tables of the server do not notice.                       *)

Early == {"version", "device", "key", "account"}

LEMMA AlikeInv ==
  ASSUME Inv, conn' \in [Conns -> ConnType], \A c \in Conns : Alike(conn'[c], conn[c]),
         player' = player, db' = db, shell' = shell, kicks' = kicks, slipped' = slipped,
         count' = count, request' \in RequestType, request'.conn = request.conn,
         request'.banned = request.banned,
         \/ request'.at = request.at
         \/ request.at \in Early /\ request'.at \in Early
  PROVE  Inv'
<1>1. \A c \in Conns : /\ conn'[c].st = conn[c].st /\ conn'[c].user = conn[c].user
                       /\ conn'[c].device = conn[c].device /\ conn'[c].timer = conn[c].timer
  BY DEF Alike
<1>2. request.conn # Nobody => request.conn \in Conns
  BY DEF Inv, Types, RequestType
<1>3. Types'
  BY DEF Inv, Types
<1>4. Sockets'
  BY <1>1 DEF Inv, Sockets
<1>5. Linked'
  <2>1. \A u \in Users : player[u].conn # Nobody => player[u].conn \in Conns
    BY DEF Inv, Types, PlayerType
  <2> QED
    BY <1>1, <2>1 DEF Inv, Linked
<1>6. Rows'
  BY DEF Inv, Rows
<1>7. request'.at = "idle" <=> request.at = "idle"
  BY DEF Early
<1>8. \A places \in {{"register", "password", "login", "insert"}, {"login", "insert"},
                     {"insert"}, {"password", "login", "insert"}} :
        request'.at \in places <=> request.at \in places
  BY DEF Early
<1>9. request.at \in {"register", "password", "login", "insert"} => request.conn # Nobody
  BY DEF Inv, Asked
<1>10. Asked'
  BY <1>1, <1>2, <1>7, <1>8, <1>9 DEF Inv, Asked
<1>11. Ordered'
  BY DEF Inv, Ordered
<1>12. Banned'
  BY <1>1, <1>2, <1>8, <1>9 DEF Inv, Banned, Searching
<1> QED
  BY <1>3, <1>4, <1>5, <1>6, <1>10, <1>11, <1>12 DEF Inv

LEMMA ClientReadsInv ==
  ASSUME Inv, NEW c \in Conns, ClientReads(c)
  PROVE  Inv'
<1> DEFINE k == [conn[c] EXCEPT !.toClient = Tail(@)]
           what == Head(conn[c].toClient).what
<1>1. conn \in [Conns -> ConnType] /\ conn[c].toClient # <<>>
  BY DEF Inv, Types, ClientReads
<1>2. k \in ConnType /\ Alike(k, conn[c]) /\ what \in What
  BY <1>1, ReceiveType
<1>3. Handled(k, what) \in ConnType /\ Alike(Handled(k, what), k)
  <2> HIDE DEF k, what
  <2> QED
    BY <1>2, HandledType
<1>4. conn' = [conn EXCEPT ![c] = Handled(k, what)]
  <2>1. Received(conn[c]) = Handled(k, what)
    BY DEF Received
  <2> QED
    BY <1>1, <2>1 DEF ClientReads
<1> HIDE DEF k, what
<1>5. conn' \in [Conns -> ConnType] /\ \A d \in Conns : Alike(conn'[d], conn[d])
  BY <1>1, <1>2, <1>3, <1>4 DEF Alike
<1>6. /\ player' = player /\ db' = db /\ request' = request /\ shell' = shell
      /\ kicks' = kicks /\ slipped' = slipped /\ count' = count
  BY DEF ClientReads
<1>7. request' \in RequestType
  BY <1>6 DEF Inv, Types
<1> QED
  BY <1>5, <1>6, <1>7, AlikeInv

LEMMA ServerReadsInv ==
  ASSUME Inv, NEW c \in Conns, ServerReads(c)
  PROVE  Inv'
<1> DEFINE k == [conn[c] EXCEPT !.toServer = Tail(@)]
<1>1. conn \in [Conns -> ConnType] /\ conn[c].toServer # <<>>
  BY DEF Inv, Types, ServerReads
<1>2. k \in ConnType /\ Alike(k, conn[c])
  BY <1>1, ReceiveType
<1>3. conn' = [conn EXCEPT ![c] = k]
  BY <1>1 DEF ServerReads
<1> HIDE DEF k
<1>4. conn' \in [Conns -> ConnType] /\ \A d \in Conns : Alike(conn'[d], conn[d])
  BY <1>1, <1>2, <1>3 DEF Alike
<1>5. /\ player' = player /\ db' = db /\ request' = request /\ shell' = shell
      /\ kicks' = kicks /\ slipped' = slipped /\ count' = count
  BY DEF ServerReads
<1>6. request' \in RequestType
  BY <1>5 DEF Inv, Types
<1> QED
  BY <1>4, <1>5, <1>6, AlikeInv

LEMMA InstallKeyInv ==
  ASSUME Inv, InstallKey
  PROVE  Inv'
<1> DEFINE c == request.conn
           k == [ToClient(conn[c], "InstallKey") EXCEPT !.serverKey = TRUE]
<1>1. conn \in [Conns -> ConnType] /\ request \in RequestType /\ request.at = "key"
  BY DEF Inv, Types, InstallKey, Requests
<1>2. c \in Conns
  BY <1>1 DEF Inv, Asked, RequestType
<1>3. ToClient(conn[c], "InstallKey") \in ConnType /\ Alike(ToClient(conn[c], "InstallKey"), conn[c])
  BY <1>1, <1>2, SendType DEF What
<1>4. k \in ConnType /\ Alike(k, conn[c])
  BY <1>3 DEF ConnType, Alike
<1>5. conn' = [conn EXCEPT ![c] = k]
  BY <1>1, <1>2 DEF InstallKey
<1>6. request' \in RequestType /\ request'.conn = request.conn
      /\ request'.banned = request.banned /\ request'.at = "account"
  BY <1>1 DEF InstallKey, RequestType
<1> HIDE DEF k, c
<1>7. conn' \in [Conns -> ConnType] /\ \A d \in Conns : Alike(conn'[d], conn[d])
  BY <1>1, <1>2, <1>4, <1>5 DEF Alike
<1> QED
  BY <1>1, <1>6, <1>7, AlikeInv DEF InstallKey, Early

-----------------------------------------------------------------------------
(* processRequest.                                                          *)

\* The request that is being served.
LEMMA Serving ==
  ASSUME Inv, request.at # "idle"
  PROVE  /\ request.conn \in Conns /\ conn[request.conn] \in ConnType
         /\ conn[request.conn].st = "request"
         /\ conn[request.conn].user \in Users /\ conn[request.conn].device \in Devices
         /\ \A u \in Users : player[u].conn # request.conn
<1>1. request.conn \in Conns /\ conn[request.conn].st = "request"
  BY DEF Inv, Asked, Types, RequestType
<1>2. \A u \in Users : player[u].conn # request.conn
  BY <1>1, ConnIds DEF Inv, Linked
<1> QED
  BY <1>1, <1>2 DEF Inv, Types, Sockets

\* It is refused.
LEMMA EndInv ==
  ASSUME Inv, request.at # "idle", NEW what \in What, End(request.conn, what),
         player' = player, db' = db, shell' = shell, slipped' = slipped, count' = count,
         kicks' \subseteq kicks, \A u \in kicks : player[u].state = "online" => u \in kicks'
  PROVE  Inv'
<1> DEFINE k == Refuse(conn[request.conn], what)
<1>1. k \in ConnType /\ k.st = "closed"
  BY Serving, RefuseType
<1>2. conn' = [conn EXCEPT ![request.conn] = k] /\ request' = NoRequest
  BY DEF End
<1> HIDE DEF k
<1>3. conn \in [Conns -> ConnType]
  BY DEF Inv, Types
<1>4. /\ conn' \in [Conns -> ConnType] /\ conn'[request.conn].st = "closed"
      /\ \A c \in Conns : c # request.conn => conn'[c] = conn[c]
  BY <1>1, <1>2, <1>3, Serving
<1>5. Types'
  BY <1>2, <1>4 DEF Inv, Types, NoRequest, RequestType
<1>6. Sockets'
  <2>1. ~(count.conns < request.conn)
    BY Serving DEF Inv, Sockets
  <2> QED
    BY <1>4, <2>1 DEF Inv, Sockets
<1>7. Linked'
  <2>1. \A u \in Users : player[u].conn # Nobody =>
          player[u].conn \in Conns /\ player[u].conn # request.conn
    BY Serving DEF Inv, Types, PlayerType
  <2>2. \A c \in Conns : conn'[c].st = "player" => conn'[c] = conn[c]
    BY <1>4
  <2>3. \A u \in Users : player[u].conn # Nobody => conn'[player[u].conn] = conn[player[u].conn]
    BY <1>4, <2>1
  <2> QED
    BY <2>2, <2>3 DEF Inv, Linked
<1>8. Rows' /\ Ordered'
  BY DEF Inv, Rows, Ordered
<1>9. Asked' /\ Banned'
  BY <1>2 DEF Inv, Asked, Banned, NoRequest, Searching
<1> QED
  BY <1>5, <1>6, <1>7, <1>8, <1>9 DEF Inv

\* It goes on and the connections and the players stay.
LEMMA GoesOn ==
  ASSUME Inv, request.at # "idle", conn' = conn, player' = player, shell' = shell,
         kicks' = kicks, slipped' = slipped, count' = count,
         db' \in DbType, db'.banned = db.banned,
         db.users \subseteq db'.users, db.gameinfo \subseteq db'.gameinfo,
         \A u \in db'.users : db'.ip[u] # NoDevice,
         \A u \in Users : player[u].state # "none" => db'.uuid[u] = db.uuid[u]
  PROVE  /\ request' \in RequestType => Types'
         /\ Sockets' /\ Linked' /\ Rows' /\ Ordered'
<1>1. request' \in RequestType => Types'
  BY DEF Inv, Types
<1>2. Sockets' /\ Linked'
  BY DEF Inv, Sockets, Linked
<1>3. Rows'
  BY DEF Inv, Rows
<1>4. Ordered'
  BY DEF Inv, Ordered
<1> QED
  BY <1>1, <1>2, <1>3, <1>4

LEMMA ChecksInv ==
  ASSUME Inv, CheckClientVersion \/ CheckDevice
  PROVE  Inv'
<1>1. /\ request.at \in Early /\ request.at # "idle" /\ player' = player /\ db' = db
      /\ shell' = shell /\ slipped' = slipped /\ count' = count /\ kicks' = kicks
  BY DEF CheckClientVersion, CheckDevice, Requests, Early
<1>2. CASE End(request.conn, "ErrorDlg") \/ End(request.conn, "ErrorMsg")
  BY <1>1, <1>2, EndInv DEF What
<1>3. CASE conn' = conn /\ \E at \in {"device", "key"} : request' = [request EXCEPT !.at = at]
  <2>1. request \in RequestType /\ conn \in [Conns -> ConnType]
    BY DEF Inv, Types
  <2>2. /\ request' \in RequestType /\ request'.conn = request.conn
        /\ request'.banned = request.banned /\ request'.at \in Early
    BY <1>3, <2>1 DEF RequestType, Early
  <2>3. conn' \in [Conns -> ConnType] /\ \A c \in Conns : Alike(conn'[c], conn[c])
    BY <1>3, <2>1 DEF Alike
  <2> QED
    BY <1>1, <2>2, <2>3, AlikeInv
<1> QED
  BY <1>2, <1>3 DEF CheckClientVersion, CheckDevice

LEMMA QueryInv ==
  ASSUME Inv, QueryUserInfo \/ RegisterGameInfo
  PROVE  Inv'
<1> DEFINE c == request.conn
           u == conn[c].user
<1>1. /\ request.at \in {"account", "register"} /\ request.at # "idle"
      /\ conn' = conn /\ player' = player
      /\ shell' = shell /\ slipped' = slipped /\ count' = count /\ kicks' = kicks
  BY DEF QueryUserInfo, RegisterGameInfo, Requests
<1>2. c \in Conns /\ conn[c].st = "request" /\ u \in Users /\ conn[c].device \in Devices /\ c # Nobody
  BY <1>1, Serving, ConnIds
<1>3. db \in DbType /\ request \in RequestType
  BY DEF Inv, Types
<1>4. CASE /\ request' = [request EXCEPT !.at = "password", !.banned = u \in db.banned]
           /\ u \in db.users
           /\ db' = db \/ db' = [db EXCEPT !.gameinfo = @ \cup {u}]
  <2>1. /\ db' \in DbType /\ db'.banned = db.banned /\ db'.uuid = db.uuid
        /\ db'.users = db.users /\ db.gameinfo \subseteq db'.gameinfo /\ db'.ip = db.ip
    BY <1>2, <1>3, <1>4 DEF DbType
  <2>2. /\ request' \in RequestType /\ request'.at = "password" /\ request'.conn = c
        /\ request'.banned <=> u \in db.banned
    <3>1. (u \in db.banned) \in BOOLEAN
      OBVIOUS
    <3> QED
      BY <1>3, <1>4, <3>1 DEF RequestType
  <2>3. Asked'
    BY <1>1, <1>2, <1>4, <2>1, <2>2 DEF Asked
  <2>4. Banned'
    BY <1>1, <1>2, <2>1, <2>2 DEF Inv, Banned, Searching
  <2>5. \A v \in db'.users : db'.ip[v] # NoDevice
    BY <2>1 DEF Inv, Rows
  <2> QED
    BY <1>1, <2>1, <2>2, <2>3, <2>4, <2>5, GoesOn DEF Inv
<1>5. CASE /\ request' = [request EXCEPT !.at = "register"]
           /\ db' = [db EXCEPT !.users = @ \cup {u}, !.ip[u] = conn[c].device]
  <2>1. /\ db' \in DbType /\ db'.banned = db.banned /\ db'.uuid = db.uuid
        /\ db'.users = db.users \cup {u} /\ db'.gameinfo = db.gameinfo
    BY <1>2, <1>3, <1>5 DEF DbType, DeviceIds
  <2>2. request' \in RequestType /\ request'.at = "register" /\ request'.conn = c
    BY <1>3, <1>5 DEF RequestType
  <2>3. Asked'
    BY <1>1, <1>2, <2>1, <2>2 DEF Asked
  <2>4. Banned'
    BY <1>1, <2>1, <2>2 DEF Inv, Banned, Searching
  <2>5. \A v \in db'.users : db'.ip[v] # NoDevice
    <3> DEFINE d == conn[c].device
    <3>1. d # NoDevice
      BY <1>2, AdmissionConstants DEF NoDevice
    <3> HIDE DEF d, u
    <3>2. db'.ip = [db.ip EXCEPT ![u] = d]
      BY <1>3, <1>5 DEF DbType, d, u
    <3>3. db.users \subseteq Users /\ db.ip \in [Users -> DeviceIds]
      BY <1>3 DEF DbType
    <3> QED
      BY <1>2, <2>1, <3>1, <3>2, <3>3 DEF Inv, Rows, u
  <2> QED
    BY <1>1, <2>1, <2>2, <2>3, <2>4, <2>5, GoesOn DEF Inv
<1>6. request.at = "register" => u \in db.users
  BY DEF Inv, Asked
<1> QED
  BY <1>4, <1>5, <1>6 DEF QueryUserInfo, RegisterGameInfo, User, Requests

LEMMA RecordInv ==
  ASSUME Inv, RecordLogin
  PROVE  Inv'
<1> DEFINE c == request.conn
           u == conn[c].user
           d == conn[c].device
<1>1. /\ request.at = "login" /\ request.at # "idle"
      /\ conn' = conn /\ player' = player
      /\ shell' = shell /\ slipped' = slipped /\ count' = count /\ kicks' = kicks
      /\ db' = [db EXCEPT !.ip[u] = d, !.uuid[u] = d, !.gameinfo = @ \cup {u}]
      /\ request' = [request EXCEPT !.at = "insert"]
  BY DEF RecordLogin, Requests, User
<1>2. /\ c \in Conns /\ conn[c].st = "request" /\ u \in Users /\ d \in Devices
      /\ c # Nobody /\ d # NoDevice
  BY <1>1, Serving, ConnIds, AdmissionConstants DEF NoDevice
<1>3. db \in DbType /\ request \in RequestType
  BY DEF Inv, Types
<1>4. /\ db' \in DbType /\ db'.banned = db.banned /\ db'.users = db.users
      /\ db'.gameinfo = db.gameinfo \cup {u} /\ db'.uuid = [db.uuid EXCEPT ![u] = d]
  <2> HIDE DEF u, d
  <2> QED
    BY <1>1, <1>2, <1>3 DEF DbType, DeviceIds
<1>5. request' \in RequestType /\ request'.at = "insert" /\ request'.conn = c
      /\ request'.banned = request.banned
  BY <1>1, <1>3 DEF RequestType
<1>6. player[u].state = "none" /\ ~request.banned /\ u \in db.users
  BY <1>1 DEF Inv, Asked
<1>7. /\ db'.uuid[u] = d
      /\ \A v \in Users : player[v].state # "none" => db'.uuid[v] = db.uuid[v]
  BY <1>2, <1>3, <1>4, <1>6 DEF DbType
<1>8. Asked'
  BY <1>1, <1>2, <1>4, <1>5, <1>6, <1>7 DEF Asked
<1>9. Banned'
  BY <1>1, <1>4, <1>5 DEF Inv, Banned, Searching
<1>10. \A v \in db'.users : db'.ip[v] # NoDevice
  <2> HIDE DEF u, d
  <2>1. db'.ip = [db.ip EXCEPT ![u] = d]
    BY <1>1, <1>3 DEF DbType
  <2>2. db.users \subseteq Users /\ db.ip \in [Users -> DeviceIds]
    BY <1>3 DEF DbType
  <2> QED
    BY <1>2, <1>4, <2>1, <2>2 DEF Inv, Rows
<1> QED
  BY <1>1, <1>4, <1>5, <1>7, <1>8, <1>9, <1>10, GoesOn DEF Inv

\* The request ends with its connection being the player u's, who had none, and
\* with the connection of his other login, if any, closed.
LEMMA Enter ==
  ASSUME Inv, request.at \in {"password", "insert"}, ~request.banned,
         NEW u \in Users, u = conn[request.conn].user,
         NEW k \in ConnType, k.st = "player", k.user = u, k.device = conn[request.conn].device,
         ~k.timer,
         conn' \in [Conns -> ConnType], conn'[request.conn] = k,
         \A c \in Conns : c # request.conn =>
            IF c = player[u].conn THEN conn'[c].st = "closed" ELSE conn'[c] = conn[c],
         NEW p \in PlayerType, p.state = "online", p.conn = request.conn,
         player' = [player EXCEPT ![u] = p],
         u \in db.users, db.uuid[u] # NoDevice, u \in db.gameinfo,
         request' = NoRequest, db' = db, shell' = shell, slipped' = slipped, count' = count,
         kicks' \subseteq kicks, \A v \in kicks : player'[v].state = "online" => v \in kicks'
  PROVE  Inv'
<1> DEFINE c == request.conn
<1>1. /\ c \in Conns /\ conn[c].st = "request" /\ u \in Users /\ conn[c].device \in Devices
      /\ c # Nobody /\ \A v \in Users : player[v].conn # c
  BY Serving, ConnIds
<1>2. player \in [Users -> PlayerType]
  BY DEF Inv, Types
<1>3. /\ player' \in [Users -> PlayerType] /\ player'[u] = p
      /\ \A v \in Users : v # u => player'[v] = player[v]
  BY <1>2
<1>4. Types'
  BY <1>3 DEF Inv, Types, NoRequest, RequestType
<1>5. Sockets'
  <2>1. ~(count.conns < c)
    BY <1>1 DEF Inv, Sockets
  <2>2. player[u].conn \in Conns => ~(count.conns < player[u].conn)
    BY ConnIds DEF Inv, Sockets, Linked
  <2>3. ASSUME NEW d \in Conns
        PROVE  /\ count.conns < d => conn'[d].st = "none"
               /\ conn'[d].st \in {"greeted", "request", "player"} =>
                    conn'[d].user \in Users /\ conn'[d].device \in Devices
               /\ conn'[d].timer => conn'[d].st \in {"greeted", "closed"}
    <3>1. CASE d = c
      BY <1>1, <2>1, <3>1
    <3>2. CASE d # c /\ d = player[u].conn
      BY <2>2, <3>2
    <3>3. CASE d # c /\ d # player[u].conn
      BY <3>3 DEF Inv, Sockets
    <3> QED
      BY <3>1, <3>2, <3>3
  <2> QED
    BY <2>3 DEF Sockets
<1>6. Linked'
  <2>1. ASSUME NEW d \in Conns, conn'[d].st = "player" PROVE player'[conn'[d].user].conn = d
    <3>1. CASE d = c
      BY <1>3, <3>1
    <3>2. CASE d # c
      <4>1. d # player[u].conn /\ conn'[d] = conn[d]
        BY <2>1, <3>2
      <4>2. player[conn[d].user].conn = d /\ conn[d].user \in Users
        BY <2>1, <4>1 DEF Inv, Linked, Sockets
      <4>3. conn[d].user # u
        BY <4>1, <4>2
      <4> QED
        BY <1>3, <4>1, <4>2, <4>3
    <3> QED
      BY <3>1, <3>2
  <2>2. ASSUME NEW v \in Users
        PROVE  /\ player'[v].state = "online" <=> player'[v].conn # Nobody
               /\ player'[v].state = "none" => ~player'[v].inGame
               /\ player'[v].conn # Nobody =>
                    conn'[player'[v].conn].st = "player" /\ conn'[player'[v].conn].user = v
    <3>1. CASE v = u
      BY <1>1, <1>3, <3>1
    <3>2. CASE v # u
      <4>1. player'[v] = player[v] /\ player[v].conn # c
        BY <1>1, <1>3, <3>2
      <4>2. player[v].conn # Nobody =>
              /\ player[v].conn \in Conns /\ player[v].conn # player[u].conn
        BY <1>2, <3>2 DEF Inv, Linked, PlayerType
      <4>3. player[v].conn # Nobody => conn'[player[v].conn] = conn[player[v].conn]
        BY <4>1, <4>2
      <4> QED
        BY <4>1, <4>3 DEF Inv, Linked
    <3> QED
      BY <3>1, <3>2
  <2> QED
    BY <2>1, <2>2 DEF Linked
<1>7. Rows'
  BY <1>3 DEF Inv, Rows
<1>8. Asked' /\ Ordered'
  BY DEF Inv, Asked, Ordered, NoRequest
<1>9. Banned'
  <2>1. u \in db.banned => c \in slipped
    BY DEF Inv, Banned
  <2>2. db.banned \subseteq Users
    BY DEF Inv, Types, DbType
  <2>3. ASSUME NEW v \in db.banned, player'[v].state = "online"
        PROVE  v \in kicks' \/ player'[v].conn \in slipped' \/ Searching(v)'
    <3>1. CASE v = u
      BY <1>3, <2>1, <3>1
    <3>2. CASE v # u
      BY <1>3, <2>2, <2>3, <3>2 DEF Inv, Banned, Searching
    <3> QED
      BY <3>1, <3>2
  <2> QED
    BY <2>3 DEF Banned, NoRequest
<1> QED
  BY <1>4, <1>5, <1>6, <1>7, <1>8, <1>9 DEF Inv

LEMMA InsertInv ==
  ASSUME Inv, InsertPlayer
  PROVE  Inv'
<1> DEFINE c == request.conn
           u == conn[c].user
           k == [ToClient(conn[c], "Setup") EXCEPT !.st = "player"]
           p == [state |-> "online", conn |-> c, inGame |-> FALSE]
<1>1. /\ request.at = "insert" /\ request.at # "idle"
      /\ conn' = [conn EXCEPT ![c] = k] /\ player' = [player EXCEPT ![u] = p]
      /\ request' = NoRequest
      /\ db' = db /\ shell' = shell /\ slipped' = slipped /\ count' = count /\ kicks' = kicks
  BY DEF InsertPlayer, Requests, User, Inv, Types
<1>2. /\ c \in Conns /\ conn[c].st = "request" /\ u \in Users /\ conn[c] \in ConnType
      /\ conn \in [Conns -> ConnType]
  BY <1>1, Serving DEF Inv, Types
<1>3. ToClient(conn[c], "Setup") \in ConnType /\ Alike(ToClient(conn[c], "Setup"), conn[c])
  BY <1>2, SendType DEF What
<1>4. /\ k \in ConnType /\ k.st = "player" /\ k.user = u /\ k.device = conn[c].device
      /\ k.timer = conn[c].timer
  BY <1>3 DEF ConnType, Alike
<1>5. ~conn[c].timer
  BY <1>2 DEF Inv, Sockets
<1>6. p \in PlayerType /\ p.state = "online" /\ p.conn = c
  BY <1>2 DEF PlayerType
<1>7. /\ ~request.banned /\ u \in db.users /\ db.uuid[u] # NoDevice /\ u \in db.gameinfo
      /\ player[u].state = "none"
  BY <1>1 DEF Inv, Asked
<1>8. player[u].conn = Nobody
  BY <1>2, <1>7 DEF Inv, Linked
<1> HIDE DEF k, p
<1>9. /\ conn' \in [Conns -> ConnType] /\ conn'[c] = k
      /\ \A d \in Conns : d # c =>
           IF d = player[u].conn THEN conn'[d].st = "closed" ELSE conn'[d] = conn[d]
  BY <1>1, <1>2, <1>4, <1>8, ConnIds
<1> QED
  BY <1>1, <1>2, <1>4, <1>5, <1>6, <1>7, <1>9, Enter

\* A player is without a connection afterwards: his is closed, and with it
\* perhaps others that are not a player's; no request is served any more.
LEMMA Leave ==
  ASSUME Inv, NEW u \in Users, NEW p \in PlayerType, p.state # "online", p.conn = Nobody,
         p.state # "none" => player[u].state # "none", p.state = "none" => ~p.inGame,
         player' = [player EXCEPT ![u] = p],
         conn' \in [Conns -> ConnType],
         \A d \in Conns :
           \/ conn'[d] = conn[d] /\ d # player[u].conn
           \/ /\ conn'[d].st = "closed" /\ conn[d].st # "none"
              /\ d = player[u].conn \/ conn[d].st # "player",
         request' \in RequestType, request'.at = "idle", request'.conn = Nobody,
         db' = db, shell' = shell, slipped' = slipped, count' = count,
         kicks' \subseteq kicks, \A v \in kicks : player'[v].state = "online" => v \in kicks'
  PROVE  Inv'
<1>1. player \in [Users -> PlayerType]
  BY DEF Inv, Types
<1>2. /\ player' \in [Users -> PlayerType] /\ player'[u] = p
      /\ \A v \in Users : v # u => player'[v] = player[v]
  BY <1>1
<1>3. Types'
  BY <1>2 DEF Inv, Types
<1>4. Sockets'
  BY DEF Inv, Sockets
<1>5. Linked'
  <2>1. ASSUME NEW d \in Conns, conn'[d].st = "player" PROVE player'[conn'[d].user].conn = d
    <3>1. conn'[d] = conn[d] /\ d # player[u].conn
      BY <2>1
    <3>2. player[conn[d].user].conn = d /\ conn[d].user \in Users
      BY <2>1, <3>1 DEF Inv, Linked, Sockets
    <3> QED
      BY <1>2, <3>1, <3>2
  <2>2. ASSUME NEW v \in Users
        PROVE  /\ player'[v].state = "online" <=> player'[v].conn # Nobody
               /\ player'[v].state = "none" => ~player'[v].inGame
               /\ player'[v].conn # Nobody =>
                    conn'[player'[v].conn].st = "player" /\ conn'[player'[v].conn].user = v
    <3>1. CASE v = u
      BY <1>2, <3>1
    <3>2. CASE v # u
      <4>1. player[v].conn # Nobody =>
              /\ player[v].conn \in Conns /\ player[v].conn # player[u].conn
              /\ conn[player[v].conn].st = "player"
        BY <1>1, <3>2 DEF Inv, Linked, PlayerType
      <4>2. player[v].conn # Nobody => conn'[player[v].conn] = conn[player[v].conn]
        BY <4>1
      <4> QED
        BY <1>2, <3>2, <4>2 DEF Inv, Linked
    <3> QED
      BY <3>1, <3>2
  <2> QED
    BY <2>1, <2>2 DEF Linked
<1>6. Rows'
  BY <1>2 DEF Inv, Rows
<1>7. Asked' /\ Ordered'
  BY DEF Inv, Asked, Ordered
<1>8. Banned'
  <2>1. db.banned \subseteq Users
    BY DEF Inv, Types, DbType
  <2> QED
    BY <1>2, <2>1 DEF Inv, Banned, Searching
<1> QED
  BY <1>3, <1>4, <1>5, <1>6, <1>7, <1>8 DEF Inv

LEMMA AbsentType == /\ Absent \in PlayerType /\ Absent.state = "none"
                    /\ Absent.conn = Nobody /\ ~Absent.inGame
  BY DEF Absent, PlayerType

LEMMA PasswordInv ==
  ASSUME Inv, NEW flushed \in BOOLEAN, CheckPassword(flushed)
  PROVE  Inv'
<1> DEFINE c == request.conn
           u == conn[c].user
           o == player[u].conn
           old == [conn EXCEPT ![o] = Refuse(@, "ErrorDlg")]
           k == [ToClient(conn[c], "Setup") EXCEPT !.st = "player"]
           p == [player[u] EXCEPT !.state = "online", !.conn = c]
<1>1. /\ request.at = "password" /\ request.at # "idle"
      /\ db' = db /\ shell' = shell /\ slipped' = slipped /\ count' = count
      /\ kicks' = {v \in kicks : player'[v].state # "none"}
  BY DEF CheckPassword, Requests, DropPosted
<1>2. /\ c \in Conns /\ conn[c].st = "request" /\ u \in Users /\ conn[c] \in ConnType
      /\ conn \in [Conns -> ConnType] /\ c # Nobody /\ o # c /\ ~conn[c].timer
      /\ player \in [Users -> PlayerType] /\ u \in db.users
  <2>1. /\ c \in Conns /\ conn[c].st = "request" /\ u \in Users /\ conn[c] \in ConnType
        /\ \A v \in Users : player[v].conn # c
    BY <1>1, Serving
  <2> QED
    BY <1>1, <2>1, ConnIds DEF Inv, Types, Sockets, Asked
<1>3. /\ kicks' \subseteq kicks
      /\ \A v \in kicks : player'[v].state = "online" => v \in kicks'
  BY <1>1
<1>4. CASE End(c, "ErrorDlg") /\ player' = player
  BY <1>1, <1>3, <1>4, EndInv DEF What
<1>5. CASE /\ request' = [request EXCEPT !.at = "login"] /\ conn' = conn /\ player' = player
           /\ ~request.banned /\ player[u].state = "none"
  <2>1. /\ request' \in RequestType /\ request'.at = "login" /\ request'.conn = c
        /\ request'.banned = request.banned
    BY <1>5 DEF Inv, Types, RequestType
  <2>2. Types'
    BY <1>1, <1>5, <2>1 DEF Inv, Types
  <2>3. Sockets' /\ Linked' /\ Rows' /\ Ordered'
    BY <1>1, <1>5 DEF Inv, Sockets, Linked, Rows, Ordered
  <2>4. Asked'
    BY <1>1, <1>2, <1>5, <2>1 DEF Asked
  <2>5. Banned'
    BY <1>1, <1>3, <1>5, <2>1 DEF Inv, Banned, Searching
  <2> QED
    BY <2>2, <2>3, <2>4, <2>5 DEF Inv
\* His connection on record, if there is one, is closed.
<1>6. o # Nobody => o \in Conns /\ conn[o].st = "player"
  BY <1>2 DEF Inv, Linked, PlayerType
<1>7. o # Nobody => /\ old \in [Conns -> ConnType] /\ old[o].st = "closed" /\ old[c] = conn[c]
                    /\ \A d \in Conns : d # o => old[d] = conn[d]
  <2>1. o # Nobody => Refuse(conn[o], "ErrorDlg") \in ConnType
                      /\ Refuse(conn[o], "ErrorDlg").st = "closed"
    BY <1>2, <1>6, RefuseType DEF What
  <2> QED
    BY <1>2, <1>6, <2>1
<1>8. /\ k \in ConnType /\ k.st = "player" /\ k.user = u /\ k.device = conn[c].device
      /\ ~k.timer
  <2>1. ToClient(conn[c], "Setup") \in ConnType /\ Alike(ToClient(conn[c], "Setup"), conn[c])
    BY <1>2, SendType DEF What
  <2> QED
    BY <1>2, <2>1 DEF ConnType, Alike
<1>9. /\ Refuse(conn[c], "ErrorMsg") \in ConnType /\ Refuse(conn[c], "ErrorMsg").st = "closed"
      /\ Refuse(conn[c], "ErrorDlg") \in ConnType /\ Refuse(conn[c], "ErrorDlg").st = "closed"
  BY <1>2, RefuseType DEF What
<1>10. p \in PlayerType /\ p.state = "online" /\ p.conn = c
  <2>1. player[u] \in PlayerType /\ c \in Conns
    BY <1>2
  <2> HIDE DEF c, u, o, k, old
  <2> QED
    BY <2>1 DEF PlayerType
<1>11. player[u].state # "none" => db.uuid[u] # NoDevice /\ u \in db.gameinfo
  BY <1>2 DEF Inv, Rows
\* Kicked again at once, from the lobby, he is gone or offline.
<1>11a. ASSUME ~player[u].inGame, NEW f \in BOOLEAN
       PROVE  /\ KickedNow(p, f) \in PlayerType
              /\ KickedNow(p, f).state # "online" /\ KickedNow(p, f).conn = Nobody
              /\ KickedNow(p, f).state = "none" => ~KickedNow(p, f).inGame
  <2>1. ~p.inGame
    <3>1. player[u] \in PlayerType
      BY <1>2
    <3> HIDE DEF c, u, o, k, old
    <3> QED
      BY <1>11a, <3>1 DEF PlayerType
  <2>2. CASE f
    BY <2>1, <2>2, AbsentType DEF KickedNow, Unplugged
  <2>3. CASE ~f
    <3>1. p.conn # Nobody
      BY <1>2, <1>10
    <3> HIDE DEF p
    <3> QED
      BY <1>10, <2>3, <3>1 DEF KickedNow, PlayerType
  <2> QED
    BY <2>2, <2>3
<1> HIDE DEF k, p, old
\* He comes back into his game.
<1>12. ASSUME ~request.banned, player[u].state # "none", request' = NoRequest,
              player' = [player EXCEPT ![u] = p],
              \/ o = Nobody /\ conn' = [conn EXCEPT ![c] = k]
              \/ o # Nobody /\ conn' = [old EXCEPT ![c] = k]
       PROVE  Inv'
  <2>1. /\ conn' \in [Conns -> ConnType] /\ conn'[c] = k
        /\ \A d \in Conns : d # c =>
             IF d = player[u].conn THEN conn'[d].st = "closed" ELSE conn'[d] = conn[d]
    BY <1>2, <1>7, <1>8, <1>12, ConnIds
  <2> HIDE DEF u, o
  <2> QED
    BY <1>1, <1>2, <1>3, <1>8, <1>10, <1>11, <1>12, <2>1, Enter DEF u
\* He is out.
<1>13. ASSUME request' = NoRequest, NEW out \in PlayerType, out.state # "online",
              out.conn = Nobody, out.state # "none" => player[u].state # "none",
              out.state = "none" => ~out.inGame, player' = [player EXCEPT ![u] = out],
              NEW r \in ConnType, r.st = "closed",
              \/ o = Nobody /\ conn' = [conn EXCEPT ![c] = r]
              \/ o # Nobody /\ conn' = [old EXCEPT ![c] = r]
       PROVE  Inv'
  <2>1. /\ conn' \in [Conns -> ConnType]
        /\ \A d \in Conns :
             \/ conn'[d] = conn[d] /\ d # player[u].conn
             \/ /\ conn'[d].st = "closed" /\ conn[d].st # "none"
                /\ d = player[u].conn \/ conn[d].st # "player"
    BY <1>2, <1>6, <1>7, <1>13, ConnIds
  <2>2. request' \in RequestType /\ request'.at = "idle" /\ request'.conn = Nobody
    BY <1>13 DEF NoRequest, RequestType
  <2> QED
    BY <1>1, <1>2, <1>3, <1>13, <2>1, <2>2, Leave
<1>14. player[u].state = "online" <=> o # Nobody
  BY <1>2 DEF Inv, Linked
<1>15. CASE /\ ~request.banned /\ player[u].state = "offline"
            /\ Reconnect(conn, u, c) /\ request' = NoRequest
  <2>1. o = Nobody
    BY <1>14, <1>15
  <2>2. CASE player[u].inGame
    <3>1. conn' = [conn EXCEPT ![c] = k] /\ player' = [player EXCEPT ![u] = p]
      BY <1>2, <1>15, <2>2 DEF Reconnect, k, p
    <3> QED
      BY <1>12, <1>15, <2>1, <3>1
  <2>3. CASE ~player[u].inGame
    <3>1. /\ conn' = [conn EXCEPT ![c] = Refuse(conn[c], "ErrorMsg")]
          /\ \E f \in BOOLEAN : player' = [player EXCEPT ![u] = KickedNow(p, f)]
      BY <1>2, <1>15, <2>3 DEF Reconnect, p
    <3>2. PICK f \in BOOLEAN : player' = [player EXCEPT ![u] = KickedNow(p, f)]
      BY <3>1
    <3> QED
      BY <1>9, <1>13, <1>15, <1>11a, <2>1, <2>3, <3>1, <3>2
  <2> QED
    BY <2>2, <2>3
<1>16. CASE /\ ~request.banned /\ player[u].state = "online" /\ request' = NoRequest
            /\ Reconnect(old, u, c)
  <2>1. o # Nobody
    BY <1>14, <1>16
  <2>2. CASE player[u].inGame
    <3>1. conn' = [old EXCEPT ![c] = k] /\ player' = [player EXCEPT ![u] = p]
      BY <1>2, <1>7, <1>16, <2>1, <2>2 DEF Reconnect, k, p
    <3> QED
      BY <1>12, <1>16, <2>1, <3>1
  <2>3. CASE ~player[u].inGame
    <3>1. /\ conn' = [old EXCEPT ![c] = Refuse(conn[c], "ErrorMsg")]
          /\ \E f \in BOOLEAN : player' = [player EXCEPT ![u] = KickedNow(p, f)]
      BY <1>2, <1>7, <1>16, <2>1, <2>3 DEF Reconnect, p
    <3>2. PICK f \in BOOLEAN : player' = [player EXCEPT ![u] = KickedNow(p, f)]
      BY <3>1
    <3> QED
      BY <1>9, <1>13, <1>16, <1>11a, <2>1, <2>3, <3>1, <3>2
  <2> QED
    BY <2>2, <2>3
<1>17. CASE /\ player[u].state = "online" /\ request' = NoRequest
            /\ conn' = [old EXCEPT ![c] = Refuse(@, "ErrorDlg")]
            /\ player' = [player EXCEPT ![u] = Absent]
  <2>1. o # Nobody
    BY <1>14, <1>17
  <2>2. conn' = [old EXCEPT ![c] = Refuse(conn[c], "ErrorDlg")]
    BY <1>2, <1>7, <1>17, <2>1
  <2> QED
    BY <1>9, <1>13, <1>17, <2>1, <2>2, AbsentType
<1> QED
  <2>1. CASE player[u].state = "none"
    BY <1>4, <1>5, <2>1 DEF CheckPassword, User
  <2>2. CASE player[u].state = "offline"
    BY <1>4, <1>15, <2>2 DEF CheckPassword, User
  <2>3. CASE player[u].state = "online"
    BY <1>4, <1>16, <1>17, <2>3 DEF CheckPassword, User, old
  <2> QED
    BY <1>2, <2>1, <2>2, <2>3 DEF PlayerType

-----------------------------------------------------------------------------
(* The other steps of the server and the clients.                           *)

\* One connection that is no player's changes; no request is served before.
LEMMA OneSocket ==
  ASSUME Inv, request.at = "idle", NEW c \in Conns, NEW k \in ConnType,
         conn' = [conn EXCEPT ![c] = k], conn[c].st # "player", k.st # "player",
         count' \in CountType, count.conns <= count'.conns, c <= count'.conns,
         k.st \in {"greeted", "request"} => k.user \in Users /\ k.device \in Devices,
         k.timer => k.st \in {"greeted", "closed"},
         player' = player, db' = db, shell' = shell, slipped' = slipped,
         kicks' \subseteq kicks, \A v \in kicks : player[v].state = "online" => v \in kicks',
         request' \in RequestType,
         \/ request' = request
         \/ /\ k.st = "request" /\ request'.conn = c
            /\ request'.at \notin {"idle", "register", "password", "login", "insert"}
  PROVE  Inv'
<1>1. /\ conn' \in [Conns -> ConnType] /\ conn'[c] = k
      /\ \A d \in Conns : d # c => conn'[d] = conn[d]
  BY DEF Inv, Types
<1>2. Types'
  BY <1>1 DEF Inv, Types
<1>3. Sockets'
  <2>1. ASSUME NEW d \in Conns
        PROVE  /\ count'.conns < d => conn'[d].st = "none"
               /\ conn'[d].st \in {"greeted", "request", "player"} =>
                    conn'[d].user \in Users /\ conn'[d].device \in Devices
               /\ conn'[d].timer => conn'[d].st \in {"greeted", "closed"}
    <3>1. d \in Nat /\ count.conns \in Nat /\ count'.conns \in Nat
      BY ConnIds DEF Inv, Types, CountType
    <3>2. CASE d = c
      BY <1>1, <3>1, <3>2
    <3>3. CASE d # c
      BY <1>1, <3>1, <3>3 DEF Inv, Sockets
    <3> QED
      BY <3>2, <3>3
  <2> QED
    BY <2>1 DEF Sockets
<1>4. Linked'
  <2>1. \A u \in Users : player[u].conn # Nobody =>
          player[u].conn \in Conns /\ player[u].conn # c
    BY DEF Inv, Linked, Types, PlayerType
  <2>2. \A u \in Users : player[u].conn # Nobody => conn'[player[u].conn] = conn[player[u].conn]
    BY <1>1, <2>1
  <2>3. \A d \in Conns : conn'[d].st = "player" => conn'[d] = conn[d]
    BY <1>1
  <2> QED
    BY <2>2, <2>3 DEF Inv, Linked
<1>5. Rows' /\ Ordered'
  BY DEF Inv, Rows, Ordered
<1>6. Asked'
  BY <1>1, ConnIds DEF Inv, Asked
<1>7. Banned'
  BY DEF Inv, Banned, Searching
<1> QED
  BY <1>2, <1>3, <1>4, <1>5, <1>6, <1>7 DEF Inv

LEMMA ConnCount ==
  ASSUME count.conns < Cardinality(Conns), count.conns \in Nat
  PROVE  count.conns + 1 \in Conns
<1>1. Cardinality(Conns) \in Nat /\ Conns = 1..Cardinality(Conns)
  BY AdmissionConstants, FS_CardinalityType
<1> QED
  BY <1>1

LEMMA NewConnectionInv ==
  ASSUME Inv, NEW u \in Users, NEW d \in Devices, NEW setup \in Setups,
         NewConnection(u, d, setup)
  PROVE  Inv'
<1> DEFINE c == count.conns + 1
           k == [NoConn EXCEPT !.user = u, !.device = d, !.setup = setup]
           greeted == [ToClient(k, "NetworkDelayTest") EXCEPT !.st = "greeted", !.timer = TRUE]
<1>1. /\ request.at = "idle" /\ request' = request
      /\ player' = player /\ db' = db /\ shell' = shell /\ kicks' = kicks /\ slipped' = slipped
      /\ count' = [count EXCEPT !.conns = @ + 1] /\ count.conns < Cardinality(Conns)
      /\ \/ conn' = [conn EXCEPT ![c] = Refuse(k, "ErrorDlg")]
         \/ conn' = [conn EXCEPT ![c] = greeted]
  BY DEF NewConnection, MainFree, Requests
<1>2. count \in CountType /\ request \in RequestType
  BY DEF Inv, Types
<1>3. c \in Conns /\ count' \in CountType /\ count'.conns = c /\ count.conns <= c /\ c <= c
  BY <1>1, <1>2, ConnCount DEF CountType
<1>4. conn[c].st = "none"
  BY <1>2, <1>3 DEF Inv, Sockets, CountType
<1>5. k \in ConnType /\ k.user = u /\ k.device = d
  <2>1. NoConn \in ConnType
    BY NoConnType
  <2> HIDE DEF NoConn
  <2> QED
    BY <2>1 DEF ConnType, UserIds, DeviceIds
<1> HIDE DEF k
<1>6. Refuse(k, "ErrorDlg") \in ConnType /\ Refuse(k, "ErrorDlg").st = "closed"
  BY <1>5, RefuseType DEF What
<1>7. ToClient(k, "NetworkDelayTest") \in ConnType /\ Alike(ToClient(k, "NetworkDelayTest"), k)
  BY <1>5, SendType DEF What
<1>8. greeted \in ConnType /\ greeted.st = "greeted" /\ greeted.user = u /\ greeted.device = d
  BY <1>5, <1>7 DEF ConnType, Alike
<1> HIDE DEF greeted, c
<1>9. CASE conn' = [conn EXCEPT ![c] = Refuse(k, "ErrorDlg")]
  BY <1>1, <1>2, <1>3, <1>4, <1>6, <1>9, OneSocket
<1>10. CASE conn' = [conn EXCEPT ![c] = greeted]
  BY <1>1, <1>2, <1>3, <1>4, <1>8, <1>10, OneSocket
<1> QED
  BY <1>1, <1>9, <1>10

LEMMA SignupTimeoutInv ==
  ASSUME Inv, NEW c \in Conns, SignupTimeout(c)
  PROVE  Inv'
<1> DEFINE k == [Close(conn[c]) EXCEPT !.timer = FALSE]
<1>1. /\ request.at = "idle" /\ request' = request /\ conn[c].timer
      /\ player' = player /\ db' = db /\ shell' = shell /\ kicks' = kicks /\ slipped' = slipped
      /\ count' = count /\ conn' = [conn EXCEPT ![c] = k]
  BY DEF SignupTimeout, MainFree, Requests, Inv, Types
<1>2. count \in CountType /\ request \in RequestType /\ conn[c] \in ConnType /\ c \in Nat
  BY ConnIds DEF Inv, Types
<1>3. k \in ConnType /\ k.st = "closed"
  <2>1. Close(conn[c]) \in ConnType /\ Close(conn[c]).st = "closed"
    BY <1>2, CloseType
  <2> QED
    BY <2>1 DEF ConnType
<1>4. conn[c].st \in {"greeted", "closed"}
  BY <1>1 DEF Inv, Sockets
<1>5. c <= count.conns /\ count.conns <= count.conns
  <2>1. ~(count.conns < c)
    BY <1>4 DEF Inv, Sockets
  <2> QED
    BY <1>2, <2>1 DEF CountType
<1> HIDE DEF k
<1> QED
  BY <1>1, <1>2, <1>3, <1>4, <1>5, OneSocket

LEMMA ReceiveSetupInv ==
  ASSUME Inv, NEW c \in Conns, ReceiveSetup(c)
  PROVE  Inv'
<1> DEFINE read == [conn[c] EXCEPT !.toServer = Tail(@)]
           k == [read EXCEPT !.timer = FALSE, !.st = "request"]
<1>1. /\ request.at = "idle" /\ conn[c].st = "greeted" /\ conn[c].toServer # <<>>
      /\ player' = player /\ db' = db /\ shell' = shell /\ kicks' = kicks /\ slipped' = slipped
      /\ count' = count /\ request' = [NoRequest EXCEPT !.at = "version", !.conn = c]
  BY DEF ReceiveSetup, MainFree, Requests
<1>2. /\ count \in CountType /\ conn[c] \in ConnType /\ c \in Nat
      /\ conn \in [Conns -> ConnType]
  BY ConnIds DEF Inv, Types
<1>3. read \in ConnType /\ Alike(read, conn[c])
  BY <1>1, <1>2, ReceiveType
<1>4. conn' = [conn EXCEPT ![c] = k]
  BY <1>2 DEF ReceiveSetup
<1> HIDE DEF read
<1>5. /\ k \in ConnType /\ k.st = "request" /\ k.user = conn[c].user
      /\ k.device = conn[c].device /\ ~k.timer
  BY <1>3 DEF ConnType, Alike
<1>6. conn[c].user \in Users /\ conn[c].device \in Devices
  BY <1>1 DEF Inv, Sockets
<1>7. c <= count.conns /\ count.conns <= count.conns
  <2>1. ~(count.conns < c)
    BY <1>1 DEF Inv, Sockets
  <2> QED
    BY <1>2, <2>1 DEF CountType
<1>8. request' \in RequestType /\ request'.conn = c /\ request'.at = "version"
  BY <1>1 DEF NoRequest, RequestType
<1> HIDE DEF k
<1> QED
  BY <1>1, <1>2, <1>4, <1>5, <1>6, <1>7, <1>8, OneSocket

LEMMA DropInv ==
  ASSUME Inv, NEW c \in Conns, Drop(c)
  PROVE  Inv'
<1>1. /\ request.at = "idle" /\ request' = request /\ conn[c].st \notin {"none", "closed"}
      /\ db' = db /\ shell' = shell /\ slipped' = slipped /\ count' = count
      /\ conn' = [conn EXCEPT ![c] = Gone(conn[c])]
      /\ kicks' = {v \in kicks : player'[v].state # "none"}
  BY DEF Drop, MainFree, Requests, Connected, DropPosted, Inv, Types
<1>2. /\ player' = [v \in Users |-> IF player[v].conn = c THEN Unplugged(player[v])
                                   ELSE player[v]]
      /\ player \in [Users -> PlayerType] /\ conn \in [Conns -> ConnType]
      /\ count \in CountType /\ request \in RequestType /\ c \in Nat /\ c # Nobody
      /\ request.conn = Nobody
  BY <1>1, ConnIds DEF Drop, Inv, Types, Asked
<1>3. Gone(conn[c]) \in ConnType /\ Gone(conn[c]).st = "closed"
  BY <1>2, CloseType
<1>4. /\ kicks' \subseteq kicks
      /\ \A v \in kicks : player'[v].state = "online" => v \in kicks'
  BY <1>1
<1>5. CASE conn[c].st = "player"
  <2> DEFINE u == conn[c].user
             p == Unplugged(player[u])
  <2>1. u \in Users /\ player[u].conn = c /\ player[u].state = "online"
    BY <1>2, <1>5 DEF Inv, Sockets, Linked
  <2>2. /\ p \in PlayerType /\ p.state # "online" /\ p.conn = Nobody
        /\ p.state = "none" => ~p.inGame
    <3>1. player[u] \in PlayerType
      BY <1>2, <2>1
    <3>2. CASE player[u].inGame
      BY <3>1, <3>2 DEF Unplugged, PlayerType
    <3>3. CASE ~player[u].inGame
      BY <3>3, AbsentType DEF Unplugged
    <3> QED
      BY <3>2, <3>3
  <2>3. \A v \in Users : player[v].conn = c <=> v = u
    BY <1>2, <2>1 DEF Inv, Linked
  <2> HIDE DEF p
  <2>4. player' = [player EXCEPT ![u] = p]
    <3>1. player' = [v \in Users |-> IF v = u THEN p ELSE player[v]]
      BY <1>2, <2>3 DEF p
    <3> QED
      BY <1>2, <3>1
  <2>5. /\ conn' \in [Conns -> ConnType]
        /\ \A d \in Conns :
             \/ conn'[d] = conn[d] /\ d # player[u].conn
             \/ /\ conn'[d].st = "closed" /\ conn[d].st # "none"
                /\ d = player[u].conn \/ conn[d].st # "player"
    BY <1>1, <1>2, <1>3, <2>1
  <2> HIDE DEF u
  <2> QED
    BY <1>1, <1>2, <1>4, <2>1, <2>2, <2>4, <2>5, Leave
<1>6. CASE conn[c].st # "player"
  <2>1. \A v \in Users : player[v].conn # c
    BY <1>2, <1>6 DEF Inv, Linked
  <2>2. player' = player
    BY <1>2, <2>1
  <2>3. c <= count.conns /\ count.conns <= count.conns
    <3>1. ~(count.conns < c)
      BY <1>1 DEF Inv, Sockets
    <3> QED
      BY <1>2, <3>1 DEF CountType
  <2> HIDE DEF Gone
  <2> QED
    BY <1>1, <1>2, <1>3, <1>4, <1>6, <2>2, <2>3, OneSocket
<1> QED
  BY <1>5, <1>6

LEMMA KickedInv ==
  ASSUME Inv, NEW u \in Users, NEW flushed \in BOOLEAN, Kicked(u, flushed)
  PROVE  Inv'
<1> DEFINE p == KickedNow(player[u], flushed)
<1>1. /\ request.at = "idle" /\ request' = request
      /\ db' = db /\ shell' = shell /\ slipped' = slipped /\ count' = count
      /\ conn' = [d \in Conns |-> IF d = player[u].conn THEN Close(conn[d]) ELSE conn[d]]
      /\ player' = [player EXCEPT ![u] = p]
      /\ kicks' = kicks \ {u}
  BY DEF Kicked, MainFree, Requests, Inv, Types
<1>2. /\ player \in [Users -> PlayerType] /\ conn \in [Conns -> ConnType]
      /\ request \in RequestType /\ request.conn = Nobody
  BY <1>1 DEF Inv, Types, Asked
<1>3. /\ p \in PlayerType /\ p.state # "online" /\ p.conn = Nobody
      /\ p.state # "none" => player[u].state # "none"
      /\ p.state = "none" => ~p.inGame
  <2>1. /\ player[u] \in PlayerType
        /\ player[u].conn # Nobody => player[u].state # "none"
        /\ player[u].inGame => player[u].state # "none"
    BY <1>2 DEF Inv, Linked
  <2>2. /\ Unplugged(player[u]) \in PlayerType /\ Unplugged(player[u]).state # "online"
        /\ Unplugged(player[u]).conn = Nobody
        /\ Unplugged(player[u]).state # "none" => player[u].state # "none"
        /\ Unplugged(player[u]).state = "none" => ~Unplugged(player[u]).inGame
    <3>1. CASE player[u].inGame
      BY <2>1, <3>1 DEF Unplugged, PlayerType
    <3>2. CASE ~player[u].inGame
      BY <3>2, AbsentType DEF Unplugged
    <3> QED
      BY <3>1, <3>2
  <2>3. CASE flushed \/ player[u].conn = Nobody
    BY <2>2, <2>3 DEF KickedNow
  <2>4. CASE ~flushed /\ player[u].conn # Nobody
    BY <2>1, <2>4 DEF KickedNow, PlayerType
  <2> QED
    BY <2>3, <2>4
<1> HIDE DEF p
<1>4. /\ kicks' \subseteq kicks
      /\ \A v \in kicks : player'[v].state = "online" => v \in kicks'
  BY <1>1, <1>2, <1>3
<1>5. /\ conn' \in [Conns -> ConnType]
      /\ \A d \in Conns :
           \/ conn'[d] = conn[d] /\ d # player[u].conn
           \/ /\ conn'[d].st = "closed" /\ conn[d].st # "none"
              /\ d = player[u].conn \/ conn[d].st # "player"
  <2>1. \A d \in Conns : Close(conn[d]) \in ConnType /\ Close(conn[d]).st = "closed"
    BY <1>2, CloseType
  <2>2. \A d \in Conns : d = player[u].conn => conn[d].st = "player"
    BY ConnIds DEF Inv, Linked
  <2> HIDE DEF Close
  <2> QED
    BY <1>1, <1>2, <2>1, <2>2
<1> QED
  BY <1>1, <1>2, <1>3, <1>4, <1>5, Leave

LEMMA GameInv ==
  ASSUME Inv, NEW u \in Users, GameStarts(u) \/ GameOver(u)
  PROVE  Inv'
<1>1. /\ request.at = "idle" /\ request' = request /\ conn' = conn
      /\ db' = db /\ shell' = shell /\ slipped' = slipped /\ count' = count
      /\ kicks' \subseteq kicks
      /\ \A v \in kicks : player'[v].state = "online" => v \in kicks'
  BY DEF GameStarts, GameOver, MainFree, Requests, DropPosted
<1>2. /\ player \in [Users -> PlayerType] /\ conn \in [Conns -> ConnType]
      /\ request \in RequestType /\ request.conn = Nobody
  BY <1>1 DEF Inv, Types, Asked
<1>3. CASE player[u].state = "offline" /\ player' = [player EXCEPT ![u] = Absent]
  <2>1. \A d \in Conns : conn'[d] = conn[d] /\ d # player[u].conn
    BY <1>1, <1>3, ConnIds DEF Inv, Linked
  <2> QED
    BY <1>1, <1>2, <1>3, <2>1, AbsentType, Leave
<1>4. CASE player[u].state = "online" /\ \E b \in BOOLEAN : player' = [player EXCEPT ![u].inGame = b]
  <2>1. /\ player' \in [Users -> PlayerType]
        /\ \A v \in Users : /\ player'[v].state = player[v].state
                            /\ player'[v].conn = player[v].conn
                            /\ v # u => player'[v] = player[v]
    BY <1>2, <1>4 DEF PlayerType
  <2>2. Types'
    BY <1>1, <2>1 DEF Inv, Types
  <2>3. Sockets' /\ Ordered'
    BY <1>1 DEF Inv, Sockets, Ordered
  <2>4. Linked'
    BY <1>1, <1>4, <2>1 DEF Inv, Linked, Sockets
  <2>5. Rows'
    BY <1>1, <2>1 DEF Inv, Rows
  <2>6. Asked'
    BY <1>1, <1>2 DEF Inv, Asked
  <2>7. Banned'
    <3>1. db.banned \subseteq Users
      BY DEF Inv, Types, DbType
    <3> QED
      BY <1>1, <2>1, <3>1 DEF Inv, Banned, Searching
  <2> QED
    BY <2>2, <2>3, <2>4, <2>5, <2>6, <2>7 DEF Inv
<1>5. CASE GameStarts(u)
  <2>1. player[u].state = "online" /\ player' = [player EXCEPT ![u].inGame = TRUE]
    BY <1>5 DEF GameStarts
  <2> QED
    BY <1>4, <2>1
<1>6. CASE GameOver(u)
  <2>1. player[u].state # "none"
    BY <1>6 DEF GameOver, Inv, Linked
  <2>2. CASE player[u].state = "offline"
    <3>1. player' = [player EXCEPT ![u] = Absent]
      BY <1>2, <1>6, <2>2 DEF GameOver
    <3> QED
      BY <1>3, <2>2, <3>1
  <2>3. CASE player[u].state # "offline"
    <3>1. player[u].state = "online"
      BY <1>2, <2>1, <2>3 DEF PlayerType
    <3>2. player' = [player EXCEPT ![u].inGame = FALSE]
      BY <1>2, <1>6, <2>3 DEF GameOver
    <3> QED
      BY <1>4, <3>1, <3>2
  <2> QED
    BY <2>2, <2>3
<1> QED
  BY <1>5, <1>6

LEMMA CrashInv ==
  ASSUME Inv, Crash
  PROVE  Inv'
<1>1. /\ request' = NoRequest /\ shell' = NoCommand /\ kicks' = {} /\ db' = db
      /\ slipped' = slipped /\ player' = [u \in Users |-> Absent]
      /\ count' = [count EXCEPT !.crashes = @ + 1]
      /\ conn' = [c \in Conns |-> IF conn[c].st = "none" THEN NoConn
                                  ELSE [Gone(conn[c]) EXCEPT !.timer = FALSE]]
  BY DEF Crash
<1>2. count' \in CountType /\ count'.conns = count.conns
  BY <1>1 DEF Inv, Types, CountType
<1>3. ASSUME NEW c \in Conns
      PROVE  /\ conn'[c] \in ConnType /\ ~conn'[c].timer
             /\ conn'[c].st \in {"none", "closed"}
             /\ conn[c].st = "none" => conn'[c].st = "none"
  <2>1. Gone(conn[c]) \in ConnType /\ Gone(conn[c]).st = "closed"
    BY CloseType DEF Inv, Types
  <2>2. NoConn \in ConnType /\ NoConn.st = "none" /\ ~NoConn.timer
    BY NoConnType DEF NoConn
  <2>3. CASE conn[c].st = "none"
    BY <1>1, <2>2, <2>3
  <2>4. CASE conn[c].st # "none"
    <3> HIDE DEF Gone
    <3>1. conn'[c] = [Gone(conn[c]) EXCEPT !.timer = FALSE]
      BY <1>1, <2>4
    <3> QED
      BY <2>1, <2>4, <3>1 DEF ConnType
  <2> QED
    BY <2>3, <2>4
<1>4. Types'
  <2>1. conn' \in [Conns -> ConnType]
    BY <1>1, <1>3
  <2>2. player' \in [Users -> PlayerType]
    BY <1>1, AbsentType
  <2>3. shell' \in [todo : Todos, user : UserIds] /\ request' \in RequestType
    BY <1>1 DEF NoCommand, NoRequest, Todos, UserIds, RequestType
  <2> QED
    BY <1>1, <1>2, <2>1, <2>2, <2>3 DEF Inv, Types
<1>5. Sockets'
  BY <1>2, <1>3 DEF Inv, Sockets
<1>6. Linked' /\ Rows' /\ Asked' /\ Ordered' /\ Banned'
  <2>1. \A u \in Users : player'[u] = Absent
    BY <1>1
  <2>2. db.banned \subseteq Users
    BY DEF Inv, Types, DbType
  <2>3. Linked'
    BY <1>3, <2>1, AbsentType DEF Linked
  <2>4. Rows' /\ Banned'
    BY <1>1, <2>1, <2>2, AbsentType DEF Inv, Rows, Banned, NoRequest
  <2>5. Asked' /\ Ordered'
    BY <1>1 DEF Asked, Ordered, NoRequest, NoCommand
  <2> QED
    BY <2>3, <2>4, <2>5
<1> QED
  BY <1>4, <1>5, <1>6 DEF Inv

-----------------------------------------------------------------------------
(* The shell, which leaves the main thread's tables alone.                  *)

LEMMA ShellInv ==
  ASSUME Inv, conn' = conn, player' = player, request' = request,
         shell' \in [todo : Todos, user : UserIds], shell'.todo # <<>> => shell'.user \in db.users,
         count' \in CountType, count'.conns = count.conns,
         db' \in DbType, db'.users = db.users, db'.gameinfo = db.gameinfo,
         db'.uuid = db.uuid, db'.ip = db.ip,
         kicks' \subseteq Users, slipped \subseteq slipped', slipped' \subseteq Conns,
         Banned'
  PROVE  Inv'
<1>1. Types'
  BY DEF Inv, Types
<1>2. Sockets' /\ Linked'
  BY DEF Inv, Sockets, Linked
<1>3. Rows' /\ Asked' /\ Ordered'
  BY DEF Inv, Rows, Asked, Ordered
<1> QED
  BY <1>1, <1>2, <1>3 DEF Inv

LEMMA CommandInv ==
  ASSUME Inv, NEW u \in Users, NEW todo \in Commands, Command(u, todo)
  PROVE  Inv'
<1>1. /\ conn' = conn /\ player' = player /\ request' = request /\ db' = db
      /\ kicks' = kicks /\ slipped' = slipped /\ u \in db.users
      /\ shell.todo = <<>> /\ shell' = [todo |-> todo, user |-> u]
      /\ count' = [count EXCEPT !.commands = @ + 1]
  BY DEF Command
<1>2. shell' \in [todo : Todos, user : UserIds] /\ shell'.user = u
  BY <1>1 DEF Commands, Todos, UserIds
<1>3. count' \in CountType /\ count'.conns = count.conns
  BY <1>1 DEF Inv, Types, CountType
<1>4. \A v \in Users : ~Searching(v)
  BY <1>1 DEF Searching
<1>5. db.banned \subseteq Users
  BY DEF Inv, Types, DbType
<1>6. Banned'
  BY <1>1, <1>4, <1>5 DEF Inv, Banned
<1> QED
  BY <1>1, <1>2, <1>3, <1>6, ShellInv DEF Inv, Types

\* The next step of a command.
LEMMA StepDone ==
  ASSUME Inv, NEW step, Doing(step)
  PROVE  /\ shell.user \in Users /\ shell.user \in db.users
         /\ [shell EXCEPT !.todo = Tail(@)] \in [todo : Todos, user : UserIds]
         /\ [shell EXCEPT !.todo = <<>>] \in [todo : Todos, user : UserIds]
         /\ step = "account" <=> Tail(shell.todo) = <<"find", "uuid", "find">>
         /\ step # "find" => \A v \in Users : ~Searching(v)
<1>1. shell \in [todo : Todos, user : UserIds] /\ shell.todo # <<>> /\ Head(shell.todo) = step
  BY DEF Inv, Types, Doing
<1>2. shell.user \in db.users /\ db.users \subseteq Users
  BY <1>1 DEF Inv, Ordered, Types, DbType
<1>3. <<>> \in Todos
  BY DEF Todos
<1>4. Tail(shell.todo) \in Todos
  BY <1>1, TodoFacts
<1>5. step = "account" <=> Tail(shell.todo) = <<"find", "uuid", "find">>
  BY <1>1, TodoFacts
<1>6. step # "find" => shell.todo # <<"find", "uuid", "find">>
  BY <1>1, TodoFacts
<1> HIDE DEF Todos
<1> QED
  BY <1>1, <1>2, <1>3, <1>4, <1>5, <1>6 DEF Searching

LEMMA BanAccountInv == ASSUME Inv, BanAccount PROVE Inv'
<1>1. /\ conn' = conn /\ player' = player /\ request' = request
      /\ kicks' = kicks /\ count' = count /\ Doing("account")
      /\ shell' = [shell EXCEPT !.todo = Tail(@)]
      /\ db' = [db EXCEPT !.banned = @ \cup {shell.user}]
      /\ slipped' = IF /\ request.at \in {"password", "login", "insert"}
                       /\ User(request.conn) = shell.user /\ ~request.banned
                    THEN slipped \cup {request.conn} ELSE slipped
  BY DEF BanAccount, Done
<1> DEFINE u == shell.user
<1>2. /\ u \in Users /\ u \in db.users /\ shell' \in [todo : Todos, user : UserIds]
      /\ shell'.user = u /\ shell'.todo = <<"find", "uuid", "find">>
      /\ \A v \in Users : ~Searching(v)
  BY <1>1, StepDone DEF Inv, Types
<1>3. /\ db' \in DbType /\ db'.banned = db.banned \cup {u} /\ db'.users = db.users
      /\ db'.gameinfo = db.gameinfo /\ db'.uuid = db.uuid /\ db'.ip = db.ip
  BY <1>1, <1>2 DEF Inv, Types, DbType
<1>4. slipped \subseteq slipped' /\ slipped' \subseteq Conns
  <2>1. request.at \in {"password", "login", "insert"} => request.conn \in Conns
    BY DEF Inv, Types, Asked, RequestType
  <2> QED
    BY <1>1, <2>1 DEF Inv, Types
<1>5. Banned'
  <2>1. Searching(u)'
    BY <1>2 DEF Searching
  <2>2. db.banned \subseteq Users
    BY DEF Inv, Types, DbType
  <2>3. \A v \in db.banned : player[v].state = "online" => v \in kicks \/ player[v].conn \in slipped
    BY <1>2, <2>2 DEF Inv, Banned
  <2>4. \A v \in db'.banned : player'[v].state = "online" =>
           v \in kicks' \/ player'[v].conn \in slipped' \/ Searching(v)'
    BY <1>1, <1>3, <1>4, <2>1, <2>3
  <2>5. request.at \in {"password", "login", "insert"} /\ ~request.banned
          /\ conn[request.conn].user \in db'.banned => request.conn \in slipped'
    BY <1>1, <1>3, <1>4 DEF Inv, Banned, User
  <2> QED
    BY <1>1, <2>4, <2>5 DEF Banned
<1> HIDE DEF Todos
<1> QED
  BY <1>1, <1>2, <1>3, <1>4, <1>5, ShellInv DEF Inv, Types

\* Nothing else bans a user.
LEMMA OtherStepInv ==
  ASSUME Inv, NEW step, step \notin {"account", "find"}, Doing(step),
         conn' = conn, player' = player, request' = request, kicks' = kicks,
         slipped' = slipped, count' = count,
         shell' \in {[shell EXCEPT !.todo = Tail(@)], [shell EXCEPT !.todo = <<>>]},
         db' \in DbType, db'.banned \subseteq db.banned, db'.users = db.users,
         db'.gameinfo = db.gameinfo, db'.uuid = db.uuid, db'.ip = db.ip
  PROVE  Inv'
<1>1. /\ shell.user \in db.users /\ shell' \in [todo : Todos, user : UserIds]
      /\ \A v \in Users : ~Searching(v)
  BY StepDone
<1>2. shell'.user = shell.user
  BY DEF Inv, Types
<1>3. db.banned \subseteq Users
  BY DEF Inv, Types, DbType
<1>4. Banned'
  BY <1>1, <1>3 DEF Inv, Banned
<1> HIDE DEF Todos
<1> QED
  BY <1>1, <1>2, <1>4, ShellInv DEF Inv, Types

LEMMA BansInv ==
  ASSUME Inv, NEW on \in BOOLEAN, Unban \/ BanIP(on) \/ BanUuid(on)
  PROVE  Inv'
<1>1. /\ conn' = conn /\ player' = player /\ request' = request /\ kicks' = kicks
      /\ slipped' = slipped /\ count' = count
  BY DEF Unban, BanIP, BanUuid
<1>2. /\ db \in DbType /\ \A u \in db.users : db.ip[u] # NoDevice
  BY DEF Inv, Types, Rows
<1>3. CASE Unban
  <2>1. Doing("unaccount") /\ shell' = [shell EXCEPT !.todo = Tail(@)]
        /\ db' = [db EXCEPT !.banned = @ \ {shell.user}]
    BY <1>3 DEF Unban, Done
  <2>2. /\ db' \in DbType /\ db'.banned \subseteq db.banned /\ db'.users = db.users
        /\ db'.gameinfo = db.gameinfo /\ db'.uuid = db.uuid /\ db'.ip = db.ip
    BY <1>2, <2>1 DEF DbType
  <2> QED
    BY <1>1, <2>1, <2>2, OtherStepInv
<1>4. CASE BanIP(on)
  <2> DEFINE step == IF on THEN "ip" ELSE "unip"
             d == db.ip[shell.user]
             ips == IF on THEN db.banip \cup {d} ELSE db.banip \ {d}
  <2>1. Doing(step) /\ shell' = [shell EXCEPT !.todo = Tail(@)]
        /\ db' = [db EXCEPT !.banip = ips]
    BY <1>4 DEF BanIP, Done
  <2>2. shell.user \in Users /\ shell.user \in db.users
    BY <2>1, StepDone
  <2>3. ips \subseteq Devices
    BY <1>2, <2>2 DEF DbType, DeviceIds
  <2> HIDE DEF ips
  <2>4. /\ db' \in DbType /\ db'.banned \subseteq db.banned /\ db'.users = db.users
        /\ db'.gameinfo = db.gameinfo /\ db'.uuid = db.uuid /\ db'.ip = db.ip
    BY <1>2, <2>1, <2>3 DEF DbType
  <2> QED
    BY <1>1, <2>1, <2>4, OtherStepInv
<1>5. CASE BanUuid(on)
  <2> DEFINE step == IF on THEN "uuid" ELSE "unuuid"
             d == db.uuid[shell.user]
             ids == IF on THEN db.banuuid \cup {d} ELSE db.banuuid \ {d}
  <2>1. Doing(step)
    BY <1>5 DEF BanUuid
  <2>2. shell.user \in Users
    BY <2>1, StepDone
  <2>3. CASE d = NoDevice
    <3>1. shell' = [shell EXCEPT !.todo = <<>>] /\ db' = db
      BY <1>5, <2>3 DEF BanUuid
    <3> QED
      BY <1>1, <1>2, <2>1, <3>1, OtherStepInv
  <2>4. CASE d # NoDevice
    <3>1. shell' = [shell EXCEPT !.todo = Tail(@)] /\ db' = [db EXCEPT !.banuuid = ids]
      BY <1>5, <2>4 DEF BanUuid, Done
    <3>2. ids \subseteq Devices
      BY <1>2, <2>2, <2>4 DEF DbType, DeviceIds
    <3> HIDE DEF ids
    <3>3. /\ db' \in DbType /\ db'.banned \subseteq db.banned /\ db'.users = db.users
          /\ db'.gameinfo = db.gameinfo /\ db'.uuid = db.uuid /\ db'.ip = db.ip
      BY <1>2, <3>1, <3>2 DEF DbType
    <3> QED
      BY <1>1, <2>1, <3>1, <3>3, OtherStepInv
  <2> QED
    BY <2>3, <2>4
<1> QED
  BY <1>3, <1>4, <1>5

LEMMA FindInv == ASSUME Inv, Find PROVE Inv'
<1>1. /\ conn' = conn /\ player' = player /\ request' = request /\ db' = db
      /\ slipped' = slipped /\ count' = count /\ Doing("find")
      /\ shell' = [shell EXCEPT !.todo = Tail(@)]
      /\ kicks' = IF player[shell.user].state # "none" THEN kicks \cup {shell.user} ELSE kicks
  BY DEF Find, Done
<1>2. /\ shell.user \in Users /\ shell.user \in db.users
      /\ shell' \in [todo : Todos, user : UserIds] /\ shell'.user = shell.user
  BY <1>1, StepDone DEF Inv, Types
<1>3. kicks \subseteq kicks' /\ kicks' \subseteq Users
  BY <1>1, <1>2 DEF Inv, Types
<1>4. Banned'
  <2>1. \A v \in Users : Searching(v) /\ player[v].state = "online" => v \in kicks'
    BY <1>1 DEF Searching
  <2>2. db.banned \subseteq Users
    BY DEF Inv, Types, DbType
  <2> QED
    BY <1>1, <1>3, <2>1, <2>2 DEF Inv, Banned
<1> HIDE DEF Todos
<1> QED
  BY <1>1, <1>2, <1>3, <1>4, ShellInv DEF Inv, Types

-----------------------------------------------------------------------------
(* Theorems.                                                                *)

LEMMA StepInv == Inv /\ [Next]_vars => Inv'
<1> SUFFICES ASSUME Inv, [Next]_vars PROVE Inv'
  OBVIOUS
<1>1. CASE Server
  <2>1. ASSUME NEW c \in Conns, ReceiveSetup(c) \/ ServerReads(c) PROVE Inv'
    BY <2>1, ReceiveSetupInv, ServerReadsInv
  <2>2. CASE Answers
    BY <2>2, ChecksInv, InstallKeyInv, QueryInv, PasswordInv, RecordInv, InsertInv DEF Answers
  <2>3. ASSUME NEW u \in Users, NEW flushed \in BOOLEAN, Kicked(u, flushed) PROVE Inv'
    BY <2>3, KickedInv
  <2> QED
    BY <1>1, <2>1, <2>2, <2>3 DEF Server
<1>2. CASE Clients
  <2>1. ASSUME NEW u \in Users, NEW d \in Devices, NEW setup \in Setups,
               NewConnection(u, d, setup)
        PROVE  Inv'
    BY <2>1, NewConnectionInv
  <2>2. ASSUME NEW c \in Conns, ClientReads(c) \/ Drop(c) PROVE Inv'
    BY <2>2, ClientReadsInv, DropInv
  <2>3. ASSUME NEW u \in Users, GameStarts(u) \/ GameOver(u) PROVE Inv'
    BY <2>3, GameInv
  <2> QED
    BY <1>2, <2>1, <2>2, <2>3 DEF Clients
<1>3. CASE Shell
  <2>1. ASSUME NEW u \in Users, NEW todo \in Commands, Command(u, todo) PROVE Inv'
    BY <2>1, CommandInv
  <2>2. ASSUME NEW on \in BOOLEAN, BanIP(on) \/ BanUuid(on) PROVE Inv'
    BY <2>2, BansInv
  <2>3. CASE Unban
    BY <2>3, BansInv
  <2>4. CASE BanAccount \/ Find
    BY <2>4, BanAccountInv, FindInv
  <2> QED
    BY <1>3, <2>1, <2>2, <2>3, <2>4 DEF Shell
<1>4. CASE Crash
  BY <1>4, CrashInv
<1>5. ASSUME NEW c \in Conns, SignupTimeout(c) PROVE Inv'
  BY <1>5, SignupTimeoutInv
<1>6. CASE UNCHANGED vars
  BY <1>6 DEF vars, Inv, Types, Sockets, Linked, Rows, Asked, Ordered, Banned, Searching
<1> QED
  BY <1>1, <1>2, <1>3, <1>4, <1>5, <1>6 DEF Next

LEMMA Always == Spec => []Inv
  BY InitInv, StepInv, PTL DEF Spec

\* The types, and that the tables of the server relate: a player who is online
\* has a connection, an account, and a device on record.
THEOREM Typing == Spec => []TypeOK
  BY Always, InvImplies, PTL

\* Nobody is logged in twice: the connections taken for players' are exactly
\* those of the players online, whatever the interleaving of logins, kicks,
\* lost connections and crashes.
THEOREM SingleLogin == Spec => []OneLogin
  BY Always, InvImplies, PTL

\* A ban that is through has told whoever of the banned is online to leave,
\* or he was looked up before it.
THEOREM Bans == Spec => []BansHold
  BY Always, InvImplies, PTL

\* Who is in has his rows, crashes in the middle of a registration included.
THEOREM Registered == Spec => []AdmittedHasRows
  BY Always, InvImplies, PTL

-----------------------------------------------------------------------------
(* Both sides of a connection agree on the cipher.                           *)

\* What is on its way is decoded as it was encoded.
Decoded(k) ==
  /\ \A i \in DOMAIN k.toClient :
       k.toClient[i].coded <=>
         \/ k.clientKey
         \/ \E j \in 1..(i - 1) : k.toClient[j].what = "InstallKey"
  /\ \A i \in DOMAIN k.toServer : k.toServer[i].coded <=> k.serverKey

Secret(ms) == \A i \in DOMAIN ms : ms[i].coded /\ ms[i].what # "InstallKey"

\* Once the server has the key, the client has it too, or InstallKey is the
\* first thing it will read; it sends nothing before that.
Keyed(k) ==
  \/ /\ k.clientKey /\ Secret(k.toClient)
     /\ \A i \in DOMAIN k.toServer : k.toServer[i].coded
  \/ /\ ~k.clientKey /\ k.toServer = <<>> /\ k.toClient # <<>>
     /\ Head(k.toClient).what = "InstallKey" /\ ~Head(k.toClient).coded
     /\ Secret(Tail(k.toClient))

\* Before that the two take turns, and nothing is on its way to the server while
\* it works on the Setup.  A closed connection only has what was written to it.
Agree(k) ==
  /\ k.st = "greeted" =>
       /\ ~k.serverKey /\ ~k.clientKey
       /\ \/ k.toClient = <<Message("NetworkDelayTest", FALSE)>> /\ k.toServer = <<>>
          \/ k.toClient = <<>> /\ k.toServer = <<Message("Setup", FALSE)>>
  /\ k.st = "request" /\ ~k.serverKey =>
       ~k.clientKey /\ k.toClient = <<>> /\ k.toServer = <<>>
  /\ k.st = "player" => k.serverKey
  /\ k.st \in {"none", "closed"} => ~k.serverKey /\ k.toServer = <<>> /\ Decoded(k)
  /\ k.serverKey => Keyed(k)

\* The server has the key from the place on where it installs it.
Codes ==
  /\ \A c \in Conns : Agree(conn[c])
  /\ request.conn # Nobody =>
       (conn[request.conn].serverKey <=> request.at \notin {"version", "device", "key"})

LEMMA ConnFields ==
  ASSUME NEW k \in ConnType
  PROVE  /\ k.toClient \in Seq(Messages) /\ k.toServer \in Seq(Messages)
         /\ Len(k.toClient) \in Nat /\ DOMAIN k.toClient = 1..Len(k.toClient)
         /\ k.serverKey \in BOOLEAN /\ k.clientKey \in BOOLEAN
         /\ k.st \in {"none", "greeted", "request", "player", "closed"}
<1>1. k.toClient \in Seq(Messages) /\ k.toServer \in Seq(Messages)
  BY DEF ConnType
<1>2. k.serverKey \in BOOLEAN /\ k.clientKey \in BOOLEAN
      /\ k.st \in {"none", "greeted", "request", "player", "closed"}
  BY DEF ConnType
<1> HIDE DEF Messages
<1> QED
  BY <1>1, <1>2

\* A list that begins with InstallKey, and what follows it.
LEMMA FirstAndRest ==
  ASSUME NEW ms \in Seq(Messages), ms # <<>>
  PROVE  /\ Len(ms) \in Nat \ {0} /\ Head(ms) = ms[1] /\ Tail(ms) \in Seq(Messages)
         /\ DOMAIN Tail(ms) = 1..(Len(ms) - 1)
         /\ \A i \in 1..(Len(ms) - 1) : Tail(ms)[i] = ms[i + 1]
         /\ Secret(Tail(ms)) <=>
              \A i \in 2..Len(ms) : ms[i].coded /\ ms[i].what # "InstallKey"
<1> HIDE DEF Messages
<1>1. /\ Len(ms) \in Nat \ {0} /\ Head(ms) = ms[1] /\ Tail(ms) \in Seq(Messages)
      /\ DOMAIN Tail(ms) = 1..(Len(ms) - 1)
      /\ \A i \in 1..(Len(ms) - 1) : Tail(ms)[i] = ms[i + 1]
  OBVIOUS
<1>2. /\ \A i \in 1..(Len(ms) - 1) : i + 1 \in 2..Len(ms)
      /\ \A i \in 2..Len(ms) : i - 1 \in 1..(Len(ms) - 1) /\ (i - 1) + 1 = i
  BY <1>1
<1>3. ASSUME Secret(Tail(ms)), NEW i \in 2..Len(ms)
      PROVE  ms[i].coded /\ ms[i].what # "InstallKey"
  <2>1. i - 1 \in 1..(Len(ms) - 1) /\ Tail(ms)[i - 1] = ms[i]
    BY <1>1, <1>2
  <2> QED
    BY <1>1, <1>3, <2>1 DEF Secret
<1>4. ASSUME \A i \in 2..Len(ms) : ms[i].coded /\ ms[i].what # "InstallKey"
      PROVE  Secret(Tail(ms))
  BY <1>1, <1>2, <1>4 DEF Secret
<1> QED
  BY <1>1, <1>3, <1>4

LEMMA AgreeDecodes ==
  ASSUME NEW k \in ConnType, Agree(k)
  PROVE  Decoded(k)
<1>1. /\ k.toClient \in Seq(Messages) /\ k.serverKey \in BOOLEAN /\ k.clientKey \in BOOLEAN
      /\ Len(k.toClient) \in Nat /\ DOMAIN k.toClient = 1..Len(k.toClient)
      /\ k.st \in {"none", "greeted", "request", "player", "closed"}
  BY ConnFields
<1>2. CASE k.st \in {"none", "closed"}
  BY <1>2 DEF Agree
<1>3. CASE k.serverKey /\ k.clientKey
  <2>1. Secret(k.toClient) /\ \A i \in DOMAIN k.toServer : k.toServer[i].coded
    BY <1>3 DEF Agree, Keyed
  <2> QED
    BY <1>3, <2>1 DEF Decoded, Secret
<1>4. CASE k.serverKey /\ ~k.clientKey
  <2> DEFINE ms == k.toClient
  <2>1. /\ k.toServer = <<>> /\ ms # <<>> /\ Head(ms).what = "InstallKey"
        /\ ~Head(ms).coded /\ Secret(Tail(ms))
    BY <1>4 DEF Agree, Keyed
  <2>2. /\ ms[1].what = "InstallKey" /\ ~ms[1].coded
        /\ \A i \in 2..Len(ms) : ms[i].coded /\ ms[i].what # "InstallKey"
    BY <1>1, <2>1, FirstAndRest
  <2>3. ASSUME NEW i \in 1..Len(ms)
        PROVE  ms[i].coded <=> \E j \in 1..(i - 1) : ms[j].what = "InstallKey"
    <3>1. CASE i = 1
      BY <2>2, <3>1
    <3>2. CASE i # 1
      <4>1. i \in 2..Len(ms) /\ 1 \in 1..(i - 1)
        BY <1>1, <3>2
      <4> QED
        BY <2>2, <4>1
    <3> QED
      BY <3>1, <3>2
  <2>4. \A i \in DOMAIN k.toServer : FALSE
    BY <2>1
  <2> QED
    BY <1>1, <1>4, <2>3, <2>4 DEF Decoded
<1>5. CASE k.st = "greeted"
  <2>1. /\ ~k.serverKey /\ ~k.clientKey
        /\ \/ k.toClient = <<Message("NetworkDelayTest", FALSE)>> /\ k.toServer = <<>>
           \/ k.toClient = <<>> /\ k.toServer = <<Message("Setup", FALSE)>>
    BY <1>5 DEF Agree
  <2> QED
    BY <2>1 DEF Decoded, Message
<1>6. CASE k.st = "request" /\ ~k.serverKey
  BY <1>6 DEF Agree, Decoded
<1>7. k.st = "player" => k.serverKey
  BY DEF Agree
<1> QED
  BY <1>1, <1>2, <1>3, <1>4, <1>5, <1>6, <1>7

\* Closing takes nothing back that was written.
LEMMA CloseAgrees ==
  ASSUME NEW k \in ConnType, Agree(k)
  PROVE  Agree(Close(k)) /\ Agree([Close(k) EXCEPT !.timer = FALSE])
         /\ Agree(Gone(k)) /\ Agree([Gone(k) EXCEPT !.timer = FALSE]) /\ Agree(NoConn)
<1>1. Decoded(k)
  BY AgreeDecodes
<1>2. ASSUME NEW l, l.st = "closed", ~l.serverKey, l.toServer = <<>>,
             l.clientKey = k.clientKey, l.toClient = k.toClient
      PROVE  Agree(l)
  BY <1>1, <1>2 DEF Agree, Decoded
<1>3. ASSUME NEW l, l.st \in {"none", "closed"}, ~l.serverKey, l.toServer = <<>>, l.toClient = <<>>
      PROVE  Agree(l)
  BY <1>3 DEF Agree, Decoded
<1>4. Agree(Close(k)) /\ Agree([Close(k) EXCEPT !.timer = FALSE])
  <2> DEFINE l == Close(k)
             m == [Close(k) EXCEPT !.timer = FALSE]
  <2>1. /\ l.st = "closed" /\ ~l.serverKey /\ l.toServer = <<>>
        /\ l.clientKey = k.clientKey /\ l.toClient = k.toClient
        /\ m.st = "closed" /\ ~m.serverKey /\ m.toServer = <<>>
        /\ m.clientKey = k.clientKey /\ m.toClient = k.toClient
    BY DEF Close, NoConn
  <2> HIDE DEF l, m
  <2>2. Agree(l) /\ Agree(m)
    BY <1>2, <2>1
  <2> QED
    BY <2>2 DEF l, m
<1>5. Agree(Gone(k)) /\ Agree([Gone(k) EXCEPT !.timer = FALSE]) /\ Agree(NoConn)
  <2> DEFINE l == Gone(k)
             m == [Gone(k) EXCEPT !.timer = FALSE]
  <2>1. /\ l.st = "closed" /\ ~l.serverKey /\ l.toServer = <<>> /\ l.toClient = <<>>
        /\ m.st = "closed" /\ ~m.serverKey /\ m.toServer = <<>> /\ m.toClient = <<>>
        /\ NoConn.st = "none" /\ ~NoConn.serverKey /\ NoConn.toServer = <<>>
        /\ NoConn.toClient = <<>>
    BY DEF Gone, NoConn
  <2> HIDE DEF l, m
  <2>2. Agree(l) /\ Agree(m) /\ Agree(NoConn)
    BY <1>3, <2>1
  <2> QED
    BY <2>2 DEF l, m
<1> QED
  BY <1>4, <1>5

\* The farewell is coded as the client expects it.
LEMMA RefuseAgrees ==
  ASSUME NEW k \in ConnType, Agree(k), k.st \in {"request", "player"},
         NEW what \in What
  PROVE  Agree(Refuse(k, what))
<1> DEFINE ms == k.toClient
           m == Message(what, k.serverKey)
           l == Refuse(k, what)
<1>1. /\ ms \in Seq(Messages) /\ k.serverKey \in BOOLEAN /\ k.clientKey \in BOOLEAN
      /\ Len(ms) \in Nat /\ DOMAIN ms = 1..Len(ms)
  BY ConnFields
<1>2. m \in Messages /\ m.coded = k.serverKey
  BY <1>1 DEF Message, Messages, What
<1>3. /\ l.st = "closed" /\ ~l.serverKey /\ l.toServer = <<>>
      /\ l.clientKey = k.clientKey /\ l.toClient = Append(ms, m)
  BY DEF Refuse, Close, ToClient, NoConn, ConnType
<1>4. k.serverKey <=> k.clientKey \/ \E j \in 1..Len(ms) : ms[j].what = "InstallKey"
  <2>1. CASE ~k.serverKey
    BY <2>1 DEF Agree
  <2>2. CASE k.serverKey /\ ~k.clientKey
    <3>1. ms # <<>> /\ Head(ms).what = "InstallKey"
      BY <2>2 DEF Agree, Keyed
    <3>2. 1 \in 1..Len(ms) /\ ms[1].what = "InstallKey"
      BY <1>1, <3>1, FirstAndRest
    <3> QED
      BY <2>2, <3>2
  <2> QED
    BY <1>1, <2>1, <2>2
<1>5. /\ Len(Append(ms, m)) = Len(ms) + 1 /\ Append(ms, m)[Len(ms) + 1] = m
      /\ \A i \in 1..Len(ms) : Append(ms, m)[i] = ms[i]
      /\ DOMAIN Append(ms, m) = 1..(Len(ms) + 1)
  <2> HIDE DEF ms, m, Messages
  <2> QED
    BY <1>1, <1>2
<1> DEFINE ns == Append(ms, m)
<1> HIDE DEF m, l
<1>6. ASSUME NEW i \in DOMAIN ns
      PROVE  ns[i].coded <=> k.clientKey \/ \E j \in 1..(i - 1) : ns[j].what = "InstallKey"
  <2> HIDE DEF ns
  <2>1. CASE i \in 1..Len(ms)
    <3>1. \A j \in 1..(i - 1) : j \in 1..Len(ms)
      BY <1>1, <2>1
    <3>2. ms[i].coded <=> k.clientKey \/ \E j \in 1..(i - 1) : ms[j].what = "InstallKey"
      BY <1>1, <2>1, AgreeDecodes DEF Decoded
    <3> QED
      BY <1>5, <2>1, <3>1, <3>2 DEF ns
  <2>2. CASE i = Len(ms) + 1
    <3>1. i - 1 = Len(ms)
      BY <1>1, <2>2
    <3>2. ns[i].coded <=> k.serverKey
      BY <1>2, <1>5, <2>2 DEF ns
    <3> QED
      BY <1>4, <1>5, <3>1, <3>2 DEF ns
  <2> QED
    BY <1>1, <1>5, <2>1, <2>2 DEF ns
<1>7. Decoded(l)
  BY <1>3, <1>6 DEF Decoded
<1>8. Agree(l)
  BY <1>3, <1>7 DEF Agree
<1> QED
  BY <1>8 DEF l

LEMMA FirstElement == \A x : Append(<<>>, x) = <<x>>
  OBVIOUS

\* A connection that was just made, greeted or refused.
LEMMA NewAgrees ==
  ASSUME NEW u, NEW d, NEW setup
  PROVE  LET k == [NoConn EXCEPT !.user = u, !.device = d, !.setup = setup] IN
         /\ Agree(Refuse(k, "ErrorDlg"))
         /\ Agree([ToClient(k, "NetworkDelayTest") EXCEPT !.st = "greeted", !.timer = TRUE])
<1> DEFINE k == [NoConn EXCEPT !.user = u, !.device = d, !.setup = setup]
           l == Refuse(k, "ErrorDlg")
           m == [ToClient(k, "NetworkDelayTest") EXCEPT !.st = "greeted", !.timer = TRUE]
<1>0. /\ k.toClient = <<>> /\ k.toServer = <<>> /\ k.serverKey = FALSE /\ k.clientKey = FALSE
      /\ k = [NoConn EXCEPT !.user = u, !.device = d, !.setup = setup]
  BY DEF NoConn
<1>1. /\ l.st = "closed" /\ ~l.serverKey /\ l.toServer = <<>> /\ ~l.clientKey
      /\ l.toClient = <<Message("ErrorDlg", FALSE)>>
  <2>1. l.toClient = Append(k.toClient, Message("ErrorDlg", k.serverKey))
    BY DEF Refuse, Close, ToClient, NoConn
  <2>2. l.st = "closed" /\ l.serverKey = FALSE /\ l.toServer = <<>> /\ l.clientKey = FALSE
    BY DEF Refuse, Close, ToClient, NoConn
  <2> HIDE DEF k, l, m
  <2> QED
    BY <1>0, <2>1, <2>2, FirstElement
<1>2. /\ m.st = "greeted" /\ ~m.serverKey /\ m.toServer = <<>> /\ ~m.clientKey
      /\ m.toClient = <<Message("NetworkDelayTest", FALSE)>>
  <2>1. m.toClient = Append(k.toClient, Message("NetworkDelayTest", k.serverKey))
    BY DEF ToClient, NoConn
  <2>2. /\ m.st = "greeted" /\ m.serverKey = FALSE /\ m.toServer = <<>>
        /\ m.clientKey = FALSE
    BY DEF ToClient, NoConn
  <2> HIDE DEF k, l, m
  <2> QED
    BY <1>0, <2>1, <2>2, FirstElement
<1> HIDE DEF k, l, m
<1>3. Decoded(l)
  BY <1>1 DEF Decoded, Message
<1>4. Agree(l) /\ Agree(m)
  BY <1>1, <1>2, <1>3 DEF Agree
<1> QED
  BY <1>4 DEF l, m, k

\* The server takes the Setup.
LEMMA SetupAgrees ==
  ASSUME NEW k \in ConnType, Agree(k), k.st = "greeted", k.toServer # <<>>
  PROVE  LET l == [k EXCEPT !.toServer = Tail(@), !.timer = FALSE, !.st = "request"] IN
         Agree(l) /\ ~l.serverKey /\ l.st = "request"
<1> DEFINE l == [k EXCEPT !.toServer = Tail(@), !.timer = FALSE, !.st = "request"]
<1>1. /\ ~k.serverKey /\ ~k.clientKey /\ k.toClient = <<>>
      /\ k.toServer = <<Message("Setup", FALSE)>>
  BY DEF Agree
<1>2. Tail(k.toServer) = <<>>
  BY <1>1
<1>3. /\ l.st = "request" /\ ~l.serverKey /\ ~l.clientKey /\ l.toClient = <<>>
      /\ l.toServer = <<>>
  BY <1>1, <1>2 DEF ConnType
<1> HIDE DEF l
<1>4. Agree(l)
  BY <1>3 DEF Agree
<1> QED
  BY <1>3, <1>4 DEF l

\* It installs the key.
LEMMA InstallAgrees ==
  ASSUME NEW k \in ConnType, Agree(k), k.st = "request", ~k.serverKey
  PROVE  LET l == [ToClient(k, "InstallKey") EXCEPT !.serverKey = TRUE] IN
         Agree(l) /\ l.serverKey /\ l.st = "request"
<1> DEFINE l == [ToClient(k, "InstallKey") EXCEPT !.serverKey = TRUE]
           m == Message("InstallKey", FALSE)
<1>1. k.toClient = <<>> /\ k.toServer = <<>> /\ ~k.clientKey /\ k.serverKey = FALSE
  BY DEF Agree, ConnType
<1>2. /\ l.st = "request" /\ l.serverKey /\ ~l.clientKey /\ l.toServer = <<>>
      /\ l.toClient = <<m>>
  <2>1. /\ l.st = k.st /\ l.serverKey = TRUE /\ l.clientKey = k.clientKey
        /\ l.toServer = k.toServer
        /\ l.toClient = Append(k.toClient, Message("InstallKey", k.serverKey))
    BY DEF ToClient, ConnType
  <2> HIDE DEF l
  <2> QED
    BY <1>1, <2>1, FirstElement
<1>3. m.what = "InstallKey" /\ ~m.coded
  BY DEF Message
<1> HIDE DEF l, m
<1>4. <<m>> # <<>> /\ Head(<<m>>) = m /\ Tail(<<m>>) = <<>>
  OBVIOUS
<1>5. Keyed(l)
  BY <1>2, <1>3, <1>4 DEF Keyed, Secret
<1>6. Agree(l)
  BY <1>2, <1>5 DEF Agree
<1> QED
  BY <1>2, <1>6 DEF l

\* A player is told that he is in.
LEMMA EnterAgrees ==
  ASSUME NEW k \in ConnType, Agree(k), k.serverKey
  PROVE  Agree([ToClient(k, "Setup") EXCEPT !.st = "player"])
<1> DEFINE l == [ToClient(k, "Setup") EXCEPT !.st = "player"]
           m == Message("Setup", k.serverKey)
           ms == k.toClient
<1>1. /\ l.st = "player" /\ l.serverKey /\ l.clientKey = k.clientKey
      /\ l.toServer = k.toServer /\ l.toClient = Append(ms, m)
  BY DEF ToClient, ConnType
<1>2. m.what = "Setup" /\ m.coded /\ m \in Messages
  BY DEF Message, Messages
<1>3. ms \in Seq(Messages) /\ Keyed(k)
  BY ConnFields DEF Agree
<1> HIDE DEF l, m, ms, Messages
<1>4. /\ Append(ms, m) # <<>>
      /\ \A i \in DOMAIN Append(ms, m) :
           (i \in DOMAIN ms /\ Append(ms, m)[i] = ms[i]) \/ Append(ms, m)[i] = m
  BY <1>2, <1>3
<1>5. ms # <<>> => Head(Append(ms, m)) = Head(ms) /\ Tail(Append(ms, m)) = Append(Tail(ms), m)
  BY <1>2, <1>3
<1>6. ASSUME NEW ns \in Seq(Messages), Secret(ns) PROVE Secret(Append(ns, m))
  BY <1>2, <1>6 DEF Secret
<1>7. Keyed(l)
  <2>1. CASE k.clientKey
    <3>1. Secret(ms) /\ \A i \in DOMAIN k.toServer : k.toServer[i].coded
      BY <1>3, <2>1 DEF Keyed, ms
    <3> QED
      BY <1>1, <1>3, <1>6, <2>1, <3>1 DEF Keyed
  <2>2. CASE ~k.clientKey
    <3>1. /\ k.toServer = <<>> /\ ms # <<>> /\ Head(ms).what = "InstallKey" /\ ~Head(ms).coded
          /\ Secret(Tail(ms))
      BY <1>3, <2>2 DEF Keyed, ms
    <3>2. Tail(ms) \in Seq(Messages)
      BY <1>3, <3>1
    <3> QED
      BY <1>1, <1>4, <1>5, <1>6, <2>2, <3>1, <3>2 DEF Keyed
  <2> QED
    BY <2>1, <2>2
<1>8. Agree(l)
  BY <1>1, <1>7 DEF Agree
<1> QED
  BY <1>8 DEF l

\* The server reads from a player.
LEMMA ServerReadAgrees ==
  ASSUME NEW k \in ConnType, Agree(k), k.st = "player", k.toServer # <<>>
  PROVE  Agree([k EXCEPT !.toServer = Tail(@)])
<1> DEFINE l == [k EXCEPT !.toServer = Tail(@)]
<1>1. /\ l.st = "player" /\ l.serverKey = k.serverKey /\ l.clientKey = k.clientKey
      /\ l.toServer = Tail(k.toServer) /\ l.toClient = k.toClient
  BY DEF ConnType
<1>2. k.serverKey /\ Keyed(k) /\ k.toServer \in Seq(Messages)
  BY ConnFields DEF Agree
<1> HIDE DEF l, Messages
<1>3. k.clientKey /\ Secret(k.toClient) /\ \A i \in DOMAIN k.toServer : k.toServer[i].coded
  BY <1>2 DEF Keyed
<1>4. \A i \in DOMAIN Tail(k.toServer) :
        i + 1 \in DOMAIN k.toServer /\ Tail(k.toServer)[i] = k.toServer[i + 1]
  BY <1>2
<1>5. Keyed(l)
  BY <1>1, <1>3, <1>4 DEF Keyed
<1>6. Agree(l)
  BY <1>1, <1>2, <1>5 DEF Agree
<1> QED
  BY <1>6 DEF l

\* The client reads, and answers or changes over to its key.
LEMMA ClientReadAgrees ==
  ASSUME NEW k \in ConnType, Agree(k), k.st \notin {"none", "closed"}, k.toClient # <<>>
  PROVE  Agree(Received(k)) /\ Received(k).serverKey = k.serverKey
<1> DEFINE r == [k EXCEPT !.toClient = Tail(@)]
           h == Head(k.toClient)
           a == Message("Setup", k.clientKey)
           b == Message("RefreshRoomList", k.clientKey)
           l == Received(k)
<1>1. /\ k.toClient \in Seq(Messages) /\ k.toServer \in Seq(Messages) /\ h.what \in What
      /\ k.serverKey \in BOOLEAN /\ k.clientKey \in BOOLEAN
      /\ k.st \in {"none", "greeted", "request", "player", "closed"}
  BY ConnFields, ReceiveType
<1>2. /\ r.st = k.st /\ r.serverKey = k.serverKey /\ r.clientKey = k.clientKey
      /\ r.toServer = k.toServer /\ r.toClient = Tail(k.toClient)
  BY DEF ConnType
<1>3. l.st = k.st /\ l.serverKey = k.serverKey /\ l.toClient = Tail(k.toClient)
  BY DEF Received, Handled, SendSetupPacket, InstallMyKey, ToServer, ConnType
<1>4. /\ h.what = "NetworkDelayTest" =>
           l.toServer = Append(k.toServer, a) /\ l.clientKey = k.clientKey
      /\ h.what = "InstallKey" => l.toServer = k.toServer /\ l.clientKey
      /\ h.what = "Setup" => l.toServer = Append(k.toServer, b) /\ l.clientKey = k.clientKey
      /\ h.what \notin {"NetworkDelayTest", "InstallKey", "Setup"} =>
           l.toServer = k.toServer /\ l.clientKey = k.clientKey
  BY DEF Received, Handled, SendSetupPacket, InstallMyKey, ToServer, ConnType
<1>5. a \in Messages /\ b \in Messages /\ a.coded = k.clientKey /\ b.coded = k.clientKey
  BY <1>1 DEF Message, Messages
<1> HIDE DEF r, l, b, Messages, h
<1>6. CASE k.st = "greeted"
  <2>1. /\ k.toClient = <<Message("NetworkDelayTest", FALSE)>> /\ k.toServer = <<>>
        /\ ~k.serverKey /\ ~k.clientKey /\ k.clientKey = FALSE
    BY <1>1, <1>6 DEF Agree
  <2>2. h.what = "NetworkDelayTest" /\ Tail(k.toClient) = <<>>
    BY <2>1 DEF h, Message
  <2>3. l.toServer = <<Message("Setup", FALSE)>>
    BY <1>4, <2>1, <2>2, FirstElement
  <2> QED
    BY <1>3, <1>4, <1>6, <2>1, <2>2, <2>3 DEF Agree, l
<1> HIDE DEF a
<1>7. k.st # "greeted" => k.serverKey /\ Keyed(k)
  BY <1>1 DEF Agree
<1>8. CASE k.st # "greeted" /\ k.clientKey
  <2>1. Secret(k.toClient) /\ \A i \in DOMAIN k.toServer : k.toServer[i].coded
    BY <1>7, <1>8 DEF Keyed
  <2>2. 1 \in DOMAIN k.toClient /\ h = k.toClient[1]
    BY <1>1 DEF h
  <2>3. h.what # "InstallKey"
    BY <2>1, <2>2 DEF Secret
  <2>4. Secret(Tail(k.toClient))
    <3>1. \A i \in DOMAIN Tail(k.toClient) :
            i + 1 \in DOMAIN k.toClient /\ Tail(k.toClient)[i] = k.toClient[i + 1]
      BY <1>1
    <3> QED
      BY <2>1, <3>1 DEF Secret
  <2>5. ASSUME NEW m \in Messages, m.coded, NEW i \in DOMAIN Append(k.toServer, m)
        PROVE  Append(k.toServer, m)[i].coded
    BY <1>1, <2>1, <2>5
  <2>6. l.clientKey /\ \A i \in DOMAIN l.toServer : l.toServer[i].coded
    <3>1. l.clientKey
      BY <1>4, <1>8, <2>3
    <3>2. a.coded /\ b.coded
      BY <1>5, <1>8
    <3>3. \/ l.toServer = k.toServer \/ l.toServer = Append(k.toServer, a)
          \/ l.toServer = Append(k.toServer, b)
      BY <1>4
    <3> QED
      BY <1>5, <2>1, <2>5, <3>1, <3>2, <3>3
  <2>7. Keyed(l)
    BY <1>3, <2>4, <2>6 DEF Keyed
  <2> QED
    BY <1>1, <1>3, <1>7, <1>8, <2>7 DEF Agree, l
<1>9. CASE k.st # "greeted" /\ ~k.clientKey
  <2>1. /\ k.toServer = <<>> /\ h.what = "InstallKey" /\ Secret(Tail(k.toClient))
    BY <1>7, <1>9 DEF Keyed, h
  <2>2. l.clientKey /\ l.toServer = <<>>
    BY <1>4, <2>1
  <2>3. Keyed(l)
    BY <1>3, <2>1, <2>2 DEF Keyed
  <2> QED
    BY <1>1, <1>3, <1>7, <1>9, <2>3 DEF Agree, l
<1> QED
  BY <1>6, <1>8, <1>9

\* One connection changes.
LEMMA OneAgrees ==
  ASSUME Inv, Codes, NEW c \in Conns, NEW k, conn' = [conn EXCEPT ![c] = k], Agree(k)
  PROVE  \A d \in Conns : Agree(conn'[d])
<1>1. conn \in [Conns -> ConnType]
  BY DEF Inv, Types
<1>2. \A d \in Conns : conn'[d] = IF d = c THEN k ELSE conn[d]
  BY <1>1
<1> QED
  BY <1>2 DEF Codes

\* No request is served any more.
LEMMA IdleCodes ==
  ASSUME request'.conn = Nobody, \A d \in Conns : Agree(conn'[d])
  PROVE  Codes'
  BY DEF Codes

LEMMA SameCodes ==
  ASSUME Codes, conn' = conn, request'.conn = request.conn,
         request.conn # Nobody =>
           (request'.at \in {"version", "device", "key"} <=>
              request.at \in {"version", "device", "key"})
  PROVE  Codes'
  BY DEF Codes

LEMMA EndCodes ==
  ASSUME Inv, Codes, request.at # "idle", NEW what \in What, End(request.conn, what)
  PROVE  Codes'
<1> DEFINE c == request.conn
<1>1. c \in Conns /\ conn[c] \in ConnType /\ conn[c].st = "request" /\ Agree(conn[c])
  BY Serving DEF Codes
<1>2. Agree(Refuse(conn[c], what))
  BY <1>1, RefuseAgrees
<1>3. conn' = [conn EXCEPT ![c] = Refuse(conn[c], what)] /\ request'.conn = Nobody
  BY DEF End, NoRequest
<1> HIDE DEF c
<1> QED
  BY <1>1, <1>2, <1>3, OneAgrees, IdleCodes

LEMMA ReadCodes ==
  ASSUME Inv, Codes, NEW c \in Conns, ClientReads(c) \/ ServerReads(c)
  PROVE  Codes'
<1>1. conn \in [Conns -> ConnType] /\ conn[c] \in ConnType /\ Agree(conn[c])
  BY DEF Inv, Types, Codes
<1>2. CASE ClientReads(c)
  <2>1. /\ conn[c].st \notin {"none", "closed"} /\ conn[c].toClient # <<>>
        /\ conn' = [conn EXCEPT ![c] = Received(conn[c])] /\ request' = request
    BY <1>2 DEF ClientReads, Connected
  <2>2. Agree(Received(conn[c])) /\ Received(conn[c]).serverKey = conn[c].serverKey
    BY <1>1, <2>1, ClientReadAgrees
  <2>3. \A d \in Conns : Agree(conn'[d])
    BY <2>1, <2>2, OneAgrees
  <2>4. \A d \in Conns : conn'[d].serverKey = conn[d].serverKey
    BY <1>1, <2>1, <2>2
  <2>5. request.conn # Nobody => request.conn \in Conns
    BY DEF Inv, Types, RequestType
  <2> QED
    BY <2>1, <2>3, <2>4, <2>5 DEF Codes
<1>3. CASE ServerReads(c)
  <2>1. /\ request.at = "idle" /\ request' = request
        /\ conn[c].st = "player" /\ conn[c].toServer # <<>>
    BY <1>3 DEF ServerReads, MainFree, Requests
  <2>2. conn' = [conn EXCEPT ![c] = [conn[c] EXCEPT !.toServer = Tail(@)]]
    BY <1>1, <1>3 DEF ServerReads
  <2>3. Agree([conn[c] EXCEPT !.toServer = Tail(@)])
    BY <1>1, <2>1, ServerReadAgrees
  <2>4. request'.conn = Nobody
    BY <2>1 DEF Inv, Asked
  <2> QED
    BY <2>2, <2>3, <2>4, OneAgrees, IdleCodes
<1> QED
  BY <1>2, <1>3

LEMMA ConnectCodes ==
  ASSUME Inv, Codes, NEW u \in Users, NEW d \in Devices, NEW setup \in Setups,
         NewConnection(u, d, setup)
  PROVE  Codes'
<1> DEFINE c == count.conns + 1
           k == [NoConn EXCEPT !.user = u, !.device = d, !.setup = setup]
           greeted == [ToClient(k, "NetworkDelayTest") EXCEPT !.st = "greeted", !.timer = TRUE]
<1>1. /\ request.at = "idle" /\ request' = request /\ count.conns < Cardinality(Conns)
      /\ \/ conn' = [conn EXCEPT ![c] = Refuse(k, "ErrorDlg")]
         \/ conn' = [conn EXCEPT ![c] = greeted]
  BY DEF NewConnection, MainFree, Requests
<1>2. count \in CountType
  BY DEF Inv, Types
<1>3. c \in Conns
  BY <1>1, <1>2, ConnCount DEF CountType
<1>4. Agree(Refuse(k, "ErrorDlg")) /\ Agree(greeted)
  BY NewAgrees
<1>5. request'.conn = Nobody
  BY <1>1 DEF Inv, Asked
<1> HIDE DEF c, k, greeted
<1> QED
  BY <1>1, <1>3, <1>4, <1>5, OneAgrees, IdleCodes

LEMMA TimeoutCodes ==
  ASSUME Inv, Codes, NEW c \in Conns, SignupTimeout(c)
  PROVE  Codes'
<1>1. conn[c] \in ConnType /\ Agree(conn[c])
  BY DEF Inv, Types, Codes
<1>2. /\ request.at = "idle" /\ request' = request
      /\ conn' = [conn EXCEPT ![c] = [Close(conn[c]) EXCEPT !.timer = FALSE]]
  BY DEF SignupTimeout, MainFree, Requests
<1>3. request'.conn = Nobody
  BY <1>2 DEF Inv, Asked
<1> QED
  BY <1>1, <1>2, <1>3, CloseAgrees, OneAgrees, IdleCodes

LEMMA SetupCodes ==
  ASSUME Inv, Codes, NEW c \in Conns, ReceiveSetup(c)
  PROVE  Codes'
<1> DEFINE k == [conn[c] EXCEPT !.toServer = Tail(@), !.timer = FALSE, !.st = "request"]
<1>1. conn \in [Conns -> ConnType] /\ conn[c] \in ConnType /\ Agree(conn[c])
  BY DEF Inv, Types, Codes
<1>2. /\ conn[c].st = "greeted" /\ conn[c].toServer # <<>>
      /\ request' = [NoRequest EXCEPT !.at = "version", !.conn = c]
  BY DEF ReceiveSetup
<1>3. Agree(k) /\ ~k.serverKey
  BY <1>1, <1>2, SetupAgrees
<1>4. conn' = [conn EXCEPT ![c] = k]
  BY <1>1 DEF ReceiveSetup
<1>5. request'.conn = c /\ request'.at = "version"
  BY <1>2 DEF NoRequest
<1> HIDE DEF k
<1>6. \A d \in Conns : Agree(conn'[d])
  BY <1>3, <1>4, OneAgrees
<1>7. conn'[c] = k
  BY <1>1, <1>4
<1> QED
  BY <1>3, <1>5, <1>6, <1>7 DEF Codes

LEMMA ChecksCodes ==
  ASSUME Inv, Codes, CheckClientVersion \/ CheckDevice
  PROVE  Codes'
<1>1. request.at \in {"version", "device"} /\ request.at # "idle" /\ request \in RequestType
  BY DEF CheckClientVersion, CheckDevice, Requests, Inv, Types
<1>2. CASE End(request.conn, "ErrorDlg") \/ End(request.conn, "ErrorMsg")
  BY <1>1, <1>2, EndCodes DEF What
<1>3. CASE conn' = conn /\ \E at \in {"device", "key"} : request' = [request EXCEPT !.at = at]
  <2>1. request'.conn = request.conn /\ request'.at \in {"device", "key"}
    BY <1>1, <1>3 DEF RequestType
  <2> QED
    BY <1>1, <1>3, <2>1, SameCodes
<1> QED
  BY <1>2, <1>3 DEF CheckClientVersion, CheckDevice

LEMMA InstallCodes ==
  ASSUME Inv, Codes, InstallKey
  PROVE  Codes'
<1> DEFINE c == request.conn
           k == [ToClient(conn[c], "InstallKey") EXCEPT !.serverKey = TRUE]
<1>1. /\ request.at = "key" /\ conn' = [conn EXCEPT ![c] = k]
      /\ request' = [request EXCEPT !.at = "account"]
  BY DEF InstallKey, Requests
<1>2. /\ c \in Conns /\ conn[c] \in ConnType /\ conn[c].st = "request" /\ Agree(conn[c])
      /\ conn \in [Conns -> ConnType] /\ request \in RequestType /\ c # Nobody
  BY <1>1, Serving, ConnIds DEF Codes, Inv, Types
<1>3. ~conn[c].serverKey
  BY <1>1, <1>2 DEF Codes
<1>4. Agree(k) /\ k.serverKey
  BY <1>2, <1>3, InstallAgrees
<1>5. request'.conn = c /\ request'.at = "account"
  BY <1>1, <1>2 DEF RequestType
<1> HIDE DEF k, c
<1>6. (\A d \in Conns : Agree(conn'[d])) /\ conn'[c] = k
  BY <1>1, <1>2, <1>4, OneAgrees
<1> QED
  BY <1>4, <1>5, <1>6 DEF Codes

LEMMA DatabaseCodes ==
  ASSUME Inv, Codes, QueryUserInfo \/ RegisterGameInfo \/ RecordLogin
  PROVE  Codes'
<1>1. request \in RequestType /\ conn' = conn
  BY DEF Inv, Types, QueryUserInfo, RegisterGameInfo, RecordLogin
<1>2. /\ request.at \in {"account", "register", "login"}
      /\ request'.conn = request.conn /\ request'.at \in {"password", "register", "insert"}
  BY <1>1 DEF QueryUserInfo, RegisterGameInfo, RecordLogin, Requests, RequestType
<1> QED
  BY <1>1, <1>2, SameCodes

LEMMA InsertCodes ==
  ASSUME Inv, Codes, InsertPlayer
  PROVE  Codes'
<1> DEFINE c == request.conn
           k == [ToClient(conn[c], "Setup") EXCEPT !.st = "player"]
<1>1. request.at = "insert" /\ conn' = [conn EXCEPT ![c] = k] /\ request'.conn = Nobody
  BY DEF InsertPlayer, Requests, NoRequest
<1>2. c \in Conns /\ conn[c] \in ConnType /\ Agree(conn[c]) /\ c # Nobody
  BY <1>1, Serving, ConnIds DEF Codes
<1>3. conn[c].serverKey
  BY <1>1, <1>2 DEF Codes
<1>4. Agree(k)
  BY <1>2, <1>3, EnterAgrees
<1> HIDE DEF k, c
<1> QED
  BY <1>1, <1>2, <1>4, OneAgrees, IdleCodes

\* The other login of the user is refused a moment before, if there is one.
LEMMA PasswordCodes ==
  ASSUME Inv, Codes, NEW flushed \in BOOLEAN, CheckPassword(flushed)
  PROVE  Codes'
<1> DEFINE c == request.conn
           u == conn[c].user
           o == player[u].conn
           old == [conn EXCEPT ![o] = Refuse(@, "ErrorDlg")]
           k == [ToClient(conn[c], "Setup") EXCEPT !.st = "player"]
<1>1. request.at = "password" /\ request.at # "idle"
  BY DEF CheckPassword, Requests
<1>2. /\ c \in Conns /\ conn[c].st = "request" /\ u \in Users /\ conn[c] \in ConnType
      /\ conn \in [Conns -> ConnType] /\ c # Nobody /\ o # c /\ request \in RequestType
      /\ Agree(conn[c]) /\ player \in [Users -> PlayerType]
  <2>1. /\ c \in Conns /\ conn[c].st = "request" /\ u \in Users /\ conn[c] \in ConnType
        /\ \A v \in Users : player[v].conn # c
    BY <1>1, Serving
  <2> QED
    BY <2>1, ConnIds DEF Inv, Types, Codes
<1>3. conn[c].serverKey
  BY <1>1, <1>2 DEF Codes
<1>4. /\ Agree(k) /\ Agree(Refuse(conn[c], "ErrorDlg")) /\ Agree(Refuse(conn[c], "ErrorMsg"))
  BY <1>2, <1>3, EnterAgrees, RefuseAgrees DEF What
<1>5. CASE End(c, "ErrorDlg")
  BY <1>1, <1>5, EndCodes DEF What
<1>6. CASE request' = [request EXCEPT !.at = "login"] /\ conn' = conn
  <2>1. request'.conn = request.conn /\ request'.at = "login"
    BY <1>2, <1>6 DEF RequestType
  <2> QED
    BY <1>1, <1>6, <2>1, SameCodes
<1>7. /\ DOMAIN old = Conns
      /\ old[c] = conn[c]
      /\ (o \in Conns => conn[o].st = "player") => \A d \in Conns : Agree(old[d])
  <2>1. DOMAIN old = Conns /\ old[c] = conn[c]
    BY <1>2
  <2>2. ASSUME o \in Conns => conn[o].st = "player", NEW d \in Conns
        PROVE  Agree(old[d])
    <3>1. CASE d # o
      BY <1>2, <3>1 DEF Codes
    <3>2. CASE d = o
      <4>1. conn[o] \in ConnType /\ Agree(conn[o]) /\ conn[o].st = "player"
        BY <1>2, <2>2, <3>2 DEF Codes
      <4>2. Agree(Refuse(conn[o], "ErrorDlg"))
        BY <4>1, RefuseAgrees DEF What
      <4>3. old[d] = Refuse(conn[o], "ErrorDlg")
        BY <1>2, <3>2
      <4> QED
        BY <4>2, <4>3
    <3> QED
      BY <3>1, <3>2
  <2> QED
    BY <2>1, <2>2
<1>8. o \in Conns => conn[o].st = "player"
  BY <1>2, ConnIds DEF Inv, Linked
<1>9. ASSUME NEW cs, DOMAIN cs = Conns, \A d \in Conns : Agree(cs[d]), NEW r, Agree(r),
             conn' = [cs EXCEPT ![c] = r], request' = NoRequest
      PROVE  Codes'
  <2>1. \A d \in Conns : conn'[d] = IF d = c THEN r ELSE cs[d]
    BY <1>9
  <2>2. request'.conn = Nobody
    BY <1>9 DEF NoRequest
  <2> QED
    BY <1>9, <2>1, <2>2, IdleCodes
<1>10. ASSUME NEW cs, DOMAIN cs = Conns, \A d \in Conns : Agree(cs[d]), cs[c] = conn[c],
              Reconnect(cs, u, c), request' = NoRequest
       PROVE  Codes'
  <2>1. conn' = [cs EXCEPT ![c] = k] \/ conn' = [cs EXCEPT ![c] = Refuse(conn[c], "ErrorMsg")]
    BY <1>2, <1>10 DEF Reconnect
  <2> QED
    BY <1>4, <1>9, <1>10, <2>1
<1>11. CASE Reconnect(conn, u, c) /\ request' = NoRequest
  <2>1. DOMAIN conn = Conns /\ \A d \in Conns : Agree(conn[d])
    BY <1>2 DEF Codes
  <2> QED
    BY <1>10, <1>11, <2>1
<1>12. CASE Reconnect(old, u, c) /\ request' = NoRequest
  BY <1>7, <1>8, <1>10, <1>12
<1>13. CASE conn' = [old EXCEPT ![c] = Refuse(@, "ErrorDlg")] /\ request' = NoRequest
  <2>1. conn' = [old EXCEPT ![c] = Refuse(conn[c], "ErrorDlg")]
    BY <1>2, <1>7, <1>13
  <2> QED
    BY <1>4, <1>7, <1>8, <1>9, <1>13, <2>1
<1> QED
  BY <1>5, <1>6, <1>11, <1>12, <1>13 DEF CheckPassword, User

LEMMA LostCodes ==
  ASSUME Inv, Codes,
         \/ \E c \in Conns : Drop(c)
         \/ \E u \in Users, flushed \in BOOLEAN : Kicked(u, flushed)
         \/ Crash
  PROVE  Codes'
<1>1. \A c \in Conns : conn[c] \in ConnType /\ Agree(conn[c])
  BY DEF Inv, Types, Codes
<1>2. \A c \in Conns :
        /\ Agree(Close(conn[c])) /\ Agree(Gone(conn[c])) /\ Agree(NoConn)
        /\ Agree([Gone(conn[c]) EXCEPT !.timer = FALSE])
  BY <1>1, CloseAgrees
<1>3. request.at = "idle" => request.conn = Nobody
  BY DEF Inv, Asked
<1>4. ASSUME NEW c \in Conns, Drop(c) PROVE Codes'
  <2>1. conn' = [conn EXCEPT ![c] = Gone(conn[c])] /\ request.at = "idle" /\ request' = request
    BY <1>4 DEF Drop, MainFree, Requests
  <2> QED
    BY <1>2, <1>3, <2>1, OneAgrees, IdleCodes
<1>5. ASSUME NEW u \in Users, NEW flushed \in BOOLEAN, Kicked(u, flushed) PROVE Codes'
  <2>1. /\ \A c \in Conns : conn'[c] = conn[c] \/ conn'[c] = Close(conn[c])
        /\ request.at = "idle" /\ request' = request
    BY <1>5 DEF Kicked, MainFree, Requests
  <2>2. \A c \in Conns : Agree(conn'[c])
    BY <1>1, <1>2, <2>1
  <2> QED
    BY <1>3, <2>1, <2>2, IdleCodes
<1>6. CASE Crash
  <2>1. /\ \A c \in Conns : conn'[c] = NoConn \/ conn'[c] = [Gone(conn[c]) EXCEPT !.timer = FALSE]
        /\ request'.conn = Nobody
    BY <1>6 DEF Crash, NoRequest
  <2>2. \A c \in Conns : Agree(conn'[c])
    BY <1>2, <2>1
  <2> QED
    BY <2>1, <2>2, IdleCodes
<1> QED
  BY <1>4, <1>5, <1>6

\* Although both sides change over to the key on their own, and connections are
\* closed, lost and taken over at any moment: what one side writes, the other
\* can read.
THEOREM Decodable == Spec => []SameCipher
<1>1. Init => Codes
  <2> SUFFICES ASSUME Init PROVE Codes
    OBVIOUS
  <2>1. Agree(NoConn)
    BY DEF Agree, Decoded, NoConn
  <2> QED
    BY <2>1 DEF Init, Codes, NoRequest
<1>2. Inv /\ Codes /\ [Next]_vars => Codes'
  <2> SUFFICES ASSUME Inv, Codes, [Next]_vars PROVE Codes'
    OBVIOUS
  <2>1. CASE Server
    BY <2>1, SetupCodes, ReadCodes, ChecksCodes, InstallCodes, DatabaseCodes, PasswordCodes,
       InsertCodes, LostCodes DEF Server, Answers
  <2>2. CASE Clients
    <3>1. ASSUME NEW u \in Users, NEW d \in Devices, NEW setup \in Setups,
                 NewConnection(u, d, setup)
          PROVE  Codes'
      BY <3>1, ConnectCodes
    <3>2. ASSUME NEW c \in Conns, ClientReads(c) \/ Drop(c) PROVE Codes'
      BY <3>2, ReadCodes, LostCodes
    <3>3. ASSUME NEW u \in Users, GameStarts(u) \/ GameOver(u) PROVE Codes'
      BY <3>3, SameCodes DEF GameStarts, GameOver
    <3> QED
      BY <2>2, <3>1, <3>2, <3>3 DEF Clients
  <2>3. CASE Shell
    <3>1. conn' = conn /\ request' = request
      BY <2>3 DEF Shell, Command, BanAccount, Unban, Find, BanIP, BanUuid
    <3> QED
      BY <3>1, SameCodes
  <2>4. CASE Crash
    BY <2>4, LostCodes
  <2>5. ASSUME NEW c \in Conns, SignupTimeout(c) PROVE Codes'
    BY <2>5, TimeoutCodes
  <2>6. CASE UNCHANGED vars
    BY <2>6, SameCodes DEF vars
  <2> QED
    BY <2>1, <2>2, <2>3, <2>4, <2>5, <2>6 DEF Next
<1>3. Inv /\ Codes => SameCipher
  <2> SUFFICES ASSUME Inv, Codes, NEW c \in Conns
               PROVE  Decoded(conn[c])
    BY DEF SameCipher, Decoded
  <2>1. conn[c] \in ConnType /\ Agree(conn[c])
    BY DEF Inv, Types, Codes
  <2> QED
    BY <2>1, AgreeDecodes
<1> QED
  BY <1>1, <1>2, <1>3, Always, PTL DEF Spec

=============================================================================
