------------------------------ MODULE Admission ------------------------------
(***************************************************************************)
(* How a connection becomes a player: Server::processNewConnection and     *)
(* processRequest (src/server/server.cpp), AuthManager (src/server/        *)
(* auth.cpp), ClientSocket with its cipher (src/network/client_socket.cpp),*)
(* the client's half of the handshake (src/client/client.cpp,              *)
(* lua/client/client.lua), and the bans of the shell (src/server/shell.cpp)*)
(* that are given in another thread meanwhile.                             *)
(*                                                                         *)
(* processRequest is cut where it reads or writes the database, because    *)
(* the shell does so too and because the server may crash there.  What     *)
(* players do in rooms is RoomLifecycle; here a player is in the lobby or  *)
(* in a running game.                                                      *)
(***************************************************************************)
EXTENDS Integers, Sequences, FiniteSets

CONSTANTS
  Users, Devices,  \* accounts; a device has one IP address and one uuid
  Conns,           \* connections ever made
  Capacity,        \* capacity of the configuration
  MaxCommands,     \* bound: commands of the shell
  MaxCrashes       \* bound: crashes of the server

ASSUME AdmissionConstants ==
  /\ IsFiniteSet(Conns) /\ Conns = 1..Cardinality(Conns)
  /\ "none" \notin Devices
  /\ {Capacity, MaxCommands, MaxCrashes} \subseteq Nat

VARIABLES
  conn,     \* a connection: its two sockets and what is between them
  player,   \* Server.players and the sockets of the players
  db,       \* userinfo, usergameinfo, uuidinfo, banuuid, banip
  request,  \* processRequest, where it is
  shell,    \* the command of the shell, where it is
  kicks,    \* signals `kicked' posted to the main thread
  slipped,  \* connections whose user was banned after he had been looked up,
            \* and before he was in (history)
  count     \* how often the bounded things have happened

vars == <<conn, player, db, request, shell, kicks, slipped, count>>

Nobody == 0
NoDevice == "none"
\* setup: the version or the MD5 is not the server's, the password is wrong, or
\* all is good.
Setups == {"old", "unfit", "wrong", "good"}
NoConn == [st |-> "none", user |-> "none", device |-> NoDevice, setup |-> "good",
           timer |-> FALSE, serverKey |-> FALSE, clientKey |-> FALSE,
           toClient |-> <<>>, toServer |-> <<>>]
Absent    == [state |-> "none", conn |-> Nobody, inGame |-> FALSE]
NoRequest == [at |-> "idle", conn |-> Nobody, banned |-> FALSE]
NoCommand == [todo |-> <<>>, user |-> "none"]

Init ==
  /\ conn = [c \in Conns |-> NoConn]
  /\ player = [u \in Users |-> Absent]
  /\ db = [users |-> {}, gameinfo |-> {}, banned |-> {}, banuuid |-> {},
           banip |-> {}, uuid |-> [u \in Users |-> NoDevice],
           ip |-> [u \in Users |-> NoDevice]]
  /\ request = NoRequest /\ shell = NoCommand
  /\ kicks = {} /\ slipped = {}
  /\ count = [conns |-> 0, commands |-> 0, crashes |-> 0]

-----------------------------------------------------------------------------
(* Sockets.  A message is written as it is when its sender has no key yet.  *)

Message(what, key) == [what |-> what, coded |-> key]
ToClient(k, what)  == [k EXCEPT !.toClient = Append(@, Message(what, k.serverKey))]
ToServer(k, what)  == [k EXCEPT !.toServer = Append(@, Message(what, k.clientKey))]

\* disconnectFromHost of the server: what was written still arrives, but what
\* the client does about it is lost.  The timer is not stopped.
Close(k)      == [NoConn EXCEPT !.st = "closed", !.timer = k.timer,
                                !.clientKey = k.clientKey, !.toClient = k.toClient]
Refuse(k, what) == Close(ToClient(k, what))
\* The connection is gone: both sides forget the key.
Gone(k)       == [NoConn EXCEPT !.st = "closed", !.timer = k.timer]

Connected(c)  == conn[c].st \notin {"none", "closed"}
User(c)       == conn[c].user
Requests(at)  == request.at = at
MainFree      == Requests("idle")

\* A player without a connection stays in a running game only.
Unplugged(p) == IF p.inGame THEN [p EXCEPT !.state = "offline", !.conn = Nobody]
                 ELSE Absent
\* kick().  With bytes unsent the socket is not disconnected at once, and the
\* signal finds a player who has let go of it: he stays in the lobby.
KickedNow(p, flushed) ==
  IF flushed \/ p.conn = Nobody THEN Unplugged(p)
  ELSE [p EXCEPT !.state = "offline", !.conn = Nobody]
\* What was posted to a deleted player is dropped.
DropPosted    == kicks' = {u \in kicks : player'[u].state # "none"}

-----------------------------------------------------------------------------
(* The server.                                                              *)

\* mutant: nobody waits for the Setup
NewConnectionUntimed(u, d, setup) ==
  /\ MainFree /\ count.conns < Cardinality(Conns)
  /\ conn' = [conn EXCEPT ![count.conns + 1] =
       [ToClient([NoConn EXCEPT !.user = u, !.device = d, !.setup = setup],
                "NetworkDelayTest")
        EXCEPT !.st = "greeted"]]
  /\ count' = [count EXCEPT !.conns = @ + 1]
  /\ UNCHANGED <<player, db, request, shell, kicks, slipped>>
\* processNewConnection: bans of the address and the capacity are asked now
\* and not again.
NewConnection(u, d, setup) ==
  /\ MainFree /\ count.conns < Cardinality(Conns)
  /\ LET c == count.conns + 1
         k == [NoConn EXCEPT !.user = u, !.device = d, !.setup = setup]
         full == Cardinality({v \in Users : player[v].state # "none"}) >= Capacity
     IN conn' = [conn EXCEPT ![c] =
          IF d \in db.banip \/ full THEN Refuse(k, "ErrorDlg")
          ELSE [ToClient(k, "NetworkDelayTest") EXCEPT !.st = "greeted",
                                                      !.timer = TRUE]]
  /\ count' = [count EXCEPT !.conns = @ + 1]
  /\ UNCHANGED <<player, db, request, shell, kicks, slipped>>

\* timerSignup: 30 seconds without a message.
SignupTimeout(c) ==
  /\ MainFree /\ conn[c].timer
  /\ conn' = [conn EXCEPT ![c] = [Close(@) EXCEPT !.timer = FALSE]]
  /\ UNCHANGED <<player, db, request, shell, kicks, slipped, count>>

\* The first message is the Setup; it stops the timer.
ReceiveSetup(c) ==
  /\ MainFree /\ conn[c].st = "greeted" /\ conn[c].toServer # <<>>
  /\ conn' = [conn EXCEPT ![c].toServer = Tail(@), ![c].timer = FALSE,
                          ![c].st = "request"]
  /\ request' = [NoRequest EXCEPT !.at = "version", !.conn = c]
  /\ UNCHANGED <<player, db, shell, kicks, slipped, count>>

End(c, what) ==
  /\ conn' = [conn EXCEPT ![c] = Refuse(@, what)]
  /\ request' = NoRequest

CheckClientVersion ==
  /\ Requests("version")
  /\ IF conn[request.conn].setup # "old"
     THEN request' = [request EXCEPT !.at = "device"] /\ UNCHANGED conn
     ELSE End(request.conn, "ErrorDlg")
  /\ UNCHANGED <<player, db, shell, kicks, slipped, count>>

\* Banned devices, and the MD5.
CheckDevice ==
  /\ Requests("device")
  /\ LET c == request.conn IN
     IF conn[c].setup # "unfit" /\ conn[c].device \notin db.banuuid
     THEN request' = [request EXCEPT !.at = "key"] /\ UNCHANGED conn
     ELSE End(c, "ErrorMsg")
  /\ UNCHANGED <<player, db, shell, kicks, slipped, count>>

\* mutant: the key is installed before the client is told to
InstallFirst ==
  /\ Requests("key")
  /\ LET c == request.conn IN
     conn' = [conn EXCEPT ![c] = ToClient([@ EXCEPT !.serverKey = TRUE], "InstallKey")]
  /\ request' = [request EXCEPT !.at = "account"]
  /\ UNCHANGED <<player, db, shell, kicks, slipped, count>>
\* The client is told to use its key from now on, and so does the server.
InstallKey ==
  /\ Requests("key")
  /\ LET c == request.conn IN
     conn' = [conn EXCEPT ![c] = [ToClient(@, "InstallKey") EXCEPT !.serverKey = TRUE]]
  /\ request' = [request EXCEPT !.at = "account"]
  /\ UNCHANGED <<player, db, shell, kicks, slipped, count>>

\* queryUserInfo: an unknown name is registered in two statements.
QueryUserInfo ==
  /\ Requests("account")
  /\ LET u == User(request.conn) IN
     IF u \in db.users
     THEN /\ request' = [request EXCEPT !.at = "password",
                                        !.banned = u \in db.banned]
          /\ UNCHANGED db
     ELSE /\ db' = [db EXCEPT !.users = @ \cup {u},
                              !.ip[u] = conn[request.conn].device]
          /\ request' = [request EXCEPT !.at = "register"]
  /\ UNCHANGED <<conn, player, shell, kicks, slipped, count>>

\* The row is read back, then the second INSERT.
RegisterGameInfo ==
  /\ Requests("register")
  /\ db' = [db EXCEPT !.gameinfo = @ \cup {User(request.conn)}]
  /\ request' = [request EXCEPT !.at = "password",
                                !.banned = User(request.conn) \in db.banned]
  /\ UNCHANGED <<conn, player, shell, kicks, slipped, count>>

\* The player comes back on connection c: into his game, or, if he is in the
\* lobby (see kick), only to be kicked; then he may stay there offline again.
Reconnect(cs, u, c) ==
  LET back == [player[u] EXCEPT !.state = "online", !.conn = c]
  IN IF player[u].inGame
     THEN /\ conn' = [cs EXCEPT ![c] = [ToClient(@, "Setup") EXCEPT !.st = "player"]]
          /\ player' = [player EXCEPT ![u] = back]
     ELSE /\ conn' = [cs EXCEPT ![c] = Refuse(@, "ErrorMsg")]
          /\ \E flushed \in BOOLEAN :
               player' = [player EXCEPT ![u] = KickedNow(back, flushed)]

\* mutant: whoever is online stays so
CheckPasswordOnly(flushed) ==
  /\ Requests("password")
  /\ IF request.banned \/ conn[request.conn].setup = "wrong"
     THEN End(request.conn, "ErrorDlg")
     ELSE request' = [request EXCEPT !.at = "login"] /\ UNCHANGED conn
  /\ UNCHANGED <<db, player, kicks, shell, slipped, count>>
\* Bans, the password, and the other login of the same user.
CheckPassword(flushed) ==
  /\ Requests("password")
  /\ LET c == request.conn
         u == User(c)
         o == player[u].conn
         old == [conn EXCEPT ![o] = Refuse(@, "ErrorDlg")]
     IN \/ /\ request.banned \/ conn[c].setup = "wrong"
           /\ End(c, "ErrorDlg") /\ UNCHANGED player
        \/ /\ ~request.banned /\ conn[c].setup = "good"
           /\ \/ /\ player[u].state = "none"
                 /\ request' = [request EXCEPT !.at = "login"]
                 /\ UNCHANGED <<conn, player>>
              \/ /\ player[u].state = "offline"
                 /\ Reconnect(conn, u, c) /\ request' = NoRequest
              \/ /\ player[u].state = "online"
                 /\ request' = NoRequest
                 /\ IF KickedNow(player[u], flushed).state = "offline"
                    THEN Reconnect(old, u, c)
                    ELSE /\ conn' = [old EXCEPT ![c] = Refuse(@, "ErrorDlg")]
                         /\ player' = [player EXCEPT ![u] = Absent]
  /\ DropPosted
  /\ UNCHANGED <<db, shell, slipped, count>>

\* mutant: it only updates rows
RecordLoginOnly ==
  /\ Requests("login")
  /\ LET u == User(request.conn)
         d == conn[request.conn].device
     IN db' = [db EXCEPT !.ip[u] = d, !.uuid[u] = d]
  /\ request' = [request EXCEPT !.at = "insert"]
  /\ UNCHANGED <<conn, player, shell, kicks, slipped, count>>
\* The transaction that records the login, and makes up for a registration
\* that was cut short.
RecordLogin ==
  /\ Requests("login")
  /\ LET u == User(request.conn)
         d == conn[request.conn].device
     IN db' = [db EXCEPT !.ip[u] = d, !.uuid[u] = d, !.gameinfo = @ \cup {u}]
  /\ request' = [request EXCEPT !.at = "insert"]
  /\ UNCHANGED <<conn, player, shell, kicks, slipped, count>>

InsertPlayer ==
  /\ Requests("insert")
  /\ LET c == request.conn IN
     /\ player' = [player EXCEPT ![User(c)] =
                     [state |-> "online", conn |-> c, inGame |-> FALSE]]
     /\ conn' = [conn EXCEPT ![c] = [ToClient(@, "Setup") EXCEPT !.st = "player"]]
  /\ request' = NoRequest
  /\ UNCHANGED <<db, shell, kicks, slipped, count>>

\* Something arrives from a player.
ServerReads(c) ==
  /\ MainFree /\ conn[c].st = "player" /\ conn[c].toServer # <<>>
  /\ conn' = [conn EXCEPT ![c].toServer = Tail(@)]
  /\ UNCHANGED <<player, db, request, shell, kicks, slipped, count>>

\* The client hangs up or the network fails.
Drop(c) ==
  /\ MainFree /\ Connected(c)
  /\ conn' = [conn EXCEPT ![c] = Gone(@)]
  /\ player' = [u \in Users |-> IF player[u].conn = c THEN Unplugged(player[u])
                                ELSE player[u]]
  /\ DropPosted
  /\ UNCHANGED <<db, request, shell, slipped, count>>

\* The main thread gets a posted `kicked'.
Kicked(u, flushed) ==
  /\ MainFree /\ u \in kicks
  /\ LET o == player[u].conn IN
     conn' = [c \in Conns |-> IF c = o THEN Close(conn[c]) ELSE conn[c]]
  /\ player' = [player EXCEPT ![u] = KickedNow(@, flushed)]
  /\ kicks' = kicks \ {u}
  /\ UNCHANGED <<db, request, shell, slipped, count>>

\* Games begin with those in the lobby, and end.
GameStarts(u) ==
  /\ MainFree /\ player[u].state = "online" /\ ~player[u].inGame
  /\ player' = [player EXCEPT ![u].inGame = TRUE]
  /\ UNCHANGED <<conn, db, request, shell, kicks, slipped, count>>
GameOver(u) ==
  /\ MainFree /\ player[u].inGame
  /\ player' = [player EXCEPT ![u] = IF @.state = "offline" THEN Absent
                                     ELSE [@ EXCEPT !.inGame = FALSE]]
  /\ DropPosted
  /\ UNCHANGED <<conn, db, request, shell, slipped, count>>

-----------------------------------------------------------------------------
(* The client.                                                              *)

\* pubEncrypt makes the key and sends it along with the password, encrypted for
\* the server; it is not in use before InstallKey.
SendSetupPacket(k) == ToServer(k, "Setup")
InstallMyKey(k)    == [k EXCEPT !.clientKey = TRUE]

Handled(k, what) ==
  CASE what = "NetworkDelayTest" -> SendSetupPacket(k)
    [] what = "InstallKey"       -> InstallMyKey(k)
    [] what = "Setup"            -> ToServer(k, "RefreshRoomList")
    [] OTHER                     -> k

Received(k) == Handled([k EXCEPT !.toClient = Tail(@)], Head(k.toClient).what)
ClientReads(c) ==
  /\ Connected(c) /\ conn[c].toClient # <<>>
  /\ conn' = [conn EXCEPT ![c] = Received(@)]
  /\ UNCHANGED <<player, db, request, shell, kicks, slipped, count>>

-----------------------------------------------------------------------------
(* The shell, a thread of its own.                                          *)

Commands == { <<"account", "find", "uuid", "find">>,   \* ban
              <<"unaccount", "unuuid">>,               \* unban
              <<"ip", "find">>, <<"unip">>,            \* banip, unbanip
              <<"uuid", "find">>, <<"unuuid">>,        \* banuuid, unbanuuid
              <<"find">> }                             \* kick

Command(u, todo) ==
  /\ shell.todo = <<>> /\ count.commands < MaxCommands
  /\ u \in db.users
  /\ shell' = [todo |-> todo, user |-> u]
  /\ count' = [count EXCEPT !.commands = @ + 1]
  /\ UNCHANGED <<conn, player, db, request, kicks, slipped>>

Doing(step) == shell.todo # <<>> /\ Head(shell.todo) = step
Done        == shell' = [shell EXCEPT !.todo = Tail(@)]

\* banAccount: it is looked up no more by a request that is past its lookup.
BanAccount ==
  /\ Doing("account") /\ Done
  /\ db' = [db EXCEPT !.banned = @ \cup {shell.user}]
  /\ slipped' = IF request.at \in {"password", "login", "insert"}
                   /\ User(request.conn) = shell.user /\ ~request.banned
                THEN slipped \cup {request.conn} ELSE slipped
  /\ UNCHANGED <<conn, player, request, kicks, count>>

Unban ==
  /\ Doing("unaccount") /\ Done
  /\ db' = [db EXCEPT !.banned = @ \ {shell.user}]
  /\ UNCHANGED <<conn, player, request, kicks, slipped, count>>

\* banIPByName: the address of the last login on record.
BanIP(on) ==
  /\ Doing(IF on THEN "ip" ELSE "unip") /\ Done
  /\ db' = [db EXCEPT !.banip = IF on THEN @ \cup {db.ip[shell.user]}
                                ELSE @ \ {db.ip[shell.user]}]
  /\ UNCHANGED <<conn, player, request, kicks, slipped, count>>

\* banUuidByName: a user who never got in has no device on record.
BanUuid(on) ==
  /\ Doing(IF on THEN "uuid" ELSE "unuuid")
  /\ LET d == db.uuid[shell.user] IN
     IF d = NoDevice
     THEN shell' = [shell EXCEPT !.todo = <<>>] /\ UNCHANGED db
     ELSE Done /\ db' = [db EXCEPT !.banuuid = IF on THEN @ \cup {d} ELSE @ \ {d}]
  /\ UNCHANGED <<conn, player, request, kicks, slipped, count>>

\* mutant: kick() is called by the shell only for those in the lobby
FindInLobby ==
  /\ Doing("find") /\ Done
  /\ kicks' = IF player[shell.user].state # "none" /\ ~player[shell.user].inGame
              THEN kicks \cup {shell.user} ELSE kicks
  /\ UNCHANGED <<conn, player, db, request, slipped, count>>
\* findPlayer, and `kicked' posted to the thread of the player.
Find ==
  /\ Doing("find") /\ Done
  /\ kicks' = IF player[shell.user].state # "none" THEN kicks \cup {shell.user}
              ELSE kicks
  /\ UNCHANGED <<conn, player, db, request, slipped, count>>

-----------------------------------------------------------------------------
\* The server crashes and is started again; the database is what was committed.
Crash ==
  /\ count.crashes < MaxCrashes
  /\ conn' = [c \in Conns |-> IF conn[c].st = "none" THEN NoConn
                              ELSE [Gone(conn[c]) EXCEPT !.timer = FALSE]]
  /\ player' = [u \in Users |-> Absent]
  /\ request' = NoRequest /\ shell' = NoCommand /\ kicks' = {}
  /\ count' = [count EXCEPT !.crashes = @ + 1]
  /\ UNCHANGED <<db, slipped>>

Answers ==
  \/ CheckClientVersion \/ CheckDevice \/ InstallKey \/ QueryUserInfo
  \/ RegisterGameInfo \/ \E flushed \in BOOLEAN : CheckPassword(flushed)
  \/ RecordLogin \/ InsertPlayer
Server ==
  \/ \E c \in Conns : ReceiveSetup(c) \/ ServerReads(c)
  \/ Answers
  \/ \E u \in Users, flushed \in BOOLEAN : Kicked(u, flushed)
Clients ==
  \/ \E u \in Users, d \in Devices, setup \in Setups :
       NewConnection(u, d, setup)
  \/ \E c \in Conns : ClientReads(c) \/ Drop(c)
  \/ \E u \in Users : GameStarts(u) \/ GameOver(u)
Shell ==
  \/ \E u \in Users, todo \in Commands : Command(u, todo)
  \/ BanAccount \/ Unban \/ Find
  \/ \E on \in BOOLEAN : BanIP(on) \/ BanUuid(on)

Next == Server \/ Clients \/ Shell \/ Crash \/ \E c \in Conns : SignupTimeout(c)

\* The main thread runs its event loop, and the timer expires.
Fairness == /\ WF_vars(Answers) /\ \A c \in Conns : WF_vars(ReceiveSetup(c))
            /\ \A c \in Conns : WF_vars(SignupTimeout(c))

Spec == Init /\ [][Next]_vars /\ Fairness

-----------------------------------------------------------------------------
Messages == [what : {"NetworkDelayTest", "InstallKey", "Setup", "ErrorDlg",
                     "ErrorMsg", "RefreshRoomList"}, coded : BOOLEAN]
UserIds   == Users \cup {"none"}
DeviceIds == Devices \cup {NoDevice}

\* Types; and the server's tables relate: a player who is online has a
\* connection that is a player's, an account, and a device on record.
TypeOK ==
  /\ conn \in [Conns ->
       [st : {"none", "greeted", "request", "player", "closed"}, user : UserIds,
        device : DeviceIds, setup : Setups, timer : BOOLEAN,
        serverKey : BOOLEAN, clientKey : BOOLEAN,
        toClient : Seq(Messages), toServer : Seq(Messages)]]
  /\ player \in [Users -> [state : {"none", "online", "offline"},
                           conn : Conns \cup {Nobody}, inGame : BOOLEAN]]
  /\ db \in [users : SUBSET Users, gameinfo : SUBSET Users, banned : SUBSET Users,
             banuuid : SUBSET Devices, banip : SUBSET Devices,
             uuid : [Users -> DeviceIds], ip : [Users -> DeviceIds]]
  /\ request \in [at : {"idle", "version", "device", "key", "account", "register",
                        "password", "login", "insert"},
                  conn : Conns \cup {Nobody}, banned : BOOLEAN]
  /\ shell.user \in UserIds
  /\ \A u \in Users :
       /\ player[u].state = "online" <=> player[u].conn # Nobody
       /\ player[u].state # "none" => u \in db.users /\ db.uuid[u] # NoDevice
  /\ MainFree <=> request.conn = Nobody
  /\ kicks \subseteq Users /\ slipped \subseteq Conns
  /\ count \in [conns : Nat, commands : Nat, crashes : Nat]

\* Each side decodes what the other has encoded, although both change over to
\* the key on their own: a message to the client is coded exactly if the client
\* has its key or an InstallKey is under way before it; nothing is under way to
\* the server when it installs the key (ClientSocket::aesEnc, aesDec; auth.cpp
\* sends InstallKey first and installs the key after it).
SameCipher ==
  \A c \in Conns :
    /\ \A i \in DOMAIN conn[c].toClient :
         conn[c].toClient[i].coded <=>
           \/ conn[c].clientKey
           \/ \E j \in 1..(i - 1) : conn[c].toClient[j].what = "InstallKey"
    /\ \A i \in DOMAIN conn[c].toServer :
         conn[c].toServer[i].coded <=> conn[c].serverKey

\* Once `ban' has run, a banned account that is online has been told to leave,
\* unless it got in on an answer of the database that was old by then
\* (shell.cpp banAccount against auth.cpp and processRequest).
BansHold ==
  shell.todo = <<>> =>
    \A u \in db.banned : player[u].state = "online" =>
      u \in kicks \/ player[u].conn \in slipped

\* A user is logged in once: the server takes exactly the connection of the
\* online player for a player's, however often he logs in and whatever is left
\* of his earlier logins (checkPassword, kick, reconnect).
OneLogin ==
  \A c \in Conns : conn[c].st = "player" <=>
    \E u \in Users : player[u].state = "online" /\ player[u].conn = c /\ User(c) = u

\* Whoever is in has his row in usergameinfo, which is read as he is set up,
\* even if the server crashed between the two statements that registered him.
AdmittedHasRows == \A u \in Users : player[u].state # "none" => u \in db.gameinfo

\* A connection that was greeted is a player's or closed in the end: a client
\* that stays silent is not waited for beyond 30 seconds.
HandshakeEnds ==
  \A c \in Conns : conn[c].st \in {"greeted", "request"} ~> conn[c].st \in {"player", "closed"}

=============================================================================
