----------------------------- MODULE RoomRequest -----------------------------
(***************************************************************************)
(* How a room asks its players (lua/server/network.lua), together with     *)
(* what wakes it up: ServerPlayer and Room on the main thread              *)
(* (src/server/serverplayer.cpp, src/server/room.cpp) and the scheduler on *)
(* the room thread (lua/server/scheduler.lua, src/server/scheduler.cpp).   *)
(*                                                                         *)
(* Request:ask runs as a coroutine on the room thread.  Between two yields *)
(* it is not interrupted by other Lua code, but the main thread goes on:   *)
(* it records replies, handles disconnections and reconnections, and posts *)
(* wake-ups.  Every access of the coroutine to what the main thread also   *)
(* writes (state, thinking, the Router's reply) is a step of its own.      *)
(*                                                                         *)
(* The Router is reduced to what Router.tla establishes for one room       *)
(* thread: a recorded reply answers the request the player was last sent.  *)
(* What happens between two requests (the game) is `pc = "game"'.          *)
(***************************************************************************)
EXTENDS Integers, Sequences, FiniteSets, SequencesExt

CONSTANTS
  Seats,         \* the seats of the table, 1..k: the Lua ServerPlayers
  Users,         \* the human players: the C++ ServerPlayers
  Bots,          \* the robots, C++ ServerPlayers as well
  Controller,    \* Controller[s]: player.serverplayer of seat s
  Questions,     \* the lists of seats a Request may be made to
  Winners,       \* Request.n: replies that end the request
  AcceptCancel,  \* Request.accept_cancel
  Timeout,       \* Request.timeout, in seconds
  MaxAsks,       \* bound: requests
  MaxDelays,     \* bound: Room:delay calls made by the game
  MaxDrops,      \* bound: lost connections
  MaxSurrenders, \* bound: surrender requests
  MaxWaste       \* a player who has not answered this often is kicked (3)

Players == Users \cup Bots

ASSUME ConstantsAssumption ==
  /\ Seats = 1..Cardinality(Seats)
  /\ Users \cap Bots = {}
  /\ Controller \in [Seats -> Players]
  /\ \A Q \in Questions : Q \in Seq(Seats) /\ Q # <<>> /\ IsInjective(Q)
  /\ {Winners, Timeout, MaxWaste} \subseteq Nat \ {0}
  /\ AcceptCancel \in BOOLEAN
  /\ {MaxAsks, MaxDelays, MaxDrops, MaxSurrenders} \subseteq Nat

NoSeat   == 0
Nothing  == [ask |-> 0, seat |-> NoSeat]    \* no request is expected
NotReady == [ask |-> 0, seat |-> NoSeat, value |-> "__notready"]
Nil      == [by |-> "nil"]                  \* result[player.id] = nil

\* A wake-up carries its reason; `of' is history: the request whose timer it
\* was, or the number of the delay that is over.
Wake(reason, of) == [reason |-> reason, of |-> of]
NoWake == Wake("unknown", 0)

VARIABLES
  pc,             \* where the coroutine is
  \* Request, and the locals of ask:
  asked,          \* Request.players
  players,        \* the ones still to answer
  result, winners,
  send_success,   \* players the request was sent to while they were online
  refused,        \* players that were not online then (send_success = false)
  pending_requests,
  ai_started,     \* ai_start_time ~= nil
  changed, resume_reason, cursor,
  toSend, back,   \* _sendPacket: seats to do, and where it returns to
  view,           \* the seat a player sees (player._observers)
  hasSurrendered, timewaste_count,
  \* shared with the main thread:
  state, thinking, m_reply,
  expected,       \* the request the client of a player is looking at
  timer,          \* request_timer is armed
  \* main thread:
  main,           \* the handler being executed and its player
  relayed,        \* timeouts of request timers posted to the main thread
  kicks,          \* emitKick signals posted to the main thread
  wake,           \* wake-ups posted to the room thread
  delays,         \* QTimer::singleShot of Scheduler::doDelay
  \* time, in half seconds:
  age, parity,    \* since ask began, and whether it began on a half second
  \* counters and history:
  ask,            \* number of the current request
  delayed, drops, surrenders,
  order,          \* the seats of the current request in the order of replies
  dropped,        \* players that lost their connection during it
  unheard         \* requests to a seat since it last answered one in time

request  == <<asked, players, result, winners, send_success, refused,
              pending_requests, ai_started, changed, resume_reason, cursor,
              toSend, back, view>>
game     == <<hasSurrendered, timewaste_count, unheard>>
shared   == <<state, thinking, m_reply, expected, timer>>
mainVars == <<main, relayed, kicks, wake, delays>>
clock    == <<age, parity>>
history  == <<ask, delayed, drops, surrenders, order, dropped>>
vars == <<pc, request, game, shared, mainVars, clock, history>>

Online(u)  == state[u] = "Online"
NoHuman    == \A s \in Seats : ~Online(Controller[s])   \* Room:checkNoHuman
Sent(s)    == Controller[s] \in send_success
Idle       == <<"idle", "none">>

MaxAge  == 2 * Timeout + 2              \* Bound: time stops to matter here
Elapsed == (parity + age) \div 2        \* os.time() - currentTime
TimedOut == Elapsed >= Timeout \/ resume_reason.reason = "request_timer"

Init ==
  /\ pc = "game"
  /\ asked = <<>> /\ players = <<>> /\ winners = <<>>
  /\ result = [s \in Seats |-> Nil]
  /\ send_success = {} /\ refused = {}
  /\ pending_requests = [u \in Players |-> <<>>]
  /\ ai_started = FALSE /\ changed = FALSE
  /\ resume_reason = NoWake /\ cursor = 0
  /\ toSend = <<>> /\ back = "head"
  /\ view \in [Players -> Seats \cup {NoSeat}]
  /\ \A u \in Players :
       LET own == {s \in Seats : Controller[s] = u} IN
         view[u] = IF own = {} THEN NoSeat ELSE CHOOSE s \in own : \A r \in own : s <= r
  /\ hasSurrendered = FALSE
  /\ timewaste_count = [s \in Seats |-> 0] /\ unheard = [s \in Seats |-> 0]
  /\ state = [u \in Players |-> IF u \in Users THEN "Online" ELSE "Robot"]
  /\ thinking = [u \in Players |-> FALSE]
  /\ m_reply = [u \in Players |-> NotReady]
  /\ expected = [u \in Players |-> Nothing]
  /\ timer = FALSE
  /\ main = Idle /\ relayed = <<>> /\ kicks = {} /\ wake = <<>> /\ delays = {}
  /\ age = 0 /\ parity = 0
  /\ ask = 0 /\ delayed = 0 /\ drops = 0 /\ surrenders = 0
  /\ order = <<>> /\ dropped = {}

-----------------------------------------------------------------------------
(* Request:ask, up to the first poll.                                       *)

\* setRequestTimer; everybody asked stops thinking.
StartAsk(Q, armed) ==
  /\ pc = "game" /\ ask < MaxAsks
  /\ pc' = "send" /\ back' = "head"
  /\ asked' = Q /\ players' = Q /\ toSend' = Q
  /\ result' = [s \in Seats |-> Nil] /\ winners' = <<>>
  /\ send_success' = {} /\ refused' = {}
  /\ pending_requests' = [u \in Players |-> <<>>]
  /\ ai_started' = FALSE /\ changed' = FALSE
  /\ resume_reason' = NoWake /\ cursor' = 0
  /\ thinking' = [u \in Players |->
                    thinking[u] /\ \A s \in Range(Q) : Controller[s] # u]
  /\ timer' = armed /\ age' = 0 /\ parity' \in {0, 1}
  /\ ask' = ask + 1 /\ order' = <<>> /\ dropped' = {}
  /\ UNCHANGED <<view, game, state, m_reply, expected, mainVars, delayed, drops,
                 surrenders>>

AskUntimed(Q) == StartAsk(Q, FALSE)   \* mutant: no request timer

Ask(Q) == StartAsk(Q, TRUE)

\* _sendPacket.  A player who is still thinking gets the question later; the
\* state is sampled here, the request is sent (or not) in the next step.
SendNow(s) ==
  LET u == Controller[s] IN
    /\ pc' = "request"
    /\ view' = [view EXCEPT ![u] = s]
    /\ send_success' = IF Online(u) THEN send_success \cup {u} ELSE send_success \ {u}
    /\ refused' = IF Online(u) THEN refused \ {u} ELSE refused \cup {u}
    /\ UNCHANGED <<toSend, pending_requests>>

SendLater(s) ==
  /\ pending_requests' = [pending_requests EXCEPT ![Controller[s]] = Append(@, s)]
  /\ toSend' = Tail(toSend)
  /\ UNCHANGED <<pc, view, send_success, refused>>

SendPacket ==
  /\ pc = "send" /\ toSend # <<>>
  /\ LET s == Head(toSend) IN IF thinking[Controller[s]] THEN SendLater(s) ELSE SendNow(s)
  /\ UNCHANGED <<asked, players, result, winners, ai_started, changed,
                 resume_reason, cursor, back, game, shared, mainVars, clock,
                 history>>


\* ServerPlayer::doRequest, which does nothing for a player not online.
DoRequest ==
  /\ pc = "request" /\ pc' = "think"
  /\ LET s == Head(toSend)  u == Controller[s] IN
       IF Online(u)
       THEN /\ m_reply' = [m_reply EXCEPT ![u] = NotReady]
            /\ expected' = [expected EXCEPT ![u] = [ask |-> ask, seat |-> s]]
       ELSE UNCHANGED <<m_reply, expected>>
  /\ UNCHANGED <<request, game, state, thinking, timer, mainVars, clock, history>>

SetThinking ==
  /\ pc = "think" /\ pc' = "send"
  /\ thinking' = [thinking EXCEPT ![Controller[Head(toSend)]] = TRUE]
  /\ toSend' = Tail(toSend)
  /\ UNCHANGED <<asked, players, result, winners, send_success, refused,
                 pending_requests, ai_started, changed, resume_reason, cursor,
                 back, view, game, state, m_reply, expected, timer, mainVars,
                 clock, history>>

SendDone ==
  /\ pc = "send" /\ toSend = <<>> /\ pc' = back
  /\ UNCHANGED <<request, game, shared, mainVars, clock, history>>

-----------------------------------------------------------------------------
(* The polling loop.                                                        *)

\* Once the time is up, everyone the request was sent to is given up; when only
\* robots are left the AI may answer.
PollAll(left, reply) ==
  /\ pc = "head"
  /\ IF hasSurrendered
     THEN pc' = "finish" /\ UNCHANGED <<players, ai_started, changed, cursor>>
     ELSE /\ players' = left
          /\ ai_started' = (ai_started \/ reply)
          /\ changed' = FALSE
          /\ cursor' = Len(left)
          /\ pc' = "poll"
  /\ UNCHANGED <<asked, result, winners, send_success, refused, pending_requests,
                 resume_reason, toSend, back, view, game, shared, mainVars, clock,
                 history>>

\* A list without some of its members.
Without(list, gone) ==
  LET kept[k \in 0..Len(list)] ==
        IF k = 0 THEN <<>>
        ELSE IF list[k] \in gone THEN kept[k - 1] ELSE Append(kept[k - 1], list[k])
  IN kept[Len(list)]

Left == IF TimedOut THEN Without(players, {s \in Seats : Sent(s)}) ELSE players

RobotsOnly(seats) ==
  \A k \in DOMAIN seats : ~Online(Controller[seats[k]]) \/ ~Sent(seats[k])

HeadEager == PollAll(Left, \E k \in DOMAIN Left : ~Online(Controller[Left[k]]))
                              \* mutant: one robot is enough

LoopHead == PollAll(Left, RobotsOnly(Left))

\* One poll takes the next seat from the last one down.
Seat == players[cursor]

\* The rest of the request is called off when there are enough winners.
TakeAnswer(s, answer, n, next) ==
  LET rest == RemoveAt(players, cursor)
      won  == answer.value # "__cancel" \/ AcceptCancel
      wins == IF won THEN Append(winners, s) ELSE winners
      over == won /\ Len(wins) >= n
  IN /\ winners' = wins
     /\ players' = IF over THEN <<>> ELSE rest
     /\ result' = [r \in Seats |->
          CASE r = s -> answer
            [] over /\ r # s /\ Contains(rest, r) /\ result[r] = Nil
                 -> [by |-> "race", value |-> "__failed_in_race"]
            [] OTHER -> result[r]]
     /\ cursor' = IF over THEN 0 ELSE next
     /\ changed' = TRUE

AnsweredStay(s, answer, n) == TakeAnswer(s, answer, n, cursor)  \* mutant: the
                               \* loop does not follow the removal from players

Answered(s, answer, n) == TakeAnswer(s, answer, n, cursor - 1)

Skip == cursor' = cursor - 1 /\ UNCHANGED <<players, result, winners, changed>>

\* _checkReply of a seat whose player is online and was sent the request; one
\* who looks at another seat is not polled.
PollIf(ready) ==
  /\ pc = "poll" /\ cursor > 0
  /\ Online(Controller[Seat]) /\ Sent(Seat)
  /\ IF ready
     THEN pc' = "wait" /\ UNCHANGED <<players, result, winners, changed, cursor>>
     ELSE Skip /\ UNCHANGED pc
  /\ UNCHANGED <<asked, send_success, refused, pending_requests, ai_started,
                 resume_reason, toSend, back, view, game, shared, mainVars, clock,
                 history>>

PollBlind == PollIf(TRUE)  \* mutant: whatever is looked at

PollHuman == PollIf(view[Controller[Seat]] = Seat)

\* _checkReply of any other seat: the game is over when no human is left, the
\* AI answers if it may.
RobotSeat ==
  pc = "poll" /\ cursor > 0 /\ ~(Online(Controller[Seat]) /\ Sent(Seat))

PollRobot ==
  /\ RobotSeat /\ ~NoHuman
  /\ IF ai_started
     THEN \E v \in {"ok", "__cancel"} :
            Answered(Seat, [by |-> "ai", value |-> v, raw |-> FALSE], Winners)
     ELSE Skip
  /\ UNCHANGED <<pc, asked, send_success, refused, pending_requests, ai_started,
                 resume_reason, toSend, back, view, game, shared, mainVars, clock,
                 history>>

PollNobody ==
  /\ RobotSeat /\ NoHuman
  /\ pc' = "over" /\ timer' = FALSE
  /\ UNCHANGED <<request, game, state, thinking, m_reply, expected, mainVars,
                 clock, history>>

\* ServerPlayer::waitForReply(0): the state is read again, a player who left
\* meanwhile has cancelled.  The next request of this player is sent at once.
\* What was read after the AI started is not decoded.
WaitForReply(n) ==
  /\ pc = "wait"
  /\ LET u == Controller[Seat]
         r == IF Online(u) THEN m_reply[u]
              ELSE [NotReady EXCEPT !.value = "__cancel"]
     IN IF r.value = "__notready"
        THEN /\ Skip /\ pc' = "poll"
             /\ UNCHANGED <<thinking, pending_requests, toSend, back>>
        ELSE /\ thinking' = [thinking EXCEPT ![u] = FALSE]
             /\ Answered(Seat, [by |-> "human", value |-> r.value, ask |-> r.ask,
                                seat |-> r.seat,
                                raw |-> ai_started /\ r.value # "__cancel"], n)
             /\ back' = "poll"
             /\ IF pending_requests[u] = <<>>
                THEN pc' = "poll" /\ UNCHANGED <<toSend, pending_requests>>
                ELSE /\ pc' = "send"
                     /\ toSend' = <<Head(pending_requests[u])>>
                     /\ pending_requests' = [pending_requests EXCEPT ![u] = Tail(@)]
  /\ UNCHANGED <<asked, send_success, refused, ai_started, resume_reason, view,
                 game, state, m_reply, expected, timer, mainVars, clock, history>>

WaitNoLimit == WaitForReply(Winners + 1)   \* mutant: one winner too many

Wait == WaitForReply(Winners)

\* The conditions under which the loop ends; otherwise it starts again at once
\* if something changed, and yields if not.
PollEnd ==
  /\ pc = "poll" /\ cursor = 0
  /\ pc' = IF players = <<>> \/ Len(winners) >= Winners \/ ai_started THEN "finish"
           ELSE IF changed THEN "head" ELSE "waiting"
  /\ UNCHANGED <<request, game, shared, mainVars, clock, history>>

-----------------------------------------------------------------------------
(* The end of the request, delays and wake-ups.                             *)

\* _finish.  A surrender ends the game if the mode names a winner, else it is
\* forgotten.  Answers still missing are replaced by the default reply and
\* counted; MaxWaste in a row and the player is kicked.
GameOver ==
  /\ pc = "finish" /\ hasSurrendered
  /\ pc' = "over" /\ timer' = FALSE
  /\ UNCHANGED <<request, game, state, thinking, m_reply, expected, mainVars,
                 clock, history>>

Normal(answer) ==
  CASE answer = Nil                      -> [by |-> "nobody", value |-> "default"]
    [] answer.by = "race"                -> [by |-> "race", value |-> "default"]
    [] answer.by # "race" /\ answer # Nil
       /\ answer.value = "__cancel"      -> [answer EXCEPT !.value = "default"]
    [] OTHER                             -> answer

\* The answer of the seat was recorded before the request ended; the rest is
\* excepted by WasteIsIdleness.
InTime(s) ==
  /\ Contains(order, s) /\ Controller[s] \notin dropped
  /\ ~TimedOut /\ ~hasSurrendered

FinishAsk(wasted) ==
  /\ pc = "finish"
  /\ hasSurrendered' = FALSE /\ timer' = FALSE
  /\ LET seats == Range(asked)
         kicked == {s \in seats : /\ s \in wasted
                                  /\ timewaste_count[s] + 1 >= MaxWaste
                                  /\ Online(Controller[s])}
     IN /\ thinking' = [u \in Players |->
                          thinking[u] /\ \A s \in seats : Controller[s] # u]
        /\ result' = [s \in Seats |-> IF s \in seats THEN Normal(result[s]) ELSE result[s]]
        /\ timewaste_count' = [s \in Seats |->
             CASE s \notin seats                   -> timewaste_count[s]
               [] s \in seats /\ s \in wasted /\ s \notin kicked -> timewaste_count[s] + 1
               [] OTHER                            -> 0]
        /\ unheard' = [s \in Seats |->
             CASE s \notin seats -> unheard[s]
               [] s \in seats /\ InTime(s) -> 0
               [] OTHER -> unheard[s] + 1]
        /\ kicks' = kicks \cup {Controller[s] : s \in kicked}
  /\ IF ai_started /\ refused # {}   \* make the AI look as if it were thinking
     THEN \/ pc' = "game" /\ UNCHANGED <<delays, delayed>>
          \/ /\ pc' = "delayed" /\ delayed' = delayed + 1
             /\ delays' = delays \cup {delayed'}
     ELSE pc' = "game" /\ UNCHANGED <<delays, delayed>>
  /\ UNCHANGED <<asked, players, winners, send_success, refused, pending_requests,
                 ai_started, changed, resume_reason, cursor, toSend, back, view,
                 state, m_reply, expected, main, relayed, wake, clock, ask, drops,
                 surrenders, order, dropped>>

FinishRace ==   \* mutant: the losers of a race have wasted time
  FinishAsk({s \in Seats : result[s].by \in {"nil", "race"}})

Finish == FinishAsk({s \in Seats : result[s] = Nil})

\* Room:delay, called by the game.
Delay ==
  /\ pc = "game" /\ delayed < MaxDelays
  /\ pc' = "delayed"
  /\ delayed' = delayed + 1 /\ delays' = delays \cup {delayed'}
  /\ UNCHANGED <<request, game, shared, main, relayed, kicks, wake, clock, ask,
                 drops, surrenders, order, dropped>>

\* ResumeRoom: whatever the coroutine yielded for, it goes on.
ResumeRoom(w) ==
  /\ pc \in {"waiting", "delayed"}
  /\ pc' = CASE NoHuman                   -> "over"
             [] ~NoHuman /\ pc = "waiting" -> "head"
             [] OTHER                     -> "game"
  /\ resume_reason' = IF pc = "waiting" THEN w ELSE resume_reason
  /\ timer' = (timer /\ ~NoHuman)
  /\ UNCHANGED <<asked, players, result, winners, send_success, refused,
                 pending_requests, ai_started, changed, cursor, toSend, back, view,
                 timewaste_count, unheard, state, thinking, m_reply, expected, main,
                 relayed, kicks, clock, ask, delayed, drops, order, dropped>>

WakeUp ==
  /\ wake # <<>> /\ wake' = Tail(wake)
  /\ ResumeRoom(Head(wake))
  /\ UNCHANGED <<hasSurrendered, delays, surrenders>>

DelayDone(d) ==
  /\ d \in delays /\ delays' = delays \ {d}
  /\ ResumeRoom(Wake("delay_done", d))
  /\ UNCHANGED <<hasSurrendered, wake, surrenders>>

\* The "surrender" handler of lua/server/request.lua.
Surrender ==
  /\ surrenders < MaxSurrenders /\ surrenders' = surrenders + 1
  /\ hasSurrendered' = TRUE
  /\ ResumeRoom(Wake("nil", 0))
  /\ UNCHANGED <<wake, delays>>

\* request_timer belongs to the room thread, so it goes off while the coroutine
\* is suspended; its slot belongs to Room, which lives in the main thread.
RequestTimer ==
  /\ timer /\ pc = "waiting" /\ age >= 2 * Timeout + 1
  /\ timer' = FALSE /\ relayed' = Append(relayed, ask)
  /\ UNCHANGED <<pc, request, game, state, thinking, m_reply, expected, main,
                 kicks, wake, delays, clock, history>>

-----------------------------------------------------------------------------
(* The main thread.                                                         *)

\* A reply to the expected request: the Router records it unless it is late,
\* then replyReady is handled.  `late' is only known for the current request.
RecordReply(u) ==
  /\ main = Idle /\ Online(u) /\ expected[u] # Nothing
  /\ expected' = [expected EXCEPT ![u] = Nothing]
  /\ \E late \in BOOLEAN, v \in {"ok", "__cancel"} :
       /\ expected[u].ask = ask => late = (age \div 2 > Timeout)
       /\ IF late
          THEN UNCHANGED <<m_reply, main, order>>
          ELSE /\ m_reply' = [m_reply EXCEPT ![u] =
                     [ask |-> expected[u].ask, seat |-> expected[u].seat, value |-> v]]
               /\ main' = <<"replyReady", u>>
               /\ order' = IF expected[u].ask = ask
                           THEN Append(order, expected[u].seat) ELSE order
  /\ UNCHANGED <<pc, request, game, state, thinking, timer, relayed, kicks, wake,
                 delays, clock, ask, delayed, drops, surrenders, dropped>>

\* ServerPlayer::onReplyReady
OnReady(posted) ==
  /\ main[1] = "replyReady" /\ main' = Idle
  /\ thinking' = [thinking EXCEPT ![main[2]] = FALSE]
  /\ wake' = IF posted THEN Append(wake, Wake("reply", 0)) ELSE wake
  /\ UNCHANGED <<pc, request, game, state, m_reply, expected, timer, relayed,
                 kicks, delays, clock, history>>

ReadySilent == OnReady(FALSE)   \* mutant: the room is not woken up

ReplyReady == OnReady(TRUE)

\* ServerPlayer::onDisconnected in a room whose game has started: the room is
\* woken up first, and the player is offline afterwards.  The new client of a
\* player who comes back knows no request to reply to.
WakeIfThinking(u) ==
  wake' = IF thinking[u] THEN Append(wake, Wake("player_disconnect", 0)) ELSE wake

Disconnect(u) ==
  /\ main = Idle /\ Online(u) /\ drops < MaxDrops
  /\ WakeIfThinking(u)
  /\ main' = <<"onDisconnected", u>>
  /\ drops' = drops + 1
  /\ UNCHANGED <<pc, request, game, shared, relayed, kicks, delays, clock, ask,
                 delayed, surrenders, order, dropped>>

Disconnected ==
  /\ main[1] = "onDisconnected" /\ main' = Idle
  /\ state' = [state EXCEPT ![main[2]] = "Offline"]
  /\ expected' = [expected EXCEPT ![main[2]] = Nothing]
  /\ dropped' = dropped \cup {main[2]}
  /\ UNCHANGED <<pc, request, game, thinking, m_reply, timer, relayed, kicks,
                 wake, delays, clock, ask, delayed, drops, surrenders, order>>

\* ServerPlayer::kick.  If bytes are still to be sent, the socket is taken away
\* before it says that it is disconnected.
Kick(u) ==
  /\ main = Idle /\ u \in kicks /\ kicks' = kicks \ {u}
  /\ state' = [state EXCEPT ![u] = "Offline"]
  /\ expected' = [expected EXCEPT ![u] = Nothing]
  /\ WakeIfThinking(u) \/ UNCHANGED wake
  /\ dropped' = dropped \cup {u}
  /\ UNCHANGED <<pc, request, game, thinking, m_reply, timer, main, relayed,
                 delays, clock, ask, delayed, drops, surrenders, order>>

\* ServerPlayer::reconnect
Reconnect(u) ==
  /\ main = Idle /\ state[u] = "Offline"
  /\ state' = [state EXCEPT ![u] = "Online"]
  /\ UNCHANGED <<pc, request, game, thinking, m_reply, expected, timer, mainVars,
                 clock, history>>

\* The slot connected in Room::setRequestTimer
RelayTimer ==
  /\ main = Idle /\ relayed # <<>> /\ relayed' = Tail(relayed)
  /\ wake' = Append(wake, Wake("request_timer", Head(relayed)))
  /\ UNCHANGED <<pc, request, game, shared, main, kicks, delays, clock, history>>

\* Time passes while the request waits: what the coroutine does between two
\* yields takes no time (Bound).
Tick ==
  /\ pc = "waiting" /\ age < MaxAge
  /\ age' = age + 1
  /\ UNCHANGED <<pc, request, game, shared, mainVars, parity, history>>

-----------------------------------------------------------------------------
Coroutine ==
  \/ SendPacket \/ DoRequest \/ SetThinking \/ SendDone
  \/ LoopHead \/ PollHuman \/ PollRobot \/ PollNobody \/ Wait \/ PollEnd
  \/ Finish \/ GameOver

Next ==
  \/ \E Q \in Questions : Ask(Q)
  \/ SendPacket
  \/ DoRequest
  \/ SetThinking
  \/ SendDone
  \/ LoopHead
  \/ PollHuman
  \/ PollRobot
  \/ PollNobody
  \/ Wait
  \/ PollEnd
  \/ Finish
  \/ GameOver
  \/ Delay
  \/ WakeUp
  \/ \E d \in delays : DelayDone(d)
  \/ Surrender
  \/ RequestTimer
  \/ \E u \in Users : RecordReply(u)
  \/ ReplyReady
  \/ \E u \in Users : Disconnect(u)
  \/ Disconnected
  \/ \E u \in Users : Kick(u)
  \/ \E u \in Users : Reconnect(u)
  \/ RelayTimer
  \/ Tick

Spec == Init /\ [][Next]_vars

\* The room thread runs a coroutine that it has resumed until it yields; both
\* event loops deliver what has been posted to them; clocks advance and timers
\* go off.  Nothing is assumed of the players, nor of the game between requests.
FairSpec ==
  /\ Spec
  /\ WF_vars(Coroutine)
  /\ WF_vars(WakeUp)
  /\ WF_vars(RequestTimer)
  /\ WF_vars(ReplyReady) /\ WF_vars(Disconnected) /\ WF_vars(RelayTimer)
  /\ WF_vars(Tick)

-----------------------------------------------------------------------------
(* Properties.                                                              *)

Reasons == {"unknown", "nil", "reply", "player_disconnect", "request_timer",
            "delay_done"}

TypeOK ==
  /\ pc \in {"game", "send", "request", "think", "head", "poll", "wait",
             "waiting", "finish", "delayed", "over"}
  /\ {asked, players, winners, toSend, order} \subseteq Seq(Seats)
  /\ send_success \subseteq Users /\ refused \subseteq Players
  /\ DOMAIN result = Seats
  /\ pending_requests \in [Players -> Seq(Seats)]
  /\ {ai_started, changed, hasSurrendered, timer} \subseteq BOOLEAN
  /\ resume_reason.reason \in Reasons
  /\ \A k \in DOMAIN wake : wake[k].reason \in Reasons
  /\ cursor \in 0..Len(players) /\ back \in {"head", "poll"}
  /\ pc \in {"request", "think"} => toSend # <<>>
  /\ pc = "wait" => cursor > 0
  /\ view \in [Players -> Seats \cup {NoSeat}]
  /\ timewaste_count \in [Seats -> Nat] /\ unheard \in [Seats -> Nat]
  /\ \A u \in Users : state[u] \in {"Online", "Offline"}
  /\ \A u \in Bots : state[u] = "Robot"
  /\ thinking \in [Players -> BOOLEAN]
  /\ main = Idle \/ main \in {"replyReady", "onDisconnected"} \X Users
  /\ kicks \subseteq Users /\ delays \subseteq Nat
  /\ {age, parity, ask, delayed, drops, surrenders} \subseteq Nat

\* Replies are not lost: a room that is suspended in a request, with no wake-up
\* on its way, has polled every reply it could have, except that of a player who
\* lost the connection after replying (reconnecting wakes nobody up).
NoLostReply ==
  pc = "waiting" /\ wake = <<>> /\ main = Idle =>
    \A k \in DOMAIN players :
      LET u == Controller[players[k]] IN
        ~(/\ u \notin dropped /\ Sent(players[k]) /\ view[u] = players[k]
          /\ m_reply[u].value # "__notready")

\* The AI answers only after every human has answered, has left, was not sent
\* the question, or has run out of time (the comment above _checkReply).
AIAnswersLast ==
  \A s \in Seats : result[s].by = "ai" =>
    \A k \in DOMAIN asked :
      LET r == asked[k] IN
        \/ result[r] # Nil
        \/ Controller[r] \in refused \cup dropped \cup Bots
        \/ TimedOut

\* The winners are as many as the request wants at most, each only once, each
\* with an answer; and whoever loses the race has no answer of his own.
RaceIsFair ==
  /\ Len(winners) <= Winners
  /\ IsInjective(winners)
  /\ \A k \in DOMAIN winners :
       result[winners[k]].by \in {"human", "ai"}
  /\ \A s \in Seats : result[s].by = "race" => Len(winners) = Winners

\* Losing a race is not wasting time: whoever is counted as idle has no answer,
\* and the time was up, somebody surrendered, or his connection was lost.  The
\* count goes over requests in a row: a player is kicked only for a seat that
\* has been asked MaxWaste times since it last answered in time.  An answer
\* that is recorded in time and dropped at the deadline counts as idleness
\* (NilMeansNoReply below), so in time means here before the deadline is noticed.
WasteIsIdleness ==
  [][/\ \A s \in Seats :
          /\ timewaste_count'[s] <= unheard'[s]
          /\ timewaste_count'[s] > timewaste_count[s]
               => /\ result[s] = Nil
                  /\ TimedOut \/ hasSurrendered \/ Controller[s] \in dropped
     /\ \A u \in kicks' \ kicks :
          \E s \in Seats : Controller[s] = u /\ unheard'[s] >= MaxWaste]_vars

\* The answer stored for a seat is the one its player gave to this request and
\* for this seat, decoded; if the player's connection held, that is: see README
\* for the two ways in which a reconnection breaks it.
AnswersAreTheirs ==
  \A s \in Seats :
    /\ result[s].by = "human" /\ result[s].value = "ok"
    /\ Controller[s] \notin dropped
    => result[s].ask = ask /\ result[s].seat = s /\ ~result[s].raw

\* A request ends, whatever the players do.
AskEnds == pc \notin {"game", "delayed", "over"} ~> pc \in {"game", "delayed", "over"}

\* Contradicted by the code (see README):

\* result is nil for a player who has not replied at all.
NilMeansNoReply ==
  pc = "finish" /\ ~hasSurrendered =>
    \A k \in DOMAIN order : result[order[k]] # Nil

\* Humans are only given up when the time of this request is up.
NoEarlyTimeout ==
  pc \in {"poll", "wait"} /\ resume_reason.reason = "request_timer"
    => resume_reason.of = ask

\* When only robots are left, the AI answers at once: the room does not wait.
NotWaitingForRobots ==
  ~(/\ pc = "waiting" /\ wake = <<>> /\ main = Idle
    /\ RobotsOnly(players))
=============================================================================
