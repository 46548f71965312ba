----------------------------- MODULE GameEvents -----------------------------
(***************************************************************************)
(* The event manager of a game (lua/server/gamelogic.lua: start,           *)
(* pushEvent, resumeEvent, clearEvent; lua/server/gameevent.lua: exec,     *)
(* shutdown; ClearEvent:main in lua/server/events/misc.lua).               *)
(*                                                                         *)
(* Every event and every clean-up of an event is a coroutine.  There are   *)
(* two stacks, of events and of clean-ups, and GameLogic:start resumes the *)
(* top of one of them: the one with the larger id.  An action is one turn  *)
(* of that loop, up to the point where the coroutine that was resumed      *)
(* yields or ends.  Yields for a request are not seen here: resumeEvent    *)
(* resumes the same coroutine afterwards.                                  *)
(*                                                                         *)
(* The functions of events, what they call and where they break off, are   *)
(* arbitrary.  A coroutine that has been given back the control by an      *)
(* event it called runs the exit functions of that event first.            *)
(***************************************************************************)
EXTENDS Integers, Sequences, FiniteSets, SequencesExt

CONSTANT MaxId   \* bound: no more events are called once an id reaches it

ASSUME MaxIdAssumption == MaxId \in Nat

VARIABLES
  game_event_stack,  \* Seq of events; `callee': the event it waits for, or 0
  cleaner_stack,     \* Seq of ClearEvents: id, event and `callee'
  current_event_id,
  all_game_events,   \* index id: an event, or the end of one
  end_id,            \* end_id of each id in all_game_events, -1 before the end
  over,              \* room:gameOver
  ended,             \* history: events whose clean-up is done
  exited             \* history: how often exit functions were run, per id

stacks == <<game_event_stack, cleaner_stack>>
ids    == <<current_event_id, all_game_events, end_id>>
vars   == <<stacks, ids, over, ended, exited>>

Event(id, status, parent) ==
  [id |-> id, status |-> status, parent |-> parent, killed |-> FALSE,
   interrupted |-> FALSE, callee |-> 0]

ne == game_event_stack[Len(game_event_stack)]   \* getCurrentEvent
ce == cleaner_stack[Len(cleaner_stack)]         \* getCurrentCleaner

SetTop(stack, e) == [stack EXCEPT ![Len(stack)] = e]

\* The choice of GameLogic:start; the newer of the two, the clean-up if equal.
ChooseStrict == cleaner_stack # <<>> /\ ce.id > ne.id   \* mutant: > for >=

CleanerRuns == cleaner_stack # <<>> /\ ce.id >= ne.id

Running == game_event_stack # <<>> /\ ~over
EventRuns == Running /\ ~CleanerRuns /\ ~ne.killed

Caller == IF CleanerRuns THEN ce ELSE ne
Returned == Caller.callee # 0   \* the event it called has ended

Init ==
  /\ game_event_stack = <<Event(1, "ready", 0)>>   \* GameEvent.Game, never exec'd
  /\ cleaner_stack = <<>>
  /\ current_event_id = 1
  /\ all_game_events = <<[kind |-> "event", of |-> 1]>>
  /\ end_id = <<-1>>
  /\ over = FALSE
  /\ ended = {}
  /\ exited = <<0>>

-----------------------------------------------------------------------------
\* GameEvent:exec and pushEvent: whoever runs calls an event.  (An event whose
\* prepare() refuses it is never pushed and changes nothing here.)
CallWith(id) ==
  /\ Running /\ (CleanerRuns \/ EventRuns) /\ ~Returned
  /\ current_event_id < MaxId
  /\ current_event_id' = id
  /\ LET called == [Caller EXCEPT !.callee = id] IN
       IF CleanerRuns
       THEN /\ cleaner_stack' = SetTop(cleaner_stack, called)
            /\ game_event_stack' = Append(game_event_stack, Event(id, "running", ne.id))
       ELSE /\ game_event_stack' =
                 Append(SetTop(game_event_stack, called), Event(id, "running", ne.id))
            /\ UNCHANGED cleaner_stack
  /\ all_game_events' = Append(all_game_events, [kind |-> "event", of |-> id])
  /\ end_id' = Append(end_id, -1)
  /\ exited' = Append(exited, 0)
  /\ UNCHANGED <<over, ended>>

CallSameId == CallWith(current_event_id)   \* mutant: the id is not advanced

Call == CallWith(current_event_id + 1)

\* The second half of exec, once the event has been cleaned up.
ExitThen(callee) ==
  /\ Running /\ (CleanerRuns \/ EventRuns) /\ Returned
  /\ exited' = [exited EXCEPT ![Caller.callee] = @ + 1]
  /\ LET done == [Caller EXCEPT !.callee = callee] IN
       IF CleanerRuns
       THEN cleaner_stack' = SetTop(cleaner_stack, done) /\ UNCHANGED game_event_stack
       ELSE game_event_stack' = SetTop(game_event_stack, done) /\ UNCHANGED cleaner_stack
  /\ UNCHANGED <<ids, over, ended>>

ExitAgain == ExitThen(Caller.callee)   \* mutant: exec does not return

Exit == ExitThen(0)

\* clearEvent: the clean-up gets the current id, so that it is newer than all
\* events so far and older than all to come.
ClearEvent(interrupted, id) ==
  /\ game_event_stack' = SetTop(game_event_stack,
       [ne EXCEPT !.interrupted = interrupted, !.status = "dead"])
  /\ cleaner_stack' = Append(cleaner_stack, [id |-> id, event |-> ne.id, callee |-> 0])
  /\ UNCHANGED <<ids, over, ended, exited>>

\* The function of the event returns, or breaks off (breakEvent, an error).
ReturnLate ==   \* mutant: the clean-up gets the next id
  /\ EventRuns /\ ~Returned
  /\ \E interrupted \in BOOLEAN : ClearEvent(interrupted, current_event_id + 1)

Return ==
  /\ EventRuns /\ ~Returned
  /\ \E interrupted \in BOOLEAN : ClearEvent(interrupted, current_event_id)

\* An event that was killed is not resumed any more.
ClearKilled ==
  /\ Running /\ ~CleanerRuns /\ ne.killed
  /\ ClearEvent(TRUE, current_event_id)

\* The running event shuts down a running event, maybe itself; from a clean-up
\* shutdown has no effect (resumeEvent simply goes on with it).
KillFrom(k, last) ==
  /\ EventRuns /\ ~Returned
  /\ game_event_stack[k].status = "running"
  /\ game_event_stack' = [j \in 1..Len(game_event_stack) |->
       [game_event_stack[j] EXCEPT !.killed = @ \/ j \in k..last]]
  /\ UNCHANGED <<cleaner_stack, ids, over, ended, exited>>

ShutdownOne(k) == KillFrom(k, k)   \* mutant: the newer events are not killed

Shutdown(k) == KillFrom(k, Len(game_event_stack))

\* ClearEvent:main has done its work: the end of the event is numbered unless
\* nothing happened since its beginning, and both stacks are popped.
FinishWith(mark) ==
  /\ Running /\ CleanerRuns /\ ~Returned
  /\ LET event == ce.event
         end   == IF mark THEN current_event_id + 1 ELSE event
     IN /\ IF mark
           THEN /\ current_event_id' = end
                /\ all_game_events' = Append(all_game_events, [kind |-> "end", of |-> event])
                /\ end_id' = Append([end_id EXCEPT ![event] = end], -1)
                /\ exited' = Append(exited, 0)
           ELSE /\ end_id' = [end_id EXCEPT ![event] = end]
                /\ UNCHANGED <<current_event_id, all_game_events, exited>>
        /\ ended' = ended \cup {[id |-> event, end |-> end, parent |-> ne.parent]}
  /\ game_event_stack' = Front(game_event_stack)
  /\ cleaner_stack' = Front(cleaner_stack)
  /\ UNCHANGED over

FinishUnmarked == FinishWith(FALSE)   \* mutant: ends are not numbered

CleanerDone == FinishWith(ce.event # current_event_id)

\* Any coroutine may call room:gameOver, which ends everything; so does the end
\* of the last event.
GameOver ==
  /\ ~over /\ over' = TRUE
  /\ UNCHANGED <<stacks, ids, ended, exited>>

Next ==
  \/ Call
  \/ Exit
  \/ Return
  \/ ClearKilled
  \/ \E k \in 1..Len(game_event_stack) : Shutdown(k)
  \/ CleanerDone
  \/ GameOver

Spec == Init /\ [][Next]_vars

-----------------------------------------------------------------------------
(* Properties.                                                              *)

EventRecord ==
  [id : Nat \ {0}, status : {"ready", "running", "dead"}, parent : Nat,
   killed : BOOLEAN, interrupted : BOOLEAN, callee : Nat]

CleanerRecord == [id : Nat, event : Nat \ {0}, callee : Nat]
EntryRecord   == [kind : {"event", "end"}, of : Nat \ {0}]

StacksTyped ==
  game_event_stack \in Seq(EventRecord) /\ cleaner_stack \in Seq(CleanerRecord)

\* Both stacks hold records, and all_game_events has one entry for every id.
TypeOK ==
  /\ StacksTyped
  /\ current_event_id \in Nat
  /\ all_game_events \in Seq(EntryRecord)
  /\ end_id \in Seq(Int)
  /\ exited \in Seq(Nat)
  /\ Len(all_game_events) = current_event_id
  /\ Len(end_id) = current_event_id
  /\ Len(exited) = current_event_id
  /\ over \in BOOLEAN

\* The two stacks belong together: the events being cleaned up are those the
\* clean-ups are for, in the same order, and the id of a clean-up lies between
\* its event and every newer one.
EventsInOrder ==
  /\ \A j, k \in 1..Len(game_event_stack) :
       j < k => game_event_stack[j].id < game_event_stack[k].id
  /\ \A k \in 1..Len(game_event_stack) : game_event_stack[k].id <= current_event_id

CleanersInOrder ==
  \A c, d \in 1..Len(cleaner_stack) :
    c < d => cleaner_stack[c].event < cleaner_stack[d].event

CleanersHaveEvents ==
  \A c \in 1..Len(cleaner_stack) : \E k \in 1..Len(game_event_stack) :
    /\ game_event_stack[k].status = "dead"
    /\ game_event_stack[k].id = cleaner_stack[c].event
    /\ game_event_stack[k].id <= cleaner_stack[c].id
    /\ cleaner_stack[c].id <= current_event_id
    /\ \A j \in 1..Len(game_event_stack) :
         k < j => cleaner_stack[c].id < game_event_stack[j].id

DeadHaveCleaners ==
  \A k \in 1..Len(game_event_stack) : game_event_stack[k].status = "dead" =>
    \E c \in 1..Len(cleaner_stack) : cleaner_stack[c].event = game_event_stack[k].id

StacksMatch ==
  EventsInOrder /\ CleanersInOrder /\ CleanersHaveEvents /\ DeadHaveCleaners

\* A clean-up pops the event it has cleaned up, not whatever is on top.
CleansNewest == Running /\ CleanerRuns => ce.event = ne.id

\* shutdown ends all newer events with the event: above an event that has been
\* killed only those can go on that were called by a clean-up.
KilledUpwards ==
  \A j, k \in 1..Len(game_event_stack) :
    j < k /\ game_event_stack[j].killed /\ ~game_event_stack[k].killed =>
      \E m \in j..(k - 1) : game_event_stack[m].status = "dead"

\* The ids of an event and of its end enclose those of every event it called,
\* and the ranges of two events are nested or disjoint: what searchEvents
\* relies on when it looks for the events "within" an event.
Nested(a, b) == a.id < b.id /\ b.id <= b.end /\ b.end < a.end

RangesNest ==
  \A a, b \in ended :
    /\ a.id = b.parent => Nested(a, b)
    /\ a.id < b.id => Nested(a, b) \/ a.end < b.id

\* Exit functions are run at most once, and not before the clean-up.
ExitOnce ==
  \A i \in 1..Len(exited) :
    exited[i] <= 1 /\ (exited[i] = 1 => end_id[i] # -1)

\* The event manager implements nested calls (EventFrames): only the newest
\* event runs, it is cleaned up before the one below goes on, and a shutdown
\* ends all newer events.
Frame(e) ==
  [id |-> e.id, mode |-> IF e.status = "dead" THEN "clean" ELSE "main", killed |-> e.killed]

FramesOf(stack) == [k \in 1..Len(stack) |-> Frame(stack[k])]

Frames == INSTANCE EventFrames WITH frames <- FramesOf(game_event_stack), over <- over

NestedCalls == Frames!FSpec
=============================================================================
