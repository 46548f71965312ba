-------------------------- MODULE GameEventsProofs --------------------------
(***************************************************************************)
(* Theorems about GameEvents, for any number of events: types, the         *)
(* correspondence of the two stacks, that a clean-up pops its own event,   *)
(* what a shutdown kills, that the id ranges of ended events are nested,   *)
(* that exit functions run at most once, and that the event manager        *)
(* implements the nested calls of EventFrames.                             *)
(***************************************************************************)
EXTENDS GameEvents, SequenceTheorems, TLAPS

-----------------------------------------------------------------------------
(* Sequences.                                                               *)

\* Replacing the last element of a sequence keeps the rest of it.
LEMMA SetTopFacts ==
  ASSUME NEW S, NEW s \in Seq(S), s # <<>>, NEW e \in S
  PROVE  /\ SetTop(s, e) \in Seq(S)
         /\ Len(SetTop(s, e)) = Len(s)
         /\ SetTop(s, e)[Len(s)] = e
         /\ \A i \in 1..(Len(s) - 1) : SetTop(s, e)[i] = s[i]
  BY DEF SetTop

\* Changing an element of a sequence, if it has such an element at all.
LEMMA ChangeFacts ==
  ASSUME NEW S, NEW s \in Seq(S), NEW i, NEW e, i \in 1..Len(s) => e \in S
  PROVE  /\ [s EXCEPT ![i] = e] \in Seq(S)
         /\ Len([s EXCEPT ![i] = e]) = Len(s)
         /\ \A j \in 1..Len(s) : [s EXCEPT ![i] = e][j] = IF j = i THEN e ELSE s[j]
<1>1. CASE i \in 1..Len(s)
  <2>1. e \in S
    BY <1>1
  <2>2. QED
    BY <1>1, <2>1, ExceptSeq
<1>2. CASE i \notin 1..Len(s)
  <2>1. DOMAIN s = 1..Len(s) /\ s = [j \in DOMAIN s |-> s[j]]
    OBVIOUS
  <2>2. [s EXCEPT ![i] = e] = [j \in DOMAIN s |-> IF j = i THEN e ELSE s[j]]
    BY <1>2, <2>1
  <2>3. [s EXCEPT ![i] = e] = s
    BY <1>2, <2>1, <2>2
  <2>4. QED
    BY <1>2, <2>3
<1>3. QED
  BY <1>1, <1>2

\* Front drops the last element.
LEMMA FrontFacts ==
  ASSUME NEW S, NEW s \in Seq(S), s # <<>>
  PROVE  /\ Front(s) \in Seq(S)
         /\ Len(Front(s)) = Len(s) - 1
         /\ \A i \in 1..(Len(s) - 1) : Front(s)[i] = s[i]
<1> DEFINE n == Len(s) - 1
<1>1. n \in Int /\ 0 <= n /\ 1 \in Int /\ \A i \in 1..n : s[i] \in S
  OBVIOUS
<1> HIDE DEF n
<1>2. /\ SubSeq(s, 1, n) \in Seq(S)
      /\ Len(SubSeq(s, 1, n)) = IF 1 <= n THEN n - 1 + 1 ELSE 0
      /\ \A i \in 1..(n - 1 + 1) : SubSeq(s, 1, n)[i] = s[1 + i - 1]
  BY <1>1, SubSeqProperties
<1>3. Front(s) = SubSeq(s, 1, n)
  BY DEF Front, n
<1>4. Len(Front(s)) = n /\ \A i \in 1..n : Front(s)[i] = s[i]
  BY <1>1, <1>2, <1>3
<1>5. QED
  BY <1>2, <1>3, <1>4 DEF n

\* The last element of a sequence that is not empty.
LEMMA TopFacts ==
  ASSUME NEW S, NEW s \in Seq(S), s # <<>>
  PROVE  Len(s) \in Nat \ {0} /\ s[Len(s)] \in S
  OBVIOUS

\* Append adds one element at the end.
LEMMA AppendFacts ==
  ASSUME NEW S, NEW s \in Seq(S), NEW e \in S
  PROVE  /\ Append(s, e) \in Seq(S)
         /\ Len(Append(s, e)) = Len(s) + 1
         /\ Append(s, e)[Len(s) + 1] = e
         /\ \A i \in 1..Len(s) : Append(s, e)[i] = s[i]
  OBVIOUS

-----------------------------------------------------------------------------
(* Types.                                                                   *)

\* The records on top of the stacks.
LEMMA TopRecords ==
  ASSUME TypeOK
  PROVE  /\ Running => ne \in EventRecord /\ Len(game_event_stack) \in Nat \ {0}
         /\ cleaner_stack # <<>> => ce \in CleanerRecord /\ Len(cleaner_stack) \in Nat \ {0}
<1>1. game_event_stack # <<>> => ne \in EventRecord /\ Len(game_event_stack) \in Nat \ {0}
  BY TopFacts DEF TypeOK, StacksTyped, ne
<1>2. cleaner_stack # <<>> => ce \in CleanerRecord /\ Len(cleaner_stack) \in Nat \ {0}
  BY TopFacts DEF TypeOK, StacksTyped, ce
<1>3. QED
  BY <1>1, <1>2 DEF Running

\* Whoever runs is a record with a callee.
LEMMA CallerRecord ==
  ASSUME TypeOK, Running, CleanerRuns \/ EventRuns
  PROVE  /\ CleanerRuns => Caller = ce /\ ce \in CleanerRecord /\ cleaner_stack # <<>>
         /\ ~CleanerRuns => Caller = ne /\ ne \in EventRecord /\ game_event_stack # <<>>
         /\ Caller.callee \in Nat
<1>1. CleanerRuns => Caller = ce /\ ce \in CleanerRecord /\ cleaner_stack # <<>>
  BY TopRecords DEF CleanerRuns, Caller
<1>2. ~CleanerRuns => Caller = ne /\ ne \in EventRecord /\ game_event_stack # <<>>
  BY TopRecords DEF Caller, Running
<1>3. QED
  BY <1>1, <1>2 DEF CleanerRecord, EventRecord

LEMMA InitTypes == Init => TypeOK
<1> SUFFICES ASSUME Init PROVE TypeOK
  OBVIOUS
<1>1. Event(1, "ready", 0) \in EventRecord
  BY DEF Event, EventRecord
<1>2. game_event_stack \in Seq(EventRecord) /\ cleaner_stack \in Seq(CleanerRecord)
  BY <1>1 DEF Init
<1>3. [kind |-> "event", of |-> 1] \in EntryRecord
  BY DEF EntryRecord
<1>4. all_game_events \in Seq(EntryRecord) /\ Len(all_game_events) = 1
  BY <1>3 DEF Init
<1>5. end_id \in Seq(Int) /\ Len(end_id) = 1 /\ exited \in Seq(Nat) /\ Len(exited) = 1
  BY DEF Init
<1>6. QED
  BY <1>2, <1>4, <1>5 DEF Init, TypeOK, StacksTyped

LEMMA CallTypes == TypeOK /\ Call => TypeOK'
<1> SUFFICES ASSUME TypeOK, Call PROVE TypeOK'
  OBVIOUS
<1> DEFINE id == current_event_id + 1
           called == [Caller EXCEPT !.callee = id]
           event == Event(id, "running", ne.id)
<1>0. Running /\ (CleanerRuns \/ EventRuns) /\ id \in Nat \ {0}
  BY DEF Call, CallWith, TypeOK
<1>1. event \in EventRecord
  BY <1>0, TopRecords DEF Event, EventRecord
<1> HIDE DEF event, called, id
<1>2. StacksTyped'
  <2>1. CASE CleanerRuns
    <3>1. called \in CleanerRecord
      BY <1>0, <2>1, CallerRecord DEF CleanerRecord, called
    <3>2. SetTop(cleaner_stack, called) \in Seq(CleanerRecord)
      BY <2>1, <3>1, SetTopFacts DEF TypeOK, StacksTyped, CleanerRuns
    <3>3. /\ cleaner_stack' = SetTop(cleaner_stack, called)
          /\ game_event_stack' = Append(game_event_stack, event)
      BY <2>1 DEF Call, CallWith, event, called, id
    <3>4. QED
      BY <1>1, <3>2, <3>3, AppendFacts DEF TypeOK, StacksTyped
  <2>2. CASE ~CleanerRuns
    <3>1. called \in EventRecord
      BY <1>0, <2>2, CallerRecord DEF EventRecord, called
    <3>2. SetTop(game_event_stack, called) \in Seq(EventRecord)
      BY <1>0, <3>1, SetTopFacts DEF TypeOK, StacksTyped, Running
    <3>3. /\ game_event_stack' = Append(SetTop(game_event_stack, called), event)
          /\ cleaner_stack' = cleaner_stack
      BY <2>2 DEF Call, CallWith, event, called, id
    <3>4. QED
      BY <1>1, <3>2, <3>3, AppendFacts DEF TypeOK, StacksTyped
  <2>3. QED
    BY <2>1, <2>2
<1>3. [kind |-> "event", of |-> id] \in EntryRecord
  BY <1>0 DEF EntryRecord
<1>4. /\ current_event_id' = current_event_id + 1
      /\ all_game_events' = Append(all_game_events, [kind |-> "event", of |-> id])
      /\ end_id' = Append(end_id, -1)
      /\ exited' = Append(exited, 0)
      /\ over' = over
  BY DEF Call, CallWith, id
<1>5. /\ all_game_events' \in Seq(EntryRecord) /\ Len(all_game_events') = Len(all_game_events) + 1
      /\ end_id' \in Seq(Int) /\ Len(end_id') = Len(end_id) + 1
      /\ exited' \in Seq(Nat) /\ Len(exited') = Len(exited) + 1
  BY <1>3, <1>4 DEF TypeOK
<1>6. QED
  BY <1>2, <1>4, <1>5 DEF TypeOK

LEMMA ExitTypes == TypeOK /\ Exit => TypeOK'
<1> SUFFICES ASSUME TypeOK, Exit PROVE TypeOK'
  OBVIOUS
<1> DEFINE done == [Caller EXCEPT !.callee = 0]
<1>0. Running /\ (CleanerRuns \/ EventRuns)
  BY DEF Exit, ExitThen
<1> HIDE DEF done
<1>1. StacksTyped'
  <2>1. CASE CleanerRuns
    <3>1. done \in CleanerRecord
      BY <1>0, <2>1, CallerRecord DEF CleanerRecord, done
    <3>2. SetTop(cleaner_stack, done) \in Seq(CleanerRecord)
      BY <2>1, <3>1, SetTopFacts DEF TypeOK, StacksTyped, CleanerRuns
    <3>3. cleaner_stack' = SetTop(cleaner_stack, done) /\ game_event_stack' = game_event_stack
      BY <2>1 DEF Exit, ExitThen, done
    <3>4. QED
      BY <3>2, <3>3 DEF TypeOK, StacksTyped
  <2>2. CASE ~CleanerRuns
    <3>1. done \in EventRecord
      BY <1>0, <2>2, CallerRecord DEF EventRecord, done
    <3>2. SetTop(game_event_stack, done) \in Seq(EventRecord)
      BY <1>0, <3>1, SetTopFacts DEF TypeOK, StacksTyped, Running
    <3>3. game_event_stack' = SetTop(game_event_stack, done) /\ cleaner_stack' = cleaner_stack
      BY <2>2 DEF Exit, ExitThen, done
    <3>4. QED
      BY <3>2, <3>3 DEF TypeOK, StacksTyped
  <2>3. QED
    BY <2>1, <2>2
<1>2. exited' \in Seq(Nat) /\ Len(exited') = Len(exited)
  <2>1. exited' = [exited EXCEPT ![Caller.callee] = @ + 1]
    BY DEF Exit, ExitThen
  <2>2. \A i \in 1..Len(exited) : exited[i] + 1 \in Nat
    BY DEF TypeOK
  <2>3. QED
    <3> DEFINE i == Caller.callee
               e == exited[i] + 1
    <3>1. exited' = [exited EXCEPT ![i] = e] /\ (i \in 1..Len(exited) => e \in Nat)
      BY <2>1, <2>2
    <3> HIDE DEF i, e
    <3>2. exited \in Seq(Nat)
      BY DEF TypeOK
    <3>3. QED
      BY <3>1, <3>2, ChangeFacts
<1>3. UNCHANGED <<current_event_id, all_game_events, end_id, over>>
  BY DEF Exit, ExitThen, ids
<1>4. QED
  BY <1>1, <1>2, <1>3 DEF TypeOK

LEMMA ClearTypes ==
  ASSUME TypeOK, Running, NEW interrupted \in BOOLEAN,
         ClearEvent(interrupted, current_event_id)
  PROVE  TypeOK'
<1> DEFINE dead == [ne EXCEPT !.interrupted = interrupted, !.status = "dead"]
           cleaner == [id |-> current_event_id, event |-> ne.id, callee |-> 0]
<1>1. ne \in EventRecord
  BY TopRecords
<1>2. dead \in EventRecord
  BY <1>1 DEF EventRecord
<1>3. cleaner \in CleanerRecord
  BY <1>1 DEF TypeOK, EventRecord, CleanerRecord
<1>4. game_event_stack' = SetTop(game_event_stack, dead) /\ cleaner_stack' = Append(cleaner_stack, cleaner)
  BY DEF ClearEvent
<1> HIDE DEF dead, cleaner
<1>5. StacksTyped'
  BY <1>2, <1>3, <1>4, SetTopFacts, AppendFacts DEF TypeOK, StacksTyped, Running
<1>6. UNCHANGED <<current_event_id, all_game_events, end_id, over, exited>>
  BY DEF ClearEvent, ids
<1>7. QED
  BY <1>5, <1>6 DEF TypeOK

LEMMA ShutdownTypes ==
  ASSUME TypeOK, NEW k \in 1..Len(game_event_stack), Shutdown(k)
  PROVE  TypeOK'
<1> DEFINE shot(j) == [game_event_stack[j] EXCEPT !.killed = @ \/ j \in k..Len(game_event_stack)]
<1>1. ASSUME NEW j \in 1..Len(game_event_stack)
      PROVE  shot(j) \in EventRecord
  <2>1. game_event_stack[j] \in EventRecord
    BY DEF TypeOK, StacksTyped
  <2>2. (game_event_stack[j].killed \/ j \in k..Len(game_event_stack)) \in BOOLEAN
    OBVIOUS
  <2>3. QED
    BY <2>1, <2>2, Zenon DEF EventRecord
<1>2. game_event_stack' = [j \in 1..Len(game_event_stack) |-> shot(j)]
  BY DEF Shutdown, KillFrom
<1> HIDE DEF shot
<1>3. Len(game_event_stack) \in Nat
  BY DEF TypeOK, StacksTyped
<1>4. game_event_stack' \in Seq(EventRecord)
  BY <1>1, <1>2, <1>3
<1>5. UNCHANGED <<cleaner_stack, current_event_id, all_game_events, end_id, over, exited>>
  BY DEF Shutdown, KillFrom, ids
<1>6. QED
  BY <1>4, <1>5 DEF TypeOK, StacksTyped

LEMMA CleanerTypes == TypeOK /\ CleanerDone => TypeOK'
<1> SUFFICES ASSUME TypeOK, CleanerDone PROVE TypeOK'
  OBVIOUS
<1>0. Running /\ CleanerRuns /\ game_event_stack # <<>> /\ cleaner_stack # <<>>
  BY DEF CleanerDone, FinishWith, Running, CleanerRuns
<1>1. ce \in CleanerRecord
  BY <1>0, TopRecords
<1>2. StacksTyped'
  <2>1. game_event_stack' = Front(game_event_stack) /\ cleaner_stack' = Front(cleaner_stack)
    BY DEF CleanerDone, FinishWith
  <2>2. QED
    BY <1>0, <2>1, FrontFacts DEF TypeOK, StacksTyped
<1>3. CASE ce.event # current_event_id
  <2> DEFINE end == current_event_id + 1
             marked == [end_id EXCEPT ![ce.event] = end]
             entry == [kind |-> "end", of |-> ce.event]
  <2>1. /\ current_event_id' = end
        /\ all_game_events' = Append(all_game_events, entry)
        /\ end_id' = Append(marked, -1)
        /\ exited' = Append(exited, 0)
        /\ over' = over
    BY <1>3 DEF CleanerDone, FinishWith
  <2>2. end \in Nat
    BY DEF TypeOK
  <2>3. marked \in Seq(Int) /\ Len(marked) = Len(end_id)
    <3> DEFINE i == ce.event
    <3>1. end_id \in Seq(Int) /\ (i \in 1..Len(end_id) => end \in Int)
      BY <2>2 DEF TypeOK
    <3> DEFINE m == [end_id EXCEPT ![i] = end]
    <3>2. marked = m
      OBVIOUS
    <3> HIDE DEF marked, i, end
    <3>3. m \in Seq(Int) /\ Len(m) = Len(end_id)
      BY <3>1, ChangeFacts, SMTT(30)
    <3>4. QED
      BY <3>2, <3>3
  <2>4. entry \in EntryRecord
    BY <1>1 DEF CleanerRecord, EntryRecord
  <2> HIDE DEF marked, entry
  <2>5. /\ all_game_events' \in Seq(EntryRecord) /\ Len(all_game_events') = Len(all_game_events) + 1
        /\ end_id' \in Seq(Int) /\ Len(end_id') = Len(end_id) + 1
        /\ exited' \in Seq(Nat) /\ Len(exited') = Len(exited) + 1
    BY <2>1, <2>3, <2>4 DEF TypeOK
  <2>6. QED
    BY <1>2, <2>1, <2>5 DEF TypeOK
<1>4. CASE ce.event = current_event_id
  <2>1. /\ end_id' = [end_id EXCEPT ![ce.event] = ce.event]
        /\ UNCHANGED <<current_event_id, all_game_events, exited, over>>
    BY <1>4 DEF CleanerDone, FinishWith
  <2>2. end_id' \in Seq(Int) /\ Len(end_id') = Len(end_id)
    BY <1>1, <2>1, ChangeFacts DEF TypeOK, CleanerRecord
  <2>3. QED
    BY <1>2, <2>1, <2>2 DEF TypeOK
<1>5. QED
  BY <1>3, <1>4

\* Every reachable state is well typed; in particular all_game_events has
\* exactly one entry per id, which is what makes ids usable as indices of it.
THEOREM Typing == Spec => []TypeOK
<1>1. Init => TypeOK
  BY InitTypes
<1>2. TypeOK /\ [Next]_vars => TypeOK'
  <2> SUFFICES ASSUME TypeOK, [Next]_vars PROVE TypeOK'
    OBVIOUS
  <2>1. CASE Call
    BY <2>1, CallTypes
  <2>2. CASE Exit
    BY <2>2, ExitTypes
  <2>3. CASE Return
    BY <2>3, ClearTypes DEF Return, EventRuns
  <2>4. CASE ClearKilled
    BY <2>4, ClearTypes DEF ClearKilled
  <2>5. CASE \E k \in 1..Len(game_event_stack) : Shutdown(k)
    BY <2>5, ShutdownTypes
  <2>6. CASE CleanerDone
    BY <2>6, CleanerTypes
  <2>7. CASE GameOver
    BY <2>7 DEF GameOver, TypeOK, StacksTyped, stacks, ids
  <2>8. CASE UNCHANGED vars
    BY <2>8 DEF vars, TypeOK, StacksTyped, stacks, ids
  <2>9. QED
    BY <2>1, <2>2, <2>3, <2>4, <2>5, <2>6, <2>7, <2>8 DEF Next
<1>3. QED
  BY <1>1, <1>2, PTL DEF Spec

-----------------------------------------------------------------------------
(* The two stacks.  The newest event is being cleaned up if and only if the *)
(* newest clean-up is for it; so GameLogic:start, which only compares ids,  *)
(* resumes the right one.                                                   *)

LEMMA Fields ==
  ASSUME TypeOK
  PROVE  /\ \A k \in 1..Len(game_event_stack) : game_event_stack[k].id \in Nat
         /\ \A c \in 1..Len(cleaner_stack) :
              cleaner_stack[c].id \in Nat /\ cleaner_stack[c].event \in Nat
<1>1. /\ \A k \in 1..Len(game_event_stack) : game_event_stack[k] \in EventRecord
      /\ \A c \in 1..Len(cleaner_stack) : cleaner_stack[c] \in CleanerRecord
  BY DEF TypeOK, StacksTyped
<1>2. QED
  BY <1>1 DEF EventRecord, CleanerRecord

LEMMA TopDead ==
  ASSUME TypeOK, StacksMatch, Running
  PROVE  /\ CleanerRuns <=> ne.status = "dead"
         /\ CleanerRuns => ce.event = ne.id
<1> DEFINE n == Len(game_event_stack)
           l == Len(cleaner_stack)
<1>1. /\ n \in Nat \ {0} /\ l \in Nat /\ ne = game_event_stack[n] /\ ce = cleaner_stack[l]
      /\ \A k \in 1..n : game_event_stack[k].id \in Nat
      /\ \A c \in 1..l : cleaner_stack[c].id \in Nat /\ cleaner_stack[c].event \in Nat
  BY Fields DEF TypeOK, StacksTyped, Running, ne, ce
<1>2. cleaner_stack # <<>> => l \in 1..l
  BY DEF TypeOK, StacksTyped
<1>3. ASSUME CleanerRuns
      PROVE  ne.status = "dead" /\ ce.event = ne.id
  <2>1. l \in 1..l /\ ce.id >= ne.id
    BY <1>2, <1>3 DEF CleanerRuns
  <2>2. PICK k \in 1..n :
          /\ game_event_stack[k].status = "dead"
          /\ game_event_stack[k].id = ce.event
          /\ \A j \in 1..n : k < j => ce.id < game_event_stack[j].id
    BY <1>1, <2>1 DEF StacksMatch, CleanersHaveEvents
  <2>3. k = n
    <3>1. n \in 1..n /\ ce.id \in Nat /\ ne.id \in Nat /\ ne = game_event_stack[n]
      BY <1>1, <2>1
    <3>2. ~(k < n)
      BY <2>1, <2>2, <3>1
    <3>3. QED
      BY <1>1, <2>2, <3>2
  <2>4. QED
    BY <1>1, <2>2, <2>3
<1>4. ASSUME ne.status = "dead"
      PROVE  CleanerRuns
  <2>1. PICK c \in 1..l : cleaner_stack[c].event = ne.id
    BY <1>1, <1>4 DEF StacksMatch, DeadHaveCleaners
  <2>2. l \in 1..l /\ cleaner_stack # <<>>
    BY <1>1, <2>1
  <2>3. PICK k \in 1..n :
          game_event_stack[k].id = ce.event /\ game_event_stack[k].id <= ce.id
    BY <1>1, <2>2 DEF StacksMatch, CleanersHaveEvents
  <2>4. game_event_stack[k].id <= ne.id /\ (k < n => game_event_stack[k].id < ne.id)
    BY <1>1, <2>3 DEF StacksMatch, EventsInOrder
  <2>5. c < l => cleaner_stack[c].event < ce.event
    BY <1>1, <2>1, <2>2 DEF StacksMatch, CleanersInOrder
  <2>6. c = l
    BY <1>1, <2>1, <2>3, <2>4, <2>5
  <2>7. QED
    BY <1>1, <2>1, <2>2, <2>3, <2>6 DEF CleanerRuns
<1>5. QED
  BY <1>3, <1>4

\* Only ids, and what is dead, matter to StacksMatch.
LEMMA SameView ==
  ASSUME StacksMatch, TypeOK, TypeOK',
         Len(game_event_stack') = Len(game_event_stack),
         \A k \in 1..Len(game_event_stack) :
           /\ game_event_stack'[k].id = game_event_stack[k].id
           /\ game_event_stack'[k].status = game_event_stack[k].status,
         Len(cleaner_stack') = Len(cleaner_stack),
         \A c \in 1..Len(cleaner_stack) :
           /\ cleaner_stack'[c].id = cleaner_stack[c].id
           /\ cleaner_stack'[c].event = cleaner_stack[c].event,
         current_event_id' = current_event_id
  PROVE  StacksMatch'
<1>1. EventsInOrder'
  BY DEF StacksMatch, EventsInOrder
<1>2. CleanersInOrder'
  BY DEF StacksMatch, CleanersInOrder
<1>3. CleanersHaveEvents'
  <2> SUFFICES ASSUME NEW c \in 1..Len(cleaner_stack)
               PROVE  \E k \in 1..Len(game_event_stack) :
                        /\ game_event_stack'[k].status = "dead"
                        /\ game_event_stack'[k].id = cleaner_stack'[c].event
                        /\ game_event_stack'[k].id <= cleaner_stack'[c].id
                        /\ cleaner_stack'[c].id <= current_event_id'
                        /\ \A j \in 1..Len(game_event_stack) :
                             k < j => cleaner_stack'[c].id < game_event_stack'[j].id
    BY DEF CleanersHaveEvents
  <2>1. PICK k \in 1..Len(game_event_stack) :
          /\ game_event_stack[k].status = "dead"
          /\ game_event_stack[k].id = cleaner_stack[c].event
          /\ game_event_stack[k].id <= cleaner_stack[c].id
          /\ cleaner_stack[c].id <= current_event_id
          /\ \A j \in 1..Len(game_event_stack) :
               k < j => cleaner_stack[c].id < game_event_stack[j].id
    BY DEF StacksMatch, CleanersHaveEvents
  <2>2. QED
    BY <2>1
<1>4. DeadHaveCleaners'
  BY DEF StacksMatch, DeadHaveCleaners
<1>5. QED
  BY <1>1, <1>2, <1>3, <1>4 DEF StacksMatch

LEMMA InitMatch == Init => StacksMatch
  BY DEF Init, Event, StacksMatch, EventsInOrder, CleanersInOrder, CleanersHaveEvents,
         DeadHaveCleaners

\* A call puts one event on top of the stack and leaves ids and status alone.
LEMMA CallView ==
  ASSUME TypeOK, Call
  PROVE  LET n == Len(game_event_stack) IN
         /\ n \in Nat \ {0} /\ Len(game_event_stack') = n + 1
         /\ \A k \in 1..n : /\ game_event_stack'[k].id = game_event_stack[k].id
                            /\ game_event_stack'[k].status = game_event_stack[k].status
                            /\ game_event_stack'[k].killed = game_event_stack[k].killed
         /\ game_event_stack'[n + 1] = Event(current_event_id + 1, "running", ne.id)
         /\ Len(cleaner_stack') = Len(cleaner_stack)
         /\ \A c \in 1..Len(cleaner_stack) :
              /\ cleaner_stack'[c].id = cleaner_stack[c].id
              /\ cleaner_stack'[c].event = cleaner_stack[c].event
         /\ current_event_id' = current_event_id + 1
<1> DEFINE n == Len(game_event_stack)
           id == current_event_id + 1
           called == [Caller EXCEPT !.callee = id]
           event == Event(id, "running", ne.id)
<1>0. /\ Running /\ (CleanerRuns \/ EventRuns) /\ id \in Nat \ {0} /\ n \in Nat \ {0}
      /\ ne \in EventRecord
  BY TopRecords DEF Call, CallWith, TypeOK
<1>1. event \in EventRecord
  BY <1>0 DEF Event, EventRecord
<1>2. CASE CleanerRuns
  <2>1. called \in CleanerRecord /\ called.id = ce.id /\ called.event = ce.event
    BY <1>0, <1>2, CallerRecord DEF CleanerRecord
  <2>2. /\ cleaner_stack' = SetTop(cleaner_stack, called)
        /\ game_event_stack' = Append(game_event_stack, event)
        /\ current_event_id' = id
    BY <1>2 DEF Call, CallWith
  <2> HIDE DEF called, event
  <2>3. /\ Len(game_event_stack') = n + 1 /\ game_event_stack'[n + 1] = event
        /\ \A k \in 1..n : game_event_stack'[k] = game_event_stack[k]
    BY <1>1, <2>2, AppendFacts DEF TypeOK, StacksTyped
  <2>4. /\ Len(cleaner_stack') = Len(cleaner_stack)
        /\ cleaner_stack'[Len(cleaner_stack)] = called
        /\ \A c \in 1..(Len(cleaner_stack) - 1) : cleaner_stack'[c] = cleaner_stack[c]
        /\ Len(cleaner_stack) \in Nat /\ ce = cleaner_stack[Len(cleaner_stack)]
    <3>1. cleaner_stack \in Seq(CleanerRecord) /\ cleaner_stack # <<>>
      BY <1>2 DEF TypeOK, StacksTyped, CleanerRuns
    <3>2. Len(cleaner_stack) \in Nat /\ ce = cleaner_stack[Len(cleaner_stack)]
      BY <3>1 DEF ce
    <3>3. called \in CleanerRecord
      BY <2>1
    <3>4. /\ Len(SetTop(cleaner_stack, called)) = Len(cleaner_stack)
          /\ SetTop(cleaner_stack, called)[Len(cleaner_stack)] = called
          /\ \A c \in 1..(Len(cleaner_stack) - 1) :
               SetTop(cleaner_stack, called)[c] = cleaner_stack[c]
      BY <3>1, <3>3, SetTopFacts
    <3>5. QED
      BY <2>2, <3>2, <3>4
  <2>5. \A c \in 1..Len(cleaner_stack) :
          /\ cleaner_stack'[c].id = cleaner_stack[c].id
          /\ cleaner_stack'[c].event = cleaner_stack[c].event
    BY <2>1, <2>4
  <2>6. QED
    BY <1>0, <2>2, <2>3, <2>4, <2>5 DEF event
<1>3. CASE ~CleanerRuns
  <2>1. /\ called \in EventRecord
        /\ called.id = ne.id /\ called.status = ne.status /\ called.killed = ne.killed
    <3>1. Caller = ne /\ Caller \in EventRecord
      BY <1>0, <1>3, CallerRecord
    <3>2. QED
      BY <1>0, <3>1 DEF EventRecord
  <2>2. /\ game_event_stack' = Append(SetTop(game_event_stack, called), event)
        /\ cleaner_stack' = cleaner_stack
        /\ current_event_id' = id
    BY <1>3 DEF Call, CallWith
  <2> HIDE DEF called, event
  <2>3. /\ SetTop(game_event_stack, called) \in Seq(EventRecord)
        /\ Len(SetTop(game_event_stack, called)) = n
        /\ SetTop(game_event_stack, called)[n] = called
        /\ \A k \in 1..(n - 1) : SetTop(game_event_stack, called)[k] = game_event_stack[k]
    BY <1>0, <2>1, SetTopFacts DEF TypeOK, StacksTyped, Running
  <2>4. /\ Len(game_event_stack') = n + 1 /\ game_event_stack'[n + 1] = event
        /\ game_event_stack'[n] = called
        /\ \A k \in 1..(n - 1) : game_event_stack'[k] = game_event_stack[k]
    <3> DEFINE s == SetTop(game_event_stack, called)
    <3>1. /\ Len(Append(s, event)) = Len(s) + 1
          /\ Append(s, event)[Len(s) + 1] = event
          /\ \A k \in 1..Len(s) : Append(s, event)[k] = s[k]
      BY <1>1, <2>3, AppendFacts
    <3>2. game_event_stack' = Append(s, event) /\ Len(s) = n /\ s[n] = called
          /\ \A k \in 1..(n - 1) : s[k] = game_event_stack[k]
      BY <2>2, <2>3
    <3> HIDE DEF s
    <3>3. n \in 1..n /\ \A k \in 1..(n - 1) : k \in 1..n
      BY <1>0
    <3>4. QED
      BY <3>1, <3>2, <3>3
  <2>5. \A k \in 1..n : /\ game_event_stack'[k].id = game_event_stack[k].id
                         /\ game_event_stack'[k].status = game_event_stack[k].status
                         /\ game_event_stack'[k].killed = game_event_stack[k].killed
    BY <1>0, <2>1, <2>4 DEF ne
  <2>6. QED
    BY <1>0, <2>2, <2>4, <2>5 DEF event
<1>4. QED
  BY <1>2, <1>3

\* An event that runs exit functions only forgets the event it called.
LEMMA ExitView ==
  ASSUME TypeOK, Exit
  PROVE  /\ Len(game_event_stack') = Len(game_event_stack)
         /\ \A k \in 1..Len(game_event_stack) :
              /\ game_event_stack'[k].id = game_event_stack[k].id
              /\ game_event_stack'[k].status = game_event_stack[k].status
              /\ game_event_stack'[k].killed = game_event_stack[k].killed
         /\ Len(cleaner_stack') = Len(cleaner_stack)
         /\ \A c \in 1..Len(cleaner_stack) :
              /\ cleaner_stack'[c].id = cleaner_stack[c].id
              /\ cleaner_stack'[c].event = cleaner_stack[c].event
         /\ current_event_id' = current_event_id
<1> DEFINE done == [Caller EXCEPT !.callee = 0]
<1>0. Running /\ (CleanerRuns \/ EventRuns) /\ current_event_id' = current_event_id
  BY DEF Exit, ExitThen, ids
<1>1. CASE CleanerRuns
  <2>1. done \in CleanerRecord /\ done.id = ce.id /\ done.event = ce.event
    BY <1>0, <1>1, CallerRecord DEF CleanerRecord
  <2>2. cleaner_stack' = SetTop(cleaner_stack, done) /\ game_event_stack' = game_event_stack
    BY <1>1 DEF Exit, ExitThen
  <2> HIDE DEF done
  <2>3. cleaner_stack \in Seq(CleanerRecord) /\ cleaner_stack # <<>>
    BY <1>1 DEF TypeOK, StacksTyped, CleanerRuns
  <2>4. Len(cleaner_stack) \in Nat /\ ce = cleaner_stack[Len(cleaner_stack)]
    BY <2>3 DEF ce
  <2>5. /\ Len(cleaner_stack') = Len(cleaner_stack)
        /\ cleaner_stack'[Len(cleaner_stack)] = done
        /\ \A c \in 1..(Len(cleaner_stack) - 1) : cleaner_stack'[c] = cleaner_stack[c]
    <3>1. /\ Len(SetTop(cleaner_stack, done)) = Len(cleaner_stack)
          /\ SetTop(cleaner_stack, done)[Len(cleaner_stack)] = done
          /\ \A c \in 1..(Len(cleaner_stack) - 1) :
               SetTop(cleaner_stack, done)[c] = cleaner_stack[c]
      BY <2>1, <2>3, SetTopFacts
    <3>2. QED
      BY <2>2, <3>1
  <2>6. \A c \in 1..Len(cleaner_stack) :
          /\ cleaner_stack'[c].id = cleaner_stack[c].id
          /\ cleaner_stack'[c].event = cleaner_stack[c].event
    BY <2>1, <2>4, <2>5
  <2>7. QED
    BY <1>0, <2>2, <2>5, <2>6
<1>2. CASE ~CleanerRuns
  <2>1. /\ done \in EventRecord
        /\ done.id = ne.id /\ done.status = ne.status /\ done.killed = ne.killed
    <3>1. Caller = ne /\ Caller \in EventRecord
      BY <1>0, <1>2, CallerRecord
    <3>2. QED
      BY <3>1 DEF EventRecord
  <2>2. game_event_stack' = SetTop(game_event_stack, done) /\ cleaner_stack' = cleaner_stack
    BY <1>2 DEF Exit, ExitThen
  <2> HIDE DEF done
  <2>3. game_event_stack \in Seq(EventRecord) /\ game_event_stack # <<>>
    BY <1>0 DEF TypeOK, StacksTyped, Running
  <2>4. Len(game_event_stack) \in Nat /\ ne = game_event_stack[Len(game_event_stack)]
    BY <2>3 DEF ne
  <2>5. /\ Len(game_event_stack') = Len(game_event_stack)
        /\ game_event_stack'[Len(game_event_stack)] = done
        /\ \A k \in 1..(Len(game_event_stack) - 1) : game_event_stack'[k] = game_event_stack[k]
    <3>1. /\ Len(SetTop(game_event_stack, done)) = Len(game_event_stack)
          /\ SetTop(game_event_stack, done)[Len(game_event_stack)] = done
          /\ \A k \in 1..(Len(game_event_stack) - 1) :
               SetTop(game_event_stack, done)[k] = game_event_stack[k]
      <4>1. done \in EventRecord
        BY <2>1
      <4>2. QED
        BY <2>3, <4>1, SetTopFacts
    <3>2. QED
      BY <2>2, <3>1
  <2>6. \A k \in 1..Len(game_event_stack) :
          /\ game_event_stack'[k].id = game_event_stack[k].id
          /\ game_event_stack'[k].status = game_event_stack[k].status
          /\ game_event_stack'[k].killed = game_event_stack[k].killed
    BY <2>1, <2>4, <2>5
  <2>7. QED
    BY <1>0, <2>2, <2>5, <2>6
<1>3. QED
  BY <1>1, <1>2

\* Beginning a clean-up marks the newest event and adds the clean-up for it.
LEMMA ClearView ==
  ASSUME TypeOK, Running, NEW interrupted \in BOOLEAN,
         ClearEvent(interrupted, current_event_id)
  PROVE  LET n == Len(game_event_stack)
             l == Len(cleaner_stack)
         IN
         /\ n \in Nat \ {0} /\ Len(game_event_stack') = n
         /\ \A k \in 1..n : /\ game_event_stack'[k].id = game_event_stack[k].id
                            /\ game_event_stack'[k].killed = game_event_stack[k].killed
         /\ \A k \in 1..(n - 1) : game_event_stack'[k].status = game_event_stack[k].status
         /\ game_event_stack'[n].status = "dead"
         /\ l \in Nat /\ Len(cleaner_stack') = l + 1
         /\ \A c \in 1..l : cleaner_stack'[c] = cleaner_stack[c]
         /\ cleaner_stack'[l + 1] = [id |-> current_event_id, event |-> ne.id, callee |-> 0]
         /\ current_event_id' = current_event_id
<1> DEFINE n == Len(game_event_stack)
           dead == [ne EXCEPT !.interrupted = interrupted, !.status = "dead"]
           cleaner == [id |-> current_event_id, event |-> ne.id, callee |-> 0]
<1>0. /\ game_event_stack \in Seq(EventRecord) /\ cleaner_stack \in Seq(CleanerRecord)
      /\ game_event_stack # <<>> /\ current_event_id' = current_event_id
  BY DEF TypeOK, StacksTyped, Running, ClearEvent, ids
<1>1. ne \in EventRecord /\ ne = game_event_stack[n] /\ n \in Nat \ {0}
  BY TopRecords DEF ne
<1>2. /\ dead \in EventRecord
      /\ dead.id = ne.id /\ dead.status = "dead" /\ dead.killed = ne.killed
  BY <1>1 DEF EventRecord
<1>3. cleaner \in CleanerRecord
  BY <1>1 DEF TypeOK, EventRecord, CleanerRecord
<1>4. game_event_stack' = SetTop(game_event_stack, dead) /\ cleaner_stack' = Append(cleaner_stack, cleaner)
  BY DEF ClearEvent
<1> HIDE DEF dead, cleaner
<1>5. /\ Len(game_event_stack') = n
      /\ game_event_stack'[n] = dead
      /\ \A k \in 1..(n - 1) : game_event_stack'[k] = game_event_stack[k]
  <2>1. /\ Len(SetTop(game_event_stack, dead)) = n
        /\ SetTop(game_event_stack, dead)[n] = dead
        /\ \A k \in 1..(n - 1) : SetTop(game_event_stack, dead)[k] = game_event_stack[k]
    BY <1>0, <1>2, SetTopFacts
  <2>2. QED
    BY <1>4, <2>1
<1>6. /\ \A k \in 1..n : /\ game_event_stack'[k].id = game_event_stack[k].id
                         /\ game_event_stack'[k].killed = game_event_stack[k].killed
      /\ \A k \in 1..(n - 1) : game_event_stack'[k].status = game_event_stack[k].status
  BY <1>1, <1>2, <1>5
<1>7. /\ Len(cleaner_stack) \in Nat /\ Len(cleaner_stack') = Len(cleaner_stack) + 1
      /\ \A c \in 1..Len(cleaner_stack) : cleaner_stack'[c] = cleaner_stack[c]
      /\ cleaner_stack'[Len(cleaner_stack) + 1] = cleaner
  BY <1>0, <1>3, <1>4, AppendFacts
<1>8. QED
  BY <1>0, <1>1, <1>2, <1>5, <1>6, <1>7 DEF cleaner

\* A shutdown changes nothing but what is killed.
LEMMA ShutdownView ==
  ASSUME TypeOK, NEW k \in 1..Len(game_event_stack), Shutdown(k)
  PROVE  /\ Len(game_event_stack') = Len(game_event_stack)
         /\ \A j \in 1..Len(game_event_stack) :
              /\ game_event_stack'[j].id = game_event_stack[j].id
              /\ game_event_stack'[j].status = game_event_stack[j].status
              /\ game_event_stack'[j].killed =
                   (game_event_stack[j].killed \/ j \in k..Len(game_event_stack))
         /\ cleaner_stack' = cleaner_stack /\ current_event_id' = current_event_id
<1> DEFINE n == Len(game_event_stack)
           shot(j) == [game_event_stack[j] EXCEPT !.killed = @ \/ j \in k..n]
<1>1. ASSUME NEW j \in 1..n
      PROVE  /\ shot(j).id = game_event_stack[j].id
             /\ shot(j).status = game_event_stack[j].status
             /\ shot(j).killed = (game_event_stack[j].killed \/ j \in k..n)
  <2>1. game_event_stack[j] \in EventRecord
    BY DEF TypeOK, StacksTyped
  <2>2. QED
    BY <2>1, Zenon DEF EventRecord
<1>2. game_event_stack' = [j \in 1..n |-> shot(j)]
  BY DEF Shutdown, KillFrom
<1> HIDE DEF shot
<1>3. n \in Nat
  BY DEF TypeOK, StacksTyped
<1>4. Len(game_event_stack') = n /\ \A j \in 1..n : game_event_stack'[j] = shot(j)
  BY <1>2, <1>3
<1>5. cleaner_stack' = cleaner_stack /\ current_event_id' = current_event_id
  BY DEF Shutdown, KillFrom, ids
<1>6. QED
  BY <1>1, <1>4, <1>5

\* The end of a clean-up pops both stacks.
LEMMA DoneView ==
  ASSUME TypeOK, CleanerDone
  PROVE  LET n == Len(game_event_stack)
             l == Len(cleaner_stack)
         IN
         /\ n \in Nat \ {0} /\ Len(game_event_stack') = n - 1
         /\ \A k \in 1..(n - 1) : game_event_stack'[k] = game_event_stack[k]
         /\ l \in Nat \ {0} /\ Len(cleaner_stack') = l - 1
         /\ \A c \in 1..(l - 1) : cleaner_stack'[c] = cleaner_stack[c]
         /\ current_event_id' \in {current_event_id, current_event_id + 1}
<1>1. /\ game_event_stack \in Seq(EventRecord) /\ cleaner_stack \in Seq(CleanerRecord)
      /\ game_event_stack # <<>> /\ cleaner_stack # <<>>
  BY DEF TypeOK, StacksTyped, Running, CleanerDone, FinishWith, CleanerRuns
<1>2. game_event_stack' = Front(game_event_stack) /\ cleaner_stack' = Front(cleaner_stack)
  BY DEF CleanerDone, FinishWith
<1>3. current_event_id' \in {current_event_id, current_event_id + 1}
  BY DEF CleanerDone, FinishWith
<1>4. Len(game_event_stack) \in Nat \ {0} /\ Len(cleaner_stack) \in Nat \ {0}
  BY <1>1
<1>5. QED
  BY <1>1, <1>2, <1>3, <1>4, FrontFacts

LEMMA CallMatch ==
  ASSUME TypeOK, TypeOK', StacksMatch, Call
  PROVE  StacksMatch'
<1> DEFINE n == Len(game_event_stack)
           l == Len(cleaner_stack)
<1>1. /\ n \in Nat \ {0} /\ Len(game_event_stack') = n + 1
      /\ \A k \in 1..n : /\ game_event_stack'[k].id = game_event_stack[k].id
                         /\ game_event_stack'[k].status = game_event_stack[k].status
      /\ game_event_stack'[n + 1].id = current_event_id + 1
      /\ game_event_stack'[n + 1].status = "running"
      /\ l \in Nat /\ Len(cleaner_stack') = l
      /\ \A c \in 1..l : /\ cleaner_stack'[c].id = cleaner_stack[c].id
                         /\ cleaner_stack'[c].event = cleaner_stack[c].event
      /\ current_event_id \in Nat /\ current_event_id' = current_event_id + 1
      /\ \A k \in 1..n : game_event_stack[k].id \in Nat
      /\ \A c \in 1..l : cleaner_stack[c].id \in Nat
  BY CallView, Fields DEF Event, TypeOK, StacksTyped
<1> HIDE DEF n, l
<1>2. \A k \in 1..(n + 1) : k \in 1..n \/ k = n + 1
  BY <1>1
<1>3. EventsInOrder'
  <2>1. /\ \A j, k \in 1..n : j < k => game_event_stack[j].id < game_event_stack[k].id
        /\ \A k \in 1..n : game_event_stack[k].id <= current_event_id
    BY DEF StacksMatch, EventsInOrder, n
  <2>2. /\ \A j, k \in 1..(n + 1) : j < k => game_event_stack'[j].id < game_event_stack'[k].id
        /\ \A k \in 1..(n + 1) : game_event_stack'[k].id <= current_event_id'
    <3>1. ASSUME NEW k \in 1..(n + 1)
          PROVE  game_event_stack'[k].id <= current_event_id'
      <4>1. CASE k \in 1..n
        <5>1. /\ game_event_stack'[k].id = game_event_stack[k].id
              /\ game_event_stack[k].id \in Nat /\ game_event_stack[k].id <= current_event_id
          BY <1>1, <2>1, <4>1
        <5>2. QED
          BY <1>1, <5>1
      <4>2. CASE k = n + 1
        BY <1>1, <4>2
      <4>3. QED
        BY <1>2, <4>1, <4>2
    <3>2. ASSUME NEW j \in 1..(n + 1), NEW k \in 1..(n + 1), j < k
          PROVE  game_event_stack'[j].id < game_event_stack'[k].id
      <4>1. j \in 1..n
        BY <1>1, <3>2
      <4>2. CASE k \in 1..n
        BY <1>1, <2>1, <3>2, <4>1, <4>2
      <4>3. CASE k = n + 1
        BY <1>1, <2>1, <4>1, <4>3, SMTT(30)
      <4>4. QED
        BY <1>2, <4>2, <4>3
    <3>3. QED
      BY <3>1, <3>2
  <2>3. QED
    BY <1>1, <2>2 DEF EventsInOrder
<1>4. CleanersInOrder'
  BY <1>1 DEF StacksMatch, CleanersInOrder, l
<1>5. CleanersHaveEvents'
  <2> SUFFICES ASSUME NEW c \in 1..l
               PROVE  \E k \in 1..(n + 1) :
                        /\ game_event_stack'[k].status = "dead"
                        /\ game_event_stack'[k].id = cleaner_stack'[c].event
                        /\ game_event_stack'[k].id <= cleaner_stack'[c].id
                        /\ cleaner_stack'[c].id <= current_event_id'
                        /\ \A j \in 1..(n + 1) :
                             k < j => cleaner_stack'[c].id < game_event_stack'[j].id
    BY <1>1 DEF CleanersHaveEvents
  <2>1. PICK k \in 1..n :
          /\ game_event_stack[k].status = "dead"
          /\ game_event_stack[k].id = cleaner_stack[c].event
          /\ game_event_stack[k].id <= cleaner_stack[c].id
          /\ cleaner_stack[c].id <= current_event_id
          /\ \A j \in 1..n : k < j => cleaner_stack[c].id < game_event_stack[j].id
    BY DEF StacksMatch, CleanersHaveEvents, n, l
  <2>2. k \in 1..(n + 1)
    BY <1>1
  <2>3. ASSUME NEW j \in 1..(n + 1), k < j
        PROVE  cleaner_stack'[c].id < game_event_stack'[j].id
    <3>1. CASE j \in 1..n
      BY <1>1, <2>1, <2>3, <3>1
    <3>2. CASE j = n + 1
      <4>1. game_event_stack'[j].id = current_event_id + 1 /\ cleaner_stack[c].id \in Nat
        BY <1>1, <3>2
      <4>2. cleaner_stack'[c].id = cleaner_stack[c].id
        BY <1>1
      <4>3. current_event_id \in Nat
        BY <1>1
      <4>4. QED
        BY <2>1, <4>1, <4>2, <4>3
    <3>3. QED
      BY <1>2, <3>1, <3>2
  <2>4. /\ game_event_stack'[k].status = "dead"
        /\ game_event_stack'[k].id = cleaner_stack'[c].event
        /\ game_event_stack'[k].id <= cleaner_stack'[c].id
    BY <1>1, <2>1
  <2>5. cleaner_stack'[c].id <= current_event_id'
    <3>1. cleaner_stack'[c].id = cleaner_stack[c].id /\ cleaner_stack[c].id \in Nat
      BY <1>1
    <3>2. QED
      BY <1>1, <2>1, <3>1
  <2>6. QED
    BY <2>2, <2>3, <2>4, <2>5
<1>6. DeadHaveCleaners'
  <2>1. \A k \in 1..n : game_event_stack[k].status = "dead" =>
          \E c \in 1..l : cleaner_stack[c].event = game_event_stack[k].id
    BY DEF StacksMatch, DeadHaveCleaners, n, l
  <2>2. ASSUME NEW k \in 1..(n + 1), game_event_stack'[k].status = "dead"
        PROVE  \E c \in 1..l : cleaner_stack'[c].event = game_event_stack'[k].id
    <3>1. k \in 1..n
      BY <1>1, <1>2, <2>2
    <3>2. PICK c \in 1..l : cleaner_stack[c].event = game_event_stack[k].id
      BY <1>1, <2>1, <2>2, <3>1
    <3>3. QED
      BY <1>1, <3>1, <3>2
  <2>3. QED
    BY <1>1, <2>2 DEF DeadHaveCleaners
<1>7. QED
  BY <1>3, <1>4, <1>5, <1>6 DEF StacksMatch

LEMMA ClearMatch ==
  ASSUME TypeOK, TypeOK', StacksMatch, Running, ~CleanerRuns,
         NEW interrupted \in BOOLEAN, ClearEvent(interrupted, current_event_id)
  PROVE  StacksMatch'
<1> DEFINE n == Len(game_event_stack)
           l == Len(cleaner_stack)
<1>1. /\ n \in Nat \ {0} /\ Len(game_event_stack') = n
      /\ \A k \in 1..n : game_event_stack'[k].id = game_event_stack[k].id
      /\ \A k \in 1..(n - 1) : game_event_stack'[k].status = game_event_stack[k].status
      /\ game_event_stack'[n].status = "dead"
      /\ l \in Nat /\ Len(cleaner_stack') = l + 1
      /\ \A c \in 1..l : cleaner_stack'[c] = cleaner_stack[c]
      /\ cleaner_stack'[l + 1].id = current_event_id
      /\ cleaner_stack'[l + 1].event = game_event_stack[n].id
      /\ current_event_id \in Nat /\ current_event_id' = current_event_id
      /\ \A k \in 1..n : game_event_stack[k].id \in Nat
      /\ \A c \in 1..l : cleaner_stack[c].id \in Nat /\ cleaner_stack[c].event \in Nat
  BY ClearView, Fields DEF ne, TypeOK
<1>2. game_event_stack[n].status # "dead"
  BY TopDead DEF ne
<1> HIDE DEF n, l
<1>3. EventsInOrder'
  BY <1>1 DEF StacksMatch, EventsInOrder, n
<1>4. \A c \in 1..l : \E k \in 1..(n - 1) :
        /\ game_event_stack[k].status = "dead"
        /\ game_event_stack[k].id = cleaner_stack[c].event
        /\ game_event_stack[k].id <= cleaner_stack[c].id
        /\ cleaner_stack[c].id <= current_event_id
        /\ \A j \in 1..n : k < j => cleaner_stack[c].id < game_event_stack[j].id
  <2> TAKE c \in 1..l
  <2>1. PICK k \in 1..n :
          /\ game_event_stack[k].status = "dead"
          /\ game_event_stack[k].id = cleaner_stack[c].event
          /\ game_event_stack[k].id <= cleaner_stack[c].id
          /\ cleaner_stack[c].id <= current_event_id
          /\ \A j \in 1..n : k < j => cleaner_stack[c].id < game_event_stack[j].id
    BY DEF StacksMatch, CleanersHaveEvents, n, l
  <2>2. k \in 1..(n - 1)
    BY <1>1, <1>2, <2>1
  <2>3. QED
    BY <2>1, <2>2
<1>5. \A c \in 1..(l + 1) : c \in 1..l \/ c = l + 1
  BY <1>1
<1>6. CleanersInOrder'
  <2>1. \A c, d \in 1..l : c < d => cleaner_stack[c].event < cleaner_stack[d].event
    BY DEF StacksMatch, CleanersInOrder, l
  <2>2. ASSUME NEW c \in 1..l
        PROVE  cleaner_stack[c].event < game_event_stack[n].id
    <3>1. PICK k \in 1..(n - 1) : game_event_stack[k].id = cleaner_stack[c].event
      BY <1>4
    <3>2. game_event_stack[k].id < game_event_stack[n].id
      BY <1>1 DEF StacksMatch, EventsInOrder, n
    <3>3. QED
      BY <3>1, <3>2
  <2>3. ASSUME NEW c \in 1..(l + 1), NEW d \in 1..(l + 1), c < d
        PROVE  cleaner_stack'[c].event < cleaner_stack'[d].event
    <3>1. c \in 1..l /\ cleaner_stack'[c].event = cleaner_stack[c].event
      BY <1>1, <2>3
    <3>2. CASE d \in 1..l
      <4>1. cleaner_stack'[d] = cleaner_stack[d]
        BY <1>1, <3>2
      <4>2. cleaner_stack[c].event < cleaner_stack[d].event
        BY <2>1, <2>3, <3>1, <3>2
      <4>3. QED
        BY <3>1, <4>1, <4>2
    <3>3. CASE d = l + 1
      BY <1>1, <2>2, <3>1, <3>3
    <3>4. QED
      BY <1>5, <3>2, <3>3
  <2>4. QED
    BY <1>1, <2>3 DEF CleanersInOrder
<1>7. CleanersHaveEvents'
  <2> SUFFICES ASSUME NEW c \in 1..(l + 1)
               PROVE  \E k \in 1..n :
                        /\ game_event_stack'[k].status = "dead"
                        /\ game_event_stack'[k].id = cleaner_stack'[c].event
                        /\ game_event_stack'[k].id <= cleaner_stack'[c].id
                        /\ cleaner_stack'[c].id <= current_event_id'
                        /\ \A j \in 1..n :
                             k < j => cleaner_stack'[c].id < game_event_stack'[j].id
    BY <1>1 DEF CleanersHaveEvents
  <2>1. CASE c \in 1..l
    <3>1. PICK k \in 1..(n - 1) :
            /\ game_event_stack[k].status = "dead"
            /\ game_event_stack[k].id = cleaner_stack[c].event
            /\ game_event_stack[k].id <= cleaner_stack[c].id
            /\ cleaner_stack[c].id <= current_event_id
            /\ \A j \in 1..n : k < j => cleaner_stack[c].id < game_event_stack[j].id
      BY <1>4, <2>1
    <3>2. k \in 1..n /\ game_event_stack'[k].id = game_event_stack[k].id
          /\ game_event_stack'[k].status = game_event_stack[k].status
      BY <1>1
    <3>3. cleaner_stack'[c] = cleaner_stack[c] /\ current_event_id' = current_event_id
      BY <1>1, <2>1
    <3>4. \A j \in 1..n : k < j => cleaner_stack'[c].id < game_event_stack'[j].id
      BY <1>1, <3>1, <3>3
    <3>5. QED
      BY <3>1, <3>2, <3>3, <3>4
  <2>2. CASE c = l + 1
    <3>1. n \in 1..n /\ game_event_stack[n].id <= current_event_id
      BY <1>1 DEF StacksMatch, EventsInOrder, n
    <3>2. QED
      BY <1>1, <2>2, <3>1
  <2>3. QED
    BY <1>5, <2>1, <2>2
<1>8. DeadHaveCleaners'
  <2> SUFFICES ASSUME NEW k \in 1..n, game_event_stack'[k].status = "dead"
               PROVE  \E c \in 1..(l + 1) : cleaner_stack'[c].event = game_event_stack'[k].id
    BY <1>1 DEF DeadHaveCleaners
  <2>1. CASE k = n
    BY <1>1, <2>1
  <2>2. CASE k # n
    <3>1. k \in 1..(n - 1)
      BY <1>1, <2>2
    <3>2. game_event_stack[k].status = "dead"
      BY <1>1, <3>1
    <3>3. PICK c \in 1..l : cleaner_stack[c].event = game_event_stack[k].id
      BY <3>2 DEF StacksMatch, DeadHaveCleaners, n, l
    <3>4. QED
      BY <1>1, <3>3
  <2>3. QED
    BY <2>1, <2>2
<1>9. QED
  BY <1>3, <1>6, <1>7, <1>8 DEF StacksMatch

LEMMA DoneMatch ==
  ASSUME TypeOK, TypeOK', StacksMatch, CleanerDone
  PROVE  StacksMatch'
<1> DEFINE n == Len(game_event_stack)
           l == Len(cleaner_stack)
<1>1. /\ n \in Nat \ {0} /\ Len(game_event_stack') = n - 1
      /\ \A k \in 1..(n - 1) : game_event_stack'[k] = game_event_stack[k]
      /\ l \in Nat \ {0} /\ Len(cleaner_stack') = l - 1
      /\ \A c \in 1..(l - 1) : cleaner_stack'[c] = cleaner_stack[c]
      /\ current_event_id \in Nat
      /\ current_event_id' \in {current_event_id, current_event_id + 1}
      /\ \A k \in 1..n : game_event_stack[k].id \in Nat
      /\ \A c \in 1..l : cleaner_stack[c].id \in Nat /\ cleaner_stack[c].event \in Nat
  BY DoneView, Fields DEF TypeOK
<1>2. cleaner_stack[l].event = game_event_stack[n].id
  BY TopDead DEF CleanerDone, FinishWith, ce, ne
<1> HIDE DEF n, l
<1>3. EventsInOrder'
  <2>1. /\ \A j, k \in 1..n : j < k => game_event_stack[j].id < game_event_stack[k].id
        /\ \A k \in 1..n : game_event_stack[k].id <= current_event_id
    BY DEF StacksMatch, EventsInOrder, n
  <2>2. \A k \in 1..(n - 1) : k \in 1..n
    BY <1>1
  <2>3. \A j, k \in 1..(n - 1) : j < k => game_event_stack'[j].id < game_event_stack'[k].id
    BY <1>1, <2>1, <2>2
  <2>4. ASSUME NEW k \in 1..(n - 1)
        PROVE  game_event_stack'[k].id <= current_event_id'
    <3>1. /\ game_event_stack'[k].id \in Nat
          /\ game_event_stack'[k].id <= current_event_id
      BY <1>1, <2>1, <2>2
    <3>2. QED
      BY <1>1, <3>1
  <2>5. QED
    BY <1>1, <2>3, <2>4 DEF EventsInOrder
<1>4. CleanersInOrder'
  <2>1. \A c, d \in 1..l : c < d => cleaner_stack[c].event < cleaner_stack[d].event
    BY DEF StacksMatch, CleanersInOrder, l
  <2>2. \A c \in 1..(l - 1) : c \in 1..l
    BY <1>1
  <2>3. QED
    BY <1>1, <2>1, <2>2 DEF CleanersInOrder
<1>5. CleanersHaveEvents'
  <2> SUFFICES ASSUME NEW c \in 1..(l - 1)
               PROVE  \E k \in 1..(n - 1) :
                        /\ game_event_stack'[k].status = "dead"
                        /\ game_event_stack'[k].id = cleaner_stack'[c].event
                        /\ game_event_stack'[k].id <= cleaner_stack'[c].id
                        /\ cleaner_stack'[c].id <= current_event_id'
                        /\ \A j \in 1..(n - 1) :
                             k < j => cleaner_stack'[c].id < game_event_stack'[j].id
    BY <1>1 DEF CleanersHaveEvents
  <2>1. c \in 1..l /\ c < l /\ l \in 1..l
    BY <1>1
  <2>2. PICK k \in 1..n :
          /\ game_event_stack[k].status = "dead"
          /\ game_event_stack[k].id = cleaner_stack[c].event
          /\ game_event_stack[k].id <= cleaner_stack[c].id
          /\ cleaner_stack[c].id <= current_event_id
          /\ \A j \in 1..n : k < j => cleaner_stack[c].id < game_event_stack[j].id
    BY <2>1 DEF StacksMatch, CleanersHaveEvents, n, l
  <2>3. cleaner_stack[c].event < cleaner_stack[l].event
    BY <2>1 DEF StacksMatch, CleanersInOrder, l
  <2>4. k # n
    <3>1. cleaner_stack[c].event \in Nat /\ cleaner_stack[c].event # cleaner_stack[l].event
      BY <1>1, <2>1, <2>3
    <3>2. QED
      BY <1>2, <2>2, <3>1
  <2>5. k \in 1..(n - 1)
    BY <1>1, <2>4
  <2>6. ASSUME NEW j \in 1..(n - 1), k < j
        PROVE  cleaner_stack'[c].id < game_event_stack'[j].id
    <3>1. /\ j \in 1..n /\ cleaner_stack'[c] = cleaner_stack[c]
          /\ game_event_stack'[j] = game_event_stack[j]
      BY <1>1
    <3>2. QED
      BY <2>2, <2>6, <3>1
  <2>7. cleaner_stack'[c].id <= current_event_id'
    <3>1. cleaner_stack'[c] = cleaner_stack[c] /\ cleaner_stack[c].id \in Nat
      BY <1>1, <2>1
    <3>2. QED
      BY <1>1, <2>2, <3>1, SMTT(30)
  <2>8. QED
    BY <1>1, <2>2, <2>5, <2>6, <2>7
<1>6. DeadHaveCleaners'
  <2> SUFFICES ASSUME NEW k \in 1..(n - 1), game_event_stack'[k].status = "dead"
               PROVE  \E c \in 1..(l - 1) : cleaner_stack'[c].event = game_event_stack'[k].id
    BY <1>1 DEF DeadHaveCleaners
  <2>1. k \in 1..n /\ n \in 1..n /\ k < n /\ game_event_stack'[k] = game_event_stack[k]
    BY <1>1
  <2>2. PICK c \in 1..l : cleaner_stack[c].event = game_event_stack[k].id
    BY <2>1 DEF StacksMatch, DeadHaveCleaners, n, l
  <2>3. game_event_stack[k].id < game_event_stack[n].id
    BY <2>1 DEF StacksMatch, EventsInOrder, n
  <2>4. c # l
    BY <1>1, <1>2, <2>1, <2>2, <2>3
  <2>5. c \in 1..(l - 1)
    BY <1>1, <2>4
  <2>6. QED
    BY <1>1, <2>1, <2>2, <2>5
<1>7. QED
  BY <1>3, <1>4, <1>5, <1>6 DEF StacksMatch

LEMMA MatchStep == TypeOK /\ TypeOK' /\ StacksMatch /\ [Next]_vars => StacksMatch'
<1> SUFFICES ASSUME TypeOK, TypeOK', StacksMatch, [Next]_vars PROVE StacksMatch'
  OBVIOUS
<1>1. CASE Call
  BY <1>1, CallMatch
<1>2. CASE Exit
  BY <1>2, ExitView, SameView
<1>3. CASE Return
  BY <1>3, ClearMatch DEF Return, EventRuns
<1>4. CASE ClearKilled
  BY <1>4, ClearMatch DEF ClearKilled
<1>5. ASSUME NEW k \in 1..Len(game_event_stack), Shutdown(k) PROVE StacksMatch'
  BY <1>5, ShutdownView, SameView
<1>6. CASE CleanerDone
  BY <1>6, DoneMatch
<1>7. CASE GameOver
  BY <1>7, SameView DEF GameOver, stacks, ids
<1>8. CASE UNCHANGED vars
  BY <1>8, SameView DEF vars, stacks, ids
<1>9. QED
  BY <1>1, <1>2, <1>3, <1>4, <1>5, <1>6, <1>7, <1>8 DEF Next

\* The stack of clean-ups always mirrors the dead events of the stack of events.
THEOREM StacksAgree == Spec => []StacksMatch
<1>1. TypeOK /\ TypeOK' /\ StacksMatch /\ [Next]_vars => StacksMatch'
  BY MatchStep
<1>2. QED
  BY <1>1, InitMatch, Typing, PTL DEF Spec

\* ClearEvent:main pops whatever is on top of game_event_stack: that is always
\* the event it was made for, however many events the clean-up has called.
THEOREM PopsItsOwnEvent == Spec => []CleansNewest
<1>1. TypeOK /\ StacksMatch => CleansNewest
  BY TopDead DEF CleansNewest
<1>2. QED
  BY <1>1, StacksAgree, Typing, PTL

-----------------------------------------------------------------------------
(* What a shutdown kills.                                                   *)

LEMMA InitKilled == Init => KilledUpwards
  BY DEF Init, Event, KilledUpwards

LEMMA CallKilled ==
  ASSUME TypeOK, StacksMatch, KilledUpwards, Call
  PROVE  KilledUpwards'
<1> DEFINE n == Len(game_event_stack)
<1>1. /\ n \in Nat \ {0} /\ Len(game_event_stack') = n + 1
      /\ \A k \in 1..n : /\ game_event_stack'[k].status = game_event_stack[k].status
                         /\ game_event_stack'[k].killed = game_event_stack[k].killed
      /\ ~game_event_stack'[n + 1].killed
  BY CallView DEF Event
<1>2. ~game_event_stack[n].killed \/ game_event_stack[n].status = "dead"
  BY TopDead DEF Call, CallWith, EventRuns, ne
<1>3. \A j, k \in 1..n :
        j < k /\ game_event_stack[j].killed /\ ~game_event_stack[k].killed =>
          \E m \in j..(k - 1) : game_event_stack[m].status = "dead"
  BY DEF KilledUpwards
<1> HIDE DEF n
<1> SUFFICES ASSUME NEW j \in 1..(n + 1), NEW k \in 1..(n + 1), j < k,
                    game_event_stack'[j].killed, ~game_event_stack'[k].killed
             PROVE  \E m \in j..(k - 1) : game_event_stack'[m].status = "dead"
  BY <1>1 DEF KilledUpwards
<1>4. j \in 1..n /\ n \in 1..n /\ game_event_stack[j].killed
  BY <1>1
<1>5. CASE k \in 1..n
  <2>1. PICK m \in j..(k - 1) : game_event_stack[m].status = "dead"
    BY <1>1, <1>3, <1>4, <1>5
  <2>2. m \in 1..n
    BY <1>1, <1>5
  <2>3. QED
    BY <1>1, <2>1, <2>2
<1>6. CASE k = n + 1
  <2>1. CASE game_event_stack[n].status = "dead"
    <3>1. n \in j..(k - 1)
      BY <1>1, <1>4, <1>6
    <3>2. QED
      BY <1>1, <1>4, <2>1, <3>1
  <2>2. CASE ~game_event_stack[n].killed
    <3>1. j < n
      BY <1>1, <1>4, <2>2
    <3>2. PICK m \in j..(n - 1) : game_event_stack[m].status = "dead"
      BY <1>3, <1>4, <2>2, <3>1
    <3>3. m \in 1..n /\ m \in j..(k - 1)
      BY <1>1, <1>4, <1>6
    <3>4. QED
      BY <1>1, <3>2, <3>3
  <2>3. QED
    BY <1>2, <2>1, <2>2
<1>7. QED
  BY <1>1, <1>5, <1>6

\* Steps that keep the events, kill none and at most mark some as dead.
LEMMA KeepKilled ==
  ASSUME KilledUpwards, Len(game_event_stack) \in Nat,
         Len(game_event_stack') \in Nat,
         Len(game_event_stack') <= Len(game_event_stack),
         \A k \in 1..Len(game_event_stack') :
           /\ game_event_stack'[k].killed = game_event_stack[k].killed
           /\ game_event_stack[k].status = "dead" => game_event_stack'[k].status = "dead"
  PROVE  KilledUpwards'
<1> SUFFICES ASSUME NEW j \in 1..Len(game_event_stack'), NEW k \in 1..Len(game_event_stack'),
                    j < k, game_event_stack'[j].killed, ~game_event_stack'[k].killed
             PROVE  \E m \in j..(k - 1) : game_event_stack'[m].status = "dead"
  BY DEF KilledUpwards
<1>1. j \in 1..Len(game_event_stack) /\ k \in 1..Len(game_event_stack)
  OBVIOUS
<1>2. PICK m \in j..(k - 1) : game_event_stack[m].status = "dead"
  BY <1>1 DEF KilledUpwards
<1>3. m \in 1..Len(game_event_stack')
  OBVIOUS
<1>4. QED
  BY <1>2, <1>3

LEMMA ShutdownKilled ==
  ASSUME TypeOK, KilledUpwards, NEW i \in 1..Len(game_event_stack), Shutdown(i)
  PROVE  KilledUpwards'
<1> DEFINE n == Len(game_event_stack)
<1>1. /\ n \in Nat /\ Len(game_event_stack') = n
      /\ \A j \in 1..n :
           /\ game_event_stack'[j].status = game_event_stack[j].status
           /\ game_event_stack'[j].killed = (game_event_stack[j].killed \/ j \in i..n)
  BY ShutdownView DEF TypeOK, StacksTyped
<1>2. \A j, k \in 1..n :
        j < k /\ game_event_stack[j].killed /\ ~game_event_stack[k].killed =>
          \E m \in j..(k - 1) : game_event_stack[m].status = "dead"
  BY DEF KilledUpwards
<1> SUFFICES ASSUME NEW j \in 1..n, NEW k \in 1..n, j < k,
                    game_event_stack'[j].killed, ~game_event_stack'[k].killed
             PROVE  \E m \in j..(k - 1) : game_event_stack'[m].status = "dead"
  BY <1>1 DEF KilledUpwards
<1> HIDE DEF n
<1>3. ~game_event_stack[k].killed /\ k < i
  <2>1. ~(game_event_stack[k].killed \/ k \in i..n)
    BY <1>1, Zenon
  <2>2. k \notin i..n => k < i
    BY <1>1 DEF n
  <2>3. QED
    BY <2>1, <2>2
<1>4. game_event_stack[j].killed
  <2>1. game_event_stack[j].killed \/ j \in i..n
    BY <1>1, Zenon
  <2>2. j \notin i..n
    BY <1>1, <1>3 DEF n
  <2>3. QED
    BY <2>1, <2>2
<1>5. PICK m \in j..(k - 1) : game_event_stack[m].status = "dead"
  BY <1>2, <1>3, <1>4
<1>6. m \in 1..n
  BY <1>1
<1>7. QED
  BY <1>1, <1>5, <1>6

\* Above an event that was shut down nothing goes on but what a clean-up called.
THEOREM ShutdownReachesAll == Spec => []KilledUpwards
<1>1. TypeOK /\ StacksMatch /\ KilledUpwards /\ [Next]_vars => KilledUpwards'
  <2> SUFFICES ASSUME TypeOK, StacksMatch, KilledUpwards, [Next]_vars PROVE KilledUpwards'
    OBVIOUS
  <2>0. Len(game_event_stack) \in Nat
    BY DEF TypeOK, StacksTyped
  <2>1. CASE Call
    BY <2>1, CallKilled
  <2>2. CASE Exit
    BY <2>0, <2>2, ExitView, KeepKilled
  <2>3. ASSUME Running, NEW interrupted \in BOOLEAN,
               ClearEvent(interrupted, current_event_id)
        PROVE  KilledUpwards'
    <3> DEFINE n == Len(game_event_stack)
    <3>1. /\ Len(game_event_stack') = n
          /\ \A k \in 1..n : game_event_stack'[k].killed = game_event_stack[k].killed
          /\ \A k \in 1..(n - 1) : game_event_stack'[k].status = game_event_stack[k].status
          /\ game_event_stack'[n].status = "dead"
      BY <2>3, ClearView
    <3>2. \A k \in 1..n :
            game_event_stack[k].status = "dead" => game_event_stack'[k].status = "dead"
      BY <2>0, <3>1
    <3>3. QED
      BY <2>0, <3>1, <3>2, KeepKilled
  <2>4. CASE Return
    BY <2>3, <2>4 DEF Return, EventRuns
  <2>5. CASE ClearKilled
    BY <2>3, <2>5 DEF ClearKilled
  <2>6. ASSUME NEW k \in 1..Len(game_event_stack), Shutdown(k) PROVE KilledUpwards'
    BY <2>6, ShutdownKilled
  <2>7. CASE CleanerDone
    <3> DEFINE n == Len(game_event_stack)
    <3>1. /\ n \in Nat \ {0} /\ Len(game_event_stack') = n - 1
          /\ \A k \in 1..(n - 1) : game_event_stack'[k] = game_event_stack[k]
      BY <2>7, DoneView
    <3>2. Len(game_event_stack') \in Nat /\ Len(game_event_stack') <= n
      BY <3>1
    <3>3. QED
      BY <2>0, <3>1, <3>2, KeepKilled
  <2>8. CASE UNCHANGED game_event_stack
    BY <2>0, <2>8, KeepKilled
  <2>9. QED
    BY <2>1, <2>2, <2>4, <2>5, <2>6, <2>7, <2>8 DEF Next, GameOver, vars, stacks
<1>2. QED
  BY <1>1, InitKilled, StacksAgree, Typing, PTL DEF Spec

-----------------------------------------------------------------------------
(* What each action does to the parents and the callees of events, and to   *)
(* the callees of clean-ups.                                                 *)

\* Whoever runs gets another callee, and nothing else changes.
LEMMA CalleeOfEvent ==
  ASSUME TypeOK, game_event_stack # <<>>, NEW c \in Nat
  PROVE  LET n == Len(game_event_stack)
             s == SetTop(game_event_stack, [ne EXCEPT !.callee = c])
         IN
         /\ s \in Seq(EventRecord) /\ Len(s) = n
         /\ s[n].id = ne.id /\ s[n].parent = ne.parent /\ s[n].callee = c
         /\ \A k \in 1..(n - 1) : s[k] = game_event_stack[k]
<1> DEFINE called == [ne EXCEPT !.callee = c]
<1>1. game_event_stack \in Seq(EventRecord) /\ ne \in EventRecord
  BY TopFacts DEF TypeOK, StacksTyped, ne
<1>2. /\ called \in EventRecord
      /\ called.id = ne.id /\ called.parent = ne.parent /\ called.callee = c
  BY <1>1 DEF EventRecord
<1> HIDE DEF called
<1> DEFINE n == Len(game_event_stack)
           s == SetTop(game_event_stack, called)
<1>3. s \in Seq(EventRecord) /\ Len(s) = n /\ s[n] = called
      /\ \A k \in 1..(n - 1) : s[k] = game_event_stack[k]
  BY <1>1, <1>2, SetTopFacts, SMTT(60)
<1> HIDE DEF s
<1>4. /\ s[n].id = ne.id /\ s[n].parent = ne.parent /\ s[n].callee = c
  BY <1>2, <1>3
<1>5. QED
  BY <1>3, <1>4, Zenon DEF called, s

LEMMA CalleeOfCleaner ==
  ASSUME TypeOK, cleaner_stack # <<>>, NEW c \in Nat
  PROVE  LET l == Len(cleaner_stack)
             s == SetTop(cleaner_stack, [ce EXCEPT !.callee = c])
         IN
         /\ s \in Seq(CleanerRecord) /\ Len(s) = l
         /\ s[l].event = ce.event /\ s[l].callee = c
         /\ \A k \in 1..(l - 1) : s[k] = cleaner_stack[k]
<1> DEFINE called == [ce EXCEPT !.callee = c]
<1>1. cleaner_stack \in Seq(CleanerRecord) /\ ce \in CleanerRecord
  BY TopFacts DEF TypeOK, StacksTyped, ce
<1>2. called \in CleanerRecord /\ called.event = ce.event /\ called.callee = c
  BY <1>1 DEF CleanerRecord
<1> HIDE DEF called
<1> DEFINE l == Len(cleaner_stack)
           s == SetTop(cleaner_stack, called)
<1>3. s \in Seq(CleanerRecord) /\ Len(s) = l /\ s[l] = called
      /\ \A k \in 1..(l - 1) : s[k] = cleaner_stack[k]
  BY <1>1, <1>2, SetTopFacts, SMTT(60)
<1> HIDE DEF s
<1>4. s[l].event = ce.event /\ s[l].callee = c
  BY <1>2, <1>3
<1>5. QED
  BY <1>3, <1>4, Zenon DEF called, s

\* A call from an event, and a call from a clean-up.
LEMMA CallFromEvent ==
  ASSUME TypeOK, Call, ~CleanerRuns
  PROVE  LET n == Len(game_event_stack) IN
         /\ n \in Nat \ {0} /\ Len(game_event_stack') = n + 1
         /\ \A k \in 1..(n - 1) : game_event_stack'[k] = game_event_stack[k]
         /\ game_event_stack'[n].id = game_event_stack[n].id
         /\ game_event_stack'[n].parent = game_event_stack[n].parent
         /\ game_event_stack'[n].callee = current_event_id + 1
         /\ game_event_stack'[n + 1] = Event(current_event_id + 1, "running", ne.id)
         /\ cleaner_stack' = cleaner_stack
<1> DEFINE n == Len(game_event_stack)
           id == current_event_id + 1
           s == SetTop(game_event_stack, [ne EXCEPT !.callee = id])
           event == Event(id, "running", ne.id)
<1>1. id \in Nat \ {0} /\ game_event_stack # <<>> /\ ne \in EventRecord /\ n \in Nat \ {0}
  BY TopRecords DEF Call, CallWith, Running, TypeOK
<1>2. event \in EventRecord
  BY <1>1 DEF Event, EventRecord
<1>3. /\ s \in Seq(EventRecord) /\ Len(s) = n
      /\ s[n].id = ne.id /\ s[n].parent = ne.parent /\ s[n].callee = id
      /\ \A k \in 1..(n - 1) : s[k] = game_event_stack[k]
  BY <1>1, CalleeOfEvent
<1>4. game_event_stack' = Append(s, event) /\ cleaner_stack' = cleaner_stack
  BY DEF Call, CallWith, Caller
<1> HIDE DEF s, event
<1>5. /\ Len(game_event_stack') = n + 1 /\ game_event_stack'[n + 1] = event
      /\ \A k \in 1..n : game_event_stack'[k] = s[k]
  BY <1>2, <1>3, <1>4, AppendFacts
<1>6. n \in 1..n /\ \A k \in 1..(n - 1) : k \in 1..n
  BY <1>1
<1>7. QED
  BY <1>1, <1>3, <1>4, <1>5, <1>6 DEF ne, event

LEMMA CallFromCleaner ==
  ASSUME TypeOK, Call, CleanerRuns
  PROVE  LET n == Len(game_event_stack)
             l == Len(cleaner_stack)
         IN
         /\ n \in Nat \ {0} /\ Len(game_event_stack') = n + 1
         /\ \A k \in 1..n : game_event_stack'[k] = game_event_stack[k]
         /\ game_event_stack'[n + 1] = Event(current_event_id + 1, "running", ne.id)
         /\ l \in Nat \ {0} /\ Len(cleaner_stack') = l
         /\ \A c \in 1..(l - 1) : cleaner_stack'[c] = cleaner_stack[c]
         /\ cleaner_stack'[l].event = cleaner_stack[l].event
         /\ cleaner_stack'[l].callee = current_event_id + 1
<1> DEFINE n == Len(game_event_stack)
           id == current_event_id + 1
           event == Event(id, "running", ne.id)
<1>1. /\ id \in Nat \ {0} /\ game_event_stack \in Seq(EventRecord) /\ ne \in EventRecord
      /\ n \in Nat \ {0} /\ cleaner_stack # <<>> /\ Len(cleaner_stack) \in Nat \ {0}
  BY TopRecords DEF Call, CallWith, TypeOK, StacksTyped, CleanerRuns
<1>2. event \in EventRecord
  BY <1>1 DEF Event, EventRecord
<1>3. /\ game_event_stack' = Append(game_event_stack, event)
      /\ cleaner_stack' = SetTop(cleaner_stack, [ce EXCEPT !.callee = id])
  BY DEF Call, CallWith, Caller
<1> HIDE DEF event
<1>4. /\ Len(game_event_stack') = n + 1 /\ game_event_stack'[n + 1] = event
      /\ \A k \in 1..n : game_event_stack'[k] = game_event_stack[k]
  BY <1>1, <1>2, <1>3, AppendFacts
<1>5. QED
  BY <1>1, <1>3, <1>4, CalleeOfCleaner DEF ce, event

\* The return from a call to an event, and to a clean-up.
LEMMA ExitToEvent ==
  ASSUME TypeOK, Exit, ~CleanerRuns
  PROVE  LET n == Len(game_event_stack) IN
         /\ n \in Nat \ {0} /\ Len(game_event_stack') = n
         /\ \A k \in 1..(n - 1) : game_event_stack'[k] = game_event_stack[k]
         /\ game_event_stack'[n].id = game_event_stack[n].id
         /\ game_event_stack'[n].parent = game_event_stack[n].parent
         /\ game_event_stack'[n].callee = 0
         /\ cleaner_stack' = cleaner_stack
         /\ game_event_stack[n].callee # 0
         /\ exited' = [exited EXCEPT ![game_event_stack[n].callee] = @ + 1]
<1> DEFINE n == Len(game_event_stack)
<1>1. game_event_stack # <<>> /\ ne = game_event_stack[n] /\ n \in Nat \ {0}
  BY TopRecords DEF Exit, ExitThen, Running, ne
<1>2. /\ game_event_stack' = SetTop(game_event_stack, [ne EXCEPT !.callee = 0])
      /\ cleaner_stack' = cleaner_stack
      /\ ne.callee # 0 /\ exited' = [exited EXCEPT ![ne.callee] = @ + 1]
  BY DEF Exit, ExitThen, Caller, Returned
<1>3. QED
  BY <1>1, <1>2, CalleeOfEvent

LEMMA ExitToCleaner ==
  ASSUME TypeOK, Exit, CleanerRuns
  PROVE  LET l == Len(cleaner_stack) IN
         /\ l \in Nat \ {0} /\ Len(cleaner_stack') = l
         /\ \A c \in 1..(l - 1) : cleaner_stack'[c] = cleaner_stack[c]
         /\ cleaner_stack'[l].event = cleaner_stack[l].event
         /\ cleaner_stack'[l].callee = 0
         /\ game_event_stack' = game_event_stack
         /\ cleaner_stack[l].callee # 0
         /\ exited' = [exited EXCEPT ![cleaner_stack[l].callee] = @ + 1]
<1> DEFINE l == Len(cleaner_stack)
<1>1. cleaner_stack # <<>> /\ ce = cleaner_stack[l] /\ l \in Nat \ {0}
  BY TopRecords DEF CleanerRuns, ce
<1>2. /\ cleaner_stack' = SetTop(cleaner_stack, [ce EXCEPT !.callee = 0])
      /\ game_event_stack' = game_event_stack
      /\ ce.callee # 0 /\ exited' = [exited EXCEPT ![ce.callee] = @ + 1]
  BY DEF Exit, ExitThen, Caller, Returned
<1>3. QED
  BY <1>1, <1>2, CalleeOfCleaner

\* A clean-up begins.
LEMMA ClearKeeps ==
  ASSUME TypeOK, Running, NEW interrupted \in BOOLEAN,
         ClearEvent(interrupted, current_event_id)
  PROVE  \A k \in 1..Len(game_event_stack) :
           /\ game_event_stack'[k].parent = game_event_stack[k].parent
           /\ game_event_stack'[k].callee = game_event_stack[k].callee
<1> DEFINE n == Len(game_event_stack)
           dead == [ne EXCEPT !.interrupted = interrupted, !.status = "dead"]
<1>0. game_event_stack \in Seq(EventRecord) /\ game_event_stack # <<>>
  BY DEF TypeOK, StacksTyped, Running
<1>1. ne \in EventRecord /\ ne = game_event_stack[n] /\ n \in Nat \ {0}
  BY TopRecords DEF ne
<1>2. dead \in EventRecord /\ dead.parent = ne.parent /\ dead.callee = ne.callee
  BY <1>1 DEF EventRecord
<1>3. game_event_stack' = SetTop(game_event_stack, dead)
  BY DEF ClearEvent
<1> HIDE DEF dead
<1>4. /\ game_event_stack'[n] = dead
      /\ \A k \in 1..(n - 1) : game_event_stack'[k] = game_event_stack[k]
  <2>1. /\ SetTop(game_event_stack, dead)[n] = dead
        /\ \A k \in 1..(n - 1) : SetTop(game_event_stack, dead)[k] = game_event_stack[k]
    BY <1>0, <1>2, SetTopFacts
  <2>2. QED
    BY <1>3, <2>1
<1>5. \A k \in 1..n : k \in 1..(n - 1) \/ k = n
  BY <1>1
<1>6. QED
  BY <1>1, <1>2, <1>4, <1>5

\* A shutdown.
LEMMA ShutdownKeeps ==
  ASSUME TypeOK, NEW k \in 1..Len(game_event_stack), Shutdown(k)
  PROVE  \A j \in 1..Len(game_event_stack) :
           /\ game_event_stack'[j].parent = game_event_stack[j].parent
           /\ game_event_stack'[j].callee = game_event_stack[j].callee
<1> DEFINE n == Len(game_event_stack)
           shot(j) == [game_event_stack[j] EXCEPT !.killed = @ \/ j \in k..n]
<1>1. ASSUME NEW j \in 1..n
      PROVE  shot(j).parent = game_event_stack[j].parent /\ shot(j).callee = game_event_stack[j].callee
  <2>1. game_event_stack[j] \in EventRecord
    BY DEF TypeOK, StacksTyped
  <2>2. QED
    BY <2>1, Zenon DEF EventRecord
<1>2. game_event_stack' = [j \in 1..n |-> shot(j)]
  BY DEF Shutdown, KillFrom
<1> HIDE DEF shot
<1>3. \A j \in 1..n : game_event_stack'[j] = shot(j)
  BY <1>2
<1>4. QED
  BY <1>1, <1>3

-----------------------------------------------------------------------------
(* The ranges of ids of events that have ended are nested.                   *)

\* The parent of an event is the event below it on the stack.
ParentsBelow ==
  \A k \in 1..Len(game_event_stack) :
    game_event_stack[k].parent = IF k = 1 THEN 0 ELSE game_event_stack[k - 1].id

\* An event that has ended has its own range of ids, all of them used already.
EndedNumbers ==
  \A a \in ended :
    /\ a.id \in Nat \ {0} /\ a.end \in Nat /\ a.parent \in Nat
    /\ a.parent < a.id /\ a.id <= a.end /\ a.end <= current_event_id

\* It is off the stack, and no newer event on the stack lies in its range.
EndedApart ==
  \A a \in ended, k \in 1..Len(game_event_stack) :
    /\ a.id # game_event_stack[k].id
    /\ a.id < game_event_stack[k].id => a.end < game_event_stack[k].id

Ranges == ParentsBelow /\ EndedNumbers /\ EndedApart /\ RangesNest

LEMMA InitRanges == Init => Ranges
  BY DEF Init, Event, Ranges, ParentsBelow, EndedNumbers, EndedApart, RangesNest

\* Only the ids and the parents of events matter to Ranges.
LEMMA SameRanges ==
  ASSUME Ranges, Len(game_event_stack) \in Nat,
         Len(game_event_stack') = Len(game_event_stack),
         \A k \in 1..Len(game_event_stack) :
           /\ game_event_stack'[k].id = game_event_stack[k].id
           /\ game_event_stack'[k].parent = game_event_stack[k].parent,
         current_event_id' = current_event_id,
         ended' = ended
  PROVE  Ranges'
<1>1. ParentsBelow'
  <2> SUFFICES ASSUME NEW k \in 1..Len(game_event_stack)
               PROVE  game_event_stack'[k].parent =
                        IF k = 1 THEN 0 ELSE game_event_stack'[k - 1].id
    BY DEF ParentsBelow
  <2>1. k # 1 => k - 1 \in 1..Len(game_event_stack)
    OBVIOUS
  <2>2. QED
    BY <2>1 DEF Ranges, ParentsBelow
<1>2. EndedNumbers'
  BY DEF Ranges, EndedNumbers
<1>3. EndedApart'
  BY DEF Ranges, EndedApart
<1>4. RangesNest'
  BY DEF Ranges, RangesNest, Nested
<1>5. QED
  BY <1>1, <1>2, <1>3, <1>4 DEF Ranges

\* A call gives the new event an id above all ranges, and the caller as parent.
LEMMA CallRanges ==
  ASSUME TypeOK, Ranges, Call
  PROVE  Ranges'
<1> DEFINE n == Len(game_event_stack)
           id == current_event_id + 1
<1>1. /\ n \in Nat \ {0} /\ Len(game_event_stack') = n + 1
      /\ \A k \in 1..n : game_event_stack'[k].id = game_event_stack[k].id
      /\ game_event_stack'[n + 1] = Event(id, "running", ne.id)
      /\ current_event_id' = id
  BY CallView
<1>2. \A k \in 1..n : game_event_stack'[k].parent = game_event_stack[k].parent
  <2>1. CASE CleanerRuns
    BY <2>1, CallFromCleaner
  <2>2. CASE ~CleanerRuns
    <3>1. /\ \A k \in 1..(n - 1) : game_event_stack'[k] = game_event_stack[k]
          /\ game_event_stack'[n].parent = game_event_stack[n].parent
      BY <2>2, CallFromEvent
    <3>2. \A k \in 1..n : k \in 1..(n - 1) \/ k = n
      BY <1>1
    <3>3. QED
      BY <3>1, <3>2
  <2>3. QED
    BY <2>1, <2>2
<1>3. /\ game_event_stack'[n + 1].id = id
      /\ game_event_stack'[n + 1].parent = game_event_stack[n].id
  BY <1>1 DEF Event, ne
<1>4. ended' = ended /\ current_event_id \in Nat
  BY DEF Call, CallWith, TypeOK
<1>5. \A k \in 1..(n + 1) : k \in 1..n \/ k = n + 1
  BY <1>1
<1>6. ParentsBelow'
  <2> SUFFICES ASSUME NEW k \in 1..(n + 1)
               PROVE  game_event_stack'[k].parent =
                        IF k = 1 THEN 0 ELSE game_event_stack'[k - 1].id
    BY <1>1 DEF ParentsBelow
  <2>1. CASE k \in 1..n
    <3>1. k # 1 => k - 1 \in 1..n
      BY <1>1
    <3>2. QED
      BY <1>1, <1>2, <2>1, <3>1 DEF Ranges, ParentsBelow
  <2>2. CASE k = n + 1
    <3>1. k # 1 /\ k - 1 = n /\ n \in 1..n
      BY <1>1, <2>2
    <3>2. QED
      BY <1>1, <1>3, <2>2, <3>1
  <2>3. QED
    BY <1>5, <2>1, <2>2
<1>7. EndedNumbers'
  <2> SUFFICES ASSUME NEW a \in ended
               PROVE  /\ a.id \in Nat \ {0} /\ a.end \in Nat /\ a.parent \in Nat
                      /\ a.parent < a.id /\ a.id <= a.end /\ a.end <= id
    BY <1>1, <1>4 DEF EndedNumbers
  <2>1. QED
    BY <1>4 DEF Ranges, EndedNumbers
<1>8. EndedApart'
  <2> SUFFICES ASSUME NEW a \in ended, NEW k \in 1..(n + 1)
               PROVE  /\ a.id # game_event_stack'[k].id
                      /\ a.id < game_event_stack'[k].id => a.end < game_event_stack'[k].id
    BY <1>1, <1>4 DEF EndedApart
  <2>1. CASE k \in 1..n
    BY <1>1, <2>1 DEF Ranges, EndedApart
  <2>2. CASE k = n + 1
    <3>1. /\ a.id \in Nat /\ a.end \in Nat
          /\ a.id <= a.end /\ a.end <= current_event_id
      BY DEF Ranges, EndedNumbers
    <3>2. QED
      BY <1>3, <1>4, <2>2, <3>1
  <2>3. QED
    BY <1>5, <2>1, <2>2
<1>9. RangesNest'
  BY <1>4 DEF Ranges, RangesNest, Nested
<1>10. QED
  BY <1>6, <1>7, <1>8, <1>9 DEF Ranges

\* The event that ends encloses all newer ones and lies apart from older ones.
LEMMA DoneRanges ==
  ASSUME TypeOK, StacksMatch, Ranges, CleanerDone
  PROVE  Ranges'
<1> DEFINE n == Len(game_event_stack)
           b == [id |-> ce.event, parent |-> ne.parent,
                 end |-> IF ce.event # current_event_id THEN current_event_id + 1
                                                        ELSE ce.event]
<1>1. /\ n \in Nat \ {0} /\ n \in 1..n /\ Len(game_event_stack') = n - 1
      /\ \A k \in 1..(n - 1) : game_event_stack'[k] = game_event_stack[k]
  BY DoneView
<1>2. /\ ended' = ended \cup {b}
      /\ current_event_id' = IF ce.event # current_event_id THEN current_event_id + 1
                                                            ELSE current_event_id
  BY DEF CleanerDone, FinishWith
<1>3. b.id = game_event_stack[n].id /\ b.parent = game_event_stack[n].parent
  BY TopDead DEF CleanerDone, FinishWith, ne
<1>4. /\ game_event_stack[n] \in EventRecord
      /\ b.id \in Nat \ {0} /\ b.parent \in Nat /\ current_event_id \in Nat
  <2>1. game_event_stack[n] \in EventRecord /\ current_event_id \in Nat
    BY <1>1 DEF TypeOK, StacksTyped
  <2>2. QED
    BY <1>3, <2>1 DEF EventRecord
<1>5. b.id <= current_event_id
  BY <1>1, <1>3 DEF StacksMatch, EventsInOrder
<1>6. /\ b.end \in Nat /\ b.id <= b.end /\ b.end = current_event_id'
      /\ b.id < current_event_id => current_event_id < b.end
      /\ b.id = current_event_id => b.end = current_event_id
      /\ current_event_id <= current_event_id'
  BY <1>2, <1>4, <1>5
<1>7. \A k \in 1..(n - 1) :
        k \in 1..n /\ game_event_stack[k].id \in Nat /\ game_event_stack[k].id < b.id
  <2>1. \A k \in 1..(n - 1) : k \in 1..n /\ k < n
    BY <1>1
  <2>2. QED
    BY <1>1, <1>3, <2>1, Fields DEF StacksMatch, EventsInOrder
<1>8. b.parent < b.id /\ (b.parent = 0 \/ \E k \in 1..n : b.parent = game_event_stack[k].id)
  <2>1. b.parent = IF n = 1 THEN 0 ELSE game_event_stack[n - 1].id
    BY <1>1, <1>3 DEF Ranges, ParentsBelow
  <2>2. n # 1 => n - 1 \in 1..(n - 1)
    BY <1>1
  <2>3. QED
    BY <1>4, <1>7, <2>1, <2>2
<1>9. ASSUME NEW a \in ended
      PROVE  /\ a.id \in Nat \ {0} /\ a.end \in Nat /\ a.parent \in Nat
             /\ a.parent < a.id /\ a.id <= a.end /\ a.end <= current_event_id
             /\ a.id # b.id /\ a.id # b.parent
             /\ a.id < b.id => a.end < b.id
             /\ b.id < a.id => Nested(b, a)
  <2>1. /\ a.id \in Nat \ {0} /\ a.end \in Nat /\ a.parent \in Nat
        /\ a.parent < a.id /\ a.id <= a.end /\ a.end <= current_event_id
    BY DEF Ranges, EndedNumbers
  <2>2. a.id # b.id /\ (a.id < b.id => a.end < b.id)
    BY <1>1, <1>3 DEF Ranges, EndedApart
  <2>3. a.id # b.parent
    BY <1>8, <2>1 DEF Ranges, EndedApart
  <2>4. ASSUME b.id < a.id PROVE b.id < a.id /\ a.id <= a.end /\ a.end < b.end
    BY <1>4, <1>6, <2>1, <2>4
  <2> HIDE DEF b
  <2>5. QED
    BY <2>1, <2>2, <2>3, <2>4 DEF Nested
<1> HIDE DEF b
<1>10. ParentsBelow'
  <2> SUFFICES ASSUME NEW k \in 1..(n - 1)
               PROVE  game_event_stack'[k].parent =
                        IF k = 1 THEN 0 ELSE game_event_stack'[k - 1].id
    BY <1>1 DEF ParentsBelow
  <2>1. k \in 1..n /\ (k # 1 => k - 1 \in 1..(n - 1))
    BY <1>1
  <2>2. QED
    BY <1>1, <2>1 DEF Ranges, ParentsBelow
<1>11. EndedNumbers'
  <2> SUFFICES ASSUME NEW a \in ended'
               PROVE  /\ a.id \in Nat \ {0} /\ a.end \in Nat /\ a.parent \in Nat
                      /\ a.parent < a.id /\ a.id <= a.end /\ a.end <= current_event_id'
    BY DEF EndedNumbers
  <2>1. CASE a = b
    BY <1>4, <1>6, <1>8, <2>1
  <2>2. CASE a \in ended
    BY <1>2, <1>4, <1>6, <1>9, <2>2
  <2>3. QED
    BY <1>2, <2>1, <2>2
<1>12. EndedApart'
  <2> SUFFICES ASSUME NEW a \in ended', NEW k \in 1..(n - 1)
               PROVE  /\ a.id # game_event_stack[k].id
                      /\ a.id < game_event_stack[k].id => a.end < game_event_stack[k].id
    BY <1>1 DEF EndedApart
  <2>1. CASE a = b
    BY <1>4, <1>7, <2>1
  <2>2. CASE a \in ended
    BY <1>7, <2>2 DEF Ranges, EndedApart
  <2>3. QED
    BY <1>2, <2>1, <2>2
<1>13. RangesNest'
  <2> SUFFICES ASSUME NEW a \in ended', NEW d \in ended'
               PROVE  /\ a.id = d.parent => Nested(a, d)
                      /\ a.id < d.id => Nested(a, d) \/ a.end < d.id
    BY DEF RangesNest
  <2>1. CASE a \in ended /\ d \in ended
    BY <2>1 DEF Ranges, RangesNest
  <2>2. CASE a = b /\ d = b
    BY <1>4, <1>8, <2>2
  <2>3. CASE a \in ended /\ d = b
    BY <1>9, <2>3
  <2>4. CASE a = b /\ d \in ended
    BY <1>4, <1>9, <2>4
  <2>5. QED
    BY <1>2, <2>1, <2>2, <2>3, <2>4
<1>14. QED
  BY <1>10, <1>11, <1>12, <1>13 DEF Ranges

\* The ids from an event to its end are those of the events within it and of
\* their ends, so searchEvents may look for the events within an event by id.
THEOREM RangesAreNested == Spec => []RangesNest
<1>1. TypeOK /\ StacksMatch /\ Ranges /\ [Next]_vars => Ranges'
  <2> SUFFICES ASSUME TypeOK, StacksMatch, Ranges, [Next]_vars PROVE Ranges'
    OBVIOUS
  <2>0. Len(game_event_stack) \in Nat
    BY DEF TypeOK, StacksTyped
  <2>1. CASE Call
    BY <2>1, CallRanges
  <2>2. CASE Exit
    <3>1. \A k \in 1..Len(game_event_stack) :
            game_event_stack'[k].parent = game_event_stack[k].parent
      <4>1. CASE CleanerRuns
        BY <2>2, <4>1, ExitToCleaner
      <4>2. CASE ~CleanerRuns
        <5>1. \A k \in 1..Len(game_event_stack) :
                k \in 1..(Len(game_event_stack) - 1) \/ k = Len(game_event_stack)
          BY <2>0
        <5>2. QED
          BY <2>2, <4>2, <5>1, ExitToEvent
      <4>3. QED
        BY <4>1, <4>2
    <3>2. ended' = ended
      BY <2>2 DEF Exit, ExitThen
    <3>3. QED
      BY <2>0, <2>2, <3>1, <3>2, ExitView, SameRanges
  <2>3. ASSUME Running, NEW interrupted \in BOOLEAN,
               ClearEvent(interrupted, current_event_id)
        PROVE  Ranges'
    <3>1. ended' = ended
      BY <2>3 DEF ClearEvent
    <3>2. /\ Len(game_event_stack') = Len(game_event_stack)
          /\ \A k \in 1..Len(game_event_stack) :
               game_event_stack'[k].id = game_event_stack[k].id
          /\ current_event_id' = current_event_id
      BY <2>3, ClearView
    <3>3. \A k \in 1..Len(game_event_stack) :
            game_event_stack'[k].parent = game_event_stack[k].parent
      BY <2>3, ClearKeeps
    <3>4. QED
      BY <2>0, <3>1, <3>2, <3>3, SameRanges
  <2>4. CASE Return
    BY <2>3, <2>4 DEF Return, EventRuns
  <2>5. CASE ClearKilled
    BY <2>3, <2>5 DEF ClearKilled
  <2>6. ASSUME NEW k \in 1..Len(game_event_stack), Shutdown(k) PROVE Ranges'
    <3>1. ended' = ended
      BY <2>6 DEF Shutdown, KillFrom
    <3>2. QED
      BY <2>0, <2>6, <3>1, ShutdownView, ShutdownKeeps, SameRanges
  <2>7. CASE CleanerDone
    BY <2>7, DoneRanges
  <2>8. CASE UNCHANGED <<game_event_stack, current_event_id, ended>>
    BY <2>0, <2>8, SameRanges
  <2>9. QED
    BY <2>1, <2>2, <2>4, <2>5, <2>6, <2>7, <2>8 DEF Next, GameOver, vars, stacks, ids
<1>2. Ranges => RangesNest
  BY DEF Ranges
<1>3. QED
  BY <1>1, <1>2, InitRanges, StacksAgree, Typing, PTL DEF Spec

-----------------------------------------------------------------------------
(* Exit functions are run at most once.                                      *)

\* An event somebody has called and not yet returned from: its exit functions
\* were not run, and it has ended unless it is on the stack.
Open(c) ==
  /\ c <= current_event_id /\ exited[c] = 0
  /\ end_id[c] = -1 => \E k \in 1..Len(game_event_stack) : game_event_stack[k].id = c

\* Whoever waits for an event is older than that event.
EventsWait ==
  \A k \in 1..Len(game_event_stack) : game_event_stack[k].callee # 0 =>
    game_event_stack[k].id < game_event_stack[k].callee /\ Open(game_event_stack[k].callee)

CleanersWait ==
  \A c \in 1..Len(cleaner_stack) : cleaner_stack[c].callee # 0 =>
    cleaner_stack[c].event < cleaner_stack[c].callee /\ Open(cleaner_stack[c].callee)

\* No two wait for the same event.
OneEventWaits ==
  \A j, k \in 1..Len(game_event_stack) :
    game_event_stack[j].callee # 0 /\ game_event_stack[j].callee = game_event_stack[k].callee
      => j = k

OneCleanerWaits ==
  \A c, d \in 1..Len(cleaner_stack) :
    cleaner_stack[c].callee # 0 /\ cleaner_stack[c].callee = cleaner_stack[d].callee => c = d

EventOrCleanerWaits ==
  \A c \in 1..Len(cleaner_stack), k \in 1..Len(game_event_stack) :
    cleaner_stack[c].callee # 0 => cleaner_stack[c].callee # game_event_stack[k].callee

Waits ==
  EventsWait /\ CleanersWait /\ OneEventWaits /\ OneCleanerWaits /\ EventOrCleanerWaits

Exits == Waits /\ ExitOnce

LEMMA InitExits == Init => Exits
  BY DEF Init, Event, Exits, Waits, EventsWait, CleanersWait, OneEventWaits,
         OneCleanerWaits, EventOrCleanerWaits, ExitOnce

LEMMA Callees ==
  ASSUME TypeOK
  PROVE  /\ \A k \in 1..Len(game_event_stack) : game_event_stack[k].callee \in Nat
         /\ \A c \in 1..Len(cleaner_stack) : cleaner_stack[c].callee \in Nat
<1>1. /\ \A k \in 1..Len(game_event_stack) : game_event_stack[k] \in EventRecord
      /\ \A c \in 1..Len(cleaner_stack) : cleaner_stack[c] \in CleanerRecord
  BY DEF TypeOK, StacksTyped
<1>2. QED
  BY <1>1 DEF EventRecord, CleanerRecord

\* Nobody waits who did not wait before, and what is waited for stays open.
LEMMA FewerWait ==
  ASSUME Waits,
         \A k \in 1..Len(game_event_stack') :
           \/ game_event_stack'[k].callee = 0
           \/ /\ k \in 1..Len(game_event_stack)
              /\ game_event_stack'[k].callee = game_event_stack[k].callee
              /\ game_event_stack'[k].id = game_event_stack[k].id
              /\ Open(game_event_stack[k].callee) => Open(game_event_stack[k].callee)',
         \A c \in 1..Len(cleaner_stack') :
           \/ cleaner_stack'[c].callee = 0
           \/ /\ c \in 1..Len(cleaner_stack)
              /\ cleaner_stack'[c].callee = cleaner_stack[c].callee
              /\ cleaner_stack'[c].event = cleaner_stack[c].event
              /\ Open(cleaner_stack[c].callee) => Open(cleaner_stack[c].callee)'
  PROVE  Waits'
<1>1. EventsWait'
  BY DEF Waits, EventsWait
<1>2. CleanersWait'
  BY DEF Waits, CleanersWait
<1>3. OneEventWaits'
  BY DEF Waits, OneEventWaits
<1>4. OneCleanerWaits'
  BY DEF Waits, OneCleanerWaits
<1>5. EventOrCleanerWaits'
  <2> SUFFICES ASSUME NEW c \in 1..Len(cleaner_stack'), NEW k \in 1..Len(game_event_stack'),
                      cleaner_stack'[c].callee # 0,
                      cleaner_stack'[c].callee = game_event_stack'[k].callee
               PROVE  FALSE
    BY DEF EventOrCleanerWaits
  <2>1. c \in 1..Len(cleaner_stack) /\ cleaner_stack'[c].callee = cleaner_stack[c].callee
    OBVIOUS
  <2>2. k \in 1..Len(game_event_stack) /\ game_event_stack'[k].callee = game_event_stack[k].callee
    OBVIOUS
  <2>3. \A d \in 1..Len(cleaner_stack), j \in 1..Len(game_event_stack) :
          cleaner_stack[d].callee # 0 => cleaner_stack[d].callee # game_event_stack[j].callee
    BY DEF Waits, EventOrCleanerWaits
  <2>4. cleaner_stack[c].callee # game_event_stack[k].callee
    <3>1. cleaner_stack[c].callee # 0
      BY <2>1
    <3>2. QED
      BY <2>1, <2>2, <2>3, <3>1
  <2>5. QED
    BY <2>1, <2>2, <2>4
<1>6. QED
  BY <1>1, <1>2, <1>3, <1>4, <1>5 DEF Waits

\* A call: the new event is open, and only its caller waits for it.
LEMMA CallExits ==
  ASSUME TypeOK, StacksMatch, Exits, Call
  PROVE  Exits'
<1> DEFINE n == Len(game_event_stack)
           l == Len(cleaner_stack)
<1> SUFFICES ASSUME NEW id, id = current_event_id + 1 PROVE Exits'
  OBVIOUS
<1>1. /\ n \in Nat \ {0} /\ Len(game_event_stack') = n + 1
      /\ \A k \in 1..n : game_event_stack'[k].id = game_event_stack[k].id
      /\ game_event_stack'[n + 1] = Event(id, "running", ne.id)
      /\ Len(cleaner_stack') = l
      /\ \A c \in 1..l : cleaner_stack'[c].event = cleaner_stack[c].event
      /\ current_event_id' = id
  BY CallView
<1>2. /\ l \in Nat /\ current_event_id \in Nat
      /\ exited \in Seq(Nat) /\ Len(exited) = current_event_id
      /\ end_id \in Seq(Int) /\ Len(end_id) = current_event_id
  BY DEF TypeOK, StacksTyped
<1>3. exited' = Append(exited, 0) /\ end_id' = Append(end_id, -1)
  BY DEF Call, CallWith
<1>4. /\ Len(exited') = id /\ exited'[id] = 0 /\ end_id'[id] = -1
      /\ \A i \in 1..current_event_id : exited'[i] = exited[i] /\ end_id'[i] = end_id[i]
  BY <1>2, <1>3, AppendFacts
<1>5. /\ game_event_stack'[n + 1].id = id
      /\ game_event_stack'[n + 1].callee = 0
  BY <1>1 DEF Event
<1>6. \A k \in 1..(n + 1) : k \in 1..n \/ k = n + 1
  BY <1>1
<1>7. \A k \in 1..n :
        \/ game_event_stack'[k].callee = game_event_stack[k].callee
        \/ ~CleanerRuns /\ k = n /\ game_event_stack'[k].callee = id
  <2>1. CASE CleanerRuns
    BY <2>1, CallFromCleaner
  <2>2. CASE ~CleanerRuns
    <3>1. \A k \in 1..n : k \in 1..(n - 1) \/ k = n
      BY <1>1
    <3>2. QED
      BY <2>2, <3>1, CallFromEvent
  <2>3. QED
    BY <2>1, <2>2
<1>8. \A c \in 1..l :
        \/ cleaner_stack'[c].callee = cleaner_stack[c].callee
        \/ CleanerRuns /\ c = l /\ cleaner_stack'[c].callee = id
  <2>1. CASE CleanerRuns
    <3>1. \A c \in 1..l : c \in 1..(l - 1) \/ c = l
      BY <1>2
    <3>2. QED
      BY <2>1, <3>1, CallFromCleaner
  <2>2. CASE ~CleanerRuns
    BY <2>2, CallFromEvent
  <2>3. QED
    BY <2>1, <2>2
<1>9. /\ \A k \in 1..n : /\ game_event_stack[k].callee \in Nat
                         /\ game_event_stack[k].callee <= current_event_id
                         /\ game_event_stack[k].id \in Nat
                         /\ game_event_stack[k].id <= current_event_id
      /\ \A c \in 1..l : /\ cleaner_stack[c].callee \in Nat
                         /\ cleaner_stack[c].callee <= current_event_id
  <2>1. \A k \in 1..n : game_event_stack[k].callee <= current_event_id
    BY <1>2, Callees DEF Exits, Waits, EventsWait, Open
  <2>2. \A c \in 1..l : cleaner_stack[c].callee <= current_event_id
    BY <1>2, Callees DEF Exits, Waits, CleanersWait, Open
  <2>3. \A k \in 1..n : game_event_stack[k].id <= current_event_id
    BY DEF StacksMatch, EventsInOrder
  <2>4. QED
    BY <2>1, <2>2, <2>3, Callees, Fields
<1>10. \A c \in 1..l : cleaner_stack[c].event \in Nat /\ cleaner_stack[c].event <= current_event_id
  <2> SUFFICES ASSUME NEW c \in 1..l
               PROVE  cleaner_stack[c].event <= current_event_id
    BY Fields
  <2>1. PICK k \in 1..n : game_event_stack[k].id = cleaner_stack[c].event
    BY DEF StacksMatch, CleanersHaveEvents
  <2>2. QED
    BY <1>9, <2>1
<1>11. ASSUME NEW d \in Nat, d # 0, Open(d) PROVE Open(d)'
  <2>1. d <= current_event_id /\ exited[d] = 0 /\ d \in 1..current_event_id
    BY <1>2, <1>11 DEF Open
  <2>2. d <= id /\ exited'[d] = 0 /\ end_id'[d] = end_id[d]
    BY <1>2, <1>4, <2>1
  <2>3. ASSUME end_id[d] = -1
        PROVE  \E k \in 1..(n + 1) : game_event_stack'[k].id = d
    <3>1. PICK k \in 1..n : game_event_stack[k].id = d
      BY <1>11, <2>3 DEF Open
    <3>2. k \in 1..(n + 1)
      BY <1>1
    <3>3. QED
      BY <1>1, <3>1, <3>2
  <2>4. QED
    BY <1>1, <2>2, <2>3 DEF Open
<1>12. Open(id)'
  <2>1. n + 1 \in 1..(n + 1) /\ id <= id
    BY <1>1, <1>2
  <2>2. QED
    BY <1>1, <1>4, <1>5, <2>1 DEF Open
<1>13. id \in Nat /\ id = current_event_id + 1 /\ id # 0
  BY <1>2
<1>14. /\ \A k \in 1..n : game_event_stack'[k].callee = id => ~CleanerRuns /\ k = n
       /\ \A c \in 1..l : cleaner_stack'[c].callee = id => CleanerRuns /\ c = l
  <2>0. \A d \in Nat : d <= current_event_id => d # id
    BY <1>2
  <2>1. /\ \A k \in 1..n : game_event_stack[k].callee # id
        /\ \A c \in 1..l : cleaner_stack[c].callee # id
    BY <1>9, <2>0
  <2>2. QED
    BY <1>7, <1>8, <2>1
<1>15. EventsWait'
  <2> SUFFICES ASSUME NEW k \in 1..(n + 1), NEW d, d = game_event_stack'[k].callee, d # 0
               PROVE  game_event_stack'[k].id < d /\ Open(d)'
    BY <1>1 DEF EventsWait, Open
  <2>1. k \in 1..n
    BY <1>5, <1>6
  <2>2. CASE d = game_event_stack[k].callee
    <3>1. game_event_stack[k].id < d /\ Open(d) /\ d \in Nat
      BY <1>9, <2>1, <2>2 DEF Exits, Waits, EventsWait
    <3>2. QED
      BY <1>1, <1>11, <2>1, <3>1
  <2>3. CASE d = id
    <3>1. game_event_stack[k].id \in Nat /\ game_event_stack[k].id <= current_event_id
      BY <1>9, <2>1
    <3>2. game_event_stack'[k].id < d
      BY <1>1, <1>2, <2>1, <2>3, <3>1
    <3>3. QED
      BY <1>12, <2>3, <3>2
  <2>4. QED
    BY <1>7, <2>1, <2>2, <2>3
<1>16. CleanersWait'
  <2> SUFFICES ASSUME NEW c \in 1..l, NEW d, d = cleaner_stack'[c].callee, d # 0
               PROVE  cleaner_stack'[c].event < d /\ Open(d)'
    BY <1>1 DEF CleanersWait, Open
  <2>1. CASE d = cleaner_stack[c].callee
    <3>1. cleaner_stack[c].event < d /\ Open(d) /\ d \in Nat
      BY <1>9, <2>1 DEF Exits, Waits, CleanersWait
    <3>2. QED
      BY <1>1, <1>11, <3>1
  <2>2. CASE d = id
    BY <1>1, <1>2, <1>10, <1>12, <1>13, <2>2
  <2>3. QED
    BY <1>8, <2>1, <2>2
<1>17. OneEventWaits'
  <2> SUFFICES ASSUME NEW j \in 1..(n + 1), NEW k \in 1..(n + 1),
                      game_event_stack'[j].callee # 0,
                      game_event_stack'[j].callee = game_event_stack'[k].callee
               PROVE  j = k
    BY <1>1 DEF OneEventWaits
  <2>1. j \in 1..n /\ k \in 1..n
    BY <1>5, <1>6
  <2>2. CASE game_event_stack'[j].callee = id
    BY <1>14, <2>1, <2>2
  <2>3. CASE game_event_stack'[j].callee # id
    BY <1>7, <2>1, <2>3 DEF Exits, Waits, OneEventWaits
  <2>4. QED
    BY <2>2, <2>3
<1>18. OneCleanerWaits'
  <2> SUFFICES ASSUME NEW c \in 1..l, NEW d \in 1..l, cleaner_stack'[c].callee # 0,
                      cleaner_stack'[c].callee = cleaner_stack'[d].callee
               PROVE  c = d
    BY <1>1 DEF OneCleanerWaits
  <2>1. CASE cleaner_stack'[c].callee = id
    BY <1>14, <2>1
  <2>2. CASE cleaner_stack'[c].callee # id
    BY <1>8, <2>2 DEF Exits, Waits, OneCleanerWaits
  <2>3. QED
    BY <2>1, <2>2
<1>19. EventOrCleanerWaits'
  <2> SUFFICES ASSUME NEW c \in 1..l, NEW k \in 1..(n + 1), cleaner_stack'[c].callee # 0,
                      cleaner_stack'[c].callee = game_event_stack'[k].callee
               PROVE  FALSE
    BY <1>1 DEF EventOrCleanerWaits
  <2>1. k \in 1..n
    BY <1>5, <1>6
  <2>2. CASE cleaner_stack'[c].callee = id
    BY <1>14, <2>1, <2>2
  <2>3. CASE cleaner_stack'[c].callee # id
    BY <1>7, <1>8, <2>1, <2>3 DEF Exits, Waits, EventOrCleanerWaits
  <2>4. QED
    BY <2>2, <2>3
<1>20. ExitOnce'
  <2> SUFFICES ASSUME NEW i \in 1..id
               PROVE  exited'[i] <= 1 /\ (exited'[i] = 1 => end_id'[i] # -1)
    BY <1>4 DEF ExitOnce
  <2>1. i \in 1..current_event_id \/ i = id
    BY <1>2, <1>13
  <2>2. CASE i \in 1..current_event_id
    BY <1>2, <1>4, <2>2 DEF Exits, ExitOnce
  <2>3. CASE i = id
    BY <1>4, <2>3
  <2>4. QED
    BY <2>1, <2>2, <2>3
<1>21. QED
  BY <1>15, <1>16, <1>17, <1>18, <1>19, <1>20 DEF Exits, Waits

\* The return from a call: the exit functions of the event were not run before,
\* it has ended, and from now on nobody waits for it.
LEMMA ExitExits ==
  ASSUME TypeOK, StacksMatch, Exits, Exit
  PROVE  Exits'
<1> DEFINE n == Len(game_event_stack)
           l == Len(cleaner_stack)
<1>1. /\ n \in Nat \ {0} /\ l \in Nat /\ current_event_id \in Nat
      /\ exited \in Seq(Nat) /\ Len(exited) = current_event_id
      /\ end_id' = end_id /\ current_event_id' = current_event_id
  BY DEF TypeOK, StacksTyped, Exit, ExitThen, Running, ids
<1>2. /\ Len(game_event_stack') = n /\ Len(cleaner_stack') = l
      /\ \A k \in 1..n : game_event_stack'[k].id = game_event_stack[k].id
      /\ \A c \in 1..l : cleaner_stack'[c].event = cleaner_stack[c].event
  BY ExitView
<1>3. \A k \in 1..n : game_event_stack[k].id <= game_event_stack[n].id
  <2>1. \A k \in 1..n : game_event_stack[k].id \in Nat
    BY Fields
  <2>2. n \in 1..n /\ \A k \in 1..n : k < n \/ k = n
    BY <1>1
  <2>3. QED
    BY <2>1, <2>2 DEF StacksMatch, EventsInOrder
<1>4. ASSUME NEW d \in Nat, d # 0, Open(d), game_event_stack[n].id < d,
             exited' = [exited EXCEPT ![d] = @ + 1]
      PROVE  /\ \A e \in Nat : e # 0 /\ e # d /\ Open(e) => Open(e)'
             /\ ExitOnce'
  <2>1. d \in 1..Len(exited) /\ exited[d] = 0
    BY <1>1, <1>4 DEF Open
  <2>2. end_id[d] # -1
    <3>1. ASSUME NEW k \in 1..n PROVE game_event_stack[k].id # d
      <4>1. n \in 1..n /\ game_event_stack[k].id <= game_event_stack[n].id
        BY <1>1, <1>3
      <4>2. game_event_stack[k].id \in Nat /\ game_event_stack[n].id \in Nat
        BY <4>1, Fields
      <4>3. QED
        BY <1>4, <4>1, <4>2
    <3>2. QED
      BY <1>4, <3>1 DEF Open
  <2>3. /\ Len(exited') = Len(exited)
        /\ exited'[d] = 1
        /\ \A i \in 1..Len(exited) : i # d => exited'[i] = exited[i]
    BY <1>1, <1>4, <2>1
  <2>4. ASSUME NEW e \in Nat, e # 0, e # d, Open(e) PROVE Open(e)'
    <3>1. e \in 1..Len(exited) /\ e <= current_event_id /\ exited[e] = 0
      BY <1>1, <2>4 DEF Open
    <3>2. exited'[e] = 0
      BY <2>3, <2>4, <3>1
    <3>3. QED
      BY <1>1, <1>2, <2>4, <3>1, <3>2 DEF Open
  <2>5. ExitOnce'
    <3> SUFFICES ASSUME NEW i \in 1..Len(exited)
                 PROVE  exited'[i] <= 1 /\ (exited'[i] = 1 => end_id[i] # -1)
      BY <1>1, <2>3 DEF ExitOnce
    <3>1. CASE i = d
      BY <2>2, <2>3, <3>1
    <3>2. CASE i # d
      BY <2>3, <3>2 DEF Exits, ExitOnce
    <3>3. QED
      BY <3>1, <3>2
  <2>6. QED
    BY <2>4, <2>5
<1>5. CASE CleanerRuns
  <2> DEFINE d == cleaner_stack[l].callee
  <2>1. /\ l \in 1..l /\ d # 0
        /\ \A c \in 1..(l - 1) : cleaner_stack'[c] = cleaner_stack[c]
        /\ cleaner_stack'[l].callee = 0 /\ game_event_stack' = game_event_stack
        /\ exited' = [exited EXCEPT ![d] = @ + 1]
    BY <1>5, ExitToCleaner
  <2>2. d \in Nat /\ Open(d) /\ cleaner_stack[l].event < d
    BY <2>1, Callees DEF Exits, Waits, CleanersWait
  <2>3. game_event_stack[n].id < d
    BY <1>5, <2>2, TopDead DEF ne, ce, Exit, ExitThen
  <2> HIDE DEF d
  <2>4. (\A e \in Nat : e # 0 /\ e # d /\ Open(e) => Open(e)') /\ ExitOnce'
    BY <1>4, <2>1, <2>2, <2>3
  <2>5. ASSUME NEW k \in 1..n, game_event_stack[k].callee # 0
        PROVE  Open(game_event_stack[k].callee) => Open(game_event_stack[k].callee)'
    <3> PICK e : e = game_event_stack[k].callee
      OBVIOUS
    <3>1. e \in Nat /\ e # 0 /\ e # d
      BY <2>1, <2>5, Callees DEF Exits, Waits, EventOrCleanerWaits, d
    <3>2. game_event_stack'[k].callee = e
      BY <2>1
    <3>3. Open(e) => Open(e)'
      BY <2>4, <3>1
    <3>4. QED
      BY <3>2, <3>3
  <2>6. ASSUME NEW c \in 1..(l - 1), cleaner_stack[c].callee # 0
        PROVE  Open(cleaner_stack[c].callee) => Open(cleaner_stack[c].callee)'
    <3> PICK e : e = cleaner_stack[c].callee
      OBVIOUS
    <3>0. c \in 1..l /\ c # l
      BY <1>1
    <3>1. e \in Nat /\ e # 0 /\ e # d
      BY <2>1, <2>6, <3>0, Callees DEF Exits, Waits, OneCleanerWaits, d
    <3>2. cleaner_stack'[c].callee = e
      BY <2>1
    <3>3. Open(e) => Open(e)'
      BY <2>4, <3>1
    <3>4. QED
      BY <3>2, <3>3
  <2>7. \A c \in 1..l : c \in 1..(l - 1) \/ c = l
    BY <1>1
  <2>8. Waits'
    BY <1>2, <2>1, <2>5, <2>6, <2>7, FewerWait DEF Exits
  <2>9. QED
    BY <2>4, <2>8 DEF Exits
<1>6. CASE ~CleanerRuns
  <2> DEFINE d == game_event_stack[n].callee
  <2>1. /\ n \in 1..n /\ d # 0
        /\ \A k \in 1..(n - 1) : game_event_stack'[k] = game_event_stack[k]
        /\ game_event_stack'[n].callee = 0 /\ cleaner_stack' = cleaner_stack
        /\ exited' = [exited EXCEPT ![d] = @ + 1]
    BY <1>6, ExitToEvent
  <2>2. d \in Nat /\ Open(d) /\ game_event_stack[n].id < d
    BY <2>1, Callees DEF Exits, Waits, EventsWait
  <2> HIDE DEF d
  <2>3. (\A e \in Nat : e # 0 /\ e # d /\ Open(e) => Open(e)') /\ ExitOnce'
    BY <1>4, <2>1, <2>2
  <2>4. ASSUME NEW k \in 1..(n - 1), game_event_stack[k].callee # 0
        PROVE  Open(game_event_stack[k].callee) => Open(game_event_stack[k].callee)'
    <3> PICK e : e = game_event_stack[k].callee
      OBVIOUS
    <3>0. k \in 1..n /\ k # n
      BY <1>1
    <3>1. e \in Nat /\ e # 0 /\ e # d
      BY <2>1, <2>4, <3>0, Callees DEF Exits, Waits, OneEventWaits, d
    <3>2. game_event_stack'[k].callee = e
      BY <2>1
    <3>3. Open(e) => Open(e)'
      BY <2>3, <3>1
    <3>4. QED
      BY <3>2, <3>3
  <2>5. ASSUME NEW c \in 1..l, cleaner_stack[c].callee # 0
        PROVE  Open(cleaner_stack[c].callee) => Open(cleaner_stack[c].callee)'
    <3> PICK e : e = cleaner_stack[c].callee
      OBVIOUS
    <3>1. e \in Nat /\ e # 0 /\ e # d
      BY <2>1, <2>5, Callees DEF Exits, Waits, EventOrCleanerWaits, d
    <3>2. cleaner_stack'[c].callee = e
      BY <2>1
    <3>3. Open(e) => Open(e)'
      BY <2>3, <3>1
    <3>4. QED
      BY <3>2, <3>3
  <2>6. \A k \in 1..n : k \in 1..(n - 1) \/ k = n
    BY <1>1
  <2>7. Waits'
    BY <1>2, <2>1, <2>4, <2>5, <2>6, FewerWait DEF Exits
  <2>8. QED
    BY <2>3, <2>7 DEF Exits
<1>7. QED
  BY <1>5, <1>6

\* The end of a clean-up: the event leaves the stack, and it has an end now.
LEMMA DoneExits ==
  ASSUME TypeOK, StacksMatch, Exits, CleanerDone
  PROVE  Exits'
<1> DEFINE n == Len(game_event_stack)
           l == Len(cleaner_stack)
           end == IF ce.event # current_event_id THEN current_event_id + 1 ELSE ce.event
           marked == [end_id EXCEPT ![ce.event] = end]
<1>1. /\ n \in Nat \ {0} /\ n \in 1..n /\ Len(game_event_stack') = n - 1
      /\ \A k \in 1..(n - 1) : k \in 1..n /\ game_event_stack'[k] = game_event_stack[k]
      /\ l \in Nat \ {0} /\ Len(cleaner_stack') = l - 1
      /\ \A c \in 1..(l - 1) : c \in 1..l /\ cleaner_stack'[c] = cleaner_stack[c]
      /\ \A k \in 1..n : k \in 1..(n - 1) \/ k = n
  BY DoneView
<1>2. /\ current_event_id \in Nat
      /\ exited \in Seq(Nat) /\ Len(exited) = current_event_id
      /\ end_id \in Seq(Int) /\ Len(end_id) = current_event_id
  BY DEF TypeOK
<1>3. /\ ce.event = game_event_stack[n].id
      /\ ce.event \in Nat \ {0} /\ ce.event <= current_event_id
  <2>1. ce.event = game_event_stack[n].id
    BY TopDead DEF CleanerDone, FinishWith, ne
  <2>2. game_event_stack[n] \in EventRecord
    BY <1>1 DEF TypeOK, StacksTyped
  <2>3. QED
    BY <1>1, <2>1, <2>2 DEF EventRecord, StacksMatch, EventsInOrder
<1>4. end \in Nat /\ end # -1
  BY <1>2, <1>3
<1> HIDE DEF end
<1>5. /\ marked \in Seq(Int) /\ Len(marked) = current_event_id
      /\ marked[ce.event] # -1
      /\ \A i \in 1..current_event_id : i # ce.event => marked[i] = end_id[i]
  <2> DEFINE e == ce.event
  <2>1. e \in 1..Len(end_id) /\ end \in Int
    BY <1>2, <1>3, <1>4
  <2> HIDE DEF e
  <2>2. /\ [end_id EXCEPT ![e] = end] \in Seq(Int)
        /\ Len([end_id EXCEPT ![e] = end]) = Len(end_id)
        /\ \A i \in 1..Len(end_id) : [end_id EXCEPT ![e] = end][i] = IF i = e THEN end ELSE end_id[i]
    BY <1>2, <2>1, ChangeFacts
  <2>3. QED
    BY <1>2, <1>4, <2>1, <2>2 DEF e
<1> HIDE DEF marked
<1>6. /\ \A i \in 1..current_event_id : exited'[i] = exited[i] /\ end_id'[i] = marked[i]
      /\ current_event_id' \in Nat /\ current_event_id <= current_event_id'
      /\ \A i \in 1..Len(exited') : i \in 1..current_event_id \/ exited'[i] = 0
  <2>1. CASE ce.event # current_event_id
    <3>1. /\ exited' = Append(exited, 0) /\ end_id' = Append(marked, -1)
          /\ current_event_id' = current_event_id + 1
      BY <2>1 DEF CleanerDone, FinishWith, marked, end
    <3>2. /\ Len(exited') = current_event_id + 1 /\ exited'[current_event_id + 1] = 0
          /\ \A i \in 1..current_event_id : exited'[i] = exited[i] /\ end_id'[i] = marked[i]
      BY <1>2, <1>5, <3>1, AppendFacts
    <3>3. \A i \in 1..(current_event_id + 1) :
            i \in 1..current_event_id \/ i = current_event_id + 1
      BY <1>2
    <3>4. current_event_id' \in Nat /\ current_event_id <= current_event_id'
      BY <1>2, <3>1
    <3>5. \A i \in 1..Len(exited') : i \in 1..current_event_id \/ exited'[i] = 0
      BY <3>2, <3>3
    <3>6. QED
      BY <3>2, <3>4, <3>5
  <2>2. CASE ce.event = current_event_id
    <3>1. exited' = exited /\ end_id' = marked /\ current_event_id' = current_event_id
      BY <2>2 DEF CleanerDone, FinishWith, marked, end
    <3>2. QED
      BY <1>2, <3>1
  <2>3. QED
    BY <2>1, <2>2
<1>7. ASSUME NEW d \in Nat, d # 0, Open(d) PROVE Open(d)'
  <2>1. d \in 1..current_event_id /\ exited[d] = 0 /\ d <= current_event_id'
    BY <1>2, <1>6, <1>7 DEF Open
  <2>2. ASSUME end_id'[d] = -1
        PROVE  \E k \in 1..(n - 1) : game_event_stack'[k].id = d
    <3>1. d # ce.event /\ end_id[d] = -1
      BY <1>5, <1>6, <2>1, <2>2
    <3>2. PICK k \in 1..n : game_event_stack[k].id = d
      BY <1>7, <3>1 DEF Open
    <3>3. k \in 1..(n - 1)
      BY <1>1, <1>3, <3>1, <3>2
    <3>4. QED
      BY <1>1, <3>2, <3>3
  <2>3. QED
    BY <1>1, <1>6, <2>1, <2>2 DEF Open
<1>8. ASSUME NEW k \in 1..(n - 1), game_event_stack[k].callee # 0
      PROVE  Open(game_event_stack[k].callee) => Open(game_event_stack[k].callee)'
  <2> PICK e : e = game_event_stack[k].callee
    OBVIOUS
  <2>1. e \in Nat /\ e # 0
    BY <1>1, <1>8, Callees
  <2>2. game_event_stack'[k].callee = e
    BY <1>1
  <2>3. Open(e) => Open(e)'
    BY <1>7, <2>1
  <2>4. QED
    BY <2>2, <2>3
<1>9. ASSUME NEW c \in 1..(l - 1), cleaner_stack[c].callee # 0
      PROVE  Open(cleaner_stack[c].callee) => Open(cleaner_stack[c].callee)'
  <2> PICK e : e = cleaner_stack[c].callee
    OBVIOUS
  <2>1. e \in Nat /\ e # 0
    BY <1>1, <1>9, Callees
  <2>2. cleaner_stack'[c].callee = e
    BY <1>1
  <2>3. Open(e) => Open(e)'
    BY <1>7, <2>1
  <2>4. QED
    BY <2>2, <2>3
<1>10. Waits'
  BY <1>1, <1>8, <1>9, FewerWait DEF Exits
<1>11. ExitOnce'
  <2> SUFFICES ASSUME NEW i \in 1..Len(exited')
               PROVE  exited'[i] <= 1 /\ (exited'[i] = 1 => end_id'[i] # -1)
    BY DEF ExitOnce
  <2>1. CASE i \in 1..current_event_id
    <3>1. exited[i] <= 1 /\ (exited[i] = 1 => end_id[i] # -1)
      BY <1>2, <2>1 DEF Exits, ExitOnce
    <3>2. exited'[i] = exited[i] /\ (end_id[i] # -1 => end_id'[i] # -1)
      BY <1>5, <1>6, <2>1
    <3>3. QED
      BY <3>1, <3>2
  <2>2. CASE exited'[i] = 0
    BY <2>2
  <2>3. QED
    BY <1>6, <2>1, <2>2
<1>12. QED
  BY <1>10, <1>11 DEF Exits

\* Steps that change neither what is numbered nor who waits for whom.
LEMMA SameExits ==
  ASSUME Exits,
         Len(game_event_stack') = Len(game_event_stack),
         \A k \in 1..Len(game_event_stack) :
           /\ game_event_stack'[k].id = game_event_stack[k].id
           /\ game_event_stack'[k].callee = game_event_stack[k].callee,
         \A c \in 1..Len(cleaner_stack') :
           \/ cleaner_stack'[c].callee = 0
           \/ c \in 1..Len(cleaner_stack) /\ cleaner_stack'[c] = cleaner_stack[c],
         current_event_id' = current_event_id, end_id' = end_id, exited' = exited
  PROVE  Exits'
<1>1. ASSUME NEW d, Open(d) PROVE Open(d)'
  BY <1>1 DEF Open
<1>2. ASSUME NEW k \in 1..Len(game_event_stack)
      PROVE  Open(game_event_stack[k].callee) => Open(game_event_stack[k].callee)'
  <2> PICK e : e = game_event_stack[k].callee
    OBVIOUS
  <2>1. game_event_stack'[k].callee = e
    OBVIOUS
  <2>2. Open(e) => Open(e)'
    BY <1>1
  <2>3. QED
    BY <2>1, <2>2
<1>3. ASSUME NEW c \in 1..Len(cleaner_stack), cleaner_stack'[c] = cleaner_stack[c]
      PROVE  Open(cleaner_stack[c].callee) => Open(cleaner_stack[c].callee)'
  <2> PICK e : e = cleaner_stack[c].callee
    OBVIOUS
  <2>1. cleaner_stack'[c].callee = e
    BY <1>3
  <2>2. Open(e) => Open(e)'
    BY <1>1
  <2>3. QED
    BY <2>1, <2>2
<1>4. Waits'
  BY <1>2, <1>3, FewerWait DEF Exits
<1>5. ExitOnce'
  BY DEF Exits, ExitOnce
<1>6. QED
  BY <1>4, <1>5 DEF Exits

\* However calls from events and from clean-ups interleave, and whatever was
\* shut down: exec runs the exit functions of an event at most once, and only
\* when the clean-up of the event is over.
THEOREM ExitsRunOnce == Spec => []ExitOnce
<1>1. TypeOK /\ StacksMatch /\ Exits /\ [Next]_vars => Exits'
  <2> SUFFICES ASSUME TypeOK, StacksMatch, Exits, [Next]_vars PROVE Exits'
    OBVIOUS
  <2>1. CASE Call
    BY <2>1, CallExits
  <2>2. CASE Exit
    BY <2>2, ExitExits
  <2>3. ASSUME Running, NEW interrupted \in BOOLEAN,
               ClearEvent(interrupted, current_event_id)
        PROVE  Exits'
    <3> DEFINE l == Len(cleaner_stack)
    <3>1. end_id' = end_id /\ exited' = exited
      BY <2>3 DEF ClearEvent, ids
    <3>2. /\ Len(game_event_stack') = Len(game_event_stack)
          /\ \A k \in 1..Len(game_event_stack) :
               game_event_stack'[k].id = game_event_stack[k].id
          /\ l \in Nat /\ Len(cleaner_stack') = l + 1
          /\ \A c \in 1..l : cleaner_stack'[c] = cleaner_stack[c]
          /\ cleaner_stack'[l + 1].callee = 0
          /\ current_event_id' = current_event_id
      BY <2>3, ClearView
    <3>3. \A k \in 1..Len(game_event_stack) :
            game_event_stack'[k].callee = game_event_stack[k].callee
      BY <2>3, ClearKeeps
    <3>4. \A c \in 1..Len(cleaner_stack') :
            cleaner_stack'[c].callee = 0
              \/ (c \in 1..l /\ cleaner_stack'[c] = cleaner_stack[c])
      <4>1. \A c \in 1..(l + 1) : c \in 1..l \/ c = l + 1
        BY <3>2
      <4>2. QED
        BY <3>2, <4>1
    <3>5. QED
      BY <3>1, <3>2, <3>3, <3>4, SameExits
  <2>4. CASE Return
    BY <2>3, <2>4 DEF Return, EventRuns
  <2>5. CASE ClearKilled
    BY <2>3, <2>5 DEF ClearKilled
  <2>6. ASSUME NEW k \in 1..Len(game_event_stack), Shutdown(k) PROVE Exits'
    <3>1. end_id' = end_id /\ exited' = exited
      BY <2>6 DEF Shutdown, KillFrom, ids
    <3>2. QED
      BY <2>6, <3>1, ShutdownView, ShutdownKeeps, SameExits
  <2>7. CASE CleanerDone
    BY <2>7, DoneExits
  <2>8. CASE UNCHANGED <<stacks, ids, exited>>
    BY <2>8, SameExits DEF stacks, ids
  <2>9. QED
    BY <2>1, <2>2, <2>4, <2>5, <2>6, <2>7, <2>8 DEF Next, GameOver, vars
<1>2. Exits => ExitOnce
  BY DEF Exits
<1>3. QED
  BY <1>1, <1>2, InitExits, StacksAgree, Typing, PTL DEF Spec

-----------------------------------------------------------------------------
(* The event manager implements nested calls.                               *)

FrameRecord == [id : Nat, mode : {"main", "clean"}, killed : BOOLEAN]

LEMMA FramesFacts ==
  ASSUME NEW s \in Seq(EventRecord)
  PROVE  /\ FramesOf(s) \in Seq(FrameRecord)
         /\ Len(FramesOf(s)) = Len(s)
         /\ \A k \in 1..Len(s) : FramesOf(s)[k] = Frame(s[k])
<1>1. Len(s) \in Nat
  OBVIOUS
<1>2. ASSUME NEW k \in 1..Len(s)
      PROVE  Frame(s[k]) \in FrameRecord
  <2>1. s[k] \in EventRecord
    OBVIOUS
  <2>2. s[k].id \in Nat /\ s[k].killed \in BOOLEAN
    BY <2>1 DEF EventRecord
  <2>3. QED
    BY <2>2 DEF Frame, FrameRecord
<1>3. QED
  BY <1>1, <1>2 DEF FramesOf

\* The frames before and after a step.
LEMMA FramesBoth ==
  ASSUME TypeOK, TypeOK'
  PROVE  LET f == FramesOf(game_event_stack) IN
         /\ f \in Seq(FrameRecord) /\ f' \in Seq(FrameRecord)
         /\ Len(f) = Len(game_event_stack) /\ Len(f') = Len(game_event_stack')
         /\ \A k \in 1..Len(f) : f[k] = Frame(game_event_stack[k])
         /\ \A k \in 1..Len(f') : f'[k] = Frame(game_event_stack'[k])
<1>1. game_event_stack \in Seq(EventRecord) /\ game_event_stack' \in Seq(EventRecord)
  BY DEF TypeOK, StacksTyped
<1>2. FramesOf(game_event_stack)' = FramesOf(game_event_stack')
  BY DEF FramesOf, Frame
<1>3. QED
  BY <1>1, <1>2, FramesFacts

LEMMA InitFrames == Init => Frames!FInit
<1> SUFFICES ASSUME Init PROVE Frames!FInit
  OBVIOUS
<1> DEFINE f == FramesOf(game_event_stack)
<1>1. game_event_stack \in Seq(EventRecord) /\ Len(game_event_stack) = 1
  BY InitTypes DEF TypeOK, StacksTyped, Init
<1>2. f \in Seq(FrameRecord) /\ Len(f) = 1 /\ f[1] = Frame(game_event_stack[1])
  BY <1>1, FramesFacts
<1>3. f[1] = Frames!Called(1) /\ f[1].id = 1
  <2>1. game_event_stack[1] = Event(1, "ready", 0)
    BY DEF Init
  <2>2. Frame(Event(1, "ready", 0)) = Frames!Called(1)
    BY DEF Frame, Event, Frames!Called
  <2>3. Frames!Called(1).id = 1
    BY DEF Frames!Called
  <2>4. QED
    BY <1>2, <2>1, <2>2, <2>3, Zenon
<1> HIDE DEF f
<1>4. f = <<Frames!Called(f[1].id)>>
  BY <1>2, <1>3
<1>5. QED
  BY <1>4 DEF Init, Frames!FInit, f

LEMMA CallFrames ==
  ASSUME TypeOK, TypeOK', StacksMatch, Call
  PROVE  Frames!FNext
<1> DEFINE n == Len(game_event_stack)
           id == current_event_id + 1
           f == FramesOf(game_event_stack)
<1>1. /\ n \in Nat \ {0} /\ Len(game_event_stack') = n + 1
      /\ \A k \in 1..n : /\ game_event_stack'[k].id = game_event_stack[k].id
                         /\ game_event_stack'[k].status = game_event_stack[k].status
                         /\ game_event_stack'[k].killed = game_event_stack[k].killed
      /\ game_event_stack'[n + 1] = Event(id, "running", ne.id)
      /\ id \in Nat /\ ~over /\ over' = over
  BY CallView DEF Call, CallWith, Running, TypeOK
<1>2. ~game_event_stack[n].killed \/ game_event_stack[n].status = "dead"
  BY TopDead DEF Call, CallWith, EventRuns, ne
<1>3. game_event_stack[n].id < id
  <2>1. n \in 1..n
    BY <1>1
  <2>2. game_event_stack[n].id \in Nat /\ current_event_id \in Nat
    BY <2>1, Fields DEF TypeOK
  <2>3. game_event_stack[n].id <= current_event_id
    BY <2>1 DEF StacksMatch, EventsInOrder
  <2>4. QED
    BY <2>2, <2>3
<1>4. /\ f \in Seq(FrameRecord) /\ Len(f) = n
      /\ \A k \in 1..n : f[k] = Frame(game_event_stack[k])
      /\ f' \in Seq(FrameRecord) /\ Len(f') = n + 1
      /\ \A k \in 1..(n + 1) : f'[k] = Frame(game_event_stack'[k])
  BY <1>1, FramesBoth
<1> HIDE DEF n, f, id
<1>5. ASSUME NEW k \in 1..n PROVE f'[k] = f[k]
  <2>1. k \in 1..(n + 1)
    BY <1>1
  <2>2. /\ game_event_stack'[k].id = game_event_stack[k].id
        /\ game_event_stack'[k].status = game_event_stack[k].status
        /\ game_event_stack'[k].killed = game_event_stack[k].killed
        /\ f'[k] = Frame(game_event_stack'[k]) /\ f[k] = Frame(game_event_stack[k])
    BY <1>1, <1>4, <2>1
  <2>3. QED
    BY <2>2, Zenon DEF Frame
<1>6. f'[n + 1] = Frames!Called(id)
  <2>1. n + 1 \in 1..(n + 1)
    BY <1>1
  <2>2. f'[n + 1] = Frame(Event(id, "running", ne.id))
    BY <1>1, <1>4, <2>1
  <2>3. QED
    BY <2>2 DEF Frame, Event, Frames!Called
<1>7. Frames!Called(id) \in FrameRecord /\ Frames!Called(id).id = id
  BY <1>1 DEF Frames!Called, FrameRecord
<1>8. f' = Append(f, Frames!Called(id))
  <2> DEFINE c == Frames!Called(id)
  <2> HIDE DEF c
  <2>1. /\ Append(f, c) \in Seq(FrameRecord) /\ Len(Append(f, c)) = n + 1
        /\ \A k \in 1..n : Append(f, c)[k] = f[k]
        /\ Append(f, c)[n + 1] = c
    BY <1>4, <1>7, AppendFacts DEF c
  <2>2. \A k \in 1..(n + 1) : f'[k] = Append(f, c)[k]
    BY <1>1, <1>5, <1>6, <2>1 DEF c
  <2>3. f' = Append(f, c)
    BY <1>4, <2>1, <2>2, SeqEqual
  <2>4. QED
    BY <2>3 DEF c
<1>9. f # <<>> /\ n \in 1..n /\ f[n] = Frame(game_event_stack[n])
  BY <1>1, <1>4
<1>10. f[n].id = game_event_stack[n].id /\ (f[n].mode = "main" => ~f[n].killed)
  BY <1>2, <1>9 DEF Frame
<1>11. Frames!FCall
  BY <1>1, <1>3, <1>4, <1>6, <1>7, <1>8, <1>9, <1>10 DEF Frames!FCall, Frames!Newest, f
<1>12. QED
  BY <1>1, <1>11 DEF Frames!FNext

\* A step that keeps id, status and killed of every event is a stutter.
LEMMA SameFrames ==
  ASSUME TypeOK, TypeOK', over' = over,
         Len(game_event_stack') = Len(game_event_stack),
         \A k \in 1..Len(game_event_stack) :
           /\ game_event_stack'[k].id = game_event_stack[k].id
           /\ game_event_stack'[k].status = game_event_stack[k].status
           /\ game_event_stack'[k].killed = game_event_stack[k].killed
  PROVE  UNCHANGED Frames!fvars
<1> DEFINE f == FramesOf(game_event_stack)
<1>1. /\ f \in Seq(FrameRecord) /\ f' \in Seq(FrameRecord)
      /\ Len(f) = Len(game_event_stack) /\ Len(f') = Len(game_event_stack)
      /\ \A k \in 1..Len(f) : f[k] = Frame(game_event_stack[k])
      /\ \A k \in 1..Len(f) : f'[k] = Frame(game_event_stack'[k])
  BY FramesBoth
<1> HIDE DEF f
<1>2. ASSUME NEW k \in 1..Len(f) PROVE f'[k] = f[k]
  <2>1. /\ game_event_stack'[k].id = game_event_stack[k].id
        /\ game_event_stack'[k].status = game_event_stack[k].status
        /\ game_event_stack'[k].killed = game_event_stack[k].killed
        /\ f'[k] = Frame(game_event_stack'[k]) /\ f[k] = Frame(game_event_stack[k])
    BY <1>1
  <2>2. QED
    BY <2>1, Zenon DEF Frame
<1>3. f' = f
  BY <1>1, <1>2, SeqEqual
<1>4. QED
  BY <1>3 DEF Frames!fvars, f

LEMMA ClearFrames ==
  ASSUME TypeOK, TypeOK', StacksMatch, Running, ~CleanerRuns,
         NEW interrupted \in BOOLEAN, ClearEvent(interrupted, current_event_id)
  PROVE  Frames!FNext
<1> DEFINE n == Len(game_event_stack)
           f == FramesOf(game_event_stack)
<1>1. /\ n \in Nat \ {0} /\ Len(game_event_stack') = n
      /\ \A k \in 1..n : /\ game_event_stack'[k].id = game_event_stack[k].id
                         /\ game_event_stack'[k].killed = game_event_stack[k].killed
      /\ \A k \in 1..(n - 1) : game_event_stack'[k].status = game_event_stack[k].status
      /\ game_event_stack'[n].status = "dead"
      /\ game_event_stack[n].status # "dead"
      /\ ~over /\ over' = over
  BY ClearView, TopDead DEF ClearEvent, Running, ne
<1>2. /\ f \in Seq(FrameRecord) /\ f' \in Seq(FrameRecord) /\ Len(f) = n /\ Len(f') = n
      /\ \A k \in 1..n : f[k] = Frame(game_event_stack[k])
      /\ \A k \in 1..n : f'[k] = Frame(game_event_stack'[k])
  BY <1>1, FramesBoth
<1> HIDE DEF n, f
<1>3. n \in 1..n /\ f # <<>>
  BY <1>1, <1>2
<1>4. f[n].mode = "main"
  BY <1>1, <1>2, <1>3 DEF Frame
<1> DEFINE top == [f[n] EXCEPT !.mode = "clean"]
<1>5. f'[n] = top /\ top \in FrameRecord
  <2>1. /\ f[n] = Frame(game_event_stack[n]) /\ f'[n] = Frame(game_event_stack'[n])
        /\ game_event_stack'[n].id = game_event_stack[n].id
        /\ game_event_stack'[n].killed = game_event_stack[n].killed
        /\ game_event_stack'[n].status = "dead"
    BY <1>1, <1>2, <1>3
  <2>2. f'[n] = [id |-> game_event_stack[n].id, mode |-> "clean",
                 killed |-> game_event_stack[n].killed]
    BY <2>1, Zenon DEF Frame
  <2>3. top = [id |-> game_event_stack[n].id, mode |-> "clean",
               killed |-> game_event_stack[n].killed]
    BY <2>1 DEF Frame
  <2>4. f'[n] \in FrameRecord
    BY <1>2, <1>3
  <2>5. QED
    BY <2>2, <2>3, <2>4, ZenonT(30)
<1> HIDE DEF top
<1>6. ASSUME NEW k \in 1..n, k # n PROVE f'[k] = f[k]
  <2>1. k \in 1..(n - 1)
    BY <1>1, <1>6
  <2>2. /\ f[k] = Frame(game_event_stack[k]) /\ f'[k] = Frame(game_event_stack'[k])
        /\ game_event_stack'[k].id = game_event_stack[k].id
        /\ game_event_stack'[k].killed = game_event_stack[k].killed
        /\ game_event_stack'[k].status = game_event_stack[k].status
    BY <1>1, <1>2, <2>1
  <2>3. QED
    BY <2>2, Zenon DEF Frame
<1>7. f' = [f EXCEPT ![n] = top]
  <2>1. /\ [f EXCEPT ![n] = top] \in Seq(FrameRecord)
        /\ Len([f EXCEPT ![n] = top]) = n
        /\ \A k \in 1..n : [f EXCEPT ![n] = top][k] = IF k = n THEN top ELSE f[k]
    BY <1>2, <1>3, <1>5, ExceptSeq
  <2>2. \A k \in 1..n : f'[k] = [f EXCEPT ![n] = top][k]
    BY <1>5, <1>6, <2>1
  <2>3. QED
    BY <1>2, <2>1, <2>2, SeqEqual
<1>8. f' = [f EXCEPT ![Len(f)].mode = "clean"]
  BY <1>2, <1>7 DEF top
<1>9. Frames!FStop
  BY <1>1, <1>2, <1>3, <1>4, <1>8 DEF Frames!FStop, Frames!Newest, f
<1>10. QED
  BY <1>1, <1>9 DEF Frames!FNext

LEMMA ShutdownFrames ==
  ASSUME TypeOK, TypeOK', StacksMatch, NEW k \in 1..Len(game_event_stack), Shutdown(k)
  PROVE  Frames!FNext
<1> DEFINE n == Len(game_event_stack)
           f == FramesOf(game_event_stack)
<1>1. /\ n \in Nat \ {0} /\ k \in 1..n /\ Len(game_event_stack') = n
      /\ \A j \in 1..n :
           /\ game_event_stack'[j].id = game_event_stack[j].id
           /\ game_event_stack'[j].status = game_event_stack[j].status
           /\ game_event_stack'[j].killed = (game_event_stack[j].killed \/ j \in k..n)
      /\ game_event_stack[k].status = "running"
      /\ ~over /\ over' = over
  <2>1. n \in Nat /\ k \in 1..n
    BY DEF TypeOK, StacksTyped
  <2>2. n \in Nat \ {0}
    BY <2>1
  <2>3. /\ game_event_stack[k].status = "running"
        /\ ~over /\ over' = over
    BY DEF Shutdown, KillFrom, EventRuns, Running
  <2>4. QED
    BY <2>1, <2>2, <2>3, ShutdownView, Zenon
<1>2. game_event_stack[n].status # "dead" /\ ~game_event_stack[n].killed
  BY TopDead DEF Shutdown, KillFrom, EventRuns, ne
<1>3. /\ f \in Seq(FrameRecord) /\ f' \in Seq(FrameRecord) /\ Len(f) = n /\ Len(f') = n
      /\ \A j \in 1..n : f[j] = Frame(game_event_stack[j])
      /\ \A j \in 1..n : f'[j] = Frame(game_event_stack'[j])
  BY <1>1, FramesBoth
<1> HIDE DEF n, f
<1> DEFINE shot(j) == [f[j] EXCEPT !.killed = @ \/ j >= k]
<1>4. ASSUME NEW j \in 1..n PROVE f'[j] = shot(j)
  <2>1. j \in k..n <=> j >= k
    BY <1>1
  <2>2. /\ game_event_stack'[j].id = game_event_stack[j].id
        /\ game_event_stack'[j].status = game_event_stack[j].status
        /\ game_event_stack'[j].killed = (game_event_stack[j].killed \/ j \in k..n)
        /\ f[j] = Frame(game_event_stack[j]) /\ f'[j] = Frame(game_event_stack'[j])
    BY <1>1, <1>3
  <2>3. game_event_stack'[j].killed = (game_event_stack[j].killed \/ j >= k)
    BY <2>1, <2>2, Zenon
  <2> DEFINE mode == IF game_event_stack[j].status = "dead" THEN "clean" ELSE "main"
             killed == game_event_stack[j].killed \/ j >= k
  <2>4. f'[j] = [id |-> game_event_stack[j].id, mode |-> mode, killed |-> killed]
    BY <2>2, <2>3, Zenon DEF Frame
  <2>5. f[j] \in FrameRecord
    BY <1>3
  <2>6. shot(j) = [id |-> game_event_stack[j].id, mode |-> mode, killed |-> killed]
    <3> HIDE DEF mode
    <3>1. f[j] = [id |-> game_event_stack[j].id, mode |-> mode,
                  killed |-> game_event_stack[j].killed]
      BY <2>2, Zenon DEF Frame, mode
    <3>2. QED
      BY <3>1
  <2>7. QED
    BY <2>4, <2>6, Zenon
<1> HIDE DEF shot
<1>5. f' = [j \in 1..n |-> shot(j)]
  BY <1>1, <1>3, <1>4
<1>6. f' = [j \in 1..Len(f) |-> [f[j] EXCEPT !.killed = @ \/ j >= k]]
  BY <1>3, <1>5, Zenon DEF shot
<1>7. f[k].mode = "main" /\ k \in 1..Len(f)
  BY <1>1, <1>3 DEF Frame
<1>8. f # <<>> /\ n \in 1..n /\ f[n] = Frame(game_event_stack[n])
  BY <1>1, <1>3
<1>9. f[Len(f)].mode = "main" /\ ~f[Len(f)].killed
  BY <1>2, <1>3, <1>8 DEF Frame
<1>10. Frames!FShutdown
  <2>1. \E i \in 1..Len(f) :
          /\ f[i].mode = "main"
          /\ f' = [j \in 1..Len(f) |-> [f[j] EXCEPT !.killed = @ \/ j >= i]]
    BY <1>6, <1>7, Zenon
  <2>2. QED
    BY <1>1, <1>8, <1>9, <2>1, Zenon DEF Frames!FShutdown, Frames!Newest, f
<1>11. QED
  BY <1>1, <1>10 DEF Frames!FNext

LEMMA DoneFrames ==
  ASSUME TypeOK, TypeOK', StacksMatch, CleanerDone
  PROVE  Frames!FNext
<1> DEFINE n == Len(game_event_stack)
           f == FramesOf(game_event_stack)
<1>1. /\ n \in Nat \ {0} /\ Len(game_event_stack') = n - 1
      /\ \A k \in 1..(n - 1) : game_event_stack'[k] = game_event_stack[k]
      /\ game_event_stack[n].status = "dead"
      /\ ~over /\ over' = over
  BY DoneView, TopDead DEF CleanerDone, FinishWith, Running, ne
<1>2. /\ f \in Seq(FrameRecord) /\ f' \in Seq(FrameRecord) /\ Len(f) = n /\ Len(f') = n - 1
      /\ \A k \in 1..n : f[k] = Frame(game_event_stack[k])
      /\ \A k \in 1..(n - 1) : f'[k] = Frame(game_event_stack'[k])
  BY <1>1, FramesBoth
<1> HIDE DEF n, f
<1>3. f # <<>> /\ n \in 1..n
  BY <1>1, <1>2
<1>4. f[n].mode = "clean"
  BY <1>1, <1>2, <1>3 DEF Frame
<1>5. ASSUME NEW k \in 1..(n - 1) PROVE f'[k] = f[k]
  <2>1. k \in 1..n
    BY <1>1
  <2>2. QED
    BY <1>1, <1>2, <2>1
<1>6. /\ Front(f) \in Seq(FrameRecord) /\ Len(Front(f)) = n - 1
      /\ \A k \in 1..(n - 1) : Front(f)[k] = f[k]
  BY <1>2, <1>3, FrontFacts
<1>7. f' = Front(f)
  BY <1>2, <1>5, <1>6, SeqEqual
<1>8. Frames!FCleaned
  BY <1>1, <1>2, <1>3, <1>4, <1>7 DEF Frames!FCleaned, Frames!Newest, Front, f
<1>9. QED
  BY <1>1, <1>8 DEF Frames!FNext

\* Every run of the event manager is a run of nested calls: an event goes on
\* only when all events it called have been cleaned up, an interrupted or
\* shut down event is cleaned up too, and a shutdown ends all newer events.
THEOREM EventsAreNestedCalls == Spec => NestedCalls
<1>1. Init => Frames!FInit
  BY InitFrames
<1>2. TypeOK /\ TypeOK' /\ StacksMatch /\ [Next]_vars => [Frames!FNext]_(Frames!fvars)
  <2> SUFFICES ASSUME TypeOK, TypeOK', StacksMatch, [Next]_vars
               PROVE  Frames!FNext \/ UNCHANGED Frames!fvars
    OBVIOUS
  <2>1. CASE Call
    BY <2>1, CallFrames
  <2>2. CASE Exit
    BY <2>2, ExitView, SameFrames DEF Exit, ExitThen
  <2>3. CASE Return
    BY <2>3, ClearFrames DEF Return, EventRuns
  <2>4. CASE ClearKilled
    BY <2>4, ClearFrames DEF ClearKilled
  <2>5. ASSUME NEW k \in 1..Len(game_event_stack), Shutdown(k) PROVE Frames!FNext
    BY <2>5, ShutdownFrames
  <2>6. CASE CleanerDone
    BY <2>6, DoneFrames
  <2>7. CASE GameOver
    <3>1. ~over /\ over' = TRUE /\ game_event_stack' = game_event_stack
      BY <2>7 DEF GameOver, stacks
    <3>2. QED
      BY <3>1 DEF Frames!FNext, Frames!FGameOver, FramesOf, Frame
  <2>8. CASE UNCHANGED vars
    BY <2>8, SameFrames DEF vars, stacks
  <2>9. QED
    BY <2>1, <2>2, <2>3, <2>4, <2>5, <2>6, <2>7, <2>8 DEF Next
<1>3. QED
  BY <1>1, <1>2, Typing, StacksAgree, PTL DEF Spec, NestedCalls, Frames!FSpec
=============================================================================
