----------------------------- MODULE EventFrames -----------------------------
(***************************************************************************)
(* What the event manager promises (docs/diy/10-eventstack.rst): game      *)
(* events are executed like nested calls.  Only the newest event runs; an  *)
(* event that ended, broke off or was shut down is cleaned up before the   *)
(* one below it goes on; cleaning up may call further events but cannot    *)
(* be interrupted; shutting down an event ends every newer event first.    *)
(***************************************************************************)
EXTENDS Naturals, Sequences

VARIABLES frames,  \* the events that have not ended, oldest first
          over     \* the game is over

fvars == <<frames, over>>

Called(id) == [id |-> id, mode |-> "main", killed |-> FALSE]
Newest == frames[Len(frames)]

FInit ==
  /\ frames = <<Called(frames[1].id)>>
  /\ over = FALSE

\* The newest event, or its clean-up, calls another event, with a larger id.
FCall ==
  /\ frames # <<>> /\ (Newest.mode = "main" => ~Newest.killed)
  /\ Len(frames') = Len(frames) + 1
  /\ LET id == frames'[Len(frames) + 1].id IN
       Newest.id < id /\ frames' = Append(frames, Called(id))
  /\ UNCHANGED over

\* The newest event is done, or has to be: its clean-up begins.
FStop ==
  /\ frames # <<>> /\ Newest.mode = "main"
  /\ frames' = [frames EXCEPT ![Len(frames)].mode = "clean"]
  /\ UNCHANGED over

\* The newest event shuts down one that is running: all from there on must end.
FShutdown ==
  /\ frames # <<>> /\ Newest.mode = "main" /\ ~Newest.killed
  /\ \E k \in 1..Len(frames) :
       /\ frames[k].mode = "main"
       /\ frames' = [j \in 1..Len(frames) |->
                       [frames[j] EXCEPT !.killed = @ \/ j >= k]]
  /\ UNCHANGED over

\* The clean-up is done: the event below goes on.
FCleaned ==
  /\ frames # <<>> /\ Newest.mode = "clean"
  /\ frames' = SubSeq(frames, 1, Len(frames) - 1)
  /\ UNCHANGED over

FGameOver == over' = TRUE /\ UNCHANGED frames

FNext == ~over /\ (FCall \/ FStop \/ FShutdown \/ FCleaned \/ FGameOver)

FSpec == FInit /\ [][FNext]_fvars
=============================================================================
