------------------------------ MODULE MCRouter ------------------------------
(* Instances of Router for TLC: both players on one thread, or one on each. *)
EXTENDS Router, TLC

CONSTANTS p1, p2, t1, t2

OneThread  == [p \in {p1, p2} |-> t1]
TwoThreads == (p1 :> t1) @@ (p2 :> t2)
=============================================================================
