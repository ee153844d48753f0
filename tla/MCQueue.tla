------------------------------ MODULE MCQueue -------------------------------
(* Instances of PriorityQueue small enough for TLC. *)
EXTENDS QueueProperties, TLC

CONSTANTS w1, w2, t1, t2, p1, p2

OneProcess == (w1 :> p1) @@ (w2 :> p1)
TwoProcesses == (w1 :> p1) @@ (w2 :> p2)
=============================================================================
