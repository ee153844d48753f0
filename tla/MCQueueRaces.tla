---------------------------- MODULE MCQueueRaces ----------------------------
(***************************************************************************)
(* An instance with two tasks whose workers all do everything at once.     *)
(* TLC cannot exhaust it, so here, and nowhere else, the claims are        *)
(* bounded, and so that the last of them begins before the second task is  *)
(* submitted or before a request fails.  What follows them is complete.    *)
(***************************************************************************)
EXTENDS MCQueue

CONSTANT MaxClaims   \* bound: tasks handed out

(* Workers of one process differ in nothing but their names. *)
Same == Permutations({t1, t2}) \cup Permutations({w1, w2})

(* Claims counted, under way, and those that two calls may have counted    *)
(* as one.                                                                 *)
Claims ==
    stats["totalDequeued"]
    + Cardinality({w \in Workers : op[w].call = "Dequeue"})
    + Cardinality(handed[w1] \cap handed[w2])

(* The clock stands still, so a Dequeue may as well begin when it scans,   *)
(* and one that finds nothing changes nothing.                             *)
BoundedDequeue(w) ==
    /\ Claims < IF used = TaskIDs /\ errors = MaxErrors THEN MaxClaims - 1 ELSE MaxClaims
    /\ Claimable(clock[ProcOf[w]]) # {}
    /\ Dequeue(w)

BoundedNext ==
    \/ \E w \in Workers :
         \/ Enqueue(w) \/ BoundedDequeue(w) \/ SettleAny(w) \/ Purge(w)
         \/ Step(w) \/ Fail(w)
    \/ \E p \in Procs : Crash(p) \/ Tick(p)

BoundedSpec == Init /\ [][BoundedNext]_vars
=============================================================================
