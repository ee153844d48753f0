----------------------------- MODULE TaskLedger -----------------------------
(***************************************************************************)
(* What the queue of queue.go promises its callers, with every operation   *)
(* atomic: a submitted task is claimed, then completed, given back or      *)
(* buried, and only finished tasks are discarded.  With Ordered the task   *)
(* claimed is one that no other pending task precedes ("Dequeue gets the   *)
(* highest priority task").                                                *)
(***************************************************************************)
EXTENDS Integers

CONSTANTS
    Keys,            \* entries, named by their ordered keys
    Before(_, _),    \* the strict order of the keys
    Holders,         \* who may hold a claimed task
    Nobody,
    MaxRetries,
    Ordered          \* whether claims respect the order

VARIABLE tasks       \* the ledger, a function from a set of keys to entries

Has(k, state) == k \in DOMAIN tasks /\ tasks[k].state = state

Fresh == [state |-> "pending", retries |-> 0, by |-> Nobody]

Set(k, entry) ==
    tasks' = [j \in DOMAIN tasks \cup {k} |-> IF j = k THEN entry ELSE tasks[j]]

Init == tasks = [k \in {} |-> Fresh]

Submit(k) ==
    /\ k \in Keys \ DOMAIN tasks
    /\ Set(k, Fresh)

Claim(k, h) ==
    /\ Has(k, "pending")
    /\ Ordered => \A j \in DOMAIN tasks : Has(j, "pending") => ~Before(j, k)
    /\ Set(k, [tasks[k] EXCEPT !.state = "claimed", !.by = h])

Complete(k) ==
    /\ Has(k, "claimed")
    /\ Set(k, [tasks[k] EXCEPT !.state = "completed"])

GiveBack(k) ==
    /\ Has(k, "claimed")
    /\ tasks[k].retries + 1 < MaxRetries
    /\ Set(k, [Fresh EXCEPT !.retries = tasks[k].retries + 1])

Bury(k) ==
    /\ Has(k, "claimed")
    /\ tasks[k].retries + 1 = MaxRetries
    /\ Set(k, [tasks[k] EXCEPT !.state = "dead_lettered", !.retries = @ + 1])

Discard(k) ==
    /\ Has(k, "completed") \/ Has(k, "dead_lettered")
    /\ tasks' = [j \in DOMAIN tasks \ {k} |-> tasks[j]]

(* A step changes one entry, named by a key in the ledger before or after. *)
Next ==
    \E k \in DOMAIN tasks \cup DOMAIN tasks' :
      \/ Submit(k) \/ Complete(k) \/ GiveBack(k) \/ Bury(k) \/ Discard(k)
      \/ \E h \in Holders : Claim(k, h)

Spec == Init /\ [][Next]_tasks
=============================================================================
