---------------------------- MODULE RemoteService -----------------------------
(***************************************************************************)
(* What the goroutines that share a GrpcClient are promised about a key.   *)
(* A call that returns no error took effect at one point between its start *)
(* and its return.  One that returns an error takes effect at most once,   *)
(* and possibly after it returned, even after Close: until then it is      *)
(* adrift.  (KVService, for the IPC client, rules that out.)               *)
(***************************************************************************)
EXTENDS RemoteRequests

VARIABLES
    stored,    \* the value of the key
    open,      \* the client has not been closed
    pending,   \* the call each goroutine is in
    adrift     \* how many failed calls may still make each write

Init ==
    /\ stored = Absent /\ open = TRUE
    /\ pending = [t \in Callers |-> NoCall]
    /\ adrift = [w \in Writes |-> 0]

Becomes(t, c) == pending' = [pending EXCEPT ![t] = c]

Invoke(t, r) ==
    /\ pending[t] = NoCall
    /\ Becomes(t, Called(r))
    /\ UNCHANGED <<stored, open, adrift>>

Take(t) ==
    /\ pending[t].step = "called" /\ open
    /\ LET r == pending[t].req IN
         /\ stored' = RemoteEffect(r, stored)
         /\ \/ Becomes(t, Done(r, Answered(r, stored)))
            \/ r.op = "insert" /\ Becomes(t, Done(r, Failed))
    /\ UNCHANGED <<open, adrift>>

(* It has had no effect and will have none, or its answer was lost. *)
Fail(t) ==
    /\ pending[t].step # "idle"
    /\ Becomes(t, Done(pending[t].req, Failed))
    /\ UNCHANGED <<stored, open, adrift>>

FailAdrift(t) ==
    /\ pending[t].step = "called" /\ pending[t].req \in Writes
    /\ adrift' = [adrift EXCEPT ![pending[t].req] = @ + 1]
    /\ Becomes(t, Done(pending[t].req, Failed))
    /\ UNCHANGED <<stored, open>>

Return(t) ==
    /\ pending[t].step = "done"
    /\ Becomes(t, NoCall)
    /\ UNCHANGED <<stored, open, adrift>>

Close ==
    /\ open' = FALSE
    /\ UNCHANGED <<stored, pending, adrift>>

(* A call that failed takes effect after all, or is given up for good. *)
Land(w) ==
    /\ adrift[w] > 0
    /\ adrift' = [adrift EXCEPT ![w] = @ - 1]
    /\ stored' \in {stored, RemoteEffect(w, stored)}
    /\ UNCHANGED <<open, pending>>

Next ==
    \/ \E t \in Callers :
         \/ \E r \in RemoteCalls : Invoke(t, r)
         \/ Take(t) \/ Fail(t) \/ FailAdrift(t) \/ Return(t)
    \/ \E w \in Writes : Land(w)
    \/ Close

Spec == Init /\ [][Next]_<<stored, open, pending, adrift>>
=============================================================================
