------------------------------ MODULE KVService -------------------------------
(***************************************************************************)
(* What the goroutines that share one client are promised about a key: a   *)
(* call that returns an answer took effect at one point between its start  *)
(* and its return; one that returns an error took effect at most once, and *)
(* not after it returned; nothing takes effect once Close has.             *)
(***************************************************************************)
EXTENDS KVRequests

CONSTANT Threads   \* goroutines that share the client

VARIABLES
    value,    \* of the key, Absent before it is put
    open,     \* the client has not been closed
    pending   \* the call each goroutine is in

(* Get does not tell an empty value from none; Scan does. *)
Answer(r, v) ==
    Outcome(TRUE, CASE r.op = "get"  -> (IF v = Empty THEN Absent ELSE v)
                    [] r.op = "scan" -> v
                    [] OTHER         -> Absent)

-----------------------------------------------------------------------------
Init ==
    /\ value = Absent /\ open = TRUE
    /\ pending = [t \in Threads |-> NoCall]

Invoke(t, r) ==
    /\ pending[t] = NoCall
    /\ pending' = [pending EXCEPT ![t] = Called(r)]
    /\ UNCHANGED <<value, open>>

Take(t) ==
    /\ pending[t].step = "called" /\ pending[t].req.op # "close"
    /\ open
    /\ value' = Effect(pending[t].req, value)
    /\ pending' = [pending EXCEPT
                     ![t] = Done(@.req, Answer(@.req, value))]
    /\ UNCHANGED open

Close(t) ==
    /\ pending[t].step = "called" /\ pending[t].req.op = "close"
    /\ open' = FALSE
    /\ pending' = [pending EXCEPT
                     ![t] = Done(@.req, Outcome(TRUE, Absent))]
    /\ UNCHANGED value

(* The request is refused or lost before it took effect, or its answer is. *)
Fail(t) ==
    /\ pending[t].step # "idle"
    /\ pending' = [pending EXCEPT ![t] = Done(@.req, Failed)]
    /\ UNCHANGED <<value, open>>

Return(t) ==
    /\ pending[t].step = "done"
    /\ pending' = [pending EXCEPT ![t] = NoCall]
    /\ UNCHANGED <<value, open>>

Next ==
    \E t \in Threads :
      \/ \E r \in Requests : Invoke(t, r)
      \/ Take(t) \/ Close(t) \/ Fail(t) \/ Return(t)

Spec == Init /\ [][Next]_<<value, open, pending>>
=============================================================================
