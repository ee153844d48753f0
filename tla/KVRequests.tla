------------------------------ MODULE KVRequests ------------------------------
(***************************************************************************)
(* The calls of client.go on one key, shared by KVService, which says what *)
(* they promise, and IPCClient, which makes them over a connection; and    *)
(* how a call looks to its caller, which the gRPC client shares.           *)
(***************************************************************************)
CONSTANTS
    Values,    \* values of the key
    Absent,    \* no value
    Empty      \* the value of length 0

ReadOps == {"get", "scan"}

Ops == ReadOps \cup {"put", "delete", "begin", "end", "stats", "close"}

Requests ==
    [op : {"put"}, arg : Values] \cup [op : Ops \ {"put"}, arg : {Absent}]

NoRequest == [op |-> "none", arg |-> Absent]

Outcome(ok, v) == [ok |-> ok, value |-> v]

Failed == Outcome(FALSE, Absent)

Effect(r, v) ==
    CASE r.op = "put"    -> r.arg
      [] r.op = "delete" -> Absent
      [] OTHER           -> v

(* The state of a call, as its caller may think of it. *)
NoCall == [step |-> "idle", req |-> NoRequest, out |-> Failed]

Called(r) == [step |-> "called", req |-> r, out |-> Failed]

Done(r, out) == [step |-> "done", req |-> r, out |-> out]
=============================================================================
