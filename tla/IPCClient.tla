------------------------------ MODULE IPCClient -------------------------------
(***************************************************************************)
(* client.go: goroutines share one IPCClient.  Every method locks mu,      *)
(* checks closed, writes one message to the connection and reads one back, *)
(* and holds mu until it returns.  There is no deadline, and no call       *)
(* reconnects: a broken connection fails every later call.                 *)
(*                                                                         *)
(* The server is external.  It answers the requests of a connection in     *)
(* order, one message each, or ends the connection.  One key stands for    *)
(* the data; on the wire, a message also records whose request it is or    *)
(* answers.  GetPath, PutPath and Query travel as get, put and scan do,    *)
(* CommitTransaction, AbortTransaction and Checkpoint are "end".           *)
(***************************************************************************)
EXTENDS Naturals, Sequences, KVRequests

CONSTANTS
    Threads,   \* goroutines that share the client
    Free       \* nobody holds mu

ASSUME IPCAssumption ==
    Absent \notin Values /\ Empty \in Values /\ Free \notin Threads

VARIABLES
    holder,    \* who holds mu
    closed,
    conn,      \* "up" or "down"
    outbox,    \* requests the server has not read
    inbox,     \* replies nobody has read
    value,     \* of the key, at the server
    call       \* the call each goroutine is in

vars == <<holder, closed, conn, outbox, inbox, value, call>>

PCs == {"idle", "lock", "send", "recv", "unlock"}

Idle == [pc |-> "idle", req |-> NoRequest, out |-> Failed]

-----------------------------------------------------------------------------
(* The server's side of the wire *)

Kind(op) ==
    CASE op \in ReadOps -> "value"
      [] op = "begin"   -> "txn"
      [] op = "stats"   -> "stats"
      [] OTHER          -> "ok"

(* A key that is not there is answered with an empty payload. *)
Payload(op, v) ==
    CASE op = "get"  -> (IF v = Absent THEN Empty ELSE v)
      [] op = "scan" -> v
      [] OTHER       -> Absent

Reply(m, kind, v) == [from |-> m.from, kind |-> kind, value |-> v]

Replies ==
    [from : Threads, kind : {"ok", "value", "txn", "stats", "error", "malformed"},
     value : Values \cup {Absent}]

(* An error, or what should have been an answer, with a payload in which   *)
(* its reader looks for more than there is.  Put, Delete, Get and the      *)
(* calls that end a transaction take any payload.                          *)
Refusals(op) ==
    IF op \in {"scan", "begin", "stats"} THEN {"error", "malformed"} ELSE {"error"}

Serve ==
    /\ conn = "up" /\ outbox # <<>>
    /\ LET m == Head(outbox) IN
         \/ /\ value' = Effect(m.req, value)
            /\ inbox' = Append(inbox, Reply(m, Kind(m.req.op),
                                            Payload(m.req.op, value)))
         \/ /\ UNCHANGED value
            /\ \E kind \in Refusals(m.req.op) :
                 inbox' = Append(inbox, Reply(m, kind, Absent))
    /\ outbox' = Tail(outbox)
    /\ UNCHANGED <<holder, closed, conn, call>>

(* Replies that were sent may still be read. *)
Break ==
    /\ conn = "up"
    /\ conn' = "down"
    /\ outbox' = <<>>
    /\ inbox' \in {inbox, <<>>}
    /\ UNCHANGED <<holder, closed, value, call>>

-----------------------------------------------------------------------------
(* The client *)

(* The replies the reader of each operation takes for success. *)
Accepts(op) ==
    CASE op = "begin" -> {"txn"}
      [] op = "end"   -> {"ok", "txn"}
      [] op = "stats" -> {"stats", "ok"}
      [] OTHER        -> {"ok", "value"}

(* An empty payload means that the key does not exist, for Get. *)
Decoded(op, v) == IF op = "get" /\ v = Empty THEN Absent ELSE v

(* Mutant: the reader does not look for an error. *)
DecodeUnchecked(op, m) == Outcome(TRUE, Decoded(op, m.value))

Decode(op, m) ==
    IF m.kind \in Accepts(op) THEN Outcome(TRUE, Decoded(op, m.value))
    ELSE Failed

At(t, pc) == call[t].pc = pc

Moves(t, pc, out) ==
    call' = [call EXCEPT ![t] = [pc |-> pc, req |-> @.req, out |-> out]]

Init ==
    /\ holder = Free /\ closed = FALSE /\ conn = "up"
    /\ outbox = <<>> /\ inbox = <<>> /\ value = Absent
    /\ call = [t \in Threads |-> Idle]

Call(t, r) ==
    /\ At(t, "idle")
    /\ call' = [call EXCEPT ![t] = [pc |-> "lock", req |-> r, out |-> Failed]]
    /\ UNCHANGED <<holder, closed, conn, outbox, inbox, value>>

(* A second Close returns nil, every other call ErrClosed. *)
Lock(t) ==
    /\ At(t, "lock") /\ holder = Free
    /\ holder' = t
    /\ IF ~closed THEN Moves(t, "send", Failed)
       ELSE Moves(t, "unlock", Outcome(call[t].req.op = "close", Absent))
    /\ UNCHANGED <<closed, conn, outbox, inbox, value>>

Close(t) ==
    /\ At(t, "send") /\ call[t].req.op = "close"
    /\ closed' = TRUE /\ conn' = "down" /\ outbox' = <<>> /\ inbox' = <<>>
    /\ Moves(t, "unlock", Outcome(TRUE, Absent))
    /\ UNCHANGED <<holder, value>>

Send(t) ==
    /\ At(t, "send") /\ call[t].req.op # "close" /\ conn = "up"
    /\ outbox' = Append(outbox, [from |-> t, req |-> call[t].req])
    /\ Moves(t, "recv", Failed)
    /\ UNCHANGED <<holder, closed, conn, inbox, value>>

SendFails(t) ==
    /\ At(t, "send") /\ call[t].req.op # "close" /\ conn = "down"
    /\ Moves(t, "unlock", Failed)
    /\ UNCHANGED <<holder, closed, conn, outbox, inbox, value>>

Receive(t) ==
    /\ At(t, "recv") /\ inbox # <<>>
    /\ inbox' = Tail(inbox)
    /\ Moves(t, "unlock", Decode(call[t].req.op, Head(inbox)))
    /\ UNCHANGED <<holder, closed, conn, outbox, value>>

(* Mutant: the read has a deadline, and the connection stays in use. *)
DeadlineOrEOF == TRUE

(* A read fails at the end of the stream only. *)
EOF == conn = "down" /\ inbox = <<>>

(* Mutant: a failed read is tried again. *)
RetriesRead == "recv"

AfterFailedRead == "unlock"

ReceiveFails(t) ==
    /\ At(t, "recv") /\ EOF
    /\ Moves(t, AfterFailedRead, Failed)
    /\ UNCHANGED <<holder, closed, conn, outbox, inbox, value>>

Return(t) ==
    /\ At(t, "unlock")
    /\ holder' = Free
    /\ call' = [call EXCEPT ![t] = Idle]
    /\ UNCHANGED <<closed, conn, outbox, inbox, value>>

Proceed(t) ==
    \/ Close(t) \/ Send(t) \/ SendFails(t)
    \/ Receive(t) \/ ReceiveFails(t) \/ Return(t)

Next ==
    \/ \E t \in Threads :
         Lock(t) \/ Proceed(t) \/ \E r \in Requests : Call(t, r)
    \/ Serve \/ Break

Spec == Init /\ [][Next]_vars

(* sync.Mutex starves nobody; goroutines run; and the server answers what  *)
(* it reads or the connection ends, which the code takes for granted: no   *)
(* read has a deadline.                                                    *)
FairSpec ==
    /\ Spec
    /\ \A t \in Threads : SF_vars(Lock(t)) /\ WF_vars(Proceed(t))
    /\ WF_vars(Serve \/ Break)
=============================================================================
