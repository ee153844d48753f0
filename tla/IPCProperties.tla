---------------------------- MODULE IPCProperties ----------------------------
(***************************************************************************)
(* What goroutines that share an IPCClient can rely on.                    *)
(***************************************************************************)
EXTENDS IPCClient

CallRecord ==
    [pc : PCs, req : Requests \cup {NoRequest},
     out : [ok : BOOLEAN, value : Values \cup {Absent}]]

TypeOK ==
    /\ holder \in Threads \cup {Free} /\ closed \in BOOLEAN
    /\ conn \in {"up", "down"} /\ value \in Values \cup {Absent}
    /\ outbox \in Seq([from : Threads, req : Requests])
    /\ inbox \in Seq(Replies)
    /\ call \in [Threads -> CallRecord]

(* There is one request or reply under way at most; it belongs to the      *)
(* goroutine that holds mu and waits for it, and a reply is of a kind its  *)
(* reader accepts or refuses.  A reply left behind would answer the next call, which  *)
(* nothing on the wire could tell (readMessage has no request number).     *)
RepliesPair ==
    /\ Len(outbox) + Len(inbox) <= 1
    /\ \A i \in DOMAIN outbox :
         LET m == outbox[i] IN
         holder = m.from /\ At(m.from, "recv") /\ call[m.from].req = m.req
    /\ \A i \in DOMAIN inbox :
         LET m == inbox[i] IN
         /\ holder = m.from /\ At(m.from, "recv")
         /\ m.kind \in Accepts(call[m.from].req.op) \cup Refusals(call[m.from].req.op)

(* What these rest on: mu is held from the check of closed to the return,  *)
(* and a closed client has no connection, nor one that ended requests.         *)
MutexHeld ==
    \A t \in Threads : holder = t <=> call[t].pc \in {"send", "recv", "unlock"}

ClosedIsDown ==
    /\ closed => conn = "down"
    /\ conn = "down" => outbox = <<>>

CallsSound ==
    \A t \in Threads :
      /\ ~At(t, "idle") => call[t].req \in Requests
      /\ At(t, "recv") => call[t].req.op # "close"

IInv == TypeOK /\ MutexHeld /\ RepliesPair /\ ClosedIsDown /\ CallsSound

(* What the client may believe of the call of t: its request is on its     *)
(* way, its answer is, or both are lost.                                   *)
Pending(t) ==
    LET r == call[t].req IN
    CASE At(t, "idle")   -> NoCall
      [] At(t, "unlock") -> Done(r, call[t].out)
      [] At(t, "recv") /\ outbox = <<>> ->
           Done(r, IF inbox = <<>> THEN Failed ELSE Decode(r.op, Head(inbox)))
      [] OTHER -> Called(r)

Service == [t \in Threads |-> Pending(t)]

KV == INSTANCE KVService WITH open <- ~closed, pending <- Service

(* Every call of a shared client appears to happen at one point between    *)
(* its start and its return, or fails; a call that failed has no effect    *)
(* after it returned, and none has once Close returned.                    *)
ImplementsService == KV!Spec

(* Every call returns, Close too, although all of them wait for mu behind  *)
(* a call that waits for the server, and however the connection ends: no   *)
(* goroutine stays in a call for ever.                                     *)
CallsReturn == \A t \in Threads : []<>At(t, "idle")
=============================================================================
