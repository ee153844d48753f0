------------------------------ MODULE GrpcClient ------------------------------
(***************************************************************************)
(* grpc_client.go: goroutines share one GrpcClient.  Every method makes a  *)
(* context that ends after the client's timeout, invokes one generated     *)
(* stub, and reads the answer.  Calls are streams of one connection with   *)
(* no order among them, nothing is locked, and nothing is tried again.     *)
(*                                                                         *)
(* gRPC and the server are external.  gRPC connects again by itself, so of *)
(* the connection a call only notices that it fails.  A request that left  *)
(* may be served long after its call has returned.                         *)
(***************************************************************************)
EXTENDS RemoteRequests

CONSTANT MaxRemoteCalls   \* bound: calls made in all

VARIABLES
    shut,        \* Close has been called
    remote,      \* the value of the key, at the server
    rpc,         \* the call each goroutine is in
    abandoned,   \* requests on their way that nobody waits for
    made         \* calls made so far

grpcVars == <<shut, remote, rpc, abandoned, made>>

RpcPCs == {"idle", "waiting", "sent", "answered", "done"}

(* What the server answers: Success or no Error, the opposite, a status.   *)
ReplyKinds == {"ok", "refused", "status"}

RpcReply(kind, v) == [kind |-> kind, value |-> v]

NoReply == RpcReply("status", Absent)

Resting == [pc |-> "idle", req |-> NoRequest, reply |-> NoReply, out |-> Failed]

RpcAt(t, pc) == rpc[t].pc = pc

Waits(t) == rpc[t].pc \in {"waiting", "sent", "answered"}

GrpcInit ==
    /\ shut = FALSE /\ remote = Absent /\ made = 0
    /\ rpc = [t \in Callers |-> Resting]
    /\ abandoned = [w \in Writes |-> 0]

-----------------------------------------------------------------------------
(* Mutant: only the calls that write get a context with a timeout. *)
DeadlineOfWrites(r) == r \in Writes

(* c.ctx(), and for QueryGraph the context it is given. *)
HasDeadline(r) == r.op # "query"

Ends(t, out) ==
    rpc' = [rpc EXCEPT ![t] = [pc |-> "done", req |-> @.req,
                               reply |-> NoReply, out |-> out]]

Invoke(t, r) ==
    /\ RpcAt(t, "idle") /\ made < MaxRemoteCalls
    /\ made' = made + 1
    /\ rpc' = [rpc EXCEPT ![t] = [Resting EXCEPT !.pc = "waiting", !.req = r]]
    /\ UNCHANGED <<shut, remote, abandoned>>

(* Vectors of different lengths, or a closed client: nothing is sent. *)
Rejects(t) ==
    /\ RpcAt(t, "waiting") /\ (rpc[t].req.op = "insert" \/ shut)
    /\ Ends(t, Failed)
    /\ UNCHANGED <<shut, remote, abandoned, made>>

Sends(t) ==
    /\ RpcAt(t, "waiting") /\ ~shut
    /\ rpc' = [rpc EXCEPT ![t].pc = "sent"]
    /\ UNCHANGED <<shut, remote, abandoned, made>>

(* A batch that failed may have been stored. *)
Serves(t) ==
    /\ RpcAt(t, "sent") /\ ~shut
    /\ LET r == rpc[t].req
           Answers(kind, v) == rpc' = [rpc EXCEPT ![t].pc = "answered",
                                         ![t].reply = RpcReply(kind, v)]
       IN \/ /\ remote' = RemoteEffect(r, remote)
             /\ \/ Answers("ok", IF r \in Reads THEN remote ELSE Absent)
                \/ r.op = "insert" /\ Answers("refused", Absent)
          \/ /\ UNCHANGED remote
             /\ \/ Answers("status", Absent)
                \/ r.op # "start" /\ Answers("refused", Absent)
    /\ UNCHANGED <<shut, abandoned, made>>

(* Mutant: an answer without a status counts as success. *)
ReadsStatusOnly(r, m) ==
    IF m.kind = "status" THEN Failed ELSE Answered(r, m.value)

ReadsAnswer(r, m) ==
    IF m.kind = "ok" THEN Answered(r, m.value) ELSE Failed

Receives(t) ==
    /\ RpcAt(t, "answered")
    /\ Ends(t, ReadsAnswer(rpc[t].req, rpc[t].reply))
    /\ UNCHANGED <<shut, remote, abandoned, made>>

-----------------------------------------------------------------------------
(* A call ends without an answer, and its request may be anywhere. *)
GivesUp(t) ==
    /\ Waits(t)
    /\ Ends(t, Failed)
    /\ IF RpcAt(t, "sent") /\ rpc[t].req \in Writes
       THEN abandoned' \in {abandoned, [abandoned EXCEPT ![rpc[t].req] = @ + 1]}
       ELSE UNCHANGED abandoned
    /\ UNCHANGED <<shut, remote, made>>

(* The timer of the context fires, also while an answer is on its way. *)
Expires(t) == HasDeadline(rpc[t].req) /\ GivesUp(t)

Disconnects(t) == GivesUp(t)

CloseClient ==
    /\ shut' = TRUE
    /\ UNCHANGED <<remote, rpc, abandoned, made>>

Cancels(t) == shut /\ GivesUp(t)

ServesLate(w) ==
    /\ abandoned[w] > 0
    /\ abandoned' = [abandoned EXCEPT ![w] = @ - 1]
    /\ remote' \in {remote, RemoteEffect(w, remote)}
    /\ UNCHANGED <<shut, rpc, made>>

Returns(t) ==
    /\ RpcAt(t, "done")
    /\ rpc' = [rpc EXCEPT ![t] = Resting]
    /\ UNCHANGED <<shut, remote, abandoned, made>>

ClientStep(t) == Receives(t) \/ Expires(t) \/ Cancels(t) \/ Returns(t)

GrpcNext ==
    \/ \E t \in Callers :
         \/ \E r \in RemoteCalls : Invoke(t, r)
         \/ Rejects(t) \/ Sends(t) \/ Serves(t) \/ Disconnects(t)
         \/ ClientStep(t)
    \/ CloseClient \/ \E w \in Writes : ServesLate(w)

GrpcSpec == GrpcInit /\ [][GrpcNext]_grpcVars

(* Goroutines run and timers fire.  Nothing is assumed of the server or of *)
(* the connection.                                                         *)
GrpcFairness == \A t \in Callers : WF_grpcVars(ClientStep(t))

GrpcFairSpec == GrpcSpec /\ GrpcFairness
=============================================================================
