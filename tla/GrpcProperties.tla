---------------------------- MODULE GrpcProperties ----------------------------
(***************************************************************************)
(* What goroutines that share a GrpcClient can rely on.                    *)
(***************************************************************************)
EXTENDS GrpcClient

RpcRecord ==
    [pc : RpcPCs, req : RemoteCalls \cup {NoRequest},
     reply : [kind : ReplyKinds, value : RemoteValues \cup {Absent}],
     out : [ok : BOOLEAN, value : RemoteValues \cup {Absent}]]

GrpcTypeOK ==
    /\ shut \in BOOLEAN /\ remote \in RemoteValues \cup {Absent} /\ made \in Nat
    /\ rpc \in [Callers -> RpcRecord]
    /\ abandoned \in [Writes -> Nat]

(* What the client may believe of the call of t. *)
RpcPending(t) ==
    LET r == rpc[t].req IN
    CASE RpcAt(t, "idle")     -> NoCall
      [] RpcAt(t, "answered") -> Done(r, ReadsAnswer(r, rpc[t].reply))
      [] RpcAt(t, "done")     -> Done(r, rpc[t].out)
      [] OTHER                -> Called(r)

RpcService == [t \in Callers |-> RpcPending(t)]

Remote == INSTANCE RemoteService
            WITH stored <- remote, open <- ~shut, pending <- RpcService,
                 adrift <- abandoned

(* A call that returned without an error happened at one point of its      *)
(* duration, whatever the server answered in place of a success; one that  *)
(* failed may happen once, and late, after a newer write that succeeded.   *)
ImplementsRemote == Remote!Spec

(* Every call returns, although the server may never answer: by its        *)
(* timeout, or, if QueryGraph was given a context without an end, by the   *)
(* Close of another goroutine.                                             *)
RemoteCallsReturn ==
    \A t \in Callers :
      (Waits(t) /\ (rpc[t].req.op # "query" \/ shut))
        ~> RpcAt(t, "idle")
=============================================================================
