----------------------------- MODULE MCTransports -----------------------------
(***************************************************************************)
(* Instances of IPCClient and GrpcClient small enough for TLC.  The two    *)
(* share nothing; one run checks both: in each of its behaviours one moves *)
(* and the other stays as it began.                                        *)
(***************************************************************************)
EXTENDS IPCProperties, GrpcProperties

CONSTANTS g1, g2, g3, v1

VARIABLE transport

MCVars == <<transport, vars, grpcVars>>

MCInit == Init /\ GrpcInit /\ transport \in {"ipc", "grpc"}

(* No calls are left to make. *)
AllCallsMade == made = MaxRemoteCalls /\ \A t \in Callers : RpcAt(t, "idle")

MCNext ==
    \/ transport = "ipc" /\ Next /\ UNCHANGED <<transport, grpcVars>>
    \/ transport = "grpc" /\ GrpcNext /\ UNCHANGED <<transport, vars>>
    \/ transport = "grpc" /\ AllCallsMade /\ UNCHANGED MCVars

MCSpec == MCInit /\ [][MCNext]_MCVars

MCFairSpec ==
    /\ MCSpec
    /\ \A t \in Threads : SF_vars(Lock(t)) /\ WF_vars(Proceed(t))
    /\ WF_vars(transport = "ipc" /\ (Serve \/ Break))
    /\ GrpcFairness
=============================================================================
