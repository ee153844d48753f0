---------------------------- MODULE RemoteRequests ----------------------------
(***************************************************************************)
(* The calls of grpc_client.go on one key, told apart by what they ask for *)
(* and by how their answer is read: "put" has a Success flag; "insert"     *)
(* (InsertVectors, AddDocuments) may report an error after a part has been *)
(* stored; "start" (StartTrace, StartSpan) has no room for an error; "get" *)
(* is every read but GetKv ("lookup") and some of QueryGraph ("query").    *)
(* RemoteService says what the calls promise, GrpcClient makes them.       *)
(***************************************************************************)
EXTENDS Naturals, KVRequests

CONSTANTS
    Callers,        \* goroutines that share the client
    RemoteValues    \* values they store

StoringOps == {"put", "insert", "start"}

Writes ==
    [op : StoringOps, arg : RemoteValues] \cup [op : {"delete"}, arg : {Absent}]

(* "query" has a context without an end, as QueryGraph may be given. *)
Reads == [op : {"get", "lookup", "query"}, arg : {Absent}]

RemoteCalls == Writes \cup Reads

RemoteEffect(r, v) ==
    CASE r.op \in StoringOps -> r.arg
      [] r.op = "delete"     -> Absent
      [] OTHER               -> v

(* GetKv makes an error of a key that is not there. *)
Answered(r, v) ==
    IF r \in Writes THEN Outcome(TRUE, Absent)
    ELSE IF r.op = "lookup" /\ v = Absent THEN Failed ELSE Outcome(TRUE, v)
=============================================================================
