---------------------------- MODULE PriorityQueue ----------------------------
(***************************************************************************)
(* The priority queue of queue.go: workers of several client processes     *)
(* call Enqueue, Dequeue, Ack, Nack and Purge on one database.  No call is *)
(* a transaction: each is a sequence of database requests, and between two *)
(* of them any other worker may take its own step, the process may die, or *)
(* a request may fail.  One action below is the code between two requests. *)
(*                                                                         *)
(* A stored entry is a pair of a key and a task.  `db' is the part of the  *)
(* database below the prefix "queue/<name>/", `stats' the counters below   *)
(* "_queue_stats/<name>/" and `counter' the field sequenceCounter of each  *)
(* process's PriorityQueue handle.                                         *)
(***************************************************************************)
EXTENDS Integers, Sequences, FiniteSets

CONSTANTS
    Workers,     \* goroutines that call the queue
    Procs,       \* client processes; each has one handle and one wall clock
    ProcOf,      \* the process of a worker
    Producers,   \* the workers that call Enqueue,
    Consumers,   \*   Dequeue, Ack and Nack,
    Purgers,     \*   and Purge
    Serialized,  \* TRUE when the callers take turns: one call at a time
    TaskIDs,     \* the identifiers generateTaskID can return
    Priorities,  \* the priorities passed to Enqueue
    MaxRetries,  \* QueueConfig.MaxRetries after the defaults are applied
    Backend,     \* which of the interfaces of Dequeue the database satisfies
    MaxClock,    \* bound: last reading of a wall clock
    MaxErrors,   \* bound: failed database requests
    MaxCrashes,  \* bound: process deaths
    Nobody, NoKey, NoTask    \* no claimant, no key, no task or identifier

Backends == {"scanPrefix", "ipc", "embedded"}

Key == [priority : Int, readyTs : Nat, sequence : Nat, taskID : TaskIDs]

States == {"pending", "claimed", "completed", "dead_lettered"}

Never == -1

Task == [taskID : TaskIDs, state : States, retries : Nat,
         claimedBy : Workers \cup {Nobody}, claimedAt : Int]

StatNames == {"pending", "claimed", "completed", "deadLettered",
              "totalEnqueued", "totalDequeued"}

Calls == {"none", "Enqueue", "Dequeue", "Ack", "Nack", "Purge"}

PCs == {"idle", "bump", "put", "scan", "locate", "update", "getStat",
        "putStat", "delete"}

ASSUME QueueAssumption ==
    /\ ProcOf \in [Workers -> Procs]
    /\ Producers \subseteq Workers
    /\ Consumers \subseteq Workers
    /\ Purgers \subseteq Workers
    /\ Serialized \in BOOLEAN
    /\ Priorities \subseteq Int
    /\ MaxRetries \in Nat \ {0}
    /\ Backend \in Backends
    /\ MaxClock \in Nat
    /\ Nobody \notin Workers
    /\ NoKey \notin Key
    /\ NoTask \notin Task /\ NoTask \notin TaskIDs

VARIABLES
    db,       \* the stored entries, a function from keys to tasks
    stats,    \* the six stored counters
    clock,    \* what time.Now() returns in each process
    counter,  \* sequenceCounter of each process's handle
    used,     \* identifiers handed out by generateTaskID so far
    op,       \* the call each worker is in, with its local variables
    handed,   \* tasks Dequeue returned to a worker that it has not settled
    errors, crashes

vars == <<db, stats, clock, counter, used, op, handed, errors, crashes>>

-----------------------------------------------------------------------------
(* Helpers *)

Idle == [pc |-> "idle", call |-> "none", id |-> NoTask, at |-> 0,
         key |-> NoKey, task |-> NoTask, doomed |-> {}, todo |-> <<>>,
         seen |-> 0]

(* A call begins in an idle worker; serialized callers wait their turn. *)
MayStart(w) ==
    /\ op[w].pc = "idle"
    /\ Serialized => \A v \in Workers : op[v].pc = "idle"

(* QueueKey.Encode writes the fields big-endian, so a scan returns entries *)
(* ordered by priority, readyTs and sequence.  The random identifier that  *)
(* breaks the last tie is left open.                                       *)
Precedes(j, k) ==
    \/ j.priority < k.priority
    \/ j.priority = k.priority /\ j.readyTs < k.readyTs
    \/ j.priority = k.priority /\ j.readyTs = k.readyTs
       /\ j.sequence < k.sequence

(* Mutant: the scan is not ordered. *)
AnyOf(S) == S

FirstOf(S) == {k \in S : \A j \in S : ~Precedes(j, k)}

Store(k, t) == [j \in DOMAIN db \cup {k} |-> IF j = k THEN t ELSE db[j]]

Erase(k) == [j \in DOMAIN db \ {k} |-> db[j]]

(* The entries a scan of the queue's prefix sees.  The ScanPrefix method   *)
(* of *embedded.Database does not return the interface queue.go asks for   *)
(* and it has no Scan, so an embedded database takes neither branch.       *)
Visible == IF Backend = "embedded" THEN {} ELSE DOMAIN db

(* Mutant: the lookup takes the first entry, whatever its task_id. *)
AnyEntry(id) == Visible

EntriesOf(id) == {k \in Visible : db[k].taskID = id}

(* What Dequeue may claim: the IPC branch ignores readyTs. *)
Ready(k, now) == Backend = "scanPrefix" => k.readyTs <= now

(* Mutant: Dequeue forgets to skip tasks that are not pending. *)
ClaimableInAnyState(now) == {k \in Visible : Ready(k, now)}

Claimable(now) == {k \in Visible : db[k].state = "pending" /\ Ready(k, now)}

(* Mutant: Purge removes everything that is not pending. *)
NotPending(task) == task.state # "pending"

Terminal(task) == task.state \in {"completed", "dead_lettered"}

NewKey(w, p, id) ==
    [priority |-> p, readyTs |-> clock[ProcOf[w]],
     sequence |-> counter[ProcOf[w]], taskID |-> id]

NewTask(id) ==
    [taskID |-> id, state |-> "pending", retries |-> 0,
     claimedBy |-> Nobody, claimedAt |-> Never]

Claimed(task, w, now) ==
    [task EXCEPT !.state = "claimed", !.claimedBy = w, !.claimedAt = now]

(* Mutant: Ack does not look at the state. *)
AnyState(task) == TRUE

(* Ack insists on a claimed task; Nack takes a task in any state. *)
Ackable(task) == task.state = "claimed"

Acked(task) == [task EXCEPT !.state = "completed"]

(* Mutant: a retried task keeps the state "claimed". *)
NackedKeepsState(task) ==
    IF task.retries + 1 >= MaxRetries
    THEN [task EXCEPT !.retries = @ + 1, !.state = "dead_lettered"]
    ELSE [task EXCEPT !.retries = @ + 1]

Nacked(task) ==
    IF task.retries + 1 >= MaxRetries
    THEN [task EXCEPT !.retries = @ + 1, !.state = "dead_lettered"]
    ELSE [task EXCEPT !.retries = @ + 1, !.state = "pending",
                      !.claimedBy = Nobody, !.claimedAt = Never]

(* Mutant: Dequeue counts under totalEnqueued. *)
StatsOfWrongTotal(call, task) ==
    CASE call = "Enqueue" -> << <<"totalEnqueued", 1>>, <<"pending", 1>> >>
      [] OTHER -> << <<"totalEnqueued", 1>> >>

(* Mutant: Dequeue leaves the pending counter alone. *)
StatsOfNoDecrement(call, task) ==
    CASE call = "Enqueue" -> << <<"totalEnqueued", 1>>, <<"pending", 1>> >>
      [] call = "Dequeue" -> << <<"claimed", 1>>, <<"totalDequeued", 1>> >>
      [] call = "Ack"     -> << <<"claimed", -1>>, <<"completed", 1>> >>
      [] OTHER            -> << <<"claimed", -1>> >>

(* The counters a call updates once its task is written. *)
StatsOf(call, task) ==
    CASE call = "Enqueue" -> << <<"totalEnqueued", 1>>, <<"pending", 1>> >>
      [] call = "Dequeue" -> << <<"pending", -1>>, <<"claimed", 1>>,
                                <<"totalDequeued", 1>> >>
      [] call = "Ack"     -> << <<"claimed", -1>>, <<"completed", 1>> >>
      [] OTHER            -> << <<"claimed", -1>>,
                                IF task.state = "dead_lettered"
                                THEN <<"deadLettered", 1>>
                                ELSE <<"pending", 1>> >>

Goto(w, pc) == op' = [op EXCEPT ![w].pc = pc]

Return(w) == op' = [op EXCEPT ![w] = Idle]

(* The task is written; what is left of the call is its counters. *)
WriteStats(w) ==
    op' = [op EXCEPT ![w] =
             [Idle EXCEPT !.pc = "getStat", !.call = op[w].call,
                          !.id = op[w].task.taskID,
                          !.todo = StatsOf(op[w].call, op[w].task)]]

-----------------------------------------------------------------------------
Init ==
    /\ db = [k \in {} |-> NoTask]
    /\ stats = [n \in StatNames |-> 0]
    /\ clock = [p \in Procs |-> 0]
    /\ counter = [p \in Procs |-> 0]
    /\ used = {}
    /\ op = [w \in Workers |-> Idle]
    /\ handed = [w \in Workers |-> {}]
    /\ errors = 0
    /\ crashes = 0

(* Enqueue up to and including the read of sequenceCounter. *)
Enqueue(w) ==
    /\ w \in Producers
    /\ MayStart(w)
    /\ \E p \in Priorities, id \in TaskIDs \ used :
         /\ used' = used \cup {id}
         /\ op' = [op EXCEPT ![w] =
                     [Idle EXCEPT !.pc = "bump", !.call = "Enqueue",
                                  !.key = NewKey(w, p, id),
                                  !.task = NewTask(id)]]
    /\ UNCHANGED <<db, stats, clock, counter, handed, errors, crashes>>

(* sequenceCounter++ is not synchronized: the build may add one to what    *)
(* the field holds now or to what Enqueue read before.                     *)
BumpSequence(w) ==
    /\ op[w].pc = "bump"
    /\ \E n \in {counter[ProcOf[w]], op[w].key.sequence} :
         counter' = [counter EXCEPT ![ProcOf[w]] = n + 1]
    /\ Goto(w, "put")
    /\ UNCHANGED <<db, stats, clock, used, handed, errors, crashes>>

(* The Put of Enqueue and of Dequeue. *)
PutTask(w) ==
    /\ op[w].pc = "put"
    /\ db' = Store(op[w].key, op[w].task)
    /\ WriteStats(w)
    /\ UNCHANGED <<stats, clock, counter, used, handed, errors, crashes>>

(* Dequeue reads its clock before it scans. *)
Dequeue(w) ==
    /\ w \in Consumers
    /\ MayStart(w)
    /\ op' = [op EXCEPT ![w] = [Idle EXCEPT !.pc = "scan", !.call = "Dequeue",
                                            !.at = clock[ProcOf[w]]]]
    /\ UNCHANGED <<db, stats, clock, counter, used, handed, errors, crashes>>

DequeueScan(w) ==
    /\ op[w].pc = "scan"
    /\ \E k \in FirstOf(Claimable(op[w].at)) :
         op' = [op EXCEPT ![w] =
                  [Idle EXCEPT !.pc = "put", !.call = "Dequeue", !.key = k,
                               !.task = Claimed(db[k], w, op[w].at)]]
    /\ UNCHANGED <<db, stats, clock, counter, used, handed, errors, crashes>>

DequeueNothing(w) ==
    /\ op[w].pc = "scan"
    /\ Claimable(op[w].at) = {}
    /\ Return(w)
    /\ UNCHANGED <<db, stats, clock, counter, used, handed, errors, crashes>>

(* Ack and Nack read the task with one scan (getTask) and leave it to a    *)
(* second one (updateTask) to find the key to write.                       *)
Settle(w, call, id, task) ==
    /\ w \in Consumers
    /\ MayStart(w)
    /\ id \in handed[w]
    /\ op' = [op EXCEPT ![w] = [Idle EXCEPT !.pc = "locate", !.call = call,
                                            !.task = task]]
    /\ UNCHANGED <<db, stats, clock, counter, used, handed, errors, crashes>>

Ack(w, id) ==
    \E k \in FirstOf(EntriesOf(id)) :
      Ackable(db[k]) /\ Settle(w, "Ack", id, Acked(db[k]))

Nack(w, id) ==
    \E k \in FirstOf(EntriesOf(id)) : Settle(w, "Nack", id, Nacked(db[k]))

(* "task not found" and "task not in claimed state": the caller gives up.  *)
SettleRefused(w, id) ==
    /\ w \in Consumers
    /\ MayStart(w)
    /\ id \in handed[w]
    /\ \A k \in EntriesOf(id) : ~Ackable(db[k])
    /\ handed' = [handed EXCEPT ![w] = @ \ {id}]
    /\ UNCHANGED <<db, stats, clock, counter, used, op, errors, crashes>>

(* The scan of updateTask.  When the entry has gone it returns nil and the *)
(* call goes on to its counters as if it had written.                      *)
LocateTask(w) ==
    /\ op[w].pc = "locate"
    /\ LET id == op[w].task.taskID
       IN  \/ \E k \in FirstOf(EntriesOf(id)) :
                op' = [op EXCEPT ![w].pc = "update", ![w].key = k]
           \/ EntriesOf(id) = {} /\ WriteStats(w)
    /\ UNCHANGED <<db, stats, clock, counter, used, handed, errors, crashes>>

UpdateTask(w) ==
    /\ op[w].pc = "update"
    /\ db' = Store(op[w].key, op[w].task)
    /\ WriteStats(w)
    /\ UNCHANGED <<stats, clock, counter, used, handed, errors, crashes>>

(* The Get of incrementStat or decrementStat. *)
GetStat(w) ==
    /\ op[w].pc = "getStat"
    /\ op' = [op EXCEPT ![w].pc = "putStat",
                        ![w].seen = stats[Head(op[w].todo)[1]]]
    /\ UNCHANGED <<db, stats, clock, counter, used, handed, errors, crashes>>

(* Mutant: decrementStat without its test for a positive count. *)
NewStatUnguarded(w) ==
    LET name == Head(op[w].todo)[1]
        delta == Head(op[w].todo)[2]
    IN  [stats EXCEPT ![name] = op[w].seen + delta]

(* decrementStat writes nothing when it read zero. *)
NewStat(w) ==
    LET name == Head(op[w].todo)[1]
        delta == Head(op[w].todo)[2]
    IN  IF delta < 0 /\ op[w].seen = 0 THEN stats
        ELSE [stats EXCEPT ![name] = op[w].seen + delta]

(* A call that returns hands its task over or takes it off its caller. *)
HandedAfter(w) ==
    CASE op[w].call = "Dequeue" -> handed[w] \cup {op[w].id}
      [] op[w].call \in {"Ack", "Nack"} -> handed[w] \ {op[w].id}
      [] OTHER -> handed[w]

(* On to the next counter, or back to the caller after the last. *)
NextStat(w) ==
    IF Len(op[w].todo) = 1
    THEN /\ Return(w)
         /\ handed' = [handed EXCEPT ![w] = HandedAfter(w)]
    ELSE /\ op' = [op EXCEPT ![w].pc = "getStat", ![w].seen = 0,
                             ![w].todo = Tail(op[w].todo)]
         /\ UNCHANGED handed

PutStat(w) ==
    /\ op[w].pc = "putStat"
    /\ stats' = NewStat(w)
    /\ NextStat(w)
    /\ UNCHANGED <<db, clock, counter, used, errors, crashes>>

PurgeWhat(w, doomed) ==
    /\ doomed # {}
    /\ op' = [op EXCEPT ![w] = [Idle EXCEPT !.pc = "delete", !.call = "Purge",
                                            !.doomed = doomed]]

(* Purge scans once, then deletes what it saw finished, in key order. *)
Purge(w) ==
    /\ w \in Purgers
    /\ MayStart(w)
    /\ PurgeWhat(w, {k \in Visible : Terminal(db[k])})
    /\ UNCHANGED <<db, stats, clock, counter, used, handed, errors, crashes>>

AfterDelete(w, k) ==
    IF op[w].doomed = {k} THEN Return(w)
    ELSE op' = [op EXCEPT ![w].doomed = @ \ {k}]

PurgeDelete(w) ==
    /\ op[w].pc = "delete"
    /\ \E k \in FirstOf(op[w].doomed) :
         /\ db' = Erase(k)
         /\ AfterDelete(w, k)
    /\ UNCHANGED <<stats, clock, counter, used, handed, errors, crashes>>

-----------------------------------------------------------------------------
(* Failures *)

(* A request on the task entries fails and the call returns the error.  A  *)
(* failed write may have been applied: the client cannot tell.             *)
RequestFails(w) ==
    /\ errors < MaxErrors
    /\ errors' = errors + 1
    /\ op[w].pc \in {"put", "scan", "locate", "update"}
    /\ op[w].pc = "locate" => Backend = "ipc"
    /\ \/ UNCHANGED db
       \/ op[w].pc \in {"put", "update"} /\ db' = Store(op[w].key, op[w].task)
    /\ Return(w)
    /\ UNCHANGED <<stats, clock, counter, used, handed, crashes>>

(* A failed Get reads as zero; a failed Put of a counter is ignored. *)
StatFails(w) ==
    /\ errors < MaxErrors
    /\ errors' = errors + 1
    /\ \/ /\ op[w].pc = "getStat"
          /\ op' = [op EXCEPT ![w].pc = "putStat", ![w].seen = 0]
          /\ UNCHANGED handed
       \/ op[w].pc = "putStat" /\ NextStat(w)
    /\ UNCHANGED <<db, stats, clock, counter, used, crashes>>

(* A failed Delete is not counted and the loop goes on. *)
DeleteFails(w) ==
    /\ errors < MaxErrors
    /\ errors' = errors + 1
    /\ op[w].pc = "delete"
    /\ \E k \in FirstOf(op[w].doomed) : AfterDelete(w, k)
    /\ UNCHANGED <<db, stats, clock, counter, used, handed, crashes>>

(* A scan that breaks off.  Dequeue asks iter.Err and returns the error;   *)
(* getTask, updateTask and Purge take it for the end of the entries.       *)
ScanBreaks ==
    /\ Backend = "scanPrefix"
    /\ errors < MaxErrors
    /\ errors' = errors + 1

(* "task not found", for a task that is stored: the caller gives up. *)
SettleBreaks(w) ==
    /\ ScanBreaks
    /\ w \in Consumers
    /\ MayStart(w)
    /\ \E id \in handed[w] : handed' = [handed EXCEPT ![w] = @ \ {id}]
    /\ UNCHANGED <<db, stats, clock, counter, used, op, crashes>>

LocateBreaks(w) ==
    /\ ScanBreaks
    /\ op[w].pc = "locate"
    /\ WriteStats(w)
    /\ UNCHANGED <<db, stats, clock, counter, used, handed, crashes>>

PurgeBreaks(w) ==
    /\ ScanBreaks
    /\ w \in Purgers
    /\ MayStart(w)
    /\ \E read \in SUBSET Visible :
         /\ \A k \in read, j \in Visible \ read : ~Precedes(j, k)
         /\ PurgeWhat(w, {k \in read : Terminal(db[k])})
    /\ UNCHANGED <<db, stats, clock, counter, used, handed, crashes>>

(* A process dies with every call in it and with what its workers held,    *)
(* and starts again with a new handle.                                     *)
Crash(p) ==
    /\ crashes < MaxCrashes
    /\ crashes' = crashes + 1
    /\ op' = [w \in Workers |-> IF ProcOf[w] = p THEN Idle ELSE op[w]]
    /\ handed' = [w \in Workers |-> IF ProcOf[w] = p THEN {} ELSE handed[w]]
    /\ counter' = [counter EXCEPT ![p] = 0]
    /\ UNCHANGED <<db, stats, clock, used, errors>>

(* Wall clocks of different processes advance independently. *)
Tick(p) ==
    /\ clock[p] < MaxClock
    /\ clock' = [clock EXCEPT ![p] = @ + 1]
    /\ UNCHANGED <<db, stats, counter, used, op, handed, errors, crashes>>

-----------------------------------------------------------------------------
(* The steps of a call that has begun. *)
Step(w) ==
    \/ BumpSequence(w) \/ PutTask(w) \/ DequeueScan(w) \/ DequeueNothing(w)
    \/ LocateTask(w) \/ UpdateTask(w) \/ GetStat(w) \/ PutStat(w)
    \/ PurgeDelete(w)

SettleAny(w) ==
    \E id \in TaskIDs : Ack(w, id) \/ Nack(w, id) \/ SettleRefused(w, id)

Begin(w) == Enqueue(w) \/ Dequeue(w) \/ SettleAny(w) \/ Purge(w)

Fail(w) ==
    \/ RequestFails(w) \/ StatFails(w) \/ DeleteFails(w)
    \/ SettleBreaks(w) \/ LocateBreaks(w) \/ PurgeBreaks(w)

Next ==
    \/ \E w \in Workers : Begin(w) \/ Step(w) \/ Fail(w)
    \/ \E p \in Procs : Crash(p) \/ Tick(p)

Spec == Init /\ [][Next]_vars

(* A goroutine inside a call is scheduled, clocks advance, and a consumer  *)
(* keeps polling and settles what it was handed.                           *)
Fairness ==
    /\ \A w \in Workers : WF_vars(Step(w))
    /\ \A w \in Consumers : SF_vars(Dequeue(w)) /\ SF_vars(SettleAny(w))
    /\ \A p \in Procs : WF_vars(Tick(p))

FairSpec == Spec /\ Fairness
=============================================================================
