-------------------------- MODULE QueueProperties ---------------------------
(***************************************************************************)
(* What PriorityQueue guarantees, from what survives any interleaving of   *)
(* concurrent consumers to what needs one consumer or callers in turn.     *)
(***************************************************************************)
EXTENDS PriorityQueue

CONSTANT VisibilityTimeout   \* QueueConfig.VisibilityTimeout

OpType ==
    [pc : PCs, call : Calls, id : TaskIDs \cup {NoTask}, at : Nat,
     key : Key \cup {NoKey}, task : Task \cup {NoTask},
     doomed : SUBSET Key, todo : Seq(StatNames \X {-1, 1}), seen : Nat]

(* Every variable keeps its type; a counter decrementStat writes never     *)
(* goes below zero, whatever the interleaving of its Get and its Put.      *)
TypeOK ==
    /\ db \in [DOMAIN db -> Task] /\ DOMAIN db \subseteq Key
    /\ stats \in [StatNames -> Nat]
    /\ clock \in [Procs -> Nat]
    /\ counter \in [Procs -> Nat]
    /\ used \subseteq TaskIDs
    /\ op \in [Workers -> OpType]
    /\ handed \in [Workers -> SUBSET TaskIDs]
    /\ errors \in Nat /\ crashes \in Nat

-----------------------------------------------------------------------------
(* With any number of concurrent consumers, errors and crashes *)

TaskSound(task) ==
    /\ task.state = "pending" => task.claimedBy = Nobody
    /\ task.state \in {"claimed", "completed"} => task.claimedBy \in Workers
    /\ task.state = "dead_lettered" <=> task.retries >= MaxRetries

(* However stale the copy a racing Dequeue, Ack, Nack or Purge writes      *)
(* back, a stored task never mixes two moments of its life: claimed and    *)
(* completed tasks name the claiming worker, pending tasks name nobody, a  *)
(* task is dead-lettered exactly when its retries are spent.               *)
TaskRecordsSound == \A k \in DOMAIN db : TaskSound(db[k])

(* The read-modify-write of a task goes through two scans that look it up  *)
(* by its identifier: no interleaving, not even a Purge between them that  *)
(* makes the write recreate the entry, leaves a task under another task's  *)
(* key or one task under two keys.                                         *)
OneKeyPerTask ==
    \A j, k \in DOMAIN db :
      /\ db[k].taskID = k.taskID
      /\ j.taskID = k.taskID => j = k

(* What the two properties above rest on: the copies the calls in progress *)
(* will write are sound, and the keys they will write under are unique.    *)
Writing(o) == o.pc \in {"bump", "put", "update"}

OpSound(o) ==
    /\ Writing(o) \/ o.pc = "locate" => o.task \in Task /\ TaskSound(o.task)
    /\ Writing(o) => o.key \in Key /\ o.key.taskID = o.task.taskID
    /\ o.pc \in {"getStat", "putStat"} => o.todo # <<>> /\ o.id \in TaskIDs

KeyInUse(k) == k \in DOMAIN db \/ \E w \in Workers : Writing(op[w]) /\ op[w].key = k

KeysUnique ==
    /\ \A k \in Key : KeyInUse(k) => k.taskID \in used
    /\ \A j, k \in Key :
         KeyInUse(j) /\ KeyInUse(k) /\ j.taskID = k.taskID => j = k

IInv ==
    /\ TypeOK
    /\ TaskRecordsSound
    /\ \A w \in Workers : OpSound(op[w])
    /\ \A k \in DOMAIN db : db[k].taskID = k.taskID
    /\ KeysUnique

(* incrementStat is an unprotected Get and Put, so counts get lost, but    *)
(* nothing is counted twice: the total never exceeds the tasks created.    *)
TotalsNeverOvercount == stats["totalEnqueued"] <= Cardinality(used)

-----------------------------------------------------------------------------
(* With one consumer *)

Summary(task) ==
    [state |-> task.state, retries |-> task.retries, by |-> task.claimedBy]

Ledger ==
    INSTANCE TaskLedger WITH
        Keys <- Key, Before <- Precedes, Holders <- Workers,
        Ordered <- Serialized, tasks <- [k \in DOMAIN db |-> Summary(db[k])]

(* With one consumer, any producers and any purgers interleaved with it,   *)
(* every write is one step of the ledger: no task is claimed twice, revived*)
(* after it was finished, or purged before.  With callers that take turns  *)
(* Dequeue also claims a task that no other pending one precedes.          *)
ImplementsLedger == Ledger!Spec

(* What Dequeue returned to the only consumer, and it has not settled, is  *)
(* still stored as claimed by it between its calls.                        *)
HeldIsClaimed ==
    \A w \in Consumers : op[w].pc = "idle" =>
      \A id \in handed[w] : \E k \in DOMAIN db :
        db[k].taskID = id /\ db[k].state = "claimed" /\ db[k].claimedBy = w

Finished(id) ==
    \A k \in DOMAIN db : db[k].taskID = id => Terminal(db[k])

Stored(id) == \E k \in DOMAIN db : db[k].taskID = id

(* A consumer that keeps polling and settles what it was handed drains the *)
(* queue: every stored task is in the end completed or dead-lettered (and  *)
(* perhaps purged), also one whose readyTs is ahead of the consumer's clock*)
(* when it is first seen.                                                  *)
Drains == \A id \in TaskIDs : Stored(id) ~> [](Finished(id))

-----------------------------------------------------------------------------
(* With callers that take turns *)

Quiet == \A w \in Workers : op[w].pc = "idle"

CountOf(state) == Cardinality({k \in DOMAIN db : db[k].state = state})

(* Between calls, and as long as no process has died inside one, the       *)
(* counters of Stats agree with the stored tasks.  Purge leaves completed  *)
(* and deadLettered alone, so those two count tasks that are gone as well. *)
StatsExact ==
    Quiet /\ crashes = 0 =>
      /\ stats["pending"] = CountOf("pending")
      /\ stats["claimed"] = CountOf("claimed")
      /\ stats["totalEnqueued"] = Cardinality(used)
      /\ stats["completed"] + stats["deadLettered"]
           = Cardinality(used) - CountOf("pending") - CountOf("claimed")

-----------------------------------------------------------------------------
(* What the documentation says and the code does not do *)

(* "Atomic claim protocol for concurrent workers" (queue.go:9): no write    *)
(* gives a claimed task to another worker, or claims it a second time.     *)
AtomicClaim ==
    [][\A k \in DOMAIN db \cap DOMAIN db' :
         db[k].state = "claimed" /\ db'[k].state = "claimed"
           => db'[k] = db[k]]_db

(* "Visibility timeout for crash recovery" (queue.go:10): a claim that has *)
(* outlived the timeout, and that no worker still holds, ends.             *)
Overdue(id) ==
    /\ \A w \in Workers : id \notin handed[w] /\ op[w].task = NoTask
    /\ \E k \in DOMAIN db :
         /\ db[k].taskID = id /\ db[k].state = "claimed"
         /\ \A p \in Procs : clock[p] > db[k].claimedAt + VisibilityTimeout

ClaimedInStore(id) ==
    \E k \in DOMAIN db : db[k].taskID = id /\ db[k].state = "claimed"

VisibilityTimeoutRecovers ==
    \A id \in TaskIDs : Overdue(id) ~> ~ClaimedInStore(id)

=============================================================================
