----------------------------- MODULE LedgerProofs -----------------------------
(***************************************************************************)
(* Proofs that the queue implements its ledger, that what a consumer holds *)
(* stays claimed, and that the counters are exact, for any number of       *)
(* producers, purgers, tasks, processes and crashes, as long as consumers  *)
(* do not race and requests do not fail; and that, whatever fails,         *)
(* consumers that do not race claim no task twice.                         *)
(***************************************************************************)
EXTENDS QueueProofs

(* What follows is about callers that do not race to settle a task, and    *)
(* whose requests do not fail: one consumer with any producers and         *)
(* purgers around it, or callers that take turns.  In the second case      *)
(* Dequeue is to claim in order, which a scan that skips what is not ready *)
(* by its own clock does only if the callers share that clock.             *)
SettlesAlone ==
    /\ MaxErrors = 0
    /\ \/ ~Serialized /\ \A u, v \in Consumers : u = v
       \/ Serialized /\ (Backend # "scanPrefix" \/ \A p, q \in Procs : p = q)

Submitting(o) == o.pc \in {"bump", "put"} /\ o.call = "Enqueue"

Consuming(o) == o.pc # "idle" /\ o.call \in {"Dequeue", "Ack", "Nack"}

Pending(k) == k \in DOMAIN db /\ db[k].state = "pending"

ClaimedBy(k, w) ==
    k \in DOMAIN db /\ db[k].state = "claimed" /\ db[k].claimedBy = w

(* Each call reaches the code of its own requests only. *)
CallFits(o) ==
    /\ o.pc = "bump" => o.call = "Enqueue"
    /\ o.pc = "put" => o.call \in {"Enqueue", "Dequeue"}
    /\ o.pc = "scan" => o.call = "Dequeue"
    /\ o.pc \in {"locate", "update"} => o.call \in {"Ack", "Nack"} /\ Backend # "embedded"
    /\ o.doomed # {} => o.pc = "delete"

(* Nothing is stored, or about to be deleted, under the key of a new task. *)
SubmitsFresh(o) ==
    /\ o.key \notin DOMAIN db
    /\ \A v \in Workers : o.key \notin op[v].doomed
    /\ Summary(o.task) = [state |-> "pending", retries |-> 0, by |-> Nobody]

(* What Purge saw finished stays so, or is gone for good. *)
DoomedFinished(o) ==
    \A k \in o.doomed : k.taskID \in used /\ (k \in DOMAIN db => Terminal(db[k]))

(* What Dequeue scanned is still there when it writes its claim. *)
ClaimsPending(w, o) ==
    /\ Pending(o.key)
    /\ Serialized => \A j \in DOMAIN db : Pending(j) => ~Precedes(j, o.key)
    /\ Summary(o.task) = [state |-> "claimed", retries |-> db[o.key].retries, by |-> w]

(* What Ack or Nack computed fits the task it finds: the caller's claim. *)
SettlesClaim(w, o) ==
    \E k \in DOMAIN db :
      /\ k.taskID = o.task.taskID /\ ClaimedBy(k, w)
      /\ o.pc = "update" => k = o.key
      /\ Summary(o.task) = Summary(IF o.call = "Ack" THEN Acked(db[k]) ELSE Nacked(db[k]))

OpFollows(w, o) ==
    /\ CallFits(o)
    /\ Submitting(o) => SubmitsFresh(o)
    /\ DoomedFinished(o)
    /\ o.pc = "put" /\ o.call = "Dequeue" => ClaimsPending(w, o)
    /\ o.pc \in {"locate", "update"} => SettlesClaim(w, o)
    /\ Counting(o) /\ o.call = "Dequeue"
         => \E k \in DOMAIN db : k.taskID = o.id /\ ClaimedBy(k, w)

(* A task handed over is stored as claimed until its Ack or Nack wrote.    *)
HeldFollows(w, o) ==
    /\ handed[w] # {} => w \in Consumers
    /\ \A id \in handed[w] :
         \/ \E k \in DOMAIN db : k.taskID = id /\ ClaimedBy(k, w)
         \/ Counting(o) /\ o.call \in {"Ack", "Nack"} /\ o.id = id

(* With callers in turn, every key made is due by now, and was due when    *)
(* the scan read its clock.                                                *)
ReadyInTime ==
    Serialized =>
      /\ \A k \in Key, p \in Procs : KeyInUse(k) => Ready(k, clock[p])
      /\ \A w \in Workers : op[w].pc = "scan" =>
           \A k \in DOMAIN db : Ready(k, op[w].at)

OneAtWork ==
    /\ \A w \in Workers : Consuming(op[w]) => w \in Consumers
    /\ Serialized => \A u, v \in Workers :
         op[u].pc # "idle" /\ op[v].pc # "idle" => u = v

LedgerInv ==
    /\ errors = 0
    /\ OneAtWork
    /\ ReadyInTime
    /\ \A w \in Workers : OpFollows(w, op[w]) /\ HeldFollows(w, op[w])

-----------------------------------------------------------------------------
(* The ledger's view of the helpers on tasks *)

LEMMA RecordSummary ==
    ASSUME NEW t \in Task
    PROVE  /\ \A s \in States : Summary([t EXCEPT !.state = s])
                = [state |-> s, retries |-> t.retries, by |-> t.claimedBy]
           /\ Summary(t).state = t.state /\ Summary(t).retries = t.retries
           /\ Summary(t).by = t.claimedBy
BY TaskExcept DEF Summary

LEMMA SummaryOfHelpers ==
    /\ \A id : Summary(NewTask(id))
         = [state |-> "pending", retries |-> 0, by |-> Nobody]
    /\ \A t \in Task, w \in Workers, now \in Nat : Summary(Claimed(t, w, now))
         = [state |-> "claimed", retries |-> t.retries, by |-> w]
    /\ \A t \in Task : Summary(Acked(t))
         = [state |-> "completed", retries |-> t.retries, by |-> t.claimedBy]
    /\ \A t \in Task : Summary(Nacked(t)) =
         IF t.retries + 1 >= MaxRetries
         THEN [state |-> "dead_lettered", retries |-> t.retries + 1, by |-> t.claimedBy]
         ELSE [state |-> "pending", retries |-> t.retries + 1, by |-> Nobody]
<1>1. \A id : Summary(NewTask(id)) = [state |-> "pending", retries |-> 0, by |-> Nobody]
  BY DEF Summary, NewTask
<1>2. ASSUME NEW t \in Task, NEW w \in Workers, NEW now \in Nat
      PROVE  Summary(Claimed(t, w, now))
               = [state |-> "claimed", retries |-> t.retries, by |-> w]
  <2>. DEFINE a == [t EXCEPT !.state = "claimed"]
              b == [a EXCEPT !.claimedBy = w]
              c == [b EXCEPT !.claimedAt = now]
  <2>1. a \in Task /\ a.state = "claimed" /\ a.retries = t.retries
    BY TaskExcept DEF States
  <2>2. b \in Task /\ b.state = a.state /\ b.retries = a.retries /\ b.claimedBy = w
    BY <2>1, TaskExcept
  <2>3. /\ c \in Task /\ c.state = b.state /\ c.retries = b.retries
        /\ c.claimedBy = b.claimedBy
    <3>. HIDE DEF b
    <3>. QED  BY <2>2, TaskExcept
  <2>4. Claimed(t, w, now) = c
    BY DEF Claimed
  <2>. HIDE DEF a, b, c
  <2>. QED  BY <2>1, <2>2, <2>3, <2>4 DEF Summary
<1>3. ASSUME NEW t \in Task
      PROVE  Summary(Acked(t))
               = [state |-> "completed", retries |-> t.retries, by |-> t.claimedBy]
  BY TaskExcept DEF Acked, Summary, States
<1>4. ASSUME NEW t \in Task
      PROVE  Summary(Nacked(t)) =
               IF t.retries + 1 >= MaxRetries
               THEN [state |-> "dead_lettered", retries |-> t.retries + 1, by |-> t.claimedBy]
               ELSE [state |-> "pending", retries |-> t.retries + 1, by |-> Nobody]
  <2>. DEFINE a == [t EXCEPT !.retries = t.retries + 1]
              d == [a EXCEPT !.state = "dead_lettered"]
              p == [a EXCEPT !.state = "pending"]
              q == [p EXCEPT !.claimedBy = Nobody]
              r == [q EXCEPT !.claimedAt = Never]
  <2>0. t.retries + 1 \in Nat /\ Never \in Int
    BY DEF Task, Never
  <2>1. /\ a \in Task /\ a.claimedBy = t.claimedBy /\ a.retries = t.retries + 1
    BY <2>0, TaskExcept
  <2>2. /\ d \in Task /\ d.state = "dead_lettered" /\ d.claimedBy = a.claimedBy
        /\ d.retries = a.retries
    BY <2>1, TaskExcept DEF States
  <2>3. /\ p \in Task /\ p.state = "pending" /\ p.retries = a.retries
    BY <2>1, TaskExcept DEF States
  <2>4. /\ q \in Task /\ q.state = p.state /\ q.retries = p.retries
        /\ q.claimedBy = Nobody
    BY <2>3, TaskExcept
  <2>5. /\ r \in Task /\ r.state = q.state /\ r.retries = q.retries
        /\ r.claimedBy = q.claimedBy
    BY <2>0, <2>4, TaskExcept
  <2>6. Nacked(t) = IF t.retries + 1 >= MaxRetries THEN d ELSE r
    BY DEF Nacked
  <2>. HIDE DEF a, d, p, q, r
  <2>. QED  BY <2>1, <2>2, <2>3, <2>4, <2>5, <2>6 DEF Summary
<1>. QED  BY <1>1, <1>2, <1>3, <1>4

(* The task of an identifier is stored under one key.                      *)
LEMMA OneEntry ==
    ASSUME IInv, NEW j \in DOMAIN db, NEW k \in DOMAIN db, j.taskID = k.taskID
    PROVE  j = k
BY DEF IInv, TypeOK, KeysUnique, KeyInUse

-----------------------------------------------------------------------------
(* The steps of one worker, and those beside it *)

(* When callers take turns, the one that steps is the only one at work.    *)
LEMMA Solo ==
    ASSUME LedgerInv, NEW w \in Workers, MayStart(w) \/ op[w].pc # "idle"
    PROVE  Serialized => \A v \in Workers \ {w} : op[v].pc = "idle"
BY DEF LedgerInv, OneAtWork, MayStart

(* No other worker is in a call on a task while a consumer is.             *)
LEMMA ConsumerAlone ==
    ASSUME SettlesAlone, LedgerInv, NEW w \in Consumers, w \in Workers,
           MayStart(w) \/ op[w].pc # "idle"
    PROVE  \A v \in Workers \ {w} : ~Consuming(op[v])
<1>1. CASE Serialized
  BY <1>1, Solo DEF Consuming
<1>2. CASE ~Serialized
  BY <1>2 DEF SettlesAlone, LedgerInv, OneAtWork
<1>. QED  BY <1>1, <1>2

(* A step that changes no entry but k leaves a worker it does not move as  *)
(* it was, if k is none of this worker's.                                  *)
LEMMA Bystander ==
    ASSUME LedgerInv, NEW v \in Workers, op'[v] = op[v], handed'[v] = handed[v],
           used \subseteq used',
           NEW k, DOMAIN db' \ {k} = DOMAIN db \ {k},
           \A j \in DOMAIN db \ {k} : db'[j] = db[j],
           Serialized => op[v].pc = "idle" \/ db' = db,
           Submitting(op[v]) =>
             /\ k \notin DOMAIN db' \/ op[v].key # k
             /\ \A u \in Workers : op[v].key \notin op'[u].doomed,
           k \in op[v].doomed => k \notin DOMAIN db',
           op[v].pc = "put" /\ op[v].call = "Dequeue" => op[v].key # k,
           ~ClaimedBy(k, v)
    PROVE  OpFollows(v, op[v])' /\ HeldFollows(v, op[v])'
<1>. DEFINE o == op[v]
<1>0. OpFollows(v, o) /\ HeldFollows(v, o)
  BY DEF LedgerInv
<1>1. \A j : ClaimedBy(j, v) => ClaimedBy(j, v)' /\ db'[j] = db[j] /\ j \in DOMAIN db'
  BY DEF ClaimedBy
<1>2. Submitting(o) => SubmitsFresh(o)'
  BY <1>0 DEF OpFollows, SubmitsFresh
<1>3. DoomedFinished(o)'
  BY <1>0 DEF OpFollows, DoomedFinished
<1>4. o.pc = "put" /\ o.call = "Dequeue" => ClaimsPending(v, o)'
  <2>. SUFFICES ASSUME o.pc = "put", o.call = "Dequeue"
                PROVE  ClaimsPending(v, o)'
    OBVIOUS
  <2>1. ClaimsPending(v, o) /\ o.key # k
    BY <1>0 DEF OpFollows
  <2>2. Pending(o.key)' /\ db'[o.key] = db[o.key]
    BY <2>1 DEF ClaimsPending, Pending
  <2>3. Serialized => \A j \in DOMAIN db' : Pending(j)' => ~Precedes(j, o.key)
    BY <2>1 DEF ClaimsPending, Pending
  <2>. QED  BY <2>1, <2>2, <2>3 DEF ClaimsPending
<1>5. o.pc \in {"locate", "update"} => SettlesClaim(v, o)'
  BY <1>0, <1>1 DEF OpFollows, SettlesClaim
<1>6. Counting(o) /\ o.call = "Dequeue"
         => \E j \in DOMAIN db' : j.taskID = o.id /\ ClaimedBy(j, v)'
  BY <1>0, <1>1 DEF OpFollows
<1>7. HeldFollows(v, o)'
  BY <1>0, <1>1 DEF HeldFollows
<1>8. OpFollows(v, o)'
  BY <1>0, <1>2, <1>3, <1>4, <1>5, <1>6 DEF OpFollows
<1>. QED  BY <1>7, <1>8

(* What a step of one worker has to keep. *)
LEMMA WorkerStep ==
    ASSUME LedgerInv, IInv, NEW w \in Workers, NEW o, op' = [op EXCEPT ![w] = o],
           errors' = errors, MayStart(w) \/ op[w].pc # "idle",
           Consuming(o) => w \in Consumers,
           \A v \in Workers \ {w} : OpFollows(v, op[v])' /\ HeldFollows(v, op[v])',
           OpFollows(w, o)', HeldFollows(w, o)', ReadyInTime'
    PROVE  LedgerInv'
<1>1. op'[w] = o /\ \A v \in Workers \ {w} : op'[v] = op[v]
  BY DEF IInv, TypeOK
<1>2. OneAtWork'
  BY <1>1, Solo DEF LedgerInv, OneAtWork
<1>3. \A v \in Workers : OpFollows(v, op[v])' /\ HeldFollows(v, op[v])'
  BY <1>1
<1>. QED  BY <1>2, <1>3 DEF LedgerInv

(* Steps that make no key and begin no scan. *)
LEMMA ReadyKept ==
    ASSUME LedgerInv, IInv, NEW w \in Workers, NEW o, op' = [op EXCEPT ![w] = o],
           MayStart(w) \/ op[w].pc # "idle", clock' = clock, o.pc # "scan",
           \A k \in Key : KeyInUse(k)' => KeyInUse(k)
    PROVE  ReadyInTime'
<1>1. op'[w] = o /\ \A v \in Workers \ {w} : op'[v] = op[v]
  BY DEF IInv, TypeOK
<1>2. Serialized => \A v \in Workers : op'[v].pc # "scan"
  BY <1>1, Solo
<1>. QED  BY <1>2 DEF LedgerInv, ReadyInTime, Ready

(* Steps that change no entry. *)
LEMMA QuietStep ==
    ASSUME LedgerInv, IInv, NEW w \in Workers, NEW o, op' = [op EXCEPT ![w] = o],
           MayStart(w) \/ op[w].pc # "idle",
           db' = db, used \subseteq used', errors' = errors,
           \A v \in Workers \ {w} : handed'[v] = handed[v],
           \A k \in o.doomed : k \in op[w].doomed \/ k \in DOMAIN db,
           Consuming(o) => w \in Consumers,
           OpFollows(w, o), HeldFollows(w, o)', ReadyInTime'
    PROVE  LedgerInv'
<1>1. op'[w] = o /\ \A v \in Workers \ {w} : op'[v] = op[v]
  BY DEF IInv, TypeOK
<1>2. ASSUME NEW v \in Workers \ {w}
      PROVE  OpFollows(v, op[v])' /\ HeldFollows(v, op[v])'
  <2>1. NoKey \notin DOMAIN db /\ NoKey \notin op[v].doomed
    BY QueueAssumption DEF QueueAssumption, IInv, TypeOK, OpType
  <2>2. Submitting(op[v]) => \A u \in Workers : op[v].key \notin op'[u].doomed
    <3>1. Submitting(op[v]) => SubmitsFresh(op[v])
      BY DEF LedgerInv, OpFollows
    <3>. QED  BY <1>1, <3>1 DEF SubmitsFresh
  <2>3. op[v].pc = "put" => op[v].key # NoKey
    BY QueueAssumption DEF QueueAssumption, IInv, OpSound, Writing
  <2>4. ~ClaimedBy(NoKey, v)
    BY <2>1 DEF ClaimedBy
  <2>. QED  BY <1>1, <2>1, <2>2, <2>3, <2>4, Bystander
<1>3. OpFollows(w, o)'
  <2>1. Submitting(o) => SubmitsFresh(o)'
    <3>1. Submitting(o) => SubmitsFresh(o) /\ o.doomed = {}
      BY DEF OpFollows, CallFits, Submitting
    <3>. QED  BY <1>1, <3>1 DEF SubmitsFresh
  <2>2. DoomedFinished(o)'
    BY DEF OpFollows, DoomedFinished
  <2>3. o.pc = "put" /\ o.call = "Dequeue" => ClaimsPending(w, o)'
    BY DEF OpFollows, ClaimsPending, Pending
  <2>4. o.pc \in {"locate", "update"} => SettlesClaim(w, o)'
    BY DEF OpFollows, SettlesClaim, ClaimedBy
  <2>5. Counting(o) /\ o.call = "Dequeue"
           => \E k \in DOMAIN db' : k.taskID = o.id /\ ClaimedBy(k, w)'
    BY DEF OpFollows, ClaimedBy
  <2>. QED  BY <2>1, <2>2, <2>3, <2>4, <2>5 DEF OpFollows
<1>. QED  BY <1>1, <1>2, <1>3, WorkerStep

LEMMA IdleFollows ==
    ASSUME NEW w
    PROVE  /\ OpFollows(w, Idle) /\ ~Consuming(Idle) /\ ~Writing(Idle)
           /\ Idle.pc = "idle" /\ Idle.doomed = {}
BY DEF Idle, OpFollows, CallFits, Submitting, DoomedFinished, Counting, Consuming, Writing

(* What a worker holds when it is in no call on a task of its own. *)
LEMMA HeldKept ==
    ASSUME LedgerInv, NEW w \in Workers, db' = db, handed'[w] = handed[w], NEW o,
           Counting(op[w]) => Counting(o) /\ o.call = op[w].call /\ o.id = op[w].id
    PROVE  HeldFollows(w, o)'
<1>1. HeldFollows(w, op[w])
  BY DEF LedgerInv
<1>. QED  BY <1>1 DEF HeldFollows, ClaimedBy

LEMMA EnqueueFollows ==
    ASSUME SettlesAlone, LedgerInv, IInv, NEW w \in Workers, Enqueue(w)
    PROVE  LedgerInv'
<1>1. PICK p \in Priorities, id \in TaskIDs \ used :
         /\ used' = used \cup {id}
         /\ op' = [op EXCEPT ![w] =
                     [Idle EXCEPT !.pc = "bump", !.call = "Enqueue",
                                  !.key = NewKey(w, p, id),
                                  !.task = NewTask(id)]]
  BY DEF Enqueue
<1>2. PICK o : o = [Idle EXCEPT !.pc = "bump", !.call = "Enqueue",
                                !.key = NewKey(w, p, id), !.task = NewTask(id)]
  OBVIOUS
<1>3. /\ op' = [op EXCEPT ![w] = o] /\ o.pc = "bump" /\ o.call = "Enqueue"
      /\ o.key = NewKey(w, p, id) /\ o.task = NewTask(id) /\ o.doomed = {}
  BY <1>1, <1>2 DEF Idle
<1>4. /\ o.key \in Key /\ o.key.taskID = id /\ o.key.readyTs = clock[ProcOf[w]]
  <2>1. /\ NewKey(w, p, id) \in Key /\ NewKey(w, p, id).taskID = id
        /\ NewKey(w, p, id).readyTs = clock[ProcOf[w]]
    BY QueueAssumption DEF NewKey, Key, IInv, TypeOK, QueueAssumption
  <2>. QED  BY <1>3, <2>1
<1>5. /\ MayStart(w) /\ db' = db /\ used \subseteq used' /\ errors' = errors
      /\ clock' = clock /\ handed' = handed /\ op[w].pc = "idle"
  BY <1>1 DEF Enqueue, MayStart
<1>6. o.key \notin DOMAIN db /\ \A v \in Workers : o.key \notin op[v].doomed
  <2>1. o.key \notin DOMAIN db
    BY <1>4 DEF IInv, KeysUnique, KeyInUse
  <2>. QED  BY <1>4, <2>1 DEF LedgerInv, OpFollows, DoomedFinished
<1>7. OpFollows(w, o) /\ ~Consuming(o)
  BY <1>3, <1>6, SummaryOfHelpers
     DEF OpFollows, CallFits, Submitting, SubmitsFresh, DoomedFinished, Counting, Consuming
<1>8. ReadyInTime'
  <2>. SUFFICES ASSUME Serialized PROVE ReadyInTime'
    BY DEF ReadyInTime
  <2>1. op'[w] = o /\ \A v \in Workers \ {w} : op'[v] = op[v] /\ op[v].pc = "idle"
    BY <1>3, <1>5, Solo DEF IInv, TypeOK
  <2>2. \A k \in Key : KeyInUse(k)' => KeyInUse(k) \/ k = o.key
    BY <1>5, <2>1 DEF KeyInUse
  <2>3. \A q \in Procs : Ready(o.key, clock[q])
    <3>1. Backend = "scanPrefix" => \A q \in Procs : ProcOf[w] = q
      BY QueueAssumption DEF SettlesAlone, QueueAssumption
    <3>2. \A q \in Procs : clock[q] \in Nat
      BY DEF IInv, TypeOK
    <3>. QED  BY <1>4, <3>1, <3>2 DEF Ready
  <2>. QED  BY <1>3, <1>5, <2>1, <2>2, <2>3 DEF LedgerInv, ReadyInTime, Ready
<1>9. HeldFollows(w, o)'
  BY <1>3, <1>5, HeldKept DEF Counting
<1>. QED  BY <1>3, <1>5, <1>7, <1>8, <1>9, QuietStep

LEMMA BumpFollows ==
    ASSUME LedgerInv, IInv, NEW w \in Workers, BumpSequence(w)
    PROVE  LedgerInv'
<1>1. PICK o : o = [op[w] EXCEPT !.pc = "put"] /\ op' = [op EXCEPT ![w] = o]
  BY DEF BumpSequence, Goto, IInv, TypeOK
<1>2. /\ o.pc = "put" /\ o.call = op[w].call /\ o.key = op[w].key
      /\ o.task = op[w].task /\ o.doomed = op[w].doomed
  BY <1>1 DEF IInv, TypeOK, OpType
<1>3. /\ op[w].pc = "bump" /\ op[w].call = "Enqueue" /\ db' = db /\ used' = used
      /\ errors' = errors /\ clock' = clock /\ handed' = handed
  BY DEF BumpSequence, LedgerInv, OpFollows, CallFits
<1>4. OpFollows(w, o) /\ ~Consuming(o)
  BY <1>2, <1>3 DEF LedgerInv, OpFollows, CallFits, Submitting, SubmitsFresh,
                    DoomedFinished, Counting, Consuming
<1>5. ReadyInTime'
  <2>1. op'[w] = o /\ \A v \in Workers \ {w} : op'[v] = op[v]
    BY <1>1 DEF IInv, TypeOK
  <2>2. \A k \in Key : KeyInUse(k)' => KeyInUse(k)
    BY <1>2, <1>3, <2>1 DEF KeyInUse, Writing
  <2>. QED  BY <1>1, <1>2, <1>3, <2>2, ReadyKept
<1>6. HeldFollows(w, o)'
  BY <1>2, <1>3, HeldKept DEF Counting
<1>. QED  BY <1>1, <1>2, <1>3, <1>4, <1>5, <1>6, QuietStep

LEMMA DequeueFollows ==
    ASSUME LedgerInv, IInv, NEW w \in Workers, Dequeue(w)
    PROVE  LedgerInv'
<1>1. PICK o : /\ o = [Idle EXCEPT !.pc = "scan", !.call = "Dequeue",
                                   !.at = clock[ProcOf[w]]]
               /\ op' = [op EXCEPT ![w] = o]
  BY DEF Dequeue
<1>2. o.pc = "scan" /\ o.call = "Dequeue" /\ o.at = clock[ProcOf[w]] /\ o.doomed = {}
  BY <1>1 DEF Idle
<1>3. /\ w \in Consumers /\ MayStart(w) /\ db' = db /\ used' = used /\ op[w].pc = "idle"
      /\ errors' = errors /\ clock' = clock /\ handed' = handed
  BY DEF Dequeue, MayStart
<1>4. OpFollows(w, o)
  BY <1>2 DEF OpFollows, CallFits, Submitting, DoomedFinished, Counting
<1>5. ReadyInTime'
  <2>. SUFFICES ASSUME Serialized PROVE ReadyInTime'
    BY DEF ReadyInTime
  <2>1. op'[w] = o /\ \A v \in Workers \ {w} : op'[v] = op[v] /\ op[v].pc = "idle"
    BY <1>1, <1>3, Solo DEF IInv, TypeOK
  <2>2. \A k \in Key : KeyInUse(k)' => KeyInUse(k)
    BY <1>2, <1>3, <2>1 DEF KeyInUse, Writing
  <2>3. \A k \in DOMAIN db : k \in Key /\ KeyInUse(k)
    BY DEF KeyInUse, IInv, TypeOK
  <2>4. ProcOf[w] \in Procs
    BY QueueAssumption DEF QueueAssumption
  <2>. QED  BY <1>2, <1>3, <2>1, <2>2, <2>3, <2>4 DEF LedgerInv, ReadyInTime, Ready
<1>6. HeldFollows(w, o)'
  BY <1>3, HeldKept DEF Counting
<1>. QED  BY <1>1, <1>2, <1>3, <1>4, <1>5, <1>6, QuietStep

(* What Dequeue finds is pending, and the first in order if all is ready.  *)
LEMMA ScanFollows ==
    ASSUME LedgerInv, IInv, NEW w \in Workers, DequeueScan(w)
    PROVE  LedgerInv'
<1>1. PICK k \in FirstOf(Claimable(op[w].at)) :
        op' = [op EXCEPT ![w] =
                 [Idle EXCEPT !.pc = "put", !.call = "Dequeue", !.key = k,
                              !.task = Claimed(db[k], w, op[w].at)]]
  BY DEF DequeueScan
<1>2. PICK o : /\ o = [Idle EXCEPT !.pc = "put", !.call = "Dequeue", !.key = k,
                                   !.task = Claimed(db[k], w, op[w].at)]
               /\ op' = [op EXCEPT ![w] = o]
  BY <1>1
<1>3. /\ o.pc = "put" /\ o.call = "Dequeue" /\ o.key = k /\ o.doomed = {}
      /\ o.task = Claimed(db[k], w, op[w].at)
  BY <1>2 DEF Idle
<1>4. /\ op[w].pc = "scan" /\ op[w].call = "Dequeue" /\ db' = db /\ used' = used
      /\ errors' = errors /\ clock' = clock /\ handed' = handed
  BY DEF DequeueScan, LedgerInv, OpFollows, CallFits
<1>5. /\ Pending(k) /\ k \in Key /\ db[k] \in Task /\ op[w].at \in Nat
      /\ \A j \in Claimable(op[w].at) : ~Precedes(j, k)
      /\ Visible = DOMAIN db
  BY <1>1 DEF FirstOf, Claimable, Visible, Pending, IInv, TypeOK, OpType
<1>6. Serialized => \A j \in DOMAIN db : Pending(j) => ~Precedes(j, k)
  BY <1>4, <1>5 DEF LedgerInv, ReadyInTime, Claimable, Pending
<1>7. ClaimsPending(w, o)
  BY <1>3, <1>5, <1>6, SummaryOfHelpers DEF ClaimsPending
<1>8. OpFollows(w, o) /\ w \in Consumers
  BY <1>3, <1>4, <1>7
     DEF OpFollows, CallFits, Submitting, DoomedFinished, Counting, LedgerInv, OneAtWork, Consuming
<1>9. ReadyInTime'
  <2>1. op'[w] = o /\ \A v \in Workers \ {w} : op'[v] = op[v]
    BY <1>2 DEF IInv, TypeOK
  <2>2. \A j \in Key : KeyInUse(j)' => KeyInUse(j)
    BY <1>3, <1>4, <1>5, <2>1 DEF KeyInUse, Pending
  <2>. QED  BY <1>2, <1>3, <1>4, <2>2, ReadyKept
<1>10. HeldFollows(w, o)'
  BY <1>3, <1>4, HeldKept DEF Counting
<1>. QED  BY <1>2, <1>3, <1>4, <1>8, <1>9, <1>10, QuietStep

LEMMA NothingFollows ==
    ASSUME LedgerInv, IInv, NEW w \in Workers, DequeueNothing(w)
    PROVE  LedgerInv'
<1>1. /\ op' = [op EXCEPT ![w] = Idle] /\ op[w].pc = "scan" /\ db' = db
      /\ used' = used /\ errors' = errors /\ clock' = clock /\ handed' = handed
  BY DEF DequeueNothing, Return
<1>2. ReadyInTime'
  <2>1. op'[w] = Idle /\ \A v \in Workers \ {w} : op'[v] = op[v]
    BY <1>1 DEF IInv, TypeOK
  <2>2. \A j \in Key : KeyInUse(j)' => KeyInUse(j)
    BY <1>1, <2>1, IdleFollows DEF KeyInUse
  <2>. QED  BY <1>1, <2>2, IdleFollows, ReadyKept
<1>3. HeldFollows(w, Idle)'
  BY <1>1, HeldKept DEF Counting
<1>. QED  BY <1>1, <1>2, <1>3, IdleFollows, QuietStep

(* Ack and Nack find the task their caller was handed as it claimed it.    *)
LEMMA SettleFollows ==
    ASSUME LedgerInv, IInv, NEW w \in Workers, NEW id \in TaskIDs,
           Ack(w, id) \/ Nack(w, id)
    PROVE  LedgerInv'
<1>1. PICK call \in {"Ack", "Nack"}, k \in FirstOf(EntriesOf(id)) :
        Settle(w, call, id, IF call = "Ack" THEN Acked(db[k]) ELSE Nacked(db[k]))
  BY DEF Ack, Nack
<1>2. PICK t : t = (IF call = "Ack" THEN Acked(db[k]) ELSE Nacked(db[k]))
  OBVIOUS
<1>3. PICK o : /\ o = [Idle EXCEPT !.pc = "locate", !.call = call, !.task = t]
               /\ op' = [op EXCEPT ![w] = o]
  BY <1>1, <1>2 DEF Settle
<1>4. o.pc = "locate" /\ o.call = call /\ o.task = t /\ o.doomed = {}
  BY <1>3 DEF Idle
<1>5. /\ w \in Consumers /\ MayStart(w) /\ op[w].pc = "idle" /\ id \in handed[w]
      /\ db' = db /\ used' = used /\ errors' = errors /\ clock' = clock
      /\ handed' = handed
  BY <1>1 DEF Settle, MayStart
<1>6. k \in DOMAIN db /\ k.taskID = id /\ Backend # "embedded" /\ db[k] \in Task
  BY <1>1 DEF FirstOf, EntriesOf, Visible, IInv, TypeOK
<1>7. ClaimedBy(k, w)
  <2>1. PICK j \in DOMAIN db : j.taskID = id /\ ClaimedBy(j, w)
    BY <1>5 DEF LedgerInv, HeldFollows, Counting
  <2>. QED  BY <1>6, <2>1, OneEntry
<1>8. t.taskID = id
  <2>1. db[k].taskID = id /\ TaskSound(db[k]) /\ Ackable(db[k])
    BY <1>6, <1>7 DEF IInv, TaskRecordsSound, ClaimedBy, Ackable
  <2>. QED  BY <1>2, <1>6, <2>1, TaskHelpers
<1>9. SettlesClaim(w, o)
  BY <1>1, <1>2, <1>4, <1>6, <1>7, <1>8 DEF SettlesClaim
<1>10. OpFollows(w, o)
  BY <1>4, <1>6, <1>9 DEF OpFollows, CallFits, Submitting, DoomedFinished, Counting
<1>11. ReadyInTime'
  <2>1. op'[w] = o /\ \A v \in Workers \ {w} : op'[v] = op[v]
    BY <1>3 DEF IInv, TypeOK
  <2>2. \A j \in Key : KeyInUse(j)' => KeyInUse(j)
    BY <1>4, <1>5, <2>1 DEF KeyInUse, Writing
  <2>. QED  BY <1>3, <1>4, <1>5, <2>2, ReadyKept
<1>12. HeldFollows(w, o)'
  BY <1>5, HeldKept DEF Counting
<1>. QED  BY <1>3, <1>4, <1>5, <1>10, <1>11, <1>12, QuietStep

LEMMA RefusedFollows ==
    ASSUME LedgerInv, IInv, NEW w \in Workers, NEW id \in TaskIDs, SettleRefused(w, id)
    PROVE  LedgerInv'
<1>1. /\ UNCHANGED <<db, op, used, errors, clock>> /\ op[w].pc = "idle"
      /\ \A v \in Workers : handed'[v] \subseteq handed[v]
  BY DEF SettleRefused, MayStart, IInv, TypeOK
<1>2. \A v \in Workers : OpFollows(v, op[v])'
  BY <1>1 DEF LedgerInv, OpFollows, SubmitsFresh, DoomedFinished, ClaimsPending, Pending,
              SettlesClaim, ClaimedBy
<1>3. \A v \in Workers : HeldFollows(v, op[v])'
  BY <1>1 DEF LedgerInv, HeldFollows, ClaimedBy
<1>4. ReadyInTime' /\ OneAtWork'
  BY <1>1 DEF LedgerInv, ReadyInTime, OneAtWork, KeyInUse
<1>. QED  BY <1>1, <1>2, <1>3, <1>4 DEF LedgerInv

(* The second scan finds what the first one found. *)
LEMMA LocateFinds ==
    ASSUME LedgerInv, IInv, NEW w \in Workers, LocateTask(w)
    PROVE  \E k \in DOMAIN db :
             /\ k.taskID = op[w].task.taskID /\ ClaimedBy(k, w)
             /\ op' = [op EXCEPT ![w] = [op[w] EXCEPT !.pc = "update", !.key = k]]
             /\ Summary(op[w].task)
                  = Summary(IF op[w].call = "Ack" THEN Acked(db[k]) ELSE Nacked(db[k]))
<1>. DEFINE id == op[w].task.taskID
<1>1. op[w].pc = "locate"
  BY DEF LocateTask
<1>2. SettlesClaim(w, op[w]) /\ Visible = DOMAIN db
  BY <1>1 DEF LedgerInv, OpFollows, CallFits, Visible
<1>3. PICK j \in DOMAIN db :
        /\ j.taskID = id /\ ClaimedBy(j, w)
        /\ Summary(op[w].task)
             = Summary(IF op[w].call = "Ack" THEN Acked(db[j]) ELSE Nacked(db[j]))
  BY <1>2 DEF SettlesClaim
<1>4. j \in EntriesOf(id)
  BY <1>2, <1>3 DEF EntriesOf, IInv
<1>5. PICK k \in FirstOf(EntriesOf(id)) : op' = [op EXCEPT ![w].pc = "update", ![w].key = k]
  BY <1>4 DEF LocateTask
<1>6. k \in DOMAIN db /\ k.taskID = id
  BY <1>5 DEF FirstOf, EntriesOf, Visible, IInv
<1>7. k = j
  BY <1>3, <1>6, OneEntry
<1>8. op' = [op EXCEPT ![w] = [op[w] EXCEPT !.pc = "update", !.key = k]]
  BY <1>5 DEF IInv, TypeOK
<1>. QED  BY <1>3, <1>7, <1>8

LEMMA LocateFollows ==
    ASSUME LedgerInv, IInv, NEW w \in Workers, LocateTask(w)
    PROVE  LedgerInv'
<1>1. PICK k \in DOMAIN db :
        /\ k.taskID = op[w].task.taskID /\ ClaimedBy(k, w)
        /\ op' = [op EXCEPT ![w] = [op[w] EXCEPT !.pc = "update", !.key = k]]
        /\ Summary(op[w].task)
             = Summary(IF op[w].call = "Ack" THEN Acked(db[k]) ELSE Nacked(db[k]))
  BY LocateFinds
<1>2. PICK o : /\ o = [op[w] EXCEPT !.pc = "update", !.key = k]
               /\ op' = [op EXCEPT ![w] = o]
  BY <1>1
<1>3. /\ o.pc = "update" /\ o.key = k /\ o.task = op[w].task /\ o.call = op[w].call
      /\ o.doomed = op[w].doomed
  BY <1>2 DEF IInv, TypeOK, OpType
<1>4. /\ op[w].pc = "locate" /\ db' = db /\ used' = used /\ errors' = errors
      /\ clock' = clock /\ handed' = handed
  BY DEF LocateTask
<1>5. SettlesClaim(w, o)
  BY <1>1, <1>3 DEF SettlesClaim
<1>6. OpFollows(w, o) /\ (Consuming(o) => w \in Consumers)
  BY <1>3, <1>4, <1>5 DEF LedgerInv, OpFollows, CallFits, Submitting, DoomedFinished,
                          Counting, OneAtWork, Consuming
<1>7. ReadyInTime'
  <2>1. op'[w] = o /\ \A v \in Workers \ {w} : op'[v] = op[v]
    BY <1>2 DEF IInv, TypeOK
  <2>2. \A j \in Key : KeyInUse(j)' => KeyInUse(j)
    BY <1>3, <1>4, <2>1 DEF KeyInUse
  <2>. QED  BY <1>2, <1>3, <1>4, <2>2, ReadyKept
<1>8. HeldFollows(w, o)'
  BY <1>4, HeldKept DEF Counting
<1>. QED  BY <1>2, <1>3, <1>4, <1>6, <1>7, <1>8, QuietStep

(* Steps to another counter of the same call. *)
LEMMA CountFollows ==
    ASSUME LedgerInv, IInv, NEW w \in Workers, NEW o, op' = [op EXCEPT ![w] = o],
           Counting(op[w]), Counting(o), o.call = op[w].call, o.id = op[w].id,
           o.doomed = op[w].doomed,
           UNCHANGED <<db, used, errors, clock, handed>>
    PROVE  LedgerInv'
<1>1. op[w].pc # "idle" /\ o.pc \in {"getStat", "putStat"}
  BY DEF Counting
<1>2. OpFollows(w, o) /\ (Consuming(o) => w \in Consumers)
  BY <1>1 DEF LedgerInv, OpFollows, CallFits, Submitting, DoomedFinished,
              Counting, OneAtWork, Consuming
<1>3. ReadyInTime'
  <2>1. op'[w] = o /\ \A v \in Workers \ {w} : op'[v] = op[v]
    BY DEF IInv, TypeOK
  <2>2. \A j \in Key : KeyInUse(j)' => KeyInUse(j)
    BY <1>1, <2>1 DEF KeyInUse, Writing
  <2>. QED  BY <1>1, <2>2, ReadyKept
<1>4. HeldFollows(w, o)'
  BY HeldKept
<1>. QED  BY <1>1, <1>2, <1>3, <1>4, QuietStep

LEMMA GetStatFollows ==
    ASSUME LedgerInv, IInv, NEW w \in Workers, GetStat(w)
    PROVE  LedgerInv'
<1>1. PICK o : /\ o = [op[w] EXCEPT !.pc = "putStat", !.seen = stats[Head(op[w].todo)[1]]]
               /\ op' = [op EXCEPT ![w] = o]
  BY DEF GetStat, IInv, TypeOK
<1>2. /\ o.pc = "putStat" /\ o.call = op[w].call /\ o.id = op[w].id
      /\ o.doomed = op[w].doomed
  BY <1>1 DEF IInv, TypeOK, OpType
<1>. QED  BY <1>1, <1>2, CountFollows DEF GetStat, Counting

(* A call that returns hands over the task it claimed, or takes off its    *)
(* caller the task it settled.                                             *)
LEMMA PutStatFollows ==
    ASSUME LedgerInv, IInv, NEW w \in Workers, PutStat(w)
    PROVE  LedgerInv'
<1>1. /\ op[w].pc = "putStat" /\ db' = db /\ used' = used /\ errors' = errors
      /\ clock' = clock /\ Counting(op[w])
  BY DEF PutStat, Counting
<1>2. CASE Len(op[w].todo) = 1
  <2>1. /\ op' = [op EXCEPT ![w] = Idle]
        /\ handed' = [handed EXCEPT ![w] = HandedAfter(w)]
    BY <1>2 DEF PutStat, NextStat, Return
  <2>2. handed'[w] = HandedAfter(w) /\ \A v \in Workers \ {w} : handed'[v] = handed[v]
    BY <2>1 DEF IInv, TypeOK
  <2>3. HeldFollows(w, op[w]) /\ OpFollows(w, op[w])
    BY DEF LedgerInv
  <2>4. HeldFollows(w, Idle)'
    <3>1. CASE op[w].call = "Dequeue"
      <4>1. w \in Consumers
        BY <1>1, <3>1 DEF LedgerInv, OneAtWork, Consuming
      <4>2. \E k \in DOMAIN db : k.taskID = op[w].id /\ ClaimedBy(k, w)
        BY <1>1, <2>3, <3>1 DEF OpFollows
      <4>3. handed'[w] = handed[w] \cup {op[w].id}
        BY <2>2, <3>1 DEF HandedAfter
      <4>4. \A id \in handed'[w] : \E k \in DOMAIN db : k.taskID = id /\ ClaimedBy(k, w)
        BY <2>3, <3>1, <4>2, <4>3 DEF HeldFollows
      <4>. QED  BY <1>1, <4>1, <4>4 DEF HeldFollows, ClaimedBy
    <3>2. CASE op[w].call \in {"Ack", "Nack"}
      <4>1. handed'[w] = handed[w] \ {op[w].id}
        BY <2>2, <3>2 DEF HandedAfter
      <4>2. \A id \in handed'[w] : \E k \in DOMAIN db : k.taskID = id /\ ClaimedBy(k, w)
        BY <2>3, <4>1 DEF HeldFollows
      <4>3. handed'[w] # {} => w \in Consumers
        BY <2>3, <4>1 DEF HeldFollows
      <4>. QED  BY <1>1, <4>2, <4>3 DEF HeldFollows, ClaimedBy
    <3>3. CASE op[w].call \notin {"Dequeue", "Ack", "Nack"}
      <4>1. handed'[w] = handed[w]
        BY <2>2, <3>3 DEF HandedAfter
      <4>. QED  BY <1>1, <2>3, <3>3, <4>1 DEF HeldFollows, ClaimedBy
    <3>. QED  BY <3>1, <3>2, <3>3
  <2>5. ReadyInTime'
    <3>1. op'[w] = Idle /\ \A v \in Workers \ {w} : op'[v] = op[v]
      BY <2>1 DEF IInv, TypeOK
    <3>2. \A j \in Key : KeyInUse(j)' => KeyInUse(j)
      BY <1>1, <3>1, IdleFollows DEF KeyInUse
    <3>. QED  BY <1>1, <2>1, <3>2, IdleFollows, ReadyKept
  <2>. QED  BY <1>1, <2>1, <2>2, <2>4, <2>5, IdleFollows, QuietStep
<1>3. CASE Len(op[w].todo) # 1
  <2>1. PICK o : /\ o = [op[w] EXCEPT !.pc = "getStat", !.seen = 0, !.todo = Tail(op[w].todo)]
                 /\ op' = [op EXCEPT ![w] = o]
    BY <1>3 DEF PutStat, NextStat, IInv, TypeOK
  <2>2. /\ o.pc = "getStat" /\ o.call = op[w].call /\ o.id = op[w].id
        /\ o.doomed = op[w].doomed
    BY <2>1 DEF IInv, TypeOK, OpType
  <2>3. handed' = handed
    BY <1>3 DEF PutStat, NextStat
  <2>. QED  BY <1>1, <2>1, <2>2, <2>3, CountFollows DEF Counting
<1>. QED  BY <1>2, <1>3

LEMMA PurgeFollows ==
    ASSUME LedgerInv, IInv, NEW w \in Workers, Purge(w)
    PROVE  LedgerInv'
<1>1. PICK o : /\ o = [Idle EXCEPT !.pc = "delete", !.call = "Purge",
                                   !.doomed = {k \in Visible : Terminal(db[k])}]
               /\ op' = [op EXCEPT ![w] = o]
  BY DEF Purge, PurgeWhat
<1>2. o.pc = "delete" /\ o.call = "Purge" /\ o.doomed = {k \in Visible : Terminal(db[k])}
  BY <1>1 DEF Idle
<1>3. /\ MayStart(w) /\ op[w].pc = "idle" /\ db' = db /\ used' = used /\ errors' = errors
      /\ clock' = clock /\ handed' = handed
  BY DEF Purge, MayStart
<1>4. \A k \in o.doomed : k \in DOMAIN db /\ Terminal(db[k]) /\ k.taskID \in used
  BY <1>2 DEF Visible, IInv, TypeOK, KeysUnique, KeyInUse
<1>5. OpFollows(w, o) /\ ~Consuming(o)
  BY <1>2, <1>4 DEF OpFollows, CallFits, Submitting, DoomedFinished, Counting, Consuming
<1>6. ReadyInTime'
  <2>1. op'[w] = o /\ \A v \in Workers \ {w} : op'[v] = op[v]
    BY <1>1 DEF IInv, TypeOK
  <2>2. \A j \in Key : KeyInUse(j)' => KeyInUse(j)
    BY <1>2, <1>3, <2>1 DEF KeyInUse, Writing
  <2>. QED  BY <1>1, <1>2, <1>3, <2>2, ReadyKept
<1>7. HeldFollows(w, o)'
  BY <1>3, HeldKept DEF Counting
<1>. QED  BY <1>1, <1>3, <1>4, <1>5, <1>6, <1>7, QuietStep

LEMMA DeletesDoomed ==
    ASSUME IInv, NEW w \in Workers, NEW k, op[w].pc = "delete", AfterDelete(w, k)
    PROVE  \E o : /\ op' = [op EXCEPT ![w] = o] /\ o.pc \in {"idle", "delete"}
                  /\ o.doomed \subseteq op[w].doomed /\ o.call \in {op[w].call, "none"}
                  /\ o.pc = "idle" => o.doomed = {}
<1>1. CASE op[w].doomed = {k}
  BY <1>1 DEF AfterDelete, Return, Idle
<1>2. CASE op[w].doomed # {k}
  <2>1. PICK o : /\ o = [op[w] EXCEPT !.doomed = @ \ {k}]
                 /\ op' = [op EXCEPT ![w] = o]
    BY <1>2 DEF AfterDelete, IInv, TypeOK
  <2>2. o.pc = "delete" /\ o.doomed = op[w].doomed \ {k} /\ o.call = op[w].call
    BY <2>1 DEF IInv, TypeOK, OpType
  <2>. QED  BY <2>1, <2>2
<1>. QED  BY <1>1, <1>2

(* Purge deletes finished tasks only, which are no other caller's.         *)
LEMMA DeleteFollows ==
    ASSUME LedgerInv, IInv, NEW w \in Workers, PurgeDelete(w)
    PROVE  LedgerInv'
<1>1. PICK k \in op[w].doomed : db' = Erase(k) /\ AfterDelete(w, k)
  BY DEF PurgeDelete, FirstOf
<1>2. /\ op[w].pc = "delete" /\ used' = used /\ errors' = errors
      /\ clock' = clock /\ handed' = handed
  BY DEF PurgeDelete
<1>3. PICK o : /\ op' = [op EXCEPT ![w] = o] /\ o.pc \in {"idle", "delete"}
               /\ o.doomed \subseteq op[w].doomed /\ o.call \in {op[w].call, "none"}
               /\ o.pc = "idle" => o.doomed = {}
  BY <1>1, <1>2, DeletesDoomed
<1>4. op'[w] = o /\ \A v \in Workers \ {w} : op'[v] = op[v]
  BY <1>3 DEF IInv, TypeOK
<1>5. /\ DOMAIN db' = DOMAIN db \ {k} /\ \A j \in DOMAIN db' : db'[j] = db[j]
  BY <1>1 DEF Erase
<1>6. OpFollows(w, op[w]) /\ HeldFollows(w, op[w])
  BY DEF LedgerInv
<1>7. ~Pending(k) /\ \A v : ~ClaimedBy(k, v)
  BY <1>6 DEF OpFollows, DoomedFinished, Pending, ClaimedBy, Terminal
<1>8. ASSUME NEW v \in Workers \ {w}
      PROVE  OpFollows(v, op[v])' /\ HeldFollows(v, op[v])'
  <2>1. OpFollows(v, op[v])
    BY DEF LedgerInv
  <2>2. Submitting(op[v]) => \A u \in Workers : op[v].key \notin op'[u].doomed
    BY <1>3, <1>4, <2>1 DEF OpFollows, SubmitsFresh
  <2>3. op[v].pc = "put" /\ op[v].call = "Dequeue" => op[v].key # k
    BY <1>7, <2>1 DEF OpFollows, ClaimsPending
  <2>. QED  BY <1>2, <1>4, <1>5, <1>7, <2>2, <2>3, Solo, Bystander
<1>9. OpFollows(w, o)'
  <2>1. DoomedFinished(o)'
    BY <1>2, <1>3, <1>5, <1>6 DEF OpFollows, DoomedFinished
  <2>. QED  BY <1>3, <2>1 DEF OpFollows, CallFits, Submitting, Counting
<1>10. HeldFollows(w, o)'
  <2>1. \A j : ClaimedBy(j, w) => ClaimedBy(j, w)' /\ j \in DOMAIN db'
    BY <1>5, <1>7 DEF ClaimedBy
  <2>. QED  BY <1>2, <1>6, <2>1 DEF HeldFollows, Counting
<1>11. ReadyInTime'
  <2>1. \A j \in Key : KeyInUse(j)' => KeyInUse(j)
    BY <1>2, <1>3, <1>4, <1>5 DEF KeyInUse, Writing
  <2>. QED  BY <1>2, <1>3, <2>1, ReadyKept
<1>12. Consuming(o) => w \in Consumers
  BY <1>2, <1>3 DEF Consuming, LedgerInv, OneAtWork
<1>. QED  BY <1>2, <1>3, <1>8, <1>9, <1>10, <1>11, <1>12, WorkerStep

-----------------------------------------------------------------------------
(* The three writes *)

(* Nothing is stored under the key of a new task; Dequeue overwrites what  *)
(* is pending, and Ack and Nack what their caller has claimed.             *)
LEMMA WriteMeets ==
    ASSUME LedgerInv, IInv, NEW w \in Workers, op[w].pc \in {"put", "update"}
    PROVE  \/ op[w].call = "Enqueue" /\ op[w].pc = "put" /\ SubmitsFresh(op[w])
           \/ op[w].call = "Dequeue" /\ op[w].pc = "put" /\ ClaimsPending(w, op[w])
           \/ /\ op[w].call \in {"Ack", "Nack"} /\ op[w].pc = "update"
              /\ ClaimedBy(op[w].key, w)
              /\ Summary(op[w].task)
                   = Summary(IF op[w].call = "Ack" THEN Acked(db[op[w].key])
                                                   ELSE Nacked(db[op[w].key]))
<1>1. OpFollows(w, op[w])
  BY DEF LedgerInv
<1>2. CASE op[w].pc = "put"
  BY <1>1, <1>2 DEF OpFollows, CallFits, Submitting
<1>3. CASE op[w].pc = "update"
  <2>1. SettlesClaim(w, op[w]) /\ op[w].call \in {"Ack", "Nack"}
    BY <1>1, <1>3 DEF OpFollows, CallFits
  <2>. QED  BY <1>3, <2>1 DEF SettlesClaim
<1>. QED  BY <1>2, <1>3

(* ... and what they overwrite is no other worker's.                       *)
LEMMA WriteSpares ==
    ASSUME SettlesAlone, LedgerInv, CountsInv, IInv,
           NEW w \in Workers, op[w].pc \in {"put", "update"},
           NEW v \in Workers \ {w}
    PROVE  /\ Submitting(op[v]) => op[v].key # op[w].key
           /\ op[w].key \notin op[v].doomed
           /\ op[v].pc = "put" /\ op[v].call = "Dequeue" => op[v].key # op[w].key
           /\ ~ClaimedBy(op[w].key, v)
<1>1. OpFollows(v, op[v])
  BY DEF LedgerInv
<1>2. CASE op[w].call = "Enqueue" /\ op[w].pc = "put" /\ SubmitsFresh(op[w])
  <2>1. Submitting(op[v]) => op[v].key # op[w].key
    <3>. SUFFICES ASSUME Submitting(op[v]) PROVE op[v].key # op[w].key
      OBVIOUS
    <3>1. /\ Uncounted(op[v]) = {op[v].task.taskID}
          /\ Uncounted(op[w]) = {op[w].task.taskID}
      BY <1>2 DEF Submitting, Uncounted
    <3>2. op[v].task.taskID # op[w].task.taskID
      BY <3>1 DEF CountsInv
    <3>3. op[v].key.taskID = op[v].task.taskID /\ op[w].key.taskID = op[w].task.taskID
      BY DEF IInv, OpSound, Writing, Submitting
    <3>. QED  BY <3>2, <3>3
  <2>. QED  BY <1>1, <1>2, <2>1 DEF OpFollows, SubmitsFresh, ClaimsPending, Pending, ClaimedBy
<1>3. ASSUME Pending(op[w].key) \/ ClaimedBy(op[w].key, w), Consuming(op[w])
      PROVE  /\ Submitting(op[v]) => op[v].key # op[w].key
             /\ op[w].key \notin op[v].doomed
             /\ op[v].pc = "put" /\ op[v].call = "Dequeue" => op[v].key # op[w].key
             /\ ~ClaimedBy(op[w].key, v)
  <2>1. w \in Consumers
    BY <1>3 DEF LedgerInv, OneAtWork
  <2>2. ~Consuming(op[v])
    BY <2>1, ConsumerAlone
  <2>. QED  BY <1>1, <1>3, <2>2 DEF OpFollows, SubmitsFresh, Consuming, Pending, ClaimedBy,
                                    DoomedFinished, Terminal
<1>. QED  BY <1>2, <1>3, WriteMeets DEF ClaimsPending, Consuming

LEMMA WriteFollows ==
    ASSUME SettlesAlone, LedgerInv, CountsInv, IInv,
           NEW w \in Workers, PutTask(w) \/ UpdateTask(w)
    PROVE  LedgerInv'
<1>1. PICK k : k = op[w].key
  OBVIOUS
<1>2. PICK o : o = StatsOp(op[w]) /\ op' = [op EXCEPT ![w] = o]
  BY DEF PutTask, UpdateTask, WriteStats, StatsOp
<1>3. /\ o.pc = "getStat" /\ o.call = op[w].call /\ o.id = op[w].task.taskID
      /\ o.doomed = {}
  BY <1>2 DEF StatsOp, Idle
<1>4. /\ op[w].pc \in {"put", "update"} /\ Writing(op[w])
      /\ db' = Store(k, op[w].task) /\ used' = used /\ errors' = errors
      /\ clock' = clock /\ handed' = handed
  BY <1>1 DEF PutTask, UpdateTask, Writing
<1>5. /\ op[w].task \in Task /\ k.taskID = op[w].task.taskID /\ k \in Key
  BY <1>1, <1>4 DEF IInv, OpSound
<1>6. /\ DOMAIN db' = DOMAIN db \cup {k} /\ db'[k] = op[w].task
      /\ \A j \in DOMAIN db \ {k} : db'[j] = db[j]
  BY <1>4 DEF Store
<1>7. op'[w] = o /\ \A v \in Workers \ {w} : op'[v] = op[v]
  BY <1>2 DEF IInv, TypeOK
<1>8. ASSUME NEW v \in Workers \ {w}
      PROVE  OpFollows(v, op[v])' /\ HeldFollows(v, op[v])'
  <2>1. /\ Submitting(op[v]) => op[v].key # k
        /\ k \notin op[v].doomed
        /\ op[v].pc = "put" /\ op[v].call = "Dequeue" => op[v].key # k
        /\ ~ClaimedBy(k, v)
    BY <1>1, <1>4, WriteSpares
  <2>2. Submitting(op[v]) => \A u \in Workers : op[v].key \notin op'[u].doomed
    <3>1. Submitting(op[v]) => SubmitsFresh(op[v])
      BY DEF LedgerInv, OpFollows
    <3>. QED  BY <1>3, <1>7, <3>1 DEF SubmitsFresh
  <2>. QED  BY <1>4, <1>6, <1>7, <2>1, <2>2, Solo, Bystander
<1>9. OpFollows(w, o)'
  <2>1. ASSUME o.call = "Dequeue" PROVE ClaimedBy(k, w)'
    <3>1. Summary(op[w].task).state = "claimed" /\ Summary(op[w].task).by = w
      <4>1. ClaimsPending(w, op[w])
        BY <1>3, <1>4, <2>1, WriteMeets
      <4>. QED  BY <4>1 DEF ClaimsPending
    <3>. QED  BY <1>6, <3>1 DEF Summary, ClaimedBy
  <2>. QED  BY <1>3, <1>5, <1>6, <2>1
            DEF OpFollows, CallFits, Submitting, DoomedFinished, Counting
<1>10. HeldFollows(w, o)'
  <2>1. HeldFollows(w, op[w]) /\ ~Counting(op[w])
    BY <1>4 DEF LedgerInv, Counting
  <2>2. \A j : ClaimedBy(j, w) /\ j # k => ClaimedBy(j, w)' /\ j \in DOMAIN db'
    BY <1>6 DEF ClaimedBy
  <2>3. ClaimedBy(k, w) => Counting(o) /\ o.call \in {"Ack", "Nack"} /\ o.id = k.taskID
    BY <1>1, <1>3, <1>4, <1>5, WriteMeets
       DEF Counting, ClaimedBy, SubmitsFresh, ClaimsPending, Pending
  <2>. QED  BY <1>4, <2>1, <2>2, <2>3 DEF HeldFollows
<1>11. ReadyInTime'
  <2>1. ~Writing(o)
    BY <1>3 DEF Writing
  <2>2. \A j \in Key : KeyInUse(j)' => KeyInUse(j)
    BY <1>1, <1>4, <1>6, <1>7, <2>1 DEF KeyInUse
  <2>. QED  BY <1>2, <1>3, <1>4, <2>2, ReadyKept
<1>12. Consuming(o) => w \in Consumers
  BY <1>3, <1>4 DEF Consuming, LedgerInv, OneAtWork
<1>. QED  BY <1>2, <1>4, <1>8, <1>9, <1>10, <1>11, <1>12, WorkerStep

-----------------------------------------------------------------------------
(* Crashes, clocks and failures *)

LEMMA CrashFollows ==
    ASSUME LedgerInv, IInv, NEW p \in Procs, Crash(p)
    PROVE  LedgerInv'
<1>1. /\ UNCHANGED <<db, used, errors, clock>>
      /\ \A v \in Workers : \/ op'[v] = op[v] /\ handed'[v] = handed[v]
                            \/ op'[v] = Idle /\ handed'[v] = {}
  BY DEF Crash
<1>2. ASSUME NEW v \in Workers
      PROVE  OpFollows(v, op[v])' /\ HeldFollows(v, op[v])'
  <2>1. CASE op'[v] = op[v] /\ handed'[v] = handed[v]
    <3>1. NoKey \notin DOMAIN db /\ NoKey \notin op[v].doomed
      BY QueueAssumption DEF QueueAssumption, IInv, TypeOK, OpType
    <3>2. Submitting(op[v]) => \A u \in Workers : op[v].key \notin op'[u].doomed
      <4>1. Submitting(op[v]) => SubmitsFresh(op[v])
        BY DEF LedgerInv, OpFollows
      <4>. QED  BY <1>1, <4>1, IdleFollows DEF SubmitsFresh
    <3>3. op[v].pc = "put" => op[v].key # NoKey
      BY QueueAssumption DEF QueueAssumption, IInv, OpSound, Writing
    <3>4. ~ClaimedBy(NoKey, v)
      BY <3>1 DEF ClaimedBy
    <3>. QED  BY <1>1, <2>1, <3>1, <3>2, <3>3, <3>4, Bystander
  <2>2. CASE op'[v] = Idle /\ handed'[v] = {}
    <3>1. OpFollows(v, Idle)'
      BY DEF Idle, OpFollows, CallFits, Submitting, DoomedFinished, Counting
    <3>2. HeldFollows(v, Idle)'
      BY <2>2 DEF HeldFollows
    <3>. QED  BY <2>2, <3>1, <3>2
  <2>. QED  BY <1>1, <2>1, <2>2
<1>3. OneAtWork'
  BY <1>1, IdleFollows DEF LedgerInv, OneAtWork
<1>4. ReadyInTime'
  <2>1. \A j \in Key : KeyInUse(j)' => KeyInUse(j)
    BY <1>1, IdleFollows DEF KeyInUse
  <2>2. \A v \in Workers : op'[v].pc = "scan" => op'[v] = op[v]
    BY <1>1, IdleFollows
  <2>. QED  BY <1>1, <2>1, <2>2 DEF LedgerInv, ReadyInTime, Ready
<1>. QED  BY <1>1, <1>2, <1>3, <1>4 DEF LedgerInv

LEMMA TickFollows ==
    ASSUME LedgerInv, IInv, NEW p \in Procs, Tick(p)
    PROVE  LedgerInv'
<1>1. UNCHANGED <<db, op, used, errors, handed>> /\ clock' = [clock EXCEPT ![p] = @ + 1]
  BY DEF Tick
<1>2. \A v \in Workers : OpFollows(v, op[v])' /\ HeldFollows(v, op[v])'
  BY <1>1 DEF LedgerInv, OpFollows, SubmitsFresh, DoomedFinished, ClaimsPending, Pending,
              SettlesClaim, ClaimedBy, HeldFollows
<1>3. ReadyInTime'
  <2>1. \A k \in Key : KeyInUse(k)' => KeyInUse(k)
    BY <1>1 DEF KeyInUse
  <2>2. \A k \in Key, q \in Procs : Ready(k, clock[q]) => Ready(k, clock'[q])
    <3>1. \A q \in Procs : clock[q] \in Nat /\ clock'[q] \in {clock[q], clock[q] + 1}
      BY <1>1 DEF IInv, TypeOK
    <3>2. \A k \in Key : k.readyTs \in Nat
      BY DEF Key
    <3>. QED  BY <3>1, <3>2 DEF Ready
  <2>. QED  BY <1>1, <2>1, <2>2 DEF LedgerInv, ReadyInTime, Ready
<1>4. OneAtWork'
  BY <1>1 DEF LedgerInv, OneAtWork
<1>. QED  BY <1>1, <1>2, <1>3, <1>4 DEF LedgerInv

LEMMA NeverFails ==
    ASSUME SettlesAlone, LedgerInv, NEW w \in Workers
    PROVE  ~Fail(w)
BY DEF SettlesAlone, LedgerInv, Fail, RequestFails, StatFails, DeleteFails,
       ScanBreaks, SettleBreaks, LocateBreaks, PurgeBreaks

LEMMA NextFollows ==
    SettlesAlone /\ LedgerInv /\ CountsInv /\ IInv /\ [Next]_vars => LedgerInv'
<1>. SUFFICES ASSUME SettlesAlone, LedgerInv, CountsInv, IInv, [Next]_vars
              PROVE  LedgerInv'
  OBVIOUS
<1>1. ASSUME NEW w \in Workers, Begin(w)
      PROVE  LedgerInv'
  BY <1>1, EnqueueFollows, DequeueFollows, SettleFollows, RefusedFollows, PurgeFollows
     DEF Begin, SettleAny
<1>2. ASSUME NEW w \in Workers, Step(w)
      PROVE  LedgerInv'
  BY <1>2, BumpFollows, WriteFollows, ScanFollows, NothingFollows, LocateFollows,
     GetStatFollows, PutStatFollows, DeleteFollows DEF Step
<1>3. CASE UNCHANGED vars
  <2>1. UNCHANGED <<db, op, used, errors, handed, clock>>
    BY <1>3 DEF vars
  <2>2. \A v \in Workers : OpFollows(v, op[v])' /\ HeldFollows(v, op[v])'
    BY <2>1 DEF LedgerInv, OpFollows, SubmitsFresh, DoomedFinished, ClaimsPending, Pending,
                SettlesClaim, ClaimedBy, HeldFollows
  <2>3. OneAtWork' /\ ReadyInTime'
    BY <2>1 DEF LedgerInv, OneAtWork, ReadyInTime, KeyInUse
  <2>. QED  BY <2>1, <2>2, <2>3 DEF LedgerInv
<1>. QED  BY <1>1, <1>2, <1>3, NeverFails, CrashFollows, TickFollows DEF Next

LEMMA InitFollows == Init => LedgerInv
<1>. SUFFICES ASSUME Init PROVE LedgerInv
  OBVIOUS
<1>1. \A w \in Workers : op[w] = Idle
  BY DEF Init
<1>2. \A w \in Workers : OpFollows(w, op[w]) /\ HeldFollows(w, op[w])
  BY <1>1, IdleFollows DEF Init, HeldFollows
<1>3. OneAtWork /\ ReadyInTime
  BY <1>1, IdleFollows DEF Init, OneAtWork, ReadyInTime, KeyInUse
<1>. QED  BY <1>2, <1>3 DEF Init, LedgerInv

(* LedgerInv holds in every reachable state, if consumers do not race and  *)
(* requests do not fail.                                                   *)
THEOREM LedgerInvariant ==
    ASSUME SettlesAlone
    PROVE  Spec => []LedgerInv
<1>1. LedgerInv /\ CountsInv /\ IInv /\ [Next]_vars => LedgerInv'
  BY NextFollows
<1>. QED  BY <1>1, InitFollows, CountsInvariant, InductiveInvariant, PTL DEF Spec

(* A task Dequeue returned (queue.go:337) stays claimed by its consumer    *)
(* until that consumer settles it, whatever producers and purgers do.      *)
THEOREM HeldStaysClaimed ==
    ASSUME SettlesAlone
    PROVE  Spec => []HeldIsClaimed
<1>1. LedgerInv /\ IInv => HeldIsClaimed
  <2>. SUFFICES ASSUME LedgerInv, IInv, NEW w \in Consumers, op[w].pc = "idle",
                       NEW id \in handed[w]
                PROVE  \E k \in DOMAIN db : db[k].taskID = id /\ db[k].state = "claimed"
                                             /\ db[k].claimedBy = w
    BY DEF HeldIsClaimed
  <2>1. w \in Workers
    BY QueueAssumption DEF QueueAssumption
  <2>2. PICK k \in DOMAIN db : k.taskID = id /\ ClaimedBy(k, w)
    BY <2>1 DEF LedgerInv, HeldFollows, Counting
  <2>. QED  BY <2>2 DEF IInv, ClaimedBy
<1>. QED  BY <1>1, LedgerInvariant, InductiveInvariant, PTL

-----------------------------------------------------------------------------
(* Every step is one of the ledger, or none *)

Tasks == [k \in DOMAIN db |-> Summary(db[k])]

LEMMA StoreSets ==
    ASSUME NEW k, NEW t, db' = Store(k, t)
    PROVE  Ledger!Set(k, Summary(t)) /\ k \in DOMAIN Tasks'
BY DEF Store, Ledger!Set, Tasks

LEMMA SubmitStep ==
    ASSUME LedgerInv, IInv, NEW w \in Workers, op[w].pc \in {"put", "update"},
           SubmitsFresh(op[w]), db' = Store(op[w].key, op[w].task)
    PROVE  Ledger!Next
<1>1. op[w].key \in Key \ DOMAIN db /\ Summary(op[w].task) = Ledger!Fresh
  BY DEF IInv, OpSound, Writing, SubmitsFresh, Ledger!Fresh
<1>2. Ledger!Submit(op[w].key) /\ op[w].key \in DOMAIN Tasks'
  BY <1>1, StoreSets DEF Ledger!Submit
<1>. QED  BY <1>2 DEF Ledger!Next, Tasks

LEMMA ClaimStep ==
    ASSUME LedgerInv, IInv, NEW w \in Workers, ClaimsPending(w, op[w]),
           db' = Store(op[w].key, op[w].task)
    PROVE  Ledger!Next
<1>1. PICK k : k = op[w].key
  OBVIOUS
<1>2. /\ k \in DOMAIN db /\ db[k].state = "pending"
      /\ Summary(op[w].task) = [state |-> "claimed", retries |-> db[k].retries, by |-> w]
  BY <1>1 DEF ClaimsPending, Pending
<1>3. Ledger!Has(k, "pending")
  BY <1>2 DEF Ledger!Has, Summary
<1>4. Serialized => \A j \in DOMAIN Tasks : Ledger!Has(j, "pending") => ~Precedes(j, k)
  BY <1>1 DEF ClaimsPending, Pending, Ledger!Has, Summary, Tasks
<1>5. Ledger!Set(k, [Tasks[k] EXCEPT !.state = "claimed", !.by = w]) /\ k \in DOMAIN Tasks'
  <2>. DEFINE r == [state |-> "pending", retries |-> db[k].retries, by |-> db[k].claimedBy]
              a == [r EXCEPT !.state = "claimed"]
  <2>0. Tasks[k] = r
    BY <1>2 DEF Tasks, Summary
  <2>1. [r EXCEPT !.state = "claimed", !.by = w]
          = [state |-> "claimed", retries |-> db[k].retries, by |-> w]
    <3>1. a = [state |-> "claimed", retries |-> db[k].retries, by |-> db[k].claimedBy]
      OBVIOUS
    <3>2. [a EXCEPT !.by = w]
            = [state |-> "claimed", retries |-> db[k].retries, by |-> w]
      <4>. HIDE DEF a
      <4>. QED  BY <3>1
    <3>. QED  BY <3>2
  <2>2. [Tasks[k] EXCEPT !.state = "claimed", !.by = w]
          = [state |-> "claimed", retries |-> db[k].retries, by |-> w]
    <3>. HIDE DEF r
    <3>. QED  BY <2>0, <2>1
  <2>. QED  BY <1>1, <1>2, <2>2, StoreSets
<1>. QED  BY <1>3, <1>4, <1>5 DEF Ledger!Next, Ledger!Claim, Tasks

LEMMA SettleStep ==
    ASSUME LedgerInv, IInv, NEW w \in Workers, NEW k, k = op[w].key, ClaimedBy(k, w),
           Summary(op[w].task) = Summary(IF op[w].call = "Ack" THEN Acked(db[k])
                                                              ELSE Nacked(db[k])),
           db' = Store(k, op[w].task)
    PROVE  Ledger!Next
<1>. DEFINE r == [state |-> "claimed", retries |-> db[k].retries, by |-> w]
<1>1. /\ k \in DOMAIN Tasks /\ Tasks[k] = r
      /\ db[k] \in Task /\ TaskSound(db[k]) /\ db[k].state = "claimed" /\ db[k].claimedBy = w
  BY DEF ClaimedBy, Tasks, Summary, IInv, TypeOK, TaskRecordsSound
<1>2. /\ db[k].retries \in Nat /\ MaxRetries \in Nat /\ ~(db[k].retries >= MaxRetries)
  BY <1>1, QueueAssumption DEF QueueAssumption, TaskSound, Task
<1>3. Ledger!Set(k, Summary(op[w].task)) /\ Ledger!Has(k, "claimed") /\ k \in DOMAIN Tasks'
  <2>1. Ledger!Has(k, "claimed")
    BY <1>1 DEF Ledger!Has, Tasks
  <2>. QED  BY <2>1, StoreSets
<1>4. CASE op[w].call = "Ack"
  <2>1. Summary(op[w].task)
          = [state |-> "completed", retries |-> db[k].retries, by |-> w]
    BY <1>1, <1>4, SummaryOfHelpers
  <2>2. [Tasks[k] EXCEPT !.state = "completed"]
          = [state |-> "completed", retries |-> db[k].retries, by |-> w]
    BY <1>1
  <2>3. Ledger!Complete(k)
    BY <1>3, <2>1, <2>2 DEF Ledger!Complete, Tasks
  <2>. QED  BY <1>1, <2>3 DEF Ledger!Next, Tasks
<1>5. CASE op[w].call # "Ack" /\ db[k].retries + 1 >= MaxRetries
  <2>1. Summary(op[w].task)
          = [state |-> "dead_lettered", retries |-> db[k].retries + 1, by |-> w]
    BY <1>1, <1>5, SummaryOfHelpers
  <2>. DEFINE a == [r EXCEPT !.state = "dead_lettered"]
  <2>2. a = [state |-> "dead_lettered", retries |-> db[k].retries, by |-> w]
    OBVIOUS
  <2>3. [a EXCEPT !.retries = a.retries + 1]
          = [state |-> "dead_lettered", retries |-> db[k].retries + 1, by |-> w]
    <3>. HIDE DEF a
    <3>. QED  BY <1>2, <2>2
  <2>4. [r EXCEPT !.state = "dead_lettered", !.retries = @ + 1]
          = [state |-> "dead_lettered", retries |-> db[k].retries + 1, by |-> w]
    BY <2>3
  <2>5. [Tasks[k] EXCEPT !.state = "dead_lettered", !.retries = @ + 1]
          = [state |-> "dead_lettered", retries |-> db[k].retries + 1, by |-> w]
    <3>. HIDE DEF r
    <3>. QED  BY <1>1, <2>4
  <2>6. Tasks[k].retries + 1 = MaxRetries
    BY <1>1, <1>2, <1>5
  <2>7. Ledger!Bury(k)
    <3>. HIDE DEF r
    <3>. QED  BY <1>3, <2>1, <2>5, <2>6 DEF Ledger!Bury, Tasks
  <2>. QED  BY <1>1, <2>7 DEF Ledger!Next, Tasks
<1>6. CASE op[w].call # "Ack" /\ ~(db[k].retries + 1 >= MaxRetries)
  <2>1. Summary(op[w].task)
          = [state |-> "pending", retries |-> db[k].retries + 1, by |-> Nobody]
    BY <1>1, <1>6, SummaryOfHelpers
  <2>2. Tasks[k].retries + 1 < MaxRetries /\ Tasks[k].retries = db[k].retries
    BY <1>1, <1>2, <1>6
  <2>3. [Ledger!Fresh EXCEPT !.retries = Tasks[k].retries + 1]
          = [state |-> "pending", retries |-> db[k].retries + 1, by |-> Nobody]
    BY <2>2 DEF Ledger!Fresh
  <2>4. Ledger!GiveBack(k)
    BY <1>3, <2>1, <2>2, <2>3 DEF Ledger!GiveBack, Tasks
  <2>. QED  BY <1>1, <2>4 DEF Ledger!Next, Tasks
<1>. QED  BY <1>4, <1>5, <1>6

LEMMA DiscardStep ==
    ASSUME LedgerInv, IInv, NEW w \in Workers, NEW k \in op[w].doomed, db' = Erase(k)
    PROVE  Ledger!Next \/ Tasks' = Tasks
<1>1. Tasks' = [j \in DOMAIN Tasks \ {k} |-> Tasks[j]]
  BY DEF Erase, Tasks
<1>2. CASE k \in DOMAIN db
  <2>1. Terminal(db[k])
    BY <1>2 DEF LedgerInv, OpFollows, DoomedFinished
  <2>2. Ledger!Has(k, "completed") \/ Ledger!Has(k, "dead_lettered")
    BY <1>2, <2>1 DEF Terminal, Ledger!Has, Summary
  <2>3. Ledger!Discard(k) /\ k \in DOMAIN Tasks
    BY <1>1, <1>2, <2>2 DEF Ledger!Discard, Tasks
  <2>. QED  BY <2>3 DEF Ledger!Next, Tasks
<1>3. CASE k \notin DOMAIN db
  BY <1>1, <1>3 DEF Tasks
<1>. QED  BY <1>2, <1>3

LEMMA LedgerStep ==
    SettlesAlone /\ LedgerInv /\ IInv /\ [Next]_vars => Ledger!Next \/ Tasks' = Tasks
<1>. SUFFICES ASSUME SettlesAlone, LedgerInv, IInv, [Next]_vars
              PROVE  Ledger!Next \/ Tasks' = Tasks
  OBVIOUS
<1>1. db' = db => Tasks' = Tasks
  BY DEF Tasks
<1>2. ASSUME NEW w \in Workers, PutTask(w) \/ UpdateTask(w)
      PROVE  Ledger!Next
  <2>1. op[w].pc \in {"put", "update"} /\ db' = Store(op[w].key, op[w].task)
    BY <1>2 DEF PutTask, UpdateTask
  <2>. QED  BY <2>1, WriteMeets, SubmitStep, ClaimStep, SettleStep
<1>3. ASSUME NEW w \in Workers, PurgeDelete(w)
      PROVE  Ledger!Next \/ Tasks' = Tasks
  <2>1. PICK k \in op[w].doomed : db' = Erase(k)
    BY <1>3 DEF PurgeDelete, FirstOf
  <2>. QED  BY <2>1, DiscardStep
<1>4. ASSUME NEW w \in Workers, Begin(w)
      PROVE  db' = db
  BY <1>4 DEF Begin, Enqueue, Dequeue, SettleAny, Ack, Nack, Settle, SettleRefused, Purge
<1>5. ASSUME NEW w \in Workers, Step(w)
      PROVE  Ledger!Next \/ Tasks' = Tasks
  BY <1>1, <1>2, <1>3, <1>5
     DEF Step, BumpSequence, DequeueScan, DequeueNothing, LocateTask, GetStat, PutStat
<1>6. (\E p \in Procs : Crash(p) \/ Tick(p)) \/ UNCHANGED vars => db' = db
  BY DEF Crash, Tick, vars
<1>. QED  BY <1>1, <1>4, <1>5, <1>6, NeverFails DEF Next

(* Every write of the queue (queue.go:253, 329, 573 and 698) is one step  *)
(* of the ledger, if consumers do not race and requests do not fail: no    *)
(* task is claimed twice, revived once finished or purged before, and with *)
(* callers in turn Dequeue claims what no pending task precedes.           *)
THEOREM QueueImplementsLedger ==
    ASSUME SettlesAlone
    PROVE  Spec => ImplementsLedger
<1>1. Init => Ledger!Init
  BY DEF Init, Ledger!Init
<1>2. LedgerInv /\ IInv /\ [Next]_vars
        => [Ledger!Next]_([k \in DOMAIN db |-> Summary(db[k])])
  BY LedgerStep DEF Tasks
<1>. QED  BY <1>1, <1>2, LedgerInvariant, InductiveInvariant, PTL
          DEF Spec, ImplementsLedger, Ledger!Spec

-----------------------------------------------------------------------------
(* What failures leave of the claim.  A request that failed after it was   *)
(* applied breaks the ledger, whose settled tasks a retried Nack revives,  *)
(* and a crash leaves a claim nobody holds; but only consumers that race   *)
(* claim a task twice.                                                     *)

ConsumersTakeTurns == Serialized \/ \A u, v \in Consumers : u = v

Claiming(o) == o.pc = "put" /\ o.call = "Dequeue"

(* Dequeue writes its claim over a pending task or over none, and no other *)
(* write leaves a task claimed.                                            *)
ClaimFits(o) ==
    /\ o.pc = "bump" => o.call = "Enqueue"
    /\ o.pc = "put" => o.call \in {"Enqueue", "Dequeue"}
    /\ o.pc = "scan" => o.call = "Dequeue"
    /\ Submitting(o) => o.task.state = "pending"
    /\ Claiming(o) /\ o.key \in DOMAIN db => db[o.key].state = "pending"
    /\ o.pc \in {"locate", "update"} => o.call \in {"Ack", "Nack"} /\ o.task.state # "claimed"

ClaimInv == OneAtWork /\ \A w \in Workers : ClaimFits(op[w])

LEMMA NoRival ==
    ASSUME ConsumersTakeTurns, ClaimInv, NEW w \in Workers, Consuming(op[w])
    PROVE  \A v \in Workers \ {w} : ~Consuming(op[v])
BY DEF ConsumersTakeTurns, ClaimInv, OneAtWork, Consuming

(* What a step of one worker has to keep. *)
LEMMA ClaimKept ==
    ASSUME IInv, ClaimInv, NEW w \in Workers, NEW o, op' = [op EXCEPT ![w] = o],
           MayStart(w) \/ op[w].pc # "idle", Consuming(o) => w \in Consumers, ClaimFits(o)',
           \A v \in Workers \ {w} : Claiming(op[v]) /\ op[v].key \in DOMAIN db' =>
             \/ op[v].key \in DOMAIN db /\ db'[op[v].key] = db[op[v].key]
             \/ db'[op[v].key].state = "pending"
    PROVE  ClaimInv'
<1>1. op'[w] = o /\ \A v \in Workers \ {w} : op'[v] = op[v]
  BY DEF IInv, TypeOK
<1>2. OneAtWork'
  BY <1>1 DEF ClaimInv, OneAtWork, MayStart
<1>3. ASSUME NEW v \in Workers \ {w} PROVE ClaimFits(op[v])'
  <2>1. ClaimFits(op[v]) /\ op'[v] = op[v]
    BY <1>1 DEF ClaimInv
  <2>. QED  BY <2>1 DEF ClaimFits, Claiming, Submitting
<1>4. \A v \in Workers : ClaimFits(op[v])'
  BY <1>1, <1>3
<1>. QED  BY <1>2, <1>4 DEF ClaimInv

(* Steps to code that holds no task to write. *)
LEMMA ClaimIdles ==
    ASSUME IInv, ClaimInv, NEW w \in Workers, NEW o, op' = [op EXCEPT ![w] = o],
           MayStart(w) \/ op[w].pc # "idle", Consuming(o) => w \in Consumers,
           o.pc \in {"idle", "delete", "getStat", "putStat"},
           \A j \in DOMAIN db' : j \in DOMAIN db /\ db'[j] = db[j]
    PROVE  ClaimInv'
<1>1. ClaimFits(o)'
  BY DEF ClaimFits, Claiming, Submitting
<1>. QED  BY <1>1, ClaimKept

LEMMA PurgeClaims ==
    ASSUME IInv, ClaimInv, NEW w \in Workers, MayStart(w), NEW doomed,
           PurgeWhat(w, doomed), db' = db
    PROVE  ClaimInv'
<1>1. PICK o : /\ o = [Idle EXCEPT !.pc = "delete", !.call = "Purge", !.doomed = doomed]
               /\ op' = [op EXCEPT ![w] = o]
  BY DEF PurgeWhat
<1>2. o.pc = "delete" /\ o.call = "Purge"
  BY <1>1 DEF Idle
<1>. QED  BY <1>1, <1>2, ClaimIdles DEF Consuming

LEMMA BeginClaims ==
    ASSUME IInv, ClaimInv, NEW w \in Workers, Begin(w)
    PROVE  ClaimInv'
<1>1. CASE Enqueue(w)
  <2>1. PICK p, id, o : /\ o = [Idle EXCEPT !.pc = "bump", !.call = "Enqueue",
                                            !.key = NewKey(w, p, id), !.task = NewTask(id)]
                        /\ op' = [op EXCEPT ![w] = o]
    BY <1>1 DEF Enqueue
  <2>2. o.pc = "bump" /\ o.call = "Enqueue" /\ o.task.state = "pending"
    BY <2>1 DEF Idle, NewTask
  <2>3. ClaimFits(o)' /\ ~Consuming(o)
    BY <2>2 DEF ClaimFits, Claiming, Submitting, Consuming
  <2>. QED  BY ZenonT(40), <1>1, <2>1, <2>3, ClaimKept DEF Enqueue, ClaimInv, ClaimFits
<1>2. CASE Dequeue(w)
  <2>1. PICK o : /\ o = [Idle EXCEPT !.pc = "scan", !.call = "Dequeue", !.at = clock[ProcOf[w]]]
                 /\ op' = [op EXCEPT ![w] = o]
    BY <1>2 DEF Dequeue
  <2>2. o.pc = "scan" /\ o.call = "Dequeue"
    BY <2>1 DEF Idle
  <2>3. ClaimFits(o)'
    BY <2>2 DEF ClaimFits, Claiming, Submitting
  <2>. QED  BY <1>2, <2>1, <2>3, ClaimKept DEF Dequeue
<1>3. ASSUME NEW call \in {"Ack", "Nack"}, NEW id, NEW t, t.state # "claimed",
             Settle(w, call, id, t)
      PROVE  ClaimInv'
  <2>1. PICK o : /\ o = [Idle EXCEPT !.pc = "locate", !.call = call, !.task = t]
                 /\ op' = [op EXCEPT ![w] = o]
    BY <1>3 DEF Settle
  <2>2. o.pc = "locate" /\ o.call = call /\ o.task = t
    BY <2>1 DEF Idle
  <2>3. ClaimFits(o)'
    BY <1>3, <2>2 DEF ClaimFits, Claiming, Submitting
  <2>. QED  BY <1>3, <2>1, <2>3, ClaimKept DEF Settle
<1>4. ASSUME NEW k \in DOMAIN db
      PROVE  Acked(db[k]).state # "claimed" /\ Nacked(db[k]).state # "claimed"
  <2>1. db[k] \in Task
    BY DEF IInv, TypeOK
  <2>2. Summary(Acked(db[k])).state = "completed"
        /\ Summary(Nacked(db[k])).state \in {"dead_lettered", "pending"}
    BY <2>1, SummaryOfHelpers
  <2>. QED  BY <2>2 DEF Summary
<1>5. \A id : FirstOf(EntriesOf(id)) \subseteq DOMAIN db
  BY DEF FirstOf, EntriesOf, Visible
<1>6. CASE SettleAny(w)
  <2>1. ASSUME NEW id \in TaskIDs, Ack(w, id) \/ Nack(w, id) PROVE ClaimInv'
    BY <1>3, <1>4, <1>5, <2>1 DEF Ack, Nack
  <2>2. ASSUME NEW id \in TaskIDs, SettleRefused(w, id) PROVE ClaimInv'
    BY <2>2 DEF SettleRefused, ClaimInv, OneAtWork, ClaimFits
  <2>. QED  BY <1>6, <2>1, <2>2 DEF SettleAny
<1>7. CASE Purge(w)
  BY <1>7, PurgeClaims DEF Purge
<1>. QED  BY <1>1, <1>2, <1>6, <1>7 DEF Begin

(* A write spares every other claim: one that is under way is written by   *)
(* the consumer at work.                                                   *)
LEMMA WriteClaims ==
    ASSUME ConsumersTakeTurns, IInv, ClaimInv, NEW w \in Workers,
           op[w].pc \in {"put", "update"}, db' = Store(op[w].key, op[w].task),
           NEW o, op' = [op EXCEPT ![w] = o], o.pc \in {"idle", "getStat"},
           o.call \in {op[w].call, "none"}
    PROVE  ClaimInv'
<1>1. /\ \A j \in DOMAIN db' : j \in DOMAIN db \/ j = op[w].key
      /\ \A j \in DOMAIN db' : db'[j] = IF j = op[w].key THEN op[w].task ELSE db[j]
  BY DEF Store
<1>2. ClaimFits(op[w])
  BY DEF ClaimInv
<1>3. ASSUME NEW v \in Workers \ {w}, Claiming(op[v]), op[v].key \in DOMAIN db'
      PROVE  \/ op[v].key \in DOMAIN db /\ db'[op[v].key] = db[op[v].key]
             \/ db'[op[v].key].state = "pending"
  <2>1. ~Consuming(op[w])
    BY <1>3, NoRival DEF Claiming, Consuming
  <2>2. op[w].task.state = "pending"
    BY <1>2, <2>1 DEF ClaimFits, Submitting, Consuming
  <2>. QED  BY <1>1, <1>3, <2>2
<1>4. ClaimFits(o)'
  BY DEF ClaimFits, Claiming, Submitting
<1>5. Consuming(o) => w \in Consumers
  BY DEF Consuming, ClaimInv, OneAtWork
<1>. QED  BY <1>3, <1>4, <1>5, ClaimKept

LEMMA NextStatClaims ==
    ASSUME IInv, ClaimInv, NEW w \in Workers, op[w].pc = "putStat", NextStat(w), db' = db
    PROVE  ClaimInv'
<1>1. CASE Len(op[w].todo) = 1
  <2>1. op' = [op EXCEPT ![w] = Idle]
    BY <1>1 DEF NextStat, Return
  <2>. QED  BY <2>1, ClaimIdles DEF Idle, Consuming
<1>2. CASE Len(op[w].todo) # 1
  <2>1. PICK o : /\ o = [op[w] EXCEPT !.pc = "getStat", !.seen = 0, !.todo = Tail(op[w].todo)]
                 /\ op' = [op EXCEPT ![w] = o]
    BY <1>2 DEF NextStat, IInv, TypeOK
  <2>2. o.pc = "getStat" /\ o.call = op[w].call
    BY <2>1 DEF IInv, TypeOK, OpType
  <2>. QED  BY <2>1, <2>2, ClaimIdles DEF ClaimInv, OneAtWork, Consuming
<1>. QED  BY <1>1, <1>2

LEMMA GetStatClaims ==
    ASSUME IInv, ClaimInv, NEW w \in Workers, op[w].pc = "getStat", NEW n,
           op' = [op EXCEPT ![w].pc = "putStat", ![w].seen = n], db' = db
    PROVE  ClaimInv'
<1>1. PICK o : /\ o = [op[w] EXCEPT !.pc = "putStat", !.seen = n]
               /\ op' = [op EXCEPT ![w] = o]
  BY DEF IInv, TypeOK
<1>2. o.pc = "putStat" /\ o.call = op[w].call
  BY <1>1 DEF IInv, TypeOK, OpType
<1>. QED  BY <1>1, <1>2, ClaimIdles DEF ClaimInv, OneAtWork, Consuming

LEMMA DeleteClaims ==
    ASSUME IInv, ClaimInv, NEW w \in Workers, PurgeDelete(w) \/ DeleteFails(w)
    PROVE  ClaimInv'
<1>1. PICK k : AfterDelete(w, k) /\ (db' = db \/ db' = Erase(k))
  BY DEF PurgeDelete, DeleteFails
<1>2. op[w].pc = "delete"
  BY DEF PurgeDelete, DeleteFails
<1>3. PICK o : /\ op' = [op EXCEPT ![w] = o] /\ o.pc \in {"idle", "delete"}
               /\ o.call \in {op[w].call, "none"}
  BY <1>1, <1>2, DeletesDoomed
<1>4. \A j \in DOMAIN db' : j \in DOMAIN db /\ db'[j] = db[j]
  BY <1>1 DEF Erase
<1>. QED  BY <1>2, <1>3, <1>4, ClaimIdles DEF ClaimInv, OneAtWork, Consuming

LEMMA StepClaims ==
    ASSUME ConsumersTakeTurns, IInv, ClaimInv, NEW w \in Workers, Step(w)
    PROVE  ClaimInv'
<1>1. CASE BumpSequence(w)
  <2>1. PICK o : /\ o = [op[w] EXCEPT !.pc = "put"] /\ op' = [op EXCEPT ![w] = o]
    BY <1>1 DEF BumpSequence, Goto, IInv, TypeOK
  <2>2. o.pc = "put" /\ o.call = op[w].call /\ o.task = op[w].task
    BY <2>1 DEF IInv, TypeOK, OpType
  <2>3. op[w].pc = "bump" /\ ClaimFits(op[w]) /\ db' = db
    BY <1>1 DEF BumpSequence, ClaimInv
  <2>4. ClaimFits(o)' /\ ~Consuming(o)
    BY <2>2, <2>3 DEF ClaimFits, Claiming, Submitting, Consuming
  <2>. QED  BY <2>1, <2>3, <2>4, ClaimKept
<1>2. CASE PutTask(w) \/ UpdateTask(w)
  <2>1. /\ op[w].pc \in {"put", "update"} /\ db' = Store(op[w].key, op[w].task)
        /\ op' = [op EXCEPT ![w] = StatsOp(op[w])]
    BY <1>2 DEF PutTask, UpdateTask, WriteStats, StatsOp
  <2>2. StatsOp(op[w]).pc = "getStat" /\ StatsOp(op[w]).call = op[w].call
    BY DEF StatsOp, Idle
  <2>. QED  BY <2>1, <2>2, WriteClaims
<1>3. CASE DequeueScan(w)
  <2>. PICK k \in FirstOf(Claimable(op[w].at)) :
         op' = [op EXCEPT ![w] = [Idle EXCEPT !.pc = "put", !.call = "Dequeue",
                                    !.key = k, !.task = Claimed(db[k], w, op[w].at)]]
    BY <1>3 DEF DequeueScan
  <2>1. PICK o :
          /\ o = [Idle EXCEPT !.pc = "put", !.call = "Dequeue", !.key = k,
                              !.task = Claimed(db[k], w, op[w].at)]
          /\ op' = [op EXCEPT ![w] = o]
    OBVIOUS
  <2>2. o.pc = "put" /\ o.call = "Dequeue" /\ o.key = k
    BY <2>1 DEF Idle
  <2>3. db[k].state = "pending" /\ db' = db /\ op[w].pc = "scan"
    BY <1>3, <2>1 DEF DequeueScan, FirstOf, Claimable
  <2>4. ClaimFits(o)'
    BY <2>2, <2>3 DEF ClaimFits, Claiming, Submitting
  <2>5. w \in Consumers
    BY <2>3 DEF ClaimInv, ClaimFits, OneAtWork, Consuming
  <2>. QED  BY <2>1, <2>3, <2>4, <2>5, ClaimKept
<1>4. CASE DequeueNothing(w)
  BY <1>4, ClaimIdles DEF DequeueNothing, Return, Idle, Consuming
<1>5. CASE LocateTask(w)
  <2>1. op[w].pc = "locate" /\ db' = db /\ ClaimFits(op[w])
    BY <1>5 DEF LocateTask, ClaimInv
  <2>2. w \in Consumers
    BY <2>1 DEF ClaimFits, ClaimInv, OneAtWork, Consuming
  <2>3. CASE WriteStats(w)
    <3>1. op' = [op EXCEPT ![w] = StatsOp(op[w])] /\ StatsOp(op[w]).pc = "getStat"
      BY <2>3 DEF WriteStats, StatsOp, Idle
    <3>. QED  BY <2>1, <2>2, <3>1, ClaimIdles
  <2>4. ASSUME NEW k, op' = [op EXCEPT ![w].pc = "update", ![w].key = k]
        PROVE  ClaimInv'
    <3>1. PICK o : o = [op[w] EXCEPT !.pc = "update", !.key = k] /\ op' = [op EXCEPT ![w] = o]
      BY <2>4 DEF IInv, TypeOK
    <3>2. o.pc = "update" /\ o.call = op[w].call /\ o.task = op[w].task
      BY <3>1 DEF IInv, TypeOK, OpType
    <3>3. ClaimFits(o)'
      BY <2>1, <3>2 DEF ClaimFits, Claiming, Submitting
    <3>. QED  BY <2>1, <2>2, <3>1, <3>3, ClaimKept
  <2>. QED  BY <1>5, <2>3, <2>4 DEF LocateTask
<1>6. CASE GetStat(w)
  BY <1>6, GetStatClaims DEF GetStat
<1>7. CASE PutStat(w)
  BY <1>7, NextStatClaims DEF PutStat
<1>. QED  BY <1>1, <1>2, <1>3, <1>4, <1>5, <1>6, <1>7, DeleteClaims DEF Step

LEMMA FailClaims ==
    ASSUME ConsumersTakeTurns, IInv, ClaimInv, NEW w \in Workers, Fail(w)
    PROVE  ClaimInv'
<1>1. CASE RequestFails(w)
  <2>1. op[w].pc # "idle" /\ op' = [op EXCEPT ![w] = Idle]
    BY <1>1 DEF RequestFails, Return
  <2>2. Idle.pc = "idle" /\ Idle.call = "none" /\ ~Consuming(Idle)
    BY DEF Idle, Consuming
  <2>3. CASE db' = db
    BY <2>1, <2>2, <2>3, ClaimIdles
  <2>4. CASE op[w].pc \in {"put", "update"} /\ db' = Store(op[w].key, op[w].task)
    BY <2>1, <2>2, <2>4, WriteClaims
  <2>. QED  BY <1>1, <2>3, <2>4 DEF RequestFails
<1>2. CASE StatFails(w)
  BY <1>2, GetStatClaims, NextStatClaims DEF StatFails
<1>3. CASE LocateBreaks(w)
  <2>1. op[w].pc = "locate" /\ db' = db /\ ClaimFits(op[w])
    BY <1>3 DEF LocateBreaks, ClaimInv
  <2>2. w \in Consumers
    BY <2>1 DEF ClaimFits, ClaimInv, OneAtWork, Consuming
  <2>3. op' = [op EXCEPT ![w] = StatsOp(op[w])] /\ StatsOp(op[w]).pc = "getStat"
    BY <1>3 DEF LocateBreaks, WriteStats, StatsOp, Idle
  <2>. QED  BY <2>1, <2>2, <2>3, ClaimIdles
<1>4. CASE SettleBreaks(w)
  BY <1>4 DEF SettleBreaks, ClaimInv, OneAtWork, ClaimFits
<1>5. CASE PurgeBreaks(w)
  BY <1>5, PurgeClaims DEF PurgeBreaks
<1>. QED  BY <1>1, <1>2, <1>3, <1>4, <1>5, DeleteClaims DEF Fail

LEMMA NextClaims ==
    ConsumersTakeTurns /\ IInv /\ ClaimInv /\ [Next]_vars => ClaimInv'
<1>. SUFFICES ASSUME ConsumersTakeTurns, IInv, ClaimInv, [Next]_vars PROVE ClaimInv'
  OBVIOUS
<1>1. ASSUME NEW p \in Procs, Crash(p) PROVE ClaimInv'
  <2>1. db' = db /\ \A v \in Workers : op'[v] \in {Idle, op[v]}
    BY <1>1 DEF Crash
  <2>2. Idle.pc = "idle"
    BY DEF Idle
  <2>3. OneAtWork'
    BY <2>1, <2>2 DEF ClaimInv, OneAtWork, Consuming
  <2>4. \A v \in Workers : ClaimFits(op[v])'
    BY <2>1, <2>2 DEF ClaimInv, ClaimFits, Claiming, Submitting
  <2>. QED  BY <2>3, <2>4 DEF ClaimInv
<1>2. ASSUME op' = op, db' = db PROVE ClaimInv'
  BY <1>2 DEF ClaimInv, OneAtWork, ClaimFits
<1>3. (\E p \in Procs : Tick(p)) \/ UNCHANGED vars => op' = op /\ db' = db
  BY DEF Tick, vars
<1>. QED  BY <1>1, <1>2, <1>3, BeginClaims, StepClaims, FailClaims DEF Next

(* Whatever requests fail and processes die, a claim is written over a     *)
(* pending task and nothing else leaves a task claimed (queue.go:329, 373, *)
(* 698, 722), if consumers take turns.                                     *)
THEOREM ClaimInvariant ==
    ASSUME ConsumersTakeTurns
    PROVE  Spec => []ClaimInv
<1>1. Init => ClaimInv
  BY DEF Init, Idle, ClaimInv, OneAtWork, ClaimFits, Claiming, Submitting, Consuming
<1>2. ClaimInv /\ IInv /\ [Next]_vars => ClaimInv'
  BY NextClaims
<1>. QED  BY <1>1, <1>2, InductiveInvariant, PTL DEF Spec

(* The claim is atomic, as queue.go:9 says, for consumers that take turns: *)
(* no write claims a claimed task again, also when requests fail after     *)
(* they were applied and processes die between a scan and its Put.         *)
THEOREM TurnsClaimOnce ==
    ASSUME ConsumersTakeTurns
    PROVE  Spec => AtomicClaim
<1> DEFINE Once == \A k \in DOMAIN db \cap DOMAIN db' :
                     db[k].state = "claimed" /\ db'[k].state = "claimed" => db'[k] = db[k]
<1>1. ASSUME ClaimInv, NEW w \in Workers, op[w].pc \in {"put", "update"},
             db' = Store(op[w].key, op[w].task)
      PROVE  Once
  <2>1. ClaimFits(op[w])
    BY <1>1 DEF ClaimInv
  <2>2. \A k \in DOMAIN db' : db'[k] = IF k = op[w].key THEN op[w].task ELSE db[k]
    BY <1>1 DEF Store
  <2>3. ASSUME op[w].key \in DOMAIN db, db[op[w].key].state = "claimed"
        PROVE  op[w].task.state # "claimed"
    BY <1>1, <2>1, <2>3 DEF ClaimFits, Claiming, Submitting
  <2>. QED  BY <2>2, <2>3
<1>2. ASSUME ClaimInv, NEW w \in Workers, Begin(w) \/ Step(w) \/ Fail(w)
      PROVE  Once
  <2>1. ASSUME db' = db PROVE Once
    BY <2>1
  <2>2. ASSUME NEW k, db' = Erase(k) PROVE Once
    BY <2>2 DEF Erase
  <2>3. CASE Begin(w)
    BY <2>1, <2>3
       DEF Begin, Enqueue, Dequeue, SettleAny, Ack, Nack, Settle, SettleRefused, Purge
  <2>4. CASE Step(w)
    BY <1>1, <1>2, <2>1, <2>2, <2>4
       DEF Step, BumpSequence, PutTask, DequeueScan, DequeueNothing, LocateTask,
           UpdateTask, GetStat, PutStat, PurgeDelete
  <2>5. CASE Fail(w)
    BY <1>1, <1>2, <2>1, <2>5
       DEF Fail, RequestFails, StatFails, DeleteFails, SettleBreaks, LocateBreaks, PurgeBreaks
  <2>. QED  BY <1>2, <2>3, <2>4, <2>5
<1>3. (\E p \in Procs : Crash(p) \/ Tick(p)) \/ UNCHANGED vars => db' = db
  BY DEF Crash, Tick, vars
<1>4. ClaimInv /\ [Next]_vars => [Once]_db
  BY <1>2, <1>3 DEF Next
<1>. QED  BY <1>4, ClaimInvariant, PTL DEF Spec, AtomicClaim

-----------------------------------------------------------------------------
(* The counters of callers that take turns.  What a call has still to add  *)
(* to a counter is what separates it from the number of tasks it counts.   *)

DueOf(todo, name) ==
    IF \E i \in 1..Len(todo) : todo[i] = <<name, 1>> THEN 1
    ELSE IF \E i \in 1..Len(todo) : todo[i] = <<name, -1>> THEN -1 ELSE 0

Due(o, name) == IF Counting(o) THEN DueOf(o.todo, name) ELSE 0

(* No counter is updated twice by a call, and those that are decremented   *)
(* count tasks that are stored.                                            *)
TodoFits(todo) ==
    /\ \A i, j \in 1..Len(todo) : todo[i][1] = todo[j][1] => i = j
    /\ \A i \in 1..Len(todo) : todo[i][2] = -1 => todo[i][1] \in {"pending", "claimed"}

Submitted(o) == Cardinality(used) - (IF Submitting(o) THEN 1 ELSE 0)

Exact(o) ==
    /\ stats["pending"] + Due(o, "pending") = CountOf("pending")
    /\ stats["claimed"] + Due(o, "claimed") = CountOf("claimed")
    /\ stats["totalEnqueued"] + Due(o, "totalEnqueued") = Submitted(o)
    /\ stats["completed"] + Due(o, "completed")
         + stats["deadLettered"] + Due(o, "deadLettered")
         = Submitted(o) - CountOf("pending") - CountOf("claimed")
    /\ o.pc = "putStat" => o.seen = stats[Head(o.todo)[1]]

ExactInv ==
    /\ IsFiniteSet(DOMAIN db)
    /\ \A w \in Workers : Counting(op[w]) => TodoFits(op[w].todo)
    /\ crashes = 0 => /\ Quiet => Exact(Idle)
                      /\ \A w \in Workers : op[w].pc # "idle" => Exact(op[w])

(* The dues of each call when it has written its task.                     *)
LEMMA DuesOf ==
    ASSUME NEW t
    PROVE  /\ \A n : DueOf(<<>>, n) = 0
           /\ TodoFits(StatsOf("Enqueue", t)) /\ TodoFits(StatsOf("Dequeue", t))
           /\ TodoFits(StatsOf("Ack", t)) /\ TodoFits(StatsOf("Nack", t))
           /\ DueOf(StatsOf("Enqueue", t), "pending") = 1
           /\ DueOf(StatsOf("Enqueue", t), "claimed") = 0
           /\ DueOf(StatsOf("Enqueue", t), "totalEnqueued") = 1
           /\ DueOf(StatsOf("Enqueue", t), "completed") = 0
           /\ DueOf(StatsOf("Enqueue", t), "deadLettered") = 0
           /\ DueOf(StatsOf("Dequeue", t), "pending") = -1
           /\ DueOf(StatsOf("Dequeue", t), "claimed") = 1
           /\ DueOf(StatsOf("Dequeue", t), "totalEnqueued") = 0
           /\ DueOf(StatsOf("Dequeue", t), "completed") = 0
           /\ DueOf(StatsOf("Dequeue", t), "deadLettered") = 0
           /\ DueOf(StatsOf("Ack", t), "pending") = 0
           /\ DueOf(StatsOf("Ack", t), "claimed") = -1
           /\ DueOf(StatsOf("Ack", t), "totalEnqueued") = 0
           /\ DueOf(StatsOf("Ack", t), "completed") = 1
           /\ DueOf(StatsOf("Ack", t), "deadLettered") = 0
           /\ DueOf(StatsOf("Nack", t), "pending")
                = IF t.state = "dead_lettered" THEN 0 ELSE 1
           /\ DueOf(StatsOf("Nack", t), "claimed") = -1
           /\ DueOf(StatsOf("Nack", t), "totalEnqueued") = 0
           /\ DueOf(StatsOf("Nack", t), "completed") = 0
           /\ DueOf(StatsOf("Nack", t), "deadLettered")
                = IF t.state = "dead_lettered" THEN 1 ELSE 0
<1>1. \A n : DueOf(<<>>, n) = 0
  BY DEF DueOf
<1>2. /\ TodoFits(StatsOf("Enqueue", t))
      /\ DueOf(StatsOf("Enqueue", t), "pending") = 1
      /\ DueOf(StatsOf("Enqueue", t), "claimed") = 0
      /\ DueOf(StatsOf("Enqueue", t), "totalEnqueued") = 1
      /\ DueOf(StatsOf("Enqueue", t), "completed") = 0
      /\ DueOf(StatsOf("Enqueue", t), "deadLettered") = 0
  BY DEF StatsOf, DueOf, TodoFits
<1>3. /\ TodoFits(StatsOf("Dequeue", t))
      /\ DueOf(StatsOf("Dequeue", t), "pending") = -1
      /\ DueOf(StatsOf("Dequeue", t), "claimed") = 1
      /\ DueOf(StatsOf("Dequeue", t), "totalEnqueued") = 0
      /\ DueOf(StatsOf("Dequeue", t), "completed") = 0
      /\ DueOf(StatsOf("Dequeue", t), "deadLettered") = 0
  BY DEF StatsOf, DueOf, TodoFits
<1>4. /\ TodoFits(StatsOf("Ack", t))
      /\ DueOf(StatsOf("Ack", t), "pending") = 0
      /\ DueOf(StatsOf("Ack", t), "claimed") = -1
      /\ DueOf(StatsOf("Ack", t), "totalEnqueued") = 0
      /\ DueOf(StatsOf("Ack", t), "completed") = 1
      /\ DueOf(StatsOf("Ack", t), "deadLettered") = 0
  BY DEF StatsOf, DueOf, TodoFits
<1>5. CASE t.state = "dead_lettered"
  <2>1. StatsOf("Nack", t) = << <<"claimed", -1>>, <<"deadLettered", 1>> >>
    BY <1>5 DEF StatsOf
  <2>2. /\ TodoFits(StatsOf("Nack", t))
        /\ DueOf(StatsOf("Nack", t), "pending") = 0
        /\ DueOf(StatsOf("Nack", t), "claimed") = -1
        /\ DueOf(StatsOf("Nack", t), "totalEnqueued") = 0
        /\ DueOf(StatsOf("Nack", t), "completed") = 0
        /\ DueOf(StatsOf("Nack", t), "deadLettered") = 1
    <3>. DEFINE q == << <<"claimed", -1>>, <<"deadLettered", 1>> >>
    <3>1. Len(q) = 2 /\ q[1] = <<"claimed", -1>> /\ q[2] = <<"deadLettered", 1>>
      OBVIOUS
    <3>. HIDE DEF q
    <3>2. \A i \in 1..Len(q) : i = 1 \/ i = 2
      BY <3>1
    <3>3. TodoFits(q)
      BY <3>1, <3>2 DEF TodoFits
    <3>4. /\ DueOf(q, "pending") = 0 /\ DueOf(q, "claimed") = -1
          /\ DueOf(q, "totalEnqueued") = 0 /\ DueOf(q, "completed") = 0
          /\ DueOf(q, "deadLettered") = 1
      BY <3>1, <3>2 DEF DueOf
    <3>. QED  BY <2>1, <3>3, <3>4 DEF q
  <2>. QED  BY <1>1, <1>2, <1>3, <1>4, <1>5, <2>2
<1>6. CASE t.state # "dead_lettered"
  <2>1. StatsOf("Nack", t) = << <<"claimed", -1>>, <<"pending", 1>> >>
    BY <1>6 DEF StatsOf
  <2>2. /\ TodoFits(StatsOf("Nack", t))
        /\ DueOf(StatsOf("Nack", t), "pending") = 1
        /\ DueOf(StatsOf("Nack", t), "claimed") = -1
        /\ DueOf(StatsOf("Nack", t), "totalEnqueued") = 0
        /\ DueOf(StatsOf("Nack", t), "completed") = 0
        /\ DueOf(StatsOf("Nack", t), "deadLettered") = 0
    <3>. DEFINE q == << <<"claimed", -1>>, <<"pending", 1>> >>
    <3>1. Len(q) = 2 /\ q[1] = <<"claimed", -1>> /\ q[2] = <<"pending", 1>>
      OBVIOUS
    <3>. HIDE DEF q
    <3>2. \A i \in 1..Len(q) : i = 1 \/ i = 2
      BY <3>1
    <3>3. TodoFits(q)
      BY <3>1, <3>2 DEF TodoFits
    <3>4. /\ DueOf(q, "pending") = 1 /\ DueOf(q, "claimed") = -1
          /\ DueOf(q, "totalEnqueued") = 0 /\ DueOf(q, "completed") = 0
          /\ DueOf(q, "deadLettered") = 0
      BY <3>1, <3>2 DEF DueOf
    <3>. QED  BY <2>1, <3>3, <3>4 DEF q
  <2>. QED  BY <1>1, <1>2, <1>3, <1>4, <1>6, <2>2
<1>. QED  BY <1>5, <1>6

(* With its first counter updated a call has that much less to do.         *)
LEMMA DueTail ==
    ASSUME NEW q \in Seq(StatNames \X {-1, 1}), q # <<>>, TodoFits(q)
    PROVE  /\ TodoFits(Tail(q))
           /\ \A n : DueOf(q, n) = IF Head(q)[1] = n THEN Head(q)[2]
                                                     ELSE DueOf(Tail(q), n)
           /\ DueOf(Tail(q), Head(q)[1]) = 0
<1>. DEFINE S == StatNames \X {-1, 1}
            r == Tail(q)
<1>1. /\ Len(q) \in Nat /\ Len(q) >= 1 /\ r \in Seq(S) /\ Len(r) = Len(q) - 1
      /\ \A i \in 1..Len(r) : r[i] = q[i + 1]
      /\ Head(q) = q[1] /\ \A i \in 1..Len(q) : q[i] \in S
  OBVIOUS
<1>2. \A i \in 1..Len(q) : /\ q[i] = <<q[i][1], q[i][2]>>
                           /\ q[i][2] \in {-1, 1} /\ q[i][1] \in StatNames
  BY <1>1
<1>3. \A i \in 1..Len(q) : i = 1 \/ (i - 1 \in 1..Len(r) /\ r[i - 1] = q[i])
  BY <1>1
<1>. HIDE DEF r, S
<1>4. TodoFits(r)
  <2>1. \A i \in 1..Len(r) : i + 1 \in 1..Len(q) /\ r[i] = q[i + 1]
    BY <1>1
  <2>2. \A i, j \in 1..Len(r) : r[i][1] = r[j][1] => i + 1 = j + 1
    <3>. SUFFICES ASSUME NEW i \in 1..Len(r), NEW j \in 1..Len(r), r[i][1] = r[j][1]
                  PROVE  i + 1 = j + 1
      OBVIOUS
    <3>1. q[i + 1][1] = q[j + 1][1] /\ i + 1 \in 1..Len(q) /\ j + 1 \in 1..Len(q)
      BY <2>1
    <3>. QED  BY <3>1 DEF TodoFits
  <2>3. \A i, j \in 1..Len(r) : i + 1 = j + 1 => i = j
    BY <1>1
  <2>4. \A i \in 1..Len(r) : r[i][2] = -1 => r[i][1] \in {"pending", "claimed"}
    BY <2>1 DEF TodoFits
  <2>. QED  BY <2>2, <2>3, <2>4 DEF TodoFits
<1>5. \A i \in 1..Len(r) : r[i][1] # Head(q)[1]
  BY <1>1 DEF TodoFits
<1>6. DueOf(r, Head(q)[1]) = 0
  BY <1>5 DEF DueOf
<1>7. ASSUME NEW n, Head(q)[1] = n
      PROVE  DueOf(q, n) = Head(q)[2]
  <2>1. \A i \in 1..Len(q) : q[i][1] = n => i = 1
    BY <1>1, <1>7 DEF TodoFits
  <2>2. \A d : (\E i \in 1..Len(q) : q[i] = <<n, d>>) <=> d = Head(q)[2]
    <3>1. 1 \in 1..Len(q) /\ q[1] = <<n, Head(q)[2]>>
      BY <1>1, <1>2, <1>7
    <3>. QED  BY <2>1, <3>1
  <2>3. Head(q)[2] \in {-1, 1}
    BY <1>1, <1>2
  <2>4. CASE Head(q)[2] = 1
    BY <2>2, <2>4 DEF DueOf
  <2>5. CASE Head(q)[2] = -1
    BY <2>2, <2>5 DEF DueOf
  <2>. QED  BY <2>3, <2>4, <2>5
<1>8. ASSUME NEW n, Head(q)[1] # n
      PROVE  DueOf(q, n) = DueOf(r, n)
  <2>1. \A d : (\E i \in 1..Len(q) : q[i] = <<n, d>>) <=> (\E i \in 1..Len(r) : r[i] = <<n, d>>)
    <3>1. \A d : q[1] # <<n, d>>
      BY <1>1, <1>8
    <3>2. \A i \in 1..Len(r) : i + 1 \in 1..Len(q) /\ r[i] = q[i + 1]
      BY <1>1
    <3>3. ASSUME NEW d, NEW i \in 1..Len(q), q[i] = <<n, d>>
          PROVE  \E j \in 1..Len(r) : r[j] = <<n, d>>
      BY <1>3, <3>1, <3>3
    <3>4. ASSUME NEW d, NEW i \in 1..Len(r), r[i] = <<n, d>>
          PROVE  \E j \in 1..Len(q) : q[j] = <<n, d>>
      BY <3>2, <3>4
    <3>. QED  BY <3>3, <3>4
  <2>. QED  BY <2>1 DEF DueOf
<1>. QED  BY <1>4, <1>6, <1>7, <1>8 DEF r

LEMMA CountTypes ==
    ASSUME IsFiniteSet(DOMAIN db), NEW s
    PROVE  IsFiniteSet({j \in DOMAIN db : db[j].state = s}) /\ CountOf(s) \in Nat
<1>1. {j \in DOMAIN db : db[j].state = s} \subseteq DOMAIN db
  OBVIOUS
<1>. QED  BY <1>1, FS_Subset, FS_CardinalityType DEF CountOf

(* What one write does to the number of tasks in a state.                  *)
LEMMA StoreCounts ==
    ASSUME IsFiniteSet(DOMAIN db), NEW k, NEW t, db' = Store(k, t)
    PROVE  /\ IsFiniteSet(DOMAIN db')
           /\ \A s : CountOf(s)' =
                LET was == k \in DOMAIN db /\ db[k].state = s
                IN  IF t.state = s THEN IF was THEN CountOf(s) ELSE CountOf(s) + 1
                    ELSE IF was THEN CountOf(s) - 1 ELSE CountOf(s)
<1>1. DOMAIN db' = DOMAIN db \cup {k}
      /\ \A j \in DOMAIN db' : db'[j] = IF j = k THEN t ELSE db[j]
  BY DEF Store
<1>2. IsFiniteSet(DOMAIN db')
  BY <1>1, FS_AddElement
<1>3. ASSUME NEW s
      PROVE  CountOf(s)' =
               LET was == k \in DOMAIN db /\ db[k].state = s
               IN  IF t.state = s THEN IF was THEN CountOf(s) ELSE CountOf(s) + 1
                   ELSE IF was THEN CountOf(s) - 1 ELSE CountOf(s)
  <2>. DEFINE S == {j \in DOMAIN db : db[j].state = s}
              T == {j \in DOMAIN db' : db'[j].state = s}
  <2>1. IsFiniteSet(S) /\ Cardinality(S) \in Nat
    BY CountTypes DEF CountOf
  <2>2. CountOf(s) = Cardinality(S) /\ CountOf(s)' = Cardinality(T)
    BY DEF CountOf
  <2>3. T = IF t.state = s THEN S \cup {k} ELSE S \ {k}
    BY <1>1
  <2>4. k \in S <=> k \in DOMAIN db /\ db[k].state = s
    OBVIOUS
  <2>. HIDE DEF S, T
  <2>5. Cardinality(S \cup {k}) = IF k \in S THEN Cardinality(S) ELSE Cardinality(S) + 1
    BY <2>1, FS_AddElement
  <2>6. Cardinality(S \ {k}) = IF k \in S THEN Cardinality(S) - 1 ELSE Cardinality(S)
    BY <2>1, FS_RemoveElement
  <2>. QED  BY <2>2, <2>3, <2>4, <2>5, <2>6
<1>. QED  BY <1>2, <1>3

LEMMA EraseCounts ==
    ASSUME IsFiniteSet(DOMAIN db), NEW k, db' = Erase(k)
    PROVE  /\ IsFiniteSet(DOMAIN db')
           /\ \A s : (k \in DOMAIN db => db[k].state # s) => CountOf(s)' = CountOf(s)
<1>1. DOMAIN db' = DOMAIN db \ {k} /\ \A j \in DOMAIN db' : db'[j] = db[j]
  BY DEF Erase
<1>2. IsFiniteSet(DOMAIN db')
  BY <1>1, FS_Subset
<1>3. ASSUME NEW s, k \in DOMAIN db => db[k].state # s
      PROVE  {j \in DOMAIN db' : db'[j].state = s} = {j \in DOMAIN db : db[j].state = s}
  BY <1>1, <1>3
<1>. QED  BY <1>2, <1>3 DEF CountOf

-----------------------------------------------------------------------------
(* One call at a time *)

LEMMA ExactBefore ==
    ASSUME Serialized, LedgerInv, ExactInv, crashes = 0,
           NEW w \in Workers, MayStart(w) \/ op[w].pc # "idle"
    PROVE  Exact(op[w])
<1>1. CASE op[w].pc # "idle"
  BY <1>1 DEF ExactInv
<1>2. CASE op[w].pc = "idle"
  <2>1. Exact(Idle)
    BY <1>2 DEF ExactInv, Quiet, MayStart
  <2>2. /\ ~Counting(Idle) /\ ~Counting(op[w]) /\ ~Submitting(Idle) /\ ~Submitting(op[w])
        /\ op[w].pc # "putStat"
    BY <1>2 DEF Idle, Counting, Submitting
  <2>. QED  BY <2>1, <2>2 DEF Exact, Due, Submitted
<1>. QED  BY <1>1, <1>2

LEMMA ExactAfter ==
    ASSUME Serialized, LedgerInv, IInv, ExactInv, NEW w \in Workers, NEW o,
           MayStart(w) \/ op[w].pc # "idle", op' = [op EXCEPT ![w] = o],
           crashes' = crashes, IsFiniteSet(DOMAIN db'),
           Counting(o) => TodoFits(o.todo), crashes = 0 => Exact(o)'
    PROVE  ExactInv'
<1>1. op'[w] = o /\ \A v \in Workers \ {w} : op'[v] = op[v] /\ op[v].pc = "idle"
  BY Solo DEF IInv, TypeOK
<1>2. \A v \in Workers : Counting(op'[v]) => TodoFits(op'[v].todo)
  BY <1>1 DEF Counting
<1>3. ASSUME crashes = 0, Quiet'
      PROVE  Exact(Idle)'
  <2>1. o.pc = "idle"
    BY <1>1, <1>3 DEF Quiet
  <2>2. ~Counting(Idle) /\ ~Counting(o) /\ ~Submitting(Idle) /\ ~Submitting(o)
        /\ Idle.pc # "putStat"
    BY <2>1 DEF Idle, Counting, Submitting
  <2>3. Exact(o)'
    BY <1>3
  <2>. QED  BY <2>2, <2>3 DEF Exact, Due, Submitted
<1>4. ASSUME crashes = 0, NEW v \in Workers, op'[v].pc # "idle"
      PROVE  Exact(op[v])'
  BY <1>1, <1>4
<1>. QED  BY <1>2, <1>3, <1>4 DEF ExactInv

(* Steps that write neither a task nor a counter.                          *)
LEMMA ExactQuiet ==
    ASSUME Serialized, LedgerInv, IInv, ExactInv, NEW w \in Workers, NEW o,
           MayStart(w) \/ op[w].pc # "idle", op' = [op EXCEPT ![w] = o],
           UNCHANGED <<db, stats, used, crashes>>,
           ~Counting(o), ~Counting(op[w]), Submitting(o) <=> Submitting(op[w])
    PROVE  ExactInv'
<1>1. ASSUME crashes = 0 PROVE Exact(o)'
  <2>1. Exact(op[w])
    BY <1>1, ExactBefore
  <2>2. CountOf("pending")' = CountOf("pending") /\ CountOf("claimed")' = CountOf("claimed")
    BY DEF CountOf
  <2>3. o.pc # "putStat" /\ \A n : Due(o, n) = 0 /\ Due(op[w], n) = 0
    BY DEF Counting, Due
  <2>. QED  BY <2>1, <2>2, <2>3 DEF Exact, Submitted
<1>. QED  BY <1>1, ExactAfter DEF ExactInv

LEMMA ExactStill ==
    ASSUME ExactInv, UNCHANGED <<db, stats, used, op, crashes>>
    PROVE  ExactInv'
<1>1. \A s : CountOf(s)' = CountOf(s)
  BY DEF CountOf
<1>2. \A o : Exact(o)' <=> Exact(o)
  BY <1>1 DEF Exact, Submitted
<1>. QED  BY <1>2 DEF ExactInv, Quiet

LEMMA EnqueueExact ==
    ASSUME Serialized, LedgerInv, CountsInv, IInv, ExactInv, NEW w \in Workers, Enqueue(w)
    PROVE  ExactInv'
<1>1. PICK p \in Priorities, id \in TaskIDs \ used :
         /\ used' = used \cup {id}
         /\ op' = [op EXCEPT ![w] =
                     [Idle EXCEPT !.pc = "bump", !.call = "Enqueue",
                                  !.key = NewKey(w, p, id),
                                  !.task = NewTask(id)]]
  BY DEF Enqueue
<1>2. PICK o : /\ o = [Idle EXCEPT !.pc = "bump", !.call = "Enqueue",
                                   !.key = NewKey(w, p, id), !.task = NewTask(id)]
               /\ op' = [op EXCEPT ![w] = o]
  BY <1>1
<1>3. o.pc = "bump" /\ o.call = "Enqueue"
  BY <1>2 DEF Idle
<1>4. /\ MayStart(w) /\ op[w].pc = "idle" /\ db' = db /\ stats' = stats
      /\ crashes' = crashes
  BY DEF Enqueue, MayStart
<1>5. Cardinality(used') = Cardinality(used) + 1 /\ Cardinality(used) \in Nat
  BY <1>1, FS_AddElement, FS_CardinalityType DEF CountsInv
<1>6. ASSUME crashes = 0 PROVE Exact(o)'
  <2>1. Exact(op[w])
    BY <1>4, <1>6, ExactBefore
  <2>2. CountOf("pending")' = CountOf("pending") /\ CountOf("claimed")' = CountOf("claimed")
    BY <1>4 DEF CountOf
  <2>3. \A n : Due(o, n) = 0 /\ Due(op[w], n) = 0
    BY <1>3, <1>4 DEF Counting, Due
  <2>4. Submitted(o)' = Submitted(op[w])
    BY <1>3, <1>4, <1>5 DEF Submitted, Submitting
  <2>. QED  BY <1>3, <1>4, <2>1, <2>2, <2>3, <2>4 DEF Exact
<1>. QED  BY <1>2, <1>3, <1>4, <1>6, ExactAfter DEF ExactInv, Counting

(* The steps before a call writes, and those of Dequeue that find nothing. *)
LEMMA MoveExact ==
    ASSUME Serialized, LedgerInv, IInv, ExactInv, NEW w \in Workers,
           \/ Dequeue(w) \/ SettleAny(w) \/ Purge(w) \/ BumpSequence(w)
           \/ DequeueScan(w) \/ DequeueNothing(w) \/ LocateTask(w)
    PROVE  ExactInv'
<1>1. CASE Dequeue(w)
  <2>1. PICK o : /\ o = [Idle EXCEPT !.pc = "scan", !.call = "Dequeue",
                                     !.at = clock[ProcOf[w]]]
                 /\ op' = [op EXCEPT ![w] = o]
    BY <1>1 DEF Dequeue
  <2>2. o.pc = "scan"
    BY <2>1 DEF Idle
  <2>. QED  BY <1>1, <2>1, <2>2, ExactQuiet DEF Dequeue, MayStart, Counting, Submitting
<1>2. ASSUME NEW call, NEW id, NEW t, Settle(w, call, id, t)
      PROVE  ExactInv'
  <2>1. PICK o : /\ o = [Idle EXCEPT !.pc = "locate", !.call = call, !.task = t]
                 /\ op' = [op EXCEPT ![w] = o]
    BY <1>2 DEF Settle
  <2>2. o.pc = "locate"
    BY <2>1 DEF Idle
  <2>. QED  BY <1>2, <2>1, <2>2, ExactQuiet DEF Settle, MayStart, Counting, Submitting
<1>3. CASE SettleAny(w)
  BY <1>2, <1>3, ExactStill DEF SettleAny, Ack, Nack, SettleRefused
<1>4. CASE Purge(w)
  <2>1. PICK o : /\ o = [Idle EXCEPT !.pc = "delete", !.call = "Purge",
                                     !.doomed = {k \in Visible : Terminal(db[k])}]
                 /\ op' = [op EXCEPT ![w] = o]
    BY <1>4 DEF Purge, PurgeWhat
  <2>2. o.pc = "delete"
    BY <2>1 DEF Idle
  <2>. QED  BY <1>4, <2>1, <2>2, ExactQuiet DEF Purge, MayStart, Counting, Submitting
<1>5. CASE BumpSequence(w)
  <2>1. PICK o : o = [op[w] EXCEPT !.pc = "put"] /\ op' = [op EXCEPT ![w] = o]
    BY <1>5 DEF BumpSequence, Goto, IInv, TypeOK
  <2>2. o.pc = "put" /\ o.call = op[w].call
    BY <2>1 DEF IInv, TypeOK, OpType
  <2>. QED  BY <1>5, <2>1, <2>2, ExactQuiet DEF BumpSequence, Counting, Submitting
<1>6. CASE DequeueScan(w)
  <2>1. PICK k : op' = [op EXCEPT ![w] =
                          [Idle EXCEPT !.pc = "put", !.call = "Dequeue", !.key = k,
                                       !.task = Claimed(db[k], w, op[w].at)]]
    BY <1>6 DEF DequeueScan
  <2>2. PICK o : /\ o = [Idle EXCEPT !.pc = "put", !.call = "Dequeue", !.key = k,
                                     !.task = Claimed(db[k], w, op[w].at)]
                 /\ op' = [op EXCEPT ![w] = o]
    BY <2>1
  <2>3. o.pc = "put" /\ o.call = "Dequeue"
    BY <2>2 DEF Idle
  <2>. QED  BY <1>6, <2>2, <2>3, ExactQuiet DEF DequeueScan, Counting, Submitting
<1>7. CASE DequeueNothing(w)
  BY <1>7, IdleFollows, ExactQuiet DEF DequeueNothing, Return, Counting, Submitting
<1>8. CASE LocateTask(w)
  <2>1. PICK k : op' = [op EXCEPT ![w] = [op[w] EXCEPT !.pc = "update", !.key = k]]
    BY <1>8, LocateFinds
  <2>2. PICK o : o = [op[w] EXCEPT !.pc = "update", !.key = k] /\ op' = [op EXCEPT ![w] = o]
    BY <2>1
  <2>3. o.pc = "update"
    BY <2>2 DEF IInv, TypeOK, OpType
  <2>. QED  BY <1>8, <2>2, <2>3, ExactQuiet DEF LocateTask, Counting, Submitting
<1>. QED  BY <1>1, <1>3, <1>4, <1>5, <1>6, <1>7, <1>8

(* A task written moves from one count to another, as its call then says.  *)
LEMMA WriteExact ==
    ASSUME Serialized, LedgerInv, CountsInv, IInv, ExactInv,
           NEW w \in Workers, PutTask(w) \/ UpdateTask(w)
    PROVE  ExactInv'
<1>1. PICK k, t : k = op[w].key /\ t = op[w].task
  OBVIOUS
<1>2. PICK o : o = StatsOp(op[w]) /\ op' = [op EXCEPT ![w] = o]
  BY DEF PutTask, UpdateTask, WriteStats, StatsOp
<1>3. /\ o.pc = "getStat" /\ o.todo = StatsOf(op[w].call, t)
  BY <1>1, <1>2 DEF StatsOp, Idle
<1>4. /\ op[w].pc \in {"put", "update"} /\ db' = Store(k, t)
      /\ UNCHANGED <<stats, used, crashes>>
  BY <1>1 DEF PutTask, UpdateTask
<1>5. t \in Task /\ Summary(t).state = t.state
  BY <1>1, <1>4 DEF IInv, OpSound, Writing, Summary
<1>6. op[w].call \in {"Enqueue", "Dequeue", "Ack", "Nack"} /\ TodoFits(o.todo)
  BY <1>3, <1>4, WriteMeets, DuesOf
<1>7. /\ IsFiniteSet(DOMAIN db')
      /\ \A s : CountOf(s)' =
           LET was == k \in DOMAIN db /\ db[k].state = s
           IN  IF t.state = s THEN IF was THEN CountOf(s) ELSE CountOf(s) + 1
               ELSE IF was THEN CountOf(s) - 1 ELSE CountOf(s)
  BY <1>4, StoreCounts DEF ExactInv
<1>8. ASSUME crashes = 0 PROVE Exact(o)'
  <2>1. Exact(op[w])
    BY <1>4, <1>8, ExactBefore
  <2>2. /\ \A n : Due(op[w], n) = 0 /\ Due(o, n) = DueOf(o.todo, n)
        /\ ~Submitting(o) /\ o.pc # "putStat"
    BY <1>3, <1>4 DEF Counting, Due, Submitting
  <2>3. /\ CountOf("pending") \in Nat /\ CountOf("claimed") \in Nat
        /\ Cardinality(used) \in Nat
        /\ \A n \in StatNames : stats[n] \in Nat
    BY CountTypes, FS_CardinalityType DEF ExactInv, CountsInv, IInv, TypeOK
  <2>4. Submitted(op[w]) = Cardinality(used) - (IF Submitting(op[w]) THEN 1 ELSE 0)
        /\ Submitted(o)' = Cardinality(used)
    BY <1>4, <2>2, <2>3 DEF Submitted
  <2>5. ASSUME NEW p, NEW c, NEW d, NEW x, NEW q,
               DueOf(o.todo, "pending") = p /\ p \in Int,
               DueOf(o.todo, "claimed") = c /\ c \in Int,
               DueOf(o.todo, "totalEnqueued") = q,
               DueOf(o.todo, "completed") = d /\ d \in Int,
               DueOf(o.todo, "deadLettered") = x /\ x \in Int,
               CountOf("pending")' = CountOf("pending") + p,
               CountOf("claimed")' = CountOf("claimed") + c,
               q = IF Submitting(op[w]) THEN 1 ELSE 0,
               p + c + d + x = q
        PROVE  Exact(o)'
    <3>1. /\ stats'["pending"] + Due(o, "pending") = CountOf("pending")'
          /\ stats'["claimed"] + Due(o, "claimed") = CountOf("claimed")'
          /\ stats'["totalEnqueued"] + Due(o, "totalEnqueued") = Submitted(o)'
      BY <1>4, <2>1, <2>2, <2>3, <2>4, <2>5 DEF Exact, StatNames
    <3>2. stats["completed"] + stats["deadLettered"]
            = Submitted(op[w]) - CountOf("pending") - CountOf("claimed")
      BY <2>1, <2>2, <2>3 DEF Exact, StatNames
    <3>3. stats'["completed"] + Due(o, "completed")
            + stats'["deadLettered"] + Due(o, "deadLettered")
            = Submitted(o)' - CountOf("pending")' - CountOf("claimed")'
      BY <1>4, <2>2, <2>3, <2>4, <2>5, <3>2 DEF StatNames
    <3>. QED  BY <2>2, <3>1, <3>3 DEF Exact
  <2>6. CASE op[w].call = "Enqueue"
    <3>1. k \notin DOMAIN db /\ t.state = "pending" /\ Submitting(op[w])
      BY <1>1, <1>4, <1>5, <2>6, WriteMeets DEF SubmitsFresh, Submitting
    <3>2. /\ CountOf("pending")' = CountOf("pending") + 1
          /\ CountOf("claimed")' = CountOf("claimed") + 0
      BY <1>7, <2>3, <3>1
    <3>. QED  BY <1>3, <2>5, <2>6, <3>1, <3>2, DuesOf
  <2>7. CASE op[w].call = "Dequeue"
    <3>1. ClaimsPending(w, op[w]) /\ ~Submitting(op[w])
      BY <1>4, <2>7, WriteMeets DEF Submitting
    <3>2. k \in DOMAIN db /\ db[k].state = "pending" /\ t.state = "claimed"
      BY <1>1, <1>5, <3>1 DEF ClaimsPending, Pending
    <3>3. /\ CountOf("pending")' = CountOf("pending") + (-1)
          /\ CountOf("claimed")' = CountOf("claimed") + 1
      BY <1>7, <2>3, <3>2
    <3>4. /\ DueOf(o.todo, "pending") = -1 /\ DueOf(o.todo, "claimed") = 1
          /\ DueOf(o.todo, "totalEnqueued") = 0 /\ DueOf(o.todo, "completed") = 0
          /\ DueOf(o.todo, "deadLettered") = 0
      BY <1>3, <2>7, DuesOf
    <3>5. 0 = (IF Submitting(op[w]) THEN 1 ELSE 0) /\ -1 + 1 + 0 + 0 = 0
      BY <3>1
    <3>. QED  BY <2>5, <3>3, <3>4, <3>5
  <2>8. CASE op[w].call = "Ack"
    <3>1. k \in DOMAIN db /\ db[k].state = "claimed" /\ ~Submitting(op[w]) /\ db[k] \in Task
          /\ Summary(t) = Summary(Acked(db[k]))
      BY <1>1, <1>4, <2>8, WriteMeets DEF ClaimedBy, Submitting, IInv, TypeOK
    <3>2. t.state = "completed"
      BY <1>5, <3>1, SummaryOfHelpers
    <3>3. /\ CountOf("pending")' = CountOf("pending") + 0
          /\ CountOf("claimed")' = CountOf("claimed") + (-1)
      BY <1>7, <2>3, <3>1, <3>2
    <3>4. /\ DueOf(o.todo, "pending") = 0 /\ DueOf(o.todo, "claimed") = -1
          /\ DueOf(o.todo, "totalEnqueued") = 0 /\ DueOf(o.todo, "completed") = 1
          /\ DueOf(o.todo, "deadLettered") = 0
      BY <1>3, <2>8, DuesOf
    <3>5. 0 = (IF Submitting(op[w]) THEN 1 ELSE 0) /\ 0 + (-1) + 1 + 0 = 0
      BY <3>1
    <3>. QED  BY <2>5, <3>3, <3>4, <3>5
  <2>9. CASE op[w].call = "Nack"
    <3>1. k \in DOMAIN db /\ db[k].state = "claimed" /\ ~Submitting(op[w]) /\ db[k] \in Task
          /\ Summary(t) = Summary(Nacked(db[k]))
      BY <1>1, <1>4, <2>9, WriteMeets DEF ClaimedBy, Submitting, IInv, TypeOK
    <3>2. t.state = "pending" \/ t.state = "dead_lettered"
      BY <1>5, <3>1, SummaryOfHelpers
    <3>3. CASE t.state = "pending"
      <4>1. /\ CountOf("pending")' = CountOf("pending") + 1
            /\ CountOf("claimed")' = CountOf("claimed") + (-1)
        BY <1>7, <2>3, <3>1, <3>3
      <4>. QED  BY <1>3, <2>5, <2>9, <3>1, <3>3, <4>1, DuesOf
    <3>4. CASE t.state = "dead_lettered"
      <4>1. /\ CountOf("pending")' = CountOf("pending") + 0
            /\ CountOf("claimed")' = CountOf("claimed") + (-1)
        BY <1>7, <2>3, <3>1, <3>4
      <4>. QED  BY <1>3, <2>5, <2>9, <3>1, <3>4, <4>1, DuesOf
    <3>. QED  BY <3>2, <3>3, <3>4
  <2>. QED  BY <1>6, <2>6, <2>7, <2>8, <2>9
<1>. QED  BY <1>2, <1>4, <1>6, <1>7, <1>8, ExactAfter

LEMMA GetStatExact ==
    ASSUME Serialized, LedgerInv, IInv, ExactInv, NEW w \in Workers, GetStat(w)
    PROVE  ExactInv'
<1>1. PICK o : /\ o = [op[w] EXCEPT !.pc = "putStat", !.seen = stats[Head(op[w].todo)[1]]]
               /\ op' = [op EXCEPT ![w] = o]
  BY DEF GetStat, IInv, TypeOK
<1>2. /\ o.pc = "putStat" /\ o.seen = stats[Head(o.todo)[1]] /\ o.todo = op[w].todo
  BY <1>1 DEF IInv, TypeOK, OpType
<1>3. /\ op[w].pc = "getStat" /\ UNCHANGED <<db, stats, used, crashes>>
  BY DEF GetStat
<1>4. ASSUME crashes = 0 PROVE Exact(o)'
  <2>1. Exact(op[w])
    BY <1>3, <1>4, ExactBefore
  <2>2. CountOf("pending")' = CountOf("pending") /\ CountOf("claimed")' = CountOf("claimed")
    BY <1>3 DEF CountOf
  <2>3. /\ \A n : Due(o, n) = Due(op[w], n)
        /\ ~Submitting(o) /\ ~Submitting(op[w])
    BY <1>2, <1>3 DEF Counting, Due, Submitting
  <2>. QED  BY <1>2, <1>3, <2>1, <2>2, <2>3 DEF Exact, Submitted
<1>5. TodoFits(o.todo)
  BY <1>2, <1>3 DEF ExactInv, Counting
<1>. QED  BY <1>1, <1>3, <1>4, <1>5, ExactAfter DEF ExactInv

LEMMA SumsOfEquals ==
    ASSUME NEW a \in Int, NEW b \in Int, NEW c \in Int, NEW d \in Int,
           NEW e \in Int, NEW f \in Int, NEW g \in Int, NEW h \in Int,
           a + b = e + f, c + d = g + h
    PROVE  a + b + c + d = e + f + g + h
OBVIOUS

LEMMA TailOfOne ==
    ASSUME NEW S, NEW q \in Seq(S), Len(q) = 1
    PROVE  Tail(q) = <<>>
<1>1. Tail(q) \in Seq(S) /\ Len(Tail(q)) = 0
  OBVIOUS
<1>. QED  BY <1>1, EmptySeq

(* A counter is decremented from what it was read as, which is not zero.   *)
LEMMA PutStatExact ==
    ASSUME Serialized, LedgerInv, IInv, ExactInv, NEW w \in Workers, PutStat(w)
    PROVE  ExactInv'
<1>1. PICK q \in Seq(StatNames \X {-1, 1}) : q = op[w].todo /\ q # <<>>
  BY DEF PutStat, IInv, TypeOK, OpType, OpSound
<1>2. /\ op[w].pc = "putStat" /\ stats' = NewStat(w)
      /\ UNCHANGED <<db, used, crashes>>
  BY DEF PutStat
<1>3. TodoFits(q)
  BY <1>1, <1>2 DEF ExactInv, Counting
<1>4. PICK name \in StatNames, delta \in {-1, 1} : Head(q)[1] = name /\ Head(q)[2] = delta
  <2>1. Head(q) \in StatNames \X {-1, 1}
    BY <1>1
  <2>. QED  BY <2>1
<1>5. /\ TodoFits(Tail(q)) /\ DueOf(Tail(q), name) = 0 /\ DueOf(q, name) = delta
      /\ \A n : n # name => DueOf(Tail(q), n) = DueOf(q, n)
  BY <1>1, <1>3, <1>4, DueTail
<1>6. PICK o : /\ op' = [op EXCEPT ![w] = o] /\ o.pc \in {"idle", "getStat"}
               /\ \A n : Due(o, n) = DueOf(Tail(q), n)
               /\ Counting(o) => TodoFits(o.todo)
  <2>1. CASE Len(op[w].todo) = 1
    <3>1. op' = [op EXCEPT ![w] = Idle] /\ Idle.pc = "idle" /\ ~Counting(Idle)
      BY <2>1 DEF PutStat, NextStat, Return, Idle, Counting
    <3>2. Tail(q) = <<>>
      BY <1>1, <2>1, TailOfOne
    <3>3. \A n : Due(Idle, n) = DueOf(Tail(q), n)
      BY <3>1, <3>2, DuesOf DEF Due
    <3>. QED  BY <3>1, <3>3
  <2>2. CASE Len(op[w].todo) # 1
    <3>1. PICK o : /\ o = [op[w] EXCEPT !.pc = "getStat", !.seen = 0, !.todo = Tail(op[w].todo)]
                   /\ op' = [op EXCEPT ![w] = o]
      BY <2>2 DEF PutStat, NextStat, IInv, TypeOK
    <3>2. o.pc = "getStat" /\ o.todo = Tail(q)
      BY <1>1, <3>1 DEF IInv, TypeOK, OpType
    <3>. QED  BY <1>5, <3>1, <3>2 DEF Due, Counting
  <2>. QED  BY <2>1, <2>2
<1>7. ASSUME crashes = 0 PROVE Exact(o)'
  <2>1. Exact(op[w])
    BY <1>2, <1>7, ExactBefore
  <2>2. CountOf("pending")' = CountOf("pending") /\ CountOf("claimed")' = CountOf("claimed")
    BY <1>2 DEF CountOf
  <2>3. /\ \A n : Due(op[w], n) = DueOf(q, n)
        /\ ~Submitting(o) /\ ~Submitting(op[w]) /\ o.pc # "putStat"
    BY <1>1, <1>2, <1>6 DEF Counting, Due, Submitting
  <2>4. /\ stats \in [StatNames -> Nat] /\ op[w].seen = stats[name]
        /\ CountOf("pending") \in Nat /\ CountOf("claimed") \in Nat
    BY <1>1, <1>2, <1>4, <2>1, CountTypes DEF Exact, ExactInv, IInv, TypeOK
  <2>5. ~(delta < 0 /\ op[w].seen = 0)
    <3>. SUFFICES ASSUME delta = -1 PROVE stats[name] # 0
      BY <1>4, <2>4
    <3>1. name \in {"pending", "claimed"}
      <4>1. 1 \in 1..Len(q) /\ Head(q) = q[1]
        BY <1>1
      <4>. QED  BY <1>3, <1>4, <4>1 DEF TodoFits
    <3>2. stats[name] + (-1) = CountOf(name)
      BY <1>5, <2>1, <2>3, <3>1 DEF Exact
    <3>. QED  BY <2>4, <3>1, <3>2
  <2>6. stats' = [stats EXCEPT ![name] = stats[name] + delta]
    <3>1. NewStat(w) = IF delta < 0 /\ op[w].seen = 0 THEN stats
                       ELSE [stats EXCEPT ![name] = op[w].seen + delta]
      BY <1>1, <1>4 DEF NewStat
    <3>. QED  BY <1>2, <2>4, <2>5, <3>1
  <2>7. \A n \in StatNames : DueOf(q, n) \in Int /\ DueOf(Tail(q), n) \in Int
    BY DEF DueOf
  <2>8. ASSUME NEW n \in StatNames
        PROVE  stats'[n] + Due(o, n) = stats[n] + Due(op[w], n)
    <3>1. CASE n = name
      BY <1>4, <1>5, <1>6, <2>3, <2>4, <2>6, <3>1
    <3>2. CASE n # name
      BY <1>5, <1>6, <2>3, <2>4, <2>6, <3>2
    <3>. QED  BY <3>1, <3>2
  <2>9. /\ stats'["pending"] + Due(o, "pending") = CountOf("pending")'
        /\ stats'["claimed"] + Due(o, "claimed") = CountOf("claimed")'
        /\ stats'["totalEnqueued"] + Due(o, "totalEnqueued") = Submitted(o)'
    BY <1>2, <2>1, <2>2, <2>3, <2>8 DEF Exact, Submitted, StatNames
  <2>10. stats'["completed"] + Due(o, "completed")
           + stats'["deadLettered"] + Due(o, "deadLettered")
         = stats["completed"] + Due(op[w], "completed")
           + stats["deadLettered"] + Due(op[w], "deadLettered")
    <3> DEFINE a == stats'["completed"]    b == Due(o, "completed")
               c == stats'["deadLettered"] d == Due(o, "deadLettered")
               e == stats["completed"]     f == Due(op[w], "completed")
               g == stats["deadLettered"]  h == Due(op[w], "deadLettered")
    <3>1. a \in Int /\ c \in Int /\ e \in Int /\ g \in Int
      BY <1>4, <2>4, <2>6 DEF StatNames
    <3>2. b \in Int /\ d \in Int /\ f \in Int /\ h \in Int
      BY <1>6, <2>3, <2>7 DEF StatNames
    <3>3. "completed" \in StatNames /\ "deadLettered" \in StatNames
      BY DEF StatNames
    <3>4. a + b = e + f /\ c + d = g + h
      BY <2>8, <3>3
    <3> HIDE DEF a, b, c, d, e, f, g, h
    <3>5. a + b + c + d = e + f + g + h
      BY <3>1, <3>2, <3>4, SumsOfEquals
    <3>. QED  BY <3>5 DEF a, b, c, d, e, f, g, h
  <2>11. Submitted(o)' = Submitted(op[w])
    BY <1>2, <2>3 DEF Submitted
  <2>. QED  BY <2>1, <2>2, <2>3, <2>9, <2>10, <2>11 DEF Exact
<1>8. MayStart(w) \/ op[w].pc # "idle"
  BY <1>2
<1>. QED  BY <1>2, <1>6, <1>7, <1>8, ExactAfter DEF ExactInv

(* Purge deletes no task that pending or claimed count.                    *)
LEMMA DeleteExact ==
    ASSUME Serialized, LedgerInv, IInv, ExactInv, NEW w \in Workers, PurgeDelete(w)
    PROVE  ExactInv'
<1>1. PICK k \in op[w].doomed : db' = Erase(k) /\ AfterDelete(w, k)
  BY DEF PurgeDelete, FirstOf
<1>2. op[w].pc = "delete" /\ UNCHANGED <<stats, used, crashes>>
  BY DEF PurgeDelete
<1>3. PICK o : op' = [op EXCEPT ![w] = o] /\ o.pc \in {"idle", "delete"}
  BY <1>1, <1>2, DeletesDoomed
<1>4. k \in DOMAIN db => Terminal(db[k])
  BY <1>1 DEF LedgerInv, OpFollows, DoomedFinished
<1>5. /\ IsFiniteSet(DOMAIN db')
      /\ CountOf("pending")' = CountOf("pending") /\ CountOf("claimed")' = CountOf("claimed")
  BY <1>1, <1>4, EraseCounts DEF Terminal, ExactInv
<1>6. ASSUME crashes = 0 PROVE Exact(o)'
  <2>1. Exact(op[w])
    BY <1>2, <1>6, ExactBefore
  <2>2. /\ \A n : Due(o, n) = 0 /\ Due(op[w], n) = 0
        /\ ~Submitting(o) /\ ~Submitting(op[w]) /\ o.pc # "putStat"
    BY <1>2, <1>3 DEF Counting, Due, Submitting
  <2>. QED  BY <1>2, <1>5, <2>1, <2>2 DEF Exact, Submitted
<1>. QED  BY <1>2, <1>3, <1>5, <1>6, ExactAfter DEF Counting

LEMMA NextExact ==
    SettlesAlone /\ Serialized /\ LedgerInv /\ CountsInv /\ IInv /\ ExactInv /\ [Next]_vars
      => ExactInv'
<1>. SUFFICES ASSUME SettlesAlone, Serialized, LedgerInv, CountsInv, IInv, ExactInv,
                     [Next]_vars
              PROVE  ExactInv'
  OBVIOUS
<1>1. ASSUME NEW w \in Workers, Begin(w)
      PROVE  ExactInv'
  BY <1>1, EnqueueExact, MoveExact DEF Begin
<1>2. ASSUME NEW w \in Workers, Step(w)
      PROVE  ExactInv'
  BY <1>2, MoveExact, WriteExact, GetStatExact, PutStatExact, DeleteExact DEF Step
<1>3. ASSUME NEW p \in Procs, Crash(p)
      PROVE  ExactInv'
  <2>1. crashes' # 0 /\ db' = db
    BY <1>3 DEF Crash, IInv, TypeOK
  <2>2. \A v \in Workers : op'[v] \in {Idle, op[v]}
    BY <1>3 DEF Crash
  <2>3. \A v \in Workers : Counting(op'[v]) => TodoFits(op'[v].todo)
    BY <2>2 DEF ExactInv, Idle, Counting
  <2>. QED  BY <2>1, <2>3 DEF ExactInv
<1>4. (\E p \in Procs : Tick(p)) \/ UNCHANGED vars => ExactInv'
  BY ExactStill DEF Tick, vars
<1>. QED  BY <1>1, <1>2, <1>3, <1>4, NeverFails DEF Next

LEMMA InitExact == Init => ExactInv
<1>. SUFFICES ASSUME Init PROVE ExactInv
  OBVIOUS
<1>1. /\ DOMAIN db = {} /\ used = {} /\ \A n \in StatNames : stats[n] = 0
      /\ \A w \in Workers : op[w] = Idle
  BY DEF Init
<1>2. ~Counting(Idle) /\ ~Submitting(Idle) /\ Idle.pc = "idle"
  BY DEF Idle, Counting, Submitting
<1>3. \A s : CountOf(s) = 0
  <2>1. \A s : {k \in DOMAIN db : db[k].state = s} = {}
    BY <1>1
  <2>. QED  BY <2>1, FS_EmptySet DEF CountOf
<1>4. Exact(Idle)
  BY <1>1, <1>2, <1>3, FS_EmptySet DEF Exact, Due, Submitted, StatNames
<1>. QED  BY <1>1, <1>2, <1>4, FS_EmptySet DEF ExactInv

(* Between the calls of callers that take turns, the stored counters       *)
(* (queue.go:754, 765) are the numbers of tasks they stand for, as long as *)
(* no process has died inside a call.                                      *)
THEOREM StatsStayExact ==
    ASSUME SettlesAlone, Serialized
    PROVE  Spec => []StatsExact
<1>1. ExactInv /\ LedgerInv /\ CountsInv /\ IInv /\ [Next]_vars => ExactInv'
  BY NextExact
<1>2. ExactInv /\ CountsInv /\ IInv => StatsExact
  <2>. SUFFICES ASSUME ExactInv, CountsInv, IInv, Quiet, crashes = 0
                PROVE  /\ stats["pending"] = CountOf("pending")
                       /\ stats["claimed"] = CountOf("claimed")
                       /\ stats["totalEnqueued"] = Cardinality(used)
                       /\ stats["completed"] + stats["deadLettered"]
                            = Cardinality(used) - CountOf("pending") - CountOf("claimed")
    BY DEF StatsExact
  <2>1. ~Counting(Idle) /\ ~Submitting(Idle)
    BY DEF Idle, Counting, Submitting
  <2>2. /\ \A n \in StatNames : stats[n] \in Nat
        /\ Cardinality(used) \in Nat
    BY FS_CardinalityType DEF CountsInv, IInv, TypeOK
  <2>3. Exact(Idle)
    BY DEF ExactInv
  <2>. QED  BY <2>1, <2>2, <2>3 DEF Exact, Due, Submitted, StatNames
<1>. QED  BY <1>1, <1>2, InitExact, LedgerInvariant, CountsInvariant, InductiveInvariant, PTL
          DEF Spec
=============================================================================
