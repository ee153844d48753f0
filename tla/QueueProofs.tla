----------------------------- MODULE QueueProofs ----------------------------
(***************************************************************************)
(* Proofs about PriorityQueue for any number of workers, processes, tasks, *)
(* errors and crashes, on every backend, serialized or not.                *)
(***************************************************************************)
EXTENDS QueueProperties, SequenceTheorems, FiniteSetTheorems, TLAPS

-----------------------------------------------------------------------------
(* The helpers on tasks and counters *)

(* Changing one field of a task leaves a task with the other fields.       *)
LEMMA TaskExcept ==
    ASSUME NEW t \in Task
    PROVE  /\ \A s \in States :
                /\ [t EXCEPT !.state = s] \in Task
                /\ [t EXCEPT !.state = s].state = s
                /\ [t EXCEPT !.state = s].taskID = t.taskID
                /\ [t EXCEPT !.state = s].retries = t.retries
                /\ [t EXCEPT !.state = s].claimedBy = t.claimedBy
           /\ \A v \in Workers \cup {Nobody} :
                /\ [t EXCEPT !.claimedBy = v] \in Task
                /\ [t EXCEPT !.claimedBy = v].state = t.state
                /\ [t EXCEPT !.claimedBy = v].taskID = t.taskID
                /\ [t EXCEPT !.claimedBy = v].retries = t.retries
                /\ [t EXCEPT !.claimedBy = v].claimedBy = v
           /\ \A n \in Int :
                /\ [t EXCEPT !.claimedAt = n] \in Task
                /\ [t EXCEPT !.claimedAt = n].state = t.state
                /\ [t EXCEPT !.claimedAt = n].taskID = t.taskID
                /\ [t EXCEPT !.claimedAt = n].retries = t.retries
                /\ [t EXCEPT !.claimedAt = n].claimedBy = t.claimedBy
           /\ \A n \in Nat :
                /\ [t EXCEPT !.retries = n] \in Task
                /\ [t EXCEPT !.retries = n].state = t.state
                /\ [t EXCEPT !.retries = n].taskID = t.taskID
                /\ [t EXCEPT !.retries = n].retries = n
                /\ [t EXCEPT !.retries = n].claimedBy = t.claimedBy
BY DEF Task

(* A new task, and a pending, claimed or any task after Dequeue, Ack or    *)
(* Nack changed its copy, is a sound task (queue.go:238, 321, 479, 504).   *)
LEMMA TaskHelpers ==
    /\ \A id \in TaskIDs :
         /\ NewTask(id) \in Task /\ TaskSound(NewTask(id))
         /\ NewTask(id).taskID = id
    /\ \A t \in Task, w \in Workers, now \in Nat :
         TaskSound(t) /\ t.state = "pending" =>
           /\ Claimed(t, w, now) \in Task /\ TaskSound(Claimed(t, w, now))
           /\ Claimed(t, w, now).taskID = t.taskID
    /\ \A t \in Task : TaskSound(t) /\ Ackable(t) =>
         /\ Acked(t) \in Task /\ TaskSound(Acked(t))
         /\ Acked(t).taskID = t.taskID
    /\ \A t \in Task : TaskSound(t) =>
         /\ Nacked(t) \in Task /\ TaskSound(Nacked(t))
         /\ Nacked(t).taskID = t.taskID
<1>1. ASSUME NEW id \in TaskIDs
      PROVE  /\ NewTask(id) \in Task /\ TaskSound(NewTask(id))
             /\ NewTask(id).taskID = id
  BY QueueAssumption
     DEF NewTask, QueueAssumption, Task, States, TaskSound, Never
<1>2. ASSUME NEW t \in Task, NEW w \in Workers, NEW now \in Nat,
             TaskSound(t), t.state = "pending"
      PROVE  /\ Claimed(t, w, now) \in Task /\ TaskSound(Claimed(t, w, now))
             /\ Claimed(t, w, now).taskID = t.taskID
  <2>. DEFINE a == [t EXCEPT !.state = "claimed"]
              b == [a EXCEPT !.claimedBy = w]
              c == [b EXCEPT !.claimedAt = now]
  <2>1. /\ a \in Task /\ a.state = "claimed" /\ a.taskID = t.taskID
        /\ a.retries = t.retries
    BY TaskExcept DEF States
  <2>2. /\ b \in Task /\ b.state = a.state /\ b.taskID = a.taskID
        /\ b.retries = a.retries /\ b.claimedBy = w
    BY <2>1, TaskExcept
  <2>3. /\ c \in Task /\ c.state = b.state /\ c.taskID = b.taskID
        /\ c.retries = b.retries /\ c.claimedBy = b.claimedBy
    <3>. HIDE DEF b
    <3>. QED  BY <2>2, TaskExcept
  <2>4. Claimed(t, w, now) = c
    BY DEF Claimed
  <2>5. TaskSound(c)
    <3>. HIDE DEF a, b, c
    <3>. QED  BY <1>2, <2>1, <2>2, <2>3 DEF TaskSound
  <2>. QED  BY <2>1, <2>2, <2>3, <2>4, <2>5
<1>3. ASSUME NEW t \in Task, TaskSound(t), Ackable(t)
      PROVE  /\ Acked(t) \in Task /\ TaskSound(Acked(t))
             /\ Acked(t).taskID = t.taskID
  BY <1>3, TaskExcept DEF Acked, Ackable, TaskSound, States
<1>4. ASSUME NEW t \in Task, TaskSound(t)
      PROVE  /\ Nacked(t) \in Task /\ TaskSound(Nacked(t))
             /\ Nacked(t).taskID = t.taskID
  <2>. DEFINE a == [t EXCEPT !.retries = t.retries + 1]
              d == [a EXCEPT !.state = "dead_lettered"]
              p == [a EXCEPT !.state = "pending"]
              q == [p EXCEPT !.claimedBy = Nobody]
              r == [q EXCEPT !.claimedAt = Never]
  <2>0. t.retries + 1 \in Nat /\ Never \in Int /\ MaxRetries \in Nat
    BY QueueAssumption DEF QueueAssumption, Task, Never
  <2>1. /\ a \in Task /\ a.taskID = t.taskID /\ a.retries = t.retries + 1
    BY <2>0, TaskExcept
  <2>2. /\ d \in Task /\ d.state = "dead_lettered" /\ d.taskID = a.taskID
        /\ d.retries = a.retries
    BY <2>1, TaskExcept DEF States
  <2>3. /\ p \in Task /\ p.state = "pending" /\ p.taskID = a.taskID
        /\ p.retries = a.retries
    BY <2>1, TaskExcept DEF States
  <2>4. /\ q \in Task /\ q.state = p.state /\ q.taskID = p.taskID
        /\ q.retries = p.retries /\ q.claimedBy = Nobody
    BY <2>3, TaskExcept
  <2>5. /\ r \in Task /\ r.state = q.state /\ r.taskID = q.taskID
        /\ r.retries = q.retries /\ r.claimedBy = q.claimedBy
    BY <2>0, <2>4, TaskExcept
  <2>6. Nacked(t) = IF t.retries + 1 >= MaxRetries THEN d ELSE r
    BY DEF Nacked
  <2>7. /\ t.retries + 1 >= MaxRetries => TaskSound(d)
        /\ ~(t.retries + 1 >= MaxRetries) => TaskSound(r)
    <3>. HIDE DEF a, d, p, q, r
    <3>. QED  BY <2>1, <2>2, <2>3, <2>4, <2>5 DEF TaskSound
  <2>. QED
    <3>. HIDE DEF a, d, p, q, r
    <3>. QED  BY <2>1, <2>2, <2>3, <2>4, <2>5, <2>6, <2>7
<1>. QED  BY <1>1, <1>2, <1>3, <1>4

(* Every call has counters to update, each by one.                         *)
LEMMA StatsOfType ==
    \A call \in Calls, t \in Task :
      /\ StatsOf(call, t) \in Seq(StatNames \X {-1, 1})
      /\ StatsOf(call, t) # <<>>
<1>. SUFFICES ASSUME NEW call \in Calls, NEW t \in Task
              PROVE  /\ StatsOf(call, t) \in Seq(StatNames \X {-1, 1})
                     /\ StatsOf(call, t) # <<>>
  OBVIOUS
<1>1. CASE call = "Enqueue"
  BY <1>1 DEF StatsOf, StatNames
<1>2. CASE call = "Dequeue"
  BY <1>2 DEF StatsOf, StatNames
<1>3. CASE call = "Ack"
  BY <1>3 DEF StatsOf, StatNames
<1>4. CASE call \notin {"Enqueue", "Dequeue", "Ack"}
  <2>. DEFINE last == IF t.state = "dead_lettered" THEN <<"deadLettered", 1>>
                                                   ELSE <<"pending", 1>>
  <2>1. last \in StatNames \X {-1, 1} /\ <<"claimed", -1>> \in StatNames \X {-1, 1}
    BY DEF StatNames
  <2>2. StatsOf(call, t) = << <<"claimed", -1>>, last >>
    BY <1>4 DEF StatsOf
  <2>. QED
    <3>. HIDE DEF last
    <3>. QED  BY <2>1, <2>2
<1>. QED  BY <1>1, <1>2, <1>3, <1>4

(* An idle worker's record is well-typed and holds nothing.                *)
LEMMA IdleType == Idle \in OpType /\ OpSound(Idle)
BY DEF Idle, OpType, OpSound, Writing, PCs, Calls

(* StatsOf and the identifier are all WriteStats keeps.                    *)
StatsOp(o) == [Idle EXCEPT !.pc = "getStat", !.call = o.call,
                           !.id = o.task.taskID,
                           !.todo = StatsOf(o.call, o.task)]

LEMMA StatsOpType ==
    ASSUME NEW o \in OpType, o.task \in Task
    PROVE  StatsOp(o) \in OpType /\ OpSound(StatsOp(o)) /\ ~Writing(StatsOp(o))
<1>1. o.call \in Calls /\ o.task.taskID \in TaskIDs
  BY DEF OpType, Task
<1>2. /\ StatsOf(o.call, o.task) \in Seq(StatNames \X {-1, 1})
      /\ StatsOf(o.call, o.task) # <<>>
  BY <1>1, StatsOfType
<1>. QED  BY <1>1, <1>2 DEF StatsOp, Idle, OpType, OpSound, Writing, PCs, Calls

-----------------------------------------------------------------------------
(* Two shapes of step *)

(* A step of one worker that leaves the entries alone keeps the invariant  *)
(* if the worker's new record is sound and names no new key.               *)
LEMMA LocalStep ==
    ASSUME IInv, NEW w \in Workers, NEW o \in OpType, OpSound(o),
           Writing(o) => KeyInUse(o.key),
           op' = [op EXCEPT ![w] = o], db' = db, used' = used
    PROVE  /\ op' \in [Workers -> OpType]
           /\ \A v \in Workers : OpSound(op'[v])
           /\ KeysUnique'
<1>1. op' \in [Workers -> OpType] /\ op'[w] = o
      /\ \A v \in Workers \ {w} : op'[v] = op[v]
  BY DEF IInv, TypeOK
<1>2. \A v \in Workers : OpSound(op'[v])
  BY <1>1 DEF IInv
<1>3. \A k \in Key : KeyInUse(k)' => KeyInUse(k)
  BY <1>1 DEF KeyInUse
<1>4. KeysUnique'
  BY <1>3 DEF KeysUnique, IInv
<1>. QED  BY <1>1, <1>2, <1>4

(* A step that stores the copy a worker was writing, under the key it was  *)
(* writing to, keeps the invariant whether or not the entry was there.     *)
LEMMA StoreStep ==
    ASSUME IInv, NEW w \in Workers, NEW o \in OpType, OpSound(o), ~Writing(o),
           Writing(op[w]), op' = [op EXCEPT ![w] = o], used' = used,
           db' = Store(op[w].key, op[w].task)
    PROVE  /\ db' \in [DOMAIN db' -> Task] /\ DOMAIN db' \subseteq Key
           /\ TaskRecordsSound'
           /\ \A k \in DOMAIN db' : db'[k].taskID = k.taskID
           /\ op' \in [Workers -> OpType]
           /\ \A v \in Workers : OpSound(op'[v])
           /\ KeysUnique'
<1>1. /\ op[w].key \in Key /\ op[w].task \in Task /\ TaskSound(op[w].task)
      /\ op[w].key.taskID = op[w].task.taskID
  BY DEF IInv, OpSound
<1>2. op' \in [Workers -> OpType] /\ op'[w] = o
      /\ \A v \in Workers \ {w} : op'[v] = op[v]
  BY DEF IInv, TypeOK
<1>3. /\ DOMAIN db' = DOMAIN db \cup {op[w].key}
      /\ \A k \in DOMAIN db' :
           db'[k] = IF k = op[w].key THEN op[w].task ELSE db[k]
      /\ db' = [k \in DOMAIN db' |-> db'[k]]
  BY DEF Store
<1>4. db' \in [DOMAIN db' -> Task] /\ DOMAIN db' \subseteq Key
  <2>1. \A k \in DOMAIN db' : db'[k] \in Task
    BY <1>1, <1>3 DEF IInv, TypeOK
  <2>. QED  BY <1>1, <1>3, <2>1 DEF IInv, TypeOK
<1>5. TaskRecordsSound'
  BY <1>1, <1>3 DEF IInv, TaskRecordsSound, TaskSound
<1>6. \A k \in DOMAIN db' : db'[k].taskID = k.taskID
  BY <1>1, <1>3 DEF IInv
<1>7. \A v \in Workers : OpSound(op'[v])
  BY <1>2 DEF IInv
<1>8. \A k \in Key : KeyInUse(k)' => KeyInUse(k)
  BY <1>2, <1>3 DEF KeyInUse
<1>9. KeysUnique'
  BY <1>8 DEF KeysUnique, IInv
<1>. QED  BY <1>2, <1>4, <1>5, <1>6, <1>7, <1>9

-----------------------------------------------------------------------------
(* The inductive invariant *)

LEMMA InitIInv == Init => IInv
<1>. SUFFICES ASSUME Init PROVE IInv
  OBVIOUS
<1>1. TypeOK
  BY IdleType DEF Init, TypeOK
<1>2. \A w \in Workers : op[w] = Idle
  BY DEF Init
<1>3. KeysUnique
  BY <1>2 DEF Init, KeysUnique, KeyInUse, Writing, Idle
<1>. QED  BY <1>1, <1>2, <1>3, IdleType DEF Init, IInv, TaskRecordsSound

(* Enqueue gives the entry it is about to store an unused identifier.      *)
LEMMA EnqueueIInv ==
    ASSUME IInv, NEW w \in Workers, Enqueue(w)
    PROVE  IInv'
<1>1. PICK p \in Priorities, id \in TaskIDs \ used :
         /\ used' = used \cup {id}
         /\ op' = [op EXCEPT ![w] =
                     [Idle EXCEPT !.pc = "bump", !.call = "Enqueue",
                                  !.key = NewKey(w, p, id),
                                  !.task = NewTask(id)]]
  BY DEF Enqueue
<1>. DEFINE o == [Idle EXCEPT !.pc = "bump", !.call = "Enqueue",
                              !.key = NewKey(w, p, id), !.task = NewTask(id)]
<1>2. NewKey(w, p, id) \in Key /\ NewKey(w, p, id).taskID = id
  BY QueueAssumption DEF NewKey, Key, IInv, TypeOK, QueueAssumption
<1>3. NewTask(id) \in Task /\ TaskSound(NewTask(id)) /\ NewTask(id).taskID = id
  BY TaskHelpers
<1>4. /\ o \in OpType /\ OpSound(o) /\ o.key = NewKey(w, p, id)
  <2>1. /\ o.pc = "bump" /\ o.key = NewKey(w, p, id) /\ o.task = NewTask(id)
    BY DEF Idle
  <2>2. OpSound(o)
    BY <1>2, <1>3, <2>1 DEF OpSound, Writing
  <2>3. o \in OpType
    <3>. DEFINE a == [Idle EXCEPT !.pc = "bump", !.call = "Enqueue"]
    <3>1. a \in OpType
      BY IdleType DEF OpType, PCs, Calls
    <3>2. [a EXCEPT !.key = NewKey(w, p, id), !.task = NewTask(id)] \in OpType
      <4>. HIDE DEF a
      <4>. QED  BY <1>2, <1>3, <3>1 DEF OpType
    <3>. QED  BY <3>2
  <2>. QED  BY <2>1, <2>2, <2>3
<1>5. /\ op' \in [Workers -> OpType] /\ op'[w] = o
      /\ \A v \in Workers \ {w} : op'[v] = op[v]
  BY <1>1, <1>4 DEF IInv, TypeOK
<1>6. db' = db
  BY DEF Enqueue
<1>7. \A k \in Key : KeyInUse(k)' => KeyInUse(k) \/ k = NewKey(w, p, id)
  <2>. HIDE DEF o
  <2>. QED  BY <1>4, <1>5, <1>6 DEF KeyInUse
<1>8. KeysUnique'
  BY <1>1, <1>2, <1>7 DEF KeysUnique, IInv
<1>9. TypeOK'
  BY <1>1, <1>5, <1>6 DEF Enqueue, IInv, TypeOK
<1>10. \A v \in Workers : OpSound(op'[v])
  BY <1>4, <1>5 DEF IInv
<1>. QED  BY <1>6, <1>8, <1>9, <1>10 DEF IInv, TaskRecordsSound

(* The steps that only move a worker along inside its call.                *)
LEMMA MoveIInv ==
    ASSUME IInv, NEW w \in Workers, NEW o \in OpType, OpSound(o),
           Writing(o) => KeyInUse(o.key), op' = [op EXCEPT ![w] = o],
           UNCHANGED <<db, clock, used, crashes>>, errors' \in {errors, errors + 1},
           stats' \in [StatNames -> Nat], counter' \in [Procs -> Nat],
           handed' \in [Workers -> SUBSET TaskIDs]
    PROVE  IInv'
<1>1. /\ op' \in [Workers -> OpType]
      /\ \A v \in Workers : OpSound(op'[v])
      /\ KeysUnique'
  BY LocalStep
<1>2. errors' \in Nat
  BY DEF IInv, TypeOK
<1>. QED  BY <1>1, <1>2 DEF IInv, TypeOK, TaskRecordsSound

(* sequenceCounter++ moves on to the Put, under the key already made.      *)
LEMMA BumpIInv ==
    ASSUME IInv, NEW w \in Workers, BumpSequence(w)
    PROVE  IInv'
<1>. DEFINE o == [op[w] EXCEPT !.pc = "put"]
<1>1. op[w] \in OpType /\ OpSound(op[w]) /\ op[w].pc = "bump"
  BY DEF BumpSequence, IInv, TypeOK
<1>2. o \in OpType /\ OpSound(o) /\ o.key = op[w].key
  BY <1>1 DEF OpType, OpSound, Writing, PCs
<1>3. op' = [op EXCEPT ![w] = o]
  BY DEF BumpSequence, Goto, IInv, TypeOK
<1>4. KeyInUse(o.key)
  BY <1>1, <1>2 DEF KeyInUse, Writing
<1>5. counter' \in [Procs -> Nat]
  <2>1. op[w].key.sequence \in Nat /\ counter[ProcOf[w]] \in Nat
    BY <1>1, QueueAssumption
       DEF OpSound, Writing, Key, IInv, TypeOK, QueueAssumption
  <2>2. PICK n \in {counter[ProcOf[w]], op[w].key.sequence} :
          counter' = [counter EXCEPT ![ProcOf[w]] = n + 1]
    BY DEF BumpSequence
  <2>3. n + 1 \in Nat /\ counter \in [Procs -> Nat]
    BY <2>1 DEF IInv, TypeOK
  <2>. QED  BY <2>2, <2>3
<1>. QED
  <2>. HIDE DEF o
  <2>. QED  BY <1>2, <1>3, <1>4, <1>5, MoveIInv DEF BumpSequence, IInv, TypeOK

(* The three writes of a task, and the same write when it is reported as   *)
(* failed after it was applied.                                            *)
LEMMA WriteIInv ==
    ASSUME IInv, NEW w \in Workers, PutTask(w) \/ UpdateTask(w)
    PROVE  IInv'
<1>1. op[w] \in OpType /\ OpSound(op[w]) /\ Writing(op[w])
  BY DEF PutTask, UpdateTask, IInv, TypeOK, Writing
<1>2. op[w].task \in Task
  BY <1>1 DEF OpSound
<1>3. /\ StatsOp(op[w]) \in OpType /\ OpSound(StatsOp(op[w]))
      /\ ~Writing(StatsOp(op[w]))
  BY <1>1, <1>2, StatsOpType
<1>4. op' = [op EXCEPT ![w] = StatsOp(op[w])]
  BY DEF PutTask, UpdateTask, WriteStats, StatsOp
<1>5. db' = Store(op[w].key, op[w].task) /\ used' = used
  BY DEF PutTask, UpdateTask
<1>6. /\ db' \in [DOMAIN db' -> Task] /\ DOMAIN db' \subseteq Key
      /\ TaskRecordsSound'
      /\ \A k \in DOMAIN db' : db'[k].taskID = k.taskID
      /\ op' \in [Workers -> OpType]
      /\ \A v \in Workers : OpSound(op'[v])
      /\ KeysUnique'
  BY <1>1, <1>3, <1>4, <1>5, StoreStep
<1>. QED  BY <1>6 DEF PutTask, UpdateTask, IInv, TypeOK

(* The beginning of Dequeue and its scan.                                  *)
LEMMA DequeueIInv ==
    ASSUME IInv, NEW w \in Workers,
           Dequeue(w) \/ DequeueScan(w) \/ DequeueNothing(w)
    PROVE  IInv'
<1>1. CASE Dequeue(w)
  <2>. DEFINE o == [Idle EXCEPT !.pc = "scan", !.call = "Dequeue",
                                !.at = clock[ProcOf[w]]]
  <2>1. o \in OpType /\ OpSound(o) /\ ~Writing(o)
    <3>1. clock[ProcOf[w]] \in Nat
      BY QueueAssumption DEF QueueAssumption, IInv, TypeOK
    <3>. DEFINE a == [Idle EXCEPT !.pc = "scan", !.call = "Dequeue"]
    <3>2. a \in OpType /\ a.pc = "scan"
      BY IdleType DEF OpType, PCs, Calls
    <3>3. /\ [a EXCEPT !.at = clock[ProcOf[w]]] \in OpType
          /\ [a EXCEPT !.at = clock[ProcOf[w]]].pc = "scan"
      <4>. HIDE DEF a
      <4>. QED  BY <3>1, <3>2 DEF OpType
    <3>4. o = [a EXCEPT !.at = clock[ProcOf[w]]]
      OBVIOUS
    <3>. QED  BY <3>3, <3>4 DEF OpSound, Writing
  <2>2. op' = [op EXCEPT ![w] = o]
    BY <1>1 DEF Dequeue
  <2>. QED
    <3>. HIDE DEF o
    <3>. QED  BY <1>1, <2>1, <2>2, MoveIInv DEF Dequeue, IInv, TypeOK
<1>2. CASE DequeueScan(w)
  <2>1. PICK k \in FirstOf(Claimable(op[w].at)) :
          op' = [op EXCEPT ![w] =
                   [Idle EXCEPT !.pc = "put", !.call = "Dequeue", !.key = k,
                                !.task = Claimed(db[k], w, op[w].at)]]
    BY <1>2 DEF DequeueScan
  <2>2. k \in DOMAIN db /\ db[k].state = "pending"
    BY <2>1 DEF FirstOf, Claimable, Visible
  <2>3. /\ k \in Key /\ db[k] \in Task /\ TaskSound(db[k])
        /\ db[k].taskID = k.taskID /\ op[w].at \in Nat
    BY <2>2 DEF IInv, TypeOK, TaskRecordsSound, OpType
  <2>. DEFINE c == Claimed(db[k], w, op[w].at)
              o == [Idle EXCEPT !.pc = "put", !.call = "Dequeue", !.key = k,
                                !.task = c]
  <2>4. c \in Task /\ TaskSound(c) /\ c.taskID = k.taskID
    BY <2>2, <2>3, TaskHelpers
  <2>5. o \in OpType /\ OpSound(o) /\ o.key = k
    <3>. HIDE DEF c
    <3>1. o.pc = "put" /\ o.key = k /\ o.task = c
      BY DEF Idle
    <3>2. OpSound(o)
      BY <2>3, <2>4, <3>1 DEF OpSound, Writing
    <3>3. o \in OpType
      <4>. DEFINE a == [Idle EXCEPT !.pc = "put", !.call = "Dequeue"]
      <4>1. a \in OpType
        BY IdleType DEF OpType, PCs, Calls
      <4>2. [a EXCEPT !.key = k, !.task = c] \in OpType
        <5>. HIDE DEF a
        <5>. QED  BY <2>3, <2>4, <4>1 DEF OpType
      <4>. QED  BY <4>2
    <3>. QED  BY <3>1, <3>2, <3>3
  <2>6. KeyInUse(o.key)
    BY <2>2, <2>5 DEF KeyInUse
  <2>7. op' = [op EXCEPT ![w] = o]
    BY <2>1
  <2>. QED
    <3>. HIDE DEF o
    <3>. QED  BY <1>2, <2>5, <2>6, <2>7, MoveIInv DEF DequeueScan, IInv, TypeOK
<1>3. CASE DequeueNothing(w)
  <2>1. ~Writing(Idle)
    BY DEF Idle, Writing
  <2>. QED  BY <1>3, <2>1, IdleType, MoveIInv
            DEF DequeueNothing, Return, IInv, TypeOK
<1>. QED  BY <1>1, <1>2, <1>3

(* Ack and Nack compute their copy from a stored task; a refusal only      *)
(* takes the task off the caller.                                          *)
LEMMA SettleIInv ==
    ASSUME IInv, NEW w \in Workers, NEW id \in TaskIDs,
           Ack(w, id) \/ Nack(w, id) \/ SettleRefused(w, id)
    PROVE  IInv'
<1>1. ASSUME NEW call \in Calls, NEW k \in DOMAIN db, NEW t \in Task,
             TaskSound(t),
             op' = [op EXCEPT ![w] = [Idle EXCEPT !.pc = "locate",
                                                  !.call = call, !.task = t]],
             UNCHANGED <<db, stats, clock, counter, used, handed, errors, crashes>>
      PROVE  IInv'
  <2>. DEFINE o == [Idle EXCEPT !.pc = "locate", !.call = call, !.task = t]
              a == [Idle EXCEPT !.pc = "locate", !.call = call]
  <2>1. a \in OpType /\ a.pc = "locate"
    BY IdleType DEF OpType, PCs
  <2>2. o \in OpType /\ o.pc = "locate" /\ o.task = t
    <3>1. /\ [a EXCEPT !.task = t] \in OpType
          /\ [a EXCEPT !.task = t].pc = "locate"
          /\ [a EXCEPT !.task = t].task = t
      <4>. HIDE DEF a
      <4>. QED  BY <2>1 DEF OpType
    <3>. QED  BY <3>1
  <2>. HIDE DEF o
  <2>3. OpSound(o) /\ ~Writing(o)
    BY <1>1, <2>2 DEF OpSound, Writing
  <2>4. op' = [op EXCEPT ![w] = o]
    BY <1>1 DEF o
  <2>. QED  BY <1>1, <2>2, <2>3, <2>4, MoveIInv DEF IInv, TypeOK
<1>2. \A k \in FirstOf(EntriesOf(id)) :
         k \in DOMAIN db /\ db[k] \in Task /\ TaskSound(db[k])
  BY DEF FirstOf, EntriesOf, Visible, IInv, TypeOK, TaskRecordsSound
<1>3. CASE Ack(w, id)
  <2>1. PICK k \in FirstOf(EntriesOf(id)) :
          /\ Ackable(db[k])
          /\ op' = [op EXCEPT ![w] = [Idle EXCEPT !.pc = "locate", !.call = "Ack",
                                                  !.task = Acked(db[k])]]
    BY <1>3 DEF Ack, Settle
  <2>2. Acked(db[k]) \in Task /\ TaskSound(Acked(db[k])) /\ k \in DOMAIN db
    BY <1>2, <2>1, TaskHelpers
  <2>3. UNCHANGED <<db, stats, clock, counter, used, handed, errors, crashes>>
    BY <1>3 DEF Ack, Settle
  <2>4. "Ack" \in Calls
    BY DEF Calls
  <2>. QED  BY <1>1, <2>1, <2>2, <2>3, <2>4
<1>4. CASE Nack(w, id)
  <2>1. PICK k \in FirstOf(EntriesOf(id)) :
          op' = [op EXCEPT ![w] = [Idle EXCEPT !.pc = "locate", !.call = "Nack",
                                               !.task = Nacked(db[k])]]
    BY <1>4 DEF Nack, Settle
  <2>2. Nacked(db[k]) \in Task /\ TaskSound(Nacked(db[k])) /\ k \in DOMAIN db
    BY <1>2, TaskHelpers
  <2>3. UNCHANGED <<db, stats, clock, counter, used, handed, errors, crashes>>
    BY <1>4 DEF Nack, Settle
  <2>4. "Nack" \in Calls
    BY DEF Calls
  <2>. QED  BY <1>1, <2>1, <2>2, <2>3, <2>4
<1>5. CASE SettleRefused(w, id)
  <2>1. KeysUnique'
    BY <1>5 DEF SettleRefused, IInv, KeysUnique, KeyInUse
  <2>. QED  BY <1>5, <2>1 DEF SettleRefused, IInv, TypeOK, TaskRecordsSound
<1>. QED  BY <1>3, <1>4, <1>5

(* updateTask looks the key up by the identifier in the copy, or finds the *)
(* entry gone and goes on to the counters.                                 *)
LEMMA LocateIInv ==
    ASSUME IInv, NEW w \in Workers, LocateTask(w) \/ LocateBreaks(w)
    PROVE  IInv'
<1>1. /\ op[w] \in OpType /\ op[w].pc = "locate" /\ op[w].task \in Task
      /\ TaskSound(op[w].task)
  BY DEF LocateTask, LocateBreaks, IInv, TypeOK, OpSound
<1>2. CASE WriteStats(w)
  <2>1. /\ StatsOp(op[w]) \in OpType /\ OpSound(StatsOp(op[w]))
        /\ ~Writing(StatsOp(op[w]))
    BY <1>1, StatsOpType
  <2>2. op' = [op EXCEPT ![w] = StatsOp(op[w])]
    BY <1>2 DEF WriteStats, StatsOp
  <2>. QED  BY <2>1, <2>2, MoveIInv DEF LocateTask, LocateBreaks, ScanBreaks, IInv, TypeOK
<1>3. ASSUME LocateTask(w),
             NEW k \in FirstOf(EntriesOf(op[w].task.taskID)),
             op' = [op EXCEPT ![w].pc = "update", ![w].key = k]
      PROVE  IInv'
  <2>1. /\ k \in DOMAIN db /\ k \in Key
        /\ k.taskID = op[w].task.taskID
    BY DEF FirstOf, EntriesOf, Visible, IInv, TypeOK
  <2>. DEFINE o == [op[w] EXCEPT !.pc = "update", !.key = k]
  <2>2. /\ o \in OpType /\ o.pc = "update" /\ o.key = k
        /\ o.task = op[w].task
    BY <1>1, <2>1 DEF OpType, PCs
  <2>3. op' = [op EXCEPT ![w] = o]
    BY <1>3 DEF IInv, TypeOK
  <2>. HIDE DEF o
  <2>4. OpSound(o) /\ KeyInUse(o.key)
    BY <1>1, <2>1, <2>2 DEF OpSound, KeyInUse
  <2>. QED  BY <1>3, <2>2, <2>3, <2>4, MoveIInv DEF LocateTask, IInv, TypeOK
<1>. QED  BY <1>2, <1>3 DEF LocateTask, LocateBreaks

(* The Get of a counter, and one that fails and reads as zero.             *)
LEMMA GetStatIInv ==
    ASSUME IInv, NEW w \in Workers, op[w].pc = "getStat", NEW n \in Nat,
           op' = [op EXCEPT ![w].pc = "putStat", ![w].seen = n],
           UNCHANGED <<db, stats, clock, counter, used, handed, crashes>>,
           errors' \in Nat
    PROVE  IInv'
<1>. DEFINE o == [op[w] EXCEPT !.pc = "putStat", !.seen = n]
<1>1. op[w] \in OpType /\ OpSound(op[w])
  BY DEF IInv, TypeOK
<1>2. /\ o \in OpType /\ o.pc = "putStat" /\ o.todo = op[w].todo
      /\ o.id = op[w].id
  BY <1>1 DEF OpType, PCs
<1>3. op' = [op EXCEPT ![w] = o]
  BY DEF IInv, TypeOK
<1>. HIDE DEF o
<1>4. OpSound(o) /\ ~Writing(o)
  BY <1>1, <1>2 DEF OpSound, Writing
<1>5. /\ op' \in [Workers -> OpType]
      /\ \A v \in Workers : OpSound(op'[v])
      /\ KeysUnique'
  BY <1>2, <1>3, <1>4, LocalStep
<1>. QED  BY <1>5 DEF IInv, TypeOK, TaskRecordsSound

(* Whatever a worker read, what it writes back is a natural number.        *)
LEMMA NewStatType ==
    ASSUME IInv, NEW w \in Workers, op[w].pc = "putStat"
    PROVE  NewStat(w) \in [StatNames -> Nat]
<1>1. /\ op[w].todo \in Seq(StatNames \X {-1, 1}) /\ op[w].todo # <<>>
      /\ op[w].seen \in Nat
  BY DEF IInv, TypeOK, OpType, OpSound
<1>2. Head(op[w].todo) \in StatNames \X {-1, 1}
  BY <1>1
<1>3. Head(op[w].todo)[2] \in {-1, 1}
  BY <1>2
<1>. QED  BY <1>1, <1>3 DEF NewStat, IInv, TypeOK

(* On to the next counter or back to the caller.                           *)
LEMMA NextStatIInv ==
    ASSUME IInv, NEW w \in Workers, op[w].pc = "putStat", NextStat(w),
           UNCHANGED <<db, clock, counter, used, crashes>>,
           stats' \in [StatNames -> Nat], errors' \in Nat
    PROVE  IInv'
<1>1. /\ op[w] \in OpType /\ OpSound(op[w])
      /\ op[w].todo \in Seq(StatNames \X {-1, 1}) /\ op[w].todo # <<>>
      /\ op[w].id \in TaskIDs
  BY DEF IInv, TypeOK, OpType, OpSound
<1>2. handed' \in [Workers -> SUBSET TaskIDs]
  <2>1. handed \in [Workers -> SUBSET TaskIDs]
    BY DEF IInv, TypeOK
  <2>2. HandedAfter(w) \in SUBSET TaskIDs
    <3>1. CASE op[w].call = "Dequeue"
      BY <1>1, <2>1, <3>1 DEF HandedAfter
    <3>2. CASE op[w].call \in {"Ack", "Nack"}
      BY <1>1, <2>1, <3>2 DEF HandedAfter
    <3>3. CASE op[w].call \notin {"Dequeue", "Ack", "Nack"}
      BY <1>1, <2>1, <3>3 DEF HandedAfter
    <3>. QED  BY <3>1, <3>2, <3>3
  <2>. QED  BY <2>1, <2>2 DEF NextStat
<1>3. /\ op' \in [Workers -> OpType]
      /\ \A v \in Workers : OpSound(op'[v])
      /\ KeysUnique'
  <2>1. CASE Len(op[w].todo) = 1
    <3>1. op' = [op EXCEPT ![w] = Idle] /\ ~Writing(Idle)
      BY <2>1 DEF NextStat, Return, Idle, Writing
    <3>. QED  BY <3>1, IdleType, LocalStep
  <2>2. CASE Len(op[w].todo) # 1
    <3>. DEFINE o == [op[w] EXCEPT !.pc = "getStat", !.seen = 0,
                                   !.todo = Tail(op[w].todo)]
    <3>1. /\ Tail(op[w].todo) \in Seq(StatNames \X {-1, 1})
          /\ Tail(op[w].todo) # <<>>
      <4>. DEFINE S == StatNames \X {-1, 1}
                  q == op[w].todo
      <4>1. q \in Seq(S) /\ q # <<>> /\ Len(q) # 1
        BY <1>1, <2>2
      <4>. HIDE DEF S, q
      <4>2. Len(q) \in Nat /\ Len(q) # 0
        BY <4>1, EmptySeq
      <4>3. Tail(q) \in Seq(S) /\ Len(Tail(q)) = Len(q) - 1
        BY <4>1
      <4>4. Tail(q) # <<>>
        <5>1. Len(Tail(q)) # 0
          BY <4>1, <4>2, <4>3
        <5>2. Len(<<>>) = 0
          OBVIOUS
        <5>. QED  BY <5>1, <5>2, Zenon
      <4>. QED  BY <4>3, <4>4 DEF S, q
    <3>2. /\ o \in OpType /\ o.pc = "getStat" /\ o.id = op[w].id
          /\ o.todo = Tail(op[w].todo)
      BY <1>1, <3>1 DEF OpType, PCs
    <3>3. op' = [op EXCEPT ![w] = o]
      BY <2>2 DEF NextStat, IInv, TypeOK
    <3>. HIDE DEF o
    <3>4. OpSound(o) /\ ~Writing(o)
      BY <1>1, <3>1, <3>2 DEF OpSound, Writing
    <3>. QED  BY <3>2, <3>3, <3>4, LocalStep
  <2>. QED  BY <2>1, <2>2
<1>. QED  BY <1>2, <1>3 DEF IInv, TypeOK, TaskRecordsSound

(* A worker that returns drops everything it was going to write.           *)
LEMMA ReturnIInv ==
    ASSUME IInv, NEW w \in Workers, Return(w),
           UNCHANGED <<db, stats, clock, counter, used, handed, crashes>>,
           errors' \in Nat
    PROVE  IInv'
<1>1. op' = [op EXCEPT ![w] = Idle] /\ ~Writing(Idle)
  BY DEF Return, Idle, Writing
<1>2. /\ op' \in [Workers -> OpType]
      /\ \A v \in Workers : OpSound(op'[v])
      /\ KeysUnique'
  BY <1>1, IdleType, LocalStep
<1>. QED  BY <1>2 DEF IInv, TypeOK, TaskRecordsSound

(* Purge, its deletes, and those that fail.                                *)
LEMMA PurgeIInv ==
    ASSUME IInv, NEW w \in Workers,
           Purge(w) \/ PurgeBreaks(w) \/ PurgeDelete(w) \/ DeleteFails(w)
    PROVE  IInv'
<1>1. ASSUME NEW doomed \in SUBSET Key, PurgeWhat(w, doomed),
             UNCHANGED <<db, stats, clock, counter, used, handed, crashes>>,
             errors' \in {errors, errors + 1}
      PROVE  IInv'
  <2>. DEFINE a == [Idle EXCEPT !.pc = "delete", !.call = "Purge"]
              o == [Idle EXCEPT !.pc = "delete", !.call = "Purge",
                                !.doomed = doomed]
  <2>1. a \in OpType /\ a.pc = "delete"
    BY IdleType DEF OpType, PCs, Calls
  <2>2. o \in OpType /\ o.pc = "delete"
    <3>1. /\ [a EXCEPT !.doomed = doomed] \in OpType
          /\ [a EXCEPT !.doomed = doomed].pc = "delete"
      <4>. HIDE DEF a
      <4>. QED  BY <1>1, <2>1 DEF OpType
    <3>. QED  BY <3>1
  <2>3. op' = [op EXCEPT ![w] = o]
    BY <1>1 DEF PurgeWhat
  <2>. HIDE DEF o
  <2>4. OpSound(o) /\ ~Writing(o)
    BY <2>2 DEF OpSound, Writing
  <2>. QED  BY <1>1, <2>2, <2>3, <2>4, MoveIInv DEF IInv, TypeOK
<1>2. CASE Purge(w)
  <2>1. {k \in Visible : Terminal(db[k])} \in SUBSET Key
    BY DEF Visible, IInv, TypeOK
  <2>. QED  BY <1>1, <1>2, <2>1 DEF Purge
<1>3. CASE PurgeBreaks(w)
  <2>1. PICK read \in SUBSET Visible : PurgeWhat(w, {k \in read : Terminal(db[k])})
    BY <1>3 DEF PurgeBreaks
  <2>2. {k \in read : Terminal(db[k])} \in SUBSET Key
    BY DEF Visible, IInv, TypeOK
  <2>. QED  BY <1>1, <1>3, <2>1, <2>2 DEF PurgeBreaks, ScanBreaks
<1>4. ASSUME NEW k, AfterDelete(w, k), op[w].pc = "delete"
      PROVE  /\ op' \in [Workers -> OpType]
             /\ \A v \in Workers : OpSound(op'[v])
             /\ \A v \in Workers :
                  Writing(op'[v]) => Writing(op[v]) /\ op'[v].key = op[v].key
  <2>1. op \in [Workers -> OpType] /\ \A v \in Workers : OpSound(op[v])
    BY DEF IInv, TypeOK
  <2>2. CASE op[w].doomed = {k}
    <3>1. op' = [op EXCEPT ![w] = Idle] /\ ~Writing(Idle)
      BY <1>4, <2>2 DEF AfterDelete, Return, Idle, Writing
    <3>. QED  BY <2>1, <3>1, IdleType
  <2>3. CASE op[w].doomed # {k}
    <3>. DEFINE o == [op[w] EXCEPT !.doomed = op[w].doomed \ {k}]
    <3>1. op' = [op EXCEPT ![w] = o]
      BY <1>4, <2>1, <2>3 DEF AfterDelete
    <3>2. o \in OpType /\ o.pc = "delete"
      <4>1. op[w] \in OpType /\ op[w].pc = "delete"
        BY <1>4, <2>1
      <4>2. op[w].doomed \ {k} \subseteq Key
        BY <4>1 DEF OpType
      <4>. QED  BY <4>1, <4>2 DEF OpType
    <3>. HIDE DEF o
    <3>3. OpSound(o) /\ ~Writing(o)
      BY <3>2 DEF OpSound, Writing
    <3>. QED  BY <2>1, <3>1, <3>2, <3>3
  <2>. QED  BY <2>2, <2>3
<1>5. CASE PurgeDelete(w)
  <2>1. PICK k \in FirstOf(op[w].doomed) : db' = Erase(k) /\ AfterDelete(w, k)
    BY <1>5 DEF PurgeDelete
  <2>2. /\ op' \in [Workers -> OpType]
        /\ \A v \in Workers : OpSound(op'[v])
        /\ \A v \in Workers :
             Writing(op'[v]) => Writing(op[v]) /\ op'[v].key = op[v].key
    BY <1>4, <1>5, <2>1 DEF PurgeDelete
  <2>3. /\ DOMAIN db' = DOMAIN db \ {k}
        /\ \A j \in DOMAIN db' : db'[j] = db[j]
        /\ db' = [j \in DOMAIN db' |-> db'[j]]
    BY <2>1 DEF Erase
  <2>4. db' \in [DOMAIN db' -> Task] /\ DOMAIN db' \subseteq Key
    BY <2>3 DEF IInv, TypeOK
  <2>5. \A j \in Key : KeyInUse(j)' => KeyInUse(j)
    BY <2>2, <2>3 DEF KeyInUse
  <2>6. KeysUnique'
    BY <1>5, <2>5 DEF PurgeDelete, KeysUnique, IInv
  <2>7. TaskRecordsSound' /\ \A j \in DOMAIN db' : db'[j].taskID = j.taskID
    BY <2>3 DEF IInv, TaskRecordsSound
  <2>. QED  BY <1>5, <2>2, <2>4, <2>6, <2>7 DEF PurgeDelete, IInv, TypeOK
<1>6. CASE DeleteFails(w)
  <2>1. PICK k \in FirstOf(op[w].doomed) : AfterDelete(w, k)
    BY <1>6 DEF DeleteFails
  <2>2. /\ op' \in [Workers -> OpType]
        /\ \A v \in Workers : OpSound(op'[v])
        /\ \A v \in Workers :
             Writing(op'[v]) => Writing(op[v]) /\ op'[v].key = op[v].key
    BY <1>4, <1>6, <2>1 DEF DeleteFails
  <2>3. db' = db /\ used' = used
    BY <1>6 DEF DeleteFails
  <2>4. \A j \in Key : KeyInUse(j)' => KeyInUse(j)
    BY <2>2, <2>3 DEF KeyInUse
  <2>5. KeysUnique'
    BY <2>3, <2>4 DEF KeysUnique, IInv
  <2>. QED  BY <1>6, <2>2, <2>5 DEF DeleteFails, IInv, TypeOK, TaskRecordsSound
<1>. QED  BY <1>5, <1>6, <1>2, <1>3

(* A failed request ends the call, and may have stored the copy.           *)
LEMMA RequestFailsIInv ==
    ASSUME IInv, NEW w \in Workers, RequestFails(w)
    PROVE  IInv'
<1>1. errors' \in Nat /\ op' = [op EXCEPT ![w] = Idle] /\ ~Writing(Idle)
  BY DEF RequestFails, Return, IInv, TypeOK, Idle, Writing
<1>2. CASE db' = db
  BY <1>1, <1>2, ReturnIInv DEF RequestFails
<1>3. CASE Writing(op[w]) /\ db' = Store(op[w].key, op[w].task)
  <2>1. used' = used
    BY DEF RequestFails
  <2>2. /\ db' \in [DOMAIN db' -> Task] /\ DOMAIN db' \subseteq Key
        /\ TaskRecordsSound'
        /\ \A k \in DOMAIN db' : db'[k].taskID = k.taskID
        /\ op' \in [Workers -> OpType]
        /\ \A v \in Workers : OpSound(op'[v])
        /\ KeysUnique'
    BY <1>1, <1>3, <2>1, IdleType, StoreStep
  <2>. QED  BY <1>1, <2>2 DEF RequestFails, IInv, TypeOK
<1>. QED  BY <1>2, <1>3 DEF RequestFails, Writing

(* A crash keeps what is stored and forgets what was about to be.          *)
LEMMA CrashIInv ==
    ASSUME IInv, NEW p \in Procs, Crash(p)
    PROVE  IInv'
<1>1. /\ op' \in [Workers -> OpType]
      /\ \A v \in Workers : op'[v] = Idle \/ op'[v] = op[v]
  BY IdleType DEF Crash, IInv, TypeOK
<1>2. \A v \in Workers : OpSound(op'[v])
  BY <1>1, IdleType DEF IInv
<1>3. db' = db /\ used' = used
  BY DEF Crash
<1>4. \A k \in Key : KeyInUse(k)' => KeyInUse(k)
  <2>1. ~Writing(Idle)
    BY DEF Idle, Writing
  <2>. QED  BY <1>1, <1>3, <2>1 DEF KeyInUse
<1>5. KeysUnique'
  BY <1>3, <1>4 DEF KeysUnique, IInv
<1>6. /\ handed' \in [Workers -> SUBSET TaskIDs]
      /\ counter' \in [Procs -> Nat] /\ crashes' \in Nat
  BY DEF Crash, IInv, TypeOK
<1>. QED  BY <1>1, <1>2, <1>5, <1>6 DEF Crash, IInv, TypeOK, TaskRecordsSound

LEMMA NextIInv == IInv /\ [Next]_vars => IInv'
<1>. SUFFICES ASSUME IInv, [Next]_vars PROVE IInv'
  OBVIOUS
<1>1. ASSUME NEW w \in Workers, Begin(w)
      PROVE  IInv'
  BY <1>1, EnqueueIInv, DequeueIInv, SettleIInv, PurgeIInv
     DEF Begin, SettleAny
<1>2. ASSUME NEW w \in Workers, Step(w)
      PROVE  IInv'
  <2>1. CASE GetStat(w)
    <3>1. /\ stats[Head(op[w].todo)[1]] \in Nat /\ errors' \in Nat
      <4>1. op[w].todo \in Seq(StatNames \X {-1, 1}) /\ op[w].todo # <<>>
        BY <2>1 DEF GetStat, IInv, TypeOK, OpType, OpSound
      <4>2. Head(op[w].todo) \in StatNames \X {-1, 1}
        BY <4>1
      <4>3. Head(op[w].todo)[1] \in StatNames
        BY <4>2
      <4>. QED  BY <2>1, <4>3 DEF GetStat, IInv, TypeOK
    <3>. QED  BY <2>1, <3>1, GetStatIInv DEF GetStat
  <2>2. CASE PutStat(w)
    BY <2>2, NewStatType, NextStatIInv DEF PutStat, IInv, TypeOK
  <2>. QED  BY <1>2, <2>1, <2>2, BumpIInv, WriteIInv, DequeueIInv,
               LocateIInv, PurgeIInv DEF Step
<1>3. ASSUME NEW w \in Workers, StatFails(w)
      PROVE  IInv'
  <2>1. errors' \in Nat /\ stats' \in [StatNames -> Nat]
    BY <1>3 DEF StatFails, IInv, TypeOK
  <2>2. CASE op[w].pc = "getStat"
    BY <1>3, <2>1, <2>2, GetStatIInv DEF StatFails
  <2>3. CASE op[w].pc = "putStat"
    BY <1>3, <2>1, <2>3, NextStatIInv DEF StatFails
  <2>. QED  BY <1>3, <2>2, <2>3 DEF StatFails
<1>4. ASSUME NEW w \in Workers, Fail(w)
      PROVE  IInv'
  <2>1. CASE SettleBreaks(w)
    <3>1. KeysUnique' /\ errors' \in Nat
      BY <2>1 DEF SettleBreaks, ScanBreaks, IInv, TypeOK, KeysUnique, KeyInUse
    <3>. QED  BY <2>1, <3>1 DEF SettleBreaks, IInv, TypeOK, TaskRecordsSound
  <2>. QED  BY <1>3, <1>4, <2>1, RequestFailsIInv, LocateIInv, PurgeIInv DEF Fail
<1>5. ASSUME NEW p \in Procs, Tick(p)
      PROVE  IInv'
  <2>1. clock' \in [Procs -> Nat]
    BY <1>5 DEF Tick, IInv, TypeOK
  <2>2. KeysUnique'
    BY <1>5 DEF Tick, IInv, KeysUnique, KeyInUse
  <2>. QED  BY <1>5, <2>1, <2>2 DEF Tick, IInv, TypeOK, TaskRecordsSound
<1>6. CASE UNCHANGED vars
  <2>1. KeysUnique'
    BY <1>6 DEF vars, IInv, KeysUnique, KeyInUse
  <2>. QED  BY <1>6, <2>1 DEF vars, IInv, TypeOK, TaskRecordsSound
<1>. QED  BY <1>1, <1>2, <1>4, <1>5, <1>6, CrashIInv DEF Next

(* Every reachable state of the queue satisfies the inductive invariant.   *)
THEOREM InductiveInvariant == Spec => []IInv
BY InitIInv, NextIInv, PTL DEF Spec

(* No counter is ever stored below zero and no variable leaves its type,   *)
(* whatever the interleaving of Gets and Puts (queue.go:754, 765).         *)
THEOREM TypeCorrect == Spec => []TypeOK
<1>1. IInv => TypeOK
  BY DEF IInv
<1>. QED  BY <1>1, InductiveInvariant, PTL

(* Racing Dequeue, Ack, Nack and Purge never store a task whose state,     *)
(* claimant and retries disagree (queue.go:321, 479, 504).                 *)
THEOREM RecordsStaySound == Spec => []TaskRecordsSound
<1>1. IInv => TaskRecordsSound
  BY DEF IInv
<1>. QED  BY <1>1, InductiveInvariant, PTL

(* The two scans of an update never split a task over two keys or store it *)
(* under another task's key (queue.go:674).                                *)
THEOREM KeysStayUnique == Spec => []OneKeyPerTask
<1>1. IInv => OneKeyPerTask
  BY DEF IInv, TypeOK, OneKeyPerTask, KeysUnique, KeyInUse
<1>. QED  BY <1>1, InductiveInvariant, PTL

-----------------------------------------------------------------------------
(* The total of the tasks created.  What a Get read is never more than the *)
(* tasks counted by then, and each Put counts one that was not, whatever    *)
(* was lost before.                                                         *)

Counting(o) == o.pc \in {"getStat", "putStat"}

CountsTask(o) == Counting(o) /\ Head(o.todo)[1] = "totalEnqueued"

(* The new identifiers of a call that totalEnqueued does not count yet. *)
Uncounted(o) ==
    IF o.pc \in {"bump", "put"} /\ o.call = "Enqueue" THEN {o.task.taskID}
    ELSE IF CountsTask(o) THEN {o.id} ELSE {}

UncountedIDs == UNION {Uncounted(op[w]) : w \in Workers}

Counted == used \ UncountedIDs

(* A call counts a new task once, and only Enqueue does. *)
CountsOnce(o) ==
    /\ o.pc \in {"locate", "update"} => o.call # "Enqueue"
    /\ Counting(o) => \A i \in 2..Len(o.todo) : o.todo[i][1] # "totalEnqueued"

CountsInv ==
    /\ IsFiniteSet(used)
    /\ \A w \in Workers : Uncounted(op[w]) \subseteq used /\ CountsOnce(op[w])
    /\ \A v, w \in Workers : v # w => Uncounted(op[v]) \cap Uncounted(op[w]) = {}
    /\ stats["totalEnqueued"] <= Cardinality(Counted)
    /\ \A w \in Workers : op[w].pc = "putStat" /\ CountsTask(op[w])
         => op[w].seen <= Cardinality(Counted)

LEMMA IdleCounts == CountsOnce(Idle) /\ Uncounted(Idle) = {} /\ ~CountsTask(Idle)
BY DEF CountsOnce, Uncounted, CountsTask, Counting, Idle

LEMMA TodoCountsOnce ==
    \A call \in Calls, t \in Task :
      /\ Head(StatsOf(call, t))[1] = "totalEnqueued" <=> call = "Enqueue"
      /\ \A i \in 2..Len(StatsOf(call, t)) : StatsOf(call, t)[i][1] # "totalEnqueued"
<1>. SUFFICES ASSUME NEW call \in Calls, NEW t \in Task
              PROVE  /\ Head(StatsOf(call, t))[1] = "totalEnqueued" <=> call = "Enqueue"
                     /\ \A i \in 2..Len(StatsOf(call, t)) :
                          StatsOf(call, t)[i][1] # "totalEnqueued"
  OBVIOUS
<1>1. CASE call = "Enqueue"
  BY <1>1 DEF StatsOf
<1>2. CASE call = "Dequeue"
  BY <1>2 DEF StatsOf
<1>3. CASE call = "Ack"
  BY <1>3 DEF StatsOf
<1>4. CASE call \notin {"Enqueue", "Dequeue", "Ack"}
  <2>1. PICK last : StatsOf(call, t) = << <<"claimed", -1>>, last >>
                    /\ last[1] # "totalEnqueued"
    <3>1. StatsOf(call, t) = << <<"claimed", -1>>,
            IF t.state = "dead_lettered" THEN <<"deadLettered", 1>> ELSE <<"pending", 1>> >>
      BY <1>4 DEF StatsOf
    <3>. QED  BY <3>1
  <2>. QED  BY <1>4, <2>1
<1>. QED  BY <1>1, <1>2, <1>3, <1>4

LEMMA CountedFinite ==
    ASSUME CountsInv
    PROVE  IsFiniteSet(Counted) /\ Cardinality(Counted) \in Nat
BY FS_Subset, FS_CardinalityType DEF CountsInv, Counted

(* More identifiers are counted, or as many. *)
LEMMA CountedGrows ==
    ASSUME CountsInv, used \subseteq used', IsFiniteSet(used'), UncountedIDs' \cap used \subseteq UncountedIDs
    PROVE  Cardinality(Counted) <= Cardinality(Counted') /\ Cardinality(Counted') \in Nat
<1>1. Counted \subseteq Counted' /\ Counted' \subseteq used'
  BY DEF Counted
<1>. QED  BY <1>1, FS_Subset, FS_CardinalityType

(* A step of one worker that begins no task and writes no total. *)
LEMMA LocalCounts ==
    ASSUME IInv, CountsInv, NEW w \in Workers, NEW o, op' = [op EXCEPT ![w] = o],
           used' = used, stats'["totalEnqueued"] = stats["totalEnqueued"],
           Uncounted(o) \subseteq Uncounted(op[w]), CountsOnce(o),
           o.pc = "putStat" /\ CountsTask(o) => o.seen <= Cardinality(Counted) /\ o.seen \in Nat
    PROVE  CountsInv'
<1>1. op'[w] = o /\ \A v \in Workers \ {w} : op'[v] = op[v]
  BY DEF IInv, TypeOK
<1>2. \A v \in Workers : Uncounted(op'[v]) \subseteq Uncounted(op[v]) /\ CountsOnce(op'[v])
  BY <1>1 DEF CountsInv
<1>3. Cardinality(Counted) <= Cardinality(Counted') /\ Cardinality(Counted') \in Nat
  <2>1. UncountedIDs' \subseteq UncountedIDs
    BY <1>2 DEF UncountedIDs
  <2>2. used \subseteq used' /\ IsFiniteSet(used')
    BY DEF CountsInv
  <2>. QED  BY <2>1, <2>2, CountedGrows
<1>4. Cardinality(Counted) \in Nat
  BY CountedFinite
<1>5. stats'["totalEnqueued"] <= Cardinality(Counted')
  BY <1>3, <1>4 DEF CountsInv, IInv, TypeOK, StatNames
<1>6. ASSUME NEW v \in Workers, op'[v].pc = "putStat", CountsTask(op'[v])
      PROVE  op'[v].seen <= Cardinality(Counted')
  <2>1. op'[v].seen <= Cardinality(Counted) /\ op'[v].seen \in Nat
    BY <1>1, <1>6 DEF CountsInv, IInv, TypeOK, OpType
  <2>. QED  BY <1>3, <1>4, <2>1
<1>. QED  BY <1>2, <1>5, <1>6 DEF CountsInv

LEMMA EnqueueCounts ==
    ASSUME IInv, CountsInv, NEW w \in Workers, Enqueue(w)
    PROVE  CountsInv'
<1>1. PICK o, id :
        /\ id \in TaskIDs \ used
        /\ o.pc = "bump" /\ o.call = "Enqueue" /\ o.task.taskID = id
        /\ op' = [op EXCEPT ![w] = o]
        /\ used' = used \cup {id}
  <2>1. PICK p \in Priorities, id \in TaskIDs \ used :
          /\ used' = used \cup {id}
          /\ op' = [op EXCEPT ![w] =
                      [Idle EXCEPT !.pc = "bump", !.call = "Enqueue",
                                   !.key = NewKey(w, p, id),
                                   !.task = NewTask(id)]]
    BY DEF Enqueue
  <2>2. PICK o : o = [Idle EXCEPT !.pc = "bump", !.call = "Enqueue",
                                  !.key = NewKey(w, p, id),
                                  !.task = NewTask(id)]
    OBVIOUS
  <2>3. o.pc = "bump" /\ o.call = "Enqueue" /\ o.task = NewTask(id)
    BY <2>2 DEF Idle
  <2>4. NewTask(id).taskID = id
    BY DEF NewTask
  <2>5. op' = [op EXCEPT ![w] = o]
    BY <2>1, <2>2
  <2>. QED  BY <2>1, <2>3, <2>4, <2>5
<1>2. /\ op'[w] = o /\ \A v \in Workers \ {w} : op'[v] = op[v]
      /\ op[w].pc = "idle" /\ stats' = stats
  BY <1>1 DEF IInv, TypeOK, Enqueue, MayStart
<1>3. Uncounted(o) = {id} /\ CountsOnce(o) /\ ~CountsTask(o) /\ Uncounted(op[w]) = {}
  BY <1>1, <1>2 DEF Uncounted, CountsOnce, CountsTask, Counting
<1>4. Counted' = Counted
  <2>1. UncountedIDs' = UncountedIDs \cup {id}
    BY <1>2, <1>3 DEF UncountedIDs
  <2>. QED  BY <1>1, <2>1 DEF Counted
<1>5. IsFiniteSet(used')
  BY <1>1, FS_AddElement DEF CountsInv
<1>6. \A v \in Workers : Uncounted(op'[v]) \subseteq used' /\ CountsOnce(op'[v])
  BY <1>1, <1>2, <1>3 DEF CountsInv
<1>7. \A u, v \in Workers : u # v => Uncounted(op'[u]) \cap Uncounted(op'[v]) = {}
  <2>1. \A v \in Workers \ {w} : id \notin Uncounted(op'[v])
    BY <1>1, <1>2 DEF CountsInv
  <2>. QED  BY <1>2, <1>3, <2>1 DEF CountsInv
<1>8. \A v \in Workers : op'[v].pc = "putStat" /\ CountsTask(op'[v])
        => op'[v].seen <= Cardinality(Counted')
  BY <1>2, <1>3, <1>4 DEF CountsInv
<1>. QED  BY <1>2, <1>4, <1>5, <1>6, <1>7, <1>8 DEF CountsInv

(* The record of a worker after its last counter, or before its next. *)
LEMMA NextStatOp ==
    ASSUME IInv, CountsInv, NEW w \in Workers, op[w].pc = "putStat", NextStat(w)
    PROVE  \E o : /\ op' = [op EXCEPT ![w] = o]
                  /\ CountsOnce(o) /\ ~CountsTask(o) /\ Uncounted(o) = {}
<1>1. CASE Len(op[w].todo) = 1
  <2>1. op' = [op EXCEPT ![w] = Idle]
    BY <1>1 DEF NextStat, Return
  <2>. QED  BY <2>1, IdleCounts
<1>2. CASE Len(op[w].todo) # 1
  <2>. DEFINE S == StatNames \X {-1, 1}
  <2>1. PICK q \in Seq(S) : q = op[w].todo /\ q # <<>> /\ Len(q) # 1
    BY <1>2 DEF IInv, TypeOK, OpType, OpSound
  <2>2. PICK o : /\ o = [op[w] EXCEPT !.pc = "getStat", !.seen = 0, !.todo = Tail(op[w].todo)]
                 /\ op' = [op EXCEPT ![w] = o]
    BY <1>2 DEF NextStat, IInv, TypeOK
  <2>3. o.pc = "getStat" /\ o.todo = Tail(q)
    <3>1. op[w] \in OpType
      BY DEF IInv, TypeOK
    <3>. QED  BY <2>1, <2>2, <3>1 DEF OpType
  <2>4. \A i \in 2..Len(q) : q[i][1] # "totalEnqueued"
    BY <2>1 DEF CountsInv, CountsOnce, Counting
  <2>. HIDE DEF S
  <2>5. Len(q) \in Nat /\ Len(q) >= 2
    <3>1. Len(q) \in Nat /\ Len(q) # 0
      BY <2>1, EmptySeq
    <3>2. \A n \in Nat : n # 0 /\ n # 1 => n >= 2
      OBVIOUS
    <3>. QED  BY <2>1, <3>1, <3>2
  <2>6. /\ Tail(q) \in Seq(S) /\ Len(Tail(q)) = Len(q) - 1
        /\ \A i \in 1..Len(Tail(q)) : Tail(q)[i] = q[i + 1]
    BY <2>1, <2>5
  <2>7. Head(Tail(q)) = q[2]
    BY <2>5, <2>6
  <2>8. CountsOnce(o)
    <3>1. ASSUME NEW i \in 2..Len(Tail(q)) PROVE Tail(q)[i][1] # "totalEnqueued"
      <4>1. i + 1 \in 2..Len(q) /\ Tail(q)[i] = q[i + 1]
        BY <2>5, <2>6
      <4>. QED  BY <2>4, <4>1
    <3>. QED  BY <2>3, <3>1 DEF CountsOnce
  <2>9. ~CountsTask(o)
    BY <2>3, <2>4, <2>5, <2>7 DEF CountsTask
  <2>. QED  BY <2>2, <2>3, <2>8, <2>9 DEF Uncounted
<1>. QED  BY <1>1, <1>2

LEMMA PutStatCounts ==
    ASSUME IInv, CountsInv, NEW w \in Workers, PutStat(w)
    PROVE  CountsInv'
<1>1. PICK o : /\ op' = [op EXCEPT ![w] = o]
               /\ CountsOnce(o) /\ ~CountsTask(o) /\ Uncounted(o) = {}
  BY NextStatOp DEF PutStat
<1>2. /\ stats' = NewStat(w) /\ used' = used /\ op[w].pc = "putStat"
      /\ op[w].seen \in Nat /\ stats \in [StatNames -> Nat]
  BY DEF PutStat, IInv, TypeOK, OpType
<1>3. CASE ~CountsTask(op[w])
  <2>1. stats'["totalEnqueued"] = stats["totalEnqueued"]
    BY <1>2, <1>3 DEF NewStat, CountsTask, Counting, StatNames
  <2>. QED  BY <1>1, <1>2, <2>1, LocalCounts
<1>4. CASE CountsTask(op[w])
  <2>1. op'[w] = o /\ \A v \in Workers \ {w} : op'[v] = op[v]
    BY <1>1 DEF IInv, TypeOK
  <2>2. PICK id \in used : Uncounted(op[w]) = {id}
    BY <1>2, <1>4 DEF Uncounted, CountsInv
  <2>3. \A v \in Workers \ {w} : id \notin Uncounted(op[v])
    BY <2>2 DEF CountsInv
  <2>4. Counted' = Counted \cup {id} /\ id \notin Counted
    <3>1. UncountedIDs' = UncountedIDs \ {id} /\ id \in UncountedIDs
      BY <1>1, <2>1, <2>2, <2>3 DEF UncountedIDs
    <3>. QED  BY <1>2, <3>1 DEF Counted
  <2>5. PICK n \in Nat : n = Cardinality(Counted) /\ Cardinality(Counted') = n + 1
    BY <2>4, CountedFinite, FS_AddElement
  <2>6. op[w].seen <= n
    BY <1>2, <1>4, <2>5 DEF CountsInv
  <2>7. stats'["totalEnqueued"] <= n + 1
    <3>1. Head(op[w].todo) \in StatNames \X {-1, 1}
      <4>1. op[w].todo \in Seq(StatNames \X {-1, 1}) /\ op[w].todo # <<>>
        BY <1>2 DEF IInv, TypeOK, OpType, OpSound
      <4>. QED  BY <4>1
    <3>2. PICK d \in {-1, 1} : d = Head(op[w].todo)[2]
      BY <3>1
    <3>3. Head(op[w].todo)[1] = "totalEnqueued"
      BY <1>4 DEF CountsTask
    <3>4. NewStat(w) = IF d < 0 /\ op[w].seen = 0 THEN stats
                       ELSE [stats EXCEPT !["totalEnqueued"] = op[w].seen + d]
      BY <3>2, <3>3 DEF NewStat
    <3>5. stats["totalEnqueued"] \in Nat /\ stats["totalEnqueued"] <= n
      BY <1>2, <2>5 DEF CountsInv, StatNames
    <3>. QED  BY <1>2, <2>6, <3>2, <3>4, <3>5 DEF StatNames
  <2>8. \A v \in Workers : Uncounted(op'[v]) \subseteq used' /\ CountsOnce(op'[v])
    BY <1>1, <1>2, <2>1 DEF CountsInv
  <2>9. \A u, v \in Workers : u # v => Uncounted(op'[u]) \cap Uncounted(op'[v]) = {}
    BY <1>1, <2>1 DEF CountsInv
  <2>10. ASSUME NEW v \in Workers, op'[v].pc = "putStat", CountsTask(op'[v])
         PROVE  op'[v].seen <= Cardinality(Counted')
    <3>1. v # w /\ op'[v] = op[v]
      BY <1>1, <2>1, <2>10
    <3>2. op[v].seen <= n /\ op[v].seen \in Nat
      BY <2>5, <2>10, <3>1 DEF CountsInv, IInv, TypeOK, OpType
    <3>. QED  BY <2>5, <3>1, <3>2
  <2>. QED  BY <1>2, <2>5, <2>7, <2>8, <2>9, <2>10 DEF CountsInv
<1>. QED  BY <1>3, <1>4

(* The write of a task leads to its counters. *)
LEMMA WriteCounts ==
    ASSUME IInv, CountsInv, NEW w \in Workers, op[w].pc \in {"put", "update", "locate"},
           WriteStats(w), UNCHANGED <<used, stats>>
    PROVE  CountsInv'
<1>. DEFINE o == StatsOp(op[w])
<1>1. op' = [op EXCEPT ![w] = o]
  BY DEF WriteStats, StatsOp
<1>2. op[w].call \in Calls /\ op[w].task \in Task
  BY DEF IInv, TypeOK, OpType, OpSound, Writing
<1>3. o.pc = "getStat" /\ o.id = op[w].task.taskID /\ o.todo = StatsOf(op[w].call, op[w].task)
  BY DEF StatsOp, Idle
<1>. HIDE DEF o
<1>4. CountsOnce(o) /\ (CountsTask(o) => op[w].call = "Enqueue")
  BY <1>2, <1>3, TodoCountsOnce DEF CountsOnce, CountsTask
<1>5. Uncounted(o) \subseteq Uncounted(op[w])
  BY <1>3, <1>4 DEF Uncounted, CountsInv, CountsOnce
<1>. QED  BY <1>1, <1>3, <1>4, <1>5, LocalCounts

LEMMA GetStatCounts ==
    ASSUME IInv, CountsInv, NEW w \in Workers, op[w].pc = "getStat", NEW n \in Nat,
           n \in {0, stats[Head(op[w].todo)[1]]},
           op' = [op EXCEPT ![w].pc = "putStat", ![w].seen = n],
           UNCHANGED <<used, stats>>
    PROVE  CountsInv'
<1>1. PICK o : /\ o = [op[w] EXCEPT !.pc = "putStat", !.seen = n]
               /\ op' = [op EXCEPT ![w] = o]
  BY DEF IInv, TypeOK
<1>2. o.pc = "putStat" /\ o.seen = n /\ o.todo = op[w].todo /\ o.id = op[w].id
  BY <1>1 DEF IInv, TypeOK, OpType
<1>3. CountsOnce(o) /\ Uncounted(o) = Uncounted(op[w])
  BY <1>2 DEF CountsOnce, CountsInv, Counting, Uncounted, CountsTask
<1>4. CountsTask(o) => o.seen <= Cardinality(Counted)
  <2>1. Cardinality(Counted) \in Nat /\ stats["totalEnqueued"] <= Cardinality(Counted)
    BY CountedFinite DEF CountsInv
  <2>2. CountsTask(o) => n \in {0, stats["totalEnqueued"]}
    BY <1>2 DEF CountsTask
  <2>. QED  BY <1>2, <2>1, <2>2
<1>. QED  BY <1>1, <1>2, <1>3, <1>4, LocalCounts

(* Calls that begin, move on to a request that is no count, or return. *)
LEMMA MoveCounts ==
    ASSUME IInv, CountsInv, NEW w \in Workers, NEW o, op' = [op EXCEPT ![w] = o],
           UNCHANGED <<used, stats>>, ~Counting(o),
           o.pc \in {"bump", "put"} /\ o.call = "Enqueue" =>
             op[w].pc \in {"bump", "put"} /\ op[w].call = "Enqueue" /\ o.task = op[w].task,
           o.pc \in {"locate", "update"} => o.call # "Enqueue"
    PROVE  CountsInv'
<1>1. CountsOnce(o) /\ ~CountsTask(o) /\ Uncounted(o) \subseteq Uncounted(op[w])
  BY DEF CountsOnce, CountsTask, Uncounted
<1>. QED  BY <1>1, LocalCounts

LEMMA ReturnCounts ==
    ASSUME IInv, CountsInv, NEW w \in Workers, Return(w), UNCHANGED <<used, stats>>
    PROVE  CountsInv'
<1>1. op' = [op EXCEPT ![w] = Idle] /\ Idle.pc = "idle" /\ ~Counting(Idle)
  BY DEF Return, Idle, Counting
<1>. QED  BY <1>1, MoveCounts

LEMMA DeletesOn ==
    ASSUME IInv, NEW w \in Workers, NEW k, op[w].pc = "delete", AfterDelete(w, k)
    PROVE  \E o : op' = [op EXCEPT ![w] = o] /\ o.pc \in {"idle", "delete"}
<1>1. CASE op[w].doomed = {k}
  BY <1>1 DEF AfterDelete, Return, Idle
<1>2. CASE op[w].doomed # {k}
  <2>1. PICK o : /\ o = [op[w] EXCEPT !.doomed = @ \ {k}]
                 /\ op' = [op EXCEPT ![w] = o]
    BY <1>2 DEF AfterDelete, IInv, TypeOK
  <2>2. o.pc = "delete"
    BY <2>1 DEF IInv, TypeOK, OpType
  <2>. QED  BY <2>1, <2>2
<1>. QED  BY <1>1, <1>2

LEMMA PurgesOn ==
    ASSUME NEW w \in Workers, NEW doomed, PurgeWhat(w, doomed)
    PROVE  \E o : op' = [op EXCEPT ![w] = o] /\ o.pc = "delete"
<1>1. PICK o : o = [Idle EXCEPT !.pc = "delete", !.call = "Purge", !.doomed = doomed]
  OBVIOUS
<1>2. op' = [op EXCEPT ![w] = o]
  BY <1>1 DEF PurgeWhat
<1>3. o.pc = "delete"
  BY <1>1 DEF Idle
<1>. QED  BY <1>2, <1>3

LEMMA CrashCounts ==
    ASSUME IInv, CountsInv, NEW p \in Procs, Crash(p)
    PROVE  CountsInv'
<1>1. /\ \A v \in Workers : op'[v] \in {Idle, op[v]}
      /\ UNCHANGED <<used, stats>>
  BY DEF Crash
<1>2. \A v \in Workers : Uncounted(op'[v]) \subseteq Uncounted(op[v]) /\ CountsOnce(op'[v])
  BY <1>1, IdleCounts DEF CountsInv
<1>3. Cardinality(Counted) <= Cardinality(Counted') /\ Cardinality(Counted') \in Nat
  <2>1. UncountedIDs' \subseteq UncountedIDs
    BY <1>2 DEF UncountedIDs
  <2>2. used \subseteq used' /\ IsFiniteSet(used')
    BY <1>1 DEF CountsInv
  <2>. QED  BY <2>1, <2>2, CountedGrows
<1>4. Cardinality(Counted) \in Nat
  BY CountedFinite
<1>5. stats'["totalEnqueued"] <= Cardinality(Counted')
  BY <1>1, <1>3, <1>4 DEF CountsInv, IInv, TypeOK, StatNames
<1>6. ASSUME NEW v \in Workers, op'[v].pc = "putStat", CountsTask(op'[v])
      PROVE  op'[v].seen <= Cardinality(Counted')
  <2>1. op'[v] = op[v]
    BY <1>1, <1>6, IdleCounts
  <2>2. op'[v].seen <= Cardinality(Counted) /\ op'[v].seen \in Nat
    BY <1>6, <2>1 DEF CountsInv, IInv, TypeOK, OpType
  <2>. QED  BY <1>3, <1>4, <2>2
<1>. QED  BY <1>1, <1>2, <1>5, <1>6 DEF CountsInv

LEMMA StillCounts ==
    ASSUME CountsInv, UNCHANGED <<used, op, stats>>
    PROVE  CountsInv'
<1>1. Counted' = Counted
  BY DEF Counted, UncountedIDs
<1>. QED  BY <1>1 DEF CountsInv

LEMMA NextCounts == IInv /\ CountsInv /\ [Next]_vars => CountsInv'
<1>. SUFFICES ASSUME IInv, CountsInv, [Next]_vars PROVE CountsInv'
  OBVIOUS
<1>1. ASSUME NEW w \in Workers, Begin(w)
      PROVE  CountsInv'
  <2>1. CASE Dequeue(w)
    <3>1. PICK o : op' = [op EXCEPT ![w] = o] /\ o.pc = "scan"
      <4>1. op' = [op EXCEPT ![w] = [Idle EXCEPT !.pc = "scan", !.call = "Dequeue", !.at = clock[ProcOf[w]]]]
        BY <2>1 DEF Dequeue
      <4>2. PICK o : o = [Idle EXCEPT !.pc = "scan", !.call = "Dequeue", !.at = clock[ProcOf[w]]]
        OBVIOUS
      <4>3. o.pc = "scan"
        BY <4>2 DEF Idle
      <4>4. op' = [op EXCEPT ![w] = o]
        BY <4>1, <4>2
      <4>. QED  BY <4>3, <4>4
    <3>. QED  BY <2>1, <3>1, MoveCounts DEF Dequeue, Counting
  <2>2. CASE Purge(w)
    BY <2>2, PurgesOn, MoveCounts DEF Purge, Counting
  <2>3. ASSUME NEW call \in {"Ack", "Nack"}, NEW id, NEW task, Settle(w, call, id, task)
        PROVE  CountsInv'
    <3>1. PICK o : op' = [op EXCEPT ![w] = o] /\ o.pc = "locate" /\ o.call = call
      <4>1. op' = [op EXCEPT ![w] = [Idle EXCEPT !.pc = "locate", !.call = call, !.task = task]]
        BY <2>3 DEF Settle
      <4>2. PICK o : o = [Idle EXCEPT !.pc = "locate", !.call = call, !.task = task]
        OBVIOUS
      <4>3. o.pc = "locate" /\ o.call = call
        BY <4>2 DEF Idle
      <4>4. op' = [op EXCEPT ![w] = o]
        BY <4>1, <4>2
      <4>. QED  BY <4>3, <4>4
    <3>. QED  BY <2>3, <3>1, MoveCounts DEF Settle, Counting
  <2>4. CASE SettleAny(w)
    <3>1. ASSUME NEW id \in TaskIDs, SettleRefused(w, id)
          PROVE  CountsInv'
      BY <3>1, StillCounts DEF SettleRefused
    <3>. QED  BY <2>3, <2>4, <3>1 DEF SettleAny, Ack, Nack
  <2>. QED  BY <1>1, <2>1, <2>2, <2>4, EnqueueCounts DEF Begin
<1>2. ASSUME NEW w \in Workers, Step(w)
      PROVE  CountsInv'
  <2>1. CASE BumpSequence(w)
    <3>1. PICK o : o = [op[w] EXCEPT !.pc = "put"] /\ op' = [op EXCEPT ![w] = o]
      BY <2>1 DEF BumpSequence, Goto, IInv, TypeOK
    <3>2. o.pc = "put" /\ o.call = op[w].call /\ o.task = op[w].task
      BY <3>1 DEF IInv, TypeOK, OpType
    <3>. QED  BY <2>1, <3>1, <3>2, MoveCounts DEF BumpSequence, Counting
  <2>2. CASE DequeueScan(w)
    <3>1. PICK o : op' = [op EXCEPT ![w] = o] /\ o.pc = "put" /\ o.call = "Dequeue"
      <4>1. PICK k : op' = [op EXCEPT ![w] =
                              [Idle EXCEPT !.pc = "put", !.call = "Dequeue", !.key = k,
                                           !.task = Claimed(db[k], w, op[w].at)]]
        BY <2>2 DEF DequeueScan
      <4>2. PICK o : o = [Idle EXCEPT !.pc = "put", !.call = "Dequeue", !.key = k,
                                      !.task = Claimed(db[k], w, op[w].at)]
        OBVIOUS
      <4>3. o.pc = "put" /\ o.call = "Dequeue"
        BY <4>2 DEF Idle
      <4>4. op' = [op EXCEPT ![w] = o]
        BY <4>1, <4>2
      <4>. QED  BY <4>3, <4>4
    <3>. QED  BY <2>2, <3>1, MoveCounts DEF DequeueScan, Counting
  <2>3. CASE LocateTask(w)
    <3>1. ASSUME NEW k, op' = [op EXCEPT ![w].pc = "update", ![w].key = k]
          PROVE  CountsInv'
      <4>1. PICK o : o = [op[w] EXCEPT !.pc = "update", !.key = k] /\ op' = [op EXCEPT ![w] = o]
        BY <3>1 DEF IInv, TypeOK
      <4>2. o.pc = "update" /\ o.call = op[w].call
        BY <4>1 DEF IInv, TypeOK, OpType
      <4>3. o.call # "Enqueue"
        BY <2>3, <4>2 DEF LocateTask, CountsInv, CountsOnce
      <4>. QED  BY <2>3, <4>1, <4>2, <4>3, MoveCounts DEF LocateTask, Counting
    <3>. QED  BY <2>3, <3>1, WriteCounts DEF LocateTask
  <2>4. CASE GetStat(w)
    <3>1. stats[Head(op[w].todo)[1]] \in Nat
      <4>1. op[w].todo \in Seq(StatNames \X {-1, 1}) /\ op[w].todo # <<>>
        BY <2>4 DEF GetStat, IInv, TypeOK, OpType, OpSound
      <4>2. Head(op[w].todo) \in StatNames \X {-1, 1}
        BY <4>1
      <4>3. Head(op[w].todo)[1] \in StatNames
        BY <4>2
      <4>. QED  BY <4>3 DEF IInv, TypeOK
    <3>. QED  BY <2>4, <3>1, GetStatCounts DEF GetStat
  <2>5. CASE PurgeDelete(w)
    <3>1. PICK o : op' = [op EXCEPT ![w] = o] /\ o.pc \in {"idle", "delete"}
      <4>1. PICK k : AfterDelete(w, k)
        BY <2>5 DEF PurgeDelete
      <4>. QED  BY <2>5, <4>1, DeletesOn DEF PurgeDelete
    <3>. QED  BY <2>5, <3>1, MoveCounts DEF PurgeDelete, Counting
  <2>. QED  BY <1>2, <2>1, <2>2, <2>3, <2>4, <2>5, WriteCounts, ReturnCounts, PutStatCounts
            DEF Step, PutTask, UpdateTask, DequeueNothing
<1>3. ASSUME NEW w \in Workers, StatFails(w)
      PROVE  CountsInv'
  <2>1. CASE op[w].pc = "getStat"
    BY <1>3, <2>1, GetStatCounts DEF StatFails
  <2>2. CASE op[w].pc = "putStat"
    <3>1. NextStat(w) /\ UNCHANGED <<used, stats>>
      BY <1>3, <2>2 DEF StatFails
    <3>2. PICK o : /\ op' = [op EXCEPT ![w] = o]
                   /\ CountsOnce(o) /\ ~CountsTask(o) /\ Uncounted(o) = {}
      BY <2>2, <3>1, NextStatOp
    <3>. QED  BY <3>1, <3>2, LocalCounts
  <2>. QED  BY <1>3, <2>1, <2>2 DEF StatFails
<1>4. ASSUME NEW w \in Workers, DeleteFails(w)
      PROVE  CountsInv'
  <2>1. PICK o : op' = [op EXCEPT ![w] = o] /\ o.pc \in {"idle", "delete"}
    BY <1>4, DeletesOn DEF DeleteFails
  <2>. QED  BY <1>4, <2>1, MoveCounts DEF DeleteFails, Counting
<1>5. ASSUME NEW w \in Workers, RequestFails(w)
      PROVE  CountsInv'
  BY <1>5, ReturnCounts DEF RequestFails
<1>6. ASSUME NEW w \in Workers, SettleBreaks(w)
      PROVE  CountsInv'
  BY <1>6, StillCounts DEF SettleBreaks
<1>7. ASSUME NEW w \in Workers, LocateBreaks(w)
      PROVE  CountsInv'
  BY <1>7, WriteCounts DEF LocateBreaks
<1>8. ASSUME NEW w \in Workers, PurgeBreaks(w)
      PROVE  CountsInv'
  <2>1. PICK o : op' = [op EXCEPT ![w] = o] /\ o.pc = "delete"
    BY <1>8, PurgesOn DEF PurgeBreaks
  <2>. QED  BY <1>8, <2>1, MoveCounts DEF PurgeBreaks, Counting
<1>9. CASE (\E p \in Procs : Tick(p)) \/ UNCHANGED vars
  BY <1>9, StillCounts DEF Tick, vars
<1>. QED  BY <1>1, <1>2, <1>3, <1>4, <1>5, <1>9, <1>6, <1>7, <1>8, CrashCounts
     DEF Next, Fail

LEMMA InitCounts == Init => CountsInv
<1>. SUFFICES ASSUME Init PROVE CountsInv
  OBVIOUS
<1>1. \A w \in Workers : op[w] = Idle
  BY DEF Init
<1>2. used = {} /\ Counted = {}
  BY DEF Init, Counted
<1>. QED  BY <1>1, <1>2, IdleCounts, FS_EmptySet DEF Init, CountsInv, StatNames

(* What is behind the total: the tasks it counts are among the identifiers *)
(* handed out, each call in progress counts its own at most once.          *)
THEOREM CountsInvariant == Spec => []CountsInv
BY InitCounts, NextCounts, InductiveInvariant, PTL DEF Spec

(* However the Gets and Puts of incrementStat (queue.go:754) mingle, fail  *)
(* or die, totalEnqueued never exceeds the tasks created.                  *)
THEOREM TotalsStayBelow == Spec => []TotalsNeverOvercount
<1>1. CountsInv /\ IInv => TotalsNeverOvercount
  <2>. SUFFICES ASSUME CountsInv, IInv PROVE TotalsNeverOvercount
    OBVIOUS
  <2>1. Cardinality(Counted) <= Cardinality(used) /\ Cardinality(used) \in Nat
    BY FS_Subset, FS_CardinalityType DEF Counted, CountsInv
  <2>2. stats["totalEnqueued"] \in Nat
    BY DEF IInv, TypeOK, StatNames
  <2>. QED  BY <2>1, <2>2, CountedFinite DEF CountsInv, TotalsNeverOvercount
<1>. QED  BY <1>1, CountsInvariant, InductiveInvariant, PTL
=============================================================================
