------------------------------- MODULE QueueKeys -------------------------------
(***************************************************************************)
(* The keys under which queue.go stores tasks, byte by byte: the name of   *)
(* the queue and the identifier of the task as they are, and between them  *)
(* numbers of fixed width that may contain the separator.  PriorityQueue   *)
(* takes for granted that a scan meets tasks in the order of these numbers.*)
(***************************************************************************)
EXTENDS Integers, FiniteSets, SequencesExt

CONSTANTS
    Radix,     \* 256 in the code
    Width,     \* 8 in the code
    Slash,
    Prefix,    \* "queue/"
    QueueIDs, TaskIDs,                    \* sequences of bytes
    TaskPriorities, ReadyTimes, Sequences,   \* instances of the numbers
    MaxKeys    \* bound: tasks stored

VARIABLE entries   \* the stored keys; history: what was encoded

Byte == 0..(Radix - 1)

(* How many numbers n bytes can tell apart. *)
Power[n \in 0..Width] == IF n = 0 THEN 1 ELSE Radix * Power[n - 1]

Modulus == Power[Width]

Half == Modulus \div 2

ASSUME QueueKeysAssumption ==
    /\ Radix \in Nat /\ Width \in Nat /\ Slash \in Byte
    /\ Prefix \in Seq(Byte) /\ QueueIDs \subseteq Seq(Byte) /\ TaskIDs \subseteq Seq(Byte)
    /\ \A q \in QueueIDs : \A i \in DOMAIN q : q[i] # Slash
    /\ <<>> \notin TaskIDs
    /\ TaskPriorities \subseteq -Half..(Half - 1)
    /\ ReadyTimes \subseteq 0..(Half - 1) /\ Sequences \subseteq 0..(Modulus - 1)

encodeU64BE(n) == [i \in 1..Width |-> (n \div Power[Width - i]) % Radix]

(* Of the first bytes, whatever follows them. *)
decodeU64BE(bytes) ==
    LET value[i \in 0..Width] ==
          IF i = 0 THEN 0 ELSE value[i - 1] * Radix + bytes[i]
    IN  value[Width]

(* Mutant: the sign is left where it is. *)
encodeTwosComplement(n) == encodeU64BE(n % Modulus)

encodeI64BE(n) == encodeU64BE((n + Half) % Modulus)

decodeI64BE(bytes) == decodeU64BE(bytes) - Half

QueueKey == [queue : QueueIDs, priority : TaskPriorities, readyTs : ReadyTimes,
             sequence : Sequences, task : TaskIDs]

Encode(k) ==
    Prefix \o k.queue \o <<Slash>> \o encodeI64BE(k.priority)
           \o <<Slash>> \o encodeU64BE(k.readyTs)
           \o <<Slash>> \o encodeU64BE(k.sequence) \o <<Slash>> \o k.task

-----------------------------------------------------------------------------
InvalidKey == "invalid queue key"

(* What follows the name: three numbers with their separators, and a task. *)
Numbers == 3 * (Width + 1)

LeavesRoom(data, i) == Len(data) - i >= Numbers + 1

(* Where the name may end. *)
Boundaries(data) ==
    {i \in (Len(Prefix) + 1)..Len(data) : data[i] = Slash /\ LeavesRoom(data, i)}

DecodeAfter(data, end) ==
    LET Start(n) == end + n * (Width + 1)
        Field(n) == SubSeq(data, Start(n) + 1, Start(n) + Width)
    IN  IF \E n \in 1..3 : data[Start(n)] # Slash THEN InvalidKey
        ELSE [queue    |-> SubSeq(data, Len(Prefix) + 1, end - 1),
              priority |-> decodeI64BE(Field(0)),
              readyTs  |-> decodeU64BE(Field(1)),
              sequence |-> decodeU64BE(Field(2)),
              task     |-> SubSeq(data, Start(3) + 1, Len(data))]

DecodeQueueKey(data) ==
    IF ~IsPrefix(Prefix, data) \/ Boundaries(data) = {} THEN InvalidKey
    ELSE DecodeAfter(data, Min(Boundaries(data)))

-----------------------------------------------------------------------------
KeysInit == entries = [b \in {} |-> b]

(* The Put of Enqueue. *)
StoreKey(k) ==
    /\ Cardinality(DOMAIN entries) < MaxKeys
    /\ entries' = [b \in DOMAIN entries \cup {Encode(k)} |->
                     IF b = Encode(k) THEN k ELSE entries[b]]

KeysNext == \E k \in QueueKey : StoreKey(k)

KeysSpec == KeysInit /\ [][KeysNext]_entries

-----------------------------------------------------------------------------
(* The order of a scan, and the order in which tasks are due. *)
Precedes(s, t) ==
    \E i \in 1..Min({Len(s) + 1, Len(t)}) :
      /\ \A j \in 1..(i - 1) : s[j] = t[j]
      /\ i = Len(s) + 1 \/ s[i] < t[i]

Due(k) == <<k.priority, k.readyTs, k.sequence>>

(* Every stored key is decoded to what was encoded, although the numbers   *)
(* and the task may contain the separator, and no key replaces another     *)
(* one; a scan of a queue meets its tasks by priority, negative ones       *)
(* first, then by time, then by sequence; all this as long as the name of  *)
(* the queue has no separator and the task has a name.                     *)
KeysFaithful ==
    \A a, b \in DOMAIN entries :
      /\ DecodeQueueKey(a) = entries[a]
      /\ entries[a].queue = entries[b].queue /\ Due(entries[a]) # Due(entries[b])
         => (Precedes(a, b) <=> Precedes(Due(entries[a]), Due(entries[b])))
=============================================================================
