------------------------------ MODULE TxnProofs -------------------------------
(***************************************************************************)
(* Proofs, for any goroutines, any transactions and any number of faults,  *)
(* that IInv is inductive and that the transactions of                     *)
(* embedded/database.go implement the atomic cell.                         *)
(***************************************************************************)
EXTENDS TxnProperties, TLAPS

(* The strengthened invariant holds before the first call. *)
LEMMA InitIInv ==
    ASSUME Init
    PROVE  IInv
<1>1. Closed \in TxnRecord
  BY DEF Closed, TxnRecord, PCs
<1>2. TypeOK
  BY <1>1 DEF Init, TypeOK
<1>. QED  BY <1>2 DEF Init, IInv, Ownership, FlagsTellTruth, OutcomeIsTrue,
                      NothingLeaks, Closed

(* A goroutine in a call touches its own Transaction, its own transaction  *)
(* in the engine and that one's log entry; if these fit together after the *)
(* step, everything does.                                                  *)
LEMMA LocalStep ==
    ASSUME IInv, NEW t \in Threads, txn[t].pc # "idle",
           NEW r \in TxnRecord, NEW e \in EngineTxn, NEW l \in LogEntry,
           txn' = [txn EXCEPT ![t] = r],
           engine' = [engine EXCEPT ![txn[t].id] = e],
           log' = [log EXCEPT ![txn[t].id] = l],
           value' \subseteq TxnIDs, faults' \in Nat,
           IF r.pc = "idle" THEN r.id = NoTxn
           ELSE /\ r.id = txn[t].id /\ l.outcome = "open"
                /\ FlagsSound(r, e) /\ CallSound(r, e, l),
           OutcomeSound(e, l), WriteSound(txn[t].id, e),
           e.state = "active" => r.pc # "idle" \/ l.call = "scan"
    PROVE  IInv'
<1>. DEFINE id == txn[t].id
<1>1. id \in DOMAIN engine /\ id \in TxnIDs /\ DOMAIN log = DOMAIN engine
  BY DEF IInv, Ownership, TypeOK
<1>2. TypeOK'
  BY <1>1 DEF IInv, TypeOK
<1>3. \A u \in Threads \ {t} :
        /\ txn'[u] = txn[u]
        /\ txn[u].pc # "idle" =>
             /\ txn[u].id # id /\ txn[u].id \in DOMAIN engine
             /\ engine'[txn[u].id] = engine[txn[u].id]
             /\ log'[txn[u].id] = log[txn[u].id]
  BY <1>1 DEF IInv, TypeOK, Ownership
<1>4. txn'[t] = r /\ engine'[id] = e /\ log'[id] = l /\ DOMAIN engine' = DOMAIN engine
  BY <1>1 DEF IInv, TypeOK
<1>5. \A i \in DOMAIN engine \ {id} : engine'[i] = engine[i] /\ log'[i] = log[i]
  BY <1>1 DEF IInv, TypeOK
<1>. HIDE DEF id
<1>6. Ownership'
  <2>1. \A u \in Threads :
          IF txn'[u].pc = "idle" THEN txn'[u].id = NoTxn
          ELSE txn'[u].id \in DOMAIN engine' /\ log'[txn'[u].id].outcome = "open"
    <3>1. TAKE u \in Threads
    <3>2. CASE u = t
      BY <3>2, <1>1, <1>4 DEF id
    <3>3. CASE u # t
      BY <3>3, <1>3, <1>4 DEF IInv, Ownership
    <3>. QED  BY <3>2, <3>3
  <2>2. ASSUME NEW u \in Threads, NEW v \in Threads,
               txn'[u].pc # "idle", txn'[u].id = txn'[v].id
        PROVE  u = v
    <3>1. CASE u # t /\ v # t
      BY <3>1, <2>2, <1>3 DEF IInv, Ownership
    <3>2. CASE u = t /\ v # t
      <4>1. txn'[u].id = id
        BY <3>2, <2>2, <1>4 DEF id
      <4>2. txn[v].pc # "idle" => txn[v].id # id
        BY <3>2, <1>3
      <4>3. txn[v].pc = "idle" => txn[v].id = NoTxn
        BY DEF IInv, Ownership
      <4>4. id # NoTxn
        BY <1>1, TxnAssumption
      <4>. QED  BY <4>1, <4>2, <4>3, <4>4, <2>2, <3>2, <1>3
    <3>3. CASE u # t /\ v = t
      <4>1. txn'[v].id = id \/ txn'[v].id = NoTxn
        BY <3>3, <1>4 DEF id
      <4>2. txn[u].id # id /\ txn[u].id \in TxnIDs
        BY <3>3, <2>2, <1>3 DEF IInv, TypeOK
      <4>. QED  BY <4>1, <4>2, <2>2, <3>3, <1>3, TxnAssumption
    <3>. QED  BY <3>1, <3>2, <3>3
  <2>. QED  BY <2>1, <2>2 DEF Ownership
<1>7. ASSUME NEW u \in Threads, txn'[u].pc # "idle"
      PROVE  /\ FlagsSound(txn'[u], engine'[txn'[u].id])
             /\ CallSound(txn'[u], engine'[txn'[u].id], log'[txn'[u].id])
  <2>1. CASE u = t
    BY <2>1, <1>7, <1>4 DEF id
  <2>2. CASE u # t
    BY <2>2, <1>7, <1>3 DEF IInv, FlagsTellTruth
  <2>. QED  BY <2>1, <2>2
<1>8. ASSUME NEW i \in DOMAIN engine'
      PROVE  OutcomeSound(engine'[i], log'[i]) /\ WriteSound(i, engine'[i])
  <2>1. CASE i = id
    BY <2>1, <1>4 DEF id
  <2>2. CASE i # id
    BY <2>2, <1>8, <1>4, <1>5 DEF IInv, OutcomeIsTrue
  <2>. QED  BY <2>1, <2>2
<1>9. ASSUME NEW i \in DOMAIN engine', engine'[i].state = "active",
             log'[i].call # "scan"
      PROVE  \E u \in Threads : txn'[u].id = i
  <2>1. CASE i = id
    BY <2>1, <1>9, <1>4 DEF id
  <2>2. CASE i # id
    <3>1. PICK u \in Threads : txn[u].id = i
      BY <2>2, <1>9, <1>4, <1>5 DEF IInv, NothingLeaks
    <3>2. u # t
      BY <3>1, <2>2 DEF id
    <3>. QED  BY <3>1, <3>2, <1>3
  <2>. QED  BY <2>1, <2>2
<1>10. FlagsTellTruth' /\ OutcomeIsTrue' /\ NothingLeaks'
  BY <1>7, <1>8, <1>9 DEF FlagsTellTruth, OutcomeIsTrue, NothingLeaks
<1>. QED  BY <1>2, <1>6, <1>7, <1>8, <1>10 DEF IInv

(* What IInv says of a goroutine in a call. *)
LEMMA InCall ==
    ASSUME IInv, NEW t \in Threads, txn[t].pc # "idle"
    PROVE  LET id == txn[t].id IN
           /\ id \in DOMAIN engine /\ id \in TxnIDs
           /\ txn[t] \in TxnRecord
           /\ engine[id] \in EngineTxn /\ log[id] \in LogEntry
           /\ log[id].outcome = "open"
           /\ FlagsSound(txn[t], engine[id])
           /\ CallSound(txn[t], engine[id], log[id])
           /\ WriteSound(id, engine[id])
           /\ value \subseteq TxnIDs /\ faults \in Nat
           /\ engine = [engine EXCEPT ![id] = engine[id]]
           /\ log = [log EXCEPT ![id] = log[id]]
  BY DEF IInv, TypeOK, Ownership, FlagsTellTruth

(* Steps that only move the goroutine on. *)
LEMMA MoveStep ==
    ASSUME IInv, NEW t \in Threads, txn[t].pc # "idle",
           NEW pc \in PCs \ {"idle"}, NEW err \in BOOLEAN,
           txn' = [txn EXCEPT ![t] = [txn[t] EXCEPT !.pc = pc, !.err = err]],
           CallSound([txn[t] EXCEPT !.pc = pc, !.err = err],
                     engine[txn[t].id], log[txn[t].id]),
           UNCHANGED <<value, engine, log>>, faults' \in Nat
    PROVE  IInv'
<1>. DEFINE id == txn[t].id
            r == [txn[t] EXCEPT !.pc = pc, !.err = err]
<1>1. /\ r \in TxnRecord /\ r.pc = pc /\ r.id = id
      /\ r.committed = txn[t].committed /\ r.aborted = txn[t].aborted
  BY InCall DEF TxnRecord
<1>2. FlagsSound(r, engine[id]) /\ CallSound(r, engine[id], log[id])
  BY <1>1, InCall DEF FlagsSound
<1>3. OutcomeSound(engine[id], log[id])
  BY InCall DEF OutcomeSound
<1>4. /\ txn' = [txn EXCEPT ![t] = r] /\ engine' = [engine EXCEPT ![id] = engine[id]]
      /\ log' = [log EXCEPT ![id] = log[id]]
  BY InCall
<1>5. engine[id] \in EngineTxn /\ log[id] \in LogEntry /\ value' \subseteq TxnIDs
      /\ WriteSound(id, engine[id]) /\ log[id].outcome = "open"
  BY InCall
<1>. HIDE DEF r
<1>. QED  BY <1>1, <1>2, <1>3, <1>4, <1>5, LocalStep

(* Begin hands out an identifier nobody uses. *)
LEMMA BeginIInv ==
    ASSUME IInv, NEW t \in Threads, NEW call \in Calls, Begin(t, call)
    PROVE  IInv'
<1>. DEFINE new == Fresh
            e == [state |-> "active", snapshot |-> value,
                  read |-> FALSE, write |-> {}]
            l == [call |-> call, outcome |-> "open", early |-> FALSE]
            r == [Closed EXCEPT !.pc = FirstPC(call), !.id = Fresh]
<1>1. new \in TxnIDs /\ new \notin DOMAIN engine
  <2>1. \E i \in TxnIDs : i \notin DOMAIN engine
    BY DEF Begin
  <2>. QED  BY <2>1 DEF Fresh
<1>2. call \in AllCalls
  BY TxnAssumption
<1>3. e \in EngineTxn /\ l \in LogEntry
  BY <1>2 DEF EngineTxn, LogEntry, Outcomes, IInv, TypeOK
<1>4. FirstPC(call) \in {"put", "iterate", "get"}
  BY DEF FirstPC
<1>5. /\ r \in TxnRecord /\ r.pc = FirstPC(call) /\ r.id = new
      /\ r.committed = FALSE /\ r.aborted = FALSE /\ r.err = FALSE
  BY <1>1, <1>4 DEF TxnRecord, PCs, Closed
<1>6. FlagsSound(r, e) /\ OutcomeSound(e, l) /\ WriteSound(new, e)
  BY <1>5 DEF FlagsSound, OutcomeSound, WriteSound
<1>7. CallSound(r, e, l)
  BY <1>4, <1>5 DEF CallSound, FirstPC
<1>8. /\ DOMAIN engine' = DOMAIN engine \cup {new} /\ engine'[new] = e
      /\ DOMAIN log' = DOMAIN engine' /\ log'[new] = l
      /\ \A i \in DOMAIN engine : engine'[i] = engine[i] /\ log'[i] = log[i]
      /\ txn' = [txn EXCEPT ![t] = r]
      /\ engine' \in [DOMAIN engine' -> EngineTxn]
      /\ log' \in [DOMAIN engine' -> LogEntry]
  BY <1>1, <1>3 DEF Begin, IInv, TypeOK
<1>9. txn'[t] = r /\ \A u \in Threads \ {t} : txn'[u] = txn[u]
  BY <1>8 DEF IInv, TypeOK
<1>10. txn[t].pc = "idle" /\ txn[t].id = NoTxn
  BY DEF Begin, IInv, Ownership
<1>11. \A u \in Threads : txn[u].pc # "idle" => txn[u].id \in DOMAIN engine
  BY DEF IInv, Ownership
<1>12. \A u \in Threads : txn[u].id # new
  BY <1>1, <1>11, TxnAssumption DEF IInv, Ownership
<1>. HIDE DEF new, e, l, r
<1>13. TypeOK'
  BY <1>1, <1>5, <1>8 DEF IInv, TypeOK, Begin
<1>14. Ownership'
  <2>1. ASSUME NEW u \in Threads
        PROVE  IF txn'[u].pc = "idle" THEN txn'[u].id = NoTxn
               ELSE txn'[u].id \in DOMAIN engine' /\ log'[txn'[u].id].outcome = "open"
    <3>1. CASE u = t
      BY <3>1, <1>4, <1>5, <1>8, <1>9 DEF l
    <3>2. CASE u # t
      BY <3>2, <1>8, <1>9 DEF IInv, Ownership
    <3>. QED  BY <3>1, <3>2
  <2>2. ASSUME NEW u \in Threads, NEW v \in Threads,
               txn'[u].pc # "idle", txn'[u].id = txn'[v].id
        PROVE  u = v
    <3>1. CASE u # t /\ v # t
      BY <3>1, <2>2, <1>9 DEF IInv, Ownership
    <3>2. CASE u = t \/ v = t
      BY <3>2, <2>2, <1>5, <1>9, <1>12
    <3>. QED  BY <3>1, <3>2
  <2>. QED  BY <2>1, <2>2 DEF Ownership
<1>15. ASSUME NEW u \in Threads, txn'[u].pc # "idle"
       PROVE  /\ FlagsSound(txn'[u], engine'[txn'[u].id])
              /\ CallSound(txn'[u], engine'[txn'[u].id], log'[txn'[u].id])
  <2>1. CASE u = t
    BY <2>1, <1>5, <1>6, <1>7, <1>8, <1>9
  <2>2. CASE u # t
    BY <2>2, <1>15, <1>8, <1>9, <1>11 DEF IInv, FlagsTellTruth
  <2>. QED  BY <2>1, <2>2
<1>16. ASSUME NEW i \in DOMAIN engine'
       PROVE  OutcomeSound(engine'[i], log'[i]) /\ WriteSound(i, engine'[i])
  BY <1>6, <1>8 DEF IInv, OutcomeIsTrue
<1>17. ASSUME NEW i \in DOMAIN engine', engine'[i].state = "active",
              log'[i].call # "scan"
       PROVE  \E u \in Threads : txn'[u].id = i
  <2>1. CASE i = new
    BY <2>1, <1>5, <1>9
  <2>2. CASE i # new
    <3>1. PICK u \in Threads : txn[u].id = i
      BY <2>2, <1>17, <1>8 DEF IInv, NothingLeaks
    <3>2. i \in TxnIDs
      BY <2>2, <1>8 DEF IInv, TypeOK
    <3>3. u # t
      BY <3>1, <3>2, <1>10, TxnAssumption
    <3>. QED  BY <3>1, <3>3, <1>9
  <2>. QED  BY <2>1, <2>2
<1>18. FlagsTellTruth' /\ OutcomeIsTrue' /\ NothingLeaks'
  BY <1>15, <1>16, <1>17 DEF FlagsTellTruth, OutcomeIsTrue, NothingLeaks
<1>. QED  BY <1>13, <1>14, <1>15, <1>16, <1>18 DEF IInv

(* Get marks the transaction read and keeps the snapshot's value. *)
LEMMA GetIInv ==
    ASSUME IInv, NEW t \in Threads, Get(t)
    PROVE  IInv'
<1>. DEFINE id == txn[t].id
            pc == IF Call(t) = "get" THEN "commit" ELSE "put"
            r == [txn[t] EXCEPT !.seen = engine[id].snapshot, !.pc = pc]
            e == [engine[id] EXCEPT !.read = TRUE]
<1>1. txn[t].pc = "get" /\ ~txn[t].committed
  BY DEF Get, ensureActive
<1>2. /\ txn' = [txn EXCEPT ![t] = r] /\ engine' = [engine EXCEPT ![id] = e]
      /\ UNCHANGED <<value, log, faults>>
  BY DEF Get, GetNative
<1>3. engine[id] \in EngineTxn /\ txn[t] \in TxnRecord
  BY <1>1, InCall
<1>4. /\ e \in EngineTxn /\ e.read /\ e.state = engine[id].state
      /\ e.write = engine[id].write /\ e.snapshot = engine[id].snapshot
  BY <1>3 DEF EngineTxn
<1>5. /\ r \in TxnRecord /\ r.pc = pc /\ r.id = id /\ r.seen = engine[id].snapshot
      /\ r.committed = txn[t].committed /\ r.aborted = txn[t].aborted
  BY <1>3 DEF TxnRecord, PCs, EngineTxn
<1>6. /\ FlagsSound(r, e) /\ CallSound(r, e, log[id])
      /\ OutcomeSound(e, log[id]) /\ WriteSound(id, e)
  BY <1>1, <1>4, <1>5, InCall
     DEF FlagsSound, CallSound, OutcomeSound, WriteSound, Call
<1>7. /\ log' = [log EXCEPT ![id] = log[id]] /\ log[id] \in LogEntry
      /\ log[id].outcome = "open" /\ value' \subseteq TxnIDs /\ faults' \in Nat
  BY <1>1, <1>2, InCall
<1>8. r.pc # "idle"
  BY <1>5
<1>. HIDE DEF r, e, pc
<1>. QED  BY <1>1, <1>2, <1>4, <1>5, <1>6, <1>7, <1>8, LocalStep

(* Put writes its own identifier, or adds it to the snapshot it read. *)
LEMMA PutIInv ==
    ASSUME IInv, NEW t \in Threads, Put(t)
    PROVE  IInv'
<1>. DEFINE id == txn[t].id
            pc == IF Call(t) = "put" THEN "commit" ELSE "body"
            w == IF Call(t) = "put" THEN {id} ELSE txn[t].seen \cup {id}
            r == [txn[t] EXCEPT !.pc = pc]
            e == [engine[id] EXCEPT !.write = w]
<1>1. txn[t].pc = "put" /\ ~txn[t].committed
  BY DEF Put, ensureActive
<1>2. /\ txn' = [txn EXCEPT ![t] = r] /\ engine' = [engine EXCEPT ![id] = e]
      /\ UNCHANGED <<value, log, faults>>
  BY DEF Put
<1>3. engine[id] \in EngineTxn /\ txn[t] \in TxnRecord /\ id \in TxnIDs
  BY <1>1, InCall
<1>4. w \in SUBSET TxnIDs
  BY <1>3 DEF TxnRecord
<1>5. /\ e \in EngineTxn /\ e.read = engine[id].read /\ e.state = engine[id].state
      /\ e.write = w /\ e.snapshot = engine[id].snapshot
  BY <1>3, <1>4 DEF EngineTxn
<1>6. /\ r \in TxnRecord /\ r.pc = pc /\ r.id = id
      /\ r.committed = txn[t].committed /\ r.aborted = txn[t].aborted
  BY <1>3 DEF TxnRecord, PCs
<1>7. WriteSound(id, e)
  <2>1. Call(t) # "put" => engine[id].read /\ txn[t].seen = engine[id].snapshot
    BY <1>1, InCall DEF CallSound, Call
  <2>. QED  BY <1>5, <2>1 DEF WriteSound
<1>8. /\ FlagsSound(r, e) /\ CallSound(r, e, log[id])
      /\ OutcomeSound(e, log[id])
  BY <1>1, <1>5, <1>6, InCall DEF FlagsSound, CallSound, OutcomeSound, Call
<1>9. /\ log' = [log EXCEPT ![id] = log[id]] /\ log[id] \in LogEntry
      /\ log[id].outcome = "open" /\ value' \subseteq TxnIDs /\ faults' \in Nat
  BY <1>1, <1>2, InCall
<1>10. r.pc # "idle"
  BY <1>6
<1>. HIDE DEF r, e, pc, w
<1>. QED  BY <1>1, <1>2, <1>5, <1>6, <1>7, <1>8, <1>9, <1>10, LocalStep

(* An error of Get or Put, and what a function returns, only move on. *)
LEMMA ErrorIInv ==
    ASSUME IInv, NEW t \in Threads,
           Refused(t) \/ RequestFails(t) \/ FunctionReturns(t)
    PROVE  IInv'
<1>. DEFINE id == txn[t].id
<1>1. /\ txn[t].pc \in {"get", "put", "body"} /\ txn[t] \in TxnRecord
      /\ UNCHANGED <<value, engine, log>> /\ faults' \in Nat
  <2>1. txn[t].pc \in {"get", "put", "body"} /\ UNCHANGED <<value, engine, log>>
    BY DEF Refused, RequestFails, FunctionReturns
  <2>2. faults \in Nat
    BY DEF IInv, TypeOK
  <2>3. faults' \in Nat
    BY <2>2 DEF Refused, RequestFails, FunctionReturns
  <2>. QED  BY <2>1, <2>3 DEF IInv, TypeOK
<1>2. CASE txn' = [txn EXCEPT ![t].pc = "body"]
  <2>1. txn' = [txn EXCEPT ![t] = [txn[t] EXCEPT !.pc = "body", !.err = txn[t].err]]
    BY <1>1, <1>2 DEF TxnRecord
  <2>2. CallSound([txn[t] EXCEPT !.pc = "body", !.err = txn[t].err],
                  engine[id], log[id])
    BY <1>1, InCall DEF CallSound, TxnRecord
  <2>. QED  BY <1>1, <2>1, <2>2, MoveStep DEF PCs, TxnRecord
<1>3. CASE txn' = [txn EXCEPT ![t].pc = "commit"] /\ Call(t) # "manual"
  <2>1. txn' = [txn EXCEPT ![t] = [txn[t] EXCEPT !.pc = "commit", !.err = txn[t].err]]
    BY <1>1, <1>3 DEF TxnRecord
  <2>2. CallSound([txn[t] EXCEPT !.pc = "commit", !.err = txn[t].err],
                  engine[id], log[id])
    BY <1>1, <1>3, InCall DEF CallSound, TxnRecord, Call
  <2>. QED  BY <1>1, <2>1, <2>2, MoveStep DEF PCs, TxnRecord
<1>4. CASE Fail(t) /\ (txn[t].committed => Call(t) = "update" /\ log[id].early)
  <2>1. txn' = [txn EXCEPT ![t] = [txn[t] EXCEPT !.pc = "abort", !.err = TRUE]]
    BY <1>4 DEF Fail
  <2>2. CallSound([txn[t] EXCEPT !.pc = "abort", !.err = TRUE], engine[id], log[id])
    BY <1>1, <1>4, InCall DEF CallSound, TxnRecord, Call
  <2>. QED  BY <1>1, <2>1, <2>2, MoveStep DEF PCs
<1>5. Call(t) # "manual" =>
        (txn[t].committed => Call(t) = "update" /\ log[id].early)
  BY <1>1, InCall DEF CallSound, Call
<1>. QED  BY <1>2, <1>3, <1>4, <1>5
          DEF Refused, RequestFails, FunctionReturns, ErrorTo

(* Whatever sochdb_commit answers, the flag set after it agrees with what  *)
(* the engine did.                                                         *)
LEMMA CommitEngine ==
    ASSUME IInv, NEW t \in Threads, txn[t].pc # "idle",
           NEW ok \in BOOLEAN, NEW pc \in PCs, NEW err \in BOOLEAN,
           Commit(t, ok, pc, err)
    PROVE  /\ \E e \in EngineTxn :
                /\ engine' = [engine EXCEPT ![txn[t].id] = e]
                /\ e.read = engine[txn[t].id].read
                /\ e.write = engine[txn[t].id].write
                /\ e.snapshot = engine[txn[t].id].snapshot
                /\ Committed(t, ok) <=> e.state = "committed"
                /\ txn[t].aborted => e.state = "aborted"
           /\ value' \subseteq TxnIDs /\ faults' \in Nat
           /\ Committed(t, ok) \in BOOLEAN
<1>. DEFINE id == txn[t].id
<1>1. /\ id \in DOMAIN engine /\ engine[id] \in EngineTxn
      /\ FlagsSound(txn[t], engine[id]) /\ txn[t] \in TxnRecord
      /\ engine = [engine EXCEPT ![id] = engine[id]]
      /\ value \subseteq TxnIDs /\ faults \in Nat
  BY InCall
<1>2. ASSUME NEW state \in {"active", "committed", "aborted"}
      PROVE  /\ [engine[id] EXCEPT !.state = state] \in EngineTxn
             /\ [engine[id] EXCEPT !.state = state].state = state
             /\ [engine[id] EXCEPT !.state = state].read = engine[id].read
             /\ [engine[id] EXCEPT !.state = state].write = engine[id].write
             /\ [engine[id] EXCEPT !.state = state].snapshot = engine[id].snapshot
             /\ End(id, state) = [engine EXCEPT ![id] = [engine[id] EXCEPT !.state = state]]
  BY <1>1 DEF EngineTxn, End
<1>3. Committed(t, ok) \in BOOLEAN
  BY <1>1 DEF Committed, TxnRecord
<1>4. CASE ~ensureActive(t) /\ ~ok /\ UNCHANGED <<value, engine, faults>>
  BY <1>1, <1>3, <1>4 DEF Committed, FlagsSound
<1>5. CASE ensureActive(t) /\ ok /\ CommitOK(id)
  <2>1. engine' = End(id, "committed")
    BY <1>5 DEF CommitOK
  <2>2. value' \subseteq TxnIDs /\ faults' \in Nat
    BY <1>1, <1>5 DEF CommitOK, EngineTxn
  <2>3. Committed(t, ok) /\ ~txn[t].aborted
    BY <1>5 DEF Committed, ensureActive
  <2>. QED  BY <1>2, <1>3, <2>1, <2>2, <2>3
<1>6. CASE /\ ensureActive(t) /\ ~ok /\ value' = value /\ faults' \in Nat
           /\ engine' \in {engine, End(id, "aborted")}
  <2>1. ~Committed(t, ok) /\ ~txn[t].aborted /\ ~txn[t].committed
    BY <1>6 DEF Committed, ensureActive
  <2>2. CASE engine' = engine
    BY <1>1, <1>3, <1>6, <2>1, <2>2 DEF FlagsSound
  <2>3. CASE engine' = End(id, "aborted")
    BY <1>1, <1>2, <1>3, <1>6, <2>1, <2>3
  <2>. QED  BY <1>6, <2>2, <2>3
<1>7. CASE ensureActive(t) /\ ~ok /\ CommitConflict(id)
  BY <1>1, <1>6, <1>7 DEF CommitConflict
<1>8. CASE ensureActive(t) /\ ~ok /\ CommitFault(id)
  BY <1>1, <1>6, <1>8 DEF CommitFault
<1>. QED  BY <1>4, <1>5, <1>7, <1>8 DEF Commit

(* A Commit the holder calls himself stays in his hands. *)
LEMMA UserCommitIInv ==
    ASSUME IInv, NEW t \in Threads, UserCommit(t)
    PROVE  IInv'
<1>. DEFINE id == txn[t].id
<1>1. /\ txn[t].pc \in {"get", "put", "body"} /\ Call(t) \in {"update", "manual"}
  BY DEF UserCommit, InHand
<1>2. PICK ok \in BOOLEAN :
        /\ Commit(t, ok, txn[t].pc, txn[t].err)
        /\ log' = [log EXCEPT ![id].early = @ \/ ok]
  BY DEF UserCommit
<1>. DEFINE r == [txn[t] EXCEPT !.committed = Committed(t, ok),
                                !.pc = txn[t].pc, !.err = txn[t].err]
            l == [log[id] EXCEPT !.early = @ \/ ok]
<1>3. txn[t] \in TxnRecord /\ log[id] \in LogEntry /\ log[id].outcome = "open"
  BY <1>1, InCall
<1>4. txn[t].pc \in PCs /\ txn[t].err \in BOOLEAN /\ Committed(t, ok) \in BOOLEAN
  BY <1>3 DEF TxnRecord, Committed
<1>5. PICK e \in EngineTxn :
        /\ engine' = [engine EXCEPT ![id] = e]
        /\ e.read = engine[id].read /\ e.write = engine[id].write
        /\ e.snapshot = engine[id].snapshot
        /\ Committed(t, ok) <=> e.state = "committed"
        /\ txn[t].aborted => e.state = "aborted"
  BY <1>1, <1>2, <1>4, CommitEngine
<1>6. value' \subseteq TxnIDs /\ faults' \in Nat
  BY <1>1, <1>2, <1>4, CommitEngine
<1>7. /\ r \in TxnRecord /\ r.pc = txn[t].pc /\ r.err = txn[t].err /\ r.id = id
      /\ r.committed = Committed(t, ok) /\ r.aborted = txn[t].aborted
      /\ r.seen = txn[t].seen
  BY <1>3, <1>4 DEF TxnRecord
<1>8. /\ l \in LogEntry /\ l.call = log[id].call /\ l.outcome = "open"
      /\ l.early = (log[id].early \/ ok)
  BY <1>3 DEF LogEntry
<1>9. txn' = [txn EXCEPT ![t] = r] /\ log' = [log EXCEPT ![id] = l]
  BY <1>2 DEF Commit
<1>10. FlagsSound(r, e) /\ OutcomeSound(e, l) /\ WriteSound(id, e)
  BY <1>1, <1>5, <1>7, <1>8, InCall DEF FlagsSound, OutcomeSound, WriteSound
<1>11. CallSound(txn[t], engine[id], log[id])
  BY <1>1, InCall
<1>12. CallSound(r, e, l)
  BY <1>1, <1>5, <1>7, <1>8, <1>11 DEF CallSound, Call, Committed
<1>13. r.pc # "idle" /\ txn[t].pc # "idle"
  BY <1>1, <1>7
<1>. HIDE DEF r, l
<1>. QED  BY <1>5, <1>6, <1>7, <1>8, <1>9, <1>10, <1>12, <1>13, LocalStep

(* The Commit at the end of a call decides whether it returns an error. *)
LEMMA FinalCommitIInv ==
    ASSUME IInv, NEW t \in Threads, FinalCommit(t)
    PROVE  IInv'
<1>. DEFINE id == txn[t].id
<1>1. txn[t].pc = "commit"
  BY DEF FinalCommit
<1>2. PICK ok \in BOOLEAN :
        Commit(t, ok, "abort", ReturnsError(t, ok)) /\ log' = log
  BY DEF FinalCommit
<1>. DEFINE err == ReturnsError(t, ok)
            r == [txn[t] EXCEPT !.committed = Committed(t, ok),
                                !.pc = "abort", !.err = err]
<1>3. txn[t] \in TxnRecord /\ log[id] \in LogEntry /\ log[id].outcome = "open"
      /\ log = [log EXCEPT ![id] = log[id]]
  BY <1>1, InCall
<1>4. /\ err \in BOOLEAN /\ "abort" \in PCs /\ Committed(t, ok) \in BOOLEAN
      /\ err <=> ~ok /\ log[id].call # "get"
  BY <1>3 DEF TxnRecord, Committed, ReturnsError, PCs, Call
<1>. HIDE DEF err
<1>5. PICK e \in EngineTxn :
        /\ engine' = [engine EXCEPT ![id] = e]
        /\ e.read = engine[id].read /\ e.write = engine[id].write
        /\ e.snapshot = engine[id].snapshot
        /\ Committed(t, ok) <=> e.state = "committed"
        /\ txn[t].aborted => e.state = "aborted"
  BY <1>1, <1>2, <1>4, CommitEngine DEF err
<1>6. value' \subseteq TxnIDs /\ faults' \in Nat
  BY <1>1, <1>2, <1>4, CommitEngine DEF err
<1>7. /\ r \in TxnRecord /\ r.pc = "abort" /\ r.err = err /\ r.id = id
      /\ r.committed = Committed(t, ok) /\ r.aborted = txn[t].aborted
  BY <1>3, <1>4 DEF TxnRecord
<1>8. txn' = [txn EXCEPT ![t] = r] /\ log' = [log EXCEPT ![id] = log[id]]
  BY <1>2, <1>3 DEF Commit, err
<1>9. FlagsSound(r, e) /\ OutcomeSound(e, log[id]) /\ WriteSound(id, e)
  BY <1>1, <1>3, <1>5, <1>7, InCall DEF FlagsSound, OutcomeSound, WriteSound
<1>10. CallSound(txn[t], engine[id], log[id])
  BY <1>1, InCall
<1>11. ok => ensureActive(t)
  BY <1>2 DEF Commit
<1>12. CallSound(r, e, log[id])
  <2>1. txn[t].committed => log[id].early /\ log[id].call = "update"
    BY <1>1, <1>10 DEF CallSound
  <2>2. log[id].call # "scan"
    BY <1>1, <1>10 DEF CallSound
  <2>. QED  BY <1>4, <1>7, <1>11, <2>1, <2>2 DEF CallSound, Committed, ensureActive
<1>13. r.pc # "idle" /\ txn[t].pc # "idle"
  BY <1>1, <1>7
<1>. HIDE DEF r
<1>. QED  BY <1>3, <1>5, <1>6, <1>7, <1>8, <1>9, <1>12, <1>13, LocalStep

(* Abort sets its flag exactly when it may still act. *)
LEMMA AbortEngine ==
    ASSUME IInv, NEW t \in Threads, txn[t].pc # "idle", AbortNative(t)
    PROVE  \E e \in EngineTxn :
             /\ engine' = [engine EXCEPT ![txn[t].id] = e]
             /\ e.read = engine[txn[t].id].read
             /\ e.write = engine[txn[t].id].write
             /\ e.snapshot = engine[txn[t].id].snapshot
             /\ txn[t].committed <=> e.state = "committed"
             /\ txn[t].aborted \/ ensureActive(t) => e.state = "aborted"
<1>. DEFINE id == txn[t].id
            e == [engine[id] EXCEPT !.state = "aborted"]
<1>1. /\ id \in DOMAIN engine /\ engine[id] \in EngineTxn
      /\ FlagsSound(txn[t], engine[id])
      /\ engine = [engine EXCEPT ![id] = engine[id]]
  BY InCall
<1>2. /\ e \in EngineTxn /\ e.state = "aborted" /\ e.read = engine[id].read
      /\ e.write = engine[id].write /\ e.snapshot = engine[id].snapshot
      /\ End(id, "aborted") = [engine EXCEPT ![id] = e]
  BY <1>1 DEF EngineTxn, End
<1>. HIDE DEF e
<1>3. CASE ensureActive(t) /\ Active(id)
  BY <1>2, <1>3 DEF AbortNative, ensureActive
<1>4. CASE ~(ensureActive(t) /\ Active(id))
  <2>1. engine' = [engine EXCEPT ![id] = engine[id]]
    BY <1>1, <1>4 DEF AbortNative
  <2>2. ensureActive(t) => engine[id].state = "aborted"
    BY <1>1, <1>4 DEF ensureActive, Active, FlagsSound, EngineTxn
  <2>. QED  BY <1>1, <2>1, <2>2 DEF FlagsSound
<1>. QED  BY <1>3, <1>4

LEMMA UserAbortIInv ==
    ASSUME IInv, NEW t \in Threads, UserAbort(t)
    PROVE  IInv'
<1>. DEFINE id == txn[t].id
            r == [txn[t] EXCEPT !.aborted = @ \/ ensureActive(t)]
<1>1. txn[t].pc \in {"get", "put", "body"} /\ AbortNative(t)
  BY DEF UserAbort, InHand
<1>2. PICK e \in EngineTxn :
        /\ engine' = [engine EXCEPT ![id] = e]
        /\ e.read = engine[id].read /\ e.write = engine[id].write
        /\ e.snapshot = engine[id].snapshot
        /\ txn[t].committed <=> e.state = "committed"
        /\ txn[t].aborted \/ ensureActive(t) => e.state = "aborted"
  BY <1>1, AbortEngine
<1>3. /\ txn[t] \in TxnRecord /\ log[id] \in LogEntry /\ log[id].outcome = "open"
      /\ log = [log EXCEPT ![id] = log[id]]
      /\ value \subseteq TxnIDs /\ faults \in Nat
  BY <1>1, InCall
<1>4. /\ r \in TxnRecord /\ r.pc = txn[t].pc /\ r.id = id /\ r.err = txn[t].err
      /\ r.committed = txn[t].committed /\ r.seen = txn[t].seen
      /\ r.aborted = (txn[t].aborted \/ ensureActive(t))
  BY <1>3 DEF TxnRecord, ensureActive
<1>5. /\ txn' = [txn EXCEPT ![t] = r] /\ log' = [log EXCEPT ![id] = log[id]]
      /\ value' \subseteq TxnIDs /\ faults' \in Nat
  BY <1>3 DEF UserAbort
<1>6. CallSound(txn[t], engine[id], log[id]) /\ WriteSound(id, engine[id])
  BY <1>1, InCall
<1>7. /\ FlagsSound(r, e) /\ OutcomeSound(e, log[id]) /\ WriteSound(id, e)
      /\ CallSound(r, e, log[id])
  BY <1>2, <1>3, <1>4, <1>6
     DEF FlagsSound, OutcomeSound, WriteSound, CallSound
<1>8. r.pc # "idle" /\ txn[t].pc # "idle"
  BY <1>1, <1>4
<1>. HIDE DEF r
<1>. QED  BY <1>2, <1>3, <1>4, <1>5, <1>7, <1>8, LocalStep

(* The transaction is over and its outcome reported. *)
LEMMA ReturnStep ==
    ASSUME IInv, NEW t \in Threads, txn[t].pc # "idle",
           NEW e \in EngineTxn, NEW outcome \in {"ok", "error"},
           engine' = [engine EXCEPT ![txn[t].id] = e],
           e.read = engine[txn[t].id].read, e.write = engine[txn[t].id].write,
           e.snapshot = engine[txn[t].id].snapshot,
           Report(t, outcome), txn' = [txn EXCEPT ![t] = Closed],
           UNCHANGED <<value, faults>>,
           outcome = "ok" /\ Call(t) \notin {"get", "scan"}
             => e.state = "committed",
           outcome = "error" /\ ~(Call(t) = "update" /\ log[txn[t].id].early)
             => e.state # "committed",
           e.state = "active" => Call(t) = "scan"
    PROVE  IInv'
<1>. DEFINE id == txn[t].id
            l == [log[id] EXCEPT !.outcome = outcome]
<1>1. /\ log[id] \in LogEntry /\ WriteSound(id, engine[id])
      /\ value \subseteq TxnIDs /\ faults \in Nat
  BY InCall
<1>2. /\ l \in LogEntry /\ l.outcome = outcome /\ l.call = log[id].call
      /\ l.early = log[id].early
  BY <1>1 DEF LogEntry, Outcomes
<1>3. log' = [log EXCEPT ![id] = l]
  BY DEF Report
<1>4. OutcomeSound(e, l) /\ WriteSound(id, e)
  BY <1>1, <1>2 DEF OutcomeSound, WriteSound, Call
<1>5. Closed \in TxnRecord /\ Closed.pc = "idle" /\ Closed.id = NoTxn
  BY DEF Closed, TxnRecord, PCs
<1>6. e.state = "active" => l.call = "scan"
  BY <1>2 DEF Call
<1>. HIDE DEF l
<1>. QED  BY <1>1, <1>2, <1>3, <1>4, <1>5, <1>6, LocalStep

LEMMA ReturnIInv ==
    ASSUME IInv, NEW t \in Threads,
           Leave(t) \/ DeferredAbort(t) \/ CloseIterator(t)
    PROVE  IInv'
<1>. DEFINE id == txn[t].id
<1>1. txn[t].pc \in {"body", "abort", "iterate"}
  BY DEF Leave, DeferredAbort, CloseIterator
<1>2. /\ engine[id] \in EngineTxn /\ FlagsSound(txn[t], engine[id])
      /\ engine = [engine EXCEPT ![id] = engine[id]]
      /\ CallSound(txn[t], engine[id], log[id]) /\ txn[t] \in TxnRecord
  BY <1>1, InCall
<1>3. CASE Leave(t)
  <2>. DEFINE outcome == IF txn[t].committed THEN "ok" ELSE "error"
  <2>1. /\ outcome \in {"ok", "error"} /\ Report(t, outcome)
        /\ txn' = [txn EXCEPT ![t] = Closed] /\ UNCHANGED <<value, engine, faults>>
        /\ ~ensureActive(t)
    BY <1>3 DEF Leave
  <2>2. /\ engine[id].state # "active"
        /\ outcome = "ok" <=> engine[id].state = "committed"
    BY <1>2, <2>1 DEF ensureActive, FlagsSound
  <2>. HIDE DEF outcome
  <2>3. outcome = "error" => engine[id].state # "committed"
    BY <2>2
  <2>. QED  BY <1>1, <1>2, <2>1, <2>2, <2>3, ReturnStep
<1>4. CASE DeferredAbort(t)
  <2>. DEFINE outcome == IF txn[t].err THEN "error" ELSE "ok"
  <2>1. /\ outcome \in {"ok", "error"} /\ Report(t, outcome) /\ AbortNative(t)
        /\ txn' = [txn EXCEPT ![t] = Closed] /\ UNCHANGED <<value, faults>>
        /\ txn[t].pc = "abort"
    BY <1>4 DEF DeferredAbort
  <2>2. PICK e \in EngineTxn :
          /\ engine' = [engine EXCEPT ![id] = e]
          /\ e.read = engine[id].read /\ e.write = engine[id].write
          /\ e.snapshot = engine[id].snapshot
          /\ txn[t].committed <=> e.state = "committed"
          /\ txn[t].aborted \/ ensureActive(t) => e.state = "aborted"
    BY <1>1, <2>1, AbortEngine
  <2>3. e.state # "active"
    BY <2>2 DEF ensureActive
  <2>4. /\ outcome = "ok" /\ Call(t) \notin {"get", "scan"} => e.state = "committed"
        /\ outcome = "error" /\ ~(Call(t) = "update" /\ log[id].early)
             => e.state # "committed"
    BY <1>2, <2>1, <2>2 DEF CallSound, Call
  <2>. HIDE DEF outcome
  <2>. QED  BY <1>1, <2>1, <2>2, <2>3, <2>4, ReturnStep
<1>5. CASE CloseIterator(t)
  <2>1. /\ Report(t, "ok") /\ txn[t].pc = "iterate"
        /\ txn' = [txn EXCEPT ![t] = Closed] /\ UNCHANGED <<value, engine, faults>>
    BY <1>5 DEF CloseIterator
  <2>2. Call(t) = "scan"
    BY <1>2, <2>1 DEF CallSound, Call
  <2>. QED  BY <1>1, <1>2, <2>1, <2>2, ReturnStep
<1>. QED  BY <1>3, <1>4, <1>5

(* IInv is inductive. *)
LEMMA NextIInv ==
    ASSUME IInv, [Next]_vars
    PROVE  IInv'
<1>1. CASE UNCHANGED vars
  BY <1>1 DEF vars, IInv, TypeOK, Ownership, FlagsTellTruth, OutcomeIsTrue,
              NothingLeaks, Call
<1>2. ASSUME NEW t \in Threads, Step(t)
      PROVE  IInv'
  BY <1>2, GetIInv, PutIInv, ErrorIInv, UserCommitIInv, UserAbortIInv,
     FinalCommitIInv, ReturnIInv DEF Step
<1>3. ASSUME NEW t \in Threads, NEW call \in Calls, Begin(t, call)
      PROVE  IInv'
  BY <1>3, BeginIInv
<1>. QED  BY <1>1, <1>2, <1>3 DEF Next

(* The strengthened invariant: types, ownership, truthful flags and        *)
(* outcomes, and writes that come from the snapshot that was read.         *)
THEOREM TxnInvariant == Spec => []IInv
BY InitIInv, NextIInv, PTL DEF Spec

(* The flags of a Transaction never disagree with the engine. *)
THEOREM FlagsAlwaysTrue == Spec => []FlagsTellTruth
<1>1. IInv => FlagsTellTruth
  BY DEF IInv
<1>. QED  BY <1>1, TxnInvariant, PTL

(* nil means committed, an error means that nothing happened. *)
THEOREM OutcomesAlwaysTrue == Spec => []OutcomeIsTrue
<1>1. IInv => OutcomeIsTrue
  BY DEF IInv
<1>. QED  BY <1>1, TxnInvariant, PTL

(* Only ScanPrefix leaves a transaction behind. *)
THEOREM NothingEverLeaks == Spec => []NothingLeaks
<1>1. IInv => NothingLeaks
  BY DEF IInv
<1>. QED  BY <1>1, TxnInvariant, PTL

-----------------------------------------------------------------------------
(* The refinement *)

(* A Commit is the one step of the cell, or no step of it. *)
LEMMA CommitRefines ==
    ASSUME IInv, NEW t \in Threads, txn[t].pc # "idle", NEW ok \in BOOLEAN,
           NEW pc \in PCs, NEW err \in BOOLEAN, Commit(t, ok, pc, err)
    PROVE  Cell!Next \/ UNCHANGED <<value, CommittedTxns>>
<1>. DEFINE id == txn[t].id
<1>1. /\ id \in DOMAIN engine /\ id \in TxnIDs /\ engine[id] \in EngineTxn
      /\ WriteSound(id, engine[id])
  BY InCall
<1>2. ASSUME NEW state \in {"aborted", "committed"}, Active(id),
             engine' = End(id, state)
      PROVE  CommittedTxns' = IF state = "committed" THEN CommittedTxns \cup {id}
                              ELSE CommittedTxns
  <2>1. /\ DOMAIN engine' = DOMAIN engine /\ engine'[id].state = state
        /\ \A i \in DOMAIN engine \ {id} : engine'[i] = engine[i]
    BY <1>1, <1>2 DEF End, EngineTxn, IInv, TypeOK
  <2>. QED  BY <1>1, <1>2, <2>1 DEF CommittedTxns, Active
<1>3. CASE UNCHANGED <<value, engine>>
  BY <1>3 DEF CommittedTxns
<1>4. CASE CommitConflict(id)
  BY <1>2, <1>4 DEF CommitConflict
<1>5. CASE CommitFault(id)
  <2>1. CASE UNCHANGED engine
    BY <1>3, <1>5, <2>1 DEF CommitFault
  <2>2. CASE Active(id) /\ engine' = End(id, "aborted")
    BY <1>2, <1>5, <2>2 DEF CommitFault
  <2>. QED  BY <1>5, <2>1, <2>2 DEF CommitFault
<1>6. CASE CommitOK(id)
  <2>1. CommittedTxns' = CommittedTxns \cup {id} /\ id \notin CommittedTxns
    BY <1>2, <1>6 DEF CommitOK, CommittedTxns, Active
  <2>2. CASE engine[id].write = {}
    <3>1. Cell!Read(id)
      BY <1>6, <2>1, <2>2 DEF CommitOK, Cell!Read, Cell!Takes
    <3>. QED  BY <1>1, <3>1 DEF Cell!Next
  <2>3. CASE engine[id].write = {id}
    <3>1. Cell!Overwrite(id)
      BY <1>6, <2>1, <2>3 DEF CommitOK, Cell!Overwrite, Cell!Takes
    <3>. QED  BY <1>1, <3>1 DEF Cell!Next
  <2>4. CASE /\ engine[id].write # {} /\ engine[id].read
             /\ engine[id].write = engine[id].snapshot \cup {id}
    <3>1. engine[id].snapshot = value
      BY <1>6, <2>4 DEF CommitOK, Serializable, Overtaken
    <3>2. Cell!Update(id)
      BY <1>6, <2>1, <2>4, <3>1 DEF CommitOK, Cell!Update, Cell!Takes
    <3>. QED  BY <1>1, <3>2 DEF Cell!Next
  <2>. QED  BY <1>1, <2>2, <2>3, <2>4 DEF WriteSound
<1>. QED  BY <1>3, <1>4, <1>5, <1>6 DEF Commit

(* Nothing but a Commit changes the value or commits a transaction. *)
LEMMA OtherStepsStutter ==
    ASSUME IInv, NEW t \in Threads,
           \/ \E call \in Calls : Begin(t, call)
           \/ Get(t) \/ Put(t) \/ Refused(t) \/ RequestFails(t)
           \/ UserAbort(t) \/ FunctionReturns(t) \/ Leave(t)
           \/ DeferredAbort(t) \/ CloseIterator(t)
    PROVE  UNCHANGED <<value, CommittedTxns>>
<1>1. CASE \E call \in Calls : Begin(t, call)
  <2>1. \E i \in TxnIDs : i \notin DOMAIN engine
    BY <1>1 DEF Begin
  <2>2. Fresh \notin DOMAIN engine
    BY <2>1 DEF Fresh
  <2>. DEFINE new == Fresh
  <2>3. /\ value' = value
        /\ engine' = [i \in DOMAIN engine \cup {new} |->
                       IF i = new THEN [state |-> "active", snapshot |-> value,
                                        read |-> FALSE, write |-> {}]
                       ELSE engine[i]]
    BY <1>1 DEF Begin
  <2>. HIDE DEF new
  <2>4. /\ DOMAIN engine' = DOMAIN engine \cup {new}
        /\ engine'[new].state = "active"
        /\ \A i \in DOMAIN engine \ {new} : engine'[i] = engine[i]
    BY <2>3
  <2>. QED  BY <2>2, <2>3, <2>4 DEF CommittedTxns, new
<1>2. CASE Get(t) \/ Put(t)
  <2>1. txn[t].pc # "idle" /\ value' = value
    BY <1>2 DEF Get, Put
  <2>2. txn[t].id \in DOMAIN engine /\ engine[txn[t].id] \in EngineTxn
    BY <2>1, InCall
  <2>3. /\ DOMAIN engine' = DOMAIN engine
        /\ \A i \in DOMAIN engine : engine'[i].state = engine[i].state
    BY <1>2, <2>2 DEF Get, Put, GetNative, EngineTxn, IInv, TypeOK
  <2>. QED  BY <2>1, <2>3 DEF CommittedTxns
<1>3. CASE UserAbort(t) \/ DeferredAbort(t)
  <2>1. txn[t].pc # "idle" /\ AbortNative(t) /\ value' = value
    BY <1>3 DEF UserAbort, DeferredAbort, InHand
  <2>2. txn[t].id \in DOMAIN engine /\ engine[txn[t].id] \in EngineTxn
    BY <2>1, InCall
  <2>3. CASE engine' = engine
    BY <2>1, <2>3 DEF CommittedTxns
  <2>4. CASE Active(txn[t].id) /\ engine' = End(txn[t].id, "aborted")
    <3>1. /\ DOMAIN engine' = DOMAIN engine
          /\ engine'[txn[t].id].state = "aborted"
          /\ \A i \in DOMAIN engine \ {txn[t].id} : engine'[i] = engine[i]
      BY <2>2, <2>4 DEF End, EngineTxn, IInv, TypeOK
    <3>. QED  BY <2>1, <2>4, <3>1 DEF CommittedTxns, Active
  <2>. QED  BY <2>1, <2>3, <2>4 DEF AbortNative
<1>4. CASE UNCHANGED <<value, engine>>
  BY <1>4 DEF CommittedTxns
<1>. QED  BY <1>1, <1>2, <1>3, <1>4
          DEF Refused, RequestFails, FunctionReturns, Leave, CloseIterator

(* The transactions of the SDK, for any goroutines in any calls, implement *)
(* the atomic cell: no update is lost, every call happens at one point in  *)
(* time or not at all.                                                     *)
THEOREM TransactionsAreAtomic == Spec => ImplementsCell
<1>1. Init => Cell!Init
  BY DEF Init, Cell!Init, CommittedTxns
<1>2. IInv /\ [Next]_vars => [Cell!Next]_<<value, CommittedTxns>>
  <2>. SUFFICES ASSUME IInv, [Next]_vars
                PROVE  Cell!Next \/ UNCHANGED <<value, CommittedTxns>>
    OBVIOUS
  <2>1. CASE UNCHANGED vars
    BY <2>1 DEF vars, CommittedTxns
  <2>2. ASSUME NEW t \in Threads, UserCommit(t) \/ FinalCommit(t)
        PROVE  Cell!Next \/ UNCHANGED <<value, CommittedTxns>>
    <3>1. txn[t].pc # "idle"
      BY <2>2 DEF UserCommit, FinalCommit, InHand
    <3>2. txn[t] \in TxnRecord
      BY <3>1, InCall
    <3>3. PICK ok \in BOOLEAN :
            \/ Commit(t, ok, txn[t].pc, txn[t].err)
            \/ Commit(t, ok, "abort", ReturnsError(t, ok))
      BY <2>2 DEF UserCommit, FinalCommit
    <3>4. /\ txn[t].pc \in PCs /\ txn[t].err \in BOOLEAN
          /\ "abort" \in PCs /\ ReturnsError(t, ok) \in BOOLEAN
      BY <3>2 DEF TxnRecord, PCs, ReturnsError
    <3>. QED  BY <3>1, <3>3, <3>4, CommitRefines
  <2>. QED  BY <2>1, <2>2, OtherStepsStutter DEF Next, Step
<1>. QED  BY <1>1, <1>2, TxnInvariant, PTL DEF Spec, ImplementsCell, Cell!Spec

=============================================================================
