----------------------------- MODULE EmbeddedTxn ------------------------------
(***************************************************************************)
(* The transactions of embedded/database.go: goroutines share a Database   *)
(* and call WithTransaction, Put, Get and ScanPrefix, or hold a            *)
(* Transaction of their own.  A Transaction carries two flags, committed   *)
(* and aborted; every method first asks ensureActive about them and then   *)
(* makes one native call, which is where the steps below are cut.          *)
(*                                                                         *)
(* The native engine is external: a transaction in it reads a snapshot,    *)
(* and sochdb_commit answers 0, -2 (serialization failure) or another code.*)
(* One key is enough for what the flags and the snapshot decide.  Its      *)
(* value is the set of the updates it includes, so that a lost one shows.  *)
(***************************************************************************)
EXTENDS Integers, FiniteSets

CONSTANTS
    Threads,    \* goroutines that use the database
    TxnIDs,     \* bound: the transactions the engine hands out
    Calls,      \* the calls the goroutines make
    MaxFaults,  \* bound: native calls that fail for no reason of the caller
    NoTxn       \* no transaction

AllCalls == {"update", "put", "get", "scan", "manual"}

ASSUME TxnAssumption ==
    /\ Calls \subseteq AllCalls
    /\ MaxFaults \in Nat
    /\ NoTxn \notin TxnIDs

VARIABLES
    value,    \* the committed value of the key
    engine,   \* the engine's transactions
    txn,      \* the call each goroutine is in, and its Transaction
    log,      \* history: what each transaction was begun for, how it was
              \*   reported, and whether its holder committed it early
    faults

vars == <<value, engine, txn, log, faults>>

-----------------------------------------------------------------------------
(* The engine *)

EngineTxn == [state : {"active", "committed", "aborted"},
              snapshot : SUBSET TxnIDs, read : BOOLEAN,
              write : SUBSET TxnIDs]   \* {} for none

Active(id) == id \in DOMAIN engine /\ engine[id].state = "active"

End(id, state) == [engine EXCEPT ![id].state = state]

Overtaken(id) == engine[id].snapshot # value

(* A transaction that wrote what it computed from a value since replaced   *)
(* does not commit.                                                        *)
Serializable(id) ==
    ~(engine[id].read /\ engine[id].write # {} /\ Overtaken(id))

CommitOK(id) ==
    /\ Active(id) /\ Serializable(id)
    /\ engine' = End(id, "committed")
    /\ value' = IF engine[id].write = {} THEN value ELSE engine[id].write
    /\ UNCHANGED faults

CommitConflict(id) ==
    /\ Active(id) /\ Overtaken(id)
    /\ engine' = End(id, "aborted")
    /\ UNCHANGED <<value, faults>>

(* Another error, with which the engine may or may not drop the            *)
(* transaction; also its answer for a transaction that has ended.          *)
CommitFault(id) ==
    /\ \/ ~Active(id) /\ UNCHANGED <<engine, faults>>
       \/ /\ Active(id) /\ faults < MaxFaults
          /\ faults' = faults + 1
          /\ engine' \in {engine, End(id, "aborted")}
    /\ UNCHANGED value

-----------------------------------------------------------------------------
(* The Transaction of a goroutine *)

PCs == {"idle", "get", "put", "body", "commit", "abort", "iterate"}

Closed == [pc |-> "idle", id |-> NoTxn, committed |-> FALSE, aborted |-> FALSE,
           seen |-> {}, err |-> FALSE]

Fresh == CHOOSE id \in TxnIDs : id \notin DOMAIN engine

Call(t) == log[txn[t].id].call

(* Mutant: ensureActive does not ask about committed. *)
NotAborted(t) == ~txn[t].aborted

ensureActive(t) == ~txn[t].committed /\ ~txn[t].aborted

(* Mutant: Commit sets its flag for the attempt, not for the success. *)
CommittedOnAttempt(t, ok) == txn[t].committed \/ ensureActive(t)

Committed(t, ok) == txn[t].committed \/ ok

(* Transaction.Commit; ok tells whether it returns nil, pc and err what    *)
(* its caller does with that.                                              *)
Commit(t, ok, pc, err) ==
    /\ \/ ~ensureActive(t) /\ ~ok /\ UNCHANGED <<value, engine, faults>>
       \/ ensureActive(t) /\ ok /\ CommitOK(txn[t].id)
       \/ ensureActive(t) /\ ~ok /\ CommitConflict(txn[t].id)
       \/ ensureActive(t) /\ ~ok /\ CommitFault(txn[t].id)
    /\ txn' = [txn EXCEPT ![t] = [@ EXCEPT !.committed = Committed(t, ok),
                                           !.pc = pc, !.err = err]]

(* Transaction.Abort does nothing once a flag is set.  The engine ignores  *)
(* it for a transaction that ended behind the flags, as after a conflict.  *)
AbortNative(t) ==
    engine' = IF ensureActive(t) /\ Active(txn[t].id)
              THEN End(txn[t].id, "aborted") ELSE engine

Report(t, outcome) == log' = [log EXCEPT ![txn[t].id].outcome = outcome]

-----------------------------------------------------------------------------
Init ==
    /\ value = {}
    /\ engine = [id \in {} |-> NoTxn]
    /\ txn = [t \in Threads |-> Closed]
    /\ log = [id \in {} |-> NoTxn]
    /\ faults = 0

FirstPC(call) ==
    CASE call = "put"  -> "put"
      [] call = "scan" -> "iterate"
      [] OTHER         -> "get"

(* Database.Begin, which every call starts with. *)
Begin(t, call) ==
    /\ txn[t].pc = "idle"
    /\ TxnIDs \ DOMAIN engine # {}
    /\ engine' = [id \in DOMAIN engine \cup {Fresh} |->
                    IF id = Fresh
                    THEN [state |-> "active", snapshot |-> value,
                          read |-> FALSE, write |-> {}]
                    ELSE engine[id]]
    /\ log' = [id \in DOMAIN log \cup {Fresh} |->
                 IF id = Fresh THEN [call |-> call, outcome |-> "open",
                                    early |-> FALSE]
                 ELSE log[id]]
    /\ txn' = [txn EXCEPT ![t] = [Closed EXCEPT !.pc = FirstPC(call),
                                                !.id = Fresh]]
    /\ UNCHANGED <<value, faults>>

(* Mutant: Get reads the database, not the transaction. *)
GetOutside(t) ==
    /\ txn' = [txn EXCEPT ![t].seen = value,
                          ![t].pc = IF Call(t) = "get" THEN "commit" ELSE "put"]
    /\ UNCHANGED engine

GetNative(t) ==
    /\ txn' = [txn EXCEPT ![t].seen = engine[txn[t].id].snapshot,
                          ![t].pc = IF Call(t) = "get" THEN "commit" ELSE "put"]
    /\ engine' = [engine EXCEPT ![txn[t].id].read = TRUE]

Get(t) ==
    /\ txn[t].pc = "get"
    /\ ensureActive(t) /\ Active(txn[t].id)
    /\ GetNative(t)
    /\ UNCHANGED <<value, log, faults>>

(* Database.Put overwrites; a function that read before adds to that. *)
Put(t) ==
    /\ txn[t].pc = "put"
    /\ ensureActive(t) /\ Active(txn[t].id)
    /\ engine' = [engine EXCEPT ![txn[t].id].write =
                    IF Call(t) = "put" THEN {txn[t].id}
                    ELSE txn[t].seen \cup {txn[t].id}]
    /\ txn' = [txn EXCEPT ![t].pc = IF Call(t) = "put" THEN "commit" ELSE "body"]
    /\ UNCHANGED <<value, log, faults>>

(* A call returns an error, after its deferred Abort. *)
Fail(t) == txn' = [txn EXCEPT ![t].pc = "abort", ![t].err = TRUE]

(* The error of Get or Put goes to whoever called it. *)
ErrorTo(t) ==
    IF Call(t) = "manual" THEN txn' = [txn EXCEPT ![t].pc = "body"] ELSE Fail(t)

(* Get or Put refused: by the flags, or by an engine that has ended it. *)
Refused(t) ==
    /\ txn[t].pc \in {"get", "put"}
    /\ ~(ensureActive(t) /\ Active(txn[t].id))
    /\ ErrorTo(t)
    /\ UNCHANGED <<value, engine, log, faults>>

RequestFails(t) ==
    /\ txn[t].pc \in {"get", "put"}
    /\ faults < MaxFaults
    /\ faults' = faults + 1
    /\ ErrorTo(t)
    /\ UNCHANGED <<value, engine, log>>

(* The function given to WithTransaction, or the holder of a Transaction,  *)
(* may call Commit and Abort at any point, and again.                      *)
InHand(t) ==
    txn[t].pc \in {"get", "put", "body"} /\ Call(t) \in {"update", "manual"}

UserCommit(t) ==
    /\ InHand(t)
    /\ \E ok \in BOOLEAN :
         /\ Commit(t, ok, txn[t].pc, txn[t].err)
         /\ log' = [log EXCEPT ![txn[t].id].early = @ \/ ok]

UserAbort(t) ==
    /\ InHand(t)
    /\ AbortNative(t)
    /\ txn' = [txn EXCEPT ![t].aborted = @ \/ ensureActive(t)]
    /\ UNCHANGED <<value, log, faults>>

(* The function returns nil or an error. *)
FunctionReturns(t) ==
    /\ txn[t].pc = "body" /\ Call(t) = "update"
    /\ txn' = [txn EXCEPT ![t].pc = "commit"] \/ Fail(t)
    /\ UNCHANGED <<value, engine, log, faults>>

(* The holder of a Transaction is done with it once a flag is set. *)
Leave(t) ==
    /\ txn[t].pc = "body" /\ Call(t) = "manual"
    /\ ~ensureActive(t)
    /\ Report(t, IF txn[t].committed THEN "ok" ELSE "error")
    /\ txn' = [txn EXCEPT ![t] = Closed]
    /\ UNCHANGED <<value, engine, faults>>

(* Mutant: WithTransaction and Put drop the error of Commit. *)
IgnoresError(t, ok) == FALSE

(* The Commit that ends WithTransaction, Put and Get; Get ignores its error.*)
ReturnsError(t, ok) == ~ok /\ Call(t) # "get"

FinalCommit(t) ==
    /\ txn[t].pc = "commit"
    /\ \E ok \in BOOLEAN : Commit(t, ok, "abort", ReturnsError(t, ok))
    /\ UNCHANGED log

DeferredAbort(t) ==
    /\ txn[t].pc = "abort"
    /\ AbortNative(t)
    /\ Report(t, IF txn[t].err THEN "error" ELSE "ok")
    /\ txn' = [txn EXCEPT ![t] = Closed]
    /\ UNCHANGED <<value, faults>>

(* Database.ScanPrefix keeps no reference to its Transaction; Close of the *)
(* iterator frees the iterator.                                            *)
CloseIterator(t) ==
    /\ txn[t].pc = "iterate"
    /\ Report(t, "ok")
    /\ txn' = [txn EXCEPT ![t] = Closed]
    /\ UNCHANGED <<value, engine, faults>>

Step(t) ==
    \/ Get(t) \/ Put(t) \/ Refused(t) \/ RequestFails(t)
    \/ UserCommit(t) \/ UserAbort(t) \/ FunctionReturns(t) \/ Leave(t)
    \/ FinalCommit(t) \/ DeferredAbort(t) \/ CloseIterator(t)

Next == \E t \in Threads : Step(t) \/ \E call \in Calls : Begin(t, call)

Spec == Init /\ [][Next]_vars

(* A goroutine inside a call is scheduled until the call returns. *)
FairSpec == Spec /\ \A t \in Threads : WF_vars(Step(t))
=============================================================================
