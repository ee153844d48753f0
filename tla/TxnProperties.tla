---------------------------- MODULE TxnProperties -----------------------------
(***************************************************************************)
(* What the transactions of embedded/database.go guarantee.                *)
(***************************************************************************)
EXTENDS EmbeddedTxn

TxnRecord == [pc : PCs, id : TxnIDs \cup {NoTxn}, committed : BOOLEAN,
              aborted : BOOLEAN, seen : SUBSET TxnIDs, err : BOOLEAN]

Outcomes == {"open", "ok", "error"}

LogEntry == [call : AllCalls, outcome : Outcomes, early : BOOLEAN]

TypeOK ==
    /\ value \subseteq TxnIDs
    /\ DOMAIN engine \subseteq TxnIDs /\ engine \in [DOMAIN engine -> EngineTxn]
    /\ txn \in [Threads -> TxnRecord]
    /\ log \in [DOMAIN engine -> LogEntry]
    /\ faults \in Nat

(* The flags of a Transaction never say more than the engine did, whatever *)
(* order its holder, a function given to WithTransaction and the deferred  *)
(* Abort call Commit and Abort in: committed if and only if it committed,  *)
(* and aborted only if it was.  Without a flag it can still be retried.    *)
FlagsSound(r, e) ==
    /\ r.committed <=> e.state = "committed"
    /\ r.aborted => e.state = "aborted"

FlagsTellTruth ==
    \A t \in Threads :
      txn[t].pc # "idle" => FlagsSound(txn[t], engine[txn[t].id])

(* What a caller was told is what happened: a call that returned nil has   *)
(* committed (a Get only read), and after an error the engine kept nothing,*)
(* so the advice to retry after an error is safe.  The exception is a      *)
(* function that commits the transaction it was given: WithTransaction     *)
(* then finds it committed and returns an error.                           *)
OutcomeSound(e, l) ==
    /\ l.outcome = "ok" /\ l.call \notin {"get", "scan"} => e.state = "committed"
    /\ l.outcome = "error" /\ ~(l.call = "update" /\ l.early)
         => e.state # "committed"

OutcomeIsTrue == \A id \in DOMAIN engine : OutcomeSound(engine[id], log[id])

(* No call leaves a transaction behind in the engine, where it would hold  *)
(* its snapshot back for good: one that is active belongs to a goroutine   *)
(* inside its call, or to a ScanPrefix of the database.                    *)
NothingLeaks ==
    \A id \in DOMAIN engine : engine[id].state = "active" =>
      \/ \E t \in Threads : txn[t].id = id
      \/ log[id].call = "scan"

(* What these rest on: a transaction is in the hands of one goroutine, and *)
(* what it wrote comes from the snapshot it read.                          *)
Ownership ==
    /\ \A t \in Threads :
         IF txn[t].pc = "idle" THEN txn[t].id = NoTxn
         ELSE txn[t].id \in DOMAIN engine /\ log[txn[t].id].outcome = "open"
    /\ \A t, u \in Threads :
         txn[t].pc # "idle" /\ txn[t].id = txn[u].id => t = u

CallSound(r, e, l) ==
    /\ r.pc = "iterate" <=> l.call = "scan"
    /\ r.err => r.pc = "abort"
    /\ r.pc = "put" /\ l.call # "put" => e.read /\ r.seen = e.snapshot
    /\ r.pc = "abort" /\ ~r.err /\ l.call # "get" => r.committed
    /\ r.pc = "commit" => l.call # "manual"
    /\ r.committed /\ (r.err \/ r.pc # "abort") =>
         l.early /\ l.call \in {"update", "manual"}
    /\ r.committed /\ r.err => l.call = "update"

WriteSound(id, e) ==
    \/ e.write = {} \/ e.write = {id}
    \/ e.read /\ e.write = e.snapshot \cup {id}

IInv ==
    /\ TypeOK /\ Ownership
    /\ FlagsTellTruth /\ OutcomeIsTrue /\ NothingLeaks
    /\ \A t \in Threads : txn[t].pc # "idle" =>
         CallSound(txn[t], engine[txn[t].id], log[txn[t].id])
    /\ \A id \in DOMAIN engine : WriteSound(id, engine[id])

CommittedTxns == {id \in DOMAIN engine : engine[id].state = "committed"}

Cell == INSTANCE AtomicCell WITH applied <- CommittedTxns

(* Updates through WithTransaction never lose one another, and puts and    *)
(* gets happen at one point in time.                                       *)
ImplementsCell == Cell!Spec

(* "The transaction will be aborted when the iterator is closed"           *)
(* (embedded/database.go:264).                                             *)
ScanReleases ==
    \A id \in TxnIDs :
      Active(id) /\ log[id].call = "scan" /\ log[id].outcome = "ok"
        ~> ~Active(id)
=============================================================================
