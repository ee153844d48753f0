----------------------------- MODULE Collections ------------------------------
(***************************************************************************)
(* namespace.go: goroutines create, open, fill and delete one collection.  *)
(* It is the keys below "_collection/<namespace>/<name>/": one for its     *)
(* metadata and one for each vector.  Every call is one or more requests   *)
(* to the database, and one action below is the code up to a request.      *)
(*                                                                         *)
(* Of a configuration only the dimension is kept, of a vector its length.  *)
(* Calls that change nothing (Get, Search, Count, ListCollections, and all *)
(* that return an error before they write) are left out, and InsertMany is *)
(* Insert again and again until one fails.                                 *)
(***************************************************************************)
EXTENDS Naturals

CONSTANTS
    Clients,      \* goroutines, each in a process of its own
    VectorIDs,
    Metadata,     \* the key of the metadata
    Dimensions,   \* the dimensions of configurations; 0 accepts any vector
    Lengths,      \* the lengths of vectors
    NoHandle

ASSUME CollectionsAssumption ==
    /\ Metadata \notin VectorIDs
    /\ Clients \cap VectorIDs = {}
    /\ Dimensions \subseteq Nat /\ 0 \in Dimensions
    /\ Lengths \subseteq Nat \ {0}
    /\ NoHandle \notin Dimensions

Keys == VectorIDs \cup {Metadata}

VARIABLES
    db,        \* the stored keys: the dimension, and the length of vectors
    handle,    \* the dimension in the Collection each goroutine holds
    op,        \* the call each goroutine is in
    current    \* history: the handles that come from the metadata now stored,
               \*   and the vectors inserted through such handles

collectionsVars == <<db, handle, op, current>>

-----------------------------------------------------------------------------
CollectionPCs == {"idle", "create", "put", "delete"}

Idle == [pc |-> "idle", dimension |-> 0, todo |-> {},
         scans |-> FALSE, begun |-> FALSE, failed |-> FALSE,  \* of a deletion
         unread |-> {},     \* history: keys a deletion's scan did not return
         raced |-> FALSE]   \* history: another goroutine put what matters to it

Exists == Metadata \in DOMAIN db

WithKey(k, d) == [j \in DOMAIN db \cup {k} |-> IF j = k THEN d ELSE db[j]]

Erased(k) == [j \in DOMAIN db \ {k} |-> db[j]]

(* What another one's Put of a key does to the outcome of a call. *)
RacedBy(u, k) ==
    [op[u] EXCEPT !.raced = @ \/ op[u].pc = "delete"
                              \/ (op[u].pc = "put" /\ k = Metadata)]

AfterPut(t, k, o) == [u \in Clients |-> IF u = t THEN o ELSE RacedBy(u, k)]

(* The dimension check of Insert. *)
Fits(n, d) == d > 0 => n = d

CollectionsInit ==
    /\ db = [k \in {} |-> 0]
    /\ handle = [t \in Clients |-> NoHandle]
    /\ op = [t \in Clients |-> Idle]
    /\ current = {}

-----------------------------------------------------------------------------
(* Mutant: a collection that exists gets the configuration asked for. *)
ConfigAskedFor(d) == d

(* The configuration comes from the stored metadata. *)
ConfigOf(d) == db[Metadata]

Opens(t, d) ==
    /\ handle' = [handle EXCEPT ![t] = ConfigOf(d)]
    /\ current' = current \cup {t}
    /\ UNCHANGED <<db, op>>

Collection(t) ==
    /\ op[t].pc = "idle" /\ Exists
    /\ Opens(t, db[Metadata])

GetOrCreateCollection(t, d) ==
    /\ op[t].pc = "idle"
    /\ \/ Exists /\ Opens(t, d)
       \/ /\ ~Exists
          /\ op' = [op EXCEPT ![t] = [Idle EXCEPT !.pc = "create", !.dimension = d]]
          /\ UNCHANGED <<db, handle, current>>

(* Mutant: CreateCollection does not look whether the collection exists. *)
MayCreateAnyway == TRUE

MayCreate == ~Exists

(* The Get of CreateCollection, called directly or by GetOrCreate, which   *)
(* passes on the error for a collection created in the meantime.           *)
CreateCollection(t, d) ==
    /\ op[t].pc = "idle" \/ (op[t].pc = "create" /\ d = op[t].dimension)
    /\ op' = [op EXCEPT ![t] = IF MayCreate
                               THEN [Idle EXCEPT !.pc = "put", !.dimension = d]
                               ELSE Idle]
    /\ UNCHANGED <<db, handle, current>>

(* The Get of a creator fails. *)
GetFails(t) ==
    /\ op[t].pc = "create"
    /\ op' = [op EXCEPT ![t] = Idle]
    /\ UNCHANGED <<db, handle, current>>

PutMetadata(t) ==
    /\ op[t].pc = "put"
    /\ db' = WithKey(Metadata, op[t].dimension)
    /\ op' = AfterPut(t, Metadata, Idle)
    /\ \/ handle' = [handle EXCEPT ![t] = op[t].dimension] /\ current' = {t}
       \/ UNCHANGED handle /\ current' = {}   \* applied, answered by an error

PutFails(t) ==
    /\ op[t].pc = "put"
    /\ op' = [op EXCEPT ![t] = Idle]
    /\ UNCHANGED <<db, handle, current>>

-----------------------------------------------------------------------------
(* A handle is used without a look at the metadata. *)

Insert(t, i, n) ==
    /\ op[t].pc = "idle" /\ handle[t] # NoHandle
    /\ Fits(n, handle[t])
    /\ db' = WithKey(i, n)
    /\ op' = AfterPut(t, i, Idle)
    /\ current' = IF t \in current THEN current \cup {i} ELSE current \ {i}
    /\ UNCHANGED handle

Delete(t, i) ==
    /\ op[t].pc = "idle" /\ handle[t] # NoHandle
    /\ db' = Erased(i)
    /\ current' = current \ {i}
    /\ UNCHANGED <<handle, op>>

-----------------------------------------------------------------------------
(* What a scan may return.  The metadata comes before the vectors; a scan  *)
(* that breaks off looks like one that has ended, for iter.Err is not asked.*)
ScanReads == {read \in SUBSET DOMAIN db : read # {} /\ Exists => Metadata \in read}

(* Mutant: the scan is for the vectors only. *)
OnlyVectors(read, scans) == read \cap VectorIDs

(* Through a database that lacks the scan it asks for, DeleteCollection    *)
(* deletes the metadata only.                                              *)
ToDelete(read, scans) == IF scans THEN read ELSE {Metadata}

(* Goroutines have Namespaces of databases of either kind. *)
DeleteCollection(t, scans) ==
    /\ op[t].pc = "idle"
    /\ \E read \in ScanReads :
         /\ ~scans => read = DOMAIN db
         /\ op' = [op EXCEPT ![t] = [Idle EXCEPT !.pc = "delete", !.scans = scans,
                                                 !.todo = ToDelete(read, scans),
                                                 !.unread = DOMAIN db \ read]]
    /\ UNCHANGED <<db, handle, current>>

(* Mutant: the metadata comes last. *)
VectorsFirst(S) == IF S \subseteq {Metadata} THEN S ELSE S \ {Metadata}

(* A scan returns the metadata before the vectors. *)
FirstOf(S) == IF Metadata \in S THEN {Metadata} ELSE S

Deleted(t, k, ok) ==
    [op[t] EXCEPT !.todo = @ \ {k}, !.begun = TRUE, !.failed = @ \/ ~ok]

(* The answer of Delete is not looked at. *)
DeleteKey(t) ==
    /\ op[t].pc = "delete"
    /\ \E k \in FirstOf(op[t].todo), applied, ok \in BOOLEAN :
         /\ ok => applied
         /\ db' = IF applied THEN Erased(k) ELSE db
         /\ current' = IF ~applied THEN current
                       ELSE IF k = Metadata THEN {} ELSE current \ {k}
         /\ op' = [op EXCEPT ![t] = Deleted(t, k, ok)]
    /\ UNCHANGED handle

DeleteReturns(t) ==
    /\ op[t].pc = "delete" /\ op[t].todo = {}
    /\ op' = [op EXCEPT ![t] = Idle]
    /\ UNCHANGED <<db, handle, current>>

(* The process dies, and another one takes over. *)
Crash(t) ==
    /\ op' = [op EXCEPT ![t] = Idle]
    /\ handle' = [handle EXCEPT ![t] = NoHandle]
    /\ current' = current \ {t}
    /\ UNCHANGED db

CollectionsNext ==
    \E t \in Clients :
      \/ Collection(t) \/ GetFails(t) \/ PutMetadata(t) \/ PutFails(t)
      \/ \E d \in Dimensions : GetOrCreateCollection(t, d) \/ CreateCollection(t, d)
      \/ \E i \in VectorIDs : Delete(t, i) \/ \E n \in Lengths : Insert(t, i, n)
      \/ \E scans \in BOOLEAN : DeleteCollection(t, scans)
      \/ DeleteKey(t) \/ DeleteReturns(t) \/ Crash(t)

CollectionsSpec == CollectionsInit /\ [][CollectionsNext]_collectionsVars
=============================================================================
