------------------------------- MODULE MCStores --------------------------------
(***************************************************************************)
(* Instances of EmbeddedTxn, Collections, Traces, Extraction, Retrieval    *)
(* and QueueKeys small enough for TLC.  They share nothing; one run checks *)
(* them all: in each of its behaviours one part moves and the others stay  *)
(* as they began.                                                          *)
(***************************************************************************)
EXTENDS TxnProperties, CollectionsProperties, TracesProperties,
        ExtractionProperties, RetrievalProperties, QueueKeys

CONSTANTS g1, g2, v1, v2, r1, r2, d1, d2, e1, e2

VARIABLE part

storesVars == <<vars, collectionsVars, tracesVars, extractionVars, retrievalVars, entries>>

MCVars == <<part, storesVars>>

MCInit ==
    /\ Init /\ CollectionsInit /\ TracesInit /\ ExtractionInit
    /\ RetrievalInit /\ KeysInit
    /\ part \in {"txn", "collections", "traces", "extraction",
                "retrieval", "keys"}

(* Where the bounds leave nothing to do. *)
Over ==
    \/ /\ part = "txn" /\ DOMAIN engine = TxnIDs
       /\ \A t \in Threads : txn[t].pc = "idle"
    \/ /\ part = "traces" /\ micros = MaxMicros
       /\ \A t \in Tracers : job[t] = NoJob
    \/ /\ part = "extraction" /\ commits = MaxCommits
       /\ \A t \in Extractors : uncommitted[t] = {}
    \/ part = "keys" /\ Cardinality(DOMAIN entries) = MaxKeys

MCNext ==
    \/ /\ part = "txn" /\ Next
       /\ UNCHANGED <<part, collectionsVars, tracesVars, extractionVars,
                      retrievalVars, entries>>
    \/ /\ part = "collections" /\ CollectionsNext
       /\ UNCHANGED <<part, vars, tracesVars, extractionVars,
                      retrievalVars, entries>>
    \/ /\ part = "traces" /\ TracesNext
       /\ UNCHANGED <<part, vars, collectionsVars, extractionVars,
                      retrievalVars, entries>>
    \/ /\ part = "extraction" /\ ExtractionNext
       /\ UNCHANGED <<part, vars, collectionsVars, tracesVars,
                      retrievalVars, entries>>
    \/ /\ part = "retrieval" /\ RetrievalNext
       /\ UNCHANGED <<part, vars, collectionsVars, tracesVars,
                      extractionVars, entries>>
    \/ /\ part = "keys" /\ KeysNext
       /\ UNCHANGED <<part, vars, collectionsVars, tracesVars,
                      extractionVars, retrievalVars>>
    \/ Over /\ UNCHANGED MCVars

MCSpec == MCInit /\ [][MCNext]_MCVars

-----------------------------------------------------------------------------
(* Values of constants *)

(* Goroutines differ in nothing but their names, and nor do vectors. *)
Same == Permutations({g1, g2}) \cup Permutations({v1, v2})

Of(kind, fact, type, confidence) ==
    [kind |-> kind, fact |-> fact, type |-> type, confidence |-> confidence]

(* The hash of e1 and one is that of e2 and two. *)
MCItemID == [p \in {e1, e2} \X {"one", "two"} |->
               IF p = <<e2, "two">> THEN <<e1, "one">> ELSE p]

(* Two entities, a relation between them and an assertion; the second      *)
(* entity again with another confidence; and what the schema rejects.      *)
MCExtracted ==
    { {Of("entity", e1, "one", 0), Of("entity", e2, "one", 2),
       Of("relation", e1, "one", 2), Of("assertion", e1, "one", 2)},
      {Of("entity", e2, "one", 3), Of("relation", e1, "one", 3)},
      {Of("entity", e2, "two", 3), Of("entity", e1, "two", 1),
       Of("relation", e2, "two", 3), Of("assertion", e2, "one", 0)} }

MCTexts == {<<0, 0>>, <<0, 1>>, <<1, 0>>, <<1, 2>>}

(* Bytes are 0..3, and 1 is the separator: 5 is written with two of them.  *)
MCPrefix == <<3, 1>>
MCQueueIDs == {<<>>, <<2, 0>>}
MCTaskIDs == {<<0>>, <<1>>, <<1, 1, 2>>}
MCTaskPriorities == {-8, -3, -1, 0, 5, 7}
MCReadyTimes == {0, 5}
MCSequences == {0, 5, 15}
=============================================================================
