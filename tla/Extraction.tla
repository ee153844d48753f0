------------------------------ MODULE Extraction -------------------------------
(***************************************************************************)
(* ExtractionPipeline of memory_extraction.go: goroutines extract and      *)
(* commit results to one namespace of the embedded database.  Each item is *)
(* a Put, and a transaction, of its own, so that a failed one leaves       *)
(* nothing (EmbeddedTxn), and Commit ends at the first that fails.  Each   *)
(* goroutine has a pipeline, and so the array behind its prefix, of its    *)
(* own (SemanticCache has the case where an array is shared).              *)
(*                                                                         *)
(* The name of an entity, the ends of a relation, and a whole assertion    *)
(* are its fact.  GetEntities, GetRelations and GetAssertions change       *)
(* nothing and are left out; so are properties, provenance and times.      *)
(***************************************************************************)
EXTENDS Naturals

CONSTANTS
    Extractors,      \* goroutines that call ExtractAndCommit
    ItemFacts, ItemTypes,
    Confidences,     \* 0 where the extractor gives none
    FullConfidence,  \* 1.0
    MinConfidence,
    EntityTypes, RelationTypes,   \* what the schema allows; {}: anything
    ItemID,          \* the hash of type and fact: not one to one, as the
                     \*   fields are joined by ':' and may contain it
    Extracted,       \* what extractors return: sets of items
    MaxCommits       \* bound

Kinds == {"entity", "relation", "assertion"}

Items == [kind : Kinds, fact : ItemFacts, type : ItemTypes, confidence : Confidences]

ASSUME ExtractionAssumption ==
    /\ Confidences \subseteq Nat /\ FullConfidence \in Confidences
    /\ Extracted \subseteq SUBSET Items
    /\ ItemFacts \X ItemTypes \subseteq DOMAIN ItemID
    /\ MinConfidence \in Nat /\ MaxCommits \in Nat

VARIABLES
    knowledge,   \* the stored items and, history, the results they come from
    result,      \* of Extract: the result each goroutine commits
    uncommitted, \* what of it has not been stored
    commits      \* how many commits have begun

extractionVars == <<knowledge, result, uncommitted, commits>>

Key(i) == <<i.kind, ItemID[<<i.fact, i.type>>]>>

-----------------------------------------------------------------------------
(* Extract *)

(* A confidence of 0 cannot be told from one that is missing. *)
WithConfidence(i) ==
    IF i.confidence = 0 THEN [i EXCEPT !.confidence = FullConfidence] ELSE i

AllowedBy(types, i) == types = {} \/ i.type \in types

(* RequireProvenance is not looked at, nor are the ends of a relation. *)
Validated(i) ==
    /\ i.kind = "entity" => AllowedBy(EntityTypes, i)
    /\ i.kind = "relation" => AllowedBy(RelationTypes, i)
    /\ i.confidence >= MinConfidence

Extract(raw) == {i \in {WithConfidence(r) : r \in raw} : Validated(i)}

-----------------------------------------------------------------------------
(* Commit *)

(* Mutant: what is left is stored in any order. *)
AnyOf(S) == S

(* Entities before relations, and relations before assertions. *)
NextOf(S) ==
    LET entities == {i \in S : i.kind = "entity"}
        others   == {i \in S : i.kind # "assertion"}
    IN  IF entities # {} THEN entities ELSE IF others # {} THEN others ELSE S

ExtractionInit ==
    /\ knowledge = [k \in {} |-> {}]
    /\ result = [t \in Extractors |-> {}] /\ uncommitted = result
    /\ commits = 0

ExtractAndCommit(t, raw) ==
    /\ uncommitted[t] = {} /\ commits < MaxCommits
    /\ result' = [result EXCEPT ![t] = Extract(raw)]
    /\ uncommitted' = [uncommitted EXCEPT ![t] = Extract(raw)]
    /\ commits' = commits + 1
    /\ UNCHANGED knowledge

StoreItem(t) ==
    \E i \in NextOf(uncommitted[t]) :
      /\ knowledge' = [k \in DOMAIN knowledge \cup {Key(i)} |->
           IF k = Key(i) THEN [item |-> i, of |-> result[t]] ELSE knowledge[k]]
      /\ uncommitted' = [uncommitted EXCEPT ![t] = @ \ {i}]
      /\ UNCHANGED <<result, commits>>

(* Mutant: Commit goes on with the next item. *)
SkipsItem(t) == uncommitted[t] \ {CHOOSE i \in NextOf(uncommitted[t]) : TRUE}

NothingMore(t) == {}

(* Commit returns the error, or the process dies. *)
StoreFails(t) ==
    /\ uncommitted[t] # {}
    /\ uncommitted' = [uncommitted EXCEPT ![t] = NothingMore(t)]
    /\ UNCHANGED <<knowledge, result, commits>>

ExtractionNext ==
    \E t \in Extractors :
      \/ \E raw \in Extracted : ExtractAndCommit(t, raw)
      \/ StoreItem(t) \/ StoreFails(t)

ExtractionSpec == ExtractionInit /\ [][ExtractionNext]_extractionVars
=============================================================================
