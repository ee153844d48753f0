------------------------- MODULE ExtractionProperties -------------------------
(***************************************************************************)
(* What readers of the extracted knowledge can rely on.                    *)
(***************************************************************************)
EXTENDS Extraction

ExtractionTypeOK ==
    /\ knowledge \in [DOMAIN knowledge -> [item : Items, of : SUBSET Items]]
    /\ result \in [Extractors -> SUBSET Items]
    /\ uncommitted \in [Extractors -> SUBSET Items]
    /\ commits \in 0..MaxCommits

Before(i, j) ==
    \/ i.kind = "entity" /\ j.kind # "entity"
    \/ i.kind = "relation" /\ j.kind = "assertion"

(* Whoever finds a relation finds the entities that were extracted with    *)
(* it, and with an assertion also the relations, however Commits mingle    *)
(* and wherever they end: with the newest item stored under each key, the  *)
(* rest of its result that comes earlier is there under its own key.       *)
FoundTogether ==
    \A k \in DOMAIN knowledge :
      \A i \in knowledge[k].of :
        Before(i, knowledge[k].item) => Key(i) \in DOMAIN knowledge
=============================================================================
