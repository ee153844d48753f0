--------------------------- MODULE MCConsolidation ---------------------------
(* Instances of Consolidation small enough for TLC. *)
EXTENDS ConsolidationProperties, TLC

CONSTANTS w1, w2, c1, c2, f1, f2, s1, s2, i1

(* The order of a scan: the assertions of f1, those of f2, then i1. *)
ByFact == [i \in IDs |-> IF i = i1 THEN 4
                         ELSE (IF i[1] = f1 THEN 0 ELSE 2)
                              + (IF i[2] = s1 THEN 0 ELSE 1)]

(* Consolidators are interchangeable. *)
Same == Permutations({c1, c2})

RetractF1 == {{}, {<<f1, s1>>}}
=============================================================================
