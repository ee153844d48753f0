--------------------------- MODULE ContextProperties ---------------------------
(***************************************************************************)
(* What the three ways of truncation promise of a context that was too     *)
(* large for its budget.                                                   *)
(***************************************************************************)
EXTENDS ContextBuilder

Truncated(t) ==
    result # NoResult /\ truncation = t /\ TotalTokens(sections) > tokenBudget

(* How many sections of priority p there are in s. *)
Many(s, p) == Cardinality({i \in DOMAIN s : s[i].priority = p})

(* Dropping from the end stays within the budget, and what is dropped is   *)
(* of no higher priority than what is kept: a section is not kept in place *)
(* of one that comes before it.                                            *)
TailDropKeepsFirst ==
    Truncated("tail_drop") =>
      /\ TotalTokens(result) =< tokenBudget
      /\ \A p \in Priorities : \A q \in Priorities :
           p < q /\ Many(result, q) > 0 => Many(result, p) = Many(sections, p)

(* Dropping from the front never drops more than the excess, so that the   *)
(* budget is used up or exceeded; but of what is kept, no section is there *)
(* to spare.                                                               *)
HeadDropTight ==
    Truncated("head_drop") =>
      /\ TotalTokens(result) >= tokenBudget
      /\ \A i \in DOMAIN result :
           TotalTokens(result) < tokenBudget + result[i].tokens

(* Proportional truncation keeps every section and misses the budget by no *)
(* more than one token a section, as reported and as the texts that are    *)
(* left would be estimated.                                                *)
ProportionalNear ==
    Truncated("proportional") =>
      /\ \A p \in Priorities : Many(result, p) = Many(sections, p)
      /\ TotalTokens(result) =< tokenBudget + Len(sections)
      /\ Total([i \in DOMAIN result |-> estimateTokens(result[i].length)])
           =< tokenBudget + Len(sections)
=============================================================================
