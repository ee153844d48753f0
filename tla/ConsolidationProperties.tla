----------------------- MODULE ConsolidationProperties -----------------------
(***************************************************************************)
(* What the log of memory_consolidation.go and its canonical view keep.    *)
(***************************************************************************)
EXTENDS Consolidation

TypeOK ==
    /\ clock \in Times /\ adds \in 0..MaxAdds
    /\ DOMAIN assertion \subseteq IDs /\ assertion \in [DOMAIN assertion -> Assertion]
    /\ DOMAIN contradiction \subseteq IDs \X IDs
    /\ contradiction \in [DOMAIN contradiction -> Times]
    /\ DOMAIN canonical \subseteq Facts
    /\ canonical \in [DOMAIN canonical -> CanonicalFact]
    /\ writer \in [Writers -> [id : IDs \cup {NoCall.id}, todo : SUBSET IDs]]

(* Nothing is retracted in favour of an assertion that was never stored:   *)
(* AddWithContradiction may stop after any of its Puts, and what is there  *)
(* by then makes sense on its own.                                         *)
ContradictionsGrounded ==
    \A p \in DOMAIN contradiction : p[2] \in DOMAIN assertion

(* What speaks for a fact: its assertions that no contradiction of         *)
(* MaxConflictAge or less is stored against.                               *)
InForce(i) == {p \in DOMAIN contradiction : p[1] = i /\ ~AgedOut(contradiction[p])}

Evidence(f) ==
    {i \in DOMAIN assertion : assertion[i].fact = f /\ InForce(i) = {}}

Finished(c) ==
    run[c].pc = "write" /\ run[c].todo = {} /\ ~run[c].dirty

(* Unless some contradictions of an assertion have aged out and others are *)
(* in force: Consolidate looks at one of them.                             *)
Unanimous(f) ==
    \A i \in DOMAIN assertion : assertion[i].fact = f =>
      InForce(i) \in {{}, {p \in DOMAIN contradiction : p[1] = i}}

(* A Consolidate that nothing disturbed leaves every fact for which there  *)
(* is evidence with the sources and the first time of all its evidence,    *)
(* whatever older runs, failed Puts and half-done writers left behind.     *)
CleanRunRefreshes ==
    \A c \in Consolidators : Finished(c) =>
      \A f \in Facts \ run[c].skipped :
        Evidence(f) # {} /\ Unanimous(f) =>
          /\ f \in DOMAIN canonical
          /\ canonical[f] = Merged(assertion, Evidence(f))

(* "CanonicalFact computed from event log" (MEMORY_SYSTEM.md:77): after    *)
(* such a run, a canonical fact has evidence.                              *)
RetractedFactsGo ==
    \A c \in Consolidators : Finished(c) =>
      \A f \in DOMAIN canonical : Evidence(f) # {}
=============================================================================
