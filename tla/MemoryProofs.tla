----------------------------- MODULE MemoryProofs ----------------------------
(***************************************************************************)
(* Proofs about Consolidation for any writers, consolidators, facts and    *)
(* times, about Extraction for any goroutines, results and schema, and     *)
(* about Retrieval for any processes, documents, texts and limit.          *)
(***************************************************************************)
EXTENDS ConsolidationProperties, ExtractionProperties, RetrievalProperties,
        Sequences, WellFoundedInduction, FiniteSetTheorems, TLAPS

(* What a run has read, and what a writer in a call has stored.            *)
RunTyped(r) ==
    /\ r.pc \in {"idle", "scan", "write"}
    /\ DOMAIN r.log \subseteq IDs /\ r.log \in [DOMAIN r.log -> Assertion]
    /\ DOMAIN r.marks \subseteq IDs \X IDs
    /\ r.marks \in [DOMAIN r.marks -> Times]
    /\ r.todo \subseteq Facts /\ r.skipped \subseteq Facts
    /\ r.dirty \in BOOLEAN
    /\ r = [pc |-> r.pc, log |-> r.log, marks |-> r.marks, todo |-> r.todo,
            skipped |-> r.skipped, dirty |-> r.dirty]

RunsTyped ==
    /\ run = [c \in Consolidators |-> run[c]]
    /\ \A c \in Consolidators : RunTyped(run[c])

WritersStored ==
    \A w \in Writers : writer[w].todo # {} => writer[w].id \in DOMAIN assertion

IsRun(r) == r = [c \in Consolidators |-> r[c]]

(* The fact is as its evidence in the log demands. *)
Settled(f) ==
    LET valid == ValidFor(assertion, contradiction, f)
    IN  valid # {} => f \in DOMAIN canonical /\ canonical[f] = Merged(assertion, valid)

(* A run that nobody disturbed has read what is still stored, and has      *)
(* settled the groups it has dealt with.                                   *)
RunCurrent(c) ==
    ~run[c].dirty =>
      /\ run[c].pc = "scan" => run[c].log = assertion
      /\ run[c].pc = "write" =>
           /\ run[c].todo # {} =>
                run[c].log = assertion /\ run[c].marks = contradiction
           /\ \A f \in Facts \ (run[c].todo \cup run[c].skipped) : Settled(f)

RunsCurrent == \A c \in Consolidators : RunCurrent(c)

IInv == TypeOK /\ RunsTyped /\ WritersStored /\ ContradictionsGrounded

-----------------------------------------------------------------------------
(* The helpers *)

LEMMA Least ==
    ASSUME NEW T, T \subseteq Nat, T # {}
    PROVE  \E x \in T : \A y \in T : x =< y
<1>1. PICK x \in T : \A y \in T : <<y, x>> \notin OpToRel(<, Nat)
  BY NatLessThanWellFounded, WFMin, Zenon
<1>2. ASSUME NEW y \in T PROVE x =< y
  <2>1. x \in Nat /\ y \in Nat
    OBVIOUS
  <2>2. ~(y < x)
    BY <1>1, <2>1, Zenon DEF OpToRel
  <2> QED BY <2>1, <2>2
<1> QED BY <1>2

(* A group of assertions that is not empty has a first time (line 166).    *)
LEMMA FirstTime ==
    ASSUME NEW T, T \subseteq Times, T # {}
    PROVE  Min(T) \in T
<1>1. T \subseteq Nat
  BY ConsolidationAssumption DEF Times, ConsolidationAssumption
<1>2. \E x \in T : \A y \in T : x =< y
  BY <1>1, Least
<1> QED
  BY <1>2 DEF Min

(* Storing a value of the right type keeps a map typed. *)
LEMMA StoredTyped ==
    ASSUME NEW K, NEW V, NEW f, DOMAIN f \subseteq K, f \in [DOMAIN f -> V],
           NEW k \in K, NEW v \in V
    PROVE  /\ DOMAIN Stored(f, k, v) = DOMAIN f \cup {k}
           /\ DOMAIN Stored(f, k, v) \subseteq K
           /\ Stored(f, k, v) \in [DOMAIN Stored(f, k, v) -> V]
BY DEF Stored

LEMMA MergedTyped ==
    ASSUME NEW log, DOMAIN log \subseteq IDs, log \in [DOMAIN log -> Assertion],
           NEW marks, NEW f, ValidFor(log, marks, f) # {}
    PROVE  Merged(log, ValidFor(log, marks, f)) \in CanonicalFact
<1> DEFINE V == ValidFor(log, marks, f)
           T == {log[i].time : i \in V}
<1>1. V \subseteq DOMAIN log /\ V # {}
  BY DEF ValidFor
<1>2. \A i \in V : log[i].source \in Sources /\ log[i].time \in Times
  BY <1>1 DEF Assertion
<1>3. T \subseteq Times /\ T # {}
  BY <1>1, <1>2
<1>4. Min(T) \in Times
  BY <1>3, FirstTime
<1>5. {log[i].source : i \in V} \subseteq Sources
  BY <1>2
<1> HIDE DEF V
<1> QED
  BY <1>4, <1>5 DEF Merged, CanonicalFact, V

(* A writer between two calls. *)
LEMMA NoCallTyped ==
    NoCall \in [id : IDs \cup {NoCall.id}, todo : SUBSET IDs] /\ NoCall.todo = {}
<1> DEFINE n == CHOOSE i \in IDs : TRUE
<1> HIDE DEF n
<1>1. NoCall = [id |-> n, todo |-> {}]
  BY DEF NoCall, n
<1> QED BY <1>1

LEMMA NothingTyped == DOMAIN Nothing = {}
BY DEF Nothing

(* What stays of a run when something else happens. *)
LEMMA DisturbedTyped ==
    ASSUME RunsTyped, NEW cs
    PROVE  /\ Disturbed(cs) = [c \in Consolidators |-> Disturbed(cs)[c]]
           /\ \A c \in Consolidators : RunTyped(Disturbed(cs)[c])
<1>1. ASSUME NEW c \in Consolidators PROVE RunTyped(Disturbed(cs)[c])
  <2> DEFINE r == run[c]
  <2>1. RunTyped(r)
    BY DEF RunsTyped
  <2>2. Disturbed(cs)[c] \in {r, Spoilt(r)}
    BY DEF Disturbed
  <2> HIDE DEF r
  <2>3. RunTyped(Spoilt(r))
    <3> DEFINE d == TRUE
    <3>1. d \in BOOLEAN /\ Spoilt(r) = [r EXCEPT !.dirty = d, !.skipped = {}]
      BY DEF Spoilt
    <3> HIDE DEF d
    <3> QED BY <2>1, <3>1 DEF RunTyped
  <2> QED BY <2>1, <2>2, <2>3
<1> QED BY <1>1 DEF Disturbed

-----------------------------------------------------------------------------
LEMMA InitInv == Init => IInv
<1> SUFFICES ASSUME Init PROVE IInv
  OBVIOUS
<1>1. RunTyped(NoRun)
  BY NothingTyped DEF NoRun, Reading, RunTyped, Nothing
<1>2. RunsTyped
  BY <1>1 DEF Init, RunsTyped
<1>3. TypeOK
  BY NothingTyped, ConsolidationAssumption
     DEF Init, TypeOK, NoCall, Times, Nothing, ConsolidationAssumption
<1>4. WritersStored /\ ContradictionsGrounded
  BY NothingTyped DEF Init, WritersStored, ContradictionsGrounded, NoCall
<1> QED BY <1>2, <1>3, <1>4 DEF IInv

(* The writers (lines 46-98): what Add stores is there before a            *)
(* contradiction names it, and nothing is ever deleted.                    *)
LEMMA WriterSteps ==
    ASSUME IInv, NEW w \in Writers,
           \/ \E id \in IDs, f \in Facts, s \in Sources, ids \in Superseded :
                Add(w, id, f, s, ids)
           \/ \E id \in IDs, ids \in Superseded : AddFails(w, id, ids)
           \/ Mark(w) \/ Abandon(w)
    PROVE  IInv'
<1> USE DEF IInv
<1>1. ASSUME NEW id \in IDs, NEW f \in Facts, NEW s \in Sources,
             NEW ids \in Superseded, Add(w, id, f, s, ids)
      PROVE  IInv'
  <2>1. PICK t \in GivenTimes \cup {clock} :
          assertion' = Stored(assertion, id, [fact |-> f, source |-> s, time |-> t])
    BY <1>1 DEF Add
  <2>2. t \in Times
    BY ConsolidationAssumption DEF TypeOK, Times, ConsolidationAssumption
  <2>3. [fact |-> f, source |-> s, time |-> t] \in Assertion
    BY <2>2 DEF Assertion
  <2>4. /\ DOMAIN assertion' = DOMAIN assertion \cup {id}
        /\ DOMAIN assertion' \subseteq IDs
        /\ assertion' \in [DOMAIN assertion' -> Assertion]
    <3>1. DOMAIN assertion \subseteq IDs /\ assertion \in [DOMAIN assertion -> Assertion]
      BY DEF TypeOK
    <3> HIDE DEF IInv
    <3> QED BY <2>1, <2>3, <3>1 DEF Stored
  <2>5. ids \subseteq IDs
    BY ConsolidationAssumption DEF ConsolidationAssumption
  <2>6. Calling(id, ToMark(TRUE, ids)) \in [id : IDs \cup {NoCall.id}, todo : SUBSET IDs]
    BY <2>5 DEF Calling, ToMark, NoCall
  <2>7. adds' \in 0..MaxAdds
    BY <1>1, ConsolidationAssumption DEF Add, TypeOK, ConsolidationAssumption
  <2>8. TypeOK'
    BY <1>1, <2>4, <2>6, <2>7 DEF TypeOK, Add
  <2>9. RunsTyped'
    BY <1>1, DisturbedTyped DEF Add, RunsTyped
  <2>10. WritersStored'
    BY <1>1, <2>4 DEF Add, WritersStored, Calling, NoCall, TypeOK
  <2> QED
    BY <1>1, <2>4, <2>8, <2>9, <2>10 DEF ContradictionsGrounded, Add
<1>2. ASSUME NEW id \in IDs, NEW ids \in Superseded, AddFails(w, id, ids)
      PROVE  IInv'
  <2>1. Calling(id, ToMark(FALSE, ids)) = NoCall
    BY DEF Calling, ToMark
  <2>2. TypeOK'
    BY <1>2, <2>1, NoCallTyped DEF TypeOK, AddFails
  <2>3. WritersStored'
    BY <1>2, <2>1, NoCallTyped DEF TypeOK, AddFails, WritersStored
  <2> QED
    BY <1>2, <2>2, <2>3 DEF AddFails, RunsTyped, ContradictionsGrounded
<1>3. CASE Mark(w)
  <2>1. PICK i \in writer[w].todo :
          /\ contradiction' = Stored(contradiction, <<i, writer[w].id>>, clock)
          /\ writer' = [writer EXCEPT ![w] = Calling(@.id, @.todo \ {i})]
    BY <1>3 DEF Mark
  <2>2. i \in IDs /\ writer[w].id \in DOMAIN assertion /\ writer[w].id \in IDs
    BY DEF TypeOK, WritersStored
  <2>3. clock \in Times /\ <<i, writer[w].id>> \in IDs \X IDs
    BY <2>2 DEF TypeOK
  <2>4. /\ DOMAIN contradiction' = DOMAIN contradiction \cup {<<i, writer[w].id>>}
        /\ DOMAIN contradiction' \subseteq IDs \X IDs
        /\ contradiction' \in [DOMAIN contradiction' -> Times]
    <3>1. /\ DOMAIN contradiction \subseteq IDs \X IDs
          /\ contradiction \in [DOMAIN contradiction -> Times]
      BY DEF TypeOK
    <3> HIDE DEF IInv
    <3> QED BY <2>1, <2>3, <3>1 DEF Stored
  <2>5. Calling(writer[w].id, writer[w].todo \ {i})
          \in [id : IDs \cup {NoCall.id}, todo : SUBSET IDs]
    BY <2>2 DEF Calling, NoCall, TypeOK
  <2>6. TypeOK'
    BY <1>3, <2>1, <2>4, <2>5 DEF TypeOK, Mark
  <2>7. RunsTyped'
    BY <1>3, DisturbedTyped DEF Mark, RunsTyped
  <2>8. WritersStored'
    BY <1>3, <2>1 DEF Mark, WritersStored, Calling, NoCall, TypeOK
  <2>9. ContradictionsGrounded'
    BY <1>3, <2>2, <2>4 DEF Mark, ContradictionsGrounded
  <2> QED BY <2>6, <2>7, <2>8, <2>9
<1>4. CASE Abandon(w)
  BY <1>4 DEF Abandon, TypeOK, RunsTyped, WritersStored, ContradictionsGrounded, NoCall
<1> QED
  BY <1>1, <1>2, <1>3, <1>4

(* A part of a typed map is typed, and so is a run that has read both.     *)
LEMMA ReadUpToTyped ==
    ASSUME NEW K, NEW V, NEW f, DOMAIN f \subseteq K, f \in [DOMAIN f -> V],
           NEW keys, keys \subseteq DOMAIN f
    PROVE  /\ DOMAIN ReadUpTo(f, keys) \subseteq K
           /\ ReadUpTo(f, keys) \in [DOMAIN ReadUpTo(f, keys) -> V]
BY DEF ReadUpTo

LEMMA GroupedTyped ==
    ASSUME NEW log, DOMAIN log \subseteq IDs, log \in [DOMAIN log -> Assertion],
           NEW marks, DOMAIN marks \subseteq IDs \X IDs,
           marks \in [DOMAIN marks -> Times], NEW dirty \in BOOLEAN
    PROVE  RunTyped(Grouped(log, marks, dirty))
<1> DEFINE todo == {log[i].fact : i \in DOMAIN log}
<1>1. todo \subseteq Facts
  BY DEF Assertion
<1> HIDE DEF todo
<1>2. Grouped(log, marks, dirty) = Reading("write", log, marks, todo, dirty)
  BY DEF Grouped, todo
<1> QED
  BY <1>1, <1>2 DEF RunTyped, Reading

(* The consolidators (lines 101-191) write canonical facts only. *)
LEMMA ConsolidatorSteps ==
    ASSUME IInv, NEW c \in Consolidators,
           \/ ScanAssertions(c) \/ ScanContradictions(c) \/ Return(c)
           \/ ScanAssertionsBreaks(c) \/ ScanContradictionsBreaks(c)
           \/ \E f \in Facts : WriteCanonical(c, f)
    PROVE  IInv'
<1> USE DEF IInv
<1>1. RunTyped(run[c])
  BY DEF RunsTyped
<1>2. CASE ScanAssertions(c)
  <2>1. RunTyped(Reading("scan", assertion, Nothing, {}, FALSE))
    BY NothingTyped DEF RunTyped, Reading, TypeOK, Nothing
  <2>2. RunsTyped'
    BY <1>2, <2>1 DEF ScanAssertions, RunsTyped
  <2> QED
    BY <1>2, <2>2
       DEF ScanAssertions, TypeOK, WritersStored, ContradictionsGrounded
<1>3. CASE ScanContradictions(c)
  <2>1. RunTyped(Grouped(run[c].log, contradiction, run[c].dirty))
    BY <1>1, GroupedTyped DEF TypeOK, RunTyped
  <2>2. RunsTyped'
    BY <1>3, <2>1 DEF ScanContradictions, RunsTyped
  <2> QED
    BY <1>3, <2>2
       DEF ScanContradictions, TypeOK, WritersStored, ContradictionsGrounded
<1>4. CASE ScanAssertionsBreaks(c)
  <2>1. PICK i \in DOMAIN assertion :
          run' = [run EXCEPT ![c] =
                    Reading("scan", ReadUpTo(assertion, AssertionsBefore(i)),
                            Nothing, {}, TRUE)]
    BY <1>4 DEF ScanAssertionsBreaks
  <2>2. AssertionsBefore(i) \subseteq DOMAIN assertion
    BY DEF AssertionsBefore
  <2>3. /\ DOMAIN ReadUpTo(assertion, AssertionsBefore(i)) \subseteq IDs
        /\ ReadUpTo(assertion, AssertionsBefore(i))
             \in [DOMAIN ReadUpTo(assertion, AssertionsBefore(i)) -> Assertion]
    BY <2>2, ReadUpToTyped DEF TypeOK
  <2>4. RunTyped(Reading("scan", ReadUpTo(assertion, AssertionsBefore(i)),
                         Nothing, {}, TRUE))
    BY <2>3, NothingTyped DEF RunTyped, Reading, Nothing
  <2>5. RunsTyped'
    BY <2>1, <2>4 DEF RunsTyped
  <2> QED
    BY <1>4, <2>5
       DEF ScanAssertionsBreaks, TypeOK, WritersStored, ContradictionsGrounded
<1>5. CASE ScanContradictionsBreaks(c)
  <2>1. PICK p \in DOMAIN contradiction :
          run' = [run EXCEPT ![c] =
                    Grouped(@.log, ReadUpTo(contradiction, ContradictionsBefore(p)),
                            TRUE)]
    BY <1>5 DEF ScanContradictionsBreaks
  <2> DEFINE part == ReadUpTo(contradiction, ContradictionsBefore(p))
  <2>2. ContradictionsBefore(p) \subseteq DOMAIN contradiction
    BY DEF ContradictionsBefore
  <2>3. DOMAIN part \subseteq IDs \X IDs /\ part \in [DOMAIN part -> Times]
    BY <2>2, ReadUpToTyped DEF TypeOK
  <2> HIDE DEF part
  <2>4. RunTyped(Grouped(run[c].log, part, TRUE))
    BY <1>1, <2>3, GroupedTyped DEF RunTyped
  <2>5. RunsTyped'
    BY <2>1, <2>4 DEF RunsTyped, part
  <2> QED
    BY <1>5, <2>5
       DEF ScanContradictionsBreaks, TypeOK, WritersStored, ContradictionsGrounded
<1>6. CASE Return(c)
  <2>1. RunTyped(NoRun)
    BY NothingTyped DEF NoRun, Reading, RunTyped, Nothing
  <2>2. RunsTyped'
    BY <1>6, <2>1 DEF Return, RunsTyped
  <2> QED
    BY <1>6, <2>2 DEF Return, TypeOK, WritersStored, ContradictionsGrounded
<1>7. ASSUME NEW f \in Facts, WriteCanonical(c, f)
      PROVE  IInv'
  <2> DEFINE valid == ValidFor(run[c].log, run[c].marks, f)
             rest  == Without(run[c], f)
  <2>1. RunTyped(rest)
    BY <1>1, NothingTyped DEF RunTyped, Without, Nothing
  <2>2. RunTyped(Skipping(rest, f))
    <3> HIDE DEF rest, IInv
    <3> DEFINE k == rest.skipped \cup {f}
    <3>1. k \subseteq Facts
      BY <2>1 DEF RunTyped
    <3> HIDE DEF k
    <3>2. RunTyped([rest EXCEPT !.skipped = k])
      BY <2>1, <3>1 DEF RunTyped
    <3> QED BY <2>1, <3>2 DEF k, Skipping
  <2>3. CASE run' = [run EXCEPT ![c] = rest] /\ canonical' = canonical
    <3>1. RunsTyped'
      BY <2>1, <2>3 DEF RunsTyped
    <3> QED
      BY <1>7, <2>3, <3>1
         DEF WriteCanonical, TypeOK, WritersStored, ContradictionsGrounded
  <2>4. CASE /\ run' = [run EXCEPT ![c] = Skipping(rest, f)]
             /\ canonical' = canonical
    <3>1. RunsTyped'
      BY <2>2, <2>4 DEF RunsTyped
    <3> QED
      BY <1>7, <2>4, <3>1
         DEF WriteCanonical, TypeOK, WritersStored, ContradictionsGrounded
  <2>5. CASE /\ valid # {}
             /\ canonical' = Stored(canonical, f, Merged(run[c].log, valid))
             /\ run' = [Disturbed(Consolidators \ {c}) EXCEPT ![c] = rest]
    <3>1. Merged(run[c].log, valid) \in CanonicalFact
      BY <1>1, <2>5, MergedTyped DEF RunTyped
    <3>2. /\ DOMAIN canonical' \subseteq Facts
          /\ canonical' \in [DOMAIN canonical' -> CanonicalFact]
      <4>1. /\ DOMAIN canonical \subseteq Facts
            /\ canonical \in [DOMAIN canonical -> CanonicalFact]
        BY DEF TypeOK
      <4> HIDE DEF IInv, valid, rest
      <4> QED BY <2>5, <3>1, <4>1 DEF Stored
    <3>3. RunsTyped'
      BY <2>1, <2>5, DisturbedTyped DEF RunsTyped
    <3>4. UNCHANGED <<clock, adds, assertion, contradiction, writer>>
      BY <1>7 DEF WriteCanonical
    <3> QED
      BY <3>2, <3>3, <3>4 DEF TypeOK, WritersStored, ContradictionsGrounded
  <2> QED
    BY <1>7, <2>3, <2>4, <2>5 DEF WriteCanonical
<1> QED
  BY <1>2, <1>3, <1>4, <1>5, <1>6, <1>7

LEMMA StepInv == IInv /\ [Next]_vars => IInv'
<1> SUFFICES ASSUME IInv, [Next]_vars PROVE IInv'
  OBVIOUS
<1>1. CASE Tick
  <2>1. TypeOK'
    BY <1>1, ConsolidationAssumption
       DEF IInv, Tick, TypeOK, Times, ConsolidationAssumption
  <2>2. RunsTyped'
    BY <1>1, DisturbedTyped DEF IInv, Tick, RunsTyped
  <2> QED
    BY <1>1, <2>1, <2>2 DEF IInv, Tick, WritersStored, ContradictionsGrounded
<1>2. CASE UNCHANGED vars
  BY <1>2
     DEF IInv, vars, TypeOK, RunsTyped, WritersStored, ContradictionsGrounded
<1> QED
  BY <1>1, <1>2, WriterSteps, ConsolidatorSteps DEF Next

-----------------------------------------------------------------------------
(* The state is typed, a writer marks contradictions of an assertion it    *)
(* has stored (line 76), and every contradiction is grounded.              *)
THEOREM ConsolidationInvariant == Spec => []IInv
BY InitInv, StepInv, PTL DEF Spec

(* Whatever Puts fail and wherever a writer stops, no stored contradiction *)
(* names an assertion that was never stored (lines 75-98).                 *)
THEOREM AlwaysGrounded == Spec => []ContradictionsGrounded
<1>1. IInv => ContradictionsGrounded
  BY DEF IInv
<1> QED BY <1>1, ConsolidationInvariant, PTL
-----------------------------------------------------------------------------
(* What an undisturbed run leaves behind *)

(* The loop that stops at the first contradiction (line 150) decides as    *)
(* all of them do, when they agree.                                        *)
LEMMA FirstDecides ==
    ASSUME TypeOK, NEW f \in Facts, Unanimous(f)
    PROVE  ValidFor(assertion, contradiction, f) = Evidence(f)
<1>1. ASSUME NEW i \in DOMAIN assertion, assertion[i].fact = f
      PROVE  Contradicted(contradiction, i) <=> InForce(i) # {}
  <2> DEFINE M == MarksAgainst(contradiction, i)
  <2>1. InForce(i) = {} \/ InForce(i) = M
    BY <1>1 DEF Unanimous, MarksAgainst
  <2>2. InForce(i) = {p \in M : ~AgedOut(contradiction[p])}
    BY DEF InForce, MarksAgainst
  <2>3. \A p \in M : KeyOrder[p[2]] \in Nat
    <3>1. \A p \in M : p \in IDs \X IDs
      BY DEF TypeOK, MarksAgainst
    <3> HIDE DEF M
    <3> QED BY <3>1, ConsolidationAssumption DEF ConsolidationAssumption
  <2>4. Contradicted(contradiction, i) <=>
          \E p \in M : /\ \A q \in M : KeyOrder[p[2]] <= KeyOrder[q[2]]
                       /\ ~AgedOut(contradiction[p])
    BY DEF Contradicted
  <2> HIDE DEF M
  <2>5. CASE InForce(i) = {}
    BY <2>2, <2>4, <2>5
  <2>6. CASE InForce(i) # {}
    <3> DEFINE T == {KeyOrder[p[2]] : p \in M}
    <3>1. T \subseteq Nat /\ T # {}
      BY <2>1, <2>3, <2>6
    <3>2. PICK x \in T : \A y \in T : x =< y
      <4> HIDE DEF T
      <4> QED BY <3>1, Least
    <3>3. PICK p \in M : x = KeyOrder[p[2]]
      BY <3>2
    <3>4. \A q \in M : KeyOrder[p[2]] <= KeyOrder[q[2]]
      BY <3>2, <3>3
    <3>5. ~AgedOut(contradiction[p])
      BY <2>1, <2>2, <2>6, <3>3
    <3> QED BY <2>4, <2>6, <3>3, <3>4, <3>5
  <2> QED BY <2>5, <2>6
<1> QED
  BY <1>1 DEF ValidFor, Evidence

LEMMA SettledSame ==
    ASSUME UNCHANGED <<clock, assertion, contradiction>>, NEW f,
           f \in DOMAIN canonical =>
             f \in DOMAIN canonical' /\ canonical'[f] = canonical[f],
           Settled(f)
    PROVE  Settled(f)'
<1>1. /\ clock' = clock /\ assertion' = assertion
      /\ contradiction' = contradiction
  OBVIOUS
<1>2. ValidFor(assertion, contradiction, f)' = ValidFor(assertion, contradiction, f)
  BY <1>1 DEF ValidFor, Contradicted, MarksAgainst, AgedOut
<1> QED
  BY <1>1, <1>2 DEF Settled, Merged

LEMMA AllDisturbed ==
    ASSUME run' = Disturbed(Consolidators), RunsTyped
    PROVE  RunsCurrent'
<1>1. ASSUME NEW c \in Consolidators PROVE RunCurrent(c)'
  <2>1. run'[c] = IF run[c].pc # "idle" THEN Spoilt(run[c]) ELSE run[c]
    BY DEF Disturbed
  <2>2. RunTyped(run[c])
    BY DEF RunsTyped
  <2>3. run'[c].pc = run[c].pc /\ (run[c].pc # "idle" => run'[c].dirty)
    BY <2>1, <2>2 DEF RunTyped, Spoilt
  <2> QED
    BY <2>3 DEF RunCurrent
<1> QED BY <1>1 DEF RunsCurrent

(* Nothing changes that a run depends on. *)
LEMMA OthersCurrent ==
    ASSUME RunsCurrent, NEW cs \in SUBSET Consolidators,
           UNCHANGED <<clock, assertion, contradiction, canonical>>,
           \A c \in cs : run'[c] = run[c]
    PROVE  \A c \in cs : RunCurrent(c)'
<1> SUFFICES ASSUME NEW c \in cs PROVE RunCurrent(c)'
  OBVIOUS
<1>1. \A f : Settled(f) => Settled(f)'
  BY SettledSame
<1>2. RunCurrent(c)
  BY DEF RunsCurrent
<1> QED
  BY <1>1, <1>2 DEF RunCurrent

LEMMA WriteCurrent ==
    ASSUME IInv, RunsCurrent, NEW c \in Consolidators, NEW f \in Facts,
           WriteCanonical(c, f)
    PROVE  RunsCurrent'
<1> DEFINE valid == ValidFor(run[c].log, run[c].marks, f)
           rest  == Without(run[c], f)
<1>1. RunTyped(run[c]) /\ run[c].pc = "write" /\ f \in run[c].todo
  BY DEF IInv, RunsTyped, WriteCanonical
<1>2. /\ rest.pc = "write" /\ rest.dirty = run[c].dirty
      /\ rest.todo = run[c].todo \ {f} /\ rest.skipped = run[c].skipped
      /\ rest.todo # {} => rest.log = run[c].log /\ rest.marks = run[c].marks
  BY <1>1 DEF Without, RunTyped
<1>3. UNCHANGED <<clock, assertion, contradiction>>
  BY DEF WriteCanonical
<1>4. RunCurrent(c)
  BY DEF RunsCurrent
<1>5. ~run[c].dirty =>
        /\ run[c].log = assertion /\ run[c].marks = contradiction
        /\ \A g \in Facts \ (run[c].todo \cup run[c].skipped) : Settled(g)
  BY <1>1, <1>4 DEF RunCurrent
<1>6. IsRun(run)
  BY DEF IInv, RunsTyped, IsRun
<1>7. CASE valid = {} /\ run' = [run EXCEPT ![c] = rest] /\ canonical' = canonical
  <2>1. run'[c] = rest /\ \A d \in Consolidators \ {c} : run'[d] = run[d]
    BY <1>6, <1>7 DEF IsRun
  <2>2. ~run[c].dirty => Settled(f)
    BY <1>5, <1>7 DEF Settled
  <2>3. \A g : Settled(g) => Settled(g)'
    BY <1>3, <1>7, SettledSame
  <2> HIDE DEF rest, valid
  <2>4. RunCurrent(c)'
    BY <1>2, <1>3, <1>5, <2>1, <2>2, <2>3 DEF RunCurrent
  <2>5. \A d \in Consolidators \ {c} : RunCurrent(d)'
    BY <1>3, <1>7, <2>1, OthersCurrent
  <2> QED BY <2>4, <2>5 DEF RunsCurrent
<1>8. CASE /\ run' = [run EXCEPT ![c] = Skipping(rest, f)]
           /\ canonical' = canonical
  <2>1. /\ run'[c] = Skipping(rest, f)
        /\ \A d \in Consolidators \ {c} : run'[d] = run[d]
    BY <1>6, <1>8 DEF IsRun
  <2>2. /\ run'[c].pc = rest.pc /\ run'[c].dirty = rest.dirty
        /\ run'[c].todo = rest.todo /\ run'[c].log = rest.log
        /\ run'[c].marks = rest.marks
        /\ ~rest.dirty => run'[c].skipped = rest.skipped \cup {f}
    BY <1>1, <2>1 DEF RunTyped, Without, Skipping
  <2>3. \A g : Settled(g) => Settled(g)'
    BY <1>3, <1>8, SettledSame
  <2> HIDE DEF rest, valid
  <2>4. RunCurrent(c)'
    BY <1>2, <1>3, <1>5, <2>2, <2>3 DEF RunCurrent
  <2>5. \A d \in Consolidators \ {c} : RunCurrent(d)'
    BY <1>3, <1>8, <2>1, OthersCurrent
  <2> QED BY <2>4, <2>5 DEF RunsCurrent
<1>9. CASE /\ valid # {}
           /\ canonical' = Stored(canonical, f, Merged(run[c].log, valid))
           /\ run' = [Disturbed(Consolidators \ {c}) EXCEPT ![c] = rest]
  <2>1. /\ run'[c] = rest
        /\ \A d \in Consolidators \ {c} :
             run'[d] = IF run[d].pc # "idle" THEN Spoilt(run[d]) ELSE run[d]
    BY <1>9 DEF Disturbed
  <2>2. /\ f \in DOMAIN canonical' /\ canonical'[f] = Merged(run[c].log, valid)
        /\ \A g : g # f /\ g \in DOMAIN canonical =>
             g \in DOMAIN canonical' /\ canonical'[g] = canonical[g]
    BY <1>9 DEF Stored
  <2>3. \A g : g # f /\ Settled(g) => Settled(g)'
    BY <1>3, <2>2, SettledSame
  <2>4. ~run[c].dirty => Settled(f)'
    <3>1. ValidFor(assertion, contradiction, f)' = ValidFor(assertion, contradiction, f)
      BY <1>3 DEF ValidFor, Contradicted, MarksAgainst, AgedOut
    <3>2. ASSUME ~run[c].dirty
          PROVE  canonical'[f] = Merged(assertion, ValidFor(assertion, contradiction, f))
      BY <1>5, <2>2, <3>2
    <3>3. Merged(assertion, ValidFor(assertion, contradiction, f))'
            = Merged(assertion, ValidFor(assertion, contradiction, f))
      BY <1>3, <3>1 DEF Merged
    <3> QED BY <2>2, <3>2, <3>3 DEF Settled
  <2> HIDE DEF rest, valid
  <2>5. RunCurrent(c)'
    BY <1>2, <1>3, <1>5, <2>1, <2>3, <2>4 DEF RunCurrent
  <2>6. ASSUME NEW d \in Consolidators \ {c} PROVE RunCurrent(d)'
    <3>1. RunTyped(run[d])
      BY DEF IInv, RunsTyped
    <3>2. run'[d].pc = run[d].pc /\ (run[d].pc # "idle" => run'[d].dirty)
      BY <2>1, <3>1 DEF RunTyped, Spoilt
    <3> QED BY <3>2 DEF RunCurrent
  <2> QED BY <2>5, <2>6 DEF RunsCurrent
<1> QED
  BY <1>7, <1>8, <1>9 DEF WriteCanonical

LEMMA StepCurrent ==
    ASSUME IInv, RunsCurrent, [Next]_vars
    PROVE  RunsCurrent'
<1>1. RunsTyped /\ IsRun(run)
  BY DEF IInv, RunsTyped, IsRun
<1>2. ASSUME NEW w \in Writers, NEW id \in IDs, NEW f \in Facts,
             NEW s \in Sources, NEW ids \in Superseded, Add(w, id, f, s, ids)
      PROVE  RunsCurrent'
  BY <1>1, <1>2, AllDisturbed DEF Add
<1>3. ASSUME NEW w \in Writers, Mark(w)
      PROVE  RunsCurrent'
  BY <1>1, <1>3, AllDisturbed DEF Mark
<1>4. CASE Tick
  BY <1>1, <1>4, AllDisturbed DEF Tick
<1>5. CASE \/ UNCHANGED vars
           \/ \E w \in Writers :
                \/ Abandon(w)
                \/ \E id \in IDs, ids \in Superseded : AddFails(w, id, ids)
  <2>1. UNCHANGED <<clock, assertion, contradiction, canonical, run>>
    BY <1>5 DEF Abandon, AddFails, vars
  <2> QED
    BY <2>1, OthersCurrent DEF RunsCurrent
<1>6. ASSUME NEW c \in Consolidators,
             \/ ScanAssertions(c) \/ ScanContradictions(c) \/ Return(c)
             \/ ScanAssertionsBreaks(c) \/ ScanContradictionsBreaks(c)
      PROVE  RunsCurrent'
  <2>1. UNCHANGED <<clock, assertion, contradiction, canonical>>
    BY <1>6 DEF ScanAssertions, ScanContradictions, Return,
                ScanAssertionsBreaks, ScanContradictionsBreaks
  <2>2. \A d \in Consolidators \ {c} : run'[d] = run[d]
    BY <1>1, <1>6 DEF IsRun, ScanAssertions, ScanContradictions, Return,
                      ScanAssertionsBreaks, ScanContradictionsBreaks
  <2>3. \A d \in Consolidators \ {c} : RunCurrent(d)'
    BY <2>1, <2>2, OthersCurrent
  <2>4. CASE ScanAssertions(c)
    <3>1. run'[c] = Reading("scan", assertion, Nothing, {}, FALSE)
      BY <1>1, <2>4 DEF ScanAssertions, IsRun
    <3>2. RunCurrent(c)'
      BY <2>1, <3>1 DEF RunCurrent, Reading
    <3> QED BY <2>3, <3>2 DEF RunsCurrent
  <2>5. CASE ScanContradictions(c)
    <3> DEFINE todo == {run[c].log[i].fact : i \in DOMAIN run[c].log}
    <3>1. run'[c] = Reading("write", run[c].log, contradiction, todo, run[c].dirty)
      BY <1>1, <2>5 DEF ScanContradictions, IsRun, Grouped
    <3>2. ~run[c].dirty => run[c].log = assertion
      BY <2>5 DEF ScanContradictions, RunsCurrent, RunCurrent
    <3>3. ASSUME ~run[c].dirty, NEW f \in Facts \ todo PROVE Settled(f)'
      <4>1. ValidFor(assertion, contradiction, f) = {}
        BY <3>2, <3>3 DEF ValidFor
      <4> QED BY <2>1, <4>1, SettledSame DEF Settled
    <3> HIDE DEF todo
    <3>4. RunCurrent(c)'
      BY <2>1, <3>1, <3>2, <3>3 DEF RunCurrent, Reading
    <3> QED BY <2>3, <3>4 DEF RunsCurrent
  <2>6. CASE Return(c)
    <3>1. run'[c].pc = "idle"
      BY <1>1, <2>6 DEF Return, IsRun, NoRun, Reading
    <3>2. RunCurrent(c)'
      BY <3>1 DEF RunCurrent
    <3> QED BY <2>3, <3>2 DEF RunsCurrent
  <2>7. CASE ScanAssertionsBreaks(c) \/ ScanContradictionsBreaks(c)
    <3>1. run'[c].dirty
      BY <1>1, <2>7
         DEF ScanAssertionsBreaks, ScanContradictionsBreaks, IsRun, Grouped, Reading
    <3>2. RunCurrent(c)'
      BY <3>1 DEF RunCurrent
    <3> QED BY <2>3, <3>2 DEF RunsCurrent
  <2> QED BY <1>6, <2>4, <2>5, <2>6, <2>7
<1> QED
  BY <1>2, <1>3, <1>4, <1>5, <1>6, WriteCurrent DEF Next

(* A Consolidate that nothing disturbed leaves every fact with evidence as *)
(* the log demands (lines 101-191).                                        *)
THEOREM CleanRunsRefresh == Spec => []CleanRunRefreshes
<1>1. Init => RunsCurrent
  BY DEF Init, RunsCurrent, RunCurrent, NoRun, Reading
<1>2. IInv /\ RunsCurrent /\ [Next]_vars => RunsCurrent'
  BY StepCurrent
<1>3. IInv /\ RunsCurrent => CleanRunRefreshes
  <2> SUFFICES ASSUME IInv, RunsCurrent, NEW c \in Consolidators, Finished(c),
                      NEW f \in Facts \ run[c].skipped,
                      Evidence(f) # {}, Unanimous(f)
               PROVE  /\ f \in DOMAIN canonical
                      /\ canonical[f] = Merged(assertion, Evidence(f))
    BY DEF CleanRunRefreshes
  <2>1. Settled(f)
    BY DEF RunsCurrent, RunCurrent, Finished
  <2>2. ValidFor(assertion, contradiction, f) = Evidence(f)
    BY FirstDecides DEF IInv
  <2> QED BY <2>1, <2>2 DEF Settled
<1> QED
  BY <1>1, <1>2, <1>3, ConsolidationInvariant, PTL DEF Spec

-----------------------------------------------------------------------------
(* Extraction *)

(* A result is stored in the order of the kinds.                           *)
Begun(t) ==
    /\ uncommitted[t] \subseteq result[t]
    /\ \A i \in result[t] \ uncommitted[t] :
         uncommitted[t] # {} => Key(i) \in DOMAIN knowledge

ExtractionInv ==
    /\ result \in [Extractors -> SUBSET Items]
    /\ uncommitted \in [Extractors -> SUBSET Items]
    /\ \A t \in Extractors : Begun(t)
    /\ FoundTogether

(* What is stored next has nothing before it. *)
LEMMA NextIsFirst ==
    ASSUME NEW S \in SUBSET Items, NEW i \in NextOf(S), NEW j \in S
    PROVE  i \in S /\ ~Before(j, i)
BY DEF NextOf, Before, Items, Kinds

LEMMA StoreItemKeeps ==
    ASSUME ExtractionInv, NEW t \in Extractors, StoreItem(t)
    PROVE  ExtractionInv'
<1>1. PICK i \in NextOf(uncommitted[t]) :
        /\ knowledge' = [k \in DOMAIN knowledge \cup {Key(i)} |->
             IF k = Key(i) THEN [item |-> i, of |-> result[t]] ELSE knowledge[k]]
        /\ uncommitted' = [uncommitted EXCEPT ![t] = @ \ {i}]
        /\ UNCHANGED <<result, commits>>
  BY DEF StoreItem
<1>2. /\ uncommitted[t] \in SUBSET Items /\ uncommitted[t] \subseteq result[t]
      /\ i \in uncommitted[t]
  <2>1. uncommitted[t] \in SUBSET Items /\ uncommitted[t] \subseteq result[t]
    BY DEF ExtractionInv, Begun
  <2>2. i \in uncommitted[t]
    BY <1>1, <2>1 DEF NextOf
  <2> QED BY <2>1, <2>2
<1>3. /\ DOMAIN knowledge' = DOMAIN knowledge \cup {Key(i)}
      /\ knowledge'[Key(i)].item = i /\ knowledge'[Key(i)].of = result[t]
      /\ \A k \in DOMAIN knowledge : k # Key(i) => knowledge'[k] = knowledge[k]
  BY <1>1
<1>4. \A u \in Extractors : Begun(u)'
  BY <1>1, <1>2, <1>3 DEF ExtractionInv, Begun, Key
<1>5. ASSUME NEW j \in result[t], Before(j, i) PROVE Key(j) \in DOMAIN knowledge
  <2>1. j \notin uncommitted[t]
    BY <1>1, <1>2, <1>5, NextIsFirst
  <2> QED BY <1>2, <2>1 DEF ExtractionInv, Begun
<1>6. FoundTogether'
  <2> SUFFICES ASSUME NEW k \in DOMAIN knowledge', NEW j \in knowledge'[k].of,
                      Before(j, knowledge'[k].item)
               PROVE  Key(j) \in DOMAIN knowledge'
    BY DEF FoundTogether, Before, Key
  <2>1. CASE k = Key(i)
    BY <1>3, <1>5, <2>1
  <2>2. CASE k # Key(i)
    BY <1>3, <2>2 DEF ExtractionInv, FoundTogether
  <2> QED BY <2>1, <2>2
<1> QED
  BY <1>1, <1>4, <1>6 DEF ExtractionInv

LEMMA ExtractionStep == ExtractionInv /\ [ExtractionNext]_extractionVars => ExtractionInv'
<1> SUFFICES ASSUME ExtractionInv, [ExtractionNext]_extractionVars PROVE ExtractionInv'
  OBVIOUS
<1>1. ASSUME NEW t \in Extractors, NEW raw \in Extracted, ExtractAndCommit(t, raw)
      PROVE  ExtractionInv'
  <2>1. Extract(raw) \in SUBSET Items
    BY ExtractionAssumption DEF Extract, WithConfidence, Items
  <2>2. FoundTogether'
    BY <1>1 DEF ExtractAndCommit, ExtractionInv, FoundTogether, Before, Key
  <2> QED
    BY <1>1, <2>1, <2>2 DEF ExtractAndCommit, ExtractionInv, Begun, Key
<1>2. ASSUME NEW t \in Extractors, StoreFails(t) PROVE ExtractionInv'
  BY <1>2 DEF StoreFails, NothingMore, ExtractionInv, Begun, Key, FoundTogether, Before
<1>3. CASE UNCHANGED extractionVars
  BY <1>3 DEF extractionVars, ExtractionInv, Begun, Key, FoundTogether, Before
<1> QED
  BY <1>1, <1>2, <1>3, StoreItemKeeps DEF ExtractionNext

(* Whoever finds a relation or an assertion that Commit                    *)
(* (memory_extraction.go) stored finds what was extracted with it and      *)
(* comes earlier, for any goroutines, results and schema.                  *)
THEOREM AlwaysFoundTogether == ExtractionSpec => []FoundTogether
<1>1. ExtractionInit => ExtractionInv
  BY DEF ExtractionInit, ExtractionInv, Begun, FoundTogether
<1>2. ExtractionInv => FoundTogether
  BY DEF ExtractionInv
<1> QED
  BY <1>1, <1>2, ExtractionStep, PTL DEF ExtractionSpec

-----------------------------------------------------------------------------
(* Retrieval: the scores and the ranks *)

Weighty == LexicalWeight # 0 \/ SemanticWeight # 0

LEMMA BatchFacts ==
    ASSUME NEW f \in Batches
    PROVE  /\ DOMAIN f \subseteq Docs /\ IsFiniteSet(DOMAIN f)
           /\ f \in [DOMAIN f -> Texts \cup {NoText}]
<1>1. PICK D \in SUBSET Docs : f \in [D -> Texts \cup {NoText}]
  BY DEF Batches
<1>2. IsFiniteSet(D)
  BY FS_Subset, RetrievalAssumption
<1>. QED  BY <1>1, <1>2

LEMMA IsBatch ==
    ASSUME NEW f, DOMAIN f \subseteq Docs, f \in [DOMAIN f -> Texts \cup {NoText}]
    PROVE  f \in Batches
BY DEF Batches

LEMMA Products ==
    /\ \A a, b \in Nat : a * b \in Nat
    /\ \A a, b \in Nat \ {0} : a * b \in Nat \ {0}
    /\ \A a \in Nat : a * 0 = 0 /\ 0 * a = 0
<1>1. ASSUME NEW a \in Nat, NEW b \in Nat PROVE a * b \in Nat
  OBVIOUS
<1>2. ASSUME NEW a \in Nat \ {0}, NEW b \in Nat \ {0} PROVE a * b \in Nat \ {0}
  OBVIOUS
<1>. QED  BY <1>1, <1>2

(* A text with the word of the query has words. *)
LEMMA TextFacts ==
    ASSUME NEW t \in Texts
    PROVE  /\ Word(t) \in Nat /\ t[2] \in Nat /\ Length(t) \in Nat
           /\ t[1] = Word(t) /\ (Word(t) > 0 => Length(t) > 0)
<1>1. t \in Nat \X Nat
  BY RetrievalAssumption
<1>. QED  BY <1>1 DEF Word, Length

(* An index with the word of the query has words, and finitely many. *)
LEMMA SomeWords ==
    ASSUME NEW texts, IsFiniteSet(DOMAIN texts), texts \in [DOMAIN texts -> Texts],
           NEW d \in DOMAIN texts, Word(texts[d]) > 0
    PROVE  Cardinality(Words(texts)) \in Nat \ {0}
<1> DEFINE D == DOMAIN texts
           W(e) == {e} \X (1..Length(texts[e]))
           all == {W(e) : e \in D}
<1>1. IsFiniteSet(all)
  <2>1. [e \in D |-> W(e)] \in Surjection(D, all)
    BY DEF Surjection
  <2>. QED  BY <2>1, FS_Surjection
<1>2. \A S \in all : IsFiniteSet(S)
  <2> SUFFICES ASSUME NEW e \in D PROVE IsFiniteSet(W(e))
    OBVIOUS
  <2>1. IsFiniteSet({e}) /\ IsFiniteSet(1..Length(texts[e]))
    <3>1. 1 \in Int /\ Length(texts[e]) \in Int
      BY TextFacts
    <3>. QED  BY <3>1, FS_Singleton, FS_Interval
  <2>. QED  BY <2>1, FS_Product
<1>3. Words(texts) = UNION all
  BY DEF Words
<1>4. IsFiniteSet(Words(texts))
  BY <1>1, <1>2, <1>3, FS_UNION
<1>5. <<d, 1>> \in Words(texts)
  BY TextFacts DEF Words
<1>. QED  BY <1>4, <1>5, FS_CardinalityType, FS_EmptySet

(* Of the texts in an index, one with the word of the query has a higher   *)
(* score than one without, unless the word was counted too often.          *)
LEMMA WordScoresHigher ==
    ASSUME NEW b \in [texts : Batches, count : Nat],
           b.texts \in [DOMAIN b.texts -> Texts],
           Cardinality({x \in DOMAIN b.texts : Word(b.texts[x]) > 0}) =< b.count,
           b.count =< Cardinality(DOMAIN b.texts),
           NEW d \in DOMAIN b.texts, NEW e \in DOMAIN b.texts,
           Word(b.texts[d]) > 0, ~(Word(b.texts[e]) > 0)
    PROVE  Greater(Lexical(b, d), Lexical(b, e))
<1> DEFINE worded == {x \in DOMAIN b.texts : Word(b.texts[x]) > 0}
           total  == Cardinality(Words(b.texts))
           N      == Cardinality(DOMAIN b.texts)
<1>1. IsFiniteSet(DOMAIN b.texts) /\ N \in Nat
  BY BatchFacts, FS_CardinalityType
<1>2. b.count # 0 /\ N # 0
  <2>1. IsFiniteSet(worded) /\ d \in worded
    BY <1>1, FS_Subset
  <2>2. Cardinality(worded) \in Nat /\ Cardinality(worded) # 0
    BY <2>1, FS_CardinalityType, FS_EmptySet
  <2>. QED  BY <1>1, <2>2
<1>3. Sign(b) = 1
  BY <1>1, <1>2 DEF Sign
<1>4. total \in Nat \ {0}
  BY <1>1, SomeWords
<1>5. /\ Word(b.texts[d]) \in Nat \ {0} /\ Length(b.texts[d]) \in Nat
      /\ Word(b.texts[e]) = 0 /\ Length(b.texts[e]) \in Nat
  BY TextFacts
<1>6. /\ Lexical(b, d).num = 1 * Word(b.texts[d]) * total
      /\ Lexical(b, e).num = 1 * Word(b.texts[e]) * total
      /\ Lexical(b, d).den = 8 * total * Word(b.texts[d]) + 3 * total
                               + 9 * Length(b.texts[d]) * N
      /\ Lexical(b, e).den = 8 * total * Word(b.texts[e]) + 3 * total
                               + 9 * Length(b.texts[e]) * N
  BY <1>3 DEF Lexical, Fraction
<1>7. ASSUME NEW w \in Nat, NEW l \in Nat
      PROVE  8 * total * w + 3 * total + 9 * l * N \in Nat \ {0}
  <2>1. total * w \in Nat /\ l * N \in Nat
    BY <1>1, <1>4, Products
  <2>2. 8 * total * w = 8 * (total * w) /\ 9 * l * N = 9 * (l * N)
    BY <1>1, <1>4
  <2> HIDE DEF total, N
  <2>. QED  BY <1>4, <2>1, <2>2
<1>8. Lexical(b, d).den \in Nat \ {0} /\ Lexical(b, e).den \in Nat \ {0}
  BY <1>5, <1>6, <1>7
<1>9. Lexical(b, e).num = 0 /\ Lexical(b, d).num \in Nat \ {0}
  BY <1>4, <1>5, <1>6, Products
<1>10. /\ Lexical(b, d).num * Lexical(b, e).den \in Nat \ {0}
       /\ Lexical(b, e).num * Lexical(b, d).den = 0
  BY <1>8, <1>9, Products
<1>. QED  BY <1>10 DEF Greater

LEMMA WordIsCloser ==
    ASSUME NEW s \in Texts, NEW t \in Texts, Word(s) > 0, ~(Word(t) > 0)
    PROVE  Greater(Semantic(s), Semantic(t))
<1>1. /\ s[1] \in Nat \ {0} /\ s[2] \in Nat /\ t[1] = 0 /\ t[2] \in Nat
      /\ Length(s) # 0 /\ Length(t) = t[2]
  BY TextFacts DEF Length, Word
<1>2. Semantic(s).num = s[1] * s[1] /\ Semantic(s).den = s[1] * s[1] + s[2] * s[2]
  BY <1>1 DEF Semantic, Fraction
<1>3. s[1] * s[1] \in Nat \ {0} /\ s[2] * s[2] \in Nat
  BY <1>1, Products
<1>4. Semantic(t).num = 0 /\ Semantic(t).den \in Nat \ {0}
  <2>1. CASE Length(t) = 0
    BY <2>1 DEF Semantic, Fraction
  <2>2. CASE Length(t) # 0
    <3>1. t[2] \in Nat \ {0}
      BY <1>1, <2>2
    <3>2. /\ Semantic(t).num = t[1] * t[1]
          /\ Semantic(t).den = t[1] * t[1] + t[2] * t[2]
      BY <2>2 DEF Semantic, Fraction
    <3>3. t[1] * t[1] = 0 /\ t[2] * t[2] \in Nat \ {0}
      BY <1>1, <3>1, Products
    <3>. QED  BY <3>2, <3>3
  <2>. QED  BY <2>1, <2>2
<1>5. Semantic(s).num * Semantic(t).den \in Nat \ {0}
      /\ Semantic(t).num * Semantic(s).den = 0
  BY <1>2, <1>3, <1>4, Products
<1>. QED  BY <1>5 DEF Greater

(* A ranking numbers what it ranks from 1, in order of the scores. *)
LEMMA RankFacts ==
    ASSUME NEW score, IsFiniteSet(DOMAIN score), NEW rank \in Ranks(score)
    PROVE  LET N == Cardinality(DOMAIN score) IN
           /\ N \in Nat /\ rank \in [DOMAIN score -> 1..N]
           /\ \A i \in 1..N : \E d \in DOMAIN score : rank[d] = i
           /\ \A d, e \in DOMAIN score : rank[d] = rank[e] => d = e
           /\ \A d, e \in DOMAIN score :
                Greater(score[d], score[e]) => rank[d] < rank[e]
BY FS_CardinalityType DEF Ranks, Bijection, Injection, Surjection, IsInjective

(* Who comes first in both rankings comes first in their fusion. *)
LEMMA FusedGreater ==
    ASSUME Weighty, NEW lexical, NEW semantic, NEW d, NEW e,
           RankOf(lexical, d) \in Nat, RankOf(semantic, d) \in Nat,
           RankOf(lexical, e) \in Nat, RankOf(semantic, e) \in Nat,
           RankOf(lexical, d) < RankOf(lexical, e),
           RankOf(semantic, d) < RankOf(semantic, e)
    PROVE  Greater(Fused(lexical, semantic, d), Fused(lexical, semantic, e))
<1> DEFINE l == RRFConstant + RankOf(lexical, d)
           s == RRFConstant + RankOf(semantic, d)
           m == RRFConstant + RankOf(lexical, e)
           t == RRFConstant + RankOf(semantic, e)
           LW == LexicalWeight
           SW == SemanticWeight
<1>1. /\ l \in Nat \ {0} /\ s \in Nat \ {0} /\ m \in Nat \ {0} /\ t \in Nat \ {0}
      /\ m - l \in Nat \ {0} /\ t - s \in Nat \ {0}
      /\ LW \in Nat /\ SW \in Nat /\ LW + SW # 0
  BY RetrievalAssumption DEF Weighty
<1>2. Greater(Fused(lexical, semantic, d), Fused(lexical, semantic, e))
        <=> (LW * s + SW * l) * (m * t) > (LW * t + SW * m) * (l * s)
  BY DEF Greater, Fused, Fraction
<1> HIDE DEF l, s, m, t, LW, SW
<1> DEFINE X == (s * t) * (m - l)
           Y == (l * m) * (t - s)
<1>3. X \in Nat \ {0} /\ Y \in Nat \ {0}
  BY <1>1, Products
<1>4. (LW * s + SW * l) * (m * t) = (LW * t + SW * m) * (l * s) + (LW * X + SW * Y)
  BY <1>1
<1>5. LW * X + SW * Y \in Nat \ {0}
  <2> HIDE DEF X, Y
  <2>1. LW * X \in Nat /\ SW * Y \in Nat
    BY <1>1, <1>3, Products
  <2>2. LW # 0 => LW * X # 0
    BY <1>1, <1>3, Products
  <2>3. SW # 0 => SW * Y # 0
    BY <1>1, <1>3, Products
  <2>. QED  BY <1>1, <2>1, <2>2, <2>3
<1>6. (LW * t + SW * m) * (l * s) \in Nat
  BY <1>1, Products
<1>7. \A a, b, c : a \in Nat /\ b \in Nat \ {0} /\ c = a + b => c > a
  OBVIOUS
<1>. QED  BY <1>2, <1>4, <1>5, <1>6, <1>7

-----------------------------------------------------------------------------
(* Retrieval: the inductive invariant *)

Worded(texts) == {d \in DOMAIN texts : Word(texts[d]) > 0}

(* An index holds texts only, and has counted them. *)
Counted(b) ==
    /\ b.texts \in [DOMAIN b.texts -> Texts]
    /\ Cardinality(Worded(b.texts)) =< b.count

MatchedFirst(r) ==
    Indexed(r) =>
      \A i \in DOMAIN answer[r].results :
        ~HasWord(answer[r].among, answer[r].results[i]) =>
          \A d \in DOMAIN answer[r].among : HasWord(answer[r].among, d) =>
            \E j \in 1..(i - 1) : answer[r].results[j] = d

RetrievalTypes ==
    /\ library \in Batches /\ batch \in [Retrievers -> Batches]
    /\ unstored \in [Retrievers -> SUBSET Docs]
    /\ bm25 \in [Retrievers -> [texts : Batches, count : Nat]]
    /\ answer \in [Retrievers -> [among : Batches, results : Seq(Docs)]]
    /\ indexings \in 0..MaxIndexings

RetrievalInv ==
    /\ RetrievalTypes
    /\ \A r \in Retrievers :
         /\ unstored[r] \subseteq DOMAIN batch[r]
         /\ Counted(bm25[r]) /\ MatchedFirst(r)
         /\ Busy(r) => answer[r] = NoAnswer

LEMMA NoRetrievalTyped ==
    /\ None \in Batches /\ DOMAIN None = {}
    /\ NoAnswer \in [among : Batches, results : Seq(Docs)]
    /\ NoIndex \in [texts : Batches, count : Nat] /\ Counted(NoIndex)
<1>1. None \in Batches /\ DOMAIN None = {}
  BY IsBatch DEF None
<1>2. Worded(None) = {}
  BY <1>1 DEF Worded
<1>3. NoIndex.texts = None /\ NoIndex.count = 0
  BY DEF NoIndex
<1>4. None \in [DOMAIN None -> Texts]
  BY DEF None
<1>. QED  BY <1>1, <1>2, <1>3, <1>4, FS_EmptySet DEF NoAnswer, NoIndex, Counted

(* Without an answer nothing is in the wrong order. *)
LEMMA NoAnswerNoOrder ==
    ASSUME NEW r \in Retrievers, answer[r] = NoAnswer
    PROVE  MatchedFirst(r)
<1>1. DOMAIN answer[r].results = {}
  BY DEF NoAnswer
<1>. QED  BY <1>1 DEF MatchedFirst

LEMMA OrderStays ==
    ASSUME NEW r \in Retrievers, MatchedFirst(r),
           answer'[r] = answer[r], bm25'[r] = bm25[r]
    PROVE  MatchedFirst(r)'
BY DEF MatchedFirst, Indexed

(* The results are documents in the order of their ranks. *)
LEMMA ListedFacts ==
    ASSUME NEW among \in Batches, NEW score, DOMAIN score = DOMAIN among,
           NEW rank \in Ranks(score)
    PROVE  /\ Listed(rank) \in Seq(Docs)
           /\ \A i \in DOMAIN Listed(rank) :
                /\ i \in Nat \ {0} /\ Listed(rank)[i] \in DOMAIN among
                /\ rank[Listed(rank)[i]] = i
           /\ \A i \in DOMAIN Listed(rank), d \in DOMAIN among :
                rank[d] < i => rank[d] \in 1..(i - 1) /\ Listed(rank)[rank[d]] = d
<1> DEFINE N == Cardinality(DOMAIN score)
           m == Smaller(Limit, N)
<1>1. /\ N \in Nat /\ rank \in [DOMAIN among -> 1..N]
      /\ \A i \in 1..N : \E d \in DOMAIN among : rank[d] = i
      /\ \A d, e \in DOMAIN among : rank[d] = rank[e] => d = e
  BY BatchFacts, RankFacts
<1>2. m \in Nat /\ m =< N
  BY <1>1, RetrievalAssumption DEF Smaller
<1>3. DOMAIN rank = DOMAIN score
  BY <1>1
<1>4. Listed(rank) = [i \in 1..m |-> CHOOSE d \in DOMAIN among : rank[d] = i]
  BY <1>3 DEF Listed
<1>5. ASSUME NEW i \in 1..m
      PROVE  Listed(rank)[i] \in DOMAIN among /\ rank[Listed(rank)[i]] = i
  BY <1>1, <1>2, <1>4
<1>6. DOMAIN Listed(rank) = 1..m
  BY <1>4
<1>7. Listed(rank) \in Seq(Docs)
  <2>1. Listed(rank) \in [1..m -> Docs]
    BY <1>4, <1>5, BatchFacts
  <2>. QED  BY <1>2, <2>1
<1>8. ASSUME NEW i \in 1..m, NEW d \in DOMAIN among, rank[d] < i
      PROVE  rank[d] \in 1..(i - 1) /\ Listed(rank)[rank[d]] = d
  <2>1. rank[d] \in 1..m /\ rank[d] \in 1..(i - 1)
    BY <1>1, <1>2, <1>8
  <2>. QED  BY <1>1, <1>5, <2>1
<1>. QED  BY <1>2, <1>5, <1>6, <1>7, <1>8

(* What Retrieve lists of documents that the index holds.                  *)
LEMMA RetrieveOrders ==
    ASSUME Weighty, NEW b \in [texts : Batches, count : Nat], Counted(b),
           NEW among \in Batches,
           \A d \in DOMAIN among : d \in DOMAIN b.texts /\ b.texts[d] = among[d],
           b.count =< Cardinality(DOMAIN b.texts),
           NEW lexical \in Ranks([d \in DOMAIN among |-> Lexical(b, d)]),
           NEW semantic \in Ranks([d \in Texted(among) |-> Semantic(among[d])]),
           NEW rank \in Ranks([d \in DOMAIN among |-> Fused(lexical, semantic, d)]),
           NEW i \in DOMAIN Listed(rank), ~HasWord(among, Listed(rank)[i]),
           NEW d \in DOMAIN among, HasWord(among, d)
    PROVE  \E j \in 1..(i - 1) : Listed(rank)[j] = d
<1> DEFINE L == [x \in DOMAIN among |-> Lexical(b, x)]
           S == [x \in Texted(among) |-> Semantic(among[x])]
           F == [x \in DOMAIN among |-> Fused(lexical, semantic, x)]
           e == Listed(rank)[i]
<1>1. /\ i \in Nat \ {0} /\ e \in DOMAIN among /\ rank[e] = i
      /\ rank[d] < i => rank[d] \in 1..(i - 1) /\ Listed(rank)[rank[d]] = d
  <2>1. DOMAIN F = DOMAIN among /\ rank \in Ranks(F)
    OBVIOUS
  <2> HIDE DEF F
  <2>. QED  BY <2>1, ListedFacts
<1>2. \A x \in DOMAIN among : among[x] \in Texts /\ among[x] # NoText
  BY RetrievalAssumption DEF Counted
<1>3. /\ Word(b.texts[d]) > 0 /\ ~(Word(b.texts[e]) > 0)
      /\ d \in DOMAIN b.texts /\ e \in DOMAIN b.texts
      /\ Word(among[d]) > 0 /\ ~(Word(among[e]) > 0)
  BY <1>1, <1>2 DEF HasWord
<1>4. Greater(L[d], L[e])
  BY <1>1, <1>3, WordScoresHigher DEF Counted, Worded
<1>5. d \in Texted(among) /\ e \in Texted(among) /\ Greater(S[d], S[e])
  BY <1>1, <1>2, <1>3, WordIsCloser DEF Texted
<1>6. IsFiniteSet(DOMAIN L) /\ IsFiniteSet(DOMAIN S) /\ IsFiniteSet(DOMAIN F)
  BY BatchFacts, FS_Subset DEF Texted
<1>7. /\ lexical[d] \in Nat /\ lexical[e] \in Nat /\ lexical[d] < lexical[e]
      /\ DOMAIN lexical = DOMAIN among
  <2>1. lexical \in Ranks(L) /\ DOMAIN L = DOMAIN among
    OBVIOUS
  <2> HIDE DEF L
  <2>. QED  BY <1>1, <1>4, <1>6, <2>1, RankFacts
<1>8. /\ semantic[d] \in Nat /\ semantic[e] \in Nat /\ semantic[d] < semantic[e]
      /\ DOMAIN semantic = Texted(among)
  <2>1. semantic \in Ranks(S) /\ DOMAIN S = Texted(among)
    OBVIOUS
  <2> HIDE DEF S
  <2>. QED  BY <1>5, <1>6, <2>1, RankFacts
<1>9. Greater(F[d], F[e])
  <2>1. /\ RankOf(lexical, d) = lexical[d] /\ RankOf(lexical, e) = lexical[e]
        /\ RankOf(semantic, d) = semantic[d] /\ RankOf(semantic, e) = semantic[e]
    BY <1>1, <1>5, <1>7, <1>8 DEF RankOf
  <2>. QED  BY <1>1, <1>7, <1>8, <2>1, FusedGreater
<1>10. rank[d] < rank[e]
  <2>1. rank \in Ranks(F) /\ DOMAIN F = DOMAIN among
    OBVIOUS
  <2> HIDE DEF F
  <2>. QED  BY <1>1, <1>6, <1>9, <2>1, RankFacts
<1>. QED  BY <1>1, <1>10

LEMMA RetrieveKeeps ==
    ASSUME Weighty, RetrievalInv, NEW r \in Retrievers, NEW allowed \in SUBSET Docs,
           Retrieve(r, allowed)
    PROVE  RetrievalInv'
<1> DEFINE among == Restrict(library, allowed \cap DOMAIN library)
<1>1. among \in Batches
  <2>1. library \in Batches
    BY DEF RetrievalInv, RetrievalTypes
  <2>2. /\ DOMAIN among \subseteq Docs
        /\ among \in [DOMAIN among -> Texts \cup {NoText}]
    BY <2>1, BatchFacts DEF Restrict
  <2>. QED  BY <2>2, IsBatch
<1>2. PICK lexical \in Ranks([d \in DOMAIN among |-> Lexical(bm25[r], d)]),
           semantic \in Ranks([d \in Texted(among) |-> Semantic(among[d])]) :
        \E rank \in Ranks([d \in DOMAIN among |-> Fused(lexical, semantic, d)]) :
          answer' = [answer EXCEPT ![r] = [among |-> among, results |-> Listed(rank)]]
  BY DEF Retrieve
<1>3. PICK rank \in Ranks([d \in DOMAIN among |-> Fused(lexical, semantic, d)]) :
          answer' = [answer EXCEPT ![r] = [among |-> among, results |-> Listed(rank)]]
  BY <1>2
<1>4. ~Busy(r) /\ UNCHANGED <<library, batch, unstored, bm25, indexings>>
  BY DEF Retrieve
<1> HIDE DEF among
<1>5. Listed(rank) \in Seq(Docs)
  <2> DEFINE F == [d \in DOMAIN among |-> Fused(lexical, semantic, d)]
  <2>1. DOMAIN F = DOMAIN among /\ rank \in Ranks(F)
    OBVIOUS
  <2> HIDE DEF F
  <2>. QED  BY <1>1, <2>1, ListedFacts
<1>6. /\ answer'[r].among = among /\ answer'[r].results = Listed(rank)
      /\ \A q \in Retrievers \ {r} : answer'[q] = answer[q]
      /\ answer' \in [Retrievers -> [among : Batches, results : Seq(Docs)]]
  BY <1>1, <1>3, <1>5 DEF RetrievalInv, RetrievalTypes
<1>7. MatchedFirst(r)'
  <2> SUFFICES ASSUME Indexed(r)', NEW i \in DOMAIN Listed(rank),
                      ~HasWord(among, Listed(rank)[i]),
                      NEW d \in DOMAIN among, HasWord(among, d)
               PROVE  \E j \in 1..(i - 1) : Listed(rank)[j] = d
    BY <1>6 DEF MatchedFirst, HasWord
  <2>1. /\ bm25[r] \in [texts : Batches, count : Nat] /\ Counted(bm25[r])
        /\ \A x \in DOMAIN among :
             x \in DOMAIN bm25[r].texts /\ bm25[r].texts[x] = among[x]
        /\ bm25[r].count =< Cardinality(DOMAIN bm25[r].texts)
    BY <1>4, <1>6 DEF Indexed, RetrievalInv, RetrievalTypes
  <2>. QED  BY <1>1, <2>1, RetrieveOrders
<1>8. ASSUME NEW q \in Retrievers \ {r} PROVE MatchedFirst(q)'
  BY <1>4, <1>6, OrderStays DEF RetrievalInv
<1>9. ASSUME NEW q \in Retrievers, Busy(q)' PROVE answer'[q] = NoAnswer
  BY <1>4, <1>6, <1>9 DEF Busy, RetrievalInv
<1>. QED  BY <1>4, <1>6, <1>7, <1>8, <1>9 DEF RetrievalInv, RetrievalTypes

LEMMA IndexDocumentsKeeps ==
    ASSUME RetrievalInv, NEW r \in Retrievers, NEW docs \in Batches,
           IndexDocuments(r, docs)
    PROVE  RetrievalInv'
<1>1. /\ batch' = [batch EXCEPT ![r] = docs]
      /\ unstored' = [unstored EXCEPT ![r] = DOMAIN docs]
      /\ answer' = [answer EXCEPT ![r] = NoAnswer]
      /\ indexings < MaxIndexings /\ indexings' = indexings + 1
      /\ UNCHANGED <<library, bm25>>
  BY DEF IndexDocuments
<1>2. RetrievalTypes'
  BY <1>1, BatchFacts, NoRetrievalTyped, RetrievalAssumption DEF RetrievalInv, RetrievalTypes
<1>3. ASSUME NEW q \in Retrievers
      PROVE  /\ unstored'[q] \subseteq DOMAIN batch'[q]
             /\ Counted(bm25'[q]) /\ MatchedFirst(q)'
             /\ Busy(q)' => answer'[q] = NoAnswer
  <2>1. CASE q = r
    <3>1. answer'[q] = NoAnswer /\ batch'[q] = docs /\ unstored'[q] = DOMAIN docs
      BY <1>1, <2>1 DEF RetrievalInv, RetrievalTypes
    <3>2. MatchedFirst(q)'
      BY <3>1, NoRetrievalTyped DEF MatchedFirst, NoAnswer
    <3>. QED  BY <1>1, <3>1, <3>2 DEF RetrievalInv
  <2>2. CASE q # r
    <3>1. answer'[q] = answer[q] /\ batch'[q] = batch[q] /\ unstored'[q] = unstored[q]
      BY <1>1, <2>2 DEF RetrievalInv, RetrievalTypes
    <3>. QED  BY <1>1, <3>1, OrderStays DEF RetrievalInv, Busy
  <2>. QED  BY <2>1, <2>2
<1>. QED  BY <1>2, <1>3 DEF RetrievalInv

LEMMA StoreDocumentKeeps ==
    ASSUME RetrievalInv, NEW r \in Retrievers, NEW d \in Docs, StoreDocument(r, d)
    PROVE  RetrievalInv'
<1>1. /\ library' = [e \in DOMAIN library \cup {d} |->
                       IF e = d THEN batch[r][d] ELSE library[e]]
      /\ unstored' = [unstored EXCEPT ![r] = @ \ {d}]
      /\ UNCHANGED <<batch, bm25, answer, indexings>> /\ d \in unstored[r]
  BY DEF StoreDocument
<1>2. library' \in Batches
  <2>1. /\ library \in Batches /\ batch[r] \in Batches /\ d \in DOMAIN batch[r]
    BY <1>1 DEF RetrievalInv, RetrievalTypes
  <2>2. batch[r][d] \in Texts \cup {NoText}
    BY <2>1, BatchFacts
  <2>3. /\ DOMAIN library' \subseteq Docs
        /\ library' \in [DOMAIN library' -> Texts \cup {NoText}]
    BY <1>1, <2>1, <2>2, BatchFacts
  <2>. QED  BY <2>3, IsBatch
<1>3. /\ unstored' \in [Retrievers -> SUBSET Docs]
      /\ \A q \in Retrievers : unstored'[q] \subseteq unstored[q]
  BY <1>1 DEF RetrievalInv, RetrievalTypes
<1>4. \A q \in Retrievers : MatchedFirst(q)'
  BY <1>1, OrderStays DEF RetrievalInv
<1>. QED  BY <1>1, <1>2, <1>3, <1>4 DEF RetrievalInv, RetrievalTypes, Busy

LEMMA StoreDocumentFailsKeeps ==
    ASSUME RetrievalInv, NEW r \in Retrievers, StoreDocumentFails(r)
    PROVE  RetrievalInv'
<1>1. /\ unstored' = [unstored EXCEPT ![r] = {}] /\ batch' = [batch EXCEPT ![r] = None]
      /\ UNCHANGED <<library, bm25, answer, indexings>>
  BY DEF StoreDocumentFails
<1>2. /\ unstored' \in [Retrievers -> SUBSET Docs] /\ batch' \in [Retrievers -> Batches]
      /\ unstored'[r] = {} /\ batch'[r] = None
      /\ \A q \in Retrievers \ {r} : unstored'[q] = unstored[q] /\ batch'[q] = batch[q]
  BY <1>1, NoRetrievalTyped DEF RetrievalInv, RetrievalTypes
<1>3. \A q \in Retrievers : MatchedFirst(q)'
  BY <1>1, OrderStays DEF RetrievalInv
<1>4. \A q \in Retrievers : Busy(q)' => answer'[q] = NoAnswer
  BY <1>1, <1>2, NoRetrievalTyped DEF RetrievalInv, Busy
<1>. QED  BY <1>1, <1>2, <1>3, <1>4 DEF RetrievalInv, RetrievalTypes

(* The new index holds the texts of the batch, each of which was counted.  *)
LEMMA BuildIndexKeeps ==
    ASSUME RetrievalInv, NEW r \in Retrievers, BuildIndex(r)
    PROVE  RetrievalInv'
<1> DEFINE texts == Restrict(batch[r], Texted(batch[r]))
           count == bm25[r].count + Cardinality(Worded(texts))
<1>1. /\ bm25' = [bm25 EXCEPT ![r] = [texts |-> texts, count |-> count]]
      /\ batch' = [batch EXCEPT ![r] = None]
      /\ UNCHANGED <<library, unstored, answer, indexings>>
      /\ Busy(r) /\ unstored[r] = {}
  BY DEF BuildIndex, Worded
<1>2. /\ texts \in Batches /\ texts \in [DOMAIN texts -> Texts]
      /\ IsFiniteSet(DOMAIN texts)
  <2>1. batch[r] \in Batches
    BY DEF RetrievalInv, RetrievalTypes
  <2>2. /\ DOMAIN texts \subseteq Docs /\ texts \in [DOMAIN texts -> Texts]
    BY <2>1, BatchFacts DEF Restrict, Texted
  <2> HIDE DEF texts
  <2>3. texts \in [DOMAIN texts -> Texts \cup {NoText}]
    BY <2>2
  <2>. QED  BY <2>2, <2>3, IsBatch, BatchFacts
<1>3. bm25[r].count \in Nat
  BY DEF RetrievalInv, RetrievalTypes
<1> HIDE DEF texts
<1>4. Cardinality(Worded(texts)) \in Nat
  BY <1>2, FS_Subset, FS_CardinalityType DEF Worded
<1>5. /\ bm25'[r].texts = texts /\ bm25'[r].count = count
      /\ \A q \in Retrievers \ {r} : bm25'[q] = bm25[q]
      /\ bm25' \in [Retrievers -> [texts : Batches, count : Nat]]
  BY <1>1, <1>2, <1>3, <1>4 DEF RetrievalInv, RetrievalTypes
<1>6. Counted(bm25'[r])
  BY <1>2, <1>3, <1>4, <1>5 DEF Counted
<1>7. /\ batch' \in [Retrievers -> Batches] /\ batch'[r] = None
      /\ \A q \in Retrievers \ {r} : batch'[q] = batch[q]
  BY <1>1, NoRetrievalTyped DEF RetrievalInv, RetrievalTypes
<1>8. MatchedFirst(r)'
  <2>1. answer'[r] = NoAnswer
    BY <1>1 DEF RetrievalInv
  <2>. QED  BY <2>1, NoRetrievalTyped DEF MatchedFirst, NoAnswer
<1>9. \A q \in Retrievers \ {r} : MatchedFirst(q)'
  BY <1>1, <1>5, OrderStays DEF RetrievalInv
<1>10. ASSUME NEW q \in Retrievers
       PROVE  /\ unstored'[q] \subseteq DOMAIN batch'[q]
              /\ Counted(bm25'[q]) /\ MatchedFirst(q)'
              /\ Busy(q)' => answer'[q] = NoAnswer
  BY <1>1, <1>5, <1>6, <1>7, <1>8, <1>9 DEF RetrievalInv, Busy
<1>. QED  BY <1>1, <1>5, <1>7, <1>10 DEF RetrievalInv, RetrievalTypes

LEMMA ForgetKeeps ==
    ASSUME RetrievalInv, NEW r \in Retrievers, Forget(r)
    PROVE  RetrievalInv'
<1>1. /\ answer' = [answer EXCEPT ![r] = NoAnswer]
      /\ UNCHANGED <<library, batch, unstored, bm25, indexings>>
  BY DEF Forget
<1>2. /\ answer' \in [Retrievers -> [among : Batches, results : Seq(Docs)]]
      /\ answer'[r] = NoAnswer
      /\ \A q \in Retrievers \ {r} : answer'[q] = answer[q]
  BY <1>1, NoRetrievalTyped DEF RetrievalInv, RetrievalTypes
<1>3. MatchedFirst(r)'
  BY <1>2, NoRetrievalTyped DEF MatchedFirst, NoAnswer
<1>4. \A q \in Retrievers \ {r} : MatchedFirst(q)'
  BY <1>1, <1>2, OrderStays DEF RetrievalInv
<1>. QED  BY <1>1, <1>2, <1>3, <1>4 DEF RetrievalInv, RetrievalTypes, Busy

LEMMA RestartKeeps ==
    ASSUME RetrievalInv, NEW r \in Retrievers, Restart(r)
    PROVE  RetrievalInv'
<1>1. /\ batch' = [batch EXCEPT ![r] = None] /\ unstored' = [unstored EXCEPT ![r] = {}]
      /\ bm25' = [bm25 EXCEPT ![r] = NoIndex] /\ answer' = [answer EXCEPT ![r] = NoAnswer]
      /\ UNCHANGED <<library, indexings>>
  BY DEF Restart
<1>2. RetrievalTypes'
  BY <1>1, NoRetrievalTyped DEF RetrievalInv, RetrievalTypes
<1>3. /\ answer'[r] = NoAnswer /\ batch'[r] = None /\ unstored'[r] = {}
      /\ bm25'[r] = NoIndex
      /\ \A q \in Retrievers \ {r} :
           /\ answer'[q] = answer[q] /\ batch'[q] = batch[q]
           /\ unstored'[q] = unstored[q] /\ bm25'[q] = bm25[q]
  BY <1>1 DEF RetrievalInv, RetrievalTypes
<1>4. MatchedFirst(r)'
  BY <1>3, NoRetrievalTyped DEF MatchedFirst, NoAnswer
<1>5. \A q \in Retrievers \ {r} : MatchedFirst(q)'
  BY <1>3, OrderStays DEF RetrievalInv
<1>6. ASSUME NEW q \in Retrievers
      PROVE  /\ unstored'[q] \subseteq DOMAIN batch'[q]
             /\ Counted(bm25'[q]) /\ MatchedFirst(q)'
             /\ Busy(q)' => answer'[q] = NoAnswer
  BY <1>3, <1>4, <1>5, NoRetrievalTyped DEF RetrievalInv, Busy
<1>. QED  BY <1>2, <1>6 DEF RetrievalInv

LEMMA RetrievalBegins == RetrievalInit => RetrievalInv
<1> SUFFICES ASSUME RetrievalInit PROVE RetrievalInv
  OBVIOUS
<1>1. RetrievalTypes
  BY NoRetrievalTyped, RetrievalAssumption DEF RetrievalInit, RetrievalTypes
<1>2. ASSUME NEW r \in Retrievers
      PROVE  /\ unstored[r] \subseteq DOMAIN batch[r]
             /\ Counted(bm25[r]) /\ answer[r] = NoAnswer
  BY NoRetrievalTyped DEF RetrievalInit
<1>. QED  BY <1>1, <1>2, NoAnswerNoOrder DEF RetrievalInv

LEMMA RetrievalStep ==
    ASSUME Weighty
    PROVE  RetrievalInv /\ [RetrievalNext]_retrievalVars => RetrievalInv'
<1> SUFFICES ASSUME RetrievalInv, [RetrievalNext]_retrievalVars PROVE RetrievalInv'
  OBVIOUS
<1>1. CASE UNCHANGED retrievalVars
  <2>1. \A r \in Retrievers : MatchedFirst(r)'
    BY <1>1, OrderStays DEF RetrievalInv, retrievalVars
  <2>. QED  BY <1>1, <2>1 DEF RetrievalInv, RetrievalTypes, retrievalVars, Busy
<1>. QED
  BY <1>1, IndexDocumentsKeeps, StoreDocumentKeeps, StoreDocumentFailsKeeps,
     BuildIndexKeeps, ForgetKeeps, RestartKeeps, RetrieveKeeps DEF RetrievalNext

(* What every process of HybridRetriever (memory_retrieval.go) has read    *)
(* and indexed is of its type, its index has counted each text it holds,   *)
(* and what it answered is in order, for any processes and documents.      *)
THEOREM RetrievalInvariant ==
    ASSUME Weighty
    PROVE  RetrievalSpec => []RetrievalInv
BY RetrievalBegins, RetrievalStep, PTL DEF RetrievalSpec

(* Retrieve (memory_retrieval.go:163) cuts no document with the word of    *)
(* the query off in favour of one without, for any texts, any limit and    *)
(* any weights that are not both 0: with both 0 all fused scores are 0,    *)
(* and the order is any.                                                   *)
THEOREM MatchesAlwaysFirst ==
    ASSUME Weighty
    PROVE  RetrievalSpec => []MatchesFirst
<1>1. RetrievalInv => MatchesFirst
  BY DEF RetrievalInv, MatchesFirst, MatchedFirst
<1>. QED  BY <1>1, RetrievalInvariant, PTL
=============================================================================
