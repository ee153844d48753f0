---------------------------- MODULE Consolidation -----------------------------
(***************************************************************************)
(* memory_consolidation.go: writers add assertions and contradictions to   *)
(* the embedded database, and Consolidate derives canonical facts from     *)
(* them.  Every Put and every scan is a transaction of its own (see        *)
(* EmbeddedTxn), which is where the steps below are cut.                   *)
(*                                                                         *)
(* The confidence of an assertion orders the sources of a canonical fact   *)
(* and weighs its confidence; both are left out.                           *)
(*                                                                         *)
(* Every goroutine has a Consolidator of its own: each key is appended to  *)
(* c.prefix, and goroutines that share the handle could write one key over *)
(* the other in the array behind it, which SemanticCache models.           *)
(***************************************************************************)
EXTENDS Integers, FiniteSetsExt

CONSTANTS
    Writers,               \* goroutines that call AddWithContradiction
    Consolidators,         \* goroutines that call Consolidate
    Facts, Sources,
    GivenIDs, GivenTimes,  \* identifiers and times that callers choose themselves
    KeyOrder,              \* where a scan of the database meets an identifier
    Superseded,            \* the contradicts arguments of the writers
    UseTemporalUpdates, MaxConflictAge,
    MaxTime, MaxAdds       \* bounds: where the clock stops, the stored assertions

(* generateAssertionID hashes fact and source. *)
IDs == (Facts \X Sources) \cup GivenIDs

ASSUME ConsolidationAssumption ==
    /\ KeyOrder \in [IDs -> Nat]
    /\ \A i, j \in IDs : KeyOrder[i] = KeyOrder[j] => i = j
    /\ Superseded \subseteq SUBSET IDs
    /\ UseTemporalUpdates \in BOOLEAN /\ MaxConflictAge \in Nat
    /\ MaxTime \in Nat /\ MaxAdds \in Nat
    /\ GivenTimes \subseteq 0..MaxTime

VARIABLES
    clock,           \* time.Now
    adds,            \* how many assertions were stored so far
    assertion,       \* the stored assertions, by identifier
    contradiction,   \* the times of the stored contradictions, by <<from, to>>
    canonical,       \* the stored canonical facts, by fact
    writer,          \* the call each writer is in
    run              \* the Consolidate each consolidator is in

vars == <<clock, adds, assertion, contradiction, canonical, writer, run>>

Times == 0..MaxTime

Assertion == [fact : Facts, source : Sources, time : Times]

CanonicalFact == [sources : SUBSET Sources, validFrom : Times]

Nothing == [x \in {} |-> x]

Stored(f, k, v) == [x \in DOMAIN f \cup {k} |-> IF x = k THEN v ELSE f[x]]

-----------------------------------------------------------------------------
(* What a run makes of the assertions and contradictions it has read *)

AgedOut(time) == UseTemporalUpdates /\ clock - time > MaxConflictAge

(* Mutant: the contradictions an assertion is the new side of. *)
MarksBy(marks, i) == {p \in DOMAIN marks : p[2] = i}

MarksAgainst(marks, i) == {p \in DOMAIN marks : p[1] = i}

(* The loop over the contradictions stops at the first one that matches.   *)
Contradicted(marks, i) ==
    \E p \in MarksAgainst(marks, i) :
      /\ \A q \in MarksAgainst(marks, i) : KeyOrder[p[2]] <= KeyOrder[q[2]]
      /\ ~AgedOut(marks[p])

ValidFor(log, marks, f) ==
    {i \in DOMAIN log : log[i].fact = f /\ ~Contradicted(marks, i)}

Merged(log, valid) == [sources   |-> {log[i].source : i \in valid},
                       validFrom |-> Min({log[i].time : i \in valid})]

-----------------------------------------------------------------------------
NoCall == [id |-> CHOOSE i \in IDs : TRUE, todo |-> {}]

Calling(id, todo) == IF todo = {} THEN NoCall ELSE [id |-> id, todo |-> todo]

Reading(pc, log, marks, todo, dirty) ==
    [pc |-> pc, log |-> log, marks |-> marks, todo |-> todo,
     dirty |-> dirty,   \* history: something changed, or a scan broke off
     skipped |-> {}]    \* history: the facts whose Put failed, until it is dirty

(* The assertions are grouped by fact. *)
Grouped(log, marks, dirty) ==
    Reading("write", log, marks, {log[i].fact : i \in DOMAIN log}, dirty)

NoRun == Reading("idle", Nothing, Nothing, {}, FALSE)

Init ==
    /\ clock = 0 /\ adds = 0
    /\ assertion = Nothing /\ contradiction = Nothing /\ canonical = Nothing
    /\ writer = [w \in Writers |-> NoCall]
    /\ run = [c \in Consolidators |-> NoRun]

Spoilt(r) == [r EXCEPT !.dirty = TRUE, !.skipped = {}]

Skipping(r, f) == IF r.dirty THEN r ELSE [r EXCEPT !.skipped = @ \cup {f}]

Disturbed(cs) ==
    [c \in Consolidators |->
       IF c \in cs /\ run[c].pc # "idle" THEN Spoilt(run[c]) ELSE run[c]]

(* Mutant: AddWithContradiction goes on when Add has failed. *)
MarkAnyway(ok, ids) == ids

ToMark(ok, ids) == IF ok THEN ids ELSE {}

(* Add, alone or as the first part of AddWithContradiction: an assertion   *)
(* with a known identifier replaces the one there.  No caller says that an *)
(* assertion contradicts itself.                                           *)
Add(w, id, f, s, ids) ==
    /\ writer[w].todo = {}
    /\ id \in GivenIDs \cup {<<f, s>>} /\ id \notin ids
    /\ adds < MaxAdds
    /\ \E t \in GivenTimes \cup {clock} :
         assertion' = Stored(assertion, id, [fact |-> f, source |-> s, time |-> t])
    /\ writer' = [writer EXCEPT ![w] = Calling(id, ToMark(TRUE, ids))]
    /\ adds' = adds + 1
    /\ run' = Disturbed(Consolidators)
    /\ UNCHANGED <<clock, contradiction, canonical>>

(* The Put of the assertion fails, and nothing is marked. *)
AddFails(w, id, ids) ==
    /\ writer[w].todo = {} /\ ids # {}
    /\ writer' = [writer EXCEPT ![w] = Calling(id, ToMark(FALSE, ids))]
    /\ UNCHANGED <<clock, adds, assertion, contradiction, canonical, run>>

Mark(w) ==
    \E i \in writer[w].todo :
      /\ contradiction' = Stored(contradiction, <<i, writer[w].id>>, clock)
      /\ writer' = [writer EXCEPT ![w] = Calling(@.id, @.todo \ {i})]
      /\ run' = Disturbed(Consolidators)
      /\ UNCHANGED <<clock, adds, assertion, canonical>>

(* The Put of a contradiction fails, or the process dies. *)
Abandon(w) ==
    /\ writer[w].todo # {}
    /\ writer' = [writer EXCEPT ![w] = NoCall]
    /\ UNCHANGED <<clock, adds, assertion, contradiction, canonical, run>>

-----------------------------------------------------------------------------
ScanAssertions(c) ==
    /\ run[c].pc = "idle"
    /\ run' = [run EXCEPT ![c] = Reading("scan", assertion, Nothing, {}, FALSE)]
    /\ UNCHANGED <<clock, adds, assertion, contradiction, canonical, writer>>

ScanContradictions(c) ==
    /\ run[c].pc = "scan"
    /\ run' = [run EXCEPT ![c] = Grouped(@.log, contradiction, @.dirty)]
    /\ UNCHANGED <<clock, adds, assertion, contradiction, canonical, writer>>

(* A scan that fails looks like one that has come to the end: iter.Err is  *)
(* never asked, and the rest is missing.                                   *)
ReadUpTo(f, keys) == [k \in keys |-> f[k]]

AssertionsBefore(i) == {j \in DOMAIN assertion : KeyOrder[j] < KeyOrder[i]}

ScanAssertionsBreaks(c) ==
    /\ run[c].pc = "idle"
    /\ \E i \in DOMAIN assertion :
         run' = [run EXCEPT ![c] =
                   Reading("scan", ReadUpTo(assertion, AssertionsBefore(i)),
                           Nothing, {}, TRUE)]
    /\ UNCHANGED <<clock, adds, assertion, contradiction, canonical, writer>>

ContradictionsBefore(p) ==
    {q \in DOMAIN contradiction :
       \/ KeyOrder[q[1]] < KeyOrder[p[1]]
       \/ q[1] = p[1] /\ KeyOrder[q[2]] < KeyOrder[p[2]]}

ScanContradictionsBreaks(c) ==
    /\ run[c].pc = "scan"
    /\ \E p \in DOMAIN contradiction :
         run' = [run EXCEPT ![c] =
                   Grouped(@.log, ReadUpTo(contradiction, ContradictionsBefore(p)),
                           TRUE)]
    /\ UNCHANGED <<clock, adds, assertion, contradiction, canonical, writer>>

(* What a run has read is of no use after its last group. *)
Without(r, f) ==
    IF r.todo = {f} THEN [r EXCEPT !.todo = {}, !.log = Nothing, !.marks = Nothing]
    ELSE [r EXCEPT !.todo = @ \ {f}]

(* One group of assertions, in no particular order; a failed Put is passed *)
(* over.                                                                   *)
WriteCanonical(c, f) ==
    LET valid == ValidFor(run[c].log, run[c].marks, f)
        rest  == Without(run[c], f)
    IN  /\ run[c].pc = "write" /\ f \in run[c].todo
        /\ \/ /\ valid = {}
              /\ run' = [run EXCEPT ![c] = rest]
              /\ UNCHANGED canonical
           \/ /\ valid # {}
              /\ run' = [run EXCEPT ![c] = Skipping(rest, f)]
              /\ UNCHANGED canonical
           \/ /\ valid # {}
              /\ canonical' = Stored(canonical, f, Merged(run[c].log, valid))
              /\ run' = [Disturbed(Consolidators \ {c}) EXCEPT ![c] = rest]
        /\ UNCHANGED <<clock, adds, assertion, contradiction, writer>>

Return(c) ==
    /\ run[c].pc = "write" /\ run[c].todo = {}
    /\ run' = [run EXCEPT ![c] = NoRun]
    /\ UNCHANGED <<clock, adds, assertion, contradiction, canonical, writer>>

Tick ==
    /\ clock < MaxTime
    /\ clock' = clock + 1
    /\ run' = Disturbed(Consolidators)
    /\ UNCHANGED <<adds, assertion, contradiction, canonical, writer>>

Next ==
    \/ \E w \in Writers :
         \/ \E id \in IDs, f \in Facts, s \in Sources, ids \in Superseded :
              Add(w, id, f, s, ids)
         \/ \E id \in IDs, ids \in Superseded : AddFails(w, id, ids)
         \/ Mark(w) \/ Abandon(w)
    \/ \E c \in Consolidators :
         \/ ScanAssertions(c) \/ ScanAssertionsBreaks(c)
         \/ ScanContradictions(c) \/ ScanContradictionsBreaks(c) \/ Return(c)
         \/ \E f \in Facts : WriteCanonical(c, f)
    \/ Tick

Spec == Init /\ [][Next]_vars
=============================================================================
