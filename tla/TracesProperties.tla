--------------------------- MODULE TracesProperties ---------------------------
(***************************************************************************)
(* What goroutines that build a trace together can rely on.                *)
(***************************************************************************)
EXTENDS Traces

SpanRecord == [parent : Nat, start : Nat, end : Nat]

TracesTypeOK ==
    /\ DOMAIN traces \subseteq Nat
    /\ traces \in [DOMAIN traces -> [root : Nat, start : Nat]]
    /\ DOMAIN spans \subseteq Nat \X Nat
    /\ spans \in [DOMAIN spans -> SpanRecord]
    /\ DOMAIN returned \subseteq Nat \X Nat
    /\ returned \in [DOMAIN returned -> Nat]
    /\ micros \in Nat /\ drawn \in Nat
    /\ job \in [Tracers -> [pc : {"idle", "trace", "span", "end"}, trace : Nat,
                            span : Nat, data : SpanRecord]]
    /\ given \subseteq Nat \X Nat /\ muddled \subseteq Nat \X Nat

(* Although StartSpan looks nothing up, every stored span belongs to a     *)
(* stored trace, as its root or below a stored span of that trace that     *)
(* began no later, and ends no earlier than it began, whichever requests   *)
(* fail and however goroutines overwrite each other's records.             *)
SpansAttached ==
    \A p \in DOMAIN spans :
      LET trace == p[1]  parent == <<p[1], spans[p].parent>> IN
      /\ trace \in DOMAIN traces
      /\ IF spans[p].parent = 0 THEN traces[trace].root = p[2]
         ELSE parent \in DOMAIN spans /\ spans[parent].start <= spans[p].start
      /\ traces[trace].start <= spans[p].start
      /\ spans[p].end # 0 => spans[p].start <= spans[p].end

(* A span for which EndSpan has returned a duration stays ended, and what  *)
(* it has is the duration returned last, unless two EndSpans of it met or  *)
(* one failed: then the slower one decides, though it read first.          *)
EndsAreKept ==
    \A p \in DOMAIN returned :
      /\ p \in DOMAIN spans /\ spans[p].end # 0
      /\ p \notin muddled => spans[p].end = returned[p]
=============================================================================
