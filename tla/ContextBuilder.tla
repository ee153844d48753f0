----------------------------- MODULE ContextBuilder ----------------------------
(***************************************************************************)
(* ContextQueryBuilder of context_builder.go: sections of text, ordered by *)
(* priority and cut to a budget of tokens.                                 *)
(*                                                                         *)
(* A text is its length.  The output formats are left out: they lay out    *)
(* the sections that were kept.  A budget is not negative: with one that   *)
(* is, proportional truncation slices out of bounds.                       *)
(***************************************************************************)
EXTENDS Integers, SequencesExt

CONSTANTS
    TextLengths,
    Priorities,
    Budgets,
    DefaultBudget,  \* 4096 in the code
    MaxSections,    \* bound on the sections of one builder
    NoResult

ASSUME ContextAssumption ==
    /\ TextLengths \subseteq Nat /\ Priorities \subseteq Int
    /\ Budgets \subseteq Nat /\ DefaultBudget \in Nat

Truncations == {"tail_drop", "head_drop", "proportional", "other"}

VARIABLES
    sections,    \* in the order of the calls to Literal
    tokenBudget, truncation,
    result       \* of the last call, if that was Execute: the sections kept

contextVars == <<sections, tokenBudget, truncation, result>>

(* About four characters to a token. *)
estimateTokens(length) == length \div 4

(* The sum of the numbers n[i]: each contributes n[i] pairs. *)
Total(n) == Cardinality(UNION {{i} \X (1..n[i]) : i \in DOMAIN n})

TotalTokens(s) == Total([i \in DOMAIN s |-> s[i].tokens])

ContextInit ==
    /\ sections = <<>> /\ tokenBudget = DefaultBudget
    /\ truncation = "tail_drop" /\ result = NoResult

(* What sort.Slice may return: it promises no order among equals. *)
ByPriority(s) ==
    {t \in {[i \in DOMAIN s |-> s[p[i]]] : p \in Bijection(DOMAIN s, DOMAIN s)} :
       \A i \in 2..Len(s) : t[i - 1].priority =< t[i].priority}

-----------------------------------------------------------------------------
(* Mutant: a section that does not fit is left out, and those behind it    *)
(* are tried.                                                              *)
TailDropFilling(s) ==
    FoldLeft(LAMBDA t, x : IF TotalTokens(t) + x.tokens =< tokenBudget
                           THEN Append(t, x) ELSE t, <<>>, s)

(* The longest beginning that fits: the loop breaks at the first section   *)
(* that does not.                                                          *)
tailDropTruncation(s) ==
    SubSeq(s, 1,
      Cardinality({k \in DOMAIN s : TotalTokens(SubSeq(s, 1, k)) =< tokenBudget}))

(* Mutant: a section that is just the excess is kept. *)
DropOrKeepStrict(at, x, toDrop) ==
    IF at.dropped + x.tokens < toDrop
    THEN [at EXCEPT !.dropped = @ + x.tokens]
    ELSE [at EXCEPT !.kept = Append(@, x)]

DropOrKeep(at, x, toDrop) ==
    IF at.dropped + x.tokens =< toDrop
    THEN [at EXCEPT !.dropped = @ + x.tokens]
    ELSE [at EXCEPT !.kept = Append(@, x)]

(* From the front, what fits in the excess is dropped; a section that does *)
(* not is kept, and those behind it are tried.                             *)
headDropTruncation(s) ==
    LET toDrop == TotalTokens(s) - tokenBudget
        at[n \in 0..Len(s)] == IF n = 0 THEN [dropped |-> 0, kept |-> <<>>]
                               ELSE DropOrKeep(at[n - 1], s[n], toDrop)
    IN  at[Len(s)].kept

(* int(float64(n) * factor): the quotient, and where the division leaves   *)
(* no remainder the product may round to just below it (29/100 of 100 is   *)
(* 28).                                                                    *)
Scaled(n, total) ==
    LET q == (n * tokenBudget) \div total
    IN  {q} \cup IF (n * tokenBudget) % total = 0 /\ q > 0 THEN {q - 1} ELSE {}

AtLeastOne(n) == IF n < 1 THEN 1 ELSE n

(* Mutant: the text is left as it is. *)
ShrunkTokensOnly(x, total) ==
    {[x EXCEPT !.tokens = AtLeastOne(t)] : t \in Scaled(x.tokens, total)}

Shrunk(x, total) ==
    {[priority |-> x.priority, tokens |-> AtLeastOne(t), length |-> l] :
       t \in Scaled(x.tokens, total), l \in Scaled(x.length, total)}

proportionalTruncation(s) ==
    {t \in [DOMAIN s -> UNION {Shrunk(s[i], TotalTokens(s)) : i \in DOMAIN s}] :
       \A i \in DOMAIN s : t[i] \in Shrunk(s[i], TotalTokens(s))}

applyTruncation(s) ==
    CASE truncation = "tail_drop" -> {tailDropTruncation(s)}
      [] truncation = "head_drop" -> {headDropTruncation(s)}
      [] truncation = "proportional" -> proportionalTruncation(s)
      [] OTHER -> {s}

-----------------------------------------------------------------------------
Literal(priority, length) ==
    /\ Len(sections) < MaxSections
    /\ sections' = Append(sections, [priority |-> priority, length |-> length,
                                     tokens |-> estimateTokens(length)])
    /\ result' = NoResult
    /\ UNCHANGED <<tokenBudget, truncation>>

WithBudget(n) ==
    /\ tokenBudget' = n /\ result' = NoResult
    /\ UNCHANGED <<sections, truncation>>

SetTruncation(t) ==
    /\ truncation' = t /\ result' = NoResult
    /\ UNCHANGED <<sections, tokenBudget>>

Execute ==
    /\ \E s \in ByPriority(sections) :
         IF TotalTokens(s) > tokenBudget THEN result' \in applyTruncation(s)
                                         ELSE result' = s
    /\ UNCHANGED <<sections, tokenBudget, truncation>>

ContextNext ==
    \/ \E p \in Priorities, l \in TextLengths : Literal(p, l)
    \/ \E n \in Budgets : WithBudget(n)
    \/ \E t \in Truncations : SetTruncation(t)
    \/ Execute

ContextSpec == ContextInit /\ [][ContextNext]_contextVars
=============================================================================
