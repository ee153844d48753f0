------------------------------- MODULE Retrieval -------------------------------
(***************************************************************************)
(* HybridRetriever of memory_retrieval.go: processes, each with one        *)
(* retriever and its index in memory, store documents in one namespace and *)
(* ask for those that fit a query.  The documents come from the store and  *)
(* the index from the last IndexDocuments of the process that asks.        *)
(*                                                                         *)
(* The query is one word, and a text is how often it has that word and how *)
(* often some other one.  Scores are fractions; 0/0, greater and smaller   *)
(* than nothing, is NaN.  Explain and PrefilterRatio are left out: they    *)
(* decide nothing.                                                         *)
(***************************************************************************)
EXTENDS Integers, FiniteSets, Functions

CONSTANTS
    Retrievers, Docs,
    NoText,        \* the text of a document that has none
    Texts,         \* pairs <<times the word of the query, times the other>>
    LexicalWeight, SemanticWeight, RRFConstant, Limit,
    MaxIndexings   \* bound

ASSUME RetrievalAssumption ==
    /\ IsFiniteSet(Docs)
    /\ Texts \subseteq Nat \X Nat /\ NoText \notin Texts
    /\ LexicalWeight \in Nat /\ SemanticWeight \in Nat
    /\ RRFConstant \in Nat \ {0} /\ Limit \in Nat /\ MaxIndexings \in Nat

VARIABLES
    library,     \* the stored documents: their texts
    batch,       \* what each process is indexing
    unstored,    \* the documents of it still to be stored
    bm25,        \* the index: texts, and in how many documents the word was
    answer,      \* the documents Retrieve chose from, and its results
    indexings

retrievalVars == <<library, batch, unstored, bm25, answer, indexings>>

None == [x \in {} |-> NoText]

NoAnswer == [among |-> None, results |-> <<>>]

NoIndex == [texts |-> None, count |-> 0]

Word(t) == t[1]
Length(t) == t[1] + t[2]

(* The documents that have a text. *)
Texted(docs) == {d \in DOMAIN docs : docs[d] # NoText}

-----------------------------------------------------------------------------
(* Scores *)

Fraction(n, d) == [num |-> n, den |-> d]

Greater(x, y) == x.num * y.den > y.num * x.den

(* The inverse frequency of the word is negative where it was counted in   *)
(* more documents than there are now.                                      *)
Sign(b) == IF b.count = 0 THEN 0
           ELSE IF b.count > Cardinality(DOMAIN b.texts) THEN -1 ELSE 1

(* The words of all texts, as often as they occur. *)
Words(texts) == UNION {{d} \X (1..Length(texts[d])) : d \in DOMAIN texts}

(* With k1 = 1.5 and b = 0.75, up to a positive factor all texts share.    *)
(* 0/0 where no text has a word and the query's was counted before.        *)
Lexical(b, d) ==
    IF d \notin DOMAIN b.texts THEN Fraction(0, 1)
    ELSE LET t     == b.texts[d]
             total == Cardinality(Words(b.texts))
         IN  IF Sign(b) = 0 THEN Fraction(0, 1)
             ELSE Fraction(Sign(b) * Word(t) * total,
                           8 * total * Word(t) + 3 * total
                             + 9 * Length(t) * Cardinality(DOMAIN b.texts))

(* The square of the cosine. *)
Semantic(t) ==
    IF Length(t) = 0 THEN Fraction(0, 1)
    ELSE Fraction(t[1] * t[1], t[1] * t[1] + t[2] * t[2])

(* Equal scores come in any order. *)
Ranks(score) ==
    {rank \in Bijection(DOMAIN score, 1..Cardinality(DOMAIN score)) :
       \A d, e \in DOMAIN score : Greater(score[d], score[e]) => rank[d] < rank[e]}

(* A document that was not ranked has rank 0. *)
RankOf(rank, d) == IF d \in DOMAIN rank THEN rank[d] ELSE 0

(* Mutant: the ranks are added and not their inverses. *)
RanksAdded(lexical, semantic, d) ==
    Fraction(LexicalWeight * RankOf(lexical, d)
               + SemanticWeight * RankOf(semantic, d), 1)

Fused(lexical, semantic, d) ==
    LET l == RRFConstant + RankOf(lexical, d)
        s == RRFConstant + RankOf(semantic, d)
    IN  Fraction(LexicalWeight * s + SemanticWeight * l, l * s)

-----------------------------------------------------------------------------
RetrievalInit ==
    /\ library = None
    /\ batch = [r \in Retrievers |-> None] /\ unstored = [r \in Retrievers |-> {}]
    /\ bm25 = [r \in Retrievers |-> NoIndex]
    /\ answer = [r \in Retrievers |-> NoAnswer]
    /\ indexings = 0

Busy(r) == DOMAIN batch[r] # {}

IndexDocuments(r, docs) ==
    /\ ~Busy(r) /\ DOMAIN docs # {}
    /\ indexings < MaxIndexings /\ indexings' = indexings + 1
    /\ batch' = [batch EXCEPT ![r] = docs]
    /\ unstored' = [unstored EXCEPT ![r] = DOMAIN docs]
    /\ answer' = [answer EXCEPT ![r] = NoAnswer]
    /\ UNCHANGED <<library, bm25>>

StoreDocument(r, d) ==
    /\ d \in unstored[r]
    /\ library' = [e \in DOMAIN library \cup {d} |->
                     IF e = d THEN batch[r][d] ELSE library[e]]
    /\ unstored' = [unstored EXCEPT ![r] = @ \ {d}]
    /\ UNCHANGED <<batch, bm25, answer, indexings>>

(* The documents stored so far stay, and the index is the old one. *)
StoreDocumentFails(r) ==
    /\ unstored[r] # {}
    /\ unstored' = [unstored EXCEPT ![r] = {}]
    /\ batch' = [batch EXCEPT ![r] = None]
    /\ UNCHANGED <<library, bm25, answer, indexings>>

(* The texts are replaced; in how many documents the word was is added up. *)
BuildIndex(r) ==
    /\ Busy(r) /\ unstored[r] = {}
    /\ LET texts == Restrict(batch[r], Texted(batch[r])) IN
         bm25' = [bm25 EXCEPT ![r] =
           [texts |-> texts,
            count |-> @.count +
              Cardinality({d \in DOMAIN texts : Word(texts[d]) > 0})]]
    /\ batch' = [batch EXCEPT ![r] = None]
    /\ UNCHANGED <<library, unstored, answer, indexings>>

Smaller(a, b) == IF a < b THEN a ELSE b

(* The documents in order of rank, the first Limit of them. *)
Listed(rank) ==
    [i \in 1..Smaller(Limit, Cardinality(DOMAIN rank)) |->
       CHOOSE d \in DOMAIN rank : rank[d] = i]

(* The scan sees one state of the store; the rest is local.  A scan that   *)
(* breaks off, which is not looked for, is a smaller set of allowed ones.  *)
Retrieve(r, allowed) ==
    /\ ~Busy(r) /\ answer[r] = NoAnswer
    /\ LET among == Restrict(library, allowed \cap DOMAIN library) IN
         \E lexical \in Ranks([d \in DOMAIN among |-> Lexical(bm25[r], d)]),
            semantic \in Ranks([d \in Texted(among) |-> Semantic(among[d])]) :
         \E rank \in Ranks([d \in DOMAIN among |-> Fused(lexical, semantic, d)]) :
           answer' = [answer EXCEPT ![r] =
                        [among |-> among, results |-> Listed(rank)]]
    /\ UNCHANGED <<library, batch, unstored, bm25, indexings>>

(* The caller is done with the results. *)
Forget(r) ==
    /\ answer[r] # NoAnswer
    /\ answer' = [answer EXCEPT ![r] = NoAnswer]
    /\ UNCHANGED <<library, batch, unstored, bm25, indexings>>

(* The process dies; the one that takes over has indexed nothing. *)
Restart(r) ==
    /\ batch' = [batch EXCEPT ![r] = None]
    /\ unstored' = [unstored EXCEPT ![r] = {}]
    /\ bm25' = [bm25 EXCEPT ![r] = NoIndex]
    /\ answer' = [answer EXCEPT ![r] = NoAnswer]
    /\ UNCHANGED <<library, indexings>>

Batches == UNION {[D -> Texts \cup {NoText}] : D \in SUBSET Docs}

RetrievalNext ==
    \E r \in Retrievers :
      \/ \E docs \in Batches : IndexDocuments(r, docs)
      \/ \E d \in Docs : StoreDocument(r, d)
      \/ StoreDocumentFails(r) \/ BuildIndex(r) \/ Forget(r) \/ Restart(r)
      \/ \E allowed \in SUBSET Docs : Retrieve(r, allowed)

RetrievalSpec == RetrievalInit /\ [][RetrievalNext]_retrievalVars
=============================================================================
