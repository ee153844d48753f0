-------------------------- MODULE RetrievalProperties --------------------------
(***************************************************************************)
(* What Retrieve answers.                                                  *)
(***************************************************************************)
EXTENDS Retrieval

Library == [Docs -> Texts \cup {NoText}]

RetrievalTypeOK ==
    /\ DOMAIN library \subseteq Docs
    /\ \A r \in Retrievers :
         /\ unstored[r] \subseteq DOMAIN batch[r] /\ DOMAIN batch[r] \subseteq Docs
         /\ DOMAIN bm25[r].texts \subseteq Docs /\ bm25[r].count \in Nat
         /\ DOMAIN answer[r].among \subseteq Docs
    /\ indexings \in 0..MaxIndexings

HasWord(docs, d) == docs[d] # NoText /\ Word(docs[d]) > 0

(* The index of r is that of the documents it was asked about, and no text *)
(* in it was counted twice.                                                *)
Indexed(r) ==
    /\ \A d \in DOMAIN answer[r].among :
         d \in DOMAIN bm25[r].texts /\ bm25[r].texts[d] = answer[r].among[d]
    /\ bm25[r].count <= Cardinality(DOMAIN bm25[r].texts)

(* Of documents that r itself has indexed, those with the word of the      *)
(* query come before those without it, and none of them is cut off by the  *)
(* limit in favour of one without, whoever else stores or indexes          *)
(* documents, and however equal scores fall.                               *)
MatchesFirst ==
    \A r \in Retrievers :
      LET among == answer[r].among  results == answer[r].results IN
      Indexed(r) =>
        \A i \in DOMAIN results : ~HasWord(among, results[i]) =>
          \A d \in DOMAIN among : HasWord(among, d) =>
            \E j \in 1..(i - 1) : results[j] = d

(* First in both rankings, before all other documents. *)
Leads(r, d) ==
    LET among == answer[r].among IN
    /\ among[d] # NoText
    /\ \A e \in DOMAIN among \ {d} :
         /\ Greater(Lexical(bm25[r], d), Lexical(bm25[r], e))
         /\ among[e] # NoText => Greater(Semantic(among[d]), Semantic(among[e]))

(* "Assign max rank to missing IDs" (memory_retrieval.go:316): a document  *)
(* without text, which is missing in the semantic ranking, does not come   *)
(* before one that leads both rankings.                                    *)
MissingRankLast ==
    \A r \in Retrievers :
      LET among == answer[r].among  results == answer[r].results IN
      \A d \in DOMAIN among, i \in DOMAIN results :
        Leads(r, d) /\ among[results[i]] = NoText
          => \E j \in 1..(i - 1) : results[j] = d
=============================================================================
