------------------------------ MODULE MCRetrieval ------------------------------
(***************************************************************************)
(* An instance of Retrieval small enough for TLC, with results that hold   *)
(* every document.                                                         *)
(***************************************************************************)
EXTENDS RetrievalProperties

CONSTANTS r1, r2, d1, d2

(* Empty, without the word of the query, with nothing else, and with both. *)
MCTexts == {<<0, 0>>, <<0, 1>>, <<1, 0>>, <<1, 2>>}
=============================================================================
