----------------------------- MODULE AtomicCell ------------------------------
(***************************************************************************)
(* What transactions on one key promise: each takes effect at one point in *)
(* time or not at all.  An update adds itself to the value of that moment, *)
(* so no update is ever lost to another one; a put replaces the value.     *)
(***************************************************************************)
EXTENDS Integers

CONSTANT TxnIDs

VARIABLES
    value,     \* the updates the cell includes
    applied    \* the transactions that have taken effect

Init == value = {} /\ applied = {}

(* The transaction just applied is named by the difference it makes. *)
Takes(id) == id \notin applied /\ applied' = applied \cup {id}

Read(id) == Takes(id) /\ UNCHANGED value

Update(id) == Takes(id) /\ value' = value \cup {id}

Overwrite(id) == Takes(id) /\ value' = {id}

Next == \E id \in TxnIDs : Read(id) \/ Update(id) \/ Overwrite(id)

Spec == Init /\ [][Next]_<<value, applied>>
=============================================================================
