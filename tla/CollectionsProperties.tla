------------------------ MODULE CollectionsProperties -------------------------
(***************************************************************************)
(* What callers of namespace.go that race with each other can rely on.     *)
(***************************************************************************)
EXTENDS Collections

Op == [pc : CollectionPCs, dimension : Dimensions, todo : SUBSET Keys,
       scans : BOOLEAN, begun : BOOLEAN, failed : BOOLEAN,
       unread : SUBSET Keys, raced : BOOLEAN]

StoreTypeOK ==
    /\ DOMAIN db \subseteq Keys /\ db \in [DOMAIN db -> Dimensions \cup Lengths]
    /\ Exists => db[Metadata] \in Dimensions
    /\ handle \in [Clients -> Dimensions \cup {NoHandle}]
    /\ op \in [Clients -> Op]
    /\ current \subseteq Clients \cup VectorIDs

(* A handle that was opened, created, or got from GetOrCreateCollection    *)
(* with another configuration, has the stored dimension, and what is       *)
(* inserted through it fits, until the metadata is replaced or deleted.    *)
CurrentFits ==
    /\ \A t \in Clients \cap current : Exists /\ handle[t] = db[Metadata]
    /\ \A i \in VectorIDs \cap current :
         Exists /\ i \in DOMAIN db /\ Fits(db[i], db[Metadata])

(* A creator replaces metadata only if that was put between its Get and    *)
(* its Put: nobody who comes later loses a collection to CreateCollection. *)
CreatorsLook ==
    \A t \in Clients : op[t].pc = "put" /\ ~op[t].raced => ~Exists

(* A DeleteCollection that scans, and that no Put and no failed Delete     *)
(* disturbs, leaves behind only what its scan did not return because it    *)
(* broke off, whatever other deletions race with it: at every point it is  *)
(* still going to delete the rest of what is stored.                       *)
DeletesWhole ==
    \A t \in Clients :
      op[t].pc = "delete" /\ op[t].scans /\ ~op[t].raced /\ ~op[t].failed
        => DOMAIN db \subseteq op[t].todo \cup op[t].unread

(* From its first Delete on, nobody opens a collection that is going: a    *)
(* process that dies half way leaves no collection with some vectors gone. *)
HalfDeletedIsClosed ==
    \A t \in Clients :
      op[t].pc = "delete" /\ op[t].begun /\ ~op[t].raced /\ ~op[t].failed
        => ~Exists

(* Before its first Delete, a DeleteCollection that cannot scan has the    *)
(* metadata to delete, and so has one whose scan returned anything.        *)
MetadataPending ==
    \A t \in Clients :
      op[t].pc = "delete" /\ ~op[t].begun =>
        /\ ~op[t].scans => Metadata \in op[t].todo
        /\ ~op[t].raced /\ op[t].todo # {} /\ Exists => Metadata \in op[t].todo

StoreInv ==
    /\ StoreTypeOK /\ MetadataPending
    /\ CurrentFits /\ CreatorsLook /\ DeletesWhole /\ HalfDeletedIsClosed
=============================================================================
