-------------------------- MODULE CollectionsProofs ---------------------------
(***************************************************************************)
(* Proofs about Collections for any goroutines, vectors and dimensions.    *)
(* The properties together are inductive.                                  *)
(***************************************************************************)
EXTENDS CollectionsProperties, TLAPS

-----------------------------------------------------------------------------
(* The helpers *)

(* A Put stores one key. *)
LEMMA StoredFacts ==
    ASSUME StoreTypeOK, NEW k \in Keys, NEW d \in Dimensions \cup Lengths
    PROVE  /\ DOMAIN WithKey(k, d) = DOMAIN db \cup {k}
           /\ WithKey(k, d) \in [DOMAIN WithKey(k, d) -> Dimensions \cup Lengths]
           /\ \A j \in DOMAIN WithKey(k, d) :
                WithKey(k, d)[j] = IF j = k THEN d ELSE db[j]
BY DEF StoreTypeOK, WithKey

(* A Delete removes one key. *)
LEMMA ErasedFacts ==
    ASSUME StoreTypeOK, NEW k \in Keys
    PROVE  /\ DOMAIN Erased(k) = DOMAIN db \ {k}
           /\ Erased(k) \in [DOMAIN Erased(k) -> Dimensions \cup Lengths]
           /\ \A j \in DOMAIN Erased(k) : Erased(k)[j] = db[j]
BY DEF StoreTypeOK, Erased

(* A call of another goroutine is at most marked as raced.                 *)
LEMMA RacedFacts ==
    ASSUME StoreTypeOK, NEW u \in Clients, NEW k \in Keys
    PROVE  /\ RacedBy(u, k) \in Op
           /\ RacedBy(u, k).pc = op[u].pc
           /\ RacedBy(u, k).todo = op[u].todo
           /\ RacedBy(u, k).scans = op[u].scans
           /\ RacedBy(u, k).begun = op[u].begun
           /\ RacedBy(u, k).failed = op[u].failed
           /\ RacedBy(u, k).unread = op[u].unread
           /\ RacedBy(u, k).raced =
                (op[u].raced \/ op[u].pc = "delete"
                             \/ (op[u].pc = "put" /\ k = Metadata))
BY DEF StoreTypeOK, Op, RacedBy

LEMMA IdleTyped == Idle \in Op
BY CollectionsAssumption DEF Idle, Op, CollectionPCs

-----------------------------------------------------------------------------
THEOREM InitIInv == CollectionsInit => StoreInv
BY IdleTyped, CollectionsAssumption 
  DEF CollectionsInit, StoreInv, StoreTypeOK, CurrentFits, CreatorsLook,
      DeletesWhole, HalfDeletedIsClosed, MetadataPending, Exists, Idle

-----------------------------------------------------------------------------
(* What the properties say of one call, of the stored keys K.              *)
CallFine(o, K) ==
    /\ o.pc = "put" /\ ~o.raced => Metadata \notin K
    /\ o.pc = "delete" /\ ~o.raced /\ ~o.failed =>
         /\ o.scans => K \subseteq o.todo \cup o.unread
         /\ o.begun => Metadata \notin K
    /\ o.pc = "delete" /\ ~o.begun =>
         /\ ~o.scans => Metadata \in o.todo
         /\ ~o.raced /\ o.todo # {} /\ Metadata \in K => Metadata \in o.todo

LEMMA CallsAreFine ==
    ASSUME StoreInv, NEW t \in Clients
    PROVE  CallFine(op[t], DOMAIN db)
BY DEF StoreInv, CallFine, CreatorsLook, DeletesWhole, HalfDeletedIsClosed,
         MetadataPending, Exists

(* A step that puts nothing disturbs no other call. *)
LEMMA NoPut ==
    ASSUME StoreInv, StoreTypeOK', CurrentFits', NEW t \in Clients, NEW o,
           op' = [op EXCEPT ![t] = o], DOMAIN db' \subseteq DOMAIN db,
           CallFine(o, DOMAIN db')
    PROVE  StoreInv'
<1>1. ASSUME NEW u \in Clients PROVE CallFine(op[u], DOMAIN db)'
  <2>1. CallFine(op[u], DOMAIN db)
    BY <1>1, CallsAreFine
  <2>2. op'[u] = IF u = t THEN o ELSE op[u]
    BY DEF StoreInv, StoreTypeOK
  <2> QED BY <2>1, <2>2 DEF CallFine
<1>2. (CreatorsLook /\ DeletesWhole /\ HalfDeletedIsClosed /\ MetadataPending)'
  BY <1>1 DEF CallFine, CreatorsLook, DeletesWhole, HalfDeletedIsClosed,
         MetadataPending, Exists
<1> QED BY <1>2 DEF StoreInv

(* A call that ends is fine. *)
LEMMA IdleFine == \A K : CallFine(Idle, K)
BY DEF CallFine, Idle

(* A Put is noticed by the calls whose outcome it changes. *)
LEMMA PutNoticed ==
    ASSUME StoreInv, StoreTypeOK', CurrentFits', NEW t \in Clients,
           NEW k \in Keys, NEW d \in Dimensions \cup Lengths,
           db' = WithKey(k, d), op' = AfterPut(t, k, Idle)
    PROVE  StoreInv'
<1>1. ASSUME NEW u \in Clients PROVE CallFine(op[u], DOMAIN db)'
  <2>1. CASE u = t
    BY <2>1, IdleFine DEF AfterPut
  <2>2. CASE u # t
    <3>1. op'[u] = RacedBy(u, k)
      BY <2>2 DEF AfterPut
    <3>2. CallFine(op[u], DOMAIN db)
      BY CallsAreFine
    <3>3. DOMAIN db' = DOMAIN db \cup {k}
      BY StoredFacts DEF StoreInv
    <3>4. op[u] \in Op
      BY DEF StoreInv, StoreTypeOK
    <3>5. /\ op'[u].pc = op[u].pc /\ op'[u].todo = op[u].todo
          /\ op'[u].scans = op[u].scans /\ op'[u].begun = op[u].begun
          /\ op'[u].failed = op[u].failed /\ op'[u].unread = op[u].unread
          /\ op'[u].raced = (op[u].raced \/ op[u].pc = "delete"
                                \/ (op[u].pc = "put" /\ k = Metadata))
      BY <3>1, RacedFacts DEF StoreInv
    <3> HIDE DEF StoreInv
    <3>6. ASSUME op[u].pc = "put", ~op'[u].raced
          PROVE  Metadata \notin DOMAIN db'
      BY <3>2, <3>3, <3>5, <3>6 DEF CallFine
    <3>7. ASSUME op[u].pc = "delete" PROVE op'[u].raced
      BY <3>5, <3>7
    <3>8. op'[u].pc = "delete" /\ ~op'[u].begun /\ ~op'[u].scans
            => Metadata \in op'[u].todo
      BY <3>2, <3>5 DEF CallFine
    <3> QED BY <3>5, <3>6, <3>7, <3>8 DEF CallFine
  <2> QED BY <2>1, <2>2
<1>2. (CreatorsLook /\ DeletesWhole /\ HalfDeletedIsClosed /\ MetadataPending)'
  BY <1>1 DEF CallFine, CreatorsLook, DeletesWhole, HalfDeletedIsClosed,
         MetadataPending, Exists
<1> QED BY <1>2 DEF StoreInv

(* Opening a collection, or giving a call up, changes one handle.          *)
LEMMA HandleTyped ==
    ASSUME StoreTypeOK, NEW t \in Clients, NEW d \in Dimensions \cup {NoHandle}
    PROVE  [handle EXCEPT ![t] = d] \in [Clients -> Dimensions \cup {NoHandle}]
BY DEF StoreTypeOK

LEMMA OpTyped ==
    ASSUME StoreTypeOK, NEW t \in Clients, NEW o \in Op
    PROVE  [op EXCEPT ![t] = o] \in [Clients -> Op]
BY DEF StoreTypeOK

-----------------------------------------------------------------------------
(* The steps *)

LEMMA OpensStep ==
    ASSUME StoreInv, NEW t \in Clients, NEW d, Exists, Opens(t, d)
    PROVE  StoreTypeOK' /\ CurrentFits'
<1> USE DEF StoreInv
<1>1. db[Metadata] \in Dimensions
  BY DEF StoreTypeOK
<1>2. StoreTypeOK'
  BY <1>1, HandleTyped DEF StoreTypeOK, Opens, ConfigOf, Exists
<1>3. CurrentFits'
  BY CollectionsAssumption DEF StoreTypeOK, CurrentFits, Opens, ConfigOf, Exists, Fits
<1> QED BY <1>2, <1>3

(* A step that leaves the store and the handles alone. *)
LEMMA OpOnly ==
    ASSUME StoreInv, UNCHANGED <<db, handle, current>>, NEW t \in Clients,
           NEW o \in Op, op' = [op EXCEPT ![t] = o], CallFine(o, DOMAIN db)
    PROVE  StoreInv'
<1>1. StoreTypeOK'
  BY OpTyped DEF StoreInv, StoreTypeOK, Exists
<1>2. CurrentFits'
  BY DEF StoreInv, CurrentFits, Exists, Fits
<1> QED BY <1>1, <1>2, NoPut

THEOREM PutMetadataStep ==
    ASSUME StoreInv, NEW t \in Clients, PutMetadata(t)
    PROVE  StoreInv'
<1> DEFINE d == op[t].dimension
<1>1. d \in Dimensions
  BY DEF StoreInv, StoreTypeOK, Op
<1>2. db' = WithKey(Metadata, d) /\ op' = AfterPut(t, Metadata, Idle)
  BY DEF PutMetadata
<1>3. \/ handle' = [handle EXCEPT ![t] = d] /\ current' = {t}
      \/ handle' = handle /\ current' = {}
  BY DEF PutMetadata
<1>4. Metadata \in Keys /\ StoreTypeOK
  BY DEF Keys, StoreInv
<1> HIDE DEF d
<1>5. /\ DOMAIN db' = DOMAIN db \cup {Metadata}
      /\ db' \in [DOMAIN db' -> Dimensions \cup Lengths]
      /\ db'[Metadata] = d
  BY <1>1, <1>2, <1>4, StoredFacts
<1>6. op' \in [Clients -> Op]
  BY <1>2, <1>4, RacedFacts, IdleTyped DEF AfterPut
<1>7. handle' \in [Clients -> Dimensions \cup {NoHandle}]
  BY <1>1, <1>3, <1>4, HandleTyped DEF StoreTypeOK
<1>8. StoreTypeOK'
  BY <1>1, <1>3, <1>4, <1>5, <1>6, <1>7 DEF StoreTypeOK, Exists
<1>9. CurrentFits'
  BY <1>3, <1>4, <1>5, CollectionsAssumption DEF StoreTypeOK, CurrentFits, Exists
<1> QED BY <1>1, <1>2, <1>4, <1>8, <1>9, PutNoticed

THEOREM InsertStep ==
    ASSUME StoreInv, NEW t \in Clients, NEW i \in VectorIDs, NEW n \in Lengths,
           Insert(t, i, n)
    PROVE  StoreInv'
<1>1. db' = WithKey(i, n) /\ op' = AfterPut(t, i, Idle) /\ handle' = handle
  BY DEF Insert
<1>2. /\ i \in Keys /\ StoreTypeOK /\ i # Metadata /\ Clients \cap VectorIDs = {}
      /\ Metadata \notin VectorIDs
  BY CollectionsAssumption DEF Keys, StoreInv
<1>3. /\ DOMAIN db' = DOMAIN db \cup {i}
      /\ db' \in [DOMAIN db' -> Dimensions \cup Lengths]
      /\ \A j \in DOMAIN db' : db'[j] = IF j = i THEN n ELSE db[j]
  BY <1>1, <1>2, StoredFacts
<1>4. op' \in [Clients -> Op]
  BY <1>1, <1>2, RacedFacts, IdleTyped DEF AfterPut
<1>5. current' \subseteq current \cup {i} /\ (t \notin current => i \notin current')
  BY DEF Insert
<1>6. StoreTypeOK'
  BY <1>1, <1>2, <1>3, <1>4, <1>5 DEF StoreTypeOK, Exists
<1>7. CurrentFits'
  <2>1. Exists' = Exists /\ (Exists => db'[Metadata] = db[Metadata])
    BY <1>2, <1>3 DEF Exists
  <2>2. ASSUME NEW u \in Clients \cap current'
        PROVE  Exists' /\ handle'[u] = db'[Metadata]
    BY <1>1, <1>2, <1>5, <2>1 DEF StoreInv, CurrentFits
  <2>3. ASSUME NEW j \in VectorIDs \cap current'
        PROVE  Exists' /\ j \in DOMAIN db' /\ Fits(db'[j], db'[Metadata])
    <3>1. CASE j = i
      <4>1. t \in current /\ Fits(n, handle[t])
        BY <1>5, <3>1 DEF Insert
      <4>2. Exists /\ handle[t] = db[Metadata]
        BY <4>1 DEF StoreInv, CurrentFits
      <4> QED BY <1>3, <2>1, <3>1, <4>1, <4>2
    <3>2. CASE j # i
      <4>1. j \in VectorIDs \cap current
        BY <1>5, <3>2
      <4>2. Exists /\ j \in DOMAIN db /\ Fits(db[j], db[Metadata])
        BY <4>1 DEF StoreInv, CurrentFits
      <4> QED BY <1>3, <2>1, <3>2, <4>2
    <3> QED BY <3>1, <3>2
  <2> QED BY <2>2, <2>3 DEF CurrentFits, Fits, Exists
<1> QED BY <1>1, <1>2, <1>6, <1>7, PutNoticed

(* A Delete, alone or in DeleteCollection, that was applied. *)
LEMMA ErasedStep ==
    ASSUME StoreInv, NEW k \in Keys, db' = Erased(k), handle' = handle,
           op' \in [Clients -> Op],
           current' = IF k = Metadata THEN {} ELSE current \ {k}
    PROVE  StoreTypeOK' /\ CurrentFits' /\ DOMAIN db' = DOMAIN db \ {k}
<1>1. StoreTypeOK
  BY DEF StoreInv
<1>2. /\ DOMAIN db' = DOMAIN db \ {k}
      /\ db' \in [DOMAIN db' -> Dimensions \cup Lengths]
      /\ \A j \in DOMAIN db' : db'[j] = db[j]
  BY <1>1, ErasedFacts
<1>3. StoreTypeOK'
  BY <1>1, <1>2 DEF StoreTypeOK, Exists
<1>4. CurrentFits'
  <2>1. CASE k = Metadata
    BY <2>1 DEF CurrentFits
  <2>2. CASE k # Metadata
    <3>1. Exists' = Exists /\ (Exists => db'[Metadata] = db[Metadata])
      BY <1>2, <2>2 DEF Exists
    <3>2. ASSUME NEW u \in Clients \cap current'
          PROVE  Exists' /\ handle'[u] = db'[Metadata]
      BY <2>2, <3>1 DEF StoreInv, CurrentFits
    <3>3. ASSUME NEW j \in VectorIDs \cap current'
          PROVE  Exists' /\ j \in DOMAIN db' /\ Fits(db'[j], db'[Metadata])
      <4>1. j \in VectorIDs \cap current /\ j # k
        BY <2>2
      <4>2. Exists /\ j \in DOMAIN db /\ Fits(db[j], db[Metadata])
        BY <4>1 DEF StoreInv, CurrentFits
      <4> QED BY <1>2, <3>1, <4>1, <4>2
    <3> QED BY <3>2, <3>3 DEF CurrentFits, Fits, Exists
  <2> QED BY <2>1, <2>2
<1> QED BY <1>2, <1>3, <1>4

THEOREM DeleteStep ==
    ASSUME StoreInv, NEW t \in Clients, NEW i \in VectorIDs, Delete(t, i)
    PROVE  StoreInv'
<1>1. i \in Keys /\ i # Metadata
  BY CollectionsAssumption DEF Keys
<1>2. StoreTypeOK' /\ CurrentFits' /\ DOMAIN db' = DOMAIN db \ {i}
  BY <1>1, ErasedStep DEF StoreInv, StoreTypeOK, Delete
<1>3. op' = [op EXCEPT ![t] = op[t]] /\ op[t] \in Op
  BY DEF StoreInv, StoreTypeOK, Delete
<1>4. CallFine(op[t], DOMAIN db')
  BY <1>2, CallsAreFine DEF CallFine
<1> QED BY <1>2, <1>3, <1>4, NoPut

THEOREM DeleteKeyStep ==
    ASSUME StoreInv, NEW t \in Clients, DeleteKey(t)
    PROVE  StoreInv'
<1>1. PICK k \in FirstOf(op[t].todo), applied \in BOOLEAN, ok \in BOOLEAN :
         /\ ok => applied
         /\ db' = IF applied THEN Erased(k) ELSE db
         /\ current' = IF ~applied THEN current
                       ELSE IF k = Metadata THEN {} ELSE current \ {k}
         /\ op' = [op EXCEPT ![t] = Deleted(t, k, ok)]
  BY DEF DeleteKey
<1>2. /\ StoreTypeOK /\ op[t] \in Op /\ op[t].pc = "delete" /\ handle' = handle
      /\ CallFine(op[t], DOMAIN db)
  BY CallsAreFine DEF StoreInv, StoreTypeOK, DeleteKey
<1>3. /\ k \in op[t].todo /\ op[t].todo \subseteq Keys
      /\ Metadata \in op[t].todo => k = Metadata
  BY <1>2 DEF FirstOf, Op
<1> DEFINE o == Deleted(t, k, ok)
<1>4. /\ o \in Op /\ o.pc = "delete" /\ o.todo = op[t].todo \ {k}
      /\ o.scans = op[t].scans /\ o.raced = op[t].raced /\ o.unread = op[t].unread
      /\ ~o.failed => ok /\ ~op[t].failed
  BY <1>1, <1>2, <1>3 DEF Deleted, Op
<1>5. op' = [op EXCEPT ![t] = o]
  BY <1>1
<1> HIDE DEF o
<1>6. op' \in [Clients -> Op]
  BY <1>2, <1>4, <1>5, OpTyped
<1>7. /\ StoreTypeOK' /\ CurrentFits'
      /\ DOMAIN db' = IF applied THEN DOMAIN db \ {k} ELSE DOMAIN db
  <2>1. CASE applied
    BY <1>1, <1>2, <1>3, <1>6, <2>1, ErasedStep
  <2>2. CASE ~applied
    BY <1>1, <1>2, <1>6, <2>2 DEF StoreInv, StoreTypeOK, CurrentFits, Exists, Fits
  <2> QED BY <2>1, <2>2
(* What is stored is still to be deleted, or was not seen by the scan:     *)
(* without the metadata if the metadata, which comes first, is not.        *)
<1>8. CallFine(o, DOMAIN db')
  <2>0. o.begun
    BY DEF o, Deleted
  <2>1. SUFFICES ASSUME ~o.raced, ~o.failed
                 PROVE  /\ o.scans => DOMAIN db' \subseteq o.todo \cup o.unread
                        /\ Metadata \notin DOMAIN db'
    BY <1>4, <2>0 DEF CallFine
  <2>2. applied /\ DOMAIN db' = DOMAIN db \ {k}
    BY <1>1, <1>4, <1>7, <2>1
  <2>3. op[t].scans => DOMAIN db \subseteq op[t].todo \cup op[t].unread
    BY <1>2, <1>4, <2>1 DEF CallFine
  <2>4. op[t].begun => Metadata \notin DOMAIN db
    BY <1>2, <1>4, <2>1 DEF CallFine
  <2>5. ~op[t].begun /\ Metadata \in DOMAIN db => Metadata \in op[t].todo
    BY <1>2, <1>3, <1>4, <2>1 DEF CallFine
  <2>6. o.scans => DOMAIN db' \subseteq o.todo \cup o.unread
    BY <1>4, <2>2, <2>3
  <2>7. Metadata \notin DOMAIN db'
    <3>1. CASE Metadata \in op[t].todo
      BY <1>3, <2>2, <3>1
    <3>2. CASE op[t].begun
      BY <2>2, <2>4, <3>2
    <3> QED BY <2>2, <2>5, <3>1, <3>2
  <2> QED BY <2>6, <2>7
<1> QED BY <1>5, <1>7, <1>8, NoPut

THEOREM CrashStep ==
    ASSUME StoreInv, NEW t \in Clients, Crash(t)
    PROVE  StoreInv'
<1>1. StoreTypeOK'
  BY IdleTyped, HandleTyped, OpTyped DEF StoreInv, StoreTypeOK, Crash, Exists
<1>2. CurrentFits'
  BY DEF StoreInv, StoreTypeOK, CurrentFits, Crash, Exists, Fits
<1>3. op' = [op EXCEPT ![t] = Idle] /\ db' = db
  BY DEF Crash
<1> QED BY <1>1, <1>2, <1>3, IdleFine, NoPut

THEOREM CollectionStep ==
    ASSUME StoreInv, NEW t \in Clients, Collection(t)
    PROVE  StoreInv'
<1>1. Exists /\ Opens(t, db[Metadata])
  BY DEF Collection
<1>2. op' = [op EXCEPT ![t] = op[t]] /\ db' = db
  BY <1>1 DEF Opens, StoreInv, StoreTypeOK
<1> QED BY <1>1, <1>2, OpensStep, CallsAreFine, NoPut

(* A call that starts to create, or to delete. *)
LEMMA StartTyped ==
    ASSUME NEW d \in Dimensions
    PROVE  /\ [Idle EXCEPT !.pc = "create", !.dimension = d] \in Op
           /\ [Idle EXCEPT !.pc = "put", !.dimension = d] \in Op
BY CollectionsAssumption DEF Idle, Op, CollectionPCs

THEOREM GetOrCreateCollectionStep ==
    ASSUME StoreInv, NEW t \in Clients, NEW d \in Dimensions,
           GetOrCreateCollection(t, d)
    PROVE  StoreInv'
<1>1. CASE Exists /\ Opens(t, d)
  <2>1. op' = [op EXCEPT ![t] = op[t]] /\ db' = db
    BY <1>1 DEF Opens, StoreInv, StoreTypeOK
  <2> QED BY <1>1, <2>1, OpensStep, CallsAreFine, NoPut
<1>2. CASE ~Exists /\ UNCHANGED <<db, handle, current>>
           /\ op' = [op EXCEPT ![t] = [Idle EXCEPT !.pc = "create", !.dimension = d]]
  <2>1. CallFine([Idle EXCEPT !.pc = "create", !.dimension = d], DOMAIN db)
    BY DEF CallFine, Idle
  <2> QED BY <1>2, <2>1, StartTyped, OpOnly
<1> QED BY <1>1, <1>2 DEF GetOrCreateCollection

THEOREM CreateCollectionStep ==
    ASSUME StoreInv, NEW t \in Clients, NEW d \in Dimensions, CreateCollection(t, d)
    PROVE  StoreInv'
<1>1. UNCHANGED <<db, handle, current>>
  BY DEF CreateCollection
<1>2. CASE MayCreate
  <2>1. op' = [op EXCEPT ![t] = [Idle EXCEPT !.pc = "put", !.dimension = d]]
    BY <1>2 DEF CreateCollection
  <2>2. CallFine([Idle EXCEPT !.pc = "put", !.dimension = d], DOMAIN db)
    BY <1>2 DEF CallFine, Idle, MayCreate, Exists
  <2> QED BY <1>1, <2>1, <2>2, StartTyped, OpOnly
<1>3. CASE ~MayCreate
  <2>1. op' = [op EXCEPT ![t] = Idle]
    BY <1>3 DEF CreateCollection
  <2> QED BY <1>1, <2>1, IdleTyped, IdleFine, OpOnly
<1> QED BY <1>2, <1>3

(* The steps after which a call is over and nothing else has changed. *)
THEOREM EndStep ==
    ASSUME StoreInv, NEW t \in Clients, GetFails(t) \/ PutFails(t) \/ DeleteReturns(t)
    PROVE  StoreInv'
BY IdleTyped, IdleFine, OpOnly DEF GetFails, PutFails, DeleteReturns

THEOREM DeleteCollectionStep ==
    ASSUME StoreInv, NEW t \in Clients, NEW scans \in BOOLEAN,
           DeleteCollection(t, scans)
    PROVE  StoreInv'
<1>1. PICK read \in ScanReads :
         op' = [op EXCEPT ![t] = [Idle EXCEPT !.pc = "delete", !.scans = scans,
                                              !.todo = ToDelete(read, scans),
                                              !.unread = DOMAIN db \ read]]
  BY DEF DeleteCollection
<1> DEFINE o == [Idle EXCEPT !.pc = "delete", !.scans = scans,
                            !.todo = ToDelete(read, scans), !.unread = DOMAIN db \ read]
<1>2. ToDelete(read, scans) \subseteq Keys /\ DOMAIN db \ read \subseteq Keys
  BY DEF ToDelete, ScanReads, StoreInv, StoreTypeOK, Keys
<1>3. o \in Op
  BY <1>2, CollectionsAssumption DEF Idle, Op, CollectionPCs
<1>4. CallFine(o, DOMAIN db)
  BY DEF CallFine, Idle, ToDelete, ScanReads, Exists
<1>5. op' = [op EXCEPT ![t] = o] /\ UNCHANGED <<db, handle, current>>
  BY <1>1 DEF DeleteCollection
<1> HIDE DEF o
<1> QED BY <1>3, <1>4, <1>5, OpOnly

-----------------------------------------------------------------------------
(* Every step keeps StoreInv, so every state the program reaches has it.    *)
THEOREM NextIInv ==
    ASSUME StoreInv, [CollectionsNext]_collectionsVars
    PROVE  StoreInv'
<1>1. CASE UNCHANGED collectionsVars
  BY <1>1
  DEF collectionsVars, StoreInv, StoreTypeOK, MetadataPending, CurrentFits,
      CreatorsLook, DeletesWhole, HalfDeletedIsClosed, Exists, Fits
<1>2. CASE CollectionsNext
  <2>1. PICK t \in Clients :
          \/ Collection(t) \/ GetFails(t) \/ PutMetadata(t) \/ PutFails(t)
          \/ \E d \in Dimensions : GetOrCreateCollection(t, d) \/ CreateCollection(t, d)
          \/ \E i \in VectorIDs : Delete(t, i) \/ \E n \in Lengths : Insert(t, i, n)
          \/ \E scans \in BOOLEAN : DeleteCollection(t, scans)
          \/ DeleteKey(t) \/ DeleteReturns(t) \/ Crash(t)
    BY <1>2 DEF CollectionsNext
  <2> QED BY <2>1, CollectionStep, EndStep, PutMetadataStep,
             GetOrCreateCollectionStep, CreateCollectionStep, DeleteStep,
             InsertStep, DeleteCollectionStep, DeleteKeyStep, CrashStep
<1> QED BY <1>1, <1>2

(* StoreInv, the properties below and the types, is an invariant. *)
THEOREM CollectionsInvariant == CollectionsSpec => []StoreInv
BY InitIInv, NextIInv, PTL DEF CollectionsSpec

(* Handles that come from the stored metadata have its dimension, and so   *)
(* has what is inserted through them.                                      *)
THEOREM CurrentAlwaysFits == CollectionsSpec => []CurrentFits
<1>1. StoreInv => CurrentFits
  BY DEF StoreInv
<1> QED BY <1>1, CollectionsInvariant, PTL

(* Only creators that overlap replace each other's metadata. *)
THEOREM CreatorsAlwaysLook == CollectionsSpec => []CreatorsLook
<1>1. StoreInv => CreatorsLook
  BY DEF StoreInv
<1> QED BY <1>1, CollectionsInvariant, PTL

(* A DeleteCollection that nobody disturbs leaves only what its scan,      *)
(* which may break off, did not return.                                    *)
THEOREM DeletionsAreWhole == CollectionsSpec => []DeletesWhole
<1>1. StoreInv => DeletesWhole
  BY DEF StoreInv
<1> QED BY <1>1, CollectionsInvariant, PTL

(* From its first Delete on, nobody opens the collection. *)
THEOREM HalfDeletedAlwaysClosed == CollectionsSpec => []HalfDeletedIsClosed
<1>1. StoreInv => HalfDeletedIsClosed
  BY DEF StoreInv
<1> QED BY <1>1, CollectionsInvariant, PTL
=============================================================================
