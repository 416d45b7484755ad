--------------------------- MODULE StorageProofs ----------------------------
(***************************************************************************)
(* Theorems about Storage, for any number of uploads and personas, sizes   *)
(* and quotas.                                                             *)
(***************************************************************************)
EXTENDS Storage, FiniteSetTheorems, TLAPS

USE DEF userVars, tableVars, diskVars, taskVars

(***************************************************************************)
(* An upload is counted for one reason: its row, its reservation, or       *)
(* because it was lost.                                                    *)
(***************************************************************************)
Past == {"store", "answered"}

CountInv ==
  /\ \A u \in rows \union leaked : pc[u] \in Past
  /\ rows \intersect leaked = {}
  /\ CountersAreAccountedFor
  /\ docs <= QuotaDocs /\ bytes <= QuotaBytes

StorageInv == TypeOK /\ CountInv

-----------------------------------------------------------------------------
LEMMA SlotOfUpload == \A u \in Uploads : Slot(u) \in Slots /\ PersonaOf[u] \in Personas
BY UploadsAssumption DEF Slots

LEMMA FiniteBytes ==
  ASSUME NEW S \in SUBSET Uploads
  PROVE  /\ IsFiniteSet(S) /\ Cardinality(S) \in Nat
         /\ IsFiniteSet(BytesOf(S)) /\ TotalSize(S) \in Nat
<1>1. IsFiniteSet(S)
  BY UploadsAssumption, FS_Subset
<1>2. IsFiniteSet(1 .. MaxBytes)
  BY UploadsAssumption, FS_Interval
<1>3. IsFiniteSet(S \X (1 .. MaxBytes))
  BY <1>1, <1>2, FS_Product
<1>4. BytesOf(S) \subseteq S \X (1 .. MaxBytes)
  BY DEF BytesOf
<1>5. QED
  BY <1>1, <1>3, <1>4, FS_Subset, FS_CardinalityType DEF TotalSize

\* A file has as many bytes as its size says.
LEMMA BytesOfOne ==
  ASSUME NEW u \in Uploads
  PROVE  TotalSize({u}) = SizeOf[u] /\ SizeOf[u] \in Nat
<1> DEFINE n == SizeOf[u]
<1>1. n \in 0 .. MaxBytes
  BY UploadsAssumption
<1>2. BytesOf({u}) = {u} \X (1 .. n)
  BY <1>1, UploadsAssumption DEF BytesOf
<1>3. IsFiniteSet(1 .. n) /\ Cardinality(1 .. n) = n
  <2>1. 1 \in Int /\ n \in Int /\ n >= 0
    BY <1>1, UploadsAssumption
  <2> HIDE DEF n
  <2>2. IsFiniteSet(1 .. n) /\ Cardinality(1 .. n) = IF 1 > n THEN 0 ELSE n - 1 + 1
    BY <2>1, FS_Interval
  <2>3. QED
    BY <2>1, <2>2
<1>4. IsFiniteSet({u}) /\ Cardinality({u}) = 1
  BY FS_Singleton
<1>5. Cardinality({u} \X (1 .. n)) = 1 * n
  <2> HIDE DEF n
  <2> DEFINE I == 1 .. n
  <2>1. IsFiniteSet(I) /\ Cardinality(I) = n
    BY <1>3
  <2> HIDE DEF I
  <2>2. Cardinality({u} \X I) = Cardinality({u}) * Cardinality(I)
    BY <2>1, <1>4, FS_Product
  <2>3. QED
    BY <2>1, <2>2, <1>4 DEF I
<1>6. n \in Nat
  BY <1>1, UploadsAssumption
<1>7. Cardinality(BytesOf({u})) = 1 * n
  BY <1>2, <1>5
<1>8. TotalSize({u}) = 1 * n
  BY <1>7 DEF TotalSize
<1> HIDE DEF n
<1>9. 1 * n = n
  BY <1>6
<1>10. QED
  BY <1>6, <1>8, <1>9 DEF n

\* One upload more, or less, is one more, or less, in both counts.
LEMMA OneMore ==
  ASSUME NEW S \in SUBSET Uploads, NEW u \in Uploads \ S
  PROVE  /\ Cardinality(S \union {u}) = Cardinality(S) + 1
         /\ TotalSize(S \union {u}) = TotalSize(S) + SizeOf[u]
<1>1. Cardinality(S \union {u}) = Cardinality(S) + 1
  BY FiniteBytes, FS_AddElement
<1>2. BytesOf(S \union {u}) = BytesOf(S) \union BytesOf({u})
  BY DEF BytesOf
<1>3. BytesOf(S) \intersect BytesOf({u}) = {}
  BY DEF BytesOf
<1>4. IsFiniteSet(BytesOf(S)) /\ IsFiniteSet(BytesOf({u}))
  BY FiniteBytes
<1>5. Cardinality(BytesOf(S) \union BytesOf({u}))
        = Cardinality(BytesOf(S)) + Cardinality(BytesOf({u})) - Cardinality({})
  BY <1>3, <1>4, FS_Union
<1>6. Cardinality({}) = 0 /\ TotalSize(S) \in Nat
  BY FS_EmptySet, FiniteBytes
<1>7. Cardinality(BytesOf({u})) = SizeOf[u] /\ SizeOf[u] \in Nat
  BY BytesOfOne DEF TotalSize
<1>8. Cardinality(BytesOf(S)) \in Nat
  BY <1>6 DEF TotalSize
<1>9. Cardinality(BytesOf(S \union {u})) = Cardinality(BytesOf(S)) + SizeOf[u]
  <2> DEFINE a == Cardinality(BytesOf(S))  b == Cardinality(BytesOf({u}))
             c == Cardinality(BytesOf(S) \union BytesOf({u}))  z == Cardinality({})
  <2>1. c = a + b - z /\ z = 0 /\ a \in Nat /\ b \in Nat
    BY <1>5, <1>6, <1>7, <1>8
  <2>2. Cardinality(BytesOf(S \union {u})) = c /\ b = SizeOf[u]
    BY <1>2, <1>7
  <2> HIDE DEF a, b, c, z
  <2>3. c = a + b
    BY <2>1
  <2>4. QED
    BY <2>2, <2>3 DEF a
<1>10. QED
  BY <1>1, <1>9 DEF TotalSize

LEMMA OneLess ==
  ASSUME NEW S \in SUBSET Uploads, NEW u \in S
  PROVE  /\ Minus(Cardinality(S), 1) = Cardinality(S \ {u})
         /\ Minus(TotalSize(S), SizeOf[u]) = TotalSize(S \ {u})
<1> DEFINE R == S \ {u}
<1>1. R \in SUBSET Uploads /\ u \in Uploads \ R /\ S = R \union {u}
  OBVIOUS
<1>2. Cardinality(S) = Cardinality(R) + 1 /\ TotalSize(S) = TotalSize(R) + SizeOf[u]
  BY <1>1, OneMore
<1>3. Cardinality(R) \in Nat /\ TotalSize(R) \in Nat /\ SizeOf[u] \in Nat
  BY <1>1, FiniteBytes, BytesOfOne
<1>4. QED
  BY <1>2, <1>3 DEF Minus

LEMMA MinusIsLess ==
  ASSUME NEW m \in Nat, NEW n \in Nat
  PROVE  Minus(m, n) \in Nat /\ Minus(m, n) <= m
BY DEF Minus

LEMMA FewerIsSmaller ==
  ASSUME NEW S \in SUBSET Uploads, NEW R \in SUBSET S
  PROVE  Cardinality(R) <= Cardinality(S) /\ TotalSize(R) <= TotalSize(S)
<1>1. IsFiniteSet(S) /\ IsFiniteSet(BytesOf(S))
  BY FiniteBytes
<1>2. BytesOf(R) \subseteq BytesOf(S)
  BY DEF BytesOf
<1>3. QED
  BY <1>1, <1>2, FS_Subset DEF TotalSize

LEMMA InitStorageInv == Init => StorageInv
<1> SUFFICES ASSUME Init PROVE StorageInv
  OBVIOUS
<1>1. Counted = {} /\ BytesOf({}) = {}
  BY DEF Init, Counted, Reserved, BytesOf
<1>2. Cardinality({}) = 0
  BY FS_EmptySet
<1>3. CountersAreAccountedFor
  BY <1>1, <1>2 DEF Init, CountersAreAccountedFor, TotalSize
<1>4. QED
  BY <1>3, QuotaAssumption, BudgetAssumption DEF Init, StorageInv, TypeOK, CountInv, InFlight

-----------------------------------------------------------------------------
\* Every step leaves every variable in its type.
LEMMA NextTypeOK == StorageInv /\ [Next]_vars => TypeOK'
<1> SUFFICES ASSUME StorageInv, [Next]_vars PROVE TypeOK'
  OBVIOUS
<1> USE SlotOfUpload, UploadsAssumption, BudgetAssumption DEF StorageInv, InFlight
<1>1. ASSUME NEW u \in Uploads, Receive(u) PROVE TypeOK'
  BY <1>1 DEF Receive, GoTo, TypeOK
<1>2. ASSUME NEW u \in Uploads, CheckKey(u) PROVE TypeOK'
  BY <1>2 DEF CheckKey, GoTo, TypeOK
<1>3. ASSUME NEW u \in Uploads, CheckContent(u) PROVE TypeOK'
  BY <1>3 DEF CheckContent, GoTo, TypeOK
<1>4. ASSUME NEW u \in Uploads, Reserve(u) PROVE TypeOK'
  <2>1. SizeOf[u] \in Nat
    BY BytesOfOne
  <2>2. QED
    BY <1>4, <2>1 DEF Reserve, GoTo, TypeOK
<1>5. ASSUME NEW u \in Uploads, MakeDir(u) PROVE TypeOK'
  BY <1>5 DEF MakeDir, GoTo, TypeOK
<1>6. ASSUME NEW u \in Uploads, Move(u) PROVE TypeOK'
  BY <1>6 DEF Move, GoTo, TypeOK
<1>7. ASSUME NEW u \in Uploads, Insert(u) PROVE TypeOK'
  BY <1>7 DEF Insert, GoTo, TypeOK
<1>8. ASSUME NEW u \in Uploads, UndoFile(u) PROVE TypeOK'
  BY <1>8 DEF UndoFile, GoTo, TypeOK
<1>9. ASSUME NEW u \in Uploads, UndoQuota(u) PROVE TypeOK'
  <2>1. SizeOf[u] \in Nat
    BY BytesOfOne
  <2>2. QED
    BY <1>9, <2>1 DEF UndoQuota, GoTo, Minus, TypeOK
<1>10. ASSUME NEW u \in Uploads, Store(u) PROVE TypeOK'
  BY <1>10 DEF Store, GoTo, Spend, TypeOK
<1>11. ASSUME NEW u \in Uploads, CheckFails(u) PROVE TypeOK'
  BY <1>11 DEF CheckFails, GoTo, Spend, TypeOK
<1>12. ASSUME NEW u \in Uploads, MakeDirFails(u) PROVE TypeOK'
  BY <1>12 DEF MakeDirFails, GoTo, Spend, TypeOK
<1>13. ASSUME NEW u \in Uploads, InsertFails(u) PROVE TypeOK'
  BY <1>13 DEF InsertFails, GoTo, Spend, TypeOK
<1>14. ASSUME NEW u \in Uploads, UndoQuotaFails(u) PROVE TypeOK'
  BY <1>14 DEF UndoQuotaFails, GoTo, Spend, TypeOK
<1>15. ASSUME NEW u \in Uploads, Disconnect(u) PROVE TypeOK'
  BY <1>15 DEF Disconnect, Abandon, Spend, TypeOK
<1>16. ASSUME NEW u \in Uploads, DeleteDocument(u) PROVE TypeOK'
  <2>1. SizeOf[u] \in Nat
    BY BytesOfOne
  <2>2. QED
    BY <1>16, <2>1 DEF DeleteDocument, Minus, TypeOK
<1>17. ASSUME NEW u \in Uploads, RemoveFile(u) PROVE TypeOK'
  BY <1>17 DEF RemoveFile, TypeOK
<1>18. ASSUME NEW u \in Uploads, SweepFile(u) PROVE TypeOK'
  BY <1>18 DEF SweepFile, TypeOK
<1>19. ASSUME NEW u \in Uploads, SweepTmp(u) PROVE TypeOK'
  BY <1>19 DEF SweepTmp, TypeOK
<1>20. ASSUME NEW p \in Personas, DeletePersona(p) PROVE TypeOK'
  BY <1>20 DEF DeletePersona, OfPersona, TypeOK
<1>21. ASSUME NEW p \in Personas, LoseRemoval(p) PROVE TypeOK'
  BY <1>21 DEF LoseRemoval, Spend, TypeOK
<1>22. ASSUME NEW p \in Personas, RemoveDir(p) PROVE TypeOK'
  BY <1>22 DEF RemoveDir, OfPersona, TypeOK
<1>23. ASSUME NEW p \in Personas, EraseDir(p) PROVE TypeOK'
  BY <1>23 DEF EraseDir, OfPersona, TypeOK
<1>24. ASSUME NEW s \in Slots, ExpireKey(s) PROVE TypeOK'
  BY <1>24 DEF ExpireKey, TypeOK
<1>25. ASSUME NEW s \in Slots, PruneKey(s) PROVE TypeOK'
  BY <1>25 DEF PruneKey, TypeOK
<1>26. CASE Crash
  BY <1>26 DEF Crash, Abandon, Spend, TypeOK
<1>27. CASE UNCHANGED vars
  BY <1>27 DEF vars, TypeOK
<1>28. QED
  BY <1>1, <1>2, <1>3, <1>4, <1>5, <1>6, <1>7, <1>8, <1>9, <1>10, <1>11, <1>12, <1>13,
     <1>14, <1>15, <1>16, <1>17, <1>18, <1>19, <1>20, <1>21, <1>22, <1>24, <1>25, <1>26,
     <1>27, <1>23 DEF
     Next, Proceed, StepFails

\* A step that counts the same uploads, and leaves the counters, keeps the count.
LEMMA SameCount ==
  ASSUME StorageInv, Counted' = Counted, UNCHANGED <<bytes, docs>>,
         \A u \in rows' \union leaked' : pc'[u] \in Past,
         rows' \intersect leaked' = {}
  PROVE  CountInv'
BY DEF StorageInv, CountInv, CountersAreAccountedFor

\* Every step counts what it adds and takes away.
LEMMA NextCountInv == StorageInv /\ [Next]_vars => CountInv'
<1> SUFFICES ASSUME StorageInv, [Next]_vars PROVE CountInv'
  OBVIOUS
<1> USE DEF StorageInv
<1>1. ASSUME NEW u \in Uploads, Receive(u) PROVE CountInv'
  <2>1. UNCHANGED <<rows, leaked, bytes, docs>>
    BY <1>1 DEF Receive
  <2>2. Reserved' = Reserved /\ \A v \in rows \union leaked : pc'[v] \in Past
    BY <1>1 DEF Receive, GoTo, Reserved, CountInv, TypeOK, Past
  <2>3. QED
    BY <2>1, <2>2, SameCount DEF Counted, CountInv
<1>2. ASSUME NEW u \in Uploads, CheckKey(u) PROVE CountInv'
  <2>1. UNCHANGED <<rows, leaked, bytes, docs>>
    BY <1>2 DEF CheckKey
  <2>2. Reserved' = Reserved /\ \A v \in rows \union leaked : pc'[v] \in Past
    BY <1>2 DEF CheckKey, GoTo, Reserved, CountInv, TypeOK, Past
  <2>3. QED
    BY <2>1, <2>2, SameCount DEF Counted, CountInv
<1>3. ASSUME NEW u \in Uploads, CheckContent(u) PROVE CountInv'
  <2>1. UNCHANGED <<rows, leaked, bytes, docs>>
    BY <1>3 DEF CheckContent
  <2>2. Reserved' = Reserved /\ \A v \in rows \union leaked : pc'[v] \in Past
    BY <1>3 DEF CheckContent, GoTo, Reserved, CountInv, TypeOK, Past
  <2>3. QED
    BY <2>1, <2>2, SameCount DEF Counted, CountInv
<1>4. ASSUME NEW u \in Uploads, Reserve(u) PROVE CountInv'
  <2>1. CASE ~FitsQuota(u)
    <3>1. UNCHANGED <<rows, leaked, bytes, docs>>
      BY <1>4, <2>1 DEF Reserve
    <3>2. Reserved' = Reserved /\ \A v \in rows \union leaked : pc'[v] \in Past
      BY <1>4, <2>1 DEF Reserve, GoTo, Reserved, CountInv, TypeOK, Past
    <3>3. QED
      BY <3>1, <3>2, SameCount DEF Counted, CountInv
  <2>2. CASE FitsQuota(u)
    <3>1. /\ bytes' = bytes + SizeOf[u] /\ docs' = docs + 1
          /\ UNCHANGED <<rows, leaked>> /\ pc[u] = "reserve" /\ pc' = [pc EXCEPT ![u] = "makeDir"]
      BY <1>4, <2>2 DEF Reserve, GoTo
    <3>2. Reserved' = Reserved \union {u} /\ u \notin Reserved
      BY <3>1 DEF Reserved, TypeOK
    <3>3. u \notin rows \union leaked
      BY <3>1 DEF CountInv, Past
    <3>4. Counted' = Counted \union {u} /\ u \in Uploads \ Counted /\ Counted \in SUBSET Uploads
      BY <3>1, <3>2, <3>3 DEF Counted, TypeOK, Reserved
    <3>5. CountersAreAccountedFor'
      BY <3>1, <3>4, OneMore DEF CountInv, CountersAreAccountedFor
    <3>6. \A v \in rows \union leaked : pc'[v] \in Past
      BY <3>1, <3>3 DEF CountInv, TypeOK
    <3>7. QED
      BY <2>2, <3>1, <3>5, <3>6 DEF CountInv, FitsQuota
  <2>3. QED
    BY <2>1, <2>2
<1>5. ASSUME NEW u \in Uploads, MakeDir(u) PROVE CountInv'
  <2>1. UNCHANGED <<rows, leaked, bytes, docs>>
    BY <1>5 DEF MakeDir
  <2>2. Reserved' = Reserved /\ \A v \in rows \union leaked : pc'[v] \in Past
    BY <1>5 DEF MakeDir, GoTo, Reserved, CountInv, TypeOK, Past
  <2>3. QED
    BY <2>1, <2>2, SameCount DEF Counted, CountInv
<1>6. ASSUME NEW u \in Uploads, Move(u) PROVE CountInv'
  <2>1. UNCHANGED <<rows, leaked, bytes, docs>>
    BY <1>6 DEF Move
  <2>2. Reserved' = Reserved /\ \A v \in rows \union leaked : pc'[v] \in Past
    BY <1>6 DEF Move, GoTo, Reserved, CountInv, TypeOK, Past
  <2>3. QED
    BY <2>1, <2>2, SameCount DEF Counted, CountInv
<1>7. ASSUME NEW u \in Uploads, Insert(u) PROVE CountInv'
  <2>1. UNCHANGED <<leaked, bytes, docs>> /\ pc[u] = "insert" /\ u \notin rows \union leaked
    BY <1>7 DEF Insert, CountInv, Past
  <2>2. PICK l \in {"store", "undoFile"} :
          /\ pc' = [pc EXCEPT ![u] = l]
          /\ rows' = IF l = "store" THEN rows \union {u} ELSE rows
    BY <1>7 DEF Insert, GoTo
  <2>3. Reserved' = IF l = "store" THEN Reserved \ {u} ELSE Reserved
    BY <2>1, <2>2 DEF Reserved, TypeOK
  <2>4. u \in Reserved
    BY <2>1 DEF Reserved
  <2>5. Counted' = Counted
    BY <2>1, <2>2, <2>3, <2>4 DEF Counted
  <2>6. \A v \in rows' \union leaked' : pc'[v] \in Past
    BY <2>1, <2>2 DEF CountInv, TypeOK, Past
  <2>7. rows' \intersect leaked' = {}
    BY <2>1, <2>2 DEF CountInv
  <2>8. QED
    BY <2>1, <2>5, <2>6, <2>7, SameCount
<1>8. ASSUME NEW u \in Uploads, UndoFile(u) PROVE CountInv'
  <2>1. UNCHANGED <<rows, leaked, bytes, docs>>
    BY <1>8 DEF UndoFile
  <2>2. Reserved' = Reserved /\ \A v \in rows \union leaked : pc'[v] \in Past
    BY <1>8 DEF UndoFile, GoTo, Reserved, CountInv, TypeOK, Past
  <2>3. QED
    BY <2>1, <2>2, SameCount DEF Counted, CountInv
<1>9. ASSUME NEW u \in Uploads, UndoQuota(u) PROVE CountInv'
  <2>1. /\ bytes' = Minus(bytes, SizeOf[u]) /\ docs' = Minus(docs, 1)
        /\ UNCHANGED <<rows, leaked>> /\ pc[u] = "undoQuota" /\ pc' = [pc EXCEPT ![u] = "answered"]
    BY <1>9 DEF UndoQuota, GoTo
  <2>2. u \in Reserved /\ Reserved' = Reserved \ {u} /\ u \notin rows \union leaked
    BY <2>1 DEF Reserved, TypeOK, CountInv, Past
  <2>3. Counted' = Counted \ {u} /\ u \in Counted /\ Counted \in SUBSET Uploads
    BY <2>1, <2>2 DEF Counted, Reserved, TypeOK
  <2>4. CountersAreAccountedFor'
    BY <2>1, <2>3, OneLess DEF CountInv, CountersAreAccountedFor
  <2>5. \A v \in rows \union leaked : pc'[v] \in Past
    BY <2>1, <2>2 DEF CountInv, TypeOK
  <2>6. bytes \in Nat /\ docs \in Nat
    BY DEF TypeOK
  <2>7. bytes' <= bytes /\ docs' <= docs /\ bytes' \in Nat /\ docs' \in Nat
    BY <2>1, <2>6, MinusIsLess, BytesOfOne
  <2>8. QED
    BY <2>1, <2>4, <2>5, <2>6, <2>7, QuotaAssumption DEF CountInv, TypeOK
<1>10. ASSUME NEW u \in Uploads, Store(u) PROVE CountInv'
  <2>1. UNCHANGED <<rows, leaked, bytes, docs>>
    BY <1>10 DEF Store
  <2>2. Reserved' = Reserved /\ \A v \in rows \union leaked : pc'[v] \in Past
    BY <1>10 DEF Store, GoTo, Spend, Reserved, CountInv, TypeOK, Past
  <2>3. QED
    BY <2>1, <2>2, SameCount DEF Counted, CountInv
<1>11. ASSUME NEW u \in Uploads, CheckFails(u) PROVE CountInv'
  <2>1. UNCHANGED <<rows, leaked, bytes, docs>>
    BY <1>11 DEF CheckFails
  <2>2. Reserved' = Reserved /\ \A v \in rows \union leaked : pc'[v] \in Past
    BY <1>11 DEF CheckFails, GoTo, Spend, Reserved, CountInv, TypeOK, Past
  <2>3. QED
    BY <2>1, <2>2, SameCount DEF Counted, CountInv
<1>12. ASSUME NEW u \in Uploads, MakeDirFails(u) PROVE CountInv'
  <2>1. /\ leaked' = leaked \union {u} /\ u \in Reserved /\ UNCHANGED <<rows, bytes, docs>>
        /\ pc' = [pc EXCEPT ![u] = "answered"]
    BY <1>12 DEF MakeDirFails, GoTo, Reserved
  <2>2. Reserved' = Reserved \ {u} /\ u \notin rows
    BY <2>1 DEF Reserved, TypeOK, CountInv, Past
  <2>3. Counted' = Counted
    BY <2>1, <2>2 DEF Counted
  <2>4. \A v \in rows' \union leaked' : pc'[v] \in Past
    BY <2>1 DEF CountInv, TypeOK, Past
  <2>5. rows' \intersect leaked' = {}
    BY <2>1, <2>2 DEF CountInv
  <2>6. QED
    BY <2>1, <2>3, <2>4, <2>5, SameCount
<1>13. ASSUME NEW u \in Uploads, InsertFails(u) PROVE CountInv'
  <2>1. UNCHANGED <<rows, leaked, bytes, docs>>
    BY <1>13 DEF InsertFails
  <2>2. Reserved' = Reserved /\ \A v \in rows \union leaked : pc'[v] \in Past
    BY <1>13 DEF InsertFails, GoTo, Spend, Reserved, CountInv, TypeOK, Past
  <2>3. QED
    BY <2>1, <2>2, SameCount DEF Counted, CountInv
<1>14. ASSUME NEW u \in Uploads, UndoQuotaFails(u) PROVE CountInv'
  <2>1. /\ leaked' = leaked \union {u} /\ u \in Reserved /\ UNCHANGED <<rows, bytes, docs>>
        /\ pc' = [pc EXCEPT ![u] = "answered"]
    BY <1>14 DEF UndoQuotaFails, GoTo, Reserved
  <2>2. Reserved' = Reserved \ {u} /\ u \notin rows
    BY <2>1 DEF Reserved, TypeOK, CountInv, Past
  <2>3. Counted' = Counted
    BY <2>1, <2>2 DEF Counted
  <2>4. \A v \in rows' \union leaked' : pc'[v] \in Past
    BY <2>1 DEF CountInv, TypeOK, Past
  <2>5. rows' \intersect leaked' = {}
    BY <2>1, <2>2 DEF CountInv
  <2>6. QED
    BY <2>1, <2>3, <2>4, <2>5, SameCount
<1>15. ASSUME NEW u \in Uploads, Disconnect(u) PROVE CountInv'
  <2>1. PICK S \in SUBSET Uploads : Abandon(S)
    BY <1>15 DEF Disconnect
  <2>2. UNCHANGED <<rows, bytes, docs>>
    BY <1>15 DEF Disconnect
  <2>3. \A v \in Uploads : pc'[v] = IF v \in S THEN "answered" ELSE pc[v]
    BY <2>1 DEF Abandon
  <2>4. leaked' = leaked \union (S \intersect Reserved)
    BY <2>1 DEF Abandon
  <2>5. Reserved' = Reserved \ S
    BY <2>3 DEF Reserved
  <2>6. Counted' = Counted
    BY <2>2, <2>4, <2>5 DEF Counted
  <2>7. \A v \in rows' \union leaked' : pc'[v] \in Past
    BY <2>2, <2>3, <2>4 DEF CountInv, TypeOK, Past
  <2>8. rows' \intersect leaked' = {}
    <3>1. rows \intersect Reserved = {}
      BY DEF CountInv, Reserved, Past
    <3>2. QED
      BY <2>2, <2>4, <3>1 DEF CountInv
  <2>9. QED
    BY <2>2, <2>6, <2>7, <2>8, SameCount
<1>16. ASSUME NEW u \in Uploads, DeleteDocument(u) PROVE CountInv'
  <2>1. /\ bytes' = Minus(bytes, SizeOf[u]) /\ docs' = Minus(docs, 1)
        /\ rows' = rows \ {u} /\ u \in rows /\ UNCHANGED <<pc, leaked>>
    BY <1>16 DEF DeleteDocument
  <2>2. Reserved' = Reserved /\ u \notin Reserved /\ u \notin leaked
    BY <2>1 DEF Reserved, CountInv, Past
  <2>3. Counted' = Counted \ {u} /\ u \in Counted /\ Counted \in SUBSET Uploads
    BY <2>1, <2>2 DEF Counted, Reserved, TypeOK
  <2>4. CountersAreAccountedFor'
    BY <2>1, <2>3, OneLess DEF CountInv, CountersAreAccountedFor
  <2>5. bytes' <= bytes /\ docs' <= docs /\ bytes' \in Nat /\ docs' \in Nat
    <3>1. bytes \in Nat /\ docs \in Nat
      BY DEF TypeOK
    <3>2. QED
      BY <2>1, <3>1, MinusIsLess, BytesOfOne
  <2>6. QED
    BY <2>1, <2>4, <2>5, QuotaAssumption DEF CountInv, TypeOK
<1>17. ASSUME NEW u \in Uploads, RemoveFile(u) PROVE CountInv'
  <2>1. UNCHANGED <<rows, leaked, bytes, docs, pc>>
    BY <1>17 DEF RemoveFile
  <2>2. QED
    BY <2>1, SameCount DEF Counted, Reserved, CountInv
<1>18. ASSUME NEW u \in Uploads, SweepFile(u) PROVE CountInv'
  <2>1. UNCHANGED <<rows, leaked, bytes, docs, pc>>
    BY <1>18 DEF SweepFile
  <2>2. QED
    BY <2>1, SameCount DEF Counted, Reserved, CountInv
<1>19. ASSUME NEW u \in Uploads, SweepTmp(u) PROVE CountInv'
  <2>1. UNCHANGED <<rows, leaked, bytes, docs, pc>>
    BY <1>19 DEF SweepTmp
  <2>2. QED
    BY <2>1, SameCount DEF Counted, Reserved, CountInv
<1>20. ASSUME NEW p \in Personas, DeletePersona(p) PROVE CountInv'
  <2>1. /\ rows' = rows \ OfPersona(p) /\ leaked' = leaked \union (rows \intersect OfPersona(p))
        /\ UNCHANGED <<pc, bytes, docs>>
    BY <1>20 DEF DeletePersona
  <2>2. Counted' = Counted
    BY <2>1 DEF Counted, Reserved
  <2>3. QED
    BY <2>1, <2>2, SameCount DEF CountInv
<1>21. ASSUME NEW p \in Personas, LoseRemoval(p) PROVE CountInv'
  <2>1. UNCHANGED <<rows, leaked, bytes, docs, pc>>
    BY <1>21 DEF LoseRemoval
  <2>2. QED
    BY <2>1, SameCount DEF Counted, Reserved, CountInv
<1>22. ASSUME NEW p \in Personas, RemoveDir(p) PROVE CountInv'
  <2>1. UNCHANGED <<rows, leaked, bytes, docs, pc>>
    BY <1>22 DEF RemoveDir
  <2>2. QED
    BY <2>1, SameCount DEF Counted, Reserved, CountInv
<1>23. ASSUME NEW p \in Personas, EraseDir(p) PROVE CountInv'
  <2>1. UNCHANGED <<rows, leaked, bytes, docs, pc>>
    BY <1>23 DEF EraseDir
  <2>2. QED
    BY <2>1, SameCount DEF Counted, Reserved, CountInv
<1>24. ASSUME NEW s \in Slots, ExpireKey(s) PROVE CountInv'
  <2>1. UNCHANGED <<rows, leaked, bytes, docs, pc>>
    BY <1>24 DEF ExpireKey
  <2>2. QED
    BY <2>1, SameCount DEF Counted, Reserved, CountInv
<1>25. ASSUME NEW s \in Slots, PruneKey(s) PROVE CountInv'
  <2>1. UNCHANGED <<rows, leaked, bytes, docs, pc>>
    BY <1>25 DEF PruneKey
  <2>2. QED
    BY <2>1, SameCount DEF Counted, Reserved, CountInv
<1>26. CASE Crash
  <2>1. PICK S \in SUBSET Uploads : Abandon(S)
    BY <1>26 DEF Crash
  <2>2. UNCHANGED <<rows, bytes, docs>>
    BY <1>26 DEF Crash
  <2>3. \A v \in Uploads : pc'[v] = IF v \in S THEN "answered" ELSE pc[v]
    BY <2>1 DEF Abandon
  <2>4. leaked' = leaked \union (S \intersect Reserved)
    BY <2>1 DEF Abandon
  <2>5. Reserved' = Reserved \ S
    BY <2>3 DEF Reserved
  <2>6. Counted' = Counted
    BY <2>2, <2>4, <2>5 DEF Counted
  <2>7. \A v \in rows' \union leaked' : pc'[v] \in Past
    BY <2>2, <2>3, <2>4 DEF CountInv, TypeOK, Past
  <2>8. rows' \intersect leaked' = {}
    <3>1. rows \intersect Reserved = {}
      BY DEF CountInv, Reserved, Past
    <3>2. QED
      BY <2>2, <2>4, <3>1 DEF CountInv
  <2>9. QED
    BY <2>2, <2>6, <2>7, <2>8, SameCount
<1>27. CASE UNCHANGED vars
  <2>1. UNCHANGED <<rows, leaked, bytes, docs, pc>>
    BY <1>27 DEF vars
  <2>2. QED
    BY <2>1, SameCount DEF Counted, Reserved, CountInv
<1>28. QED
  BY <1>1, <1>2, <1>3, <1>4, <1>5, <1>6, <1>7, <1>8, <1>9, <1>10, <1>11, <1>12, <1>13,
     <1>14, <1>15, <1>16, <1>17, <1>18, <1>19, <1>20, <1>21, <1>22, <1>24, <1>25, <1>26,
     <1>27, <1>23 DEF
     Next, Proceed, StepFails

LEMMA StorageInvHolds == Spec => []StorageInv
<1>1. StorageInv /\ [Next]_vars => StorageInv'
  BY NextTypeOK, NextCountInv DEF StorageInv
<1>2. QED
  BY <1>1, InitStorageInv, PTL DEF Spec

\* The two counters of `users` count the same uploads, for any number of them and
\* any sizes, whatever fails and whoever disconnects: those with a row, those between
\* reservation and row, and those lost (repositories/documents.rs).
THEOREM CountersAreExact == Spec => []CountersAreAccountedFor
BY StorageInvHolds, PTL DEF StorageInv, CountInv

\* The documents a user has exceed neither quota, for any quotas, sizes and
\* interleaving of uploads: atomic_quota_check_and_increment.
THEOREM QuotaIsKept == Spec => []QuotaHolds
<1>1. StorageInv => QuotaHolds
  <2> SUFFICES ASSUME StorageInv PROVE QuotaHolds
    OBVIOUS
  <2>1. Counted \in SUBSET Uploads /\ rows \in SUBSET Counted
    BY DEF StorageInv, TypeOK, Counted, Reserved
  <2>2. Cardinality(rows) <= docs /\ TotalSize(rows) <= bytes
    BY <2>1, FewerIsSmaller DEF StorageInv, CountInv, CountersAreAccountedFor
  <2>3. Cardinality(rows) \in Nat /\ TotalSize(rows) \in Nat
    BY <2>1, FiniteBytes
  <2>4. QED
    BY <2>2, <2>3, QuotaAssumption DEF StorageInv, TypeOK, CountInv, QuotaHolds
<1>2. QED
  BY <1>1, StorageInvHolds, PTL

-----------------------------------------------------------------------------
(***************************************************************************)
(* A file that is about to get its row is there, unless its persona is     *)
(* gone; what the detached tasks remove has no row.  Without a             *)
(* disturbance, a file has its row, or somebody who will remove it.        *)
(***************************************************************************)
FileInv ==
  /\ FileLostOnlyToSweepOrErasure
  /\ \A u \in rows : PersonaOf[u] \in persona
  /\ sweeps \intersect persona = {}
  /\ \A u \in removals : u \notin rows /\ pc[u] \in Past
  /\ \A u \in Uploads : pc[u] = "insert" =>
       u \in files \union taken \/ PersonaOf[u] \notin persona

NoStrayInv ==
  ~Disturbed => \A u \in files :
    u \in rows \union removals \/ pc[u] \in {"insert", "undoFile"} \/ PersonaOf[u] \in sweeps

\* No step but the sweep takes the file of a row.
LEMMA NextFileInv == StorageInv /\ FileInv /\ [Next]_vars => FileInv'
<1> SUFFICES ASSUME StorageInv /\ FileInv, [Next]_vars PROVE FileInv'
  OBVIOUS
<1> USE UploadsAssumption DEF StorageInv
<1>1. ASSUME NEW u \in Uploads, Receive(u) PROVE FileInv'
  BY <1>1 DEF Receive, GoTo, FileInv, FileLostOnlyToSweepOrErasure, CountInv, TypeOK, Past
<1>2. ASSUME NEW u \in Uploads, CheckKey(u) PROVE FileInv'
  BY <1>2 DEF CheckKey, GoTo, FileInv, FileLostOnlyToSweepOrErasure, CountInv, TypeOK, Past
<1>3. ASSUME NEW u \in Uploads, CheckContent(u) PROVE FileInv'
  BY <1>3 DEF CheckContent, GoTo, FileInv, FileLostOnlyToSweepOrErasure, CountInv, TypeOK, Past
<1>4. ASSUME NEW u \in Uploads, Reserve(u) PROVE FileInv'
  BY <1>4 DEF Reserve, GoTo, FileInv, FileLostOnlyToSweepOrErasure, CountInv, TypeOK, Past
<1>5. ASSUME NEW u \in Uploads, MakeDir(u) PROVE FileInv'
  BY <1>5 DEF MakeDir, GoTo, FileInv, FileLostOnlyToSweepOrErasure, CountInv, TypeOK, Past
<1>6. ASSUME NEW u \in Uploads, Move(u) PROVE FileInv'
  BY <1>6 DEF Move, GoTo, FileInv, FileLostOnlyToSweepOrErasure, CountInv, TypeOK, Past
<1>7. ASSUME NEW u \in Uploads, Insert(u) PROVE FileInv'
  BY <1>7 DEF Insert, GoTo, FileInv, FileLostOnlyToSweepOrErasure, CountInv, TypeOK, Past
<1>8. ASSUME NEW u \in Uploads, UndoFile(u) PROVE FileInv'
  BY <1>8 DEF UndoFile, GoTo, FileInv, FileLostOnlyToSweepOrErasure, CountInv, TypeOK, Past
<1>9. ASSUME NEW u \in Uploads, UndoQuota(u) PROVE FileInv'
  BY <1>9 DEF UndoQuota, GoTo, FileInv, FileLostOnlyToSweepOrErasure, CountInv, TypeOK, Past
<1>10. ASSUME NEW u \in Uploads, Store(u) PROVE FileInv'
  BY <1>10 DEF Store, GoTo, Spend, FileInv, FileLostOnlyToSweepOrErasure, CountInv, TypeOK, Past
<1>11. ASSUME NEW u \in Uploads, CheckFails(u) PROVE FileInv'
  BY <1>11 DEF CheckFails, GoTo, Spend, FileInv, FileLostOnlyToSweepOrErasure, CountInv, TypeOK, Past
<1>12. ASSUME NEW u \in Uploads, MakeDirFails(u) PROVE FileInv'
  BY <1>12 DEF MakeDirFails, GoTo, Spend, FileInv, FileLostOnlyToSweepOrErasure, CountInv, TypeOK,
     Past
<1>13. ASSUME NEW u \in Uploads, InsertFails(u) PROVE FileInv'
  BY <1>13 DEF InsertFails, GoTo, Spend, FileInv, FileLostOnlyToSweepOrErasure, CountInv, TypeOK,
     Past
<1>14. ASSUME NEW u \in Uploads, UndoQuotaFails(u) PROVE FileInv'
  BY <1>14 DEF UndoQuotaFails, GoTo, Spend, FileInv, FileLostOnlyToSweepOrErasure, CountInv, TypeOK,
     Past
<1>15. ASSUME NEW u \in Uploads, Disconnect(u) PROVE FileInv'
  <2>1. UNCHANGED <<rows, files, taken, persona, sweeps, removals>>
    BY <1>15 DEF Disconnect
  <2>2. \A v \in Uploads : pc'[v] = pc[v] \/ pc'[v] = "answered"
    BY <1>15 DEF Disconnect, Abandon
  <2>3. QED
    BY <2>1, <2>2 DEF FileInv, FileLostOnlyToSweepOrErasure, TypeOK, Past
<1>16. ASSUME NEW u \in Uploads, DeleteDocument(u) PROVE FileInv'
  BY <1>16 DEF DeleteDocument, FileInv, FileLostOnlyToSweepOrErasure, CountInv, TypeOK, Past
<1>17. ASSUME NEW u \in Uploads, RemoveFile(u) PROVE FileInv'
  BY <1>17 DEF RemoveFile, FileInv, FileLostOnlyToSweepOrErasure, CountInv, TypeOK, Past
<1>18. ASSUME NEW u \in Uploads, SweepFile(u) PROVE FileInv'
  BY <1>18 DEF SweepFile, FileInv, FileLostOnlyToSweepOrErasure, CountInv, TypeOK, Past
<1>19. ASSUME NEW u \in Uploads, SweepTmp(u) PROVE FileInv'
  BY <1>19 DEF SweepTmp, FileInv, FileLostOnlyToSweepOrErasure, CountInv, TypeOK, Past
<1>20. ASSUME NEW p \in Personas, DeletePersona(p) PROVE FileInv'
  BY <1>20 DEF DeletePersona, OfPersona, FileInv, FileLostOnlyToSweepOrErasure, CountInv, TypeOK,
     Past
<1>21. ASSUME NEW p \in Personas, LoseRemoval(p) PROVE FileInv'
  BY <1>21 DEF LoseRemoval, Spend, FileInv, FileLostOnlyToSweepOrErasure, CountInv, TypeOK, Past
<1>22. ASSUME NEW p \in Personas, RemoveDir(p) PROVE FileInv'
  BY <1>22 DEF RemoveDir, OfPersona, FileInv, FileLostOnlyToSweepOrErasure, CountInv, TypeOK, Past
<1>23. ASSUME NEW p \in Personas, EraseDir(p) PROVE FileInv'
  BY <1>23 DEF EraseDir, OfPersona, FileInv, FileLostOnlyToSweepOrErasure, CountInv, TypeOK, Past
<1>24. ASSUME NEW s \in Slots, ExpireKey(s) PROVE FileInv'
  BY <1>24 DEF ExpireKey, FileInv, FileLostOnlyToSweepOrErasure, CountInv, TypeOK, Past
<1>25. ASSUME NEW s \in Slots, PruneKey(s) PROVE FileInv'
  BY <1>25 DEF PruneKey, FileInv, FileLostOnlyToSweepOrErasure, CountInv, TypeOK, Past
<1>26. CASE Crash
  <2>1. UNCHANGED <<rows, files, taken, persona>> /\ sweeps' = {} /\ removals' = {}
    BY <1>26 DEF Crash
  <2>2. \A v \in Uploads : pc'[v] = pc[v] \/ pc'[v] = "answered"
    BY <1>26 DEF Crash, Abandon
  <2>3. QED
    BY <2>1, <2>2 DEF FileInv, FileLostOnlyToSweepOrErasure, TypeOK, Past
<1>27. CASE UNCHANGED vars
  BY <1>27 DEF vars, FileInv, FileLostOnlyToSweepOrErasure, CountInv, TypeOK, Past
<1>28. QED
  BY <1>1, <1>2, <1>3, <1>4, <1>5, <1>6, <1>7, <1>8, <1>9, <1>10, <1>11, <1>12, <1>13,
     <1>14, <1>15, <1>16, <1>17, <1>18, <1>19, <1>20, <1>21, <1>22, <1>24, <1>25, <1>26,
     <1>27, <1>23 DEF
     Next, Proceed, StepFails

\* Undoing an upload, deleting a document and removing a persona's directory never
\* take the file of another document, in whatever order the detached tasks run.
THEOREM FilesAreLostOnlyToSweepOrErasure == Spec => []FileLostOnlyToSweepOrErasure
<1>1. Init => FileInv
  BY DEF Init, FileInv, FileLostOnlyToSweepOrErasure
<1>2. QED
  BY <1>1, NextFileInv, StorageInvHolds, PTL DEF Spec, FileInv

\* No step leaves a file behind unless something failed.
LEMMA NextNoStrayInv == StorageInv /\ FileInv /\ NoStrayInv /\ [Next]_vars => NoStrayInv'
<1> SUFFICES ASSUME StorageInv /\ FileInv /\ NoStrayInv, [Next]_vars PROVE NoStrayInv'
  OBVIOUS
<1> USE UploadsAssumption, BudgetAssumption DEF StorageInv
<1>1. ASSUME NEW u \in Uploads, Receive(u) PROVE NoStrayInv'
  BY <1>1 DEF Receive, GoTo, NoStrayInv, Disturbed, FileInv, CountInv, TypeOK, Past
<1>2. ASSUME NEW u \in Uploads, CheckKey(u) PROVE NoStrayInv'
  BY <1>2 DEF CheckKey, GoTo, NoStrayInv, Disturbed, FileInv, CountInv, TypeOK, Past
<1>3. ASSUME NEW u \in Uploads, CheckContent(u) PROVE NoStrayInv'
  BY <1>3 DEF CheckContent, GoTo, NoStrayInv, Disturbed, FileInv, CountInv, TypeOK, Past
<1>4. ASSUME NEW u \in Uploads, Reserve(u) PROVE NoStrayInv'
  BY <1>4 DEF Reserve, GoTo, NoStrayInv, Disturbed, FileInv, CountInv, TypeOK, Past
<1>5. ASSUME NEW u \in Uploads, MakeDir(u) PROVE NoStrayInv'
  BY <1>5 DEF MakeDir, GoTo, NoStrayInv, Disturbed, FileInv, CountInv, TypeOK, Past
<1>6. ASSUME NEW u \in Uploads, Move(u) PROVE NoStrayInv'
  BY <1>6 DEF Move, GoTo, NoStrayInv, Disturbed, FileInv, CountInv, TypeOK, Past
<1>7. ASSUME NEW u \in Uploads, Insert(u) PROVE NoStrayInv'
  BY <1>7 DEF Insert, GoTo, NoStrayInv, Disturbed, FileInv, CountInv, TypeOK, Past
<1>8. ASSUME NEW u \in Uploads, UndoFile(u) PROVE NoStrayInv'
  BY <1>8 DEF UndoFile, GoTo, NoStrayInv, Disturbed, FileInv, CountInv, TypeOK, Past
<1>9. ASSUME NEW u \in Uploads, UndoQuota(u) PROVE NoStrayInv'
  BY <1>9 DEF UndoQuota, GoTo, NoStrayInv, Disturbed, FileInv, CountInv, TypeOK, Past
<1>10. ASSUME NEW u \in Uploads, Store(u) PROVE NoStrayInv'
  BY <1>10 DEF Store, GoTo, Spend, NoStrayInv, Disturbed, FileInv, CountInv, TypeOK, Past
<1>11. ASSUME NEW u \in Uploads, CheckFails(u) PROVE NoStrayInv'
  BY <1>11 DEF CheckFails, GoTo, Spend, NoStrayInv, Disturbed, FileInv, CountInv, TypeOK,
     Past
<1>12. ASSUME NEW u \in Uploads, MakeDirFails(u) PROVE NoStrayInv'
  BY <1>12 DEF MakeDirFails, GoTo, Spend, NoStrayInv, Disturbed, FileInv, CountInv, TypeOK,
     Past
<1>13. ASSUME NEW u \in Uploads, InsertFails(u) PROVE NoStrayInv'
  BY <1>13 DEF InsertFails, GoTo, Spend, NoStrayInv, Disturbed, FileInv, CountInv, TypeOK,
     Past
<1>14. ASSUME NEW u \in Uploads, UndoQuotaFails(u) PROVE NoStrayInv'
  BY <1>14 DEF UndoQuotaFails, GoTo, Spend, NoStrayInv, Disturbed, FileInv, CountInv,
     TypeOK, Past
<1>15. ASSUME NEW u \in Uploads, Disconnect(u) PROVE NoStrayInv'
  BY <1>15 DEF Disconnect, Abandon, Spend, NoStrayInv, Disturbed, FileInv, CountInv, TypeOK,
     Past
<1>16. ASSUME NEW u \in Uploads, DeleteDocument(u) PROVE NoStrayInv'
  BY <1>16 DEF DeleteDocument, NoStrayInv, Disturbed, FileInv, CountInv, TypeOK, Past
<1>17. ASSUME NEW u \in Uploads, RemoveFile(u) PROVE NoStrayInv'
  BY <1>17 DEF RemoveFile, NoStrayInv, Disturbed, FileInv, CountInv, TypeOK, Past
<1>18. ASSUME NEW u \in Uploads, SweepFile(u) PROVE NoStrayInv'
  BY <1>18 DEF SweepFile, NoStrayInv, Disturbed, FileInv, CountInv, TypeOK, Past
<1>19. ASSUME NEW u \in Uploads, SweepTmp(u) PROVE NoStrayInv'
  BY <1>19 DEF SweepTmp, NoStrayInv, Disturbed, FileInv, CountInv, TypeOK, Past
<1>20. ASSUME NEW p \in Personas, DeletePersona(p) PROVE NoStrayInv'
  BY <1>20 DEF DeletePersona, OfPersona, NoStrayInv, Disturbed, FileInv, CountInv, TypeOK,
     Past
<1>21. ASSUME NEW p \in Personas, LoseRemoval(p) PROVE NoStrayInv'
  BY <1>21 DEF LoseRemoval, Spend, NoStrayInv, Disturbed, FileInv, CountInv, TypeOK, Past
<1>22. ASSUME NEW p \in Personas, RemoveDir(p) PROVE NoStrayInv'
  BY <1>22 DEF RemoveDir, OfPersona, NoStrayInv, Disturbed, FileInv, CountInv, TypeOK, Past
<1>23. ASSUME NEW p \in Personas, EraseDir(p) PROVE NoStrayInv'
  BY <1>23 DEF EraseDir, OfPersona, NoStrayInv, Disturbed, FileInv, CountInv, TypeOK, Past
<1>24. ASSUME NEW s \in Slots, ExpireKey(s) PROVE NoStrayInv'
  BY <1>24 DEF ExpireKey, NoStrayInv, Disturbed, FileInv, CountInv, TypeOK, Past
<1>25. ASSUME NEW s \in Slots, PruneKey(s) PROVE NoStrayInv'
  BY <1>25 DEF PruneKey, NoStrayInv, Disturbed, FileInv, CountInv, TypeOK, Past
<1>26. CASE Crash
  BY <1>26 DEF Crash, Abandon, Spend, NoStrayInv, Disturbed, FileInv, CountInv, TypeOK, Past
<1>27. CASE UNCHANGED vars
  BY <1>27 DEF vars, NoStrayInv, Disturbed, FileInv, CountInv, TypeOK, Past
<1>28. QED
  BY <1>1, <1>2, <1>3, <1>4, <1>5, <1>6, <1>7, <1>8, <1>9, <1>10, <1>11, <1>12, <1>13,
     <1>14, <1>15, <1>16, <1>17, <1>18, <1>19, <1>20, <1>21, <1>22, <1>24, <1>25, <1>26,
     <1>27, <1>23 DEF
     Next, Proceed, StepFails

\* When everything is quiet and nothing failed, every file has its row, however
\* uploads raced one another and the deletion of documents and of the persona.
THEOREM FilesHaveRows == Spec => []NoFileWithoutRow
<1>1. Init => FileInv /\ NoStrayInv
  BY DEF Init, FileInv, FileLostOnlyToSweepOrErasure, NoStrayInv
<1>2. StorageInv /\ NoStrayInv => NoFileWithoutRow
  BY DEF StorageInv, TypeOK, NoStrayInv, NoFileWithoutRow, Quiet, InFlight
<1>3. QED
  BY <1>1, <1>2, NextFileInv, NextNoStrayInv, StorageInvHolds, PTL DEF Spec

-----------------------------------------------------------------------------
\* A stored response is of an upload that is over.
ReplayInv ==
  /\ \A s \in Slots : replies[s] \in Uploads => pc[replies[s]] = "answered"
  /\ ReplayIsFaithful

\* No step answers an upload with the response to another file.
LEMMA NextReplayInv == StorageInv /\ ReplayInv /\ [Next]_vars => ReplayInv'
<1> SUFFICES ASSUME StorageInv /\ ReplayInv, [Next]_vars PROVE ReplayInv'
  OBVIOUS
<1> USE SlotOfUpload, UploadsAssumption DEF StorageInv
<1>1. ASSUME NEW u \in Uploads, Receive(u) PROVE ReplayInv'
  BY <1>1 DEF Receive, GoTo, ReplayInv, ReplayIsFaithful, TypeOK, InFlight
<1>2. ASSUME NEW u \in Uploads, CheckKey(u) PROVE ReplayInv'
  BY <1>2 DEF CheckKey, GoTo, ReplayInv, ReplayIsFaithful, TypeOK, InFlight
<1>3. ASSUME NEW u \in Uploads, CheckContent(u) PROVE ReplayInv'
  BY <1>3 DEF CheckContent, GoTo, ReplayInv, ReplayIsFaithful, TypeOK, InFlight
<1>4. ASSUME NEW u \in Uploads, Reserve(u) PROVE ReplayInv'
  BY <1>4 DEF Reserve, GoTo, ReplayInv, ReplayIsFaithful, TypeOK, InFlight
<1>5. ASSUME NEW u \in Uploads, MakeDir(u) PROVE ReplayInv'
  BY <1>5 DEF MakeDir, GoTo, ReplayInv, ReplayIsFaithful, TypeOK, InFlight
<1>6. ASSUME NEW u \in Uploads, Move(u) PROVE ReplayInv'
  BY <1>6 DEF Move, GoTo, ReplayInv, ReplayIsFaithful, TypeOK, InFlight
<1>7. ASSUME NEW u \in Uploads, Insert(u) PROVE ReplayInv'
  BY <1>7 DEF Insert, GoTo, ReplayInv, ReplayIsFaithful, TypeOK, InFlight
<1>8. ASSUME NEW u \in Uploads, UndoFile(u) PROVE ReplayInv'
  BY <1>8 DEF UndoFile, GoTo, ReplayInv, ReplayIsFaithful, TypeOK, InFlight
<1>9. ASSUME NEW u \in Uploads, UndoQuota(u) PROVE ReplayInv'
  BY <1>9 DEF UndoQuota, GoTo, ReplayInv, ReplayIsFaithful, TypeOK, InFlight
<1>10. ASSUME NEW u \in Uploads, Store(u) PROVE ReplayInv'
  BY <1>10 DEF Store, GoTo, Spend, ReplayInv, ReplayIsFaithful, TypeOK, InFlight
<1>11. ASSUME NEW u \in Uploads, CheckFails(u) PROVE ReplayInv'
  BY <1>11 DEF CheckFails, GoTo, Spend, ReplayInv, ReplayIsFaithful, TypeOK, InFlight
<1>12. ASSUME NEW u \in Uploads, MakeDirFails(u) PROVE ReplayInv'
  BY <1>12 DEF MakeDirFails, GoTo, Spend, ReplayInv, ReplayIsFaithful, TypeOK, InFlight
<1>13. ASSUME NEW u \in Uploads, InsertFails(u) PROVE ReplayInv'
  BY <1>13 DEF InsertFails, GoTo, Spend, ReplayInv, ReplayIsFaithful, TypeOK, InFlight
<1>14. ASSUME NEW u \in Uploads, UndoQuotaFails(u) PROVE ReplayInv'
  BY <1>14 DEF UndoQuotaFails, GoTo, Spend, ReplayInv, ReplayIsFaithful, TypeOK, InFlight
<1>15. ASSUME NEW u \in Uploads, Disconnect(u) PROVE ReplayInv'
  BY <1>15 DEF Disconnect, Abandon, Spend, ReplayInv, ReplayIsFaithful, TypeOK, InFlight
<1>16. ASSUME NEW u \in Uploads, DeleteDocument(u) PROVE ReplayInv'
  BY <1>16 DEF DeleteDocument, ReplayInv, ReplayIsFaithful, TypeOK, InFlight
<1>17. ASSUME NEW u \in Uploads, RemoveFile(u) PROVE ReplayInv'
  BY <1>17 DEF RemoveFile, ReplayInv, ReplayIsFaithful, TypeOK, InFlight
<1>18. ASSUME NEW u \in Uploads, SweepFile(u) PROVE ReplayInv'
  BY <1>18 DEF SweepFile, ReplayInv, ReplayIsFaithful, TypeOK, InFlight
<1>19. ASSUME NEW u \in Uploads, SweepTmp(u) PROVE ReplayInv'
  BY <1>19 DEF SweepTmp, ReplayInv, ReplayIsFaithful, TypeOK, InFlight
<1>20. ASSUME NEW p \in Personas, DeletePersona(p) PROVE ReplayInv'
  BY <1>20 DEF DeletePersona, OfPersona, ReplayInv, ReplayIsFaithful, TypeOK, InFlight
<1>21. ASSUME NEW p \in Personas, LoseRemoval(p) PROVE ReplayInv'
  BY <1>21 DEF LoseRemoval, Spend, ReplayInv, ReplayIsFaithful, TypeOK, InFlight
<1>22. ASSUME NEW p \in Personas, RemoveDir(p) PROVE ReplayInv'
  BY <1>22 DEF RemoveDir, OfPersona, ReplayInv, ReplayIsFaithful, TypeOK, InFlight
<1>23. ASSUME NEW p \in Personas, EraseDir(p) PROVE ReplayInv'
  BY <1>23 DEF EraseDir, OfPersona, ReplayInv, ReplayIsFaithful, TypeOK, InFlight
<1>24. ASSUME NEW s \in Slots, ExpireKey(s) PROVE ReplayInv'
  BY <1>24 DEF ExpireKey, ReplayInv, ReplayIsFaithful, TypeOK, InFlight
<1>25. ASSUME NEW s \in Slots, PruneKey(s) PROVE ReplayInv'
  BY <1>25 DEF PruneKey, ReplayInv, ReplayIsFaithful, TypeOK, InFlight
<1>26. CASE Crash
  BY <1>26 DEF Crash, Abandon, Spend, ReplayInv, ReplayIsFaithful, TypeOK, InFlight
<1>27. CASE UNCHANGED vars
  BY <1>27 DEF vars, ReplayInv, ReplayIsFaithful, TypeOK, InFlight
<1>28. QED
  BY <1>1, <1>2, <1>3, <1>4, <1>5, <1>6, <1>7, <1>8, <1>9, <1>10, <1>11, <1>12, <1>13,
     <1>14, <1>15, <1>16, <1>17, <1>18, <1>19, <1>20, <1>21, <1>22, <1>24, <1>25, <1>26,
     <1>27, <1>23 DEF
     Next, Proceed, StepFails

\* A repeated upload is answered with the response to an upload of the same file
\* to the same persona, and not its own (services/idempotency.rs).
THEOREM UploadReplaysAreFaithful == Spec => []ReplayIsFaithful
<1>1. Init => ReplayInv
  BY UploadsAssumption DEF Init, ReplayInv, ReplayIsFaithful
<1>2. QED
  BY <1>1, NextReplayInv, StorageInvHolds, PTL DEF Spec, ReplayInv
-----------------------------------------------------------------------------
(***************************************************************************)
(* The steps of the contract that an upload's steps are.                   *)
(***************************************************************************)
LEMMA StageMoves ==
  ASSUME TypeOK, NEW u \in Uploads, NEW l, GoTo(u, l)
  PROVE  Stage[u] = StageAt(pc[u]) /\ Stage' = [Stage EXCEPT ![u] = StageAt(l)]
BY DEF TypeOK, GoTo, Stage

LEMMA GoesOn ==
  ASSUME TypeOK, NEW u \in Uploads, NEW l, GoTo(u, l), StageAt(l) = StageAt(pc[u]),
         UNCHANGED <<replies, replayed, rows>>
  PROVE  UNCHANGED Contract!contractVars
BY StageMoves DEF Contract!contractVars, Stage

LEMMA EndsEarly ==
  ASSUME TypeOK, NEW R \in SUBSET Uploads, \A u \in R : pc[u] # "answered",
         pc' = [u \in Uploads |-> IF u \in R THEN "answered" ELSE pc[u]],
         UNCHANGED <<replies, replayed, rows>>
  PROVE  Contract!Next
<1>1. \A u \in R : Stage[u] \in {"new", "working"}
  BY DEF Stage, StageAt
<1>2. Stage' = [u \in Uploads |-> IF u \in R THEN "ended" ELSE Stage[u]]
  BY DEF Stage, StageAt
<1>3. Contract!End(R)
  BY <1>1, <1>2 DEF Contract!End
<1>4. QED
  BY <1>3 DEF Contract!Next

LEMMA Refused ==
  ASSUME TypeOK, NEW u \in Uploads, GoTo(u, "answered"), pc[u] # "answered",
         UNCHANGED <<replies, replayed, rows>>
  PROVE  Contract!Next
<1> DEFINE R == {u}
<1>1. pc' = [v \in Uploads |-> IF v \in R THEN "answered" ELSE pc[v]]
  BY DEF GoTo, TypeOK
<1>2. R \in SUBSET Uploads /\ \A v \in R : pc[v] # "answered"
  OBVIOUS
<1> HIDE DEF R
<1>3. QED
  BY <1>1, <1>2, EndsEarly

LEMMA DeletesRows ==
  ASSUME NEW R \in SUBSET Uploads, rows' = rows \ R, UNCHANGED <<replies, replayed, pc>>
  PROVE  Contract!Next
<1>1. Contract!Forget(R)
  BY DEF Contract!Forget, Stage
<1>2. QED
  BY <1>1 DEF Contract!Next

\* Every step of an upload, of a deletion or of the cleanup is one of the
\* contract, or none.
LEMMA NextKeepsContract ==
  StorageInv /\ [Next]_vars => [Contract!Next]_Contract!contractVars
<1> SUFFICES ASSUME StorageInv, [Next]_vars
             PROVE  Contract!Next \/ UNCHANGED Contract!contractVars
  OBVIOUS
<1> DEFINE Kept == Contract!Next \/ UNCHANGED Contract!contractVars
<1> USE DEF StorageInv
<1>1. ASSUME NEW u \in Uploads, Receive(u) PROVE Kept
  <2>1. UNCHANGED <<replies, replayed, rows>> /\ pc[u] = "idle"
    BY <1>1 DEF Receive
  <2>2. GoTo(u, "checkKey") \/ GoTo(u, "answered")
    BY <1>1 DEF Receive
  <2>3. QED
    BY <2>1, <2>2, GoesOn, Refused DEF StageAt
<1>2. ASSUME NEW u \in Uploads, CheckKey(u) PROVE Kept
  <2> DEFINE v == replies[Slot(u)]
  <2>1. UNCHANGED <<replies, rows>> /\ pc[u] = "checkKey"
    BY <1>2 DEF CheckKey
  <2>2. Stage[u] = "new"
    BY <2>1 DEF Stage, StageAt
  <2>3. CASE v \notin Uploads
    <3>1. GoTo(u, "checkContent") /\ UNCHANGED replayed
      BY <1>2, <2>3 DEF CheckKey
    <3>2. Stage' = [Stage EXCEPT ![u] = "working"]
      BY <3>1, StageMoves DEF StageAt
    <3>3. Contract!Work(u)
      BY <2>1, <2>2, <2>3, <3>1, <3>2 DEF Contract!Work
    <3>4. QED
      BY <3>3 DEF Contract!Next
  <2>4. CASE v \in Uploads /\ SameBody(u, v)
    <3>1. GoTo(u, "answered") /\ replayed' = [replayed EXCEPT ![u] = v]
      BY <1>2, <2>4 DEF CheckKey
    <3>2. Stage' = [Stage EXCEPT ![u] = "ended"]
      BY <3>1, StageMoves DEF StageAt
    <3>3. Contract!Replay(u)
      BY <2>1, <2>2, <2>4, <3>1, <3>2 DEF Contract!Replay, SameBody
    <3>4. QED
      BY <3>3 DEF Contract!Next
  <2>5. CASE v \in Uploads /\ ~SameBody(u, v)
    <3>1. GoTo(u, "answered") /\ UNCHANGED replayed
      BY <1>2, <2>5 DEF CheckKey
    <3>2. QED
      BY <2>1, <3>1, Refused
  <2>6. QED
    BY <2>3, <2>4, <2>5
<1>3. ASSUME NEW u \in Uploads, CheckContent(u) PROVE Kept
  <2>1. UNCHANGED <<replies, replayed, rows>> /\ pc[u] = "checkContent"
    BY <1>3 DEF CheckContent
  <2>2. GoTo(u, "reserve") \/ GoTo(u, "answered")
    BY <1>3 DEF CheckContent
  <2>3. QED
    BY <2>1, <2>2, GoesOn, Refused DEF StageAt
<1>4. ASSUME NEW u \in Uploads, Reserve(u) PROVE Kept
  <2>1. UNCHANGED <<replies, replayed, rows>> /\ pc[u] = "reserve"
    BY <1>4 DEF Reserve
  <2>2. GoTo(u, "makeDir") \/ GoTo(u, "answered")
    BY <1>4 DEF Reserve
  <2>3. QED
    BY <2>1, <2>2, GoesOn, Refused DEF StageAt
<1>5. ASSUME NEW u \in Uploads, MakeDir(u) PROVE Kept
  <2>1. UNCHANGED <<replies, replayed, rows>> /\ pc[u] = "makeDir" /\ GoTo(u, "move")
    BY <1>5 DEF MakeDir
  <2>2. QED
    BY <2>1, GoesOn DEF StageAt
<1>6. ASSUME NEW u \in Uploads, Move(u) PROVE Kept
  <2>1. UNCHANGED <<replies, replayed, rows>> /\ pc[u] = "move"
    BY <1>6 DEF Move
  <2>2. GoTo(u, "insert") \/ GoTo(u, "undoQuota")
    BY <1>6 DEF Move
  <2>3. QED
    BY <2>1, <2>2, GoesOn DEF StageAt
<1>7. ASSUME NEW u \in Uploads, Insert(u) PROVE Kept
  <2>1. UNCHANGED <<replies, replayed>> /\ pc[u] = "insert"
    BY <1>7 DEF Insert
  <2>2. CASE rows' = rows \union {u} /\ GoTo(u, "store")
    <3>1. Stage[u] = "working" /\ Stage' = [Stage EXCEPT ![u] = "working"]
      BY <2>1, <2>2, StageMoves DEF StageAt
    <3>2. Contract!Act(u)
      BY <2>1, <2>2, <3>1 DEF Contract!Act, Stage
    <3>3. QED
      BY <3>2 DEF Contract!Next
  <2>3. CASE UNCHANGED rows /\ GoTo(u, "undoFile")
    BY <2>1, <2>3, GoesOn DEF StageAt
  <2>4. QED
    BY <1>7, <2>2, <2>3 DEF Insert
<1>8. ASSUME NEW u \in Uploads, UndoFile(u) PROVE Kept
  <2>1. UNCHANGED <<replies, replayed, rows>> /\ pc[u] = "undoFile" /\ GoTo(u, "undoQuota")
    BY <1>8 DEF UndoFile
  <2>2. QED
    BY <2>1, GoesOn DEF StageAt
<1>9. ASSUME NEW u \in Uploads, UndoQuota(u) PROVE Kept
  <2>1. UNCHANGED <<replies, replayed, rows>> /\ pc[u] = "undoQuota" /\ GoTo(u, "answered")
    BY <1>9 DEF UndoQuota
  <2>2. QED
    BY <2>1, Refused
<1>10. ASSUME NEW u \in Uploads, Store(u) PROVE Kept
  <2>1. UNCHANGED <<replayed, rows>> /\ pc[u] = "store" /\ GoTo(u, "answered")
    BY <1>10 DEF Store
  <2>2. CASE UNCHANGED replies
    BY <2>1, <2>2, Refused
  <2>3. CASE replies' = [replies EXCEPT ![Slot(u)] = IF @ = NoUpload THEN u ELSE @]
    <3>1. Stage[u] = "working" /\ Stage' = [Stage EXCEPT ![u] = "ended"]
      BY <2>1, StageMoves DEF StageAt
    <3>2. Contract!Store(u)
      BY <2>1, <2>3, <3>1 DEF Contract!Store
    <3>3. QED
      BY <3>2 DEF Contract!Next
  <2>4. QED
    BY <1>10, <2>2, <2>3 DEF Store
<1>11. ASSUME NEW u \in Uploads, CheckFails(u) PROVE Kept
  <2>1. /\ UNCHANGED <<replies, replayed, rows>> /\ GoTo(u, "answered")
        /\ pc[u] \in {"checkKey", "checkContent", "reserve"}
    BY <1>11 DEF CheckFails
  <2>2. QED
    BY <2>1, Refused
<1>12. ASSUME NEW u \in Uploads, MakeDirFails(u) PROVE Kept
  <2>1. UNCHANGED <<replies, replayed, rows>> /\ pc[u] = "makeDir" /\ GoTo(u, "answered")
    BY <1>12 DEF MakeDirFails
  <2>2. QED
    BY <2>1, Refused
<1>13. ASSUME NEW u \in Uploads, InsertFails(u) PROVE Kept
  <2>1. UNCHANGED <<replies, replayed, rows>> /\ pc[u] = "insert" /\ GoTo(u, "undoFile")
    BY <1>13 DEF InsertFails
  <2>2. QED
    BY <2>1, GoesOn DEF StageAt
<1>14. ASSUME NEW u \in Uploads, UndoQuotaFails(u) PROVE Kept
  <2>1. UNCHANGED <<replies, replayed, rows>> /\ pc[u] = "undoQuota" /\ GoTo(u, "answered")
    BY <1>14 DEF UndoQuotaFails
  <2>2. QED
    BY <2>1, Refused
<1>15. ASSUME NEW u \in Uploads, Disconnect(u) PROVE Kept
  <2>1. UNCHANGED <<replies, replayed, rows>> /\ pc[u] \in InFlight
    BY <1>15 DEF Disconnect
  <2>2. GoTo(u, "answered")
    BY <1>15 DEF Disconnect, Abandon, GoTo, TypeOK
  <2>3. QED
    BY <2>1, <2>2, Refused DEF InFlight
<1>16. ASSUME NEW u \in Uploads, DeleteDocument(u) PROVE Kept
  <2> DEFINE R == {u}
  <2>1. rows' = rows \ R /\ UNCHANGED <<replies, replayed, pc>> /\ R \in SUBSET Uploads
    BY <1>16 DEF DeleteDocument
  <2> HIDE DEF R
  <2>2. QED
    BY <2>1, DeletesRows
<1>17. ASSUME NEW u \in Uploads, RemoveFile(u) PROVE Kept
  BY <1>17 DEF RemoveFile, Contract!contractVars, Stage
<1>18. ASSUME NEW u \in Uploads, SweepFile(u) PROVE Kept
  BY <1>18 DEF SweepFile, Contract!contractVars, Stage
<1>19. ASSUME NEW u \in Uploads, SweepTmp(u) PROVE Kept
  BY <1>19 DEF SweepTmp, Contract!contractVars, Stage
<1>20. ASSUME NEW p \in Personas, DeletePersona(p) PROVE Kept
  <2>1. rows' = rows \ OfPersona(p) /\ UNCHANGED <<replies, replayed, pc>>
    BY <1>20 DEF DeletePersona
  <2>2. OfPersona(p) \in SUBSET Uploads
    BY DEF OfPersona
  <2>3. QED
    BY <2>1, <2>2, DeletesRows
<1>21. ASSUME NEW p \in Personas, LoseRemoval(p) PROVE Kept
  BY <1>21 DEF LoseRemoval, Contract!contractVars, Stage
<1>22. ASSUME NEW p \in Personas, RemoveDir(p) PROVE Kept
  BY <1>22 DEF RemoveDir, Contract!contractVars, Stage
<1>23. ASSUME NEW p \in Personas, EraseDir(p) PROVE Kept
  BY <1>23 DEF EraseDir, Contract!contractVars, Stage
<1>24. ASSUME NEW s \in Slots, ExpireKey(s) PROVE Kept
  <2>1. Contract!Expire(s)
    BY <1>24 DEF ExpireKey, Contract!Expire, Stage
  <2>2. s \in Contract!Slots
    BY DEF Slots, Contract!Slots
  <2>3. QED
    BY <2>1, <2>2 DEF Contract!Next
<1>25. ASSUME NEW s \in Slots, PruneKey(s) PROVE Kept
  <2>1. Contract!Prune(s)
    BY <1>25 DEF PruneKey, Contract!Prune, Stage
  <2>2. s \in Contract!Slots
    BY DEF Slots, Contract!Slots
  <2>3. QED
    BY <2>1, <2>2 DEF Contract!Next
<1>26. CASE Crash
  <2> DEFINE R == {u \in Uploads : pc[u] \in InFlight}
  <2>1. /\ pc' = [u \in Uploads |-> IF u \in R THEN "answered" ELSE pc[u]]
        /\ UNCHANGED <<replies, replayed, rows>>
    BY <1>26 DEF Crash, Abandon
  <2>2. R \in SUBSET Uploads /\ \A u \in R : pc[u] # "answered"
    BY DEF InFlight
  <2> HIDE DEF R
  <2>3. QED
    BY <2>1, <2>2, EndsEarly
<1>27. CASE UNCHANGED vars
  BY <1>27 DEF vars, Contract!contractVars, Stage
<1>28. QED
  BY <1>1, <1>2, <1>3, <1>4, <1>5, <1>6, <1>7, <1>8, <1>9, <1>10, <1>11, <1>12, <1>13,
     <1>14, <1>15, <1>16, <1>17, <1>18, <1>19, <1>20, <1>21, <1>22, <1>24, <1>25, <1>26,
     <1>27, <1>23 DEF Next, Proceed, StepFails

\* upload_document keeps the contract of services/idempotency.rs, through every
\* failure, disconnection and crash, for any uploads and keys: an upload answered
\* from the store adds no document, the response is that of the upload whose
\* answer was the first to be kept, and its body is the same.
THEOREM UploadsKeepTheContract == Spec => KeepsContract
<1>1. Init => Contract!Init
  BY DEF Init, Slots, Contract!Init, Contract!Slots, Stage, StageAt
<1>2. QED
  BY <1>1, NextKeepsContract, StorageInvHolds, PTL DEF Spec, KeepsContract, Contract!Spec
=============================================================================
