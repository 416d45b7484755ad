--------------------------- MODULE PersonasProofs ---------------------------
(***************************************************************************)
(* Theorems about a user's personas, for every set of personas and         *)
(* requests and every quota; and about the style profiles of a persona,    *)
(* for every set of documents, eras, requests and readers.  The two        *)
(* modules share no name, and no theorem relates them.                     *)
(***************************************************************************)
EXTENDS Personas, Profiles, FiniteSetTheorems, TLAPS

(***************************************************************************)
(* What makes the counter and the locks inductive: a create inserts its    *)
(* row once, there is room for it while it holds the user's row, and a     *)
(* persona stays where it is while a delete holds it.                      *)
(***************************************************************************)
InsertedOnce == \A c \in Creates : c \in rows => pc[c] \in {"store", "ended"}

RoomIsReserved == userLock # NoOne => count < Quota

HeldRowsAreThere == \A p \in Personas : ~Free(p) => p \in rows

\* The locks are those of transactions still open.
LocksAreOfOpenTransactions ==
  /\ userLock # NoOne => pc[userLock] = "insert"
  /\ \A p \in Personas : ~Free(p) => pc[deleting[p]] = "count" /\ PersonaOf[deleting[p]] = p
  /\ \A c \in Creates : pc[c] = "insert" => userLock = c
  /\ \A d \in Deletes : pc[d] = "count" => deleting[PersonaOf[d]] = d

CountInv ==
  /\ TypeOK
  /\ LocksAreOfOpenTransactions
  /\ CountMatchesRows
  /\ InsertedOnce /\ RoomIsReserved /\ HeldRowsAreThere

LEMMA InitCountInv == Init => CountInv
<1> SUFFICES ASSUME Init PROVE CountInv
  OBVIOUS
<1>1. Cardinality(Existing) \in 0 .. Quota /\ Existing \subseteq Personas
  BY QuotaAssumption DEF Personas
<1>2. \A x \in Personas : NameOf[x] \in Names
  BY DEF Names, Named
<1>3. TypeOK
  BY <1>1, <1>2, QuotaAssumption, BudgetAssumption DEF Init, TypeOK
<1>4. LocksAreOfOpenTransactions /\ RoomIsReserved /\ HeldRowsAreThere
  BY DEF Init, LocksAreOfOpenTransactions, RoomIsReserved, HeldRowsAreThere, Free,
         Requests, OnPersona
<1>5. CountMatchesRows /\ InsertedOnce
  BY <1>1, RequestsAssumption DEF Init, CountMatchesRows, InsertedOnce
<1>6. QED
  BY <1>3, <1>4, <1>5 DEF CountInv

\* A step that moves one request along between labels that stand for no lock and
\* leaves the tables, the locks and the budget alone.
LEMMA MovesKeepCountInv ==
  ASSUME CountInv, NEW r \in Requests, NEW l,
         l \in {"idle", "lockUser", "update", "lock", "spawn", "write", "setPath",
                "orphan", "clear", "ended"},
         pc[r] \notin {"insert", "count", "store", "ended"}, GoTo(r, l),
         UNCHANGED <<rows, count, replies, lockVars, spent>>,
         name' \in [Personas -> Names],
         path' \in SUBSET Personas, removals' \in SUBSET Personas,
         file' \in [Personas -> AvatarUploads \union {NoFile}],
         lost' \in SUBSET Personas, cut' \in SUBSET Personas
  PROVE  CountInv'
<1> USE DEF CountInv, lockVars
<1>1. TypeOK'
  BY DEF GoTo, TypeOK
<1>2. LocksAreOfOpenTransactions'
  BY DEF GoTo, TypeOK, LocksAreOfOpenTransactions, Free, Requests, OnPersona
<1>3. CountMatchesRows' /\ RoomIsReserved' /\ HeldRowsAreThere'
  BY DEF CountMatchesRows, RoomIsReserved, HeldRowsAreThere, Free
<1>4. InsertedOnce'
  BY DEF GoTo, TypeOK, InsertedOnce, Requests
<1>5. QED
  BY <1>1, <1>2, <1>3, <1>4

\* create_persona.
LEMMA CreateKeepsCountInv ==
  ASSUME CountInv, NEW c \in Creates
  PROVE  /\ CheckKey(c) => CountInv'
         /\ LockUser(c) => CountInv'
         /\ InsertPersona(c) => CountInv'
         /\ StoreReply(c) => CountInv'
<1> USE DEF CountInv
<1>0. c \in Requests /\ c \in Personas /\ c # NoOne
  BY BudgetAssumption DEF Requests, Personas
<1>1. ASSUME CheckKey(c) PROVE CountInv'
  <2>1. GoTo(c, "ended") \/ GoTo(c, "lockUser")
    BY <1>1 DEF CheckKey
  <2>2. QED
    BY <1>0, <1>1, <2>1, MovesKeepCountInv DEF CheckKey, TypeOK, tableVars, diskVars
<1>2. ASSUME LockUser(c) PROVE CountInv'
  <2>1. CASE count >= Quota
    BY <1>0, <1>2, <2>1, MovesKeepCountInv DEF LockUser, TypeOK, tableVars, diskVars, lockVars
  <2>2. CASE ~ count >= Quota
    <3>1. /\ pc[c] = "lockUser" /\ userLock = NoOne
          /\ pc' = [pc EXCEPT ![c] = "insert"] /\ userLock' = c
          /\ UNCHANGED <<tableVars, deleting, diskVars, spent>>
      BY <1>2, <2>2 DEF LockUser, GoTo
    <3>2. TypeOK'
      BY <1>0, <3>1 DEF TypeOK, tableVars, diskVars
    <3>3. LocksAreOfOpenTransactions'
      BY <1>0, <3>1, BudgetAssumption DEF TypeOK, LocksAreOfOpenTransactions, Free, Requests, OnPersona
    <3>4. CountMatchesRows' /\ InsertedOnce' /\ HeldRowsAreThere'
      BY <1>0, <3>1 DEF TypeOK, CountMatchesRows, InsertedOnce, HeldRowsAreThere, Free,
                        tableVars, Requests
    <3>5. RoomIsReserved'
      BY <2>2, <3>1, QuotaAssumption DEF RoomIsReserved, TypeOK, tableVars
    <3>6. QED
      BY <3>2, <3>3, <3>4, <3>5
  <2>3. QED
    BY <2>1, <2>2
<1>3. ASSUME InsertPersona(c) PROVE CountInv'
  <2>1. pc[c] = "insert" /\ userLock = c /\ userLock' = NoOne
    BY <1>3 DEF InsertPersona, LocksAreOfOpenTransactions
  <2>2. UNCHANGED <<name, replies, deleting, diskVars, spent>>
    BY <1>3 DEF InsertPersona
  <2>3. pc' = [pc EXCEPT ![c] = "ended"] \/ pc' = [pc EXCEPT ![c] = "store"]
    BY <1>3 DEF InsertPersona, GoTo
  <2>4. LocksAreOfOpenTransactions'
    BY <1>0, <2>1, <2>2, <2>3 DEF TypeOK, LocksAreOfOpenTransactions, Free, Requests, OnPersona
  <2>5. RoomIsReserved'
    BY <2>1 DEF RoomIsReserved
  <2>6. CASE Taken(NameOf[c])
    <3>1. UNCHANGED <<rows, count>>
      BY <1>3, <2>6 DEF InsertPersona
    <3>2. TypeOK' /\ CountMatchesRows' /\ HeldRowsAreThere'
      BY <1>0, <2>1, <2>2, <2>3, <3>1
         DEF TypeOK, CountMatchesRows, HeldRowsAreThere, Free, diskVars
    <3>3. InsertedOnce'
      BY <1>0, <2>1, <2>3, <3>1 DEF TypeOK, InsertedOnce, Requests
    <3>4. QED
      BY <2>4, <2>5, <3>2, <3>3
  <2>7. CASE ~Taken(NameOf[c])
    <3>1. rows' = rows \union {c} /\ count' = count + 1 /\ pc' = [pc EXCEPT ![c] = "store"]
      BY <1>3, <2>7 DEF InsertPersona, GoTo
    <3>2. count < Quota
      BY <1>0, <2>1 DEF RoomIsReserved
    <3>3. c \notin rows
      BY <2>1 DEF InsertedOnce
    <3>4. IsFiniteSet(rows)
      BY RequestsAssumption, FS_Subset DEF TypeOK
    <3>5. Cardinality(rows') = Cardinality(rows) + 1
      BY <3>1, <3>3, <3>4, FS_AddElement
    <3>6. TypeOK'
      BY <1>0, <2>1, <2>2, <3>1, <3>2, QuotaAssumption DEF TypeOK, diskVars
    <3>7. CountMatchesRows'
      BY <3>1, <3>2, <3>5, QuotaAssumption DEF CountMatchesRows, TypeOK
    <3>8. InsertedOnce' /\ HeldRowsAreThere'
      BY <1>0, <2>2, <3>1 DEF TypeOK, InsertedOnce, HeldRowsAreThere, Free, Requests
    <3>9. QED
      BY <2>4, <2>5, <3>6, <3>7, <3>8
  <2>8. QED
    BY <2>6, <2>7
<1>4. ASSUME StoreReply(c) PROVE CountInv'
  <2>1. /\ pc[c] = "store" /\ pc' = [pc EXCEPT ![c] = "ended"]
        /\ replies' = replies \union {c}
        /\ UNCHANGED <<rows, name, count, lockVars, diskVars, spent>>
    BY <1>4 DEF StoreReply, GoTo
  <2>2. TypeOK'
    BY <1>0, <2>1 DEF TypeOK, lockVars, diskVars
  <2>3. LocksAreOfOpenTransactions'
    BY <1>0, <2>1 DEF TypeOK, LocksAreOfOpenTransactions, Free, lockVars, Requests, OnPersona
  <2>4. CountMatchesRows' /\ InsertedOnce' /\ RoomIsReserved' /\ HeldRowsAreThere'
    BY <1>0, <2>1 DEF TypeOK, CountMatchesRows, InsertedOnce, RoomIsReserved,
                      HeldRowsAreThere, Free, lockVars, Requests
  <2>5. QED
    BY <2>2, <2>3, <2>4
<1>5. QED
  BY <1>1, <1>2, <1>3, <1>4

\* patch_persona: one statement, one row's name.
LEMMA RenameKeepsCountInv ==
  ASSUME CountInv, NEW r \in Renames, Rename(r)
  PROVE  CountInv'
<1>1. r \in Requests /\ PersonaOf[r] \in Personas /\ NameOf[r] \in Names
  BY RequestsAssumption DEF Requests, OnPersona, Names, Named
<1>2. name' \in [Personas -> Names]
  BY <1>1 DEF Rename, CountInv, TypeOK
<1>3. QED
  BY <1>1, <1>2, MovesKeepCountInv DEF Rename, CountInv, TypeOK, diskVars

\* delete_persona: the lock is the row's, the counter waits for the user's.
LEMMA DeleteKeepsCountInv ==
  ASSUME CountInv, NEW d \in Deletes
  PROVE  /\ LockPersona(d) => CountInv'
         /\ CommitDelete(d) => CountInv'
         /\ SpawnRemoval(d) => CountInv'
<1> USE DEF CountInv
<1> DEFINE p == PersonaOf[d]
<1>0. d \in Requests /\ p \in Personas /\ d # NoOne
  BY RequestsAssumption, BudgetAssumption DEF Requests, OnPersona
<1>1. ASSUME LockPersona(d) PROVE CountInv'
  <2>1. CASE p \notin rows
    BY <1>0, <1>1, <2>1, MovesKeepCountInv DEF LockPersona, TypeOK, tableVars, diskVars, lockVars
  <2>2. CASE p \in rows
    <3>1. /\ pc[d] = "idle" /\ Free(p) /\ pc' = [pc EXCEPT ![d] = "count"]
          /\ deleting' = [deleting EXCEPT ![p] = d]
          /\ UNCHANGED <<tableVars, userLock, diskVars, spent>>
      BY <1>1, <2>2 DEF LockPersona, GoTo
    <3>2. TypeOK'
      BY <1>0, <3>1 DEF TypeOK, tableVars, diskVars
    <3>3. LocksAreOfOpenTransactions'
      BY <1>0, <3>1, RequestsAssumption, BudgetAssumption
         DEF TypeOK, LocksAreOfOpenTransactions, Free, Requests, OnPersona
    <3>4. CountMatchesRows' /\ InsertedOnce' /\ RoomIsReserved' /\ HeldRowsAreThere'
      BY <1>0, <2>2, <3>1 DEF TypeOK, CountMatchesRows, InsertedOnce, RoomIsReserved,
         HeldRowsAreThere, Free, tableVars, Requests
    <3>5. QED
      BY <3>2, <3>3, <3>4
  <2>3. QED
    BY <2>1, <2>2
<1>2. ASSUME CommitDelete(d) PROVE CountInv'
  <2>1. /\ pc[d] = "count" /\ userLock = NoOne
        /\ rows' = rows \ {p} /\ count' = IF count > 0 THEN count - 1 ELSE 0
        /\ deleting' = [deleting EXCEPT ![p] = NoOne]
        /\ path' \in SUBSET Personas
        /\ UNCHANGED <<name, replies, userLock, file, removals, lost, cut, spent>>
    BY <1>0, <1>2 DEF CommitDelete, TypeOK
  <2>0. PICK l \in {"spawn", "ended"} : pc' = [pc EXCEPT ![d] = l]
    BY <1>2 DEF CommitDelete, GoTo
  <2>2. deleting[p] = d /\ p \in rows
    BY <1>0, <2>1 DEF LocksAreOfOpenTransactions, HeldRowsAreThere, Free
  <2>3. IsFiniteSet(rows)
    BY RequestsAssumption, FS_Subset DEF TypeOK
  <2>4. /\ Cardinality(rows \ {p}) = Cardinality(rows) - 1
        /\ Cardinality(rows) \in Nat /\ Cardinality(rows \ {p}) \in Nat
    BY <2>2, <2>3, FS_RemoveElement, FS_CardinalityType
  <2>5. CountMatchesRows'
    BY <2>1, <2>4, QuotaAssumption DEF CountMatchesRows, TypeOK
  <2>6. TypeOK'
    BY <1>0, <2>0, <2>1, QuotaAssumption DEF TypeOK
  <2>7. LocksAreOfOpenTransactions'
    BY <1>0, <2>0, <2>1, <2>2, RequestsAssumption, BudgetAssumption
       DEF TypeOK, LocksAreOfOpenTransactions, Free, Requests, OnPersona
  <2>8. InsertedOnce' /\ RoomIsReserved' /\ HeldRowsAreThere'
    BY <1>0, <2>0, <2>1, BudgetAssumption DEF TypeOK, InsertedOnce, RoomIsReserved, HeldRowsAreThere,
       Free, Requests
  <2>9. QED
    BY <2>5, <2>6, <2>7, <2>8
<1>3. ASSUME SpawnRemoval(d) PROVE CountInv'
  BY <1>0, <1>3, MovesKeepCountInv DEF SpawnRemoval, TypeOK, tableVars
<1>4. QED
  BY <1>1, <1>2, <1>3

\* The avatar's handlers hold no lock and count nothing.
LEMMA AvatarKeepsCountInv ==
  ASSUME CountInv
  PROVE  /\ \A a \in AvatarUploads :
              FindPersona(a) \/ WriteFile(a) \/ SetPath(a) \/ RemoveOrphan(a) => CountInv'
         /\ \A x \in AvatarDeletes : FindPath(x) \/ ClearPath(x) => CountInv'
         /\ \A p \in Personas : RemoveAvatar(p) \/ EraseAvatar(p) => CountInv'
<1> USE DEF CountInv
<1>1. ASSUME NEW a \in AvatarUploads,
             FindPersona(a) \/ WriteFile(a) \/ SetPath(a) \/ RemoveOrphan(a)
      PROVE  CountInv'
  <2>1. a \in Requests /\ PersonaOf[a] \in Personas
    BY RequestsAssumption DEF Requests, OnPersona
  <2>2. CASE FindPersona(a)
    BY <2>1, <2>2, MovesKeepCountInv DEF FindPersona, TypeOK, tableVars, diskVars
  <2>3. CASE WriteFile(a)
    BY <2>1, <2>3, MovesKeepCountInv DEF WriteFile, TypeOK, tableVars
  <2>4. CASE SetPath(a)
    BY <2>1, <2>4, MovesKeepCountInv DEF SetPath, TypeOK, tableVars
  <2>5. CASE RemoveOrphan(a)
    BY <2>1, <2>5, MovesKeepCountInv DEF RemoveOrphan, TypeOK, tableVars
  <2>6. QED
    BY <1>1, <2>2, <2>3, <2>4, <2>5
<1>2. ASSUME NEW x \in AvatarDeletes, FindPath(x) \/ ClearPath(x) PROVE CountInv'
  <2>1. x \in Requests /\ PersonaOf[x] \in Personas
    BY RequestsAssumption DEF Requests, OnPersona
  <2>2. CASE FindPath(x)
    BY <2>1, <2>2, MovesKeepCountInv DEF FindPath, TypeOK, tableVars, diskVars
  <2>3. CASE ClearPath(x)
    BY <2>1, <2>3, MovesKeepCountInv DEF ClearPath, TypeOK, tableVars
  <2>4. QED
    BY <1>2, <2>2, <2>3
<1>3. ASSUME NEW p \in Personas, RemoveAvatar(p) \/ EraseAvatar(p) PROVE CountInv'
  <2>1. /\ UNCHANGED <<tableVars, lockVars, path, cut, pc, spent>>
        /\ removals' \in SUBSET Personas /\ lost' \in SUBSET Personas
        /\ file' \in [Personas -> AvatarUploads \union {NoFile}]
    BY <1>3 DEF RemoveAvatar, EraseAvatar, TypeOK
  <2>2. QED
    BY <2>1 DEF TypeOK, LocksAreOfOpenTransactions, CountMatchesRows, InsertedOnce, RoomIsReserved,
                HeldRowsAreThere, Free, tableVars, lockVars
<1>4. QED
  BY <1>1, <1>2, <1>3

\* Handlers that end early give their locks back and have counted nothing.
LEMMA EndingEarlyKeepsCountInv ==
  ASSUME CountInv, NEW R \in SUBSET Requests,
         \A r \in R : pc[r] # "idle",
         Abandon(R), UNCHANGED tableVars, spent' \in 0 .. Budget,
         path' \in SUBSET Personas, removals' \in SUBSET Personas,
         file' \in [Personas -> AvatarUploads \union {NoFile}],
         lost' \in SUBSET Personas, cut' \in SUBSET Personas
  PROVE  CountInv'
<1> USE DEF CountInv
<1>1. TypeOK'
  BY DEF TypeOK, Abandon, tableVars
<1>2. LocksAreOfOpenTransactions'
  BY RequestsAssumption, BudgetAssumption
     DEF TypeOK, LocksAreOfOpenTransactions, Abandon, Free, Requests, OnPersona
<1>3. CountMatchesRows' /\ RoomIsReserved' /\ HeldRowsAreThere'
  BY DEF TypeOK, CountMatchesRows, RoomIsReserved, HeldRowsAreThere, Abandon, Free, tableVars
<1>4. InsertedOnce'
  BY DEF TypeOK, InsertedOnce, Abandon, tableVars, Requests
<1>5. QED
  BY <1>1, <1>2, <1>3, <1>4

LEMMA FailureKeepsCountInv ==
  ASSUME CountInv
  PROVE  /\ \A r \in Requests : AbortDeadlocked(r) \/ HandlerDies(r) => CountInv'
         /\ Crash => CountInv'
<1> USE DEF CountInv
<1>0. \A a \in OnPersona : PersonaOf[a] \in Personas
  BY RequestsAssumption
<1>1. ASSUME NEW r \in Requests, AbortDeadlocked(r) PROVE CountInv'
  <2>1. pc[r] # "idle"
    BY <1>1 DEF AbortDeadlocked, Deadlocked
  <2>2. QED
    BY <1>1, <2>1, EndingEarlyKeepsCountInv DEF AbortDeadlocked, TypeOK, diskVars
<1>2. ASSUME NEW r \in Requests, HandlerDies(r) PROVE CountInv'
  <2>1. pc[r] # "idle"
    BY <1>2 DEF HandlerDies, InFlight, At
  <2>2. cut' \in SUBSET Personas
    BY <1>0, <1>2 DEF HandlerDies, CutAvatars, OnAvatar, TypeOK
  <2>3. spent' \in 0 .. Budget
    BY <1>2, BudgetAssumption DEF HandlerDies, TypeOK
  <2>4. QED
    BY <1>2, <2>1, <2>2, <2>3, EndingEarlyKeepsCountInv DEF HandlerDies, TypeOK
<1>3. ASSUME Crash PROVE CountInv'
  <2>1. cut' \in SUBSET Personas
    BY <1>0, <1>3 DEF Crash, OnAvatar, TypeOK
  <2>2. spent' \in 0 .. Budget
    BY <1>3, BudgetAssumption DEF Crash, TypeOK
  <2>3. /\ userLock \in InFlight \/ userLock = NoOne
        /\ \A p \in Personas : deleting[p] \in InFlight \/ deleting[p] = NoOne
    BY DEF TypeOK, LocksAreOfOpenTransactions, Free, InFlight, At, Requests, OnPersona
  <2>4. Abandon(InFlight)
    BY <1>3, <2>3, BudgetAssumption DEF Crash, Abandon, InFlight, TypeOK
  <2>5. \A r \in InFlight : pc[r] # "idle"
    BY DEF InFlight, At
  <2>6. removals' \in SUBSET Personas /\ UNCHANGED <<tableVars, path, file, lost>>
    BY <1>3 DEF Crash
  <2>7. InFlight \in SUBSET Requests
    BY DEF InFlight
  <2>8. QED
    BY <2>1, <2>2, <2>4, <2>5, <2>6, <2>7, EndingEarlyKeepsCountInv DEF TypeOK
<1>4. QED
  BY <1>1, <1>2, <1>3

LEMMA NextCountInv == CountInv /\ [Next]_vars => CountInv'
<1> SUFFICES ASSUME CountInv, [Next]_vars PROVE CountInv'
  OBVIOUS
<1>1. ASSUME NEW r \in Requests, Arrive(r) PROVE CountInv'
  BY <1>1, CreateKeepsCountInv, RenameKeepsCountInv, DeleteKeepsCountInv, AvatarKeepsCountInv
     DEF Arrive
<1>2. ASSUME NEW r \in Requests, Proceed(r) PROVE CountInv'
  BY <1>2, CreateKeepsCountInv, DeleteKeepsCountInv, AvatarKeepsCountInv DEF Proceed
<1>3. ASSUME NEW r \in Requests, AbortDeadlocked(r) \/ HandlerDies(r) PROVE CountInv'
  BY <1>3, FailureKeepsCountInv
<1>4. ASSUME NEW p \in Personas, RemoveAvatar(p) \/ EraseAvatar(p) PROVE CountInv'
  BY <1>4, AvatarKeepsCountInv
<1>5. CASE Crash
  BY <1>5, FailureKeepsCountInv
<1>6. CASE UNCHANGED vars
  BY <1>6 DEF vars, CountInv, TypeOK, LocksAreOfOpenTransactions, CountMatchesRows, InsertedOnce,
     RoomIsReserved, HeldRowsAreThere, Free, tableVars, lockVars, diskVars
<1>7. QED
  BY <1>1, <1>2, <1>3, <1>4, <1>5, <1>6 DEF Next

LEMMA CountInvHolds == Spec => []CountInv
BY InitCountInv, NextCountInv, PTL DEF Spec

\* users.current_persona_count is the number of the user's rows and within the
\* quota, whatever number of creates and deletes overlap, abort each other, lose
\* their handlers or their process.
THEOREM CounterIsExact == Spec => []CountMatchesRows
BY CountInvHolds, PTL DEF CountInv

-----------------------------------------------------------------------------
(***************************************************************************)
(* The avatar.  Its path is set only on a row; a row that is gone does not *)
(* come back, so an upload that missed it may remove the file; and a file  *)
(* always has somebody who accounts for it.                                *)
(***************************************************************************)
PathsAreOfRows == path \subseteq rows

UploadsKnewTheirRow ==
  \A a \in AvatarUploads :
    /\ pc[a] \in {"write", "setPath", "orphan"} =>
         (PersonaOf[a] \in Creates => pc[PersonaOf[a]] \in {"store", "ended"})
    /\ pc[a] = "orphan" => PersonaOf[a] \notin rows

\* The upload has written its file and not yet recorded it.
Recording(a, p) == PersonaOf[a] = p /\ pc[a] = "setPath"

FilesAreThere ==
  \A p \in rows :
    p \in path \/ (\E a \in AvatarUploads : Recording(a, p)) => file[p] # NoFile \/ p \in lost

FilesAreAccountedFor ==
  \A p \in Personas :
    file[p] # NoFile => p \in path \union removals \union cut
                        \/ \E r \in OnAvatar : PersonaOf[r] = p

AvatarInv ==
  PathsAreOfRows /\ UploadsKnewTheirRow /\ FilesAreThere /\ FilesAreAccountedFor

LEMMA InitAvatarInv == Init => AvatarInv
BY DEF Init, AvatarInv, PathsAreOfRows, UploadsKnewTheirRow, FilesAreThere, Recording,
       FilesAreAccountedFor, OnAvatar, Requests, OnPersona

\* A step that moves one request, not an upload's, along or to its end, and
\* leaves the rows and the avatars as they are.
LEMMA MovesKeepAvatarInv ==
  ASSUME CountInv, AvatarInv, NEW r \in Requests, NEW l,
         pc[r] \notin {"spawn", "write", "setPath", "orphan", "store", "ended"},
         l \notin {"spawn", "write", "setPath", "orphan"}, GoTo(r, l),
         UNCHANGED <<rows, diskVars>>
  PROVE  AvatarInv'
<1> USE DEF AvatarInv, GoTo, diskVars
<1>0. TypeOK
  BY DEF CountInv
<1>1. PathsAreOfRows'
  BY DEF PathsAreOfRows
<1>2. UploadsKnewTheirRow'
  BY <1>0 DEF UploadsKnewTheirRow, TypeOK, Requests, OnPersona
<1>3. FilesAreThere'
  BY <1>0 DEF FilesAreThere, Recording, TypeOK, Requests, OnPersona
<1>4. FilesAreAccountedFor'
  BY <1>0 DEF FilesAreAccountedFor, OnAvatar, TypeOK, Requests, OnPersona
<1>5. QED
  BY <1>1, <1>2, <1>3, <1>4

\* A row that is inserted is new: no path, no file is being recorded for it.
LEMMA InsertKeepsAvatarInv ==
  ASSUME CountInv, AvatarInv, NEW c \in Creates, InsertPersona(c)
  PROVE  AvatarInv'
<1> USE DEF AvatarInv
<1>0. TypeOK /\ c \in Requests /\ c \in Personas
  BY DEF CountInv, Requests, Personas
<1>1. /\ pc[c] = "insert" /\ UNCHANGED diskVars
      /\ rows \subseteq rows' /\ rows' \subseteq rows \union {c}
      /\ pc' = [pc EXCEPT ![c] = "ended"] \/ pc' = [pc EXCEPT ![c] = "store"]
  BY DEF InsertPersona, GoTo
<1>2. c \notin path /\ \A a \in AvatarUploads :
        PersonaOf[a] = c => pc[a] \notin {"write", "setPath", "orphan"}
  BY <1>1 DEF UploadsKnewTheirRow, PathsAreOfRows, CountInv, InsertedOnce
<1>3. PathsAreOfRows'
  BY <1>1 DEF PathsAreOfRows, diskVars
<1>4. UploadsKnewTheirRow'
  BY <1>0, <1>1, <1>2 DEF UploadsKnewTheirRow, TypeOK, Requests, OnPersona
<1>5. FilesAreThere'
  BY <1>0, <1>1, <1>2 DEF FilesAreThere, Recording, TypeOK, diskVars, Requests, OnPersona
<1>6. FilesAreAccountedFor'
  BY <1>0, <1>1, <1>2 DEF FilesAreAccountedFor, OnAvatar, TypeOK, diskVars, Requests, OnPersona
<1>7. QED
  BY <1>3, <1>4, <1>5, <1>6

LEMMA DeleteKeepsAvatarInv ==
  ASSUME CountInv, AvatarInv, NEW d \in Deletes, CommitDelete(d) \/ SpawnRemoval(d)
  PROVE  AvatarInv'
<1> USE DEF AvatarInv
<1> DEFINE p == PersonaOf[d]
<1>0. TypeOK /\ d \in Requests /\ p \in Personas
  BY RequestsAssumption DEF CountInv, Requests, OnPersona
<1>1. CASE CommitDelete(d)
  <2>1. /\ pc[d] = "count" /\ pc' = [pc EXCEPT ![d] = IF p \in path THEN "spawn" ELSE "ended"]
        /\ rows' = rows \ {p} /\ path' = path \ {p}
        /\ UNCHANGED <<file, removals, lost, cut>>
    BY <1>1 DEF CommitDelete, GoTo
  <2>2. PathsAreOfRows'
    BY <2>1 DEF PathsAreOfRows
  <2>3. UploadsKnewTheirRow'
    BY <1>0, <2>1 DEF UploadsKnewTheirRow, TypeOK, Requests, OnPersona
  <2>4. FilesAreThere'
    BY <1>0, <2>1 DEF FilesAreThere, Recording, TypeOK, Requests, OnPersona
  <2>5. FilesAreAccountedFor'
    <3>1. /\ OnAvatar \subseteq OnAvatar'
          /\ p \in path => d \in OnAvatar'
      BY <1>0, <2>1 DEF OnAvatar, TypeOK, Requests, OnPersona
    <3>2. QED
      BY <1>0, <2>1, <3>1 DEF FilesAreAccountedFor
  <2>6. QED
    BY <2>2, <2>3, <2>4, <2>5
<1>2. CASE SpawnRemoval(d)
  <2>1. /\ pc[d] = "spawn" /\ pc' = [pc EXCEPT ![d] = "ended"]
        /\ removals' = removals \union {p} /\ UNCHANGED <<rows, path, file, lost, cut>>
    BY <1>2 DEF SpawnRemoval, GoTo, tableVars
  <2>2. PathsAreOfRows' /\ UploadsKnewTheirRow'
    BY <1>0, <2>1 DEF PathsAreOfRows, UploadsKnewTheirRow, TypeOK, Requests, OnPersona
  <2>3. FilesAreThere'
    BY <1>0, <2>1 DEF FilesAreThere, Recording, TypeOK, Requests, OnPersona
  <2>4. FilesAreAccountedFor'
    <3>1. OnAvatar \subseteq OnAvatar' \union {d}
      BY <1>0, <2>1 DEF OnAvatar, TypeOK, Requests, OnPersona
    <3>2. QED
      BY <1>0, <2>1, <3>1 DEF FilesAreAccountedFor
  <2>5. QED
    BY <2>2, <2>3, <2>4
<1>3. QED
  BY <1>1, <1>2

\* upload_avatar.
LEMMA UploadKeepsAvatarInv ==
  ASSUME CountInv, AvatarInv, NEW a \in AvatarUploads
  PROVE  /\ FindPersona(a) => AvatarInv'
         /\ WriteFile(a) => AvatarInv'
         /\ SetPath(a) => AvatarInv'
         /\ RemoveOrphan(a) => AvatarInv'
<1> USE DEF AvatarInv
<1> DEFINE p == PersonaOf[a]
<1>0. TypeOK /\ a \in Requests /\ p \in Personas /\ a # NoFile
  BY RequestsAssumption, BudgetAssumption DEF CountInv, Requests, OnPersona
<1>1. ASSUME FindPersona(a) PROVE AvatarInv'
  <2>1. CASE p \notin rows
    BY <1>0, <1>1, <2>1, MovesKeepAvatarInv DEF FindPersona, tableVars
  <2>2. CASE p \in rows
    <3>1. /\ pc[a] = "idle" /\ pc' = [pc EXCEPT ![a] = "write"]
          /\ UNCHANGED <<rows, path, file, removals, lost, cut>>
      BY <1>1, <2>2 DEF FindPersona, GoTo, tableVars, diskVars
    <3>2. PathsAreOfRows'
      BY <3>1 DEF PathsAreOfRows
    <3>3. UploadsKnewTheirRow'
      BY <1>0, <2>2, <3>1 DEF UploadsKnewTheirRow, TypeOK, Requests, OnPersona, CountInv, InsertedOnce
    <3>4. FilesAreThere' /\ FilesAreAccountedFor'
      BY <1>0, <3>1 DEF FilesAreThere, Recording, FilesAreAccountedFor, OnAvatar, OnAvatar, TypeOK, Requests, OnPersona
    <3>5. QED
      BY <3>2, <3>3, <3>4
  <2>3. QED
    BY <2>1, <2>2
<1>2. ASSUME WriteFile(a) PROVE AvatarInv'
  <2>1. /\ pc[a] = "write" /\ pc' = [pc EXCEPT ![a] = "setPath"]
        /\ file' = [file EXCEPT ![p] = a] /\ lost' = lost \ {p}
        /\ UNCHANGED <<rows, path, removals, cut>>
    BY <1>2 DEF WriteFile, GoTo, tableVars
  <2>2. PathsAreOfRows'
    BY <2>1 DEF PathsAreOfRows
  <2>3. UploadsKnewTheirRow'
    BY <1>0, <2>1 DEF UploadsKnewTheirRow, TypeOK, Requests, OnPersona
  <2>4. FilesAreThere'
    BY <1>0, <2>1 DEF FilesAreThere, Recording, TypeOK, Requests, OnPersona
  <2>5. FilesAreAccountedFor'
    <3>1. OnAvatar \subseteq OnAvatar' \union {a} /\ (p \in path' \/ a \in OnAvatar')
      BY <1>0, <2>1, RequestsAssumption DEF OnAvatar, TypeOK, Requests, OnPersona
    <3>2. path \subseteq path'
      BY <2>1
    <3>3. QED
      BY <1>0, <2>1, <3>1, <3>2 DEF FilesAreAccountedFor
  <2>6. QED
    BY <2>2, <2>3, <2>4, <2>5
<1>3. ASSUME SetPath(a) PROVE AvatarInv'
  <2>1. /\ pc[a] = "setPath" /\ UNCHANGED <<rows, file, removals, lost, cut>>
        /\ \/ p \in rows /\ path' = path \union {p} /\ pc' = [pc EXCEPT ![a] = "ended"]
           \/ p \notin rows /\ path' = path /\ pc' = [pc EXCEPT ![a] = "orphan"]
    BY <1>3 DEF SetPath, GoTo, tableVars
  <2>2. PathsAreOfRows'
    BY <2>1 DEF PathsAreOfRows
  <2>3. UploadsKnewTheirRow'
    BY <1>0, <2>1 DEF UploadsKnewTheirRow, TypeOK, Requests, OnPersona
  <2>4. FilesAreThere'
    BY <1>0, <2>1 DEF FilesAreThere, Recording, TypeOK, Requests, OnPersona
  <2>5. FilesAreAccountedFor'
    BY <1>0, <2>1 DEF FilesAreAccountedFor, OnAvatar, TypeOK, Requests, OnPersona
  <2>6. QED
    BY <2>2, <2>3, <2>4, <2>5
<1>4. ASSUME RemoveOrphan(a) PROVE AvatarInv'
  <2>1. /\ pc[a] = "orphan" /\ pc' = [pc EXCEPT ![a] = "ended"]
        /\ file' = [file EXCEPT ![p] = NoFile]
        /\ UNCHANGED <<rows, path, removals, lost, cut>>
    BY <1>4 DEF RemoveOrphan, GoTo, tableVars
  <2>2. p \notin rows
    BY <2>1 DEF UploadsKnewTheirRow
  <2>3. PathsAreOfRows'
    BY <2>1 DEF PathsAreOfRows
  <2>4. UploadsKnewTheirRow'
    BY <1>0, <2>1 DEF UploadsKnewTheirRow, TypeOK, Requests, OnPersona
  <2>5. FilesAreThere'
    BY <1>0, <2>1, <2>2 DEF FilesAreThere, Recording, TypeOK, Requests, OnPersona
  <2>6. FilesAreAccountedFor'
    BY <1>0, <2>1 DEF FilesAreAccountedFor, OnAvatar, TypeOK, Requests, OnPersona
  <2>7. QED
    BY <2>3, <2>4, <2>5, <2>6
<1>5. QED
  BY <1>1, <1>2, <1>3, <1>4

\* delete_avatar, and the tasks that remove files.
LEMMA RemovalKeepsAvatarInv ==
  ASSUME CountInv, AvatarInv
  PROVE  /\ \A x \in AvatarDeletes : FindPath(x) \/ ClearPath(x) => AvatarInv'
         /\ \A p \in Personas : RemoveAvatar(p) \/ EraseAvatar(p) => AvatarInv'
<1> USE DEF AvatarInv
<1>0. TypeOK
  BY DEF CountInv
<1>1. ASSUME NEW x \in AvatarDeletes, FindPath(x) PROVE AvatarInv'
  <2>1. x \in Requests
    BY DEF Requests, OnPersona
  <2>2. QED
    BY <1>1, <2>1, MovesKeepAvatarInv DEF FindPath, tableVars
<1>2. ASSUME NEW x \in AvatarDeletes, ClearPath(x) PROVE AvatarInv'
  <2>1. x \in Requests
    BY DEF Requests, OnPersona
  <2>2. /\ pc[x] = "clear" /\ pc' = [pc EXCEPT ![x] = "ended"]
        /\ path' = path \ {PersonaOf[x]} /\ removals' = removals \union {PersonaOf[x]}
        /\ UNCHANGED <<rows, file, lost, cut>>
    BY <1>2 DEF ClearPath, GoTo, tableVars
  <2>3. PathsAreOfRows'
    BY <2>2 DEF PathsAreOfRows
  <2>4. UploadsKnewTheirRow'
    BY <1>0, <2>1, <2>2 DEF UploadsKnewTheirRow, TypeOK, Requests, OnPersona
  <2>5. FilesAreThere'
    BY <1>0, <2>1, <2>2 DEF FilesAreThere, Recording, TypeOK, Requests, OnPersona
  <2>6. FilesAreAccountedFor'
    BY <1>0, <2>1, <2>2 DEF FilesAreAccountedFor, OnAvatar, TypeOK, Requests, OnPersona
  <2>7. QED
    BY <2>3, <2>4, <2>5, <2>6
<1>3. ASSUME NEW p \in Personas, RemoveAvatar(p) PROVE AvatarInv'
  <2>1. /\ removals' = removals \ {p} /\ file' = [file EXCEPT ![p] = NoFile]
        /\ lost' = IF Claimed(p) THEN lost \union {p} ELSE lost
        /\ UNCHANGED <<rows, path, cut, pc>>
    BY <1>3 DEF RemoveAvatar, tableVars
  <2>2. PathsAreOfRows' /\ UploadsKnewTheirRow'
    BY <2>1 DEF PathsAreOfRows, UploadsKnewTheirRow
  <2>3. FilesAreThere'
    BY <1>0, <2>1 DEF FilesAreThere, Recording, Claimed, TypeOK
  <2>4. FilesAreAccountedFor'
    BY <1>0, <2>1 DEF FilesAreAccountedFor, OnAvatar, TypeOK
  <2>5. QED
    BY <2>2, <2>3, <2>4
<1>4. ASSUME NEW p \in Personas, EraseAvatar(p) PROVE AvatarInv'
  <2>1. /\ file' = [file EXCEPT ![p] = NoFile]
        /\ lost' = IF Claimed(p) THEN lost \union {p} ELSE lost
        /\ UNCHANGED <<rows, path, removals, cut, pc>>
    BY <1>4 DEF EraseAvatar, tableVars
  <2>2. file[p] # NoFile
    BY <1>4 DEF EraseAvatar
  <2>3. PathsAreOfRows' /\ UploadsKnewTheirRow'
    BY <2>1 DEF PathsAreOfRows, UploadsKnewTheirRow
  <2>4. FilesAreThere'
    BY <1>0, <2>1, <2>2 DEF FilesAreThere, Recording, Claimed, TypeOK
  <2>5. FilesAreAccountedFor'
    BY <1>0, <2>1 DEF FilesAreAccountedFor, OnAvatar, TypeOK
  <2>6. QED
    BY <2>3, <2>4, <2>5
<1>5. QED
  BY <1>1, <1>2, <1>3, <1>4

\* Handlers that end early leave their avatars among those cut short.
LEMMA EndingEarlyKeepsAvatarInv ==
  ASSUME CountInv, AvatarInv, NEW R \in SUBSET Requests,
         pc' = [r \in Requests |-> IF r \in R THEN "ended" ELSE pc[r]],
         UNCHANGED <<rows, path, file, lost>>,
         \A a \in OnAvatar \intersect R : PersonaOf[a] \in cut',
         removals \union cut \subseteq removals' \union cut'
  PROVE  AvatarInv'
<1> USE DEF AvatarInv
<1>0. TypeOK
  BY DEF CountInv
<1>1. PathsAreOfRows'
  BY DEF PathsAreOfRows
<1>2. UploadsKnewTheirRow'
  BY <1>0 DEF UploadsKnewTheirRow, TypeOK, Requests, OnPersona
<1>3. FilesAreThere'
  BY <1>0 DEF FilesAreThere, Recording, TypeOK, Requests, OnPersona
<1>4. FilesAreAccountedFor'
  BY <1>0 DEF FilesAreAccountedFor, OnAvatar, TypeOK, Requests, OnPersona
<1>5. QED
  BY <1>1, <1>2, <1>3, <1>4

LEMMA FailureKeepsAvatarInv ==
  ASSUME CountInv, AvatarInv
  PROVE  /\ \A r \in Requests : AbortDeadlocked(r) \/ HandlerDies(r) => AvatarInv'
         /\ Crash => AvatarInv'
<1>1. ASSUME NEW r \in Requests, AbortDeadlocked(r) PROVE AvatarInv'
  <2>1. pc[r] \in {"insert", "count"}
    BY <1>1 DEF AbortDeadlocked, Deadlocked
  <2>2. UNCHANGED <<rows, path, file, lost, removals, cut>>
    BY <1>1 DEF AbortDeadlocked, tableVars, diskVars
  <2>3. pc' = [q \in Requests |-> IF q \in {r} THEN "ended" ELSE pc[q]]
    BY <1>1 DEF AbortDeadlocked, Abandon
  <2>4. {r} \in SUBSET Requests
    OBVIOUS
  <2>5. \A a \in OnAvatar \intersect {r} : PersonaOf[a] \in cut'
    BY <2>1 DEF OnAvatar
  <2>6. QED
    BY <2>2, <2>3, <2>4, <2>5, EndingEarlyKeepsAvatarInv
<1>2. ASSUME NEW r \in Requests, HandlerDies(r) PROVE AvatarInv'
  <2>1. UNCHANGED <<rows, path, file, lost, removals>>
    BY <1>2 DEF HandlerDies, tableVars
  <2>2. pc' = [q \in Requests |-> IF q \in {r} THEN "ended" ELSE pc[q]]
    BY <1>2 DEF HandlerDies, Abandon
  <2>3. cut' = cut \union {PersonaOf[a] : a \in OnAvatar \intersect {r}}
    BY <1>2 DEF HandlerDies, CutAvatars
  <2>4. {r} \in SUBSET Requests
    OBVIOUS
  <2>5. \A a \in OnAvatar \intersect {r} : PersonaOf[a] \in cut'
    BY <2>3
  <2>6. UNCHANGED <<rows, path, file, lost>> /\ removals \union cut \subseteq removals' \union cut'
    BY <2>1, <2>3
  <2>7. QED
    BY <2>2, <2>4, <2>5, <2>6, EndingEarlyKeepsAvatarInv
<1>3. ASSUME Crash PROVE AvatarInv'
  <2>1. UNCHANGED <<rows, path, file, lost>>
    BY <1>3 DEF Crash, tableVars
  <2>2. pc' = [q \in Requests |-> IF q \in InFlight THEN "ended" ELSE pc[q]]
    BY <1>3 DEF Crash
  <2>3. cut' = cut \union removals \union {PersonaOf[a] : a \in OnAvatar}
    BY <1>3 DEF Crash
  <2>4. InFlight \in SUBSET Requests
    BY DEF InFlight
  <2>5. \A a \in OnAvatar \intersect InFlight : PersonaOf[a] \in cut'
    BY <2>3
  <2>6. removals \union cut \subseteq removals' \union cut'
    BY <2>3
  <2>7. QED
    BY <2>1, <2>2, <2>4, <2>5, <2>6, EndingEarlyKeepsAvatarInv
<1>4. QED
  BY <1>1, <1>2, <1>3

LEMMA NextAvatarInv == CountInv /\ AvatarInv /\ [Next]_vars => AvatarInv'
<1> SUFFICES ASSUME CountInv, AvatarInv, [Next]_vars PROVE AvatarInv'
  OBVIOUS
<1>1. ASSUME NEW r \in Requests, Arrive(r) PROVE AvatarInv'
  <2>1. CASE r \in Creates /\ CheckKey(r)
    BY <2>1, <1>1, MovesKeepAvatarInv DEF CheckKey, tableVars
  <2>2. CASE r \in Renames /\ Rename(r)
    BY <2>2, <1>1, MovesKeepAvatarInv DEF Rename
  <2>3. CASE r \in Deletes /\ LockPersona(r)
    BY <2>3, <1>1, MovesKeepAvatarInv DEF LockPersona, tableVars
  <2>4. QED
    BY <1>1, <2>1, <2>2, <2>3, UploadKeepsAvatarInv, RemovalKeepsAvatarInv DEF Arrive
<1>2. ASSUME NEW r \in Requests, Proceed(r) PROVE AvatarInv'
  <2>1. CASE r \in Creates /\ LockUser(r)
    BY <2>1, <1>2, MovesKeepAvatarInv DEF LockUser, tableVars
  <2>2. CASE r \in Creates /\ StoreReply(r)
    <3>1. /\ pc[r] = "store" /\ pc' = [pc EXCEPT ![r] = "ended"]
          /\ UNCHANGED <<rows, path, file, removals, lost, cut>>
      BY <2>2 DEF StoreReply, GoTo, diskVars
    <3>2. TypeOK
      BY DEF CountInv
    <3>3. QED
      BY <3>1, <3>2 DEF TypeOK, AvatarInv, PathsAreOfRows, UploadsKnewTheirRow, FilesAreThere,
         Recording, FilesAreAccountedFor, OnAvatar, Requests, OnPersona
  <2>3. QED
    BY <1>2, <2>1, <2>2, InsertKeepsAvatarInv, DeleteKeepsAvatarInv, UploadKeepsAvatarInv,
       RemovalKeepsAvatarInv DEF Proceed
<1>3. ASSUME NEW r \in Requests, AbortDeadlocked(r) \/ HandlerDies(r) PROVE AvatarInv'
  BY <1>3, FailureKeepsAvatarInv
<1>4. ASSUME NEW p \in Personas, RemoveAvatar(p) \/ EraseAvatar(p) PROVE AvatarInv'
  BY <1>4, RemovalKeepsAvatarInv
<1>5. CASE Crash
  BY <1>5, FailureKeepsAvatarInv
<1>6. CASE UNCHANGED vars
  BY <1>6 DEF vars, AvatarInv, PathsAreOfRows, UploadsKnewTheirRow, FilesAreThere, Recording,
     FilesAreAccountedFor, OnAvatar, tableVars, diskVars
<1>7. QED
  BY <1>1, <1>2, <1>3, <1>4, <1>5, <1>6 DEF Next

LEMMA AvatarInvHolds == Spec => []AvatarInv
<1>1. Init => AvatarInv
  BY InitAvatarInv
<1>2. CountInv /\ AvatarInv /\ [Next]_vars => AvatarInv'
  BY NextAvatarInv
<1>3. QED
  BY <1>1, <1>2, CountInvHolds, PTL DEF Spec

\* A persona that shows an avatar has its file, unless the detached removal of an
\* earlier delete_avatar came after a newer upload, or run_user_delete has removed
\* it, whether or not the account was deleted afterwards.
THEOREM AvatarsAreThere == Spec => []AvatarLostOnlyToLateRemovalOrErasure
<1>1. CountInv /\ AvatarInv => AvatarLostOnlyToLateRemovalOrErasure
  BY DEF AvatarInv, FilesAreThere, AvatarLostOnlyToLateRemovalOrErasure
<1>2. QED
  BY <1>1, CountInvHolds, AvatarInvHolds, PTL

\* No file of a deleted persona stays behind an upload that raced the deletion,
\* except where an upload or a removal was cut short.
THEOREM DeletedPersonasAreClean == Spec => []DeletedPersonaLeavesNoAvatar
<1>1. AvatarInv => DeletedPersonaLeavesNoAvatar
  BY DEF AvatarInv, PathsAreOfRows, FilesAreAccountedFor, DeletedPersonaLeavesNoAvatar
<1>2. QED
  BY <1>1, AvatarInvHolds, PTL

-----------------------------------------------------------------------------
(***************************************************************************)
(* Style profiles.  A run writes only what it has still to compute, and is *)
(* begun again at most MaxAttempts times but for the interrupted ones.     *)
(***************************************************************************)
WritesWhatIsLeft ==
  \A j \in Jobs : at[j] = "write" =>
    IF scope[j] = Whole THEN todo[j] = {} ELSE scope[j] \in todo[j]

AttemptsAreBounded ==
  \A j \in Jobs : /\ attempts[j] <= MaxAttempts + faults
                  /\ at[j] # "failed" => attempts[j] <= MaxAttempts - 1 + faults

PersonaTakesAll == Whole \notin live => live = {} /\ Present = {}

RunsInv == ProfilesTypeOK /\ WritesWhatIsLeft /\ AttemptsAreBounded /\ PersonaTakesAll

LEMMA InitRunsInv == ProfilesInit => RunsInv
<1> SUFFICES ASSUME ProfilesInit PROVE RunsInv
  OBVIOUS
<1>1. faults \in 0 .. MaxFaults /\ attempts \in [Jobs -> 0 .. MaxAttempts + MaxFaults]
  BY ProfilesAssumption DEF ProfilesInit
<1>2. /\ profile \in [Scopes -> (SUBSET Docs) \union {NoRow}] /\ scope \in [Jobs -> Scopes]
      /\ PersonaTakesAll
  BY DEF ProfilesInit, Scopes, PersonaTakesAll
<1>3. ProfilesTypeOK
  BY <1>1, <1>2 DEF ProfilesInit, ProfilesTypeOK
<1>4. WritesWhatIsLeft /\ AttemptsAreBounded
  BY <1>1, ProfilesAssumption DEF ProfilesInit, WritesWhatIsLeft, AttemptsAreBounded
<1>5. QED
  BY <1>2, <1>3, <1>4 DEF RunsInv

LEMMA TagsAreScopes ==
  ASSUME RunsInv, NEW d \in Docs
  PROVE  Tag(d) \in live \union {Whole} /\ Tag(d) \in Scopes
BY ProfilesAssumption DEF RunsInv, ProfilesTypeOK, Tag, Scopes

\* An error, with or without a fault to blame.
LEMMA FailuresKeepRunsInv ==
  ASSUME RunsInv, NEW j \in Jobs, FailAttempt(j), at[j] \in Running,
         UNCHANGED <<live, doc, profile, history, get, known>>,
         faults' \in {faults, faults + 1}, faults' <= MaxFaults
  PROVE  RunsInv'
<1> USE DEF RunsInv
<1>1. attempts[j] \in Nat /\ attempts[j] + 1 <= MaxAttempts + faults
  BY ProfilesAssumption DEF ProfilesTypeOK, AttemptsAreBounded, Running
<1>2. faults' \in 0 .. MaxFaults /\ faults <= faults'
  BY ProfilesAssumption DEF ProfilesTypeOK
<1>3. attempts[j] + 1 \in 0 .. MaxAttempts + MaxFaults
  BY <1>1, ProfilesAssumption DEF ProfilesTypeOK
<1>4. attempts' \in [Jobs -> 0 .. MaxAttempts + MaxFaults]
  BY <1>3 DEF FailAttempt, Drop, ProfilesTypeOK
<1>5. at' \in [Jobs -> {"none", "queued", "done", "failed"} \union Running]
  BY DEF FailAttempt, ProfilesTypeOK
<1>6. ProfilesTypeOK'
  BY <1>2, <1>4, <1>5, ProfilesAssumption
     DEF FailAttempt, Drop, ProfilesTypeOK, history, Scopes
<1>7. WritesWhatIsLeft'
  BY DEF FailAttempt, Drop, ProfilesTypeOK, WritesWhatIsLeft
<1>8. AttemptsAreBounded'
  <2> SUFFICES ASSUME NEW k \in Jobs
               PROVE  /\ attempts'[k] <= MaxAttempts + faults'
                      /\ at'[k] # "failed" => attempts'[k] <= MaxAttempts - 1 + faults'
    BY DEF AttemptsAreBounded
  <2>1. attempts[k] \in Nat /\ faults \in Nat /\ faults' \in Nat /\ MaxAttempts \in Nat
    BY <1>2, ProfilesAssumption DEF ProfilesTypeOK
  <2>2. CASE k = j
    BY <2>1, <2>2, <1>1, <1>2 DEF FailAttempt, Drop, ProfilesTypeOK
  <2>3. CASE k # j
    <3>1. attempts'[k] = attempts[k] /\ at'[k] = at[k]
      BY <2>3 DEF FailAttempt, Drop, ProfilesTypeOK
    <3>2. QED
      BY <3>1, <2>1, <1>2 DEF AttemptsAreBounded
  <2>4. QED
    BY <2>2, <2>3
<1>9. PersonaTakesAll'
  BY DEF PersonaTakesAll, Present
<1>10. QED
  BY <1>6, <1>7, <1>8, <1>9

\* A step of the queue or of a document, a job being queued at most.
LEMMA QueueingKeepsRunsInv ==
  ASSUME RunsInv, NEW j \in Jobs, Enqueue(j), UNCHANGED <<live, profile, history, get, known, faults>>,
         doc' \in [Docs -> {"none", "chunked", "ingested", "deleted"}]
  PROVE  RunsInv'
BY DEF RunsInv, Enqueue, history, ProfilesTypeOK, WritesWhatIsLeft, AttemptsAreBounded, PersonaTakesAll

LEMMA DeletionsKeepRunsInv ==
  ASSUME RunsInv
  PROVE  /\ \A d \in Docs : AddChunks(d) \/ DeleteDocument(d) => RunsInv'
         /\ \A e \in Eras : DeleteEra(e) => RunsInv'
         /\ DeletePersona => RunsInv'
<1> USE DEF RunsInv
<1>1. ASSUME NEW d \in Docs, AddChunks(d) PROVE RunsInv'
  BY <1>1 DEF AddChunks, ProfilesTypeOK, WritesWhatIsLeft, AttemptsAreBounded, PersonaTakesAll,
              history, jobVars
<1>2. ASSUME NEW d \in Docs, DeleteDocument(d) PROVE RunsInv'
  <2>1. Tag(d) \in Scopes /\ Whole \in Scopes
    BY TagsAreScopes DEF Scopes
  <2>2. clean' \in [Jobs -> BOOLEAN] /\ missed' \in SUBSET Scopes
        /\ doc' \in [Docs -> {"none", "chunked", "ingested", "deleted"}]
    BY <1>2, <2>1 DEF DeleteDocument, ProfilesTypeOK
  <2>3. PersonaTakesAll'
    BY <1>2 DEF DeleteDocument, PersonaTakesAll, Present, ProfilesTypeOK
  <2>4. QED
    BY <1>2, <2>2, <2>3 DEF DeleteDocument, ProfilesTypeOK, WritesWhatIsLeft, AttemptsAreBounded
<1>3. ASSUME NEW e \in Eras, DeleteEra(e) PROVE RunsInv'
  <2>1. profile' = [profile EXCEPT ![e] = NoRow] /\ live' = live \ {e}
    BY <1>3 DEF DeleteEra
  <2>2. profile' \in [Scopes -> (SUBSET Docs) \union {NoRow}] /\ live' \in SUBSET Scopes
    BY <2>1 DEF ProfilesTypeOK
  <2>3. PersonaTakesAll'
    BY <1>3, ProfilesAssumption DEF DeleteEra, PersonaTakesAll, Present
  <2>4. QED
    BY <1>3, <2>2, <2>3 DEF DeleteEra, ProfilesTypeOK, WritesWhatIsLeft, AttemptsAreBounded,
                            history, jobVars
<1>4. ASSUME DeletePersona PROVE RunsInv'
  <2>1. /\ live' \in SUBSET Scopes /\ profile' \in [Scopes -> (SUBSET Docs) \union {NoRow}]
        /\ doc' \in [Docs -> {"none", "chunked", "ingested", "deleted"}]
    BY <1>4 DEF DeletePersona
  <2>2. PersonaTakesAll'
    BY <1>4 DEF DeletePersona, PersonaTakesAll, Present
  <2>3. QED
    BY <1>4, <2>1, <2>2 DEF DeletePersona, ProfilesTypeOK, WritesWhatIsLeft, AttemptsAreBounded,
                            history, jobVars
<1>5. QED
  BY <1>1, <1>2, <1>3, <1>4

LEMMA RunsKeepRunsInv ==
  ASSUME RunsInv, NEW j \in Jobs, Run(j) \/ Fault(j) \/ Interrupt(j)
  PROVE  RunsInv'
<1> USE DEF RunsInv
<1>0. /\ Present \subseteq Docs /\ Whole \in Scopes /\ \A s \in Scopes : InScope(s) \subseteq Docs
      /\ PersonaTakesAll'
  BY DEF Present, InScope, Scopes, PersonaTakesAll, Run, Begin, ReadChunks, Upsert, UpsertFails,
         Fault, Interrupt
<1>1. ASSUME Begin(j) PROVE RunsInv'
  <2>1. {Tag(d) : d \in Present} \ {Whole} \subseteq Eras
    BY <1>0, TagsAreScopes DEF Scopes
  <2>2. todo' \in [Jobs -> SUBSET Eras]
    BY <1>1, <2>1 DEF Begin, ProfilesTypeOK
  <2>3. at' \in [Jobs -> {"none", "queued", "done", "failed"} \union Running]
    BY <1>1 DEF Begin, ProfilesTypeOK, Running
  <2>4. ProfilesTypeOK'
    BY <1>1, <2>2, <2>3 DEF Begin, ProfilesTypeOK, history
  <2>5. QED
    BY <1>0, <1>1, <2>4 DEF Begin, ProfilesTypeOK, WritesWhatIsLeft, AttemptsAreBounded
<1>2. ASSUME NEW s \in Scopes, ReadChunks(j, s) PROVE RunsInv'
  <2>1. at' \in [Jobs -> {"none", "queued", "done", "failed"} \union Running]
        /\ scope' \in [Jobs -> Scopes] /\ read' \in [Jobs -> SUBSET Docs]
        /\ clean' \in [Jobs -> BOOLEAN] /\ beaten' \in [Jobs -> BOOLEAN]
    BY <1>0, <1>2 DEF ReadChunks, ProfilesTypeOK, Running
  <2>2. ProfilesTypeOK'
    BY <1>2, <2>1 DEF ReadChunks, ProfilesTypeOK, history
  <2>3. IF s = Whole THEN todo[j] = {} ELSE s \in todo[j]
    BY <1>2, ProfilesAssumption DEF ReadChunks, ProfilesTypeOK
  <2>4. WritesWhatIsLeft'
    BY <1>2, <2>3 DEF ReadChunks, ProfilesTypeOK, WritesWhatIsLeft
  <2>5. AttemptsAreBounded'
    BY <1>2 DEF ReadChunks, ProfilesTypeOK, AttemptsAreBounded
  <2>6. QED
    BY <1>0, <2>2, <2>4, <2>5
<1>3. ASSUME Upsert(j) PROVE RunsInv'
  <2>1. scope[j] \in Scopes /\ read[j] \in SUBSET Docs
    BY DEF ProfilesTypeOK
  <2>2. /\ profile' \in [Scopes -> (SUBSET Docs) \union {NoRow}]
        /\ missed' \in SUBSET Scopes /\ overtaken' \in SUBSET Scopes
    BY <1>3, <2>1 DEF Upsert, ProfilesTypeOK
  <2>3. /\ at' \in [Jobs -> {"none", "queued", "done", "failed"} \union Running]
        /\ todo' \in [Jobs -> SUBSET Eras] /\ scope' \in [Jobs -> Scopes]
    BY <1>0, <1>3 DEF Upsert, ProfilesTypeOK, Running
  <2>4. /\ read' \in [Jobs -> SUBSET Docs]
        /\ clean' \in [Jobs -> BOOLEAN] /\ beaten' \in [Jobs -> BOOLEAN]
    BY <1>3 DEF Upsert, ProfilesTypeOK
  <2>5. ProfilesTypeOK'
    BY <1>3, <2>2, <2>3, <2>4 DEF Upsert, ProfilesTypeOK
  <2>6. WritesWhatIsLeft'
    BY <1>3 DEF Upsert, ProfilesTypeOK, WritesWhatIsLeft
  <2>7. AttemptsAreBounded'
    BY <1>3 DEF Upsert, ProfilesTypeOK, AttemptsAreBounded
  <2>8. QED
    BY <1>0, <2>5, <2>6, <2>7
<1>4. ASSUME UpsertFails(j) PROVE RunsInv'
  <2>1. faults' \in {faults, faults + 1} /\ faults' <= MaxFaults
    BY <1>4 DEF UpsertFails, ProfilesTypeOK
  <2>2. QED
    BY <1>4, <2>1, FailuresKeepRunsInv DEF UpsertFails, Running
<1>5. ASSUME Fault(j) PROVE RunsInv'
  <2>1. faults' \in {faults, faults + 1} /\ faults' <= MaxFaults
    BY <1>5, ProfilesAssumption DEF Fault, ProfilesTypeOK
  <2>2. QED
    BY <1>5, <2>1, FailuresKeepRunsInv DEF Fault
<1>6. ASSUME Interrupt(j) PROVE RunsInv'
  <2>1. attempts[j] \in Nat /\ attempts[j] + 1 <= MaxAttempts + faults /\ faults \in Nat
    BY <1>6, ProfilesAssumption DEF Interrupt, ProfilesTypeOK, AttemptsAreBounded, Running
  <2>2. faults' \in 0 .. MaxFaults /\ faults' = faults + 1
    BY <1>6, <2>1, ProfilesAssumption DEF Interrupt
  <2>3. attempts' \in [Jobs -> 0 .. MaxAttempts + MaxFaults]
    <3>1. attempts[j] + 1 \in 0 .. MaxAttempts + MaxFaults
      BY <2>1, <2>2, ProfilesAssumption
    <3>2. QED
      BY <1>6, <3>1 DEF Interrupt, Drop, ProfilesTypeOK
  <2>4. at' \in [Jobs -> {"none", "queued", "done", "failed"} \union Running]
    BY <1>6 DEF Interrupt, ProfilesTypeOK
  <2>5. ProfilesTypeOK'
    BY <1>0, <1>6, <2>2, <2>3, <2>4 DEF Interrupt, Drop, ProfilesTypeOK, history
  <2>6. WritesWhatIsLeft'
    BY <1>6 DEF Interrupt, Drop, ProfilesTypeOK, WritesWhatIsLeft
  <2>7. AttemptsAreBounded'
    <3> SUFFICES ASSUME NEW k \in Jobs
                 PROVE  /\ attempts'[k] <= MaxAttempts + faults'
                        /\ at'[k] # "failed" => attempts'[k] <= MaxAttempts - 1 + faults'
      BY DEF AttemptsAreBounded
    <3>1. attempts[k] \in Nat /\ MaxAttempts \in Nat
      BY ProfilesAssumption DEF ProfilesTypeOK
    <3>2. CASE k = j
      BY <3>1, <3>2, <1>6, <2>1, <2>2 DEF Interrupt, Drop, ProfilesTypeOK
    <3>3. CASE k # j
      <4>1. attempts'[k] = attempts[k] /\ at'[k] = at[k]
        BY <3>3, <1>6 DEF Interrupt, Drop, ProfilesTypeOK
      <4>2. QED
        BY <4>1, <3>1, <2>1, <2>2 DEF AttemptsAreBounded
    <3>4. QED
      BY <3>2, <3>3
  <2>8. QED
    BY <1>0, <2>5, <2>6, <2>7
<1>7. QED
  BY <1>1, <1>2, <1>3, <1>4, <1>5, <1>6 DEF Run

LEMMA ReadersKeepRunsInv ==
  ASSUME RunsInv, NEW g \in Gets, HasJob(g) \/ FindProfile(g) \/ HasDocuments(g)
  PROVE  RunsInv'
<1> USE DEF RunsInv
<1>1. /\ get' \in [Gets -> {"idle", "find", "findPending", "count", "pending", "final", "missing"}]
      /\ known' \in [Gets -> SUBSET Docs]
  BY DEF HasJob, FindProfile, HasDocuments, ProfilesTypeOK
<1>2. UNCHANGED <<live, doc, profile, jobVars, history, faults>>
  BY DEF HasJob, FindProfile, HasDocuments
<1>3. QED
  BY <1>1, <1>2 DEF ProfilesTypeOK, WritesWhatIsLeft, AttemptsAreBounded, PersonaTakesAll, Present,
                    jobVars, history

LEMMA NextRunsInv == RunsInv /\ [ProfilesNext]_profilesVars => RunsInv'
<1> SUFFICES ASSUME RunsInv, [ProfilesNext]_profilesVars PROVE RunsInv'
  OBVIOUS
<1>1. ASSUME NEW d \in Docs, EndIngest(d) PROVE RunsInv'
  <2>1. d \in Jobs /\ doc' \in [Docs -> {"none", "chunked", "ingested", "deleted"}]
    BY <1>1 DEF EndIngest, Jobs, RunsInv, ProfilesTypeOK
  <2>2. QED
    BY <1>1, <2>1, QueueingKeepsRunsInv DEF EndIngest
<1>2. ASSUME NEW r \in Recomputes, RequestRecompute(r) PROVE RunsInv'
  <2>1. r \in Jobs /\ doc' \in [Docs -> {"none", "chunked", "ingested", "deleted"}]
    BY <1>2 DEF RequestRecompute, Jobs, RunsInv, ProfilesTypeOK
  <2>2. QED
    BY <1>2, <2>1, QueueingKeepsRunsInv DEF RequestRecompute
<1>3. CASE UNCHANGED profilesVars
  BY <1>3 DEF profilesVars, RunsInv, ProfilesTypeOK, WritesWhatIsLeft, AttemptsAreBounded,
              PersonaTakesAll, Present, jobVars, history
<1>4. QED
  BY <1>1, <1>2, <1>3, DeletionsKeepRunsInv, RunsKeepRunsInv, ReadersKeepRunsInv
     DEF ProfilesNext

LEMMA RunsInvHolds == ProfilesSpec => []RunsInv
<1>1. QED
  BY InitRunsInv, NextRunsInv, PTL DEF ProfilesSpec

\* Types, and with them the number of attempts: a job that only ever fails by
\* itself is tried MaxAttempts times, and each interrupted run adds one.
THEOREM ProfilesTypeCorrect == ProfilesSpec => []ProfilesTypeOK
<1>1. RunsInv => ProfilesTypeOK
  BY DEF RunsInv
<1>2. QED
  BY RunsInvHolds, <1>1, PTL

(***************************************************************************)
(* What a row lacks, some job will read.  A job still covers a document's  *)
(* place in a scope until it has written that scope; a reading in progress *)
(* is about to become the row, so it must be covered by another job.       *)
(***************************************************************************)
InUse == live

Shown(s) == IF profile[s] = NoRow THEN {} ELSE profile[s]

WillRead(j, d, s) ==
  \/ at[j] = "queued"
  \/ /\ at[j] \in Running /\ (s = Whole \/ s \in todo[j])
     /\ at[j] = "read" \/ scope[j] # s \/ d \in read[j]

Excused(d) == doc[d] = "chunked" \/ GivenUp # {}

RowsMissNothing ==
  \A s \in InUse \ overtaken : \A d \in InScope(s) :
    d \in Shown(s) \/ Excused(d) \/ \E j \in Jobs : WillRead(j, d, s)

ReadingsMissNothing ==
  \A k \in Jobs, s \in InUse : at[k] = "write" /\ scope[k] = s /\ ~beaten[k] =>
    \A d \in InScope(s) :
      d \in read[k] \/ Excused(d) \/ \E j \in Jobs \ {k} : WillRead(j, d, s)

CoverInv == RowsMissNothing /\ ReadingsMissNothing

LEMMA InitCoverInv == ProfilesInit => CoverInv
BY DEF ProfilesInit, CoverInv, RowsMissNothing, ReadingsMissNothing, InScope, Present

LEMMA ScopesHoldDocuments ==
  /\ Present \subseteq Docs /\ \A s : InScope(s) \subseteq Present
BY DEF Present, InScope

\* Every step but the upsert: rows and readings stay, or a reading is taken of
\* all there is; what would be read will be, or a job was given up.
LEMMA StepsKeepCoverInv ==
  ASSUME RunsInv, CoverInv, InUse' \subseteq InUse, overtaken' = overtaken,
         \A s \in InUse' : profile'[s] = profile[s],
         \A s \in InUse', d \in Docs : d \in InScope(s)' => d \in InScope(s) \/ Excused(d)',
         \A d \in Docs : Excused(d) => Excused(d)' \/ \E i \in Jobs : at'[i] = "queued",
         \A s \in InUse', d \in Docs, k \in Jobs :
           d \in InScope(s)' /\ WillRead(k, d, s) => WillRead(k, d, s)' \/ GivenUp' # {},
         \A k \in Jobs : at'[k] = "write" =>
           \/ at[k] = "write" /\ scope'[k] = scope[k] /\ read'[k] = read[k] /\ beaten'[k] = beaten[k]
           \/ \E s \in Scopes : scope'[k] = s /\ read'[k] = InScope(s)'
  PROVE  CoverInv'
<1> USE DEF CoverInv
<1>1. RowsMissNothing'
  <2> SUFFICES ASSUME NEW s \in InUse', s \notin overtaken', NEW d \in InScope(s)',
                      ~Excused(d)', ~\E j \in Jobs : WillRead(j, d, s)'
               PROVE  d \in Shown(s)'
    BY DEF RowsMissNothing
  <2>1. d \in Docs
    BY DEF InScope, Present
  <2>2. GivenUp' = {} /\ ~\E i \in Jobs : at'[i] = "queued"
    BY DEF Excused, WillRead
  <2>3. d \in InScope(s) /\ ~Excused(d) /\ s \in InUse
    BY <2>1, <2>2
  <2>4. ~\E j \in Jobs : WillRead(j, d, s)
    BY <2>1, <2>2
  <2>5. d \in Shown(s)
    BY <2>3, <2>4 DEF RowsMissNothing
  <2>6. QED
    BY <2>5 DEF Shown
<1>2. ReadingsMissNothing'
  <2> SUFFICES ASSUME NEW k \in Jobs, NEW s \in InUse',
                      at'[k] = "write", scope'[k] = s, ~beaten'[k],
                      NEW d \in InScope(s)', ~Excused(d)',
                      ~\E j \in Jobs \ {k} : WillRead(j, d, s)'
               PROVE  d \in read'[k]
    BY DEF ReadingsMissNothing
  <2>1. d \in Docs
    BY DEF InScope, Present
  <2>2. GivenUp' = {} /\ ~\E i \in Jobs : at'[i] = "queued"
    BY DEF Excused, WillRead
  <2>3. d \in InScope(s) /\ ~Excused(d) /\ s \in InUse
    BY <2>1, <2>2
  <2>4. ~\E j \in Jobs \ {k} : WillRead(j, d, s)
    BY <2>1, <2>2
  <2>5. CASE at[k] = "write" /\ scope'[k] = scope[k] /\ read'[k] = read[k] /\ beaten'[k] = beaten[k]
    BY <2>3, <2>4, <2>5 DEF ReadingsMissNothing
  <2>6. CASE \E r \in Scopes : scope'[k] = r /\ read'[k] = InScope(r)'
    BY <2>6
  <2>7. QED
    BY <2>5, <2>6
<1>3. QED
  BY <1>1, <1>2

LEMMA DocumentsKeepCoverInv ==
  ASSUME RunsInv, CoverInv
  PROVE  /\ \A d \in Docs : AddChunks(d) \/ EndIngest(d) \/ DeleteDocument(d) => CoverInv'
         /\ \A e \in Eras : DeleteEra(e) => CoverInv'
         /\ DeletePersona => CoverInv'
         /\ \A r \in Recomputes : RequestRecompute(r) => CoverInv'
<1> USE DEF RunsInv
<1>1. ASSUME NEW d \in Docs, AddChunks(d) PROVE CoverInv'
  <2>1. \A x \in Docs : doc'[x] = IF x = d THEN "chunked" ELSE doc[x]
    BY <1>1 DEF AddChunks, ProfilesTypeOK
  <2>2. \A s \in InUse', x \in Docs : x \in InScope(s)' => x \in InScope(s) \/ Excused(x)'
    BY <1>1, <2>1 DEF AddChunks, InScope, Present, Tag, Excused
  <2>3. \A x \in Docs : Excused(x) => Excused(x)'
    BY <1>1, <2>1 DEF AddChunks, Excused, GivenUp, jobVars
  <2>4. \A s \in InUse', x \in Docs, k \in Jobs : WillRead(k, x, s) => WillRead(k, x, s)'
    BY <1>1 DEF AddChunks, WillRead, jobVars
  <2>5. QED
    BY <1>1, <2>2, <2>3, <2>4, StepsKeepCoverInv DEF AddChunks, jobVars, history, InUse
<1>2. ASSUME NEW d \in Docs, EndIngest(d) PROVE CoverInv'
  <2>0. d \in Jobs
    BY DEF Jobs
  <2>1. /\ \A x \in Docs : doc'[x] = IF x = d THEN "ingested" ELSE doc[x]
        /\ at[d] = "none" /\ \A k \in Jobs : at'[k] = IF k = d THEN "queued" ELSE at[k]
    BY <1>2, <2>0 DEF EndIngest, Enqueue, ProfilesTypeOK
  <2>2. \A s \in InUse', x \in Docs : x \in InScope(s)' => x \in InScope(s)
    BY <1>2, <2>1 DEF EndIngest, InScope, Present, Tag
  <2>3. \A x \in Docs : Excused(x) => Excused(x)' \/ \E i \in Jobs : at'[i] = "queued"
    BY <2>0, <2>1
  <2>4. \A s \in InUse', x \in Docs, k \in Jobs : WillRead(k, x, s) => WillRead(k, x, s)'
    BY <1>2, <2>1 DEF EndIngest, Enqueue, WillRead
  <2>5. \A k \in Jobs : at'[k] = "write" => at[k] = "write"
    BY <2>1
  <2>6. QED
    BY <1>2, <2>2, <2>3, <2>4, <2>5, StepsKeepCoverInv DEF EndIngest, Enqueue, history, InUse
<1>3. ASSUME NEW d \in Docs, DeleteDocument(d) PROVE CoverInv'
  <2>1. \A x \in Docs : doc'[x] = IF x = d THEN "deleted" ELSE doc[x]
    BY <1>3 DEF DeleteDocument, ProfilesTypeOK
  <2>2. \A s \in InUse', x \in Docs : x \in InScope(s)' => x \in InScope(s)
    BY <1>3, <2>1 DEF DeleteDocument, InScope, Present, Tag
  <2>3. \A x \in Docs : Excused(x) => Excused(x)'
    BY <1>3, <2>1 DEF DeleteDocument, Excused, GivenUp
  <2>4. \A s \in InUse', x \in Docs, k \in Jobs : WillRead(k, x, s) => WillRead(k, x, s)'
    BY <1>3 DEF DeleteDocument, WillRead
  <2>5. QED
    BY <1>3, <2>2, <2>3, <2>4, StepsKeepCoverInv DEF DeleteDocument, InUse
<1>4. ASSUME NEW e \in Eras, DeleteEra(e) PROVE CoverInv'
  <2>0. InUse' = InUse \ {e} /\ e # Whole
    BY <1>4, ProfilesAssumption DEF DeleteEra, InUse
  <2>1. \A s \in InUse' : profile'[s] = profile[s]
    BY <1>4, <2>0 DEF DeleteEra, ProfilesTypeOK, InUse, Scopes
  <2>2. \A s \in InUse', x \in Docs : x \in InScope(s)' => x \in InScope(s)
    BY <1>4, <2>0 DEF DeleteEra, InScope, Present, Tag
  <2>3. \A x \in Docs : Excused(x) => Excused(x)'
    BY <1>4 DEF DeleteEra, Excused, GivenUp, jobVars
  <2>4. \A s \in InUse', x \in Docs, k \in Jobs : WillRead(k, x, s) => WillRead(k, x, s)'
    BY <1>4 DEF DeleteEra, WillRead, jobVars
  <2>5. QED
    BY <1>4, <2>0, <2>1, <2>2, <2>3, <2>4, StepsKeepCoverInv DEF DeleteEra, jobVars, history
<1>5. ASSUME NEW r \in Recomputes, RequestRecompute(r) PROVE CoverInv'
  <2>1. /\ r \in Jobs /\ at[r] = "none"
        /\ \A k \in Jobs : at'[k] = IF k = r THEN "queued" ELSE at[k]
    BY <1>5 DEF RequestRecompute, Enqueue, ProfilesTypeOK, Jobs
  <2>2. \A s \in InUse', x \in Docs : x \in InScope(s)' => x \in InScope(s)
    BY <1>5 DEF RequestRecompute, InScope, Present, Tag
  <2>3. \A x \in Docs : Excused(x) => Excused(x)'
    BY <1>5, <2>1 DEF RequestRecompute, Excused, GivenUp
  <2>4. \A s \in InUse', x \in Docs, k \in Jobs : WillRead(k, x, s) => WillRead(k, x, s)'
    BY <1>5, <2>1 DEF RequestRecompute, Enqueue, WillRead
  <2>5. \A k \in Jobs : at'[k] = "write" => at[k] = "write"
    BY <2>1
  <2>6. QED
    BY <1>5, <2>2, <2>3, <2>4, <2>5, StepsKeepCoverInv
       DEF RequestRecompute, Enqueue, history, InUse
<1>6. ASSUME DeletePersona PROVE CoverInv'
  BY <1>6 DEF DeletePersona, CoverInv, RowsMissNothing, ReadingsMissNothing, InUse
<1>7. QED
  BY <1>1, <1>2, <1>3, <1>4, <1>5, <1>6

\* A run that ends before its time is queued again or given up.
LEMMA DroppedRunsKeepCoverInv ==
  ASSUME RunsInv, CoverInv, NEW j \in Jobs, at[j] \in Running, Drop(j),
         NEW l \in {"queued", "failed"}, at' = [at EXCEPT ![j] = l],
         UNCHANGED <<live, doc, profile, history>>
  PROVE  CoverInv'
<1> USE DEF RunsInv
<1>1. \A k \in Jobs : at'[k] = IF k = j THEN l ELSE at[k]
  BY DEF ProfilesTypeOK
<1>2. \A k \in Jobs : k # j => /\ todo'[k] = todo[k] /\ scope'[k] = scope[k] /\ read'[k] = read[k]
                               /\ beaten'[k] = beaten[k]
  BY DEF Drop, ProfilesTypeOK
<1>3. l = "failed" => j \in GivenUp'
  BY <1>1 DEF GivenUp
<1>4. \A s \in InUse', x \in Docs : x \in InScope(s)' => x \in InScope(s)
  BY DEF InScope, Present, Tag
<1>5. \A x \in Docs : Excused(x) => Excused(x)'
  <2>1. GivenUp \subseteq GivenUp'
    BY <1>1 DEF GivenUp, Running
  <2>2. QED
    BY <2>1 DEF Excused
<1>6. \A s \in InUse', x \in Docs, k \in Jobs :
        WillRead(k, x, s) => WillRead(k, x, s)' \/ GivenUp' # {}
  BY <1>1, <1>2, <1>3 DEF WillRead
<1>7. \A k \in Jobs : at'[k] = "write" => k # j /\ at[k] = "write"
  BY <1>1
<1>8. QED
  BY <1>2, <1>4, <1>5, <1>6, <1>7, StepsKeepCoverInv DEF history, InUse

LEMMA RunsKeepCoverInv ==
  ASSUME RunsInv, CoverInv, NEW j \in Jobs
  PROVE  /\ Begin(j) => CoverInv'
         /\ \A s \in Scopes : ReadChunks(j, s) => CoverInv'
         /\ UpsertFails(j) \/ Fault(j) \/ Interrupt(j) => CoverInv'
<1> USE DEF RunsInv
<1>1. ASSUME Begin(j) PROVE CoverInv'
  <2>1. /\ at[j] = "queued" /\ todo'[j] = {Tag(d) : d \in Present} \ {Whole}
        /\ \A k \in Jobs : at'[k] = IF k = j THEN "read" ELSE at[k]
        /\ \A k \in Jobs : k # j => todo'[k] = todo[k]
    BY <1>1 DEF Begin, ProfilesTypeOK
  <2>2. \A s, x : InScope(s)' = InScope(s) /\ (Excused(x) => Excused(x)')
    BY <1>1, <2>1 DEF Begin, InScope, Present, Tag, Excused, GivenUp
  <2>3. \A s \in InUse', x \in Docs, k \in Jobs :
          x \in InScope(s)' /\ WillRead(k, x, s) => WillRead(k, x, s)'
    <3> SUFFICES ASSUME NEW s \in InUse', NEW x \in Docs, NEW k \in Jobs,
                        x \in InScope(s)', WillRead(k, x, s)
                 PROVE  WillRead(k, x, s)'
      OBVIOUS
    <3>1. CASE k = j
      <4>1. x \in InScope(s)
        BY <2>2
      <4>2. x \in Present /\ (s # Whole => Tag(x) = s)
        BY <4>1 DEF InScope
      <4>3. s = Whole \/ s \in todo'[j]
        BY <4>2, <2>1
      <4>4. QED
        BY <3>1, <4>3, <2>1 DEF WillRead, Running
    <3>2. CASE k # j
      BY <3>2, <2>1, <1>1 DEF WillRead, Begin
    <3>3. QED
      BY <3>1, <3>2
  <2>4. \A k \in Jobs : at'[k] = "write" => at[k] = "write"
    BY <2>1
  <2>5. QED
    BY <1>1, <2>2, <2>3, <2>4, StepsKeepCoverInv DEF Begin, history, InUse
<1>2. ASSUME NEW s \in Scopes, ReadChunks(j, s) PROVE CoverInv'
  <2>1. /\ at[j] = "read" /\ scope'[j] = s /\ read'[j] = InScope(s) /\ todo' = todo
        /\ \A k \in Jobs : at'[k] = IF k = j THEN "write" ELSE at[k]
        /\ \A k \in Jobs : k # j => /\ scope'[k] = scope[k] /\ read'[k] = read[k]
                                    /\ beaten'[k] = beaten[k]
    BY <1>2 DEF ReadChunks, ProfilesTypeOK
  <2>2. \A t, x : InScope(t)' = InScope(t) /\ (Excused(x) => Excused(x)')
    BY <1>2, <2>1 DEF ReadChunks, InScope, Present, Tag, Excused, GivenUp
  <2>3. \A t \in InUse', x \in Docs, k \in Jobs :
          x \in InScope(t)' /\ WillRead(k, x, t) => WillRead(k, x, t)'
    BY <2>1, <2>2 DEF WillRead, Running
  <2>4. UNCHANGED <<live, profile, overtaken>> /\ InUse' = InUse
    BY <1>2 DEF ReadChunks, history, InUse
  <2>5. \A k \in Jobs : at'[k] = "write" =>
          \/ at[k] = "write" /\ scope'[k] = scope[k] /\ read'[k] = read[k] /\ beaten'[k] = beaten[k]
          \/ \E t \in Scopes : scope'[k] = t /\ read'[k] = InScope(t)'
    BY <2>1, <2>2
  <2>6. QED
    BY <2>2, <2>3, <2>4, <2>5, StepsKeepCoverInv
<1>3. ASSUME UpsertFails(j) \/ Fault(j) PROVE CoverInv'
  <2>1. /\ at[j] \in Running /\ Drop(j) /\ UNCHANGED <<live, doc, profile, history>>
        /\ \/ at' = [at EXCEPT ![j] = "queued"]
           \/ at' = [at EXCEPT ![j] = "failed"]
    BY <1>3 DEF UpsertFails, Fault, FailAttempt, Running
  <2>2. QED
    BY <2>1, DroppedRunsKeepCoverInv
<1>4. ASSUME Interrupt(j) PROVE CoverInv'
  BY <1>4, DroppedRunsKeepCoverInv DEF Interrupt
<1>5. QED
  BY <1>1, <1>2, <1>3, <1>4

LEMMA UpsertsKeepCoverInv == ASSUME RunsInv, CoverInv, NEW j \in Jobs, Upsert(j) PROVE CoverInv'
<1> DEFINE s == scope[j]
<1>0. /\ at[j] = "write" /\ s \in InUse /\ s \in Scopes /\ read[j] \in SUBSET Docs
      /\ \A k \in Jobs : at[k] = "write" => IF scope[k] = Whole THEN todo[k] = {} ELSE scope[k] \in todo[k]
  BY DEF Upsert, InUse, RunsInv, ProfilesTypeOK, WritesWhatIsLeft
<1>1. /\ \A k \in Jobs : at'[k] = IF k # j THEN at[k] ELSE IF s = Whole THEN "done" ELSE "read"
      /\ todo'[j] = todo[j] \ {s}
      /\ \A k \in Jobs : k # j => /\ todo'[k] = todo[k] /\ scope'[k] = scope[k]
                                  /\ read'[k] = read[k]
      /\ \A k \in Jobs : beaten'[k] = IF k = j THEN FALSE
                                      ELSE beaten[k] \/ (at[k] = "write" /\ scope[k] = s)
  BY DEF Upsert, RunsInv, ProfilesTypeOK
<1>2. /\ profile'[s] = read[j] /\ \A t \in InUse : t # s => profile'[t] = profile[t]
      /\ overtaken' = IF beaten[j] THEN overtaken \union {s} ELSE overtaken \ {s}
  BY <1>0 DEF Upsert, RunsInv, ProfilesTypeOK, InUse, Scopes
<1>3. /\ InUse' = InUse /\ \A t : InScope(t)' = InScope(t)
      /\ \A x : Excused(x) => Excused(x)'
  <2>1. UNCHANGED <<live, doc>> /\ GivenUp \subseteq GivenUp'
    BY <1>0, <1>1 DEF Upsert, GivenUp
  <2>2. QED
    BY <2>1 DEF InUse, InScope, Present, Tag, Excused
<1>4. \A t \in InUse, x \in Docs, k \in Jobs :
        WillRead(k, x, t) /\ (k # j \/ t # s) => WillRead(k, x, t)'
  <2> SUFFICES ASSUME NEW t \in InUse, NEW x \in Docs, NEW k \in Jobs,
                      WillRead(k, x, t), k # j \/ t # s
               PROVE  WillRead(k, x, t)'
    OBVIOUS
  <2>1. CASE k # j
    BY <2>1, <1>1 DEF WillRead
  <2>2. CASE k = j
    <3>1. t # s /\ (t = Whole \/ t \in todo[j])
      BY <2>2, <1>0 DEF WillRead
    <3>2. s # Whole
      BY <3>1, <1>0
    <3>3. QED
      BY <2>2, <3>1, <3>2, <1>1 DEF WillRead, Running
  <2>3. QED
    BY <2>1, <2>2
<1>5. RowsMissNothing'
  <2> SUFFICES ASSUME NEW t \in InUse, t \notin overtaken', NEW d \in InScope(t),
                      ~Excused(d)', ~\E k \in Jobs : WillRead(k, d, t)'
               PROVE  d \in Shown(t)'
    BY <1>3 DEF RowsMissNothing
  <2>1. d \in Docs /\ ~Excused(d)
    BY <1>3 DEF InScope, Present
  <2>2. CASE t = s
    <3>1. ~beaten[j] /\ ~\E k \in Jobs \ {j} : WillRead(k, d, s)
      BY <2>1, <2>2, <1>2, <1>4
    <3>2. d \in read[j]
      BY <3>1, <2>1, <2>2, <1>0 DEF CoverInv, ReadingsMissNothing
    <3>3. Shown(t)' = read[j]
      BY <2>2, <1>0, <1>2, ProfilesAssumption DEF Shown
    <3>4. QED
      BY <2>2, <3>2, <3>3
  <2>3. CASE t # s
    <3>1. t \notin overtaken /\ ~\E k \in Jobs : WillRead(k, d, t)
      BY <2>1, <2>3, <1>2, <1>4
    <3>2. d \in Shown(t)
      BY <3>1, <2>1 DEF CoverInv, RowsMissNothing
    <3>3. QED
      BY <3>2, <2>3, <1>2 DEF Shown
  <2>4. QED
    BY <2>2, <2>3
<1>6. ReadingsMissNothing'
  <2> SUFFICES ASSUME NEW k \in Jobs, NEW t \in InUse,
                      at'[k] = "write", scope'[k] = t, ~beaten'[k],
                      NEW d \in InScope(t), ~Excused(d)',
                      ~\E i \in Jobs \ {k} : WillRead(i, d, t)'
               PROVE  d \in read'[k]
    BY <1>3 DEF ReadingsMissNothing
  <2>1. k # j /\ at[k] = "write" /\ scope[k] = t /\ read'[k] = read[k] /\ ~beaten[k] /\ t # s
    BY <1>1
  <2>2. d \in Docs /\ ~Excused(d)
    BY <1>3 DEF InScope, Present
  <2>3. ~\E i \in Jobs \ {k} : WillRead(i, d, t)
    BY <2>1, <2>2, <1>4
  <2>4. QED
    BY <2>1, <2>2, <2>3 DEF CoverInv, ReadingsMissNothing
<1>7. QED
  BY <1>5, <1>6 DEF CoverInv

LEMMA ReadersKeepCoverInv ==
  ASSUME CoverInv, UNCHANGED <<live, doc, profile, jobVars, history>>
  PROVE  CoverInv'
BY DEF CoverInv, RowsMissNothing, ReadingsMissNothing, InUse, InScope, Present, Tag, Shown, WillRead,
   Excused, GivenUp, jobVars, history

LEMMA NextCoverInv == RunsInv /\ CoverInv /\ [ProfilesNext]_profilesVars => CoverInv'
<1> SUFFICES ASSUME RunsInv, CoverInv, [ProfilesNext]_profilesVars PROVE CoverInv'
  OBVIOUS
<1>1. ASSUME NEW j \in Jobs, Run(j) \/ Fault(j) \/ Interrupt(j) PROVE CoverInv'
  BY <1>1, RunsKeepCoverInv, UpsertsKeepCoverInv DEF Run
<1>2. ASSUME NEW g \in Gets, HasJob(g) \/ FindProfile(g) \/ HasDocuments(g) PROVE CoverInv'
  BY <1>2, ReadersKeepCoverInv DEF HasJob, FindProfile, HasDocuments
<1>3. CASE UNCHANGED profilesVars
  BY <1>3, ReadersKeepCoverInv DEF profilesVars
<1>4. QED
  BY <1>1, <1>2, <1>3, DocumentsKeepCoverInv DEF ProfilesNext

(***************************************************************************)
(* What a row holds is there: a deletion is noted on the rows, and on the  *)
(* readings that do not know of it.                                        *)
(***************************************************************************)
RowsHoldNothingGone ==
  \A s \in InUse \ (missed \union overtaken) : Shown(s) \subseteq InScope(s)

ReadingsHoldNothingGone ==
  \A k \in Jobs, s \in InUse :
    at[k] = "write" /\ scope[k] = s /\ clean[k] => read[k] \subseteq InScope(s)

DeletionsAreNoted ==
  \A k \in Jobs : at[k] = "write" /\ ~clean[k] /\ ~beaten[k] => scope[k] \in missed

GoneInv == RowsHoldNothingGone /\ ReadingsHoldNothingGone /\ DeletionsAreNoted

LEMMA InitGoneInv == ProfilesInit => GoneInv
BY DEF ProfilesInit, GoneInv, RowsHoldNothingGone, ReadingsHoldNothingGone, DeletionsAreNoted, InUse,
   Shown, Scopes

\* Every step that changes no row: a document leaves no scope, and a reading
\* that goes on is the one it was.
LEMMA StepsKeepGoneInv ==
  ASSUME GoneInv, InUse' \subseteq InUse, UNCHANGED history,
         \A s \in InUse' : profile'[s] = profile[s] /\ InScope(s) \subseteq InScope(s)',
         \A k \in Jobs : at'[k] = "write" =>
           \/ /\ at[k] = "write" /\ scope'[k] = scope[k] /\ read'[k] = read[k]
              /\ clean'[k] = clean[k] /\ beaten'[k] = beaten[k]
           \/ \E s \in Scopes : scope'[k] = s /\ read'[k] = InScope(s)' /\ clean'[k]
  PROVE  GoneInv'
<1> USE DEF GoneInv
<1>1. RowsHoldNothingGone'
  BY DEF RowsHoldNothingGone, Shown, history
<1>2. ReadingsHoldNothingGone'
  BY DEF ReadingsHoldNothingGone
<1>3. DeletionsAreNoted'
  BY DEF DeletionsAreNoted, history
<1>4. QED
  BY <1>1, <1>2, <1>3

LEMMA DocumentsKeepGoneInv ==
  ASSUME RunsInv, GoneInv
  PROVE  /\ \A d \in Docs : AddChunks(d) \/ EndIngest(d) \/ DeleteDocument(d) => GoneInv'
         /\ \A e \in Eras : DeleteEra(e) => GoneInv'
         /\ DeletePersona => GoneInv'
         /\ \A r \in Recomputes : RequestRecompute(r) => GoneInv'
<1> USE DEF RunsInv
<1>1. ASSUME NEW d \in Docs, AddChunks(d) PROVE GoneInv'
  <2>1. \A s \in InUse' : InScope(s) \subseteq InScope(s)'
    BY <1>1 DEF AddChunks, ProfilesTypeOK, InScope, Present, Tag
  <2>2. QED
    BY <1>1, <2>1, StepsKeepGoneInv DEF AddChunks, jobVars, InUse
<1>2. ASSUME NEW d \in Docs, EndIngest(d) PROVE GoneInv'
  <2>1. \A s \in InUse' : InScope(s) \subseteq InScope(s)'
    BY <1>2 DEF EndIngest, ProfilesTypeOK, InScope, Present, Tag
  <2>2. \A k \in Jobs : at'[k] = "write" => at[k] = "write"
    BY <1>2 DEF EndIngest, Enqueue, ProfilesTypeOK, Jobs
  <2>3. QED
    BY <1>2, <2>1, <2>2, StepsKeepGoneInv DEF EndIngest, Enqueue, InUse
<1>3. ASSUME NEW d \in Docs, DeleteDocument(d) PROVE GoneInv'
  <2>1. /\ \A x \in Docs : doc'[x] = IF x = d THEN "deleted" ELSE doc[x]
        /\ missed' = missed \union {Whole, Tag(d)}
        /\ \A k \in Jobs : clean'[k] = (clean[k] /\ scope[k] \notin {Whole, Tag(d)})
        /\ UNCHANGED <<live, profile, at, scope, read, beaten, overtaken>>
    BY <1>3 DEF DeleteDocument, ProfilesTypeOK
  <2>2. \A s \in InUse : s \notin {Whole, Tag(d)} => InScope(s)' = InScope(s)
    BY <2>1 DEF InScope, Present, Tag
  <2>3. RowsHoldNothingGone'
    BY <2>1, <2>2 DEF GoneInv, RowsHoldNothingGone, Shown, InUse
  <2>4. ReadingsHoldNothingGone'
    BY <2>1, <2>2 DEF GoneInv, ReadingsHoldNothingGone, InUse
  <2>5. DeletionsAreNoted'
    <3> SUFFICES ASSUME NEW k \in Jobs, at[k] = "write", ~clean'[k], ~beaten[k]
                 PROVE  scope[k] \in missed'
      BY <2>1 DEF DeletionsAreNoted
    <3>1. CASE clean[k]
      <4>1. scope[k] \in {Whole, Tag(d)}
        BY <3>1, <2>1
      <4>2. QED
        BY <4>1, <2>1
    <3>2. CASE ~clean[k]
      BY <3>2, <2>1 DEF GoneInv, DeletionsAreNoted
    <3>3. QED
      BY <3>1, <3>2
  <2>6. QED
    BY <2>3, <2>4, <2>5 DEF GoneInv
<1>4. ASSUME NEW e \in Eras, DeleteEra(e) PROVE GoneInv'
  <2>0. InUse' = InUse \ {e} /\ e # Whole
    BY <1>4, ProfilesAssumption DEF DeleteEra, InUse
  <2>1. \A s \in InUse' : profile'[s] = profile[s]
    BY <1>4, <2>0 DEF DeleteEra, ProfilesTypeOK, InUse, Scopes
  <2>2. \A s \in InUse' : InScope(s) \subseteq InScope(s)'
    BY <1>4, <2>0, ProfilesAssumption DEF DeleteEra, InScope, Present, Tag, InUse, ProfilesTypeOK
  <2>3. QED
    BY <1>4, <2>0, <2>1, <2>2, StepsKeepGoneInv DEF DeleteEra, jobVars
<1>5. ASSUME NEW r \in Recomputes, RequestRecompute(r) PROVE GoneInv'
  <2>1. \A k \in Jobs : at'[k] = "write" => at[k] = "write"
    BY <1>5 DEF RequestRecompute, Enqueue, ProfilesTypeOK, Jobs
  <2>2. \A s \in InUse' : InScope(s) \subseteq InScope(s)'
    BY <1>5 DEF RequestRecompute, InScope, Present, Tag
  <2>3. QED
    BY <1>5, <2>1, <2>2, StepsKeepGoneInv DEF RequestRecompute, Enqueue, InUse
<1>6. ASSUME DeletePersona PROVE GoneInv'
  BY <1>6 DEF DeletePersona, GoneInv, RowsHoldNothingGone, ReadingsHoldNothingGone,
              DeletionsAreNoted, InUse, jobVars, history
<1>7. QED
  BY <1>1, <1>2, <1>3, <1>4, <1>5, <1>6

LEMMA RunsKeepGoneInv ==
  ASSUME RunsInv, GoneInv, NEW j \in Jobs
  PROVE  /\ Begin(j) \/ UpsertFails(j) \/ Fault(j) \/ Interrupt(j) => GoneInv'
         /\ \A s \in Scopes : ReadChunks(j, s) => GoneInv'
<1> USE DEF RunsInv
<1>1. ASSUME Begin(j) \/ UpsertFails(j) \/ Fault(j) \/ Interrupt(j) PROVE GoneInv'
  <2>1. /\ UNCHANGED <<live, doc, profile, history>>
        /\ \A k \in Jobs : at'[k] = "write" => k # j /\ at[k] = "write"
    BY <1>1 DEF Begin, UpsertFails, Fault, Interrupt, FailAttempt, ProfilesTypeOK
  <2>2. \A k \in Jobs : k # j => /\ scope'[k] = scope[k] /\ read'[k] = read[k]
                                 /\ clean'[k] = clean[k] /\ beaten'[k] = beaten[k]
    BY <1>1 DEF Begin, UpsertFails, Fault, Interrupt, FailAttempt, Drop, ProfilesTypeOK
  <2>3. InUse' \subseteq InUse /\ \A s \in InUse' : InScope(s) \subseteq InScope(s)'
    BY <2>1 DEF InUse, InScope, Present, Tag
  <2>4. QED
    BY <2>1, <2>2, <2>3, StepsKeepGoneInv
<1>2. ASSUME NEW s \in Scopes, ReadChunks(j, s) PROVE GoneInv'
  <2>1. /\ UNCHANGED <<live, doc, profile, history>>
        /\ scope'[j] = s /\ read'[j] = InScope(s) /\ clean'[j]
        /\ \A k \in Jobs : k # j => /\ at'[k] = at[k] /\ scope'[k] = scope[k] /\ read'[k] = read[k]
                                    /\ clean'[k] = clean[k] /\ beaten'[k] = beaten[k]
    BY <1>2 DEF ReadChunks, ProfilesTypeOK
  <2>2. InUse' \subseteq InUse /\ \A t : InScope(t)' = InScope(t)
    BY <2>1 DEF InUse, InScope, Present, Tag
  <2>3. QED
    BY <2>1, <2>2, StepsKeepGoneInv
<1>3. QED
  BY <1>1, <1>2

LEMMA UpsertsKeepGoneInv == ASSUME RunsInv, GoneInv, NEW j \in Jobs, Upsert(j) PROVE GoneInv'
<1> DEFINE s == scope[j]
<1>0. at[j] = "write" /\ s \in InUse /\ s \in Scopes
  BY DEF Upsert, InUse, RunsInv, ProfilesTypeOK
<1>1. /\ profile'[s] = read[j] /\ \A t \in InUse : t # s => profile'[t] = profile[t]
      /\ missed' = IF clean[j] THEN missed \ {s} ELSE missed
      /\ overtaken' = IF beaten[j] THEN overtaken \union {s} ELSE overtaken \ {s}
  BY <1>0 DEF Upsert, RunsInv, ProfilesTypeOK, InUse, Scopes
<1>2. \A k \in Jobs : at'[k] = "write" =>
        /\ k # j /\ at[k] = "write" /\ scope'[k] = scope[k] /\ read'[k] = read[k]
        /\ clean'[k] = clean[k] /\ beaten'[k] = (beaten[k] \/ scope[k] = s)
  BY <1>0 DEF Upsert, RunsInv, ProfilesTypeOK
<1>3. InUse' = InUse /\ \A t : InScope(t)' = InScope(t)
  BY DEF Upsert, InUse, InScope, Present, Tag
<1>4. RowsHoldNothingGone'
  <2> SUFFICES ASSUME NEW t \in InUse, t \notin missed' \union overtaken'
               PROVE  Shown(t)' \subseteq InScope(t)
    BY <1>3 DEF RowsHoldNothingGone
  <2>1. CASE t = s
    <3>1. ~beaten[j] /\ clean[j]
      BY <1>0, <1>1, <2>1 DEF GoneInv, DeletionsAreNoted
    <3>2. read[j] \subseteq InScope(t)
      BY <1>0, <2>1, <3>1 DEF GoneInv, ReadingsHoldNothingGone
    <3>3. QED
      BY <1>1, <2>1, <3>2 DEF Shown
  <2>2. CASE t # s
    BY <1>1, <2>2 DEF GoneInv, RowsHoldNothingGone, Shown
  <2>3. QED
    BY <2>1, <2>2
<1>5. ReadingsHoldNothingGone'
  BY <1>2, <1>3 DEF GoneInv, ReadingsHoldNothingGone
<1>6. DeletionsAreNoted'
  BY <1>1, <1>2 DEF GoneInv, DeletionsAreNoted
<1>7. QED
  BY <1>4, <1>5, <1>6 DEF GoneInv

LEMMA NextGoneInv == RunsInv /\ GoneInv /\ [ProfilesNext]_profilesVars => GoneInv'
<1> SUFFICES ASSUME RunsInv, GoneInv, [ProfilesNext]_profilesVars PROVE GoneInv'
  OBVIOUS
<1>1. ASSUME NEW j \in Jobs, Run(j) \/ Fault(j) \/ Interrupt(j) PROVE GoneInv'
  BY <1>1, RunsKeepGoneInv, UpsertsKeepGoneInv DEF Run
<1>2. ASSUME UNCHANGED <<live, doc, profile, jobVars, history>> PROVE GoneInv'
  BY <1>2 DEF GoneInv, RowsHoldNothingGone, ReadingsHoldNothingGone, DeletionsAreNoted, InUse, InScope,
     Present, Tag, Shown, jobVars, history
<1>3. ASSUME NEW g \in Gets, HasJob(g) \/ FindProfile(g) \/ HasDocuments(g) PROVE GoneInv'
  BY <1>2, <1>3 DEF HasJob, FindProfile, HasDocuments
<1>4. CASE UNCHANGED profilesVars
  BY <1>2, <1>4 DEF profilesVars
<1>5. QED
  BY <1>1, <1>3, <1>4, DocumentsKeepGoneInv DEF ProfilesNext

ProfilesInv == RunsInv /\ CoverInv /\ GoneInv

LEMMA ProfilesInvHolds == ProfilesSpec => []ProfilesInv
<1>1. ProfilesInit => ProfilesInv
  BY InitRunsInv, InitCoverInv, InitGoneInv DEF ProfilesInv
<1>2. ProfilesInv /\ [ProfilesNext]_profilesVars => ProfilesInv'
  BY NextRunsInv, NextCoverInv, NextGoneInv DEF ProfilesInv
<1>3. QED
  BY <1>1, <1>2, PTL DEF ProfilesSpec

\* With no job left, no ingest under way and no job given up, each row in use is
\* of exactly the documents there are, but for the races the history names.
THEOREM QuietProfilesAreCurrent == ProfilesSpec => []QuietProfileIsCurrent
<1>1. ASSUME ProfilesInv PROVE QuietProfileIsCurrent
  <2> SUFFICES ASSUME Pending = {}, GivenUp = {}, \A d \in Docs : doc[d] # "chunked",
                      NEW s \in InUse \ (missed \union overtaken)
               PROVE  Shown(s) = InScope(s)
    BY DEF QuietProfileIsCurrent, InUse, Shown
  <2>1. \A j \in Jobs, d \in Docs : ~WillRead(j, d, s)
    BY <1>1 DEF Pending, WillRead, ProfilesInv, RunsInv, PersonaTakesAll, InUse
  <2>2. \A d \in Docs : ~Excused(d)
    BY DEF Excused
  <2>3. InScope(s) \subseteq Shown(s)
    BY <1>1, <2>1, <2>2, ScopesHoldDocuments DEF ProfilesInv, CoverInv, RowsMissNothing
  <2>4. Shown(s) \subseteq InScope(s)
    BY <1>1 DEF ProfilesInv, GoneInv, RowsHoldNothingGone
  <2>5. QED
    BY <2>3, <2>4
<1>2. QED
  BY ProfilesInvHolds, <1>1, PTL

(***************************************************************************)
(* The request that shows the profile: what its answer must not lack is in *)
(* the row from the moment it found no job, and in every reading that may  *)
(* become the row.                                                         *)
(***************************************************************************)
KnownWereThere == \A g \in Gets : \A d \in known[g] : doc[d] # "none"

FoundIsInRow ==
  \A g \in Gets : get[g] = "find" /\ GivenUp = {} =>
    /\ known[g] \intersect Present \subseteq Shown(Whole)
    /\ \A k \in Jobs : at[k] = "write" /\ scope[k] = Whole => known[g] \intersect Present \subseteq read[k]

CountedIsGone ==
  \A g \in Gets : get[g] = "count" /\ GivenUp = {} => known[g] \intersect Present = {}

AnswerInv == KnownWereThere /\ FoundIsInRow /\ CountedIsGone /\ FinalAnswerIsCurrent

LEMMA InitAnswerInv == ProfilesInit => AnswerInv
BY DEF ProfilesInit, AnswerInv, KnownWereThere, FoundIsInRow, CountedIsGone, FinalAnswerIsCurrent

\* Every step of the documents and the jobs: no document comes back, and what is
\* read or written of the persona is all there was, or what had been read.
LEMMA StepsKeepAnswerInv ==
  ASSUME RunsInv, AnswerInv, UNCHANGED <<get, known>>, GivenUp \subseteq GivenUp',
         \A d \in Docs : doc[d] # "none" => doc'[d] # "none" /\ (d \in Present' => d \in Present),
         \/ profile'[Whole] = profile[Whole]
         \/ \E k \in Jobs : at[k] = "write" /\ scope[k] = Whole /\ profile'[Whole] = read[k],
         \A k \in Jobs : at'[k] = "write" /\ scope'[k] = Whole =>
           \/ at[k] = "write" /\ scope[k] = Whole /\ read'[k] = read[k]
           \/ read'[k] = Present'
  PROVE  AnswerInv'
<1> USE DEF AnswerInv
<1>0. /\ \A g \in Gets : known[g] \subseteq Docs
      /\ \A g \in Gets : known[g] \intersect Present' \subseteq known[g] \intersect Present
      /\ GivenUp' = {} => GivenUp = {}
  BY DEF RunsInv, ProfilesTypeOK, KnownWereThere
<1>1. KnownWereThere'
  BY <1>0 DEF KnownWereThere
<1>2. FoundIsInRow'
  <2> SUFFICES ASSUME NEW g \in Gets, get[g] = "find", GivenUp' = {}
               PROVE  /\ known[g] \intersect Present' \subseteq Shown(Whole)'
                      /\ \A k \in Jobs : at'[k] = "write" /\ scope'[k] = Whole =>
                           known[g] \intersect Present' \subseteq read'[k]
    BY DEF FoundIsInRow
  <2>1. /\ known[g] \intersect Present \subseteq Shown(Whole)
        /\ \A k \in Jobs : at[k] = "write" /\ scope[k] = Whole => known[g] \intersect Present \subseteq read[k]
    BY <1>0 DEF FoundIsInRow
  <2>2. known[g] \intersect Present' \subseteq Shown(Whole)'
    <3>1. CASE profile'[Whole] = profile[Whole]
      BY <1>0, <2>1, <3>1 DEF Shown
    <3>2. CASE \E k \in Jobs : at[k] = "write" /\ scope[k] = Whole /\ profile'[Whole] = read[k]
      <4>1. PICK k \in Jobs : at[k] = "write" /\ scope[k] = Whole /\ profile'[Whole] = read[k]
        BY <3>2
      <4>2. read[k] \in SUBSET Docs
        BY DEF RunsInv, ProfilesTypeOK
      <4>3. Shown(Whole)' = read[k]
        BY <4>1, <4>2, ProfilesAssumption DEF Shown
      <4>4. QED
        BY <1>0, <2>1, <4>1, <4>3
    <3>3. QED
      BY <3>1, <3>2
  <2>3. QED
    BY <1>0, <2>1, <2>2
<1>3. CountedIsGone'
  BY <1>0 DEF CountedIsGone
<1>4. FinalAnswerIsCurrent'
  BY <1>0 DEF FinalAnswerIsCurrent
<1>5. QED
  BY <1>1, <1>2, <1>3, <1>4

LEMMA DocumentsKeepAnswerInv ==
  ASSUME RunsInv, AnswerInv
  PROVE  /\ \A d \in Docs : AddChunks(d) \/ EndIngest(d) \/ DeleteDocument(d) => AnswerInv'
         /\ \A e \in Eras : DeleteEra(e) => AnswerInv'
         /\ DeletePersona => AnswerInv'
         /\ \A r \in Recomputes : RequestRecompute(r) => AnswerInv'
<1> USE DEF RunsInv
<1>1. ASSUME NEW d \in Docs, AddChunks(d) \/ DeleteDocument(d) PROVE AnswerInv'
  <2>1. \A x \in Docs : doc[x] # "none" => doc'[x] # "none" /\ (x \in Present' => x \in Present)
    BY <1>1 DEF AddChunks, DeleteDocument, ProfilesTypeOK, Present
  <2>2. UNCHANGED <<profile, at, scope, read, get, known>> /\ GivenUp' = GivenUp
    BY <1>1 DEF AddChunks, DeleteDocument, jobVars, GivenUp
  <2>3. QED
    BY <2>1, <2>2, StepsKeepAnswerInv
<1>2. ASSUME NEW d \in Docs, EndIngest(d) PROVE AnswerInv'
  <2>1. \A x \in Docs : doc[x] # "none" => doc'[x] # "none" /\ (x \in Present' => x \in Present)
    BY <1>2 DEF EndIngest, ProfilesTypeOK, Present
  <2>2. GivenUp \subseteq GivenUp' /\ \A k \in Jobs : at'[k] = "write" => at[k] = "write"
    BY <1>2 DEF EndIngest, Enqueue, ProfilesTypeOK, Jobs, GivenUp
  <2>3. QED
    BY <1>2, <2>1, <2>2, StepsKeepAnswerInv DEF EndIngest, Enqueue
<1>3. ASSUME NEW e \in Eras, DeleteEra(e) PROVE AnswerInv'
  <2>1. profile'[Whole] = profile[Whole]
    BY <1>3, ProfilesAssumption DEF DeleteEra, ProfilesTypeOK, Scopes
  <2>2. Present' = Present /\ GivenUp' = GivenUp
    BY <1>3 DEF DeleteEra, Present, GivenUp, jobVars
  <2>3. QED
    BY <1>3, <2>1, <2>2, StepsKeepAnswerInv DEF DeleteEra, jobVars
<1>4. ASSUME NEW r \in Recomputes, RequestRecompute(r) PROVE AnswerInv'
  <2>1. GivenUp \subseteq GivenUp' /\ \A k \in Jobs : at'[k] = "write" => at[k] = "write"
    BY <1>4 DEF RequestRecompute, Enqueue, ProfilesTypeOK, Jobs, GivenUp
  <2>2. Present' = Present
    BY <1>4 DEF RequestRecompute, Present
  <2>3. QED
    BY <1>4, <2>1, <2>2, StepsKeepAnswerInv DEF RequestRecompute, Enqueue
<1>5. ASSUME DeletePersona PROVE AnswerInv'
  <2>1. /\ Present' = {} /\ GivenUp' = GivenUp /\ UNCHANGED <<get, known>>
        /\ \A d \in Docs : doc'[d] = "deleted"
    BY <1>5 DEF DeletePersona, Present, GivenUp, jobVars
  <2>2. \A g \in Gets : known[g] \subseteq Docs
    BY DEF ProfilesTypeOK
  <2>3. KnownWereThere'
    BY <2>1, <2>2 DEF KnownWereThere
  <2>4. FoundIsInRow' /\ CountedIsGone'
    BY <2>1 DEF FoundIsInRow, CountedIsGone
  <2>5. FinalAnswerIsCurrent'
    BY <2>1 DEF AnswerInv, FinalAnswerIsCurrent
  <2>6. QED
    BY <2>3, <2>4, <2>5 DEF AnswerInv
<1>6. QED
  BY <1>1, <1>2, <1>3, <1>4, <1>5

LEMMA RunsKeepAnswerInv ==
  ASSUME RunsInv, AnswerInv, NEW j \in Jobs, Run(j) \/ Fault(j) \/ Interrupt(j)
  PROVE  AnswerInv'
<1> USE DEF RunsInv
<1>1. UNCHANGED <<doc, get, known>> /\ Present' = Present
  BY DEF Run, Begin, ReadChunks, Upsert, UpsertFails, Fault, Interrupt, Present
<1>2. GivenUp \subseteq GivenUp'
  BY DEF Run, Begin, ReadChunks, Upsert, UpsertFails, Fault, Interrupt, FailAttempt, Running, GivenUp,
     ProfilesTypeOK
<1>3. CASE Begin(j) \/ UpsertFails(j) \/ Fault(j) \/ Interrupt(j)
  <2>1. /\ profile' = profile
        /\ \A k \in Jobs : at'[k] = "write" => k # j /\ at[k] = "write"
    BY <1>3 DEF Begin, UpsertFails, Fault, Interrupt, FailAttempt, ProfilesTypeOK
  <2>2. \A k \in Jobs : k # j => scope'[k] = scope[k] /\ read'[k] = read[k]
    BY <1>3 DEF Begin, UpsertFails, Fault, Interrupt, FailAttempt, Drop, ProfilesTypeOK
  <2>3. QED
    BY <1>1, <1>2, <2>1, <2>2, StepsKeepAnswerInv
<1>4. ASSUME NEW s \in Scopes, ReadChunks(j, s) PROVE AnswerInv'
  <2>1. /\ profile' = profile /\ scope'[j] = s /\ read'[j] = InScope(s)
        /\ \A k \in Jobs : k # j => at'[k] = at[k] /\ scope'[k] = scope[k] /\ read'[k] = read[k]
    BY <1>4 DEF ReadChunks, ProfilesTypeOK
  <2>2. s = Whole => read'[j] = Present'
    BY <1>1, <2>1 DEF InScope
  <2>3. QED
    BY <1>1, <1>2, <2>1, <2>2, StepsKeepAnswerInv
<1>5. CASE Upsert(j)
  <2>1. /\ at[j] = "write"
        /\ profile'[Whole] = IF scope[j] = Whole THEN read[j] ELSE profile[Whole]
    BY <1>5 DEF Upsert, ProfilesTypeOK, Scopes
  <2>2. \A k \in Jobs : at'[k] = "write" =>
          at[k] = "write" /\ scope'[k] = scope[k] /\ read'[k] = read[k]
    BY <1>5 DEF Upsert, ProfilesTypeOK
  <2>3. QED
    BY <1>1, <1>2, <2>1, <2>2, StepsKeepAnswerInv
<1>6. QED
  BY <1>3, <1>4, <1>5 DEF Run

\* No job pending and none given up: the persona's row has every document whose
\* ingest ended, unless an older reading has overwritten it.
LEMMA NoJobMeansCurrent ==
  ASSUME RunsInv, CoverInv, Pending = {}, GivenUp = {}, Whole \notin overtaken,
         NEW d \in Docs, doc[d] = "ingested"
  PROVE  d \in Shown(Whole)
<1>1. d \in InScope(Whole) /\ Whole \in InUse
  BY DEF InScope, Present, InUse, RunsInv, PersonaTakesAll
<1>2. ~Excused(d) /\ ~\E j \in Jobs : WillRead(j, d, Whole)
  BY <1>1 DEF Excused, WillRead, Pending, InUse
<1>3. QED
  BY <1>1, <1>2 DEF CoverInv, RowsMissNothing

LEMMA ReadersKeepAnswerInv ==
  ASSUME RunsInv, CoverInv, AnswerInv, NEW g \in Gets,
         HasJob(g) \/ FindProfile(g) \/ HasDocuments(g)
  PROVE  AnswerInv'
<1> USE DEF RunsInv
<1>0. /\ UNCHANGED <<doc, profile, at, scope, read>> /\ GivenUp' = GivenUp /\ Present' = Present
      /\ Shown(Whole)' = Shown(Whole)
  BY DEF HasJob, FindProfile, HasDocuments, jobVars, GivenUp, Present, Shown
<1>1. \A h \in Gets : h # g => get'[h] = get[h] /\ known'[h] = known[h]
  BY DEF HasJob, FindProfile, HasDocuments, ProfilesTypeOK
<1>2. CASE HasJob(g)
  <2>1. /\ get'[g] = IF Pending # {} THEN "findPending" ELSE "find"
        /\ known'[g] = IF Whole \in missed \union overtaken THEN {}
                       ELSE {d \in Docs : doc[d] = "ingested"}
    BY <1>2 DEF HasJob, ProfilesTypeOK
  <2>2. KnownWereThere'
    BY <1>0, <1>1, <2>1 DEF AnswerInv, KnownWereThere
  <2>3. FoundIsInRow'
    <3>1. ASSUME get'[g] = "find", GivenUp = {} PROVE known'[g] \subseteq Shown(Whole)
      BY <3>1, <2>1, NoJobMeansCurrent
    <3>2. ASSUME get'[g] = "find" PROVE Present = {} \/ \A k \in Jobs : at[k] # "write"
      BY <3>2, <2>1 DEF Pending, Running, PersonaTakesAll
    <3>3. QED
      BY <1>0, <1>1, <3>1, <3>2 DEF AnswerInv, FoundIsInRow
  <2>4. CountedIsGone' /\ FinalAnswerIsCurrent'
    BY <1>0, <1>1, <2>1 DEF AnswerInv, CountedIsGone, FinalAnswerIsCurrent
  <2>5. QED
    BY <2>2, <2>3, <2>4 DEF AnswerInv
<1>3. CASE FindProfile(g)
  <2>1. \/ get'[g] = "pending" /\ known'[g] = {}
        \/ /\ get[g] = "find" /\ profile[Whole] # NoRow
           /\ get'[g] = "final" /\ known'[g] = (known[g] \ profile[Whole]) \intersect Present
        \/ /\ get[g] = "find" /\ profile[Whole] = NoRow
           /\ get'[g] = "count" /\ known'[g] = known[g]
    BY <1>3 DEF FindProfile, ProfilesTypeOK
  <2>2. KnownWereThere'
    BY <1>0, <1>1, <2>1 DEF AnswerInv, KnownWereThere
  <2>3. FoundIsInRow'
    BY <1>0, <1>1, <2>1 DEF AnswerInv, FoundIsInRow
  <2>4. CountedIsGone' /\ FinalAnswerIsCurrent'
    <3>1. ASSUME get[g] = "find", GivenUp = {} PROVE known[g] \intersect Present \subseteq Shown(Whole)
      BY <3>1 DEF AnswerInv, FoundIsInRow
    <3>2. ASSUME get'[g] = "count", GivenUp = {} PROVE known'[g] \intersect Present = {}
      BY <3>1, <3>2, <2>1 DEF Shown
    <3>3. ASSUME get'[g] \in {"final", "missing"}, GivenUp = {} PROVE known'[g] = {}
      BY <3>1, <3>3, <2>1 DEF Shown
    <3>4. QED
      BY <1>0, <1>1, <3>2, <3>3 DEF AnswerInv, CountedIsGone, FinalAnswerIsCurrent
  <2>5. QED
    BY <2>2, <2>3, <2>4 DEF AnswerInv
<1>4. CASE HasDocuments(g)
  <2>1. /\ get[g] = "count" /\ get'[g] \in {"pending", "missing"}
        /\ known'[g] = IF Present # {} THEN {} ELSE known[g] \intersect Present
    BY <1>4 DEF HasDocuments, ProfilesTypeOK
  <2>2. KnownWereThere'
    BY <1>0, <1>1, <2>1 DEF AnswerInv, KnownWereThere
  <2>3. FoundIsInRow' /\ CountedIsGone'
    BY <1>0, <1>1, <2>1 DEF AnswerInv, FoundIsInRow, CountedIsGone
  <2>4. FinalAnswerIsCurrent'
    BY <1>0, <1>1, <2>1 DEF AnswerInv, FinalAnswerIsCurrent
  <2>5. QED
    BY <2>2, <2>3, <2>4 DEF AnswerInv
<1>5. QED
  BY <1>2, <1>3, <1>4

\* A profile shown as final lacks nothing whose ingest had ended when the
\* request began and no job was pending, however documents, eras and runs went
\* on between its statements; and "none" is said of no such persona.
THEOREM FinalAnswersAreCurrent == ProfilesSpec => []FinalAnswerIsCurrent
<1>1. ASSUME ProfilesInv, AnswerInv, [ProfilesNext]_profilesVars PROVE AnswerInv'
  <2>1. CASE UNCHANGED profilesVars
    BY <1>1, <2>1 DEF AnswerInv, KnownWereThere, FoundIsInRow, CountedIsGone, FinalAnswerIsCurrent,
       Present, Shown, GivenUp, profilesVars, jobVars
  <2>2. QED
    BY <1>1, <2>1, DocumentsKeepAnswerInv, RunsKeepAnswerInv, ReadersKeepAnswerInv
       DEF ProfilesNext, ProfilesInv
<1>2. AnswerInv => FinalAnswerIsCurrent
  BY DEF AnswerInv
<1>3. QED
  BY InitAnswerInv, ProfilesInvHolds, <1>1, <1>2, PTL DEF ProfilesSpec

-----------------------------------------------------------------------------
(***************************************************************************)
(* The steps of the ledger that a job's steps are.                         *)
(***************************************************************************)
LEMMA JobMoves ==
  ASSUME ProfilesTypeOK, NEW j \in Jobs, NEW l, at' = [at EXCEPT ![j] = l], live' = live
  PROVE  /\ Executing' = IF l \in Running THEN Executing \union {j} ELSE Executing \ {j}
         /\ Whole \in live => /\ JobOutcome[j] = OutcomeAt(at[j])
                             /\ JobOutcome' = [JobOutcome EXCEPT ![j] = OutcomeAt(l)]
         /\ Whole \notin live => JobOutcome' = JobOutcome
<1>1. Executing' = IF l \in Running THEN Executing \union {j} ELSE Executing \ {j}
  BY DEF ProfilesTypeOK, Executing
<1>2. ASSUME Whole \in live
      PROVE  /\ JobOutcome[j] = OutcomeAt(at[j])
             /\ JobOutcome' = [JobOutcome EXCEPT ![j] = OutcomeAt(l)]
  <2> DEFINE Of(k) == OutcomeAt(at[k])
  <2>1. JobOutcome = [k \in Jobs |-> OutcomeAt(at[k])]
    BY <1>2 DEF JobOutcome
  <2>2. JobOutcome' = [k \in Jobs |-> OutcomeAt(at'[k])]
    BY <1>2 DEF JobOutcome, OutcomeAt
  <2>3. \A k \in Jobs : at'[k] = IF k = j THEN l ELSE at[k]
    BY DEF ProfilesTypeOK
  <2>4. QED
    BY <2>1, <2>2, <2>3
<1>3. ASSUME Whole \notin live PROVE JobOutcome' = JobOutcome
  BY <1>3 DEF JobOutcome
<1>4. QED
  BY <1>1, <1>2, <1>3

LEMMA JobEnqueued ==
  ASSUME ProfilesTypeOK, NEW j \in Jobs, Enqueue(j), live' = live
  PROVE  Ledger!Next
<1>1. at[j] = "none" /\ Whole \in live /\ at' = [at EXCEPT ![j] = "queued"]
  BY DEF Enqueue
<1>2. /\ JobOutcome[j] = "absent" /\ JobOutcome' = [JobOutcome EXCEPT ![j] = "pending"]
      /\ Executing' = Executing \ {j}
  BY <1>1, JobMoves DEF OutcomeAt, Running
<1>3. Ledger!Submit(j)
  BY <1>1, <1>2 DEF Ledger!Submit, Executing, Running
<1>4. QED
  BY <1>3 DEF Ledger!Next

\* A run that stops without a result, or whose job was dropped.
LEMMA JobStops ==
  ASSUME NEW j \in Executing, Executing' = Executing \ {j}, JobOutcome' = JobOutcome
  PROVE  Ledger!Next
<1> DEFINE S == {j}
<1>1. S \in SUBSET Executing /\ S # {} /\ Executing' = Executing \ S
  OBVIOUS
<1> HIDE DEF S
<1>2. Ledger!Interrupt
  BY <1>1 DEF Ledger!Interrupt
<1>3. QED
  BY <1>2 DEF Ledger!Next

\* A run that fails is an execution that ends.
LEMMA JobAttemptFails ==
  ASSUME ProfilesTypeOK, NEW j \in Jobs, at[j] \in Running, FailAttempt(j), live' = live
  PROVE  Ledger!Next
<1>1. PICK l \in {"queued", "failed"} : at' = [at EXCEPT ![j] = l]
  BY DEF FailAttempt
<1>2. OutcomeAt(at[j]) = "pending" /\ OutcomeAt(l) \in {"pending", "failed"} /\ l \notin Running
  BY <1>1 DEF OutcomeAt, Running
<1>3. j \in Executing
  BY DEF Executing
<1>4. CASE Whole \in live
  <2>1. Ledger!End(j)
    BY <1>1, <1>2, <1>3, <1>4, JobMoves DEF Ledger!End
  <2>2. QED
    BY <2>1 DEF Ledger!Next
<1>5. CASE Whole \notin live
  BY <1>1, <1>2, <1>3, <1>5, JobMoves, JobStops
<1>6. QED
  BY <1>4, <1>5

\* Every step is one of the ledger, or none.
LEMMA NextKeepsLedger ==
  ProfilesTypeOK /\ [ProfilesNext]_profilesVars => [Ledger!Next]_(Ledger!ledgerVars)
<1> SUFFICES ASSUME ProfilesTypeOK, [ProfilesNext]_profilesVars
             PROVE  Ledger!Next \/ UNCHANGED Ledger!ledgerVars
  OBVIOUS
<1> DEFINE Kept == Ledger!Next \/ UNCHANGED Ledger!ledgerVars
<1>1. ASSUME UNCHANGED at, Whole \in live <=> Whole \in live' PROVE Kept
  BY <1>1 DEF Ledger!ledgerVars, JobOutcome, Executing
<1>2. ASSUME NEW d \in Docs, AddChunks(d) \/ DeleteDocument(d) PROVE Kept
  BY <1>1, <1>2 DEF AddChunks, DeleteDocument, jobVars
<1>3. ASSUME NEW d \in Docs, EndIngest(d) PROVE Kept
  BY <1>3, JobEnqueued DEF EndIngest, Jobs
<1>4. ASSUME NEW r \in Recomputes, RequestRecompute(r) PROVE Kept
  BY <1>4, JobEnqueued DEF RequestRecompute, Jobs
<1>5. ASSUME NEW e \in Eras, DeleteEra(e) PROVE Kept
  BY <1>1, <1>5, ProfilesAssumption DEF DeleteEra, jobVars
<1>6. ASSUME NEW j \in Jobs, Begin(j) PROVE Kept
  <2>1. at[j] = "queued" /\ at' = [at EXCEPT ![j] = "read"] /\ live' = live /\ Whole \in live
    BY <1>6 DEF Begin
  <2>2. /\ JobOutcome[j] = "pending" /\ JobOutcome' = [JobOutcome EXCEPT ![j] = "pending"]
        /\ Executing' = Executing \union {j}
    BY <2>1, JobMoves DEF OutcomeAt, Running
  <2>3. j \notin Executing /\ JobOutcome' = JobOutcome
    BY <2>1, <2>2 DEF Executing, Running, JobOutcome
  <2>4. Ledger!Begin(j)
    BY <2>2, <2>3 DEF Ledger!Begin
  <2>5. QED
    BY <2>4 DEF Ledger!Next
<1>7. ASSUME NEW j \in Jobs, NEW l \in Running, at[j] \in Running, live' = live,
             at' = [at EXCEPT ![j] = l]
      PROVE  Kept
  <2>1. Executing' = Executing
    BY <1>7, JobMoves DEF Executing
  <2>2. OutcomeAt(at[j]) = "pending" /\ OutcomeAt(l) = "pending"
    BY <1>7 DEF OutcomeAt, Running
  <2>3. JobOutcome' = JobOutcome
    BY <1>7, <2>2, JobMoves DEF JobOutcome
  <2>4. QED
    BY <2>1, <2>3 DEF Ledger!ledgerVars
<1>8. ASSUME NEW j \in Jobs, Upsert(j) PROVE Kept
  <2>1. at[j] = "write" /\ j \in Executing /\ live' = live
    BY <1>8 DEF Upsert, Executing, Running
  <2>2. CASE at' = [at EXCEPT ![j] = "done"]
    <3>1. OutcomeAt("write") = "pending" /\ OutcomeAt("done") = "done" /\ "done" \notin Running
      BY DEF OutcomeAt, Running
    <3>2. CASE Whole \in live
      <4>1. Ledger!End(j)
        BY <2>1, <2>2, <3>1, <3>2, JobMoves DEF Ledger!End
      <4>2. QED
        BY <4>1 DEF Ledger!Next
    <3>3. CASE Whole \notin live
      BY <2>1, <2>2, <3>1, <3>3, JobMoves, JobStops
    <3>4. QED
      BY <3>2, <3>3
  <2>3. CASE at' = [at EXCEPT ![j] = "read"]
    BY <1>7, <2>1, <2>3 DEF Running
  <2>4. QED
    BY <1>8, <2>2, <2>3 DEF Upsert
<1>9. ASSUME NEW j \in Jobs, UpsertFails(j) PROVE Kept
  BY <1>9, JobAttemptFails DEF UpsertFails, Running
<1>10. ASSUME NEW j \in Jobs, Fault(j) PROVE Kept
  BY <1>10, JobAttemptFails DEF Fault
<1>11. ASSUME NEW j \in Jobs, Interrupt(j) PROVE Kept
  <2>1. at[j] \in Running /\ at' = [at EXCEPT ![j] = "queued"] /\ live' = live
    BY <1>11 DEF Interrupt
  <2>2. OutcomeAt(at[j]) = "pending" /\ OutcomeAt("queued") = "pending" /\ "queued" \notin Running
    BY <2>1 DEF OutcomeAt, Running
  <2>3. Executing' = Executing \ {j} /\ j \in Executing
    BY <2>1, <2>2, JobMoves DEF Executing
  <2>4. JobOutcome' = JobOutcome
    BY <2>1, <2>2, JobMoves DEF JobOutcome
  <2>5. QED
    BY <2>3, <2>4, JobStops
<1>12. ASSUME NEW g \in Gets, HasJob(g) \/ FindProfile(g) \/ HasDocuments(g) PROVE Kept
  BY <1>1, <1>12 DEF HasJob, FindProfile, HasDocuments, jobVars
<1>13. ASSUME NEW j \in Jobs, NEW s \in Scopes, ReadChunks(j, s) PROVE Kept
  BY <1>7, <1>13 DEF ReadChunks, Running
<1>14. CASE DeletePersona
  <2> DEFINE R == {Jobs}
  <2>1. JobOutcome' = [j \in Jobs |-> IF j \in Jobs THEN "dropped" ELSE JobOutcome[j]]
    BY <1>14 DEF DeletePersona, JobOutcome
  <2>2. Executing' = Executing
    BY <1>14 DEF DeletePersona, Executing, jobVars
  <2>3. Jobs \in R /\ Ledger!Drop(Jobs)
    BY <2>1, <2>2 DEF Ledger!Drop
  <2>4. \E S \in R : Ledger!Drop(S)
    BY <2>3
  <2>5. QED
    BY <2>4 DEF Ledger!Next
<1>15. CASE UNCHANGED profilesVars
  BY <1>1, <1>15 DEF profilesVars, jobVars
<1>16. QED
  BY <1>2, <1>3, <1>4, <1>5, <1>6, <1>8, <1>9, <1>10, <1>11, <1>12, <1>13, <1>14, <1>15
     DEF ProfilesNext, Run

\* The recompute_profile jobs stay within the ledger that the queue implements,
\* for any documents, eras, requests and faults: executed one at a time, pending
\* until done or failed, and an era deleted under a run fails its execution only.
THEOREM ProfilesKeepTheLedger == ProfilesSpec => RecomputesKeepTheLedger
<1>1. ProfilesInit => Ledger!Init
  BY DEF ProfilesInit, Ledger!Init, JobOutcome, Executing, OutcomeAt, Running, Scopes
<1>2. ProfilesSpec => []ProfilesTypeOK
  BY ProfilesTypeCorrect, PTL
<1>3. QED
  BY <1>1, <1>2, NextKeepsLedger, PTL DEF ProfilesSpec, RecomputesKeepTheLedger, Ledger!Spec
=============================================================================
