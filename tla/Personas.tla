------------------------------ MODULE Personas ------------------------------
(***************************************************************************)
(* The personas of one user (routes/personas.rs, repositories/personas.rs): *)
(* the transactions that create and delete them under the user's quota,    *)
(* renaming, and the avatar, a file whose path is a column of the row.     *)
(*                                                                         *)
(* create holds the user's row FOR UPDATE and may then wait for a name; a  *)
(* delete holds the persona's row and then waits for the user's: the two   *)
(* can wait for each other, and PostgreSQL aborts one.  The avatar's file  *)
(* is written before its path and removed, by a detached task, after it.   *)
(*                                                                         *)
(* The user stays: a deletion of the account that gets through (module     *)
(* Accounts) takes all of this with the user's row.  It removes the        *)
(* avatars first, and seldom gets through.                                 *)
(***************************************************************************)
EXTENDS Integers, FiniteSets

CONSTANTS
  Existing,   \* the personas at the beginning
  Creates,    \* requests to create; each names the persona it inserts
  Renames, Deletes, AvatarUploads, AvatarDeletes,       \* requests on a persona
  PersonaOf,  \* the persona in the path of such a request
  NameOf,     \* the name of an existing persona, or in a request's body
  Quota,      \* users.quota_persona_count
  Budget,     \* bound on handlers dropped and restarts
  NoFile, NoOne

Personas == Existing \union Creates
OnPersona == Renames \union Deletes \union AvatarUploads \union AvatarDeletes
Requests == Creates \union OnPersona
Named    == Personas \union Renames

ASSUME RequestsAssumption ==
  /\ IsFiniteSet(Personas) /\ Existing \intersect Creates = {}
  /\ PersonaOf \in [OnPersona -> Personas]
  /\ NameOf \in [Named -> {NameOf[x] : x \in Named}]
  /\ \A p, q \in Existing : NameOf[p] = NameOf[q] => p = q
ASSUME QuotaAssumption == Quota \in Nat /\ Cardinality(Existing) \in 0 .. Quota
ASSUME BudgetAssumption ==
  Budget \in Nat /\ NoFile \notin AvatarUploads /\ NoOne \notin Requests

VARIABLES
  rows,      \* the rows of `personas`
  name,      \* personas.name
  path,      \* the rows whose avatar_path is set
  count,     \* users.current_persona_count
  replies,   \* idempotency_keys: creates whose 201 is stored
  userLock,  \* the create that holds the user's row
  deleting,  \* the delete that holds each persona's row, which it has deleted
  file,      \* avatars/<persona>.webp, by the upload that wrote it
  removals,  \* detached tasks: a persona's avatar to remove
  pc,        \* where each request is
  lost,      \* history: avatars removed while claimed
  cut,       \* history: personas with an avatar step that was cut short
  spent

tableVars == <<rows, name, count, replies>>
lockVars  == <<userLock, deleting>>
diskVars  == <<path, file, removals, lost, cut>>
vars == <<tableVars, lockVars, diskVars, pc, spent>>

Names == {NameOf[x] : x \in Named}

TypeOK ==
  /\ rows \in SUBSET Personas
  /\ name \in [Personas -> Names]
  /\ path \in SUBSET Personas
  /\ count \in 0 .. Quota
  /\ replies \in SUBSET Creates
  /\ userLock \in Creates \union {NoOne}
  /\ deleting \in [Personas -> Deletes \union {NoOne}]
  /\ file \in [Personas -> AvatarUploads \union {NoFile}]
  /\ removals \in SUBSET Personas
  /\ pc \in [Requests -> {"idle", "lockUser", "insert", "store", "update", "lock", "count",
                          "spawn", "write", "setPath", "orphan", "clear", "ended"}]
  /\ lost \in SUBSET Personas /\ cut \in SUBSET Personas
  /\ spent \in 0 .. Budget

Init ==
  /\ rows = Existing /\ name = [p \in Personas |-> NameOf[p]] /\ path = {}
  /\ count = Cardinality(Existing)
  /\ replies = {}
  /\ userLock = NoOne /\ deleting = [p \in Personas |-> NoOne]
  /\ file = [p \in Personas |-> NoFile] /\ removals = {}
  /\ pc = [r \in Requests |-> "idle"]
  /\ lost = {} /\ cut = {}
  /\ spent = 0

-----------------------------------------------------------------------------
At(l) == {r \in Requests : pc[r] = l}

GoTo(r, l) == pc' = [pc EXCEPT ![r] = l]

Free(p) == deleting[p] = NoOne

\* UNIQUE (user_id, name): a row being deleted makes its name neither taken nor
\* free until that transaction ends.
Taken(n)     == \E p \in rows : name[p] = n /\ Free(p)
Undecided(n) == \E p \in rows : name[p] = n /\ ~Free(p)

-----------------------------------------------------------------------------
(* create_persona.  A repeat of the key, whose body is the same, is        *)
(* answered from the store.                                                *)

CheckKey(c) ==
  /\ pc[c] = "idle"
  /\ GoTo(c, IF \E d \in replies : NameOf[d] = NameOf[c] THEN "ended" ELSE "lockUser")
  /\ UNCHANGED <<tableVars, lockVars, diskVars, spent>>

\* SELECT ... FOR UPDATE, and the quota.
LockUser(c) ==
  /\ pc[c] = "lockUser" /\ userLock = NoOne
  /\ IF count >= Quota
     THEN GoTo(c, "ended") /\ UNCHANGED userLock
     ELSE GoTo(c, "insert") /\ userLock' = c
  /\ UNCHANGED <<tableVars, deleting, diskVars, spent>>

\* INSERT, which waits for an undecided name; the counter; COMMIT.
InsertPersona(c) ==
  /\ pc[c] = "insert" /\ ~Undecided(NameOf[c])
  /\ IF Taken(NameOf[c])
     THEN GoTo(c, "ended") /\ UNCHANGED <<rows, count>>
     ELSE /\ rows' = rows \union {c} /\ count' = count + 1
          /\ GoTo(c, "store")
  /\ userLock' = IF userLock = c THEN NoOne ELSE userLock
  /\ UNCHANGED <<name, replies, deleting, diskVars, spent>>

StoreReply(c) ==
  /\ pc[c] = "store"
  /\ replies' = replies \union {c}
  /\ GoTo(c, "ended")
  /\ UNCHANGED <<rows, name, count, lockVars, diskVars, spent>>

-----------------------------------------------------------------------------
\* patch_persona: one UPDATE, which waits for the row and for the name.
Rename(r) ==
  LET p == PersonaOf[r]
  IN /\ pc[r] = "idle" /\ Free(p) /\ ~Undecided(NameOf[r])
     /\ name' = IF p \in rows /\ ~Taken(NameOf[r]) THEN [name EXCEPT ![p] = NameOf[r]] ELSE name
     /\ GoTo(r, "ended")
     /\ UNCHANGED <<rows, count, replies, lockVars, diskVars, spent>>

-----------------------------------------------------------------------------
(* delete_persona.                                                         *)

\* SELECT ... FOR UPDATE and DELETE.
LockPersona(d) ==
  LET p == PersonaOf[d]
  IN /\ pc[d] = "idle" /\ Free(p)
     /\ IF p \in rows
        THEN deleting' = [deleting EXCEPT ![p] = d] /\ GoTo(d, "count")
        ELSE GoTo(d, "ended") /\ UNCHANGED deleting
     /\ UNCHANGED <<tableVars, userLock, diskVars, spent>>

\* Variant: the counter is left to the caller.
CommitDeleteUncounted(d) ==
  LET p == PersonaOf[d]
  IN /\ pc[d] = "count" /\ userLock = NoOne
     /\ rows' = rows \ {p}
     /\ deleting' = [deleting EXCEPT ![p] = NoOne]
     /\ path' = path \ {p}
     /\ GoTo(d, IF p \in path THEN "spawn" ELSE "ended")
     /\ UNCHANGED <<count, name, replies, userLock, file, removals, lost, cut, spent>>

\* The counter, which waits for the user's row; COMMIT. If the row had an avatar
\* the handler still has it to remove, and writes the audit log first.
CommitDelete(d) ==
  LET p == PersonaOf[d]
  IN /\ pc[d] = "count" /\ userLock = NoOne
     /\ rows' = rows \ {p} /\ count' = IF count > 0 THEN count - 1 ELSE 0
     /\ deleting' = [deleting EXCEPT ![p] = NoOne]
     /\ path' = path \ {p}
     /\ GoTo(d, IF p \in path THEN "spawn" ELSE "ended")
     /\ UNCHANGED <<name, replies, userLock, file, removals, lost, cut, spent>>

\* The task that removes the avatar is detached.
SpawnRemoval(d) ==
  /\ pc[d] = "spawn"
  /\ removals' = removals \union {PersonaOf[d]}
  /\ GoTo(d, "ended")
  /\ UNCHANGED <<tableVars, lockVars, path, file, lost, cut, spent>>

-----------------------------------------------------------------------------
(* upload_avatar.                                                          *)

\* Variant: the path is set before the file is there.
FindAndSetPath(a) ==
  LET p == PersonaOf[a]
  IN /\ pc[a] = "idle"
     /\ IF p \in rows /\ Free(p)
        THEN GoTo(a, "write") /\ path' = path \union {p}
        ELSE GoTo(a, "ended") /\ UNCHANGED path
     /\ UNCHANGED <<tableVars, lockVars, file, removals, lost, cut, spent>>

\* The ownership check; the image is then received and converted.
FindPersona(a) ==
  /\ pc[a] = "idle"
  /\ GoTo(a, IF PersonaOf[a] \in rows THEN "write" ELSE "ended")
  /\ UNCHANGED <<tableVars, lockVars, diskVars, spent>>

WriteFile(a) ==
  LET p == PersonaOf[a]
  IN /\ pc[a] = "write"
     /\ file' = [file EXCEPT ![p] = a]
     /\ lost' = lost \ {p}
     /\ GoTo(a, "setPath")
     /\ UNCHANGED <<tableVars, lockVars, path, removals, cut, spent>>

\* Variant: a persona deleted meanwhile is not noticed.
SetPathOnly(a) ==
  LET p == PersonaOf[a]
  IN /\ pc[a] = "setPath" /\ Free(p)
     /\ path' = IF p \in rows THEN path \union {p} ELSE path
     /\ GoTo(a, "ended")
     /\ UNCHANGED <<tableVars, lockVars, file, removals, lost, cut, spent>>

\* set_avatar_path waits for the row.  If it is gone the file goes too.
SetPath(a) ==
  LET p == PersonaOf[a]
  IN /\ pc[a] = "setPath" /\ Free(p)
     /\ IF p \in rows
        THEN GoTo(a, "ended") /\ path' = path \union {p}
        ELSE GoTo(a, "orphan") /\ UNCHANGED path
     /\ UNCHANGED <<tableVars, lockVars, file, removals, lost, cut, spent>>

RemoveOrphan(a) ==
  /\ pc[a] = "orphan"
  /\ file' = [file EXCEPT ![PersonaOf[a]] = NoFile]
  /\ GoTo(a, "ended")
  /\ UNCHANGED <<tableVars, lockVars, path, removals, lost, cut, spent>>

-----------------------------------------------------------------------------
(* delete_avatar.                                                          *)

FindPath(x) ==
  /\ pc[x] = "idle"
  /\ GoTo(x, IF PersonaOf[x] \in rows \intersect path THEN "clear" ELSE "ended")
  /\ UNCHANGED <<tableVars, lockVars, diskVars, spent>>

\* clear_avatar_path waits for the row and its result is not looked at; the
\* file is removed by a task.
ClearPath(x) ==
  LET p == PersonaOf[x]
  IN /\ pc[x] = "clear" /\ Free(p)
     /\ path' = path \ {p}
     /\ removals' = removals \union {p}
     /\ GoTo(x, "ended")
     /\ UNCHANGED <<tableVars, lockVars, file, lost, cut, spent>>

\* The file on disk is that of a row, or of an upload about to say so.
Claimed(p) ==
  /\ file[p] # NoFile
  /\ p \in path \/ \E a \in AvatarUploads : PersonaOf[a] = p /\ pc[a] = "setPath"

RemoveAvatar(p) ==
  /\ p \in removals
  /\ removals' = removals \ {p}
  /\ file' = [file EXCEPT ![p] = NoFile]
  /\ lost' = IF Claimed(p) THEN lost \union {p} ELSE lost
  /\ UNCHANGED <<tableVars, lockVars, path, cut, pc, spent>>

\* run_user_delete removes the avatars of the personas it has read, before it
\* comes to the row of the user: which may be refused, and all of it tried again.
EraseAvatar(p) ==
  /\ file[p] # NoFile
  /\ file' = [file EXCEPT ![p] = NoFile]
  /\ lost' = IF Claimed(p) THEN lost \union {p} ELSE lost
  /\ UNCHANGED <<tableVars, lockVars, path, removals, cut, pc, spent>>

-----------------------------------------------------------------------------
(* Handlers that end early.                                                *)

\* Their transactions are rolled back; an avatar may stay behind.
Abandon(R) ==
  /\ pc' = [r \in Requests |-> IF r \in R THEN "ended" ELSE pc[r]]
  /\ userLock' = IF userLock \in R THEN NoOne ELSE userLock
  /\ deleting' = [p \in Personas |-> IF deleting[p] \in R THEN NoOne ELSE deleting[p]]

InFlight == Requests \ (At("idle") \union At("ended"))

\* A create waits for the name of a row that is being deleted, that delete for
\* the user's row: PostgreSQL aborts one of the two.
Deadlocked ==
  {r \in Requests : \E c \in Creates, d \in Deletes :
     /\ r \in {c, d}
     /\ pc[c] = "insert" /\ userLock = c
     /\ pc[d] = "count" /\ name[PersonaOf[d]] = NameOf[c]}

AbortDeadlocked(r) ==
  /\ r \in Deadlocked
  /\ Abandon({r})
  /\ UNCHANGED <<tableVars, diskVars, spent>>

\* Requests that have written an avatar, or deleted its row, and are not done.
OnAvatar ==
  {r \in OnPersona : \/ r \in AvatarUploads /\ pc[r] \in {"setPath", "orphan"}
                     \/ r \in Deletes /\ pc[r] = "spawn"}

CutAvatars(R) == cut' = cut \union {PersonaOf[r] : r \in OnAvatar \intersect R}

HandlerDies(r) ==
  /\ spent < Budget /\ spent' = spent + 1
  /\ r \in InFlight
  /\ Abandon({r}) /\ CutAvatars({r})
  /\ UNCHANGED <<tableVars, path, file, removals, lost>>

Crash ==
  /\ spent < Budget /\ spent' = spent + 1
  /\ pc' = [r \in Requests |-> IF r \in InFlight THEN "ended" ELSE pc[r]]
  /\ userLock' = NoOne /\ deleting' = [p \in Personas |-> NoOne]
  /\ removals' = {}
  /\ cut' = cut \union removals \union {PersonaOf[r] : r \in OnAvatar}
  /\ UNCHANGED <<tableVars, path, file, lost>>

-----------------------------------------------------------------------------
Proceed(r) ==
  \/ r \in Creates /\ (LockUser(r) \/ InsertPersona(r) \/ StoreReply(r))
  \/ r \in Deletes /\ (CommitDelete(r) \/ SpawnRemoval(r))
  \/ r \in AvatarUploads /\ (WriteFile(r) \/ SetPath(r) \/ RemoveOrphan(r))
  \/ r \in AvatarDeletes /\ ClearPath(r)

Arrive(r) ==
  \/ r \in Creates /\ CheckKey(r)
  \/ r \in Renames /\ Rename(r)
  \/ r \in Deletes /\ LockPersona(r)
  \/ r \in AvatarUploads /\ FindPersona(r)
  \/ r \in AvatarDeletes /\ FindPath(r)

Next ==
  \/ \E r \in Requests : Arrive(r) \/ Proceed(r) \/ AbortDeadlocked(r) \/ HandlerDies(r)
  \/ \E p \in Personas : RemoveAvatar(p) \/ EraseAvatar(p)
  \/ Crash

Spec == Init /\ [][Next]_vars

-----------------------------------------------------------------------------
(* Properties.                                                             *)

\* The counter is the number of rows and within the quota, in every state
\* another request can see: creates and deletes that overlap, abort or lose
\* their handler neither lose nor gain a count.
CountMatchesRows == count = Cardinality(rows) /\ count <= Quota

\* A row with an avatar_path has its file, unless a removal that an earlier
\* delete_avatar left behind came after the newer upload, or a deletion of the
\* account, also one that failed afterwards, has removed it.
AvatarLostOnlyToLateRemovalOrErasure ==
  \A p \in rows \intersect path : file[p] # NoFile \/ p \in lost

\* When nothing is under way any more, a deleted persona has left no avatar on
\* disk, whatever upload raced the deletion; unless an upload, the deletion's
\* handler or a removal was cut short.
DeletedPersonaLeavesNoAvatar ==
  \A p \in Personas \ (rows \union removals \union cut) :
    file[p] # NoFile => \E r \in OnAvatar : PersonaOf[r] = p
=============================================================================
