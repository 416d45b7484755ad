------------------------------ MODULE Storage -------------------------------
(***************************************************************************)
(* One user's uploads on disk, in the table and in the quota: the upload   *)
(* handler (routes/documents.rs), the deletion of documents and personas,  *)
(* the idempotency keys of an upload (services/idempotency.rs) and the     *)
(* nightly removal of files nobody claims (services/cleanup.rs).           *)
(*                                                                         *)
(* Three things must agree and none of them is updated with another: the   *)
(* rows of `documents`, the files under uploads/, and the counters in      *)
(* `users`. A request may end between any two of its statements: an error  *)
(* returns early, a client that disconnects drops the handler, and the     *)
(* process may stop.                                                       *)
(*                                                                         *)
(* The user stays: when a deletion of the account (module Accounts) gets   *)
(* through, the rows, the counters and the keys all go with its one row.   *)
(* Mostly it does not get through, and has removed the files all the same. *)
(***************************************************************************)
EXTENDS Integers, FiniteSets

CONSTANTS
  Uploads,      \* the upload requests that may arrive
  Personas,
  PersonaOf,    \* the persona in a request's path
  ContentOf,    \* its file: what content_hash tells apart
  KeyOf,        \* its Idempotency-Key
  SizeOf,       \* the length of its file
  MaxBytes,     \* AUDIO_MAX_BYTES, the larger of the limits on it
  QuotaBytes,   \* users.quota_storage_bytes
  QuotaDocs,    \* users.quota_doc_count
  NoUpload,     \* no response stored
  Stale,        \* one stored more than 24 hours ago
  Budget        \* bound on errors, disconnections and crashes

ASSUME UploadsAssumption ==
  /\ IsFiniteSet(Uploads) /\ NoUpload \notin Uploads /\ Stale \notin Uploads \union {NoUpload}
  /\ PersonaOf \in [Uploads -> Personas]
  /\ MaxBytes \in Nat /\ SizeOf \in [Uploads -> 0 .. MaxBytes]
  /\ \A u, v \in Uploads : ContentOf[u] = ContentOf[v] => SizeOf[u] = SizeOf[v]
ASSUME QuotaAssumption == QuotaBytes \in Nat /\ QuotaDocs \in Nat
ASSUME BudgetAssumption == Budget \in Nat

VARIABLES
  persona,   \* the rows of `personas`
  rows,      \* the rows of `documents`, by the upload that inserted each
  bytes,     \* users.current_storage_bytes
  docs,      \* users.current_doc_count
  replies,   \* idempotency_keys: per slot, the upload whose 201 is stored
  tmp,       \* uploads/.tmp/<tmp_id>
  files,     \* uploads/<persona>/<doc_id><ext>
  dirs,      \* uploads/<persona>
  removals,  \* detached tasks: a deleted document's file to remove
  sweeps,    \* detached tasks: a deleted persona's directory to remove
  pc,        \* where each request is
  replayed,  \* the upload whose response a request was given
  leaked,    \* history: uploads still counted that have no row
  taken,     \* history: files removed as orphans, or with the account's
  spent      \* history: disturbances so far

userVars  == <<bytes, docs>>
tableVars == <<persona, rows>>
diskVars  == <<tmp, files, dirs>>
taskVars  == <<removals, sweeps>>
vars == <<tableVars, userVars, replies, diskVars, taskVars, pc, replayed,
          leaked, taken, spent>>

InFlight == {"checkKey", "checkContent", "reserve", "makeDir", "move", "insert",
             "undoFile", "undoQuota", "store"}

\* UNIQUE (user_id, route, key); the route names the persona.
Slot(u) == <<PersonaOf[u], KeyOf[u]>>
Slots == {Slot(u) : u \in Uploads}

TypeOK ==
  /\ persona \in SUBSET Personas
  /\ rows \in SUBSET Uploads
  /\ bytes \in Nat /\ docs \in Nat
  /\ replies \in [Slots -> Uploads \union {NoUpload, Stale}]
  /\ tmp \in SUBSET Uploads /\ files \in SUBSET Uploads /\ dirs \in SUBSET Personas
  /\ removals \in SUBSET Uploads /\ sweeps \in SUBSET Personas
  /\ pc \in [Uploads -> InFlight \union {"idle", "answered"}]
  /\ replayed \in [Uploads -> Uploads \union {NoUpload}]
  /\ leaked \in SUBSET Uploads /\ taken \in SUBSET Uploads
  /\ spent \in 0 .. Budget

Init ==
  /\ persona = Personas
  /\ rows = {} /\ bytes = 0 /\ docs = 0
  /\ replies = [s \in Slots |-> NoUpload]
  /\ tmp = {} /\ files = {} /\ dirs = {} /\ removals = {} /\ sweeps = {}
  /\ pc = [u \in Uploads |-> "idle"]
  /\ replayed = [u \in Uploads |-> NoUpload]
  /\ leaked = {} /\ taken = {}
  /\ spent = 0

-----------------------------------------------------------------------------
Spend == spent < Budget /\ spent' = spent + 1

GoTo(u, l) == pc' = [pc EXCEPT ![u] = l]

Minus(a, b) == IF a > b THEN a - b ELSE 0           \* GREATEST(0, a - b)

\* The bytes of the files of S, one by one: their number is the sum of the sizes.
BytesOf(S) == {b \in S \X (1 .. MaxBytes) : b[2] <= SizeOf[b[1]]}

TotalSize(S) == Cardinality(BytesOf(S))

\* Counted for a request that has as yet no row.
Reserved == {u \in Uploads : pc[u] \in {"makeDir", "move", "insert", "undoFile", "undoQuota"}}

\* The idempotency table's request_hash: persona and content.
SameBody(u, v) == PersonaOf[u] = PersonaOf[v] /\ ContentOf[u] = ContentOf[v]

-----------------------------------------------------------------------------
(* upload_document, one statement at a time.                               *)

\* The ownership check, then the file is streamed to a temporary name. A file of
\* a refused type or size is removed again before the answer.
Receive(u) ==
  /\ pc[u] = "idle"
  /\ \/ /\ PersonaOf[u] \in persona
        /\ tmp' = tmp \union {u}
        /\ GoTo(u, "checkKey")
     \/ GoTo(u, "answered") /\ UNCHANGED tmp
  /\ UNCHANGED <<tableVars, userVars, replies, files, dirs, taskVars, replayed,
                 leaked, taken, spent>>

\* idempotency::check, which does not look at a stale key. A key stored for
\* another body is a conflict, which returns without removing the temporary file.
CheckKey(u) ==
  LET v == replies[Slot(u)] IN
  /\ pc[u] = "checkKey"
  /\ \/ /\ v \notin Uploads
        /\ GoTo(u, "checkContent")
        /\ UNCHANGED <<tmp, replayed>>
     \/ /\ v \in Uploads /\ SameBody(u, v)
        /\ tmp' = tmp \ {u}
        /\ replayed' = [replayed EXCEPT ![u] = v]
        /\ GoTo(u, "answered")
     \/ /\ v \in Uploads /\ ~SameBody(u, v)
        /\ GoTo(u, "answered")
        /\ UNCHANGED <<tmp, replayed>>
  /\ UNCHANGED <<tableVars, userVars, replies, files, dirs, taskVars, leaked,
                 taken, spent>>

\* find_by_content_hash.
CheckContent(u) ==
  /\ pc[u] = "checkContent"
  /\ \/ /\ \E v \in rows : SameBody(u, v)
        /\ tmp' = tmp \ {u}
        /\ GoTo(u, "answered")
     \/ /\ \A v \in rows : ~SameBody(u, v)
        /\ GoTo(u, "reserve")
        /\ UNCHANGED tmp
  /\ UNCHANGED <<tableVars, userVars, replies, files, dirs, taskVars, replayed,
                 leaked, taken, spent>>

FitsQuotaByRows(u) ==                            \* variant: sums the table instead
  TotalSize(rows) + SizeOf[u] <= QuotaBytes /\ Cardinality(rows) + 1 <= QuotaDocs

\* The WHERE clause of atomic_quota_check_and_increment.
FitsQuota(u) == bytes + SizeOf[u] <= QuotaBytes /\ docs + 1 <= QuotaDocs

\* One UPDATE, committed on its own before the file is moved.
Reserve(u) ==
  /\ pc[u] = "reserve"
  /\ \/ /\ FitsQuota(u)
        /\ bytes' = bytes + SizeOf[u] /\ docs' = docs + 1
        /\ GoTo(u, "makeDir")
        /\ UNCHANGED tmp
     \/ /\ ~FitsQuota(u)
        /\ tmp' = tmp \ {u}
        /\ GoTo(u, "answered")
        /\ UNCHANGED userVars
  /\ UNCHANGED <<tableVars, replies, files, dirs, taskVars, replayed, leaked,
                 taken, spent>>

MakeDir(u) ==
  /\ pc[u] = "makeDir"
  /\ dirs' = dirs \union {PersonaOf[u]}
  /\ GoTo(u, "move")
  /\ UNCHANGED <<tableVars, userVars, replies, tmp, files, taskVars, replayed,
                 leaked, taken, spent>>

\* The `?` after create_dir_all returns with the reservation committed.
MakeDirFails(u) ==
  /\ pc[u] = "makeDir"
  /\ Spend
  /\ GoTo(u, "answered")
  /\ leaked' = leaked \union {u}
  /\ UNCHANGED <<tableVars, userVars, replies, diskVars, taskVars, replayed, taken>>

\* rename, or copy and remove; both fail once the directory or the temporary
\* file has been removed by others.
Move(u) ==
  /\ pc[u] = "move"
  /\ \/ /\ u \in tmp /\ PersonaOf[u] \in dirs
        /\ tmp' = tmp \ {u} /\ files' = files \union {u}
        /\ GoTo(u, "insert")
     \/ /\ u \notin tmp \/ PersonaOf[u] \notin dirs
        /\ GoTo(u, "undoQuota")
        /\ UNCHANGED <<tmp, files>>
  /\ UNCHANGED <<tableVars, userVars, replies, dirs, taskVars, replayed, leaked,
                 taken, spent>>

\* doc_repo::create: the persona may be gone and, by the unique index on
\* (persona_id, content_hash), another upload of the content may be there. The
\* INSERT of the ingest job that follows is EnqueueUpload of module Ingest.
Insert(u) ==
  /\ pc[u] = "insert"
  /\ \/ /\ PersonaOf[u] \in persona /\ \A v \in rows : ~SameBody(u, v)
        /\ rows' = rows \union {u}
        /\ GoTo(u, "store")
     \/ /\ PersonaOf[u] \notin persona \/ \E v \in rows : SameBody(u, v)
        /\ GoTo(u, "undoFile")
        /\ UNCHANGED rows
  /\ UNCHANGED <<persona, userVars, replies, diskVars, taskVars, replayed,
                 leaked, taken, spent>>

InsertFails(u) ==
  /\ pc[u] = "insert"
  /\ Spend
  /\ GoTo(u, "undoFile")
  /\ UNCHANGED <<tableVars, userVars, replies, diskVars, taskVars, replayed,
                 leaked, taken>>

UndoQuotaOnly(u) ==                              \* variant: the file is left behind
  /\ pc[u] = "undoFile"
  /\ GoTo(u, "undoQuota")
  /\ UNCHANGED <<tableVars, userVars, replies, diskVars, taskVars, replayed, leaked,
                 taken, spent>>

UndoFileByContent(u) ==                          \* variant: files named by content
  /\ pc[u] = "undoFile"
  /\ files' = files \ {v \in Uploads : SameBody(u, v)}
  /\ GoTo(u, "undoQuota")
  /\ UNCHANGED <<tableVars, userVars, replies, tmp, dirs, taskVars, replayed, leaked,
                 taken, spent>>

UndoFile(u) ==
  /\ pc[u] = "undoFile"
  /\ files' = files \ {u}
  /\ GoTo(u, "undoQuota")
  /\ UNCHANGED <<tableVars, userVars, replies, tmp, dirs, taskVars, replayed, leaked,
                 taken, spent>>

UndoBytesOnly(u) ==                              \* variant: the count is not given back
  /\ pc[u] = "undoQuota"
  /\ bytes' = Minus(bytes, SizeOf[u])
  /\ GoTo(u, "answered")
  /\ UNCHANGED <<docs, tableVars, replies, diskVars, taskVars, replayed, leaked, taken,
                 spent>>

\* decrement_quota.
UndoQuota(u) ==
  /\ pc[u] = "undoQuota"
  /\ bytes' = Minus(bytes, SizeOf[u]) /\ docs' = Minus(docs, 1)
  /\ GoTo(u, "answered")
  /\ UNCHANGED <<tableVars, replies, diskVars, taskVars, replayed, leaked, taken, spent>>

\* Its error is ignored: `.ok()`.
UndoQuotaFails(u) ==
  /\ pc[u] = "undoQuota"
  /\ Spend
  /\ GoTo(u, "answered")
  /\ leaked' = leaked \union {u}
  /\ UNCHANGED <<tableVars, userVars, replies, diskVars, taskVars, replayed, taken>>

\* idempotency::store: ON CONFLICT DO NOTHING, also if the key that is there is
\* stale; and an error is ignored.
Store(u) ==
  /\ pc[u] = "store"
  /\ \/ /\ replies' = [replies EXCEPT ![Slot(u)] = IF @ = NoUpload THEN u ELSE @]
        /\ UNCHANGED spent
     \/ Spend /\ UNCHANGED replies
  /\ GoTo(u, "answered")
  /\ UNCHANGED <<tableVars, userVars, diskVars, taskVars, replayed, leaked, taken>>

\* A failing SELECT, or a failing UPDATE of the quota, before the file is moved.
CheckFails(u) ==
  /\ pc[u] \in {"checkKey", "checkContent", "reserve"}
  /\ Spend
  /\ GoTo(u, "answered")
  /\ UNCHANGED <<tableVars, userVars, replies, diskVars, taskVars, replayed, leaked,
                 taken>>

-----------------------------------------------------------------------------
(* What ends a request early: its client, or the process.                  *)

Abandon(S) ==
  /\ pc' = [u \in Uploads |-> IF u \in S THEN "answered" ELSE pc[u]]
  /\ leaked' = leaked \union (S \intersect Reserved)

\* The connection closes and the handler's future is dropped where it waits.
Disconnect(u) ==
  /\ pc[u] \in InFlight
  /\ Spend
  /\ Abandon({u})
  /\ UNCHANGED <<tableVars, userVars, replies, diskVars, taskVars, replayed, taken>>

Crash ==
  /\ Spend
  /\ Abandon({u \in Uploads : pc[u] \in InFlight})
  /\ removals' = {} /\ sweeps' = {}
  /\ UNCHANGED <<tableVars, userVars, replies, diskVars, replayed, taken>>

-----------------------------------------------------------------------------
(* delete_document and delete_persona, and the tasks they detach.          *)

\* delete_with_quota is one transaction; the file goes in a detached task.
DeleteDocument(u) ==
  /\ u \in rows
  /\ rows' = rows \ {u}
  /\ bytes' = Minus(bytes, SizeOf[u]) /\ docs' = Minus(docs, 1)
  /\ removals' = removals \union {u}
  /\ UNCHANGED <<persona, replies, diskVars, sweeps, pc, replayed, leaked, taken, spent>>

RemoveFile(u) ==
  /\ u \in removals
  /\ removals' = removals \ {u}
  /\ files' = files \ {u}
  /\ UNCHANGED <<tableVars, userVars, replies, tmp, dirs, sweeps, pc, replayed,
                 leaked, taken, spent>>

OfPersona(p) == {u \in Uploads : PersonaOf[u] = p}

\* The documents go by the foreign key; the counters are left as they were.
DeletePersona(p) ==
  /\ p \in persona
  /\ persona' = persona \ {p}
  /\ rows' = rows \ OfPersona(p)
  /\ leaked' = leaked \union (rows \intersect OfPersona(p))
  /\ sweeps' = sweeps \union {p}
  /\ UNCHANGED <<userVars, replies, diskVars, removals, pc, replayed, taken, spent>>

\* The handler writes the audit log before it detaches the removal.
LoseRemoval(p) ==
  /\ p \in sweeps
  /\ Spend
  /\ sweeps' = sweeps \ {p}
  /\ UNCHANGED <<tableVars, userVars, replies, diskVars, removals, pc, replayed,
                 leaked, taken>>

\* remove_dir_all; a file moved in meanwhile keeps the directory.
RemoveDir(p) ==
  /\ p \in sweeps
  /\ sweeps' = sweeps \ {p}
  /\ files' = files \ OfPersona(p)
  /\ dirs' \in {dirs, dirs \ {p}}
  /\ UNCHANGED <<tableVars, userVars, replies, tmp, removals, pc, replayed, leaked,
                 taken, spent>>

\* run_user_delete removes the directories of the personas it has read, before
\* it comes to the row of the user: which may be refused, and all of it tried again.
EraseDir(p) ==
  /\ p \in dirs
  /\ files' = files \ OfPersona(p)
  /\ taken' = taken \union (files \intersect OfPersona(p))
  /\ dirs' \in {dirs, dirs \ {p}}
  /\ UNCHANGED <<tableVars, userVars, replies, tmp, taskVars, pc, replayed, leaked, spent>>

-----------------------------------------------------------------------------
(* The nightly cleanup.                                                    *)

\* documents.id is generated by the database (DEFAULT uuid_generate_v7()); the
\* names on disk are identifiers the upload handler generated itself.
RowId(u)  == <<"row", u>>
Stem(u)   == <<"upload", u>>
TmpStem(u) == <<"tmp", u>>
HasRow(stem) == \E u \in rows : RowId(u) = stem

SweepKnownPersona(u) ==                          \* variant: walks the personas' rows
  /\ u \in files /\ ~HasRow(Stem(u)) /\ PersonaOf[u] \in persona
  /\ files' = files \ {u}
  /\ taken' = taken \union {u}
  /\ UNCHANGED <<tableVars, userVars, replies, tmp, dirs, taskVars, pc, replayed,
                 leaked, spent>>

\* cleanup_orphan_uploads on a file of a persona's directory.
SweepFile(u) ==
  /\ u \in files /\ ~HasRow(Stem(u))
  /\ files' = files \ {u}
  /\ taken' = taken \union {u}
  /\ UNCHANGED <<tableVars, userVars, replies, tmp, dirs, taskVars, pc, replayed,
                 leaked, spent>>

\* uploads/.tmp is walked as well, whether or not its upload is still running.
SweepTmp(u) ==
  /\ u \in tmp /\ ~HasRow(TmpStem(u))
  /\ tmp' = tmp \ {u}
  /\ UNCHANGED <<tableVars, userVars, replies, files, dirs, taskVars, pc, replayed,
                 leaked, taken, spent>>

\* 24 hours pass.
ExpireKey(s) ==
  /\ replies[s] \in Uploads
  /\ replies' = [replies EXCEPT ![s] = Stale]
  /\ UNCHANGED <<tableVars, userVars, diskVars, taskVars, pc, replayed, leaked, taken,
                 spent>>

\* The nightly cleanup removes the row.
PruneKey(s) ==
  /\ replies[s] = Stale
  /\ replies' = [replies EXCEPT ![s] = NoUpload]
  /\ UNCHANGED <<tableVars, userVars, diskVars, taskVars, pc, replayed, leaked, taken,
                 spent>>

-----------------------------------------------------------------------------
Proceed(u) ==
  \/ CheckKey(u) \/ CheckContent(u) \/ Reserve(u) \/ MakeDir(u) \/ Move(u)
  \/ Insert(u) \/ UndoFile(u) \/ UndoQuota(u) \/ Store(u)

StepFails(u) == CheckFails(u) \/ MakeDirFails(u) \/ InsertFails(u) \/ UndoQuotaFails(u)

Next ==
  \/ \E u \in Uploads :
       \/ Receive(u) \/ Proceed(u) \/ StepFails(u) \/ Disconnect(u)
       \/ DeleteDocument(u) \/ RemoveFile(u) \/ SweepFile(u) \/ SweepTmp(u)
  \/ \E p \in Personas : DeletePersona(p) \/ LoseRemoval(p) \/ RemoveDir(p) \/ EraseDir(p)
  \/ \E s \in Slots : ExpireKey(s) \/ PruneKey(s)
  \/ Crash

Spec == Init /\ [][Next]_vars

(***************************************************************************)
(* A handler or a detached task that has started goes on, and the cleanup  *)
(* runs every night. Nobody has to upload or delete anything.              *)
(***************************************************************************)
Fairness ==
  /\ WF_vars(\E u \in Uploads : Proceed(u))
  /\ WF_vars((\E u \in Uploads : RemoveFile(u)) \/ \E p \in Personas : RemoveDir(p))
  /\ WF_vars(\E u \in Uploads : SweepFile(u) \/ SweepTmp(u))

FairSpec == Spec /\ Fairness

-----------------------------------------------------------------------------
Disturbed == spent > 0

Quiet ==
  /\ removals = {} /\ sweeps = {}
  /\ \A u \in Uploads : pc[u] \notin InFlight

Counted == rows \union Reserved \union leaked

\* The counters of `users` are updated by five statements in four handlers and
\* by none of the failures in between. They count exactly the rows, the uploads
\* between the reservation and their INSERT or its undoing, and the uploads
\* whose reservation was lost with the request or with the persona.
CountersAreAccountedFor ==
  /\ docs = Cardinality(Counted)
  /\ bytes = TotalSize(Counted)

\* So that, whatever is lost, the documents a user has never exceed the quotas,
\* however the uploads interleave.
QuotaHolds ==
  /\ Cardinality(rows) <= QuotaDocs
  /\ TotalSize(rows) <= QuotaBytes

\* The undoing of one upload, a deletion or a persona's removal never takes the
\* file of another document: only the nightly sweep does, and a deletion of the
\* account, also one that fails afterwards.
FileLostOnlyToSweepOrErasure == \A u \in rows : u \in files \/ u \in taken

\* Uploads that race each other, a deletion of their document or of their
\* persona leave no file without its row, unless something failed.
NoFileWithoutRow == Quiet /\ ~Disturbed => files \subseteq rows

\* A repeated request is given the response of an upload of the same file to
\* the same persona, never another's.
ReplayIsFaithful ==
  \A u \in Uploads : replayed[u] # NoUpload => SameBody(u, replayed[u]) /\ replayed[u] # u

\* What a failure, a crash or a disconnected client leaves on disk does not
\* stay there.
LeftoversAreRemoved == <>[](files \subseteq rows /\ tmp = {})

-----------------------------------------------------------------------------
(* The contract of the keys.  A row is what an upload does.                *)

StageAt(l) == CASE l \in {"idle", "checkKey"} -> "new"
                [] l = "answered" -> "ended"
                [] OTHER -> "working"

Stage == [u \in Uploads |-> StageAt(pc[u])]

Contract == INSTANCE Idempotency
  WITH Requests <- Uploads, SlotOf <- [u \in Uploads |-> Slot(u)], BodyOf <- ContentOf,
       None <- NoUpload, stage <- Stage, stored <- replies, effects <- rows

\* upload_document keeps the contract of its keys: an upload answered from the
\* store adds no document, it is given the one response that was kept first and
\* has not expired since, and of its own body; whatever fails or is cut short.
KeepsContract == Contract!Spec
=============================================================================
