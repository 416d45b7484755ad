------------------------------ MODULE Exports -------------------------------
(***************************************************************************)
(* The archives one user asks for of his own data: the request, its status *)
(* (routes/data_rights.rs), the job that reads his rows persona by persona *)
(* and writes the archive at the end (services/worker.rs), the cleanup of  *)
(* old archives (services/cleanup.rs), and the deletion of the account,    *)
(* which may come at any point of it.                                      *)
(*                                                                         *)
(* Nothing holds the rows still while they are read, and an archive is a   *)
(* file, which no row of the database takes along when it goes.            *)
(***************************************************************************)
EXTENDS Integers, FiniteSets

CONSTANTS
  Exports,      \* requests to export; each names the job it inserts
  Polls,        \* requests to show the status of an export
  Personas,
  MaxAttempts,  \* worker.rs MAX_ATTEMPTS
  Budget,       \* bound on errors, interrupted runs, retries and cancellations
  NoExport

ASSUME ExportsAssumption ==
  /\ IsFiniteSet(Exports) /\ IsFiniteSet(Personas)
  /\ MaxAttempts \in Nat \ {0} /\ Budget \in Nat
  /\ NoExport \notin Exports

VARIABLES
  account,   \* users.status, and how far the account's deletion is
  persona,   \* the rows of `personas`, for all that hangs on them
  asked,     \* where each request to export is
  job,       \* jobs.status of the export
  attempts,  \* jobs.attempts
  recent,    \* exports done in the last 24 hours
  at,        \* where an execution is
  todo,      \* personas it has still to read
  got,       \* personas it has read
  archive,   \* exports/<user>/<job>.zip, written to its end or not
  holds,     \* the personas in it
  old,       \* archives more than 7 days old
  poll,      \* the export each request found done and without its archive
  owed,      \* history: personas there ever since the execution began
  holes,     \* history: exports that lost a read to an error
  raced,     \* history: requests between check and INSERT during another's INSERT
  retried,   \* history: exports an administrator queued again
  straddled, \* history: exports under way when the archives were removed, or later
  spent

requestVars == <<asked, poll, raced>>
jobVars     == <<job, attempts, recent>>
runVars     == <<at, todo, got, owed, holes>>
diskVars    == <<archive, holds, old>>
accountVars == <<account, persona, straddled>>
vars == <<requestVars, jobVars, runVars, diskVars, accountVars, retried, spent>>

Pending == {e \in Exports : job[e] \in {"queued", "running"}}

TypeOK ==
  /\ account \in {"active", "leaving", "removing", "deleted"}
  /\ persona \in SUBSET Personas
  /\ asked \in [Exports -> {"idle", "checkRecent", "enqueue", "ended"}]
  /\ job \in [Exports -> {"none", "queued", "running", "done", "failed", "removed"}]
  /\ attempts \in [Exports -> 0 .. MaxAttempts + Budget]
  /\ recent \in SUBSET Exports
  /\ at \in [Exports -> {"none", "list", "read", "report"}]
  /\ todo \in [Exports -> SUBSET Personas] /\ got \in [Exports -> SUBSET Personas]
  /\ archive \in [Exports -> {"none", "torn", "whole"}] /\ holds \in [Exports -> SUBSET Personas]
  /\ old \in SUBSET Exports
  /\ poll \in [Polls -> Exports \union {NoExport}]
  /\ owed \in [Exports -> SUBSET Personas]
  /\ holes \in SUBSET Exports /\ raced \in SUBSET Exports
  /\ retried \in SUBSET Exports /\ straddled \in SUBSET Exports
  /\ spent \in 0 .. Budget

Init ==
  /\ account = "active" /\ persona = Personas
  /\ asked = [e \in Exports |-> "idle"]
  /\ job = [e \in Exports |-> "none"] /\ attempts = [e \in Exports |-> 0]
  /\ recent = {}
  /\ at = [e \in Exports |-> "none"]
  /\ todo = [e \in Exports |-> {}] /\ got = [e \in Exports |-> {}]
  /\ archive = [e \in Exports |-> "none"] /\ holds = [e \in Exports |-> {}] /\ old = {}
  /\ poll = [g \in Polls |-> NoExport]
  /\ owed = [e \in Exports |-> {}]
  /\ holes = {} /\ raced = {} /\ retried = {} /\ straddled = {}
  /\ spent = 0

-----------------------------------------------------------------------------
Spend == spent < Budget /\ spent' = spent + 1

PutArchive(e, state, personas) ==
  /\ archive' = [archive EXCEPT ![e] = state] /\ holds' = [holds EXCEPT ![e] = personas]
  /\ old' = old \ {e}

RemoveArchivesOf(S) ==
  /\ archive' = [e \in Exports |-> IF e \in S THEN "none" ELSE archive[e]]
  /\ holds' = [e \in Exports |-> IF e \in S THEN {} ELSE holds[e]]
  /\ old' = old \ S

Ask(e, l) == asked' = [asked EXCEPT ![e] = l]

-----------------------------------------------------------------------------
(* request_export: two SELECTs and an INSERT.                              *)

\* Variant: a running export is not looked for.
CheckQueued(e) ==
  /\ asked[e] = "idle" /\ account = "active"
  /\ Ask(e, IF \E d \in Exports : job[d] = "queued" THEN "ended" ELSE "checkRecent")
  /\ UNCHANGED <<poll, raced, jobVars, runVars, diskVars, accountVars, retried, spent>>

CheckPending(e) ==
  /\ asked[e] = "idle" /\ account = "active"
  /\ Ask(e, IF Pending # {} THEN "ended" ELSE "checkRecent")
  /\ UNCHANGED <<poll, raced, jobVars, runVars, diskVars, accountVars, retried, spent>>

CheckRecent(e) ==
  /\ asked[e] = "checkRecent"
  /\ Ask(e, IF recent # {} THEN "ended" ELSE "enqueue")
  /\ UNCHANGED <<poll, raced, jobVars, runVars, diskVars, accountVars, retried, spent>>

\* The user's row must still be there.
Enqueue(e) ==
  /\ asked[e] = "enqueue"
  /\ Ask(e, "ended")
  /\ job' = [job EXCEPT ![e] = IF account = "deleted" THEN "none" ELSE "queued"]
  /\ raced' = raced \union {d \in Exports \ {e} : asked[d] \in {"checkRecent", "enqueue"}}
  /\ straddled' = IF account = "removing" THEN straddled \union {e} ELSE straddled
  /\ UNCHANGED <<poll, attempts, recent, runVars, diskVars, account, persona, retried, spent>>

RequestFails(e) ==
  /\ asked[e] \in {"checkRecent", "enqueue"} /\ Spend
  /\ Ask(e, "ended")
  /\ UNCHANGED <<poll, raced, jobVars, runVars, diskVars, accountVars, retried>>

-----------------------------------------------------------------------------
(* run_user_export.                                                        *)

\* Every execution begins with an empty archive.
Begin(e) ==
  /\ job[e] = "queued"
  /\ job' = [job EXCEPT ![e] = "running"]
  /\ at' = [at EXCEPT ![e] = "list"]
  /\ owed' = [owed EXCEPT ![e] = persona] /\ holes' = holes \ {e}
  /\ UNCHANGED <<requestVars, attempts, recent, todo, got, diskVars, accountVars, retried, spent>>

\* An error of a SELECT is taken for an empty result.
ListPersonas(e) ==
  /\ at[e] = "list"
  /\ at' = [at EXCEPT ![e] = "read"]
  /\ \/ todo' = [todo EXCEPT ![e] = persona] /\ UNCHANGED <<holes, spent>>
     \/ Spend /\ holes' = holes \union {e} /\ UNCHANGED todo
  /\ UNCHANGED <<requestVars, jobVars, got, owed, diskVars, accountVars, retried>>

\* Row, eras, profiles, documents and chats, in statements of their own: those
\* of a persona that was deleted meanwhile are empty.
ReadPersona(e, p) ==
  /\ at[e] = "read" /\ p \in todo[e]
  /\ todo' = [todo EXCEPT ![e] = @ \ {p}]
  /\ \/ got' = [got EXCEPT ![e] = @ \union ({p} \intersect persona)] /\ UNCHANGED <<holes, spent>>
     \/ Spend /\ holes' = holes \union {e} /\ UNCHANGED got
  /\ UNCHANGED <<requestVars, jobVars, at, owed, diskVars, accountVars, retried>>

\* create_dir_all and write: the directory is made again if need be.
WriteArchive(e) ==
  /\ at[e] = "read" /\ todo[e] = {}
  /\ PutArchive(e, "whole", got[e])
  /\ at' = [at EXCEPT ![e] = "report"]
  /\ UNCHANGED <<requestVars, jobVars, todo, got, owed, holes, accountVars, retried, spent>>

EndRun(e) ==
  /\ at' = [at EXCEPT ![e] = "none"]
  /\ todo' = [todo EXCEPT ![e] = {}] /\ got' = [got EXCEPT ![e] = {}]

\* execute_job's `done`, of a row that may be gone.
Report(e) ==
  /\ at[e] = "report"
  /\ EndRun(e)
  /\ job' = [job EXCEPT ![e] = IF @ = "running" THEN "done" ELSE @]
  /\ recent' = IF job[e] = "running" THEN recent \union {e} ELSE recent
  /\ UNCHANGED <<requestVars, attempts, owed, holes, diskVars, accountVars, retried, spent>>

\* The row, if it is there, is given back or given up.
GiveBack(e, giveUp) ==
  /\ EndRun(e)
  /\ IF job[e] = "running"
     THEN /\ attempts' = [attempts EXCEPT ![e] = @ + 1]
          /\ job' = [job EXCEPT ![e] = IF giveUp THEN "failed" ELSE "queued"]
     ELSE UNCHANGED <<attempts, job>>

\* Variant: the error is not looked at.
WriteFailsQuietly(e) ==
  /\ at[e] = "read" /\ todo[e] = {} /\ Spend
  /\ PutArchive(e, "torn", {})
  /\ at' = [at EXCEPT ![e] = "report"]
  /\ UNCHANGED <<requestVars, jobVars, todo, got, owed, holes, accountVars, retried>>

WriteFails(e) ==
  /\ at[e] = "read" /\ todo[e] = {} /\ Spend
  /\ \/ PutArchive(e, "torn", {})
     \/ UNCHANGED diskVars
  /\ GiveBack(e, attempts[e] + 1 >= MaxAttempts)
  /\ UNCHANGED <<requestVars, recent, owed, holes, accountVars, retried>>

\* The process stops, or the result is lost: the reaper queues the row again.
Interrupt(e) ==
  /\ at[e] # "none" /\ Spend
  /\ \/ UNCHANGED diskVars
     \/ /\ at[e] = "read" /\ todo[e] = {}
        /\ PutArchive(e, "torn", {})
  /\ GiveBack(e, FALSE)
  /\ UNCHANGED <<requestVars, recent, owed, holes, accountVars, retried>>

RetryJob(e) ==
  /\ job[e] = "failed" /\ Spend
  /\ job' = [job EXCEPT ![e] = "queued"] /\ attempts' = [attempts EXCEPT ![e] = 0]
  /\ retried' = retried \union {e}
  /\ UNCHANGED <<requestVars, recent, runVars, diskVars, accountVars>>

CancelJob(e) ==
  /\ job[e] = "queued" /\ Spend
  /\ job' = [job EXCEPT ![e] = "removed"]
  /\ UNCHANGED <<requestVars, attempts, recent, runVars, diskVars, accountVars, retried>>

-----------------------------------------------------------------------------
(* get_export_status: the row, the file, and if it is missing an UPDATE.   *)

FindMissing(g, e) ==
  /\ poll[g] = NoExport /\ account = "active"
  /\ job[e] = "done" /\ archive[e] = "none"
  /\ poll' = [poll EXCEPT ![g] = e]
  /\ UNCHANGED <<asked, raced, jobVars, runVars, diskVars, accountVars, retried, spent>>

MarkMissing(g) ==
  LET e == poll[g]
  IN /\ e # NoExport
     /\ poll' = [poll EXCEPT ![g] = NoExport]
     /\ job' = [job EXCEPT ![e] = IF @ = "done" THEN "failed" ELSE @]
     /\ recent' = recent \ {e}
     /\ UNCHANGED <<asked, raced, attempts, runVars, diskVars, accountVars, retried, spent>>

-----------------------------------------------------------------------------
(* Time, and the daily cleanup.                                            *)

DayPasses(e) ==
  /\ e \in recent
  /\ recent' = recent \ {e}
  /\ UNCHANGED <<requestVars, job, attempts, runVars, diskVars, accountVars, retried, spent>>

WeekPasses(e) ==
  /\ archive[e] # "none" /\ e \notin old /\ at[e] = "none"
  /\ old' = old \union {e} /\ recent' = recent \ {e}
  /\ UNCHANGED <<requestVars, job, attempts, runVars, archive, holds, accountVars, retried, spent>>

\* Variant: goes by the jobs, not by the files.
PruneDone(e) ==
  /\ e \in old /\ job[e] = "done"
  /\ RemoveArchivesOf({e})
  /\ UNCHANGED <<requestVars, jobVars, runVars, accountVars, retried, spent>>

Prune(e) ==
  /\ e \in old
  /\ RemoveArchivesOf({e})
  /\ UNCHANGED <<requestVars, jobVars, runVars, accountVars, retried, spent>>

-----------------------------------------------------------------------------
(* The user's data, and the deletion of the account.                       *)

DeletePersona(p) ==
  /\ p \in persona
  /\ persona' = persona \ {p}
  /\ owed' = [e \in Exports |-> owed[e] \ {p}]
  /\ UNCHANGED <<requestVars, jobVars, at, todo, got, holes, diskVars, account, straddled,
                 retried, spent>>

\* delete_account: the user can ask for nothing more; requests on their way go on.
Leave ==
  /\ account = "active"
  /\ account' = "leaving"
  /\ UNCHANGED <<requestVars, jobVars, runVars, diskVars, persona, straddled, retried, spent>>

\* Variant: only the archives of exports that are done.
RemoveDone ==
  /\ account = "leaving"
  /\ account' = "removing"
  /\ RemoveArchivesOf({e \in Exports : job[e] = "done"})
  /\ straddled' = {e \in Exports : job[e] \in {"queued", "running"} \/ at[e] # "none"}
  /\ UNCHANGED <<requestVars, jobVars, runVars, persona, retried, spent>>

\* run_user_delete: remove_dir_all.
RemoveArchives ==
  /\ account = "leaving"
  /\ account' = "removing"
  /\ RemoveArchivesOf(Exports)
  /\ straddled' = {e \in Exports : job[e] \in {"queued", "running"} \/ at[e] # "none"}
  /\ UNCHANGED <<requestVars, jobVars, runVars, persona, retried, spent>>

\* DELETE FROM users takes personas and jobs along; an execution goes on.
DeleteUser ==
  /\ account = "removing"
  /\ account' = "deleted" /\ persona' = {}
  /\ job' = [e \in Exports |-> IF job[e] = "none" THEN "none" ELSE "removed"]
  /\ recent' = {}
  /\ owed' = [e \in Exports |-> {}]
  /\ UNCHANGED <<requestVars, attempts, at, todo, got, holes, diskVars, straddled, retried,
                 spent>>

\* It fails, and the job is run again.
DeleteUserFails ==
  /\ account = "removing" /\ Spend
  /\ account' = "leaving"
  /\ UNCHANGED <<requestVars, jobVars, runVars, diskVars, persona, straddled, retried>>

-----------------------------------------------------------------------------
Run(e) ==
  \/ Begin(e) \/ ListPersonas(e) \/ WriteArchive(e) \/ Report(e)
  \/ \E p \in Personas : ReadPersona(e, p)

Request(e) == CheckPending(e) \/ CheckRecent(e) \/ Enqueue(e)

Next ==
  \/ \E e \in Exports : \/ Request(e) \/ RequestFails(e)
                        \/ Run(e) \/ WriteFails(e) \/ Interrupt(e) \/ RetryJob(e) \/ CancelJob(e)
                        \/ DayPasses(e) \/ WeekPasses(e) \/ Prune(e)
  \/ \E g \in Polls : MarkMissing(g) \/ \E e \in Exports : FindMissing(g, e)
  \/ \E p \in Personas : DeletePersona(p)
  \/ Leave \/ RemoveArchives \/ DeleteUser \/ DeleteUserFails

Spec == Init /\ [][Next]_vars

\* Workers go on, time passes and the cleanup runs every day.
Fairness ==
  \A e \in Exports : WF_vars(Run(e)) /\ WF_vars(WeekPasses(e)) /\ WF_vars(Prune(e))

FairSpec == Spec /\ Fairness

-----------------------------------------------------------------------------
(* Properties.                                                             *)

\* A user has one export under way or done in the last day, unless a request
\* was between its checks and its INSERT during another's INSERT, or an
\* administrator queued one again.
OneExportUnlessChecksOverlap ==
  \A d, e \in Pending \union recent : d # e => {d, e} \intersect (raced \union retried) # {}

\* The archive of an export that is done is whole and holds every persona that
\* was there throughout its execution, after whatever interruptions of earlier
\* ones; unless a statement failed, which the job does not notice.
DoneArchiveIsComplete ==
  \A e \in Exports : job[e] = "done" /\ archive[e] # "none" =>
    /\ archive[e] = "whole"
    /\ owed[e] \subseteq holds[e] \/ e \in holes

\* A deleted account has left no archive, except of an export that was queued
\* or under way when the archives were removed, or was queued later.
NoArchiveOutlivesAccount ==
  account = "deleted" => \A e \in Exports : archive[e] # "none" => e \in straddled \union retried

\* Every archive goes in the end, also one of an account or a job that is gone.
ArchivesAreRemoved == <>[](\A e \in Exports : archive[e] = "none")
=============================================================================
