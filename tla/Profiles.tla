------------------------------ MODULE Profiles ------------------------------
(***************************************************************************)
(* The style profiles of one persona: the recompute_profile jobs that an   *)
(* ingest or a request enqueues (services/ingest.rs, routes/profile.rs),   *)
(* the run that reads the chunks of each era and of the whole persona and  *)
(* upserts a row for each (services/analysis_runner.rs,                    *)
(* repositories/style_profiles.rs), and the request that shows it.         *)
(*                                                                         *)
(* A run reads and writes in separate statements, several runs of one      *)
(* persona go on at once, and documents and eras are deleted meanwhile     *)
(* without a job.  The deletion of the persona itself (or of its user)     *)
(* takes every row with it, jobs included, and leaves the runs going.      *)
(* A profile is modelled by the documents whose chunks it was computed     *)
(* from; the statistics themselves are left out.                           *)
(***************************************************************************)
EXTENDS Integers, FiniteSets

CONSTANTS
  Docs,         \* documents; each ends its ingest by enqueuing a job
  Eras,
  EraOf,        \* the era a document's chunks are tagged with, or Whole
  Recomputes,   \* requests to recompute
  Gets,         \* requests to show the persona's profile
  Whole,        \* the scope that is no era: the persona
  MaxAttempts,  \* worker.rs MAX_ATTEMPTS
  MaxFaults,    \* bound on failing statements and interrupted runs
  NoRow

Jobs   == Docs \union Recomputes          \* by who enqueues each
Scopes == Eras \union {Whole}

ASSUME ProfilesAssumption ==
  /\ IsFiniteSet(Docs) /\ IsFiniteSet(Recomputes) /\ Docs \intersect Recomputes = {}
  /\ Whole \notin Eras /\ EraOf \in [Docs -> Scopes]
  /\ MaxAttempts \in Nat \ {0} /\ MaxFaults \in Nat
  /\ \A D \in SUBSET Docs : D # NoRow

VARIABLES
  live,      \* the scopes that are there: rows of `eras`, Whole for the persona's
  doc,       \* a document's ingest: none, its chunks inserted, ended; or deleted
  profile,   \* style_profiles.profile by scope
  at,        \* jobs.status while the row is there, and where a running job is
  attempts,  \* jobs.attempts
  todo,      \* eras a run has still to compute
  scope,     \* what a run is computing
  read,      \* the documents whose chunks it has read
  clean,     \* history: no document of that scope was deleted since it read them
  beaten,    \* history: another run wrote that scope since it read the chunks
  missed,    \* history: scopes whose row knows nothing of a deletion
  overtaken, \* history: scopes whose row an older reading has overwritten
  get,       \* a request to show: where it is, and its answer
  known,     \* history: documents its answer must not lack
  faults

jobVars == <<at, attempts, todo, scope, read, clean, beaten>>
history == <<missed, overtaken>>
profilesVars == <<live, doc, profile, jobVars, history, get, known, faults>>

Running == {"read", "write"}

ProfilesTypeOK ==
  /\ live \in SUBSET Scopes
  /\ doc \in [Docs -> {"none", "chunked", "ingested", "deleted"}]
  /\ profile \in [Scopes -> (SUBSET Docs) \union {NoRow}]
  /\ at \in [Jobs -> {"none", "queued", "done", "failed"} \union Running]
  /\ attempts \in [Jobs -> 0 .. MaxAttempts + MaxFaults]
  /\ todo \in [Jobs -> SUBSET Eras]
  /\ scope \in [Jobs -> Scopes]
  /\ read \in [Jobs -> SUBSET Docs]
  /\ clean \in [Jobs -> BOOLEAN] /\ beaten \in [Jobs -> BOOLEAN]
  /\ missed \in SUBSET Scopes /\ overtaken \in SUBSET Scopes
  /\ get \in [Gets -> {"idle", "find", "findPending", "count", "pending", "final", "missing"}]
  /\ known \in [Gets -> SUBSET Docs]
  /\ faults \in 0 .. MaxFaults

ProfilesInit ==
  /\ live = Scopes
  /\ doc = [d \in Docs |-> "none"]
  /\ profile = [s \in Scopes |-> NoRow]
  /\ at = [j \in Jobs |-> "none"] /\ attempts = [j \in Jobs |-> 0]
  /\ todo = [j \in Jobs |-> {}] /\ scope = [j \in Jobs |-> Whole]
  /\ read = [j \in Jobs |-> {}]
  /\ clean = [j \in Jobs |-> TRUE] /\ beaten = [j \in Jobs |-> FALSE]
  /\ missed = {} /\ overtaken = {}
  /\ get = [g \in Gets |-> "idle"] /\ known = [g \in Gets |-> {}]
  /\ faults = 0

-----------------------------------------------------------------------------
Present == {d \in Docs : doc[d] \in {"chunked", "ingested"}}

\* chunks.era_id: ON DELETE SET NULL.
Tag(d) == IF EraOf[d] \in live THEN EraOf[d] ELSE Whole

InScope(s) == IF s = Whole THEN Present ELSE {d \in Present : Tag(d) = s}

\* jobs.persona_id: ON DELETE CASCADE.
Pending == {j \in Jobs : Whole \in live /\ at[j] \in {"queued"} \union Running}

\* Variant: coalesced with a job that is already running.
EnqueueUnlessPending(j) ==
  /\ at[j] = "none" /\ Whole \in live
  /\ at' = [at EXCEPT ![j] = IF Pending = {} THEN "queued" ELSE "done"]
  /\ UNCHANGED <<attempts, todo, scope, read, clean, beaten>>

\* INSERT ... ON CONFLICT DO NOTHING.  The unique index is on two expressions,
\* of which payload->>'era_id' is NULL for a persona: no two rows ever conflict.
\* The foreign key wants the persona.
Enqueue(j) ==
  /\ at[j] = "none" /\ Whole \in live
  /\ at' = [at EXCEPT ![j] = "queued"]
  /\ UNCHANGED <<attempts, todo, scope, read, clean, beaten>>

\* An ingest inserts its chunks, and at its end enqueues.
AddChunks(d) ==
  /\ doc[d] = "none" /\ Whole \in live
  /\ doc' = [doc EXCEPT ![d] = "chunked"]
  /\ UNCHANGED <<live, profile, jobVars, history, get, known, faults>>

EndIngest(d) ==
  /\ doc[d] = "chunked" /\ Enqueue(d)
  /\ doc' = [doc EXCEPT ![d] = "ingested"]
  /\ UNCHANGED <<live, profile, history, get, known, faults>>

RequestRecompute(r) ==
  /\ Enqueue(r)
  /\ UNCHANGED <<live, doc, profile, history, get, known, faults>>

\* delete_document takes the chunks along and enqueues nothing.
DeleteDocument(d) ==
  /\ doc[d] = "ingested"
  /\ doc' = [doc EXCEPT ![d] = "deleted"]
  /\ missed' = missed \union {Whole, Tag(d)}
  /\ clean' = [j \in Jobs |-> clean[j] /\ scope[j] \notin {Whole, Tag(d)}]
  /\ UNCHANGED <<live, profile, at, attempts, todo, scope, read, beaten, overtaken, get,
                 known, faults>>

\* delete_era: its profile goes, its chunks are tagged no more.
DeleteEra(e) ==
  /\ e \in live
  /\ live' = live \ {e}
  /\ profile' = [profile EXCEPT ![e] = NoRow]
  /\ UNCHANGED <<doc, jobVars, history, get, known, faults>>

\* delete_persona, or the deletion of its user: one statement, and only a task
\* that is executing a job goes on.
DeletePersona ==
  /\ Whole \in live
  /\ live' = {}
  /\ doc' = [d \in Docs |-> "deleted"]
  /\ profile' = [s \in Scopes |-> NoRow]
  /\ UNCHANGED <<jobVars, history, get, known, faults>>

-----------------------------------------------------------------------------
(* run_recompute_profile.                                                  *)

\* The job is picked; SELECT DISTINCT era_id.
Begin(j) ==
  /\ at[j] = "queued" /\ Whole \in live
  /\ todo' = [todo EXCEPT ![j] = {Tag(d) : d \in Present} \ {Whole}]
  /\ at' = [at EXCEPT ![j] = "read"]
  /\ UNCHANGED <<live, doc, profile, attempts, scope, read, clean, beaten, history, get,
                 known, faults>>

\* compute_and_store: the chunks of an era, in no particular order of the eras;
\* of the persona at the end.
ReadChunks(j, s) ==
  /\ at[j] = "read"
  /\ s \in IF todo[j] = {} THEN {Whole} ELSE todo[j]
  /\ scope' = [scope EXCEPT ![j] = s]
  /\ read' = [read EXCEPT ![j] = InScope(s)]
  /\ clean' = [clean EXCEPT ![j] = TRUE] /\ beaten' = [beaten EXCEPT ![j] = FALSE]
  /\ at' = [at EXCEPT ![j] = "write"]
  /\ UNCHANGED <<live, doc, profile, attempts, todo, history, get, known, faults>>

\* upsert.
Upsert(j) ==
  LET s == scope[j]
  IN /\ at[j] = "write" /\ s \in live
     /\ profile' = [profile EXCEPT ![s] = read[j]]
     /\ missed' = IF clean[j] THEN missed \ {s} ELSE missed
     /\ overtaken' = IF beaten[j] THEN overtaken \union {s} ELSE overtaken \ {s}
     /\ beaten' = [k \in Jobs |-> IF k = j THEN FALSE
                                  ELSE beaten[k] \/ (at[k] = "write" /\ scope[k] = s)]
     /\ todo' = [todo EXCEPT ![j] = @ \ {s}]
     /\ at' = [at EXCEPT ![j] = IF s = Whole THEN "done" ELSE "read"]
     /\ scope' = [scope EXCEPT ![j] = Whole] /\ read' = [read EXCEPT ![j] = {}]
     /\ clean' = [clean EXCEPT ![j] = TRUE]
     /\ UNCHANGED <<live, doc, attempts, get, known, faults>>

\* The run ends and what it knows is gone.
Drop(j) ==
  /\ attempts' = [attempts EXCEPT ![j] = @ + 1]
  /\ todo' = [todo EXCEPT ![j] = {}] /\ scope' = [scope EXCEPT ![j] = Whole]
  /\ read' = [read EXCEPT ![j] = {}]
  /\ clean' = [clean EXCEPT ![j] = TRUE] /\ beaten' = [beaten EXCEPT ![j] = FALSE]

\* An error: the job is queued again, MaxAttempts times, if its row is there.
FailAttempt(j) ==
  /\ Drop(j)
  /\ at' = [at EXCEPT ![j] = IF attempts[j] + 1 < MaxAttempts THEN "queued" ELSE "failed"]

\* The era or the persona was deleted: a foreign key fails.
UpsertFails(j) ==
  /\ at[j] = "write" /\ scope[j] \notin live
  /\ FailAttempt(j)
  /\ UNCHANGED <<live, doc, profile, history, get, known, faults>>

Fault(j) ==
  /\ at[j] \in Running /\ faults < MaxFaults /\ faults' = faults + 1
  /\ FailAttempt(j)
  /\ UNCHANGED <<live, doc, profile, history, get, known>>

\* The process dies; the reaper queues the job again.
Interrupt(j) ==
  /\ at[j] \in Running /\ faults < MaxFaults /\ faults' = faults + 1
  /\ Drop(j)
  /\ at' = [at EXCEPT ![j] = "queued"]
  /\ UNCHANGED <<live, doc, profile, history, get, known>>

-----------------------------------------------------------------------------
(* get_persona_profile: a statement to look for a job, one for the row,    *)
(* and if there is neither one to count the documents.                     *)

\* Variant: a job that is running does not count.
HasJobQueued(g) ==
  /\ get[g] = "idle"
  /\ get' = [get EXCEPT ![g] =
               IF \E j \in Jobs : at[j] = "queued" THEN "findPending" ELSE "find"]
  /\ known' = [known EXCEPT ![g] = IF Whole \in missed \union overtaken THEN {}
                                   ELSE {d \in Docs : doc[d] = "ingested"}]
  /\ UNCHANGED <<live, doc, profile, jobVars, history, faults>>

HasJob(g) ==
  /\ get[g] = "idle"
  /\ get' = [get EXCEPT ![g] = IF Pending # {} THEN "findPending" ELSE "find"]
  /\ known' = [known EXCEPT ![g] = IF Whole \in missed \union overtaken THEN {}
                                   ELSE {d \in Docs : doc[d] = "ingested"}]
  /\ UNCHANGED <<live, doc, profile, jobVars, history, faults>>

\* A profile that is found is the answer; known loses what it holds.
FindProfile(g) ==
  /\ \/ /\ get[g] = "findPending"
        /\ get' = [get EXCEPT ![g] = "pending"] /\ known' = [known EXCEPT ![g] = {}]
     \/ /\ get[g] = "find" /\ profile[Whole] # NoRow
        /\ get' = [get EXCEPT ![g] = "final"]
        /\ known' = [known EXCEPT ![g] = (@ \ profile[Whole]) \intersect Present]
     \/ get[g] = "find" /\ profile[Whole] = NoRow
        /\ get' = [get EXCEPT ![g] = "count"] /\ UNCHANGED known
  /\ UNCHANGED <<live, doc, profile, jobVars, history, faults>>

HasDocuments(g) ==
  /\ get[g] = "count"
  /\ get' = [get EXCEPT ![g] = IF Present # {} THEN "pending" ELSE "missing"]
  /\ known' = [known EXCEPT ![g] = IF Present # {} THEN {} ELSE @ \intersect Present]
  /\ UNCHANGED <<live, doc, profile, jobVars, history, faults>>

-----------------------------------------------------------------------------
Run(j) == \/ Begin(j) \/ Upsert(j) \/ UpsertFails(j)
          \/ \E s \in Scopes : ReadChunks(j, s)

ProfilesNext ==
  \/ \E d \in Docs : AddChunks(d) \/ EndIngest(d) \/ DeleteDocument(d)
  \/ \E r \in Recomputes : RequestRecompute(r)
  \/ \E e \in Eras : DeleteEra(e)
  \/ DeletePersona
  \/ \E j \in Jobs : Run(j) \/ Fault(j) \/ Interrupt(j)
  \/ \E g \in Gets : HasJob(g) \/ FindProfile(g) \/ HasDocuments(g)

ProfilesSpec == ProfilesInit /\ [][ProfilesNext]_profilesVars

-----------------------------------------------------------------------------
(* Properties.                                                             *)

GivenUp == {j \in Jobs : at[j] = "failed"}

\* With no job left and no ingest under way, the profile of the persona and of
\* each of its eras was computed from exactly the documents that are there,
\* unless a document was deleted since, an older reading has overwritten a
\* newer one, or a job was given up.
QuietProfileIsCurrent ==
  Pending = {} /\ GivenUp = {} /\ (\A d \in Docs : doc[d] # "chunked") =>
    \A s \in live \ (missed \union overtaken) :
      IF profile[s] = NoRow THEN InScope(s) = {} ELSE profile[s] = InScope(s)

\* A profile shown as final, with no job pending when the request began, lacks
\* no document whose ingest had ended by then; nor is a persona with such a
\* document said to have none.  The exceptions are those above.
FinalAnswerIsCurrent ==
  \A g \in Gets : get[g] \in {"final", "missing"} /\ GivenUp = {} => known[g] = {}

-----------------------------------------------------------------------------
(* The queue that runs the jobs is the ledger that JobQueue implements.    *)

OutcomeAt(l) == CASE l = "none" -> "absent"
                  [] l \in {"queued"} \union Running -> "pending"
                  [] OTHER -> l

JobOutcome == [j \in Jobs |-> IF Whole \in live THEN OutcomeAt(at[j]) ELSE "dropped"]

Executing == {j \in Jobs : at[j] \in Running}

Ledger == INSTANCE JobLedger WITH
  outcome <- JobOutcome, active <- Executing, Owned <- {Jobs}, Revocable <- {}

\* What happens to a recompute_profile job here is what the queue promises: one
\* execution at a time, pending until it is done or failed, queued again when it
\* is interrupted, dropped with the persona whoever executes it.
RecomputesKeepTheLedger == Ledger!Spec
=============================================================================
