---------------------------- MODULE IngestProofs ----------------------------
(***************************************************************************)
(* Theorems about Ingest, for any number of jobs, requests, batches and    *)
(* attempts, and any budget of disturbances.                               *)
(***************************************************************************)
EXTENDS Ingest, TLAPS

USE DEF ledgerVars, queueVars, docVars, chunkVars, taskVars, requestVars,
        Queue!ledgerVars, Disturbances

Late == {"chunking", "inserting", "toEmbed", "selecting", "embedding",
         "finishing", "finished"}

(***************************************************************************)
(* Where a task is agrees with the ledger, the text it works on, and what  *)
(* has disturbed it.                                                       *)
(***************************************************************************)
Placed ==
  /\ \A j \in Jobs :
       /\ at[j] # "idle" => j \in active
       /\ j \in active => outcome[j] \in {"pending", "dropped"}
       /\ j \in abandoned => outcome[j] = "pending"
       /\ outcome[j] = "dropped" => doc = "gone" /\ \A k \in Jobs : outcome[k] = "dropped"
       /\ at[j] \in {"fetching", "starting", "extracting", "chunking"} => next[j] = 1
       /\ at[j] = "inserting" => next[j] <= LastBatch
       /\ kind = "audio" => at[j] \notin Late
  /\ active \intersect abandoned = {}
  /\ kind = "audio" => doc # "done"
  /\ kind = "text" => late = 0
  /\ spent["reingest"] = 0 => \A r \in Requests : request[r] = "idle"
  /\ Uninterrupted => abandoned = {}
  /\ DeletedLeavesNoChunks

Base == TypeOK /\ Placed

-----------------------------------------------------------------------------
LEMMA InitBase == Init => Base
<1> SUFFICES ASSUME Init PROVE Base
  OBVIOUS
<1> USE DEF Init, Queue!Init, DocStatus, Settled, Stage, Reingest
<1>1. Queue!LedgerTypeOK
  BY DEF Queue!LedgerTypeOK, Queue!Outcome
<1>2. /\ progress \in BOOLEAN /\ uploading \in BOOLEAN
      /\ chunks \in SUBSET Row /\ embedded \in SUBSET chunks
  OBVIOUS
<1>3. next \in [Jobs -> 1 .. LastBatch + 1]
  BY BatchAssumption
<1>4. TypeOK
  BY <1>1, <1>2, <1>3, BudgetAssumption DEF TypeOK
<1>5. Placed
  BY BatchAssumption DEF Placed, DeletedLeavesNoChunks, Late
<1>6. QED
  BY <1>4, <1>5 DEF Base

LEMMA SpendType ==
  ASSUME TypeOK, NEW d \in Disturbances, Spend(d)
  PROVE  /\ spent' \in [Disturbances -> Nat] /\ spent'[d] > 0
         /\ \A e \in Disturbances : e # d => spent'[e] = spent[e]
BY DEF Spend, TypeOK

LEMMA SetDocType ==
  ASSUME TypeOK, NEW s \in DocStatus, NEW p \in BOOLEAN, SetDoc(s, p)
  PROVE  kind' \in Kinds /\ doc' \in DocStatus /\ progress' \in BOOLEAN
BY DEF SetDoc, TypeOK

\* An execution that ends leaves nothing else behind in the ledger.
LEMMA Ended ==
  ASSUME TypeOK, NEW j \in Jobs, NEW o \in {"done", "pending", "failed"}, Ends(j, o)
  PROVE  /\ j \in active
         /\ active' = active \ {j} /\ at' = [at EXCEPT ![j] = "idle"]
         /\ UNCHANGED <<next, todo, runs>>
         /\ outcome' = [outcome EXCEPT ![j] = outcome'[j]]
         /\ \/ outcome[j] = "pending" /\ outcome'[j] = o
            \/ outcome[j] = "dropped" /\ outcome'[j] = "dropped"
         /\ outcome' \in [Jobs -> Queue!Outcome] /\ active' \in SUBSET Jobs
         /\ at' \in [Jobs -> Stage]
<1>1. at' = [at EXCEPT ![j] = "idle"] /\ UNCHANGED <<next, todo, runs>>
  BY DEF Ends, Stop, GoTo
<1>2. /\ j \in active /\ active' = active \ {j}
      /\ \/ outcome[j] = "pending" /\ outcome'[j] = o
         \/ outcome[j] = "dropped" /\ outcome'[j] = "dropped"
      /\ outcome' = [outcome EXCEPT ![j] = outcome'[j]]
  BY DEF Ends, Dropped, Queue!End, TypeOK, Queue!LedgerTypeOK
<1>3. outcome' \in [Jobs -> Queue!Outcome] /\ active' \in SUBSET Jobs
  BY <1>2 DEF TypeOK, Queue!LedgerTypeOK, Queue!Outcome
<1>4. at' \in [Jobs -> Stage]
  BY <1>1 DEF TypeOK, Stage
<1>5. QED
  BY <1>1, <1>2, <1>3, <1>4

LEMMA NextTypeOK == Base /\ [Next]_vars => TypeOK'
<1> SUFFICES ASSUME Base, [Next]_vars PROVE TypeOK'
  OBVIOUS
<1> USE JobAssumption, KindAssumption, BatchAssumption, BudgetAssumption
<1>1. ASSUME NEW j \in Jobs, EnqueueUpload(j) PROVE TypeOK'
  BY <1>1 DEF EnqueueUpload, Enqueue, Queue!Submit, TypeOK, Base, Placed, DocStatus,
     Settled, Stage, Reingest, Row, Batch, Queue!LedgerTypeOK, Queue!Outcome
<1>2. ASSUME NEW j \in Jobs, Begin(j) PROVE TypeOK'
  BY <1>2 DEF Begin, Queue!Begin, GoTo, TypeOK, Base, Placed, DocStatus, Settled, Stage,
     Reingest, Row, Batch, Queue!LedgerTypeOK, Queue!Outcome
<1>3. ASSUME NEW j \in Jobs, FetchDocument(j) PROVE TypeOK'
  BY <1>3 DEF FetchDocument, Advance, GoTo, TypeOK, Base, Placed, DocStatus, Settled, Stage,
     Reingest, Row, Batch, Queue!LedgerTypeOK, Queue!Outcome
<1>4. ASSUME NEW j \in Jobs, MarkStarted(j) PROVE TypeOK'
  <2>1. /\ doc' \in {doc, "transcribing", "parsing"} /\ progress' \in {progress, TRUE, FALSE}
        /\ kind' = kind
    BY <1>4 DEF MarkStarted, SetDoc, docVars
  <2>2. at' = [at EXCEPT ![j] = "extracting"]
    BY <1>4 DEF MarkStarted, Advance, GoTo
  <2>3. UNCHANGED <<queueVars, chunkVars, next, todo, runs, late, requestVars, spent>>
    BY <1>4 DEF MarkStarted, Advance
  <2>4. doc' \in DocStatus /\ progress' \in BOOLEAN
    BY <2>1 DEF Base, TypeOK, DocStatus, Settled
  <2>5. at' \in [Jobs -> Stage]
    BY <2>2 DEF Base, TypeOK, Stage
  <2>6. QED
    BY <2>1, <2>3, <2>4, <2>5 DEF Base, TypeOK, queueVars, chunkVars, requestVars,
       Queue!LedgerTypeOK
<1>5. ASSUME NEW j \in Jobs, Parse(j) PROVE TypeOK'
  BY <1>5 DEF Parse, Advance, GoTo, TypeOK, Base, Placed, DocStatus, Settled, Stage,
     Reingest, Row, Batch, Queue!LedgerTypeOK, Queue!Outcome
<1>6. ASSUME NEW j \in Jobs, Transcribe(j) PROVE TypeOK'
  BY <1>6 DEF Transcribe, Advance, GoTo, TypeOK, Base, Placed, DocStatus, Settled, Stage,
     Reingest, Row, Batch, Queue!LedgerTypeOK, Queue!Outcome
<1>7. ASSUME NEW j \in Jobs, MarkChunking(j) PROVE TypeOK'
  BY <1>7 DEF MarkChunking, Advance, GoTo, SetDoc, TypeOK, Base, Placed, DocStatus, Settled,
     Stage, Reingest, Row, Batch, Queue!LedgerTypeOK, Queue!Outcome
<1>8. ASSUME NEW j \in Jobs, InsertBatch(j) PROVE TypeOK'
  BY <1>8 DEF InsertBatch, GoTo, TypeOK, Base, Placed, DocStatus, Settled, Stage, Reingest,
     Row, Batch, Queue!LedgerTypeOK, Queue!Outcome
<1>9. ASSUME NEW j \in Jobs, MarkEmbedding(j) PROVE TypeOK'
  BY <1>9 DEF MarkEmbedding, Advance, GoTo, SetDoc, TypeOK, Base, Placed, DocStatus,
     Settled, Stage, Reingest, Row, Batch, Queue!LedgerTypeOK, Queue!Outcome
<1>10. ASSUME NEW j \in Jobs, SelectUnembedded(j) PROVE TypeOK'
  BY <1>10 DEF SelectUnembedded, Unembedded, GoTo, TypeOK, Base, Placed, DocStatus, Settled,
     Stage, Reingest, Row, Batch, Queue!LedgerTypeOK, Queue!Outcome
<1>11. ASSUME NEW j \in Jobs, EmbedRow(j) PROVE TypeOK'
  BY <1>11 DEF EmbedRow, TypeOK, Base, Placed, DocStatus, Settled, Stage, Reingest, Row,
     Batch, Queue!LedgerTypeOK, Queue!Outcome
<1>12. ASSUME NEW j \in Jobs, EnqueueProfile(j) PROVE TypeOK'
  BY <1>12 DEF EnqueueProfile, PersonaGone, Dropped, Advance, GoTo, TypeOK, Base, Placed, DocStatus, Settled,
     Stage, Reingest, Row, Batch, Queue!LedgerTypeOK, Queue!Outcome
<1>13. ASSUME NEW j \in Jobs, MarkIngested(j) PROVE TypeOK'
  BY <1>13 DEF MarkIngested, Advance, GoTo, SetDoc, TypeOK, Base, Placed, DocStatus,
     Settled, Stage, Reingest, Row, Batch, Queue!LedgerTypeOK, Queue!Outcome
<1>14. ASSUME NEW j \in Jobs, Succeed(j) PROVE TypeOK'
  <2> USE DEF Base
  <2>1. PICK o \in {"done", "pending", "failed"} : Ends(j, o)
    BY <1>14 DEF Succeed
  <2>2. /\ outcome' \in [Jobs -> Queue!Outcome] /\ active' \in SUBSET Jobs
        /\ at' \in [Jobs -> Stage] /\ UNCHANGED <<next, todo, runs>>
    BY <2>1, Ended
  <2>3. UNCHANGED <<abandoned, docVars, chunkVars, late, requestVars>>
    BY <1>14 DEF Succeed
  <2>4. tries' \in [Jobs -> Nat] /\ notices' \in SUBSET Jobs
    BY <1>14 DEF Succeed, TypeOK
  <2>5. spent' \in [Disturbances -> Nat]
    BY <1>14, SpendType DEF Succeed, TypeOK
  <2>6. QED
    BY <2>2, <2>3, <2>4, <2>5 DEF TypeOK, Queue!LedgerTypeOK
<1>15. ASSUME NEW j \in Jobs, Fail(j) PROVE TypeOK'
  <2> USE DEF Base
  <2>1. PICK o \in {"done", "pending", "failed"} : Ends(j, o)
    BY <1>15 DEF Fail, GiveBack, LastTry
  <2>2. /\ outcome' \in [Jobs -> Queue!Outcome] /\ active' \in SUBSET Jobs
        /\ at' \in [Jobs -> Stage] /\ UNCHANGED <<next, todo, runs>>
    BY <2>1, Ended
  <2>3. UNCHANGED <<abandoned, docVars, chunkVars, late, requestVars>>
    BY <1>15 DEF Fail, GiveBack
  <2>4. tries' \in [Jobs -> Nat] /\ notices' \in SUBSET Jobs
    BY <1>15 DEF Fail, GiveBack, TypeOK
  <2>5. spent' \in [Disturbances -> Nat]
    BY <1>15, SpendType DEF Fail, GiveBack, TypeOK
  <2>6. QED
    BY <2>2, <2>3, <2>4, <2>5 DEF TypeOK, Queue!LedgerTypeOK
<1>16. ASSUME NEW j \in Jobs, Fault(j) PROVE TypeOK'
  <2> USE DEF Base
  <2>1. PICK o \in {"done", "pending", "failed"} : Ends(j, o)
    BY <1>16 DEF Fault, GiveBack, LastTry
  <2>2. /\ outcome' \in [Jobs -> Queue!Outcome] /\ active' \in SUBSET Jobs
        /\ at' \in [Jobs -> Stage] /\ UNCHANGED <<next, todo, runs>>
    BY <2>1, Ended
  <2>3. UNCHANGED <<abandoned, docVars, chunkVars, late, requestVars>>
    BY <1>16 DEF Fault, GiveBack
  <2>4. tries' \in [Jobs -> Nat] /\ notices' \in SUBSET Jobs
    BY <1>16 DEF Fault, GiveBack, TypeOK
  <2>5. spent' \in [Disturbances -> Nat]
    BY <1>16, SpendType DEF Fault, GiveBack, TypeOK
  <2>6. QED
    BY <2>2, <2>3, <2>4, <2>5 DEF TypeOK, Queue!LedgerTypeOK
<1>17. ASSUME NEW j \in Jobs, LoseResult(j) PROVE TypeOK'
  <2> USE DEF Base
  <2>1. active' \in SUBSET Jobs /\ abandoned' \in SUBSET Jobs
    BY <1>17 DEF LoseResult, Dropped, TypeOK, Queue!LedgerTypeOK
  <2>2. at' \in [Jobs -> Stage] /\ UNCHANGED <<next, todo, runs>>
    BY <1>17 DEF LoseResult, Stop, GoTo, TypeOK, Stage
  <2>3. spent' \in [Disturbances -> Nat]
    BY <1>17, SpendType DEF LoseResult
  <2>4. QED
    BY <1>17, <2>1, <2>2, <2>3 DEF LoseResult, TypeOK, Queue!LedgerTypeOK
<1>18. ASSUME NEW j \in Jobs, MarkDocFailed(j) PROVE TypeOK'
  <2> USE DEF Base
  <2>1. kind' \in Kinds /\ doc' \in DocStatus /\ progress' \in BOOLEAN /\ uploading' \in BOOLEAN
    <3>1. CASE SetDoc("failed", FALSE)
      BY <1>18, <3>1, SetDocType DEF MarkDocFailed, TypeOK, DocStatus, Settled
    <3>2. CASE UNCHANGED docVars
      BY <1>18, <3>2 DEF MarkDocFailed, TypeOK
    <3>3. QED
      BY <1>18, <3>1, <3>2 DEF MarkDocFailed
  <2>2. spent' \in [Disturbances -> Nat]
    BY <1>18, SpendType DEF MarkDocFailed, TypeOK
  <2>3. QED
    BY <1>18, <2>1, <2>2 DEF MarkDocFailed, TypeOK, Stage, Reingest, Row, Batch, Queue!LedgerTypeOK, Queue!Outcome
<1>19. ASSUME NEW j \in Jobs, RetryJob(j) PROVE TypeOK'
  BY <1>19 DEF RetryJob, Queue!Reopen, Spend, TypeOK, Base, Placed, DocStatus, Settled,
     Stage, Reingest, Row, Batch, Queue!LedgerTypeOK, Queue!Outcome
<1>20. ASSUME NEW j \in Jobs, CancelJob(j) PROVE TypeOK'
  BY <1>20 DEF CancelJob, Queue!Remove, Pending, Running, Spend, TypeOK, Base, Placed,
     DocStatus, Settled, Stage, Reingest, Row, Batch, Queue!LedgerTypeOK, Queue!Outcome
<1>21. ASSUME NEW r \in Requests, CheckNotRunning(r) PROVE TypeOK'
  BY <1>21 DEF CheckNotRunning, Answer, Running, Spend, TypeOK, Base, Placed, DocStatus,
     Settled, Stage, Reingest, Row, Batch, Queue!LedgerTypeOK, Queue!Outcome
<1>22. ASSUME NEW r \in Requests, DeleteChunks(r) PROVE TypeOK'
  BY <1>22 DEF DeleteChunks, Answer, TypeOK, Base, Placed, DocStatus, Settled, Stage,
     Reingest, Row, Batch, Queue!LedgerTypeOK, Queue!Outcome
<1>23. ASSUME NEW r \in Requests, DiscardJobs(r) PROVE TypeOK'
  <2> USE DEF Base
  <2>1. outcome' \in [Jobs -> Queue!Outcome] /\ active' = active
    BY <1>23 DEF DiscardJobs, Queue!Remove, TypeOK, Queue!LedgerTypeOK, Queue!Outcome
  <2>2. request' \in [Requests -> Reingest]
    BY <1>23 DEF DiscardJobs, Answer, TypeOK, Reingest
  <2>3. QED
    BY <1>23, <2>1, <2>2 DEF DiscardJobs, TypeOK, Queue!LedgerTypeOK
<1>24. ASSUME NEW r \in Requests, ResetStatus(r) PROVE TypeOK'
  BY <1>24 DEF ResetStatus, Answer, SetDoc, TypeOK, Base, Placed, DocStatus, Settled, Stage,
     Reingest, Row, Batch, Queue!LedgerTypeOK, Queue!Outcome
<1>25. ASSUME NEW r \in Requests, NEW j \in Jobs, EnqueueAgain(r, j) PROVE TypeOK'
  BY <1>25 DEF EnqueueAgain, Answer, Enqueue, Queue!Submit, TypeOK, Base, Placed, DocStatus,
     Settled, Stage, Reingest, Row, Batch, Queue!LedgerTypeOK, Queue!Outcome
<1>26. ASSUME NEW r \in Requests, RequestFails(r) PROVE TypeOK'
  BY <1>26 DEF RequestFails, Spend, TypeOK, Base, Placed, DocStatus, Settled, Stage,
     Reingest, Row, Batch, Queue!LedgerTypeOK, Queue!Outcome
<1>27. CASE EnqueueUploadFails
  <2> USE DEF Base
  <2>1. kind' \in Kinds /\ doc' \in DocStatus /\ progress' \in BOOLEAN /\ uploading' \in BOOLEAN
    BY <1>27 DEF EnqueueUploadFails, TypeOK
  <2>2. spent' \in [Disturbances -> Nat]
    BY <1>27, SpendType DEF EnqueueUploadFails
  <2>3. QED
    BY <1>27, <2>1, <2>2 DEF EnqueueUploadFails, TypeOK, Stage, Reingest, Row, Batch, Queue!LedgerTypeOK, Queue!Outcome
<1>28. CASE WriteProgress
  <2> USE DEF Base
  <2>1. kind' \in Kinds /\ doc' \in DocStatus /\ progress' \in BOOLEAN /\ uploading' \in BOOLEAN
    BY <1>28, SetDocType DEF WriteProgress, TypeOK, DocStatus, Settled
  <2>2. spent' \in [Disturbances -> Nat]
    BY <1>28 DEF WriteProgress, TypeOK
  <2>3. QED
    BY <1>28, <2>1, <2>2 DEF WriteProgress, TypeOK, Stage, Reingest, Row, Batch, Queue!LedgerTypeOK, Queue!Outcome
<1>29. CASE Reap
  BY <1>29 DEF Reap, TypeOK, Base, Placed, DocStatus, Settled, Stage, Reingest, Row, Batch,
     Queue!LedgerTypeOK, Queue!Outcome
<1>30. CASE Crash
  <2> USE DEF Base
  <2>1. kind' \in Kinds /\ doc' \in DocStatus /\ progress' \in BOOLEAN /\ uploading' \in BOOLEAN
    BY <1>30 DEF Crash, TypeOK
  <2>2. spent' \in [Disturbances -> Nat]
    BY <1>30, SpendType DEF Crash
  <2>3. QED
    BY <1>30, <2>1, <2>2 DEF Crash, TypeOK, Running, Stage, Reingest, Row, Batch, Queue!LedgerTypeOK, Queue!Outcome
<1>31. CASE DeleteDocument
  <2> USE DEF Base
  <2>1. kind' \in Kinds /\ doc' \in DocStatus /\ progress' \in BOOLEAN /\ uploading' \in BOOLEAN
    BY <1>31 DEF DeleteDocument, TypeOK, DocStatus, Settled
  <2>2. spent' \in [Disturbances -> Nat]
    BY <1>31, SpendType DEF DeleteDocument
  <2>3. QED
    BY <1>31, <2>1, <2>2 DEF DeleteDocument, TypeOK, Stage, Reingest, Row, Batch, Queue!LedgerTypeOK, Queue!Outcome
<1>32. CASE UNCHANGED vars
  BY <1>32 DEF vars, TypeOK, Base, Placed, DocStatus, Settled, Stage, Reingest, Row, Batch,
     Queue!LedgerTypeOK, Queue!Outcome
<1>33. ASSUME NEW r \in Requests, RefuseAgain(r) PROVE TypeOK'
  BY <1>33 DEF RefuseAgain, Answer, TypeOK, Base, Placed, DocStatus, Settled, Stage, Reingest,
     Row, Batch, Queue!LedgerTypeOK, Queue!Outcome
<1>34. CASE RefuseUpload
  BY <1>34 DEF RefuseUpload, TypeOK, Base, Placed, DocStatus, Settled, Stage, Reingest, Row,
     Batch, Queue!LedgerTypeOK, Queue!Outcome
<1>35. CASE DeletePersona
  <2> USE DEF Base
  <2>1. outcome' \in [Jobs -> Queue!Outcome] /\ UNCHANGED active
    BY <1>35 DEF DeletePersona, Queue!Drop, TypeOK, Queue!LedgerTypeOK, Queue!Outcome
  <2>2. doc' \in DocStatus /\ progress' \in BOOLEAN /\ UNCHANGED kind
    BY <1>35 DEF DeletePersona, DocStatus, Settled
  <2>3. spent' \in [Disturbances -> Nat]
    BY <1>35, SpendType DEF DeletePersona
  <2>4. QED
    BY <1>35, <2>1, <2>2, <2>3 DEF DeletePersona, TypeOK, Queue!LedgerTypeOK
<1>36. QED
  BY <1>1, <1>2, <1>3, <1>4, <1>5, <1>6, <1>7, <1>8, <1>9, <1>10, <1>11, <1>12, <1>13,
     <1>14, <1>15, <1>16, <1>17, <1>18, <1>19, <1>20, <1>21, <1>22, <1>23, <1>24, <1>25,
     <1>26, <1>27, <1>28, <1>29, <1>30, <1>31, <1>32, <1>33, <1>34, <1>35 DEF Next, Step, Handle

LEMMA NextPlaced == Base /\ [Next]_vars => Placed'
<1> SUFFICES ASSUME Base, [Next]_vars PROVE Placed'
  OBVIOUS
<1> USE KindAssumption, BatchAssumption
<1>1. ASSUME NEW j \in Jobs, EnqueueUpload(j) PROVE Placed'
  BY <1>1 DEF EnqueueUpload, Enqueue, Queue!Submit, Base, Placed, Dropped, DeletedLeavesNoChunks,
     Late, Uninterrupted, TypeOK, Stage, Queue!LedgerTypeOK
<1>2. ASSUME NEW j \in Jobs, Begin(j) PROVE Placed'
  BY <1>2 DEF Begin, Queue!Begin, GoTo, Base, Placed, Dropped, DeletedLeavesNoChunks, Late,
     Uninterrupted, TypeOK, Stage, Queue!LedgerTypeOK
<1>3. ASSUME NEW j \in Jobs, FetchDocument(j) PROVE Placed'
  BY <1>3 DEF FetchDocument, Advance, GoTo, Base, Placed, Dropped, DeletedLeavesNoChunks, Late,
     Uninterrupted, TypeOK, Stage, Queue!LedgerTypeOK
<1>4. ASSUME NEW j \in Jobs, MarkStarted(j) PROVE Placed'
  BY <1>4 DEF MarkStarted, Advance, GoTo, SetDoc, Base, Placed, Dropped, DeletedLeavesNoChunks, Late,
     Uninterrupted, TypeOK, Stage, Queue!LedgerTypeOK
<1>5. ASSUME NEW j \in Jobs, Parse(j) PROVE Placed'
  BY <1>5 DEF Parse, Advance, GoTo, Base, Placed, Dropped, DeletedLeavesNoChunks, Late,
     Uninterrupted, TypeOK, Stage, Queue!LedgerTypeOK
<1>6. ASSUME NEW j \in Jobs, Transcribe(j) PROVE Placed'
  BY <1>6 DEF Transcribe, Advance, GoTo, Base, Placed, Dropped, DeletedLeavesNoChunks, Late,
     Uninterrupted, TypeOK, Stage, Queue!LedgerTypeOK
<1>7. ASSUME NEW j \in Jobs, MarkChunking(j) PROVE Placed'
  BY <1>7 DEF MarkChunking, Advance, GoTo, SetDoc, Base, Placed, Dropped, DeletedLeavesNoChunks,
     Late, Uninterrupted, TypeOK, Stage, Queue!LedgerTypeOK
<1>8. ASSUME NEW j \in Jobs, InsertBatch(j) PROVE Placed'
  BY <1>8 DEF InsertBatch, GoTo, Base, Placed, Dropped, DeletedLeavesNoChunks, Late, Uninterrupted,
     TypeOK, Stage, Queue!LedgerTypeOK
<1>9. ASSUME NEW j \in Jobs, MarkEmbedding(j) PROVE Placed'
  BY <1>9 DEF MarkEmbedding, Advance, GoTo, SetDoc, Base, Placed, Dropped, DeletedLeavesNoChunks,
     Late, Uninterrupted, TypeOK, Stage, Queue!LedgerTypeOK
<1>10. ASSUME NEW j \in Jobs, SelectUnembedded(j) PROVE Placed'
  BY <1>10 DEF SelectUnembedded, Unembedded, GoTo, Base, Placed, Dropped, DeletedLeavesNoChunks,
     Late, Uninterrupted, TypeOK, Stage, Queue!LedgerTypeOK
<1>11. ASSUME NEW j \in Jobs, EmbedRow(j) PROVE Placed'
  BY <1>11 DEF EmbedRow, Base, Placed, Dropped, DeletedLeavesNoChunks, Late, Uninterrupted, TypeOK,
     Stage, Queue!LedgerTypeOK
<1>12. ASSUME NEW j \in Jobs, EnqueueProfile(j) PROVE Placed'
  BY <1>12 DEF EnqueueProfile, PersonaGone, Dropped, Advance, GoTo, Base, Placed, Dropped, DeletedLeavesNoChunks, Late,
     Uninterrupted, TypeOK, Stage, Queue!LedgerTypeOK
<1>13. ASSUME NEW j \in Jobs, MarkIngested(j) PROVE Placed'
  BY <1>13 DEF MarkIngested, Advance, GoTo, SetDoc, Base, Placed, Dropped, DeletedLeavesNoChunks,
     Late, Uninterrupted, TypeOK, Stage, Queue!LedgerTypeOK
<1>14. ASSUME NEW j \in Jobs, Succeed(j) PROVE Placed'
  <2> USE DEF Base
  <2>1. PICK o \in {"done", "pending", "failed"} : Ends(j, o)
    BY <1>14 DEF Succeed
  <2>2. /\ j \in active /\ active' = active \ {j} /\ at' = [at EXCEPT ![j] = "idle"]
        /\ outcome' = [outcome EXCEPT ![j] = outcome'[j]]
        /\ outcome'[j] = "dropped" <=> outcome[j] = "dropped"
        /\ UNCHANGED <<next, todo, runs>>
    BY <2>1, Ended
  <2>3. UNCHANGED <<kind, doc, late, request, abandoned, chunks>>
    BY <1>14 DEF Succeed
  <2>4. \A i \in Jobs :
          /\ i \in active' => outcome'[i] \in {"pending", "dropped"}
          /\ i \in abandoned' => outcome'[i] = "pending"
          /\ outcome'[i] = "dropped" <=> outcome[i] = "dropped"
    BY <2>2, <2>3 DEF Placed, TypeOK, Queue!LedgerTypeOK
  <2>5. \A d \in {"reingest", "crash", "dbError"} : spent'[d] = spent[d]
    BY <1>14, SpendType DEF Succeed
  <2>6. \A i \in Jobs : at'[i] = at[i] \/ (at'[i] = "idle" /\ i = j)
    BY <2>2 DEF TypeOK
  <2>7. \A i \in Jobs : at'[i] # "idle" => i \in active'
    BY <2>2, <2>6 DEF Placed, TypeOK
  <2>8. \A i \in Jobs :
          /\ outcome'[i] = "dropped" =>
               doc' = "gone" /\ \A k \in Jobs : outcome'[k] = "dropped"
          /\ at'[i] \in {"fetching", "starting", "extracting", "chunking"}
               => next'[i] = 1
          /\ at'[i] = "inserting" => next'[i] <= LastBatch
          /\ kind' = "audio" => at'[i] \notin Late
    BY <2>2, <2>3, <2>4, <2>6 DEF Placed, Late
  <2>9. active' \intersect abandoned' = {}
    BY <2>2, <2>3 DEF Placed
  <2>10. /\ kind' = "audio" => doc' # "done"
         /\ kind' = "text" => late' = 0
         /\ DeletedLeavesNoChunks'
    BY <2>3 DEF Placed, DeletedLeavesNoChunks
  <2>11. /\ spent'["reingest"] = 0 => \A r \in Requests : request'[r] = "idle"
         /\ Uninterrupted' => abandoned' = {}
    BY <2>3, <2>5 DEF Placed, Uninterrupted
  <2>12. QED
    BY <2>4, <2>7, <2>8, <2>9, <2>10, <2>11 DEF Placed
<1>15. ASSUME NEW j \in Jobs, Fail(j) PROVE Placed'
  <2> USE DEF Base
  <2>1. PICK o \in {"done", "pending", "failed"} : Ends(j, o)
    BY <1>15 DEF Fail, GiveBack, LastTry
  <2>2. /\ j \in active /\ active' = active \ {j} /\ at' = [at EXCEPT ![j] = "idle"]
        /\ outcome' = [outcome EXCEPT ![j] = outcome'[j]]
        /\ outcome'[j] = "dropped" <=> outcome[j] = "dropped"
        /\ UNCHANGED <<next, todo, runs>>
    BY <2>1, Ended
  <2>3. UNCHANGED <<kind, doc, late, request, abandoned, chunks>>
    BY <1>15 DEF Fail, GiveBack
  <2>4. \A i \in Jobs :
          /\ i \in active' => outcome'[i] \in {"pending", "dropped"}
          /\ i \in abandoned' => outcome'[i] = "pending"
          /\ outcome'[i] = "dropped" <=> outcome[i] = "dropped"
    BY <2>2, <2>3 DEF Placed, TypeOK, Queue!LedgerTypeOK
  <2>5. \A d \in {"reingest", "crash", "dbError"} : spent'[d] = spent[d]
    BY <1>15, SpendType DEF Fail, GiveBack
  <2>6. \A i \in Jobs : at'[i] = at[i] \/ (at'[i] = "idle" /\ i = j)
    BY <2>2 DEF TypeOK
  <2>7. \A i \in Jobs : at'[i] # "idle" => i \in active'
    BY <2>2, <2>6 DEF Placed, TypeOK
  <2>8. \A i \in Jobs :
          /\ outcome'[i] = "dropped" =>
               doc' = "gone" /\ \A k \in Jobs : outcome'[k] = "dropped"
          /\ at'[i] \in {"fetching", "starting", "extracting", "chunking"}
               => next'[i] = 1
          /\ at'[i] = "inserting" => next'[i] <= LastBatch
          /\ kind' = "audio" => at'[i] \notin Late
    BY <2>2, <2>3, <2>4, <2>6 DEF Placed, Late
  <2>9. active' \intersect abandoned' = {}
    BY <2>2, <2>3 DEF Placed
  <2>10. /\ kind' = "audio" => doc' # "done"
         /\ kind' = "text" => late' = 0
         /\ DeletedLeavesNoChunks'
    BY <2>3 DEF Placed, DeletedLeavesNoChunks
  <2>11. /\ spent'["reingest"] = 0 => \A r \in Requests : request'[r] = "idle"
         /\ Uninterrupted' => abandoned' = {}
    BY <2>3, <2>5 DEF Placed, Uninterrupted
  <2>12. QED
    BY <2>4, <2>7, <2>8, <2>9, <2>10, <2>11 DEF Placed
<1>16. ASSUME NEW j \in Jobs, Fault(j) PROVE Placed'
  <2> USE DEF Base
  <2>1. PICK o \in {"done", "pending", "failed"} : Ends(j, o)
    BY <1>16 DEF Fault, GiveBack, LastTry
  <2>2. /\ j \in active /\ active' = active \ {j} /\ at' = [at EXCEPT ![j] = "idle"]
        /\ outcome' = [outcome EXCEPT ![j] = outcome'[j]]
        /\ outcome'[j] = "dropped" <=> outcome[j] = "dropped"
        /\ UNCHANGED <<next, todo, runs>>
    BY <2>1, Ended
  <2>3. UNCHANGED <<kind, doc, late, request, abandoned, chunks>>
    BY <1>16 DEF Fault, GiveBack
  <2>4. \A i \in Jobs :
          /\ i \in active' => outcome'[i] \in {"pending", "dropped"}
          /\ i \in abandoned' => outcome'[i] = "pending"
          /\ outcome'[i] = "dropped" <=> outcome[i] = "dropped"
    BY <2>2, <2>3 DEF Placed, TypeOK, Queue!LedgerTypeOK
  <2>5. \A d \in {"reingest", "crash", "dbError"} : spent'[d] = spent[d]
    BY <1>16, SpendType DEF Fault, GiveBack
  <2>6. \A i \in Jobs : at'[i] = at[i] \/ (at'[i] = "idle" /\ i = j)
    BY <2>2 DEF TypeOK
  <2>7. \A i \in Jobs : at'[i] # "idle" => i \in active'
    BY <2>2, <2>6 DEF Placed, TypeOK
  <2>8. \A i \in Jobs :
          /\ outcome'[i] = "dropped" =>
               doc' = "gone" /\ \A k \in Jobs : outcome'[k] = "dropped"
          /\ at'[i] \in {"fetching", "starting", "extracting", "chunking"}
               => next'[i] = 1
          /\ at'[i] = "inserting" => next'[i] <= LastBatch
          /\ kind' = "audio" => at'[i] \notin Late
    BY <2>2, <2>3, <2>4, <2>6 DEF Placed, Late
  <2>9. active' \intersect abandoned' = {}
    BY <2>2, <2>3 DEF Placed
  <2>10. /\ kind' = "audio" => doc' # "done"
         /\ kind' = "text" => late' = 0
         /\ DeletedLeavesNoChunks'
    BY <2>3 DEF Placed, DeletedLeavesNoChunks
  <2>11. /\ spent'["reingest"] = 0 => \A r \in Requests : request'[r] = "idle"
         /\ Uninterrupted' => abandoned' = {}
    BY <2>3, <2>5 DEF Placed, Uninterrupted
  <2>12. QED
    BY <2>4, <2>7, <2>8, <2>9, <2>10, <2>11 DEF Placed
<1>17. ASSUME NEW j \in Jobs, LoseResult(j) PROVE Placed'
  BY <1>17 DEF LoseResult, Dropped, Stop, GoTo, Spend, Base, Placed, Dropped, DeletedLeavesNoChunks, Late,
     Uninterrupted, TypeOK, Stage, Queue!LedgerTypeOK
<1>18. ASSUME NEW j \in Jobs, MarkDocFailed(j) PROVE Placed'
  BY <1>18 DEF MarkDocFailed, SetDoc, Spend, Base, Placed, Dropped, DeletedLeavesNoChunks, Late,
     Uninterrupted, TypeOK, Stage, Queue!LedgerTypeOK
<1>19. ASSUME NEW j \in Jobs, RetryJob(j) PROVE Placed'
  BY <1>19 DEF RetryJob, Queue!Reopen, Spend, Base, Placed, Dropped, DeletedLeavesNoChunks, Late,
     Uninterrupted, TypeOK, Stage, Queue!LedgerTypeOK
<1>20. ASSUME NEW j \in Jobs, CancelJob(j) PROVE Placed'
  BY <1>20 DEF CancelJob, Queue!Remove, Pending, Running, Spend, Base, Placed,
     Dropped, DeletedLeavesNoChunks, Late, Uninterrupted, TypeOK, Stage, Queue!LedgerTypeOK
<1>21. ASSUME NEW r \in Requests, CheckNotRunning(r) PROVE Placed'
  BY <1>21 DEF CheckNotRunning, Answer, Running, Spend, Base, Placed, Dropped, DeletedLeavesNoChunks,
     Late, Uninterrupted, TypeOK, Stage, Queue!LedgerTypeOK
<1>22. ASSUME NEW r \in Requests, DeleteChunks(r) PROVE Placed'
  BY <1>22 DEF DeleteChunks, Answer, Base, Placed, Dropped, DeletedLeavesNoChunks, Late,
     Uninterrupted, TypeOK, Stage, Queue!LedgerTypeOK
<1>23. ASSUME NEW r \in Requests, DiscardJobs(r) PROVE Placed'
  BY <1>23 DEF DiscardJobs, Answer, Discarded, Running, Queue!Remove, Base, Placed,
     Dropped, DeletedLeavesNoChunks, Late, Uninterrupted, TypeOK, Stage, Queue!LedgerTypeOK
<1>24. ASSUME NEW r \in Requests, ResetStatus(r) PROVE Placed'
  BY <1>24 DEF ResetStatus, Answer, SetDoc, Base, Placed, Dropped, DeletedLeavesNoChunks, Late,
     Uninterrupted, TypeOK, Stage, Queue!LedgerTypeOK
<1>25. ASSUME NEW r \in Requests, NEW j \in Jobs, EnqueueAgain(r, j) PROVE Placed'
  BY <1>25 DEF EnqueueAgain, Answer, Enqueue, Queue!Submit, Base, Placed,
     Dropped, DeletedLeavesNoChunks, Late, Uninterrupted, TypeOK, Stage, Queue!LedgerTypeOK
<1>26. ASSUME NEW r \in Requests, RequestFails(r) PROVE Placed'
  BY <1>26 DEF RequestFails, Spend, Base, Placed, Dropped, DeletedLeavesNoChunks, Late,
     Uninterrupted, TypeOK, Stage, Queue!LedgerTypeOK
<1>27. CASE EnqueueUploadFails
  BY <1>27 DEF EnqueueUploadFails, Spend, Base, Placed, Dropped, DeletedLeavesNoChunks, Late,
     Uninterrupted, TypeOK, Stage, Queue!LedgerTypeOK
<1>28. CASE WriteProgress
  BY <1>28 DEF WriteProgress, SetDoc, Base, Placed, Dropped, DeletedLeavesNoChunks, Late,
     Uninterrupted, TypeOK, Stage, Queue!LedgerTypeOK
<1>29. CASE Reap
  BY <1>29 DEF Reap, Base, Placed, Dropped, DeletedLeavesNoChunks, Late, Uninterrupted, TypeOK,
     Stage, Queue!LedgerTypeOK
<1>30. CASE Crash
  BY <1>30 DEF Crash, Running, Dropped, Spend, Base, Placed, Dropped, DeletedLeavesNoChunks, Late,
     Uninterrupted, TypeOK, Stage, Queue!LedgerTypeOK
<1>31. CASE DeleteDocument
  BY <1>31 DEF DeleteDocument, Spend, Base, Placed, Dropped, DeletedLeavesNoChunks, Late,
     Uninterrupted, TypeOK, Stage, Queue!LedgerTypeOK
<1>32. CASE UNCHANGED vars
  BY <1>32 DEF vars, Base, Placed, Dropped, DeletedLeavesNoChunks, Late, Uninterrupted, TypeOK,
     Stage, Queue!LedgerTypeOK
<1>33. ASSUME NEW r \in Requests, RefuseAgain(r) PROVE Placed'
  BY <1>33 DEF RefuseAgain, PersonaGone, Dropped, Answer, Base, Placed, Dropped, DeletedLeavesNoChunks, Late, Uninterrupted,
     TypeOK, Stage, Queue!LedgerTypeOK
<1>34. CASE RefuseUpload
  BY <1>34 DEF RefuseUpload, PersonaGone, Dropped, Base, Placed, Dropped, DeletedLeavesNoChunks, Late, Uninterrupted, TypeOK,
     Stage, Queue!LedgerTypeOK
<1>35. CASE DeletePersona
  BY <1>35 DEF DeletePersona, Queue!Drop, Dropped, PersonaGone, Spend, Base, Placed,
     Dropped, DeletedLeavesNoChunks, Late, Uninterrupted, TypeOK, Stage, Queue!LedgerTypeOK
<1>36. QED
  BY <1>1, <1>2, <1>3, <1>4, <1>5, <1>6, <1>7, <1>8, <1>9, <1>10, <1>11, <1>12, <1>13,
     <1>14, <1>15, <1>16, <1>17, <1>18, <1>19, <1>20, <1>21, <1>22, <1>23, <1>24, <1>25,
     <1>26, <1>27, <1>28, <1>29, <1>30, <1>31, <1>32, <1>33, <1>34, <1>35 DEF Next, Step, Handle

-----------------------------------------------------------------------------
(***************************************************************************)
(* Whoever moved the text to an intermediate status, or somebody after     *)
(* him, has still to act on it.                                            *)
(***************************************************************************)
Attended ==
  kind = "text" /\ Uninterrupted /\ spent["cancel"] = 0 /\ doc \notin Settled =>
    \/ uploading
    \/ notices # {}
    \/ \E j \in Jobs : outcome[j] = "pending" /\ at[j] # "finished"
    \/ \E r \in Requests : request[r] \notin {"idle", "answered"}

LEMMA NextAttended == Base /\ Attended /\ [Next]_vars => Attended'
<1> SUFFICES ASSUME Base /\ Attended, [Next]_vars PROVE Attended'
  OBVIOUS
<1>1. ASSUME NEW j \in Jobs, EnqueueUpload(j) PROVE Attended'
  BY <1>1 DEF EnqueueUpload, Enqueue, Queue!Submit, Base, Placed, Attended, Uninterrupted,
     Settled, TypeOK, Queue!LedgerTypeOK
<1>2. ASSUME NEW j \in Jobs, Begin(j) PROVE Attended'
  BY <1>2 DEF Begin, Queue!Begin, GoTo, Base, Placed, Attended, Uninterrupted, Settled,
     TypeOK, Queue!LedgerTypeOK
<1>3. ASSUME NEW j \in Jobs, FetchDocument(j) PROVE Attended'
  BY <1>3 DEF FetchDocument, Advance, GoTo, Base, Placed, Attended, Uninterrupted, Settled,
     TypeOK, Queue!LedgerTypeOK
<1>4. ASSUME NEW j \in Jobs, MarkStarted(j) PROVE Attended'
  BY <1>4 DEF MarkStarted, Advance, GoTo, SetDoc, Base, Placed, Attended, Uninterrupted,
     Settled, TypeOK, Queue!LedgerTypeOK
<1>5. ASSUME NEW j \in Jobs, Parse(j) PROVE Attended'
  BY <1>5 DEF Parse, Advance, GoTo, Base, Placed, Attended, Uninterrupted, Settled, TypeOK,
     Queue!LedgerTypeOK
<1>6. ASSUME NEW j \in Jobs, Transcribe(j) PROVE Attended'
  BY <1>6 DEF Transcribe, Advance, GoTo, Base, Placed, Attended, Uninterrupted, Settled,
     TypeOK, Queue!LedgerTypeOK
<1>7. ASSUME NEW j \in Jobs, MarkChunking(j) PROVE Attended'
  BY <1>7 DEF MarkChunking, Advance, GoTo, SetDoc, Base, Placed, Attended, Uninterrupted,
     Settled, TypeOK, Queue!LedgerTypeOK
<1>8. ASSUME NEW j \in Jobs, InsertBatch(j) PROVE Attended'
  BY <1>8 DEF InsertBatch, GoTo, Base, Placed, Attended, Uninterrupted, Settled, TypeOK,
     Queue!LedgerTypeOK
<1>9. ASSUME NEW j \in Jobs, MarkEmbedding(j) PROVE Attended'
  BY <1>9 DEF MarkEmbedding, Advance, GoTo, SetDoc, Base, Placed, Attended, Uninterrupted,
     Settled, TypeOK, Queue!LedgerTypeOK
<1>10. ASSUME NEW j \in Jobs, SelectUnembedded(j) PROVE Attended'
  BY <1>10 DEF SelectUnembedded, Unembedded, GoTo, Base, Placed, Attended, Uninterrupted,
     Settled, TypeOK, Queue!LedgerTypeOK
<1>11. ASSUME NEW j \in Jobs, EmbedRow(j) PROVE Attended'
  BY <1>11 DEF EmbedRow, Base, Placed, Attended, Uninterrupted, Settled, TypeOK,
     Queue!LedgerTypeOK
<1>12. ASSUME NEW j \in Jobs, EnqueueProfile(j) PROVE Attended'
  BY <1>12 DEF EnqueueProfile, PersonaGone, Dropped, Advance, GoTo, Base, Placed, Attended, Uninterrupted,
     Settled, TypeOK, Queue!LedgerTypeOK
<1>13. ASSUME NEW j \in Jobs, MarkIngested(j) PROVE Attended'
  BY <1>13 DEF MarkIngested, Advance, GoTo, SetDoc, Base, Placed, Attended, Uninterrupted,
     Settled, TypeOK, Queue!LedgerTypeOK
<1>14. ASSUME NEW j \in Jobs, Succeed(j) PROVE Attended'
  BY <1>14 DEF Succeed, Ends, Dropped, Queue!End, Stop, GoTo, Base, Placed, Attended, Uninterrupted,
     Settled, TypeOK, Queue!LedgerTypeOK
<1>15. ASSUME NEW j \in Jobs, Fail(j) PROVE Attended'
  BY <1>15 DEF Fail, GiveBack, LastTry, Ends, Dropped, Queue!End, Stop, GoTo, Base, Placed, Attended, Uninterrupted,
     Settled, TypeOK, Queue!LedgerTypeOK
<1>16. ASSUME NEW j \in Jobs, Fault(j) PROVE Attended'
  <2>1. /\ UNCHANGED <<kind, doc, uploading, request>>
        /\ spent'["crash"] = spent["crash"] /\ spent'["dbError"] = spent["dbError"]
        /\ spent'["cancel"] = spent["cancel"]
    BY <1>16 DEF Fault, GiveBack, Ends, Stop, Spend, docVars, requestVars, Base, TypeOK
  <2>2. /\ Stop(j) /\ notices \subseteq notices'
        /\ LastTry(j) => notices' # {}
    BY <1>16 DEF Fault, GiveBack, Ends
  <2>3. CASE LastTry(j)
    BY <2>1, <2>2, <2>3 DEF Attended, Uninterrupted
  <2>4. CASE ~LastTry(j)
    <3>1. \/ outcome'[j] = "pending" /\ \A k \in Jobs \ {j} : outcome'[k] = outcome[k]
          \/ outcome[j] = "dropped" /\ outcome' = outcome
      BY <1>16, <2>4 DEF Fault, GiveBack, Ends, Dropped, Queue!End, Base, TypeOK, Queue!LedgerTypeOK
    <3>2. at'[j] = "idle" /\ \A k \in Jobs \ {j} : at'[k] = at[k]
      BY <2>2 DEF Stop, GoTo, Base, TypeOK
    <3>3. outcome[j] # "dropped" \/ doc = "gone"
      BY DEF Base, Placed
    <3>4. QED
      BY <2>1, <2>2, <3>1, <3>2, <3>3 DEF Attended, Uninterrupted, Settled
  <2>5. QED
    BY <2>3, <2>4
<1>17. ASSUME NEW j \in Jobs, LoseResult(j) PROVE Attended'
  BY <1>17 DEF LoseResult, Dropped, Stop, GoTo, Spend, Base, Placed, Attended, Uninterrupted,
     Settled, TypeOK, Queue!LedgerTypeOK
<1>18. ASSUME NEW j \in Jobs, MarkDocFailed(j) PROVE Attended'
  BY <1>18 DEF MarkDocFailed, SetDoc, Spend, Base, Placed, Attended, Uninterrupted, Settled,
     TypeOK, Queue!LedgerTypeOK
<1>19. ASSUME NEW j \in Jobs, RetryJob(j) PROVE Attended'
  BY <1>19 DEF RetryJob, Queue!Reopen, Spend, Base, Placed, Attended, Uninterrupted,
     Settled, TypeOK, Queue!LedgerTypeOK
<1>20. ASSUME NEW j \in Jobs, CancelJob(j) PROVE Attended'
  BY <1>20 DEF CancelJob, Queue!Remove, Pending, Running, Spend, Base, Placed, Attended,
     Uninterrupted, Settled, TypeOK, Queue!LedgerTypeOK
<1>21. ASSUME NEW r \in Requests, CheckNotRunning(r) PROVE Attended'
  BY <1>21 DEF CheckNotRunning, Answer, Running, Spend, Base, Placed, Attended,
     Uninterrupted, Settled, TypeOK, Queue!LedgerTypeOK
<1>22. ASSUME NEW r \in Requests, DeleteChunks(r) PROVE Attended'
  BY <1>22 DEF DeleteChunks, Answer, Base, Placed, Attended, Uninterrupted, Settled, TypeOK,
     Queue!LedgerTypeOK
<1>23. ASSUME NEW r \in Requests, DiscardJobs(r) PROVE Attended'
  BY <1>23 DEF DiscardJobs, Answer, Discarded, Running, Queue!Remove, Base, Placed,
     Attended, Uninterrupted, Settled, TypeOK, Queue!LedgerTypeOK
<1>24. ASSUME NEW r \in Requests, ResetStatus(r) PROVE Attended'
  BY <1>24 DEF ResetStatus, Answer, SetDoc, Base, Placed, Attended, Uninterrupted, Settled,
     TypeOK, Queue!LedgerTypeOK
<1>25. ASSUME NEW r \in Requests, NEW j \in Jobs, EnqueueAgain(r, j) PROVE Attended'
  BY <1>25 DEF EnqueueAgain, Answer, Enqueue, Queue!Submit, Base, Placed, Attended,
     Uninterrupted, Settled, TypeOK, Queue!LedgerTypeOK
<1>26. ASSUME NEW r \in Requests, RequestFails(r) PROVE Attended'
  BY <1>26 DEF RequestFails, Spend, Base, Placed, Attended, Uninterrupted, Settled, TypeOK,
     Queue!LedgerTypeOK
<1>27. CASE EnqueueUploadFails
  BY <1>27 DEF EnqueueUploadFails, Spend, Base, Placed, Attended, Uninterrupted, Settled,
     TypeOK, Queue!LedgerTypeOK
<1>28. CASE WriteProgress
  BY <1>28 DEF WriteProgress, SetDoc, Base, Placed, Attended, Uninterrupted, Settled,
     TypeOK, Queue!LedgerTypeOK
<1>29. CASE Reap
  BY <1>29 DEF Reap, Base, Placed, Attended, Uninterrupted, Settled, TypeOK,
     Queue!LedgerTypeOK
<1>30. CASE Crash
  BY <1>30 DEF Crash, Running, Dropped, Spend, Base, Placed, Attended, Uninterrupted, Settled,
     TypeOK, Queue!LedgerTypeOK
<1>31. CASE DeleteDocument
  BY <1>31 DEF DeleteDocument, Spend, Base, Placed, Attended, Uninterrupted, Settled,
     TypeOK, Queue!LedgerTypeOK
<1>32. CASE UNCHANGED vars
  BY <1>32 DEF vars, Base, Placed, Attended, Uninterrupted, Settled, TypeOK,
     Queue!LedgerTypeOK
<1>33. ASSUME NEW r \in Requests, RefuseAgain(r) PROVE Attended'
  BY <1>33 DEF RefuseAgain, PersonaGone, Dropped, Answer, Base, Placed, Attended, Uninterrupted, Settled, TypeOK,
     Queue!LedgerTypeOK
<1>34. CASE RefuseUpload
  BY <1>34 DEF RefuseUpload, PersonaGone, Dropped, Base, Placed, Attended, Uninterrupted, Settled, TypeOK,
     Queue!LedgerTypeOK
<1>35. CASE DeletePersona
  BY <1>35 DEF DeletePersona, Queue!Drop, Dropped, PersonaGone, Spend, Base, Placed, Attended,
     Uninterrupted, Settled, TypeOK, Queue!LedgerTypeOK
<1>36. QED
  BY <1>1, <1>2, <1>3, <1>4, <1>5, <1>6, <1>7, <1>8, <1>9, <1>10, <1>11, <1>12, <1>13,
     <1>14, <1>15, <1>16, <1>17, <1>18, <1>19, <1>20, <1>21, <1>22, <1>23, <1>24, <1>25,
     <1>26, <1>27, <1>28, <1>29, <1>30, <1>31, <1>32, <1>33, <1>34, <1>35 DEF Next, Step, Handle

(***************************************************************************)
(* A verdict, or the notice that will become one, has its job.             *)
(***************************************************************************)
Verdict ==
  Uninterrupted /\ spent["retry"] = 0 /\ spent["cancel"] = 0 =>
    /\ doc = "done" => \E j \in Jobs : outcome[j] = "done" \/ at[j] = "finished"
    /\ \A j \in notices :
         outcome[j] = "failed" \/ spent["reingest"] > 0 \/ doc = "gone"
    /\ doc = "failed" => \/ \E j \in Jobs : outcome[j] = "failed"
                         \/ spent["reingest"] > 0

LEMMA NextVerdict == Base /\ Verdict /\ [Next]_vars => Verdict'
<1> SUFFICES ASSUME Base /\ Verdict, [Next]_vars PROVE Verdict'
  OBVIOUS
<1>1. ASSUME NEW j \in Jobs, EnqueueUpload(j) PROVE Verdict'
  BY <1>1 DEF EnqueueUpload, Enqueue, Queue!Submit, Base, Placed, Verdict, Uninterrupted,
     TypeOK, Queue!LedgerTypeOK
<1>2. ASSUME NEW j \in Jobs, Begin(j) PROVE Verdict'
  BY <1>2 DEF Begin, Queue!Begin, GoTo, Base, Placed, Verdict, Uninterrupted, TypeOK,
     Queue!LedgerTypeOK
<1>3. ASSUME NEW j \in Jobs, FetchDocument(j) PROVE Verdict'
  BY <1>3 DEF FetchDocument, Advance, GoTo, Base, Placed, Verdict, Uninterrupted, TypeOK,
     Queue!LedgerTypeOK
<1>4. ASSUME NEW j \in Jobs, MarkStarted(j) PROVE Verdict'
  BY <1>4 DEF MarkStarted, Advance, GoTo, SetDoc, Base, Placed, Verdict, Uninterrupted,
     TypeOK, Queue!LedgerTypeOK
<1>5. ASSUME NEW j \in Jobs, Parse(j) PROVE Verdict'
  BY <1>5 DEF Parse, Advance, GoTo, Base, Placed, Verdict, Uninterrupted, TypeOK,
     Queue!LedgerTypeOK
<1>6. ASSUME NEW j \in Jobs, Transcribe(j) PROVE Verdict'
  BY <1>6 DEF Transcribe, Advance, GoTo, Base, Placed, Verdict, Uninterrupted, TypeOK,
     Queue!LedgerTypeOK
<1>7. ASSUME NEW j \in Jobs, MarkChunking(j) PROVE Verdict'
  BY <1>7 DEF MarkChunking, Advance, GoTo, SetDoc, Base, Placed, Verdict, Uninterrupted,
     TypeOK, Queue!LedgerTypeOK
<1>8. ASSUME NEW j \in Jobs, InsertBatch(j) PROVE Verdict'
  BY <1>8 DEF InsertBatch, GoTo, Base, Placed, Verdict, Uninterrupted, TypeOK,
     Queue!LedgerTypeOK
<1>9. ASSUME NEW j \in Jobs, MarkEmbedding(j) PROVE Verdict'
  BY <1>9 DEF MarkEmbedding, Advance, GoTo, SetDoc, Base, Placed, Verdict, Uninterrupted,
     TypeOK, Queue!LedgerTypeOK
<1>10. ASSUME NEW j \in Jobs, SelectUnembedded(j) PROVE Verdict'
  BY <1>10 DEF SelectUnembedded, Unembedded, GoTo, Base, Placed, Verdict, Uninterrupted,
     TypeOK, Queue!LedgerTypeOK
<1>11. ASSUME NEW j \in Jobs, EmbedRow(j) PROVE Verdict'
  BY <1>11 DEF EmbedRow, Base, Placed, Verdict, Uninterrupted, TypeOK, Queue!LedgerTypeOK
<1>12. ASSUME NEW j \in Jobs, EnqueueProfile(j) PROVE Verdict'
  BY <1>12 DEF EnqueueProfile, PersonaGone, Dropped, Advance, GoTo, Base, Placed, Verdict, Uninterrupted, TypeOK,
     Queue!LedgerTypeOK
<1>13. ASSUME NEW j \in Jobs, MarkIngested(j) PROVE Verdict'
  BY <1>13 DEF MarkIngested, Advance, GoTo, SetDoc, Base, Placed, Verdict, Uninterrupted,
     TypeOK, Queue!LedgerTypeOK
<1>14. ASSUME NEW j \in Jobs, Succeed(j) PROVE Verdict'
  BY <1>14 DEF Succeed, Ends, Dropped, Queue!End, Stop, GoTo, Base, Placed, Verdict, Uninterrupted, TypeOK,
     Queue!LedgerTypeOK
<1>15. ASSUME NEW j \in Jobs, Fail(j) PROVE Verdict'
  BY <1>15 DEF Fail, GiveBack, LastTry, Ends, Dropped, Queue!End, Stop, GoTo, Base, Placed, Verdict, Uninterrupted,
     TypeOK, Queue!LedgerTypeOK
<1>16. ASSUME NEW j \in Jobs, Fault(j) PROVE Verdict'
  BY <1>16 DEF Fault, GiveBack, LastTry, Ends, Dropped, Queue!End, Stop, GoTo, Spend, Base, Placed, Verdict,
     Uninterrupted, TypeOK, Queue!LedgerTypeOK
<1>17. ASSUME NEW j \in Jobs, LoseResult(j) PROVE Verdict'
  BY <1>17 DEF LoseResult, Dropped, Stop, GoTo, Spend, Base, Placed, Verdict, Uninterrupted, TypeOK,
     Queue!LedgerTypeOK
<1>18. ASSUME NEW j \in Jobs, MarkDocFailed(j) PROVE Verdict'
  BY <1>18 DEF MarkDocFailed, SetDoc, Spend, Base, Placed, Verdict, Uninterrupted, TypeOK,
     Queue!LedgerTypeOK
<1>19. ASSUME NEW j \in Jobs, RetryJob(j) PROVE Verdict'
  BY <1>19 DEF RetryJob, Queue!Reopen, Spend, Base, Placed, Verdict, Uninterrupted, TypeOK,
     Queue!LedgerTypeOK
<1>20. ASSUME NEW j \in Jobs, CancelJob(j) PROVE Verdict'
  BY <1>20 DEF CancelJob, Queue!Remove, Pending, Running, Spend, Base, Placed, Verdict,
     Uninterrupted, TypeOK, Queue!LedgerTypeOK
<1>21. ASSUME NEW r \in Requests, CheckNotRunning(r) PROVE Verdict'
  BY <1>21 DEF CheckNotRunning, Answer, Running, Spend, Base, Placed, Verdict,
     Uninterrupted, TypeOK, Queue!LedgerTypeOK
<1>22. ASSUME NEW r \in Requests, DeleteChunks(r) PROVE Verdict'
  BY <1>22 DEF DeleteChunks, Answer, Base, Placed, Verdict, Uninterrupted, TypeOK,
     Queue!LedgerTypeOK
<1>23. ASSUME NEW r \in Requests, DiscardJobs(r) PROVE Verdict'
  BY <1>23 DEF DiscardJobs, Answer, Discarded, Running, Queue!Remove, Base, Placed, Verdict,
     Uninterrupted, TypeOK, Queue!LedgerTypeOK
<1>24. ASSUME NEW r \in Requests, ResetStatus(r) PROVE Verdict'
  BY <1>24 DEF ResetStatus, Answer, SetDoc, Base, Placed, Verdict, Uninterrupted, TypeOK,
     Queue!LedgerTypeOK
<1>25. ASSUME NEW r \in Requests, NEW j \in Jobs, EnqueueAgain(r, j) PROVE Verdict'
  BY <1>25 DEF EnqueueAgain, Answer, Enqueue, Queue!Submit, Base, Placed, Verdict,
     Uninterrupted, TypeOK, Queue!LedgerTypeOK
<1>26. ASSUME NEW r \in Requests, RequestFails(r) PROVE Verdict'
  BY <1>26 DEF RequestFails, Spend, Base, Placed, Verdict, Uninterrupted, TypeOK,
     Queue!LedgerTypeOK
<1>27. CASE EnqueueUploadFails
  BY <1>27 DEF EnqueueUploadFails, Spend, Base, Placed, Verdict, Uninterrupted, TypeOK,
     Queue!LedgerTypeOK
<1>28. CASE WriteProgress
  BY <1>28 DEF WriteProgress, SetDoc, Base, Placed, Verdict, Uninterrupted, TypeOK,
     Queue!LedgerTypeOK
<1>29. CASE Reap
  BY <1>29 DEF Reap, Base, Placed, Verdict, Uninterrupted, TypeOK, Queue!LedgerTypeOK
<1>30. CASE Crash
  BY <1>30 DEF Crash, Running, Dropped, Spend, Base, Placed, Verdict, Uninterrupted, TypeOK,
     Queue!LedgerTypeOK
<1>31. CASE DeleteDocument
  BY <1>31 DEF DeleteDocument, Spend, Base, Placed, Verdict, Uninterrupted, TypeOK,
     Queue!LedgerTypeOK
<1>32. CASE UNCHANGED vars
  BY <1>32 DEF vars, Base, Placed, Verdict, Uninterrupted, TypeOK, Queue!LedgerTypeOK
<1>33. ASSUME NEW r \in Requests, RefuseAgain(r) PROVE Verdict'
  BY <1>33 DEF RefuseAgain, PersonaGone, Dropped, Answer, Base, Placed, Verdict, Uninterrupted, TypeOK,
     Queue!LedgerTypeOK
<1>34. CASE RefuseUpload
  BY <1>34 DEF RefuseUpload, PersonaGone, Dropped, Base, Placed, Verdict, Uninterrupted, TypeOK, Queue!LedgerTypeOK
<1>35. CASE DeletePersona
  BY <1>35 DEF DeletePersona, Queue!Drop, Dropped, PersonaGone, Spend, Base, Placed, Verdict,
     Uninterrupted, TypeOK, Queue!LedgerTypeOK
<1>36. QED
  BY <1>1, <1>2, <1>3, <1>4, <1>5, <1>6, <1>7, <1>8, <1>9, <1>10, <1>11, <1>12, <1>13,
     <1>14, <1>15, <1>16, <1>17, <1>18, <1>19, <1>20, <1>21, <1>22, <1>23, <1>24, <1>25,
     <1>26, <1>27, <1>28, <1>29, <1>30, <1>31, <1>32, <1>33, <1>34, <1>35 DEF Next, Step, Handle

-----------------------------------------------------------------------------
(***************************************************************************)
(* With one job only, an execution has inserted the batches before its     *)
(* next one, what it has still to embed is on its list, and a document     *)
(* that is done has everything.                                            *)
(***************************************************************************)
Whole == \A n \in Batch : Copies(n) # {}

Alone ==
  spent["reingest"] = 0 /\ doc # "gone" =>
    /\ uploading => \A j \in Jobs : outcome[j] = "absent"
    /\ \A j, k \in Jobs : outcome[j] # "absent" /\ outcome[k] # "absent" => j = k
    /\ \A j \in Jobs :
         /\ at[j] = "inserting" =>
              \A n \in Batch : n < next[j] => Copies(n) # {}
         /\ at[j] \in {"toEmbed", "selecting", "embedding", "finishing", "finished"}
              => Whole
         /\ at[j] = "embedding" => chunks \ embedded \subseteq todo[j]
         /\ at[j] \in {"finishing", "finished"} => embedded = chunks
         /\ doc = "done" => at[j] \in {"idle", "fetching", "starting", "finished"}
    /\ doc = "done" => embedded = chunks /\ Whole

(***************************************************************************)
(* With no failure and no interruption, every row without an embedding is  *)
(* on somebody's list or will be; and somebody's batches stay, or a        *)
(* request that removed them will enqueue a job that inserts them again.   *)
(***************************************************************************)
Untouched == Uninterrupted /\ spent["cancel"] = 0 /\ spent["fault"] = 0

Inserted(j, n) ==
  \/ outcome[j] = "done"
  \/ at[j] \in {"toEmbed", "selecting", "embedding", "finishing", "finished"}
  \/ at[j] = "inserting" /\ n < next[j]

Keeps(j) ==
  /\ outcome[j] \in {"pending", "done"}
  /\ \A n \in Batch : Inserted(j, n) => Copies(n) # {}

Covered ==
  Untouched =>
    /\ \A c \in chunks \ embedded :
         \/ \E k \in Jobs : at[k] = "embedding" /\ c \in todo[k]
         \/ at[c.job] \in {"inserting", "toEmbed", "selecting"}
    /\ kind = "text" => \A j \in Jobs : at[j] = "erring" => doc = "gone"
    /\ kind = "text" /\ doc # "gone" =>
         \/ uploading
         \/ \E r \in Requests : request[r] \notin {"idle", "answered"}
         \/ \E j \in Jobs : Keeps(j)

\* A row for the task's next batch is added, or the document is gone.
LEMMA OneRow ==
  ASSUME Base, NEW j \in Jobs, InsertBatch(j), doc # "gone"
  PROVE  /\ \A n \in Batch : Copies(n) # {} => Copies(n)' # {}
         /\ \A n \in Batch : n = next[j] => Copies(n)' # {}
         /\ \E c \in Row : c.job = j /\ chunks' = chunks \union {c}
         /\ next' = [next EXCEPT ![j] = @ + 1]
         /\ next[j] \in Batch
         /\ at[j] = "inserting"
         /\ at' = [at EXCEPT ![j] = IF next[j] = LastBatch THEN "toEmbed" ELSE "inserting"]
<1> DEFINE c == [job |-> j, run |-> runs[j], batch |-> next[j]]
<1>1. /\ at[j] = "inserting" /\ chunks' = chunks \union {c}
      /\ next' = [next EXCEPT ![j] = @ + 1]
      /\ at' = [at EXCEPT ![j] = IF next[j] = LastBatch THEN "toEmbed" ELSE "inserting"]
  BY DEF InsertBatch, GoTo
<1>2. next[j] \in Batch
  BY <1>1, BatchAssumption DEF Base, Placed, TypeOK, Batch
<1>3. c \in Row /\ c.job = j /\ c.batch = next[j]
  BY <1>2 DEF Row, Base, TypeOK
<1> HIDE DEF c
<1>4. \A n \in Batch : Copies(n) # {} => Copies(n)' # {}
  BY <1>1 DEF Copies
<1>5. ASSUME NEW n \in Batch, n = next[j] PROVE Copies(n)' # {}
  <2>1. c \in {d \in chunks' : d.batch = n}
    BY <1>1, <1>3, <1>5
  <2>2. QED
    BY <2>1 DEF Copies
<1>6. QED
  BY <1>1, <1>2, <1>3, <1>4, <1>5

LEMMA NextAlone == Base /\ Alone /\ [Next]_vars => Alone'
<1> SUFFICES ASSUME Base /\ Alone, [Next]_vars PROVE Alone'
  OBVIOUS
<1> USE BatchAssumption, JobAssumption
<1>1. ASSUME NEW j \in Jobs, EnqueueUpload(j) PROVE Alone'
  BY <1>1 DEF EnqueueUpload, Enqueue, Queue!Submit, Base, Placed, Alone, Whole, Copies,
     Batch, Late, Uninterrupted, TypeOK, Queue!LedgerTypeOK
<1>2. ASSUME NEW j \in Jobs, Begin(j) PROVE Alone'
  BY <1>2 DEF Begin, Queue!Begin, GoTo, Base, Placed, Alone, Whole, Copies, Batch, Late,
     Uninterrupted, TypeOK, Queue!LedgerTypeOK
<1>3. ASSUME NEW j \in Jobs, FetchDocument(j) PROVE Alone'
  BY <1>3 DEF FetchDocument, Advance, GoTo, Base, Placed, Alone, Whole, Copies, Batch, Late,
     Uninterrupted, TypeOK, Queue!LedgerTypeOK
<1>4. ASSUME NEW j \in Jobs, MarkStarted(j) PROVE Alone'
  BY <1>4 DEF MarkStarted, Advance, GoTo, SetDoc, Base, Placed, Alone, Whole, Copies, Batch,
     Late, Uninterrupted, TypeOK, Queue!LedgerTypeOK
<1>5. ASSUME NEW j \in Jobs, Parse(j) PROVE Alone'
  BY <1>5 DEF Parse, Advance, GoTo, Base, Placed, Alone, Whole, Copies, Batch, Late,
     Uninterrupted, TypeOK, Queue!LedgerTypeOK
<1>6. ASSUME NEW j \in Jobs, Transcribe(j) PROVE Alone'
  BY <1>6 DEF Transcribe, Advance, GoTo, Base, Placed, Alone, Whole, Copies, Batch, Late,
     Uninterrupted, TypeOK, Queue!LedgerTypeOK
<1>7. ASSUME NEW j \in Jobs, MarkChunking(j) PROVE Alone'
  BY <1>7 DEF MarkChunking, Advance, GoTo, SetDoc, Base, Placed, Alone, Whole, Copies,
     Batch, Late, Uninterrupted, TypeOK, Queue!LedgerTypeOK
<1>8. ASSUME NEW j \in Jobs, InsertBatch(j) PROVE Alone'
  <2>1. CASE doc = "gone"
    BY <1>8, <2>1 DEF InsertBatch, GoTo, Base, Placed, Alone, Whole, Copies, TypeOK, Stage
  <2>2. CASE doc # "gone"
    <3>1. UNCHANGED <<outcome, active, doc, embedded, todo, uploading, spent>>
      BY <1>8 DEF InsertBatch
    <3>2. j \in active /\ outcome[j] = "pending" /\ next[j] \in Nat
      BY <2>2, <1>8, OneRow DEF Base, Placed, TypeOK, Batch
    <3>3. \A k \in Jobs : outcome[k] # "absent" /\ spent["reingest"] = 0 => k = j
      BY <2>2, <3>2 DEF Alone
    <3>4. \A k \in Jobs : at[k] # "idle" => outcome[k] = "pending"
      BY <2>2 DEF Base, Placed
    <3>5. \A k \in Jobs : k # j => at'[k] = at[k] /\ next'[k] = next[k]
      BY <2>2, <1>8, OneRow DEF Base, TypeOK
    <3>6. /\ next'[j] = next[j] + 1
          /\ at'[j] = IF next[j] = LastBatch THEN "toEmbed" ELSE "inserting"
          /\ at[j] = "inserting"
      BY <2>2, <1>8, OneRow DEF Base, TypeOK
    <3>7. ASSUME spent["reingest"] = 0
          PROVE  \A n \in Batch : n < next[j] + 1 => Copies(n)' # {}
      BY <2>2, <3>2, <3>6, <3>7, <1>8, OneRow DEF Alone, Batch
    <3>8. ASSUME spent["reingest"] = 0, next[j] = LastBatch PROVE Whole'
      BY <3>7, <3>8 DEF Whole, Batch
    <3>9. ASSUME spent["reingest"] = 0 PROVE doc # "done"
      BY <3>6, <3>9 DEF Alone
    <3>10. ASSUME spent["reingest"] = 0, NEW k \in Jobs, k # j
           PROVE  outcome[k] = "absent" /\ at[k] = "idle" /\ at'[k] = "idle"
      <4>1. outcome[k] = "absent"
        BY <3>3, <3>10
      <4>2. QED
        BY <4>1, <3>4, <3>5, <3>10
    <3>11. ASSUME spent["reingest"] = 0 PROVE ~uploading
      BY <2>2, <3>2, <3>11 DEF Alone
    <3>12. QED
      BY <3>1, <3>6, <3>7, <3>8, <3>9, <3>10, <3>11 DEF Alone
  <2>3. QED
    BY <2>1, <2>2
<1>9. ASSUME NEW j \in Jobs, MarkEmbedding(j) PROVE Alone'
  BY <1>9 DEF MarkEmbedding, Advance, GoTo, SetDoc, Base, Placed, Alone, Whole, Copies,
     Batch, Late, Uninterrupted, TypeOK, Queue!LedgerTypeOK
<1>10. ASSUME NEW j \in Jobs, SelectUnembedded(j) PROVE Alone'
  BY SMTT(15), <1>10 DEF SelectUnembedded, Unembedded, GoTo, Base, Placed, Alone, Whole, Copies,
     Batch, Late, Uninterrupted, TypeOK, Queue!LedgerTypeOK
<1>11. ASSUME NEW j \in Jobs, EmbedRow(j) PROVE Alone'
  BY <1>11 DEF EmbedRow, Base, Placed, Alone, Whole, Copies, Batch, Late, Uninterrupted,
     TypeOK, Queue!LedgerTypeOK
<1>12. ASSUME NEW j \in Jobs, EnqueueProfile(j) PROVE Alone'
  <2>1. /\ at[j] = "embedding" /\ todo[j] = {} /\ UNCHANGED <<docVars, queueVars, chunkVars, spent, requestVars>>
        /\ UNCHANGED <<next, todo>>
    BY <1>12 DEF EnqueueProfile, Advance
  <2>2. /\ at'[j] \in {"erring", "finishing"} /\ \A k \in Jobs \ {j} : at'[k] = at[k]
    BY <1>12 DEF EnqueueProfile, Advance, GoTo, Base, TypeOK
  <2>3. spent["reingest"] = 0 /\ doc # "gone" => Whole /\ embedded = chunks /\ doc # "done"
    BY <2>1 DEF Alone, Base, TypeOK, Queue!LedgerTypeOK
  <2>4. Whole' <=> Whole
    BY <2>1 DEF Whole, Copies, chunkVars
  <2>5. QED
    BY <2>1, <2>2, <2>3, <2>4 DEF Alone, Copies, docVars, queueVars, chunkVars, requestVars
<1>13. ASSUME NEW j \in Jobs, MarkIngested(j) PROVE Alone'
  BY <1>13 DEF MarkIngested, Advance, GoTo, SetDoc, Base, Placed, Alone, Whole, Copies,
     Batch, Late, Uninterrupted, TypeOK, Queue!LedgerTypeOK
<1>14. ASSUME NEW j \in Jobs, Succeed(j) PROVE Alone'
  BY <1>14 DEF Succeed, Ends, Dropped, Queue!End, Stop, GoTo, Base, Placed, Alone, Whole, Copies, Batch,
     Late, Uninterrupted, TypeOK, Queue!LedgerTypeOK
<1>15. ASSUME NEW j \in Jobs, Fail(j) PROVE Alone'
  BY <1>15 DEF Fail, GiveBack, LastTry, Ends, Dropped, Queue!End, Stop, GoTo, Base, Placed, Alone, Whole, Copies,
     Batch, Late, Uninterrupted, TypeOK, Queue!LedgerTypeOK
<1>16. ASSUME NEW j \in Jobs, Fault(j) PROVE Alone'
  BY <1>16 DEF Fault, GiveBack, LastTry, Ends, Dropped, Queue!End, Stop, GoTo, Spend, Base, Placed, Alone, Whole,
     Copies, Batch, Late, Uninterrupted, TypeOK, Queue!LedgerTypeOK
<1>17. ASSUME NEW j \in Jobs, LoseResult(j) PROVE Alone'
  BY <1>17 DEF LoseResult, Dropped, Stop, GoTo, Spend, Base, Placed, Alone, Whole, Copies, Batch,
     Late, Uninterrupted, TypeOK, Queue!LedgerTypeOK
<1>18. ASSUME NEW j \in Jobs, MarkDocFailed(j) PROVE Alone'
  BY <1>18 DEF MarkDocFailed, SetDoc, Spend, Base, Placed, Alone, Whole, Copies, Batch,
     Late, Uninterrupted, TypeOK, Queue!LedgerTypeOK
<1>19. ASSUME NEW j \in Jobs, RetryJob(j) PROVE Alone'
  BY <1>19 DEF RetryJob, Queue!Reopen, Spend, Base, Placed, Alone, Whole, Copies, Batch,
     Late, Uninterrupted, TypeOK, Queue!LedgerTypeOK
<1>20. ASSUME NEW j \in Jobs, CancelJob(j) PROVE Alone'
  BY <1>20 DEF CancelJob, Queue!Remove, Pending, Running, Spend, Base, Placed, Alone, Whole,
     Copies, Batch, Late, Uninterrupted, TypeOK, Queue!LedgerTypeOK
<1>21. ASSUME NEW r \in Requests, CheckNotRunning(r) PROVE Alone'
  BY <1>21 DEF CheckNotRunning, Answer, Running, Spend, Base, Placed, Alone, Whole, Copies,
     Batch, Late, Uninterrupted, TypeOK, Queue!LedgerTypeOK
<1>22. ASSUME NEW r \in Requests, DeleteChunks(r) PROVE Alone'
  BY <1>22 DEF DeleteChunks, Answer, Base, Placed, Alone, Whole, Copies, Batch, Late,
     Uninterrupted, TypeOK, Queue!LedgerTypeOK
<1>23. ASSUME NEW r \in Requests, DiscardJobs(r) PROVE Alone'
  BY <1>23 DEF DiscardJobs, Answer, Discarded, Running, Queue!Remove, Base, Placed, Alone,
     Whole, Copies, Batch, Late, Uninterrupted, TypeOK, Queue!LedgerTypeOK
<1>24. ASSUME NEW r \in Requests, ResetStatus(r) PROVE Alone'
  BY <1>24 DEF ResetStatus, Answer, SetDoc, Base, Placed, Alone, Whole, Copies, Batch, Late,
     Uninterrupted, TypeOK, Queue!LedgerTypeOK
<1>25. ASSUME NEW r \in Requests, NEW j \in Jobs, EnqueueAgain(r, j) PROVE Alone'
  BY <1>25 DEF EnqueueAgain, Answer, Enqueue, Queue!Submit, Base, Placed, Alone, Whole,
     Copies, Batch, Late, Uninterrupted, TypeOK, Queue!LedgerTypeOK
<1>26. ASSUME NEW r \in Requests, RequestFails(r) PROVE Alone'
  BY <1>26 DEF RequestFails, Spend, Base, Placed, Alone, Whole, Copies, Batch, Late,
     Uninterrupted, TypeOK, Queue!LedgerTypeOK
<1>27. CASE EnqueueUploadFails
  BY <1>27 DEF EnqueueUploadFails, Spend, Base, Placed, Alone, Whole, Copies, Batch, Late,
     Uninterrupted, TypeOK, Queue!LedgerTypeOK
<1>28. CASE WriteProgress
  BY <1>28 DEF WriteProgress, SetDoc, Base, Placed, Alone, Whole, Copies, Batch, Late,
     Uninterrupted, TypeOK, Queue!LedgerTypeOK
<1>29. CASE Reap
  BY <1>29 DEF Reap, Base, Placed, Alone, Whole, Copies, Batch, Late, Uninterrupted, TypeOK,
     Queue!LedgerTypeOK
<1>30. CASE Crash
  BY <1>30 DEF Crash, Running, Dropped, Spend, Base, Placed, Alone, Whole, Copies, Batch, Late,
     Uninterrupted, TypeOK, Queue!LedgerTypeOK
<1>31. CASE DeleteDocument
  BY <1>31 DEF DeleteDocument, Spend, Base, Placed, Alone, Whole, Copies, Batch, Late,
     Uninterrupted, TypeOK, Queue!LedgerTypeOK
<1>32. CASE UNCHANGED vars
  BY <1>32 DEF vars, Base, Placed, Alone, Whole, Copies, Batch, Late, Uninterrupted, TypeOK,
     Queue!LedgerTypeOK
<1>33. ASSUME NEW r \in Requests, RefuseAgain(r) PROVE Alone'
  BY <1>33 DEF RefuseAgain, PersonaGone, Dropped, Answer, Base, Placed, Alone, Whole, Copies, Batch, Late,
     Uninterrupted, TypeOK, Queue!LedgerTypeOK
<1>34. CASE RefuseUpload
  BY <1>34 DEF RefuseUpload, PersonaGone, Dropped, Base, Placed, Alone, Whole, Copies, Batch, Late, Uninterrupted,
     TypeOK, Queue!LedgerTypeOK
<1>35. CASE DeletePersona
  BY <1>35 DEF DeletePersona, Queue!Drop, Dropped, PersonaGone, Spend, Base, Placed, Alone,
     Whole, Copies, Batch, Late, Uninterrupted, TypeOK, Queue!LedgerTypeOK
<1>36. QED
  BY <1>1, <1>2, <1>3, <1>4, <1>5, <1>6, <1>7, <1>8, <1>9, <1>10, <1>11, <1>12, <1>13,
     <1>14, <1>15, <1>16, <1>17, <1>18, <1>19, <1>20, <1>21, <1>22, <1>23, <1>24, <1>25,
     <1>26, <1>27, <1>28, <1>29, <1>30, <1>31, <1>32, <1>33, <1>34, <1>35 DEF Next, Step, Handle

LEMMA NextCovered == Base /\ Covered /\ [Next]_vars => Covered'
<1> SUFFICES ASSUME Base /\ Covered, [Next]_vars PROVE Covered'
  OBVIOUS
<1> USE BatchAssumption, JobAssumption, KindAssumption
<1>1. ASSUME NEW j \in Jobs, EnqueueUpload(j) PROVE Covered'
  BY <1>1 DEF EnqueueUpload, Enqueue, Queue!Submit, Base, Placed, Covered, Untouched, Keeps,
     Inserted, Copies, Batch, Late, Uninterrupted, TypeOK, Row, Queue!LedgerTypeOK
<1>2. ASSUME NEW j \in Jobs, Begin(j) PROVE Covered'
  BY <1>2 DEF Begin, Queue!Begin, GoTo, Base, Placed, Covered, Untouched, Keeps, Inserted,
     Copies, Batch, Late, Uninterrupted, TypeOK, Row, Queue!LedgerTypeOK
<1>3. ASSUME NEW j \in Jobs, FetchDocument(j) PROVE Covered'
  BY <1>3 DEF FetchDocument, Advance, GoTo, Base, Placed, Covered, Untouched, Keeps,
     Inserted, Copies, Batch, Late, Uninterrupted, TypeOK, Row, Queue!LedgerTypeOK
<1>4. ASSUME NEW j \in Jobs, MarkStarted(j) PROVE Covered'
  BY <1>4 DEF MarkStarted, Advance, GoTo, SetDoc, Base, Placed, Covered, Untouched, Keeps,
     Inserted, Copies, Batch, Late, Uninterrupted, TypeOK, Row, Queue!LedgerTypeOK
<1>5. ASSUME NEW j \in Jobs, Parse(j) PROVE Covered'
  BY <1>5 DEF Parse, Advance, GoTo, Base, Placed, Covered, Untouched, Keeps, Inserted,
     Copies, Batch, Late, Uninterrupted, TypeOK, Row, Queue!LedgerTypeOK
<1>6. ASSUME NEW j \in Jobs, Transcribe(j) PROVE Covered'
  BY <1>6 DEF Transcribe, Advance, GoTo, Base, Placed, Covered, Untouched, Keeps, Inserted,
     Copies, Batch, Late, Uninterrupted, TypeOK, Row, Queue!LedgerTypeOK
<1>7. ASSUME NEW j \in Jobs, MarkChunking(j) PROVE Covered'
  BY <1>7 DEF MarkChunking, Advance, GoTo, SetDoc, Base, Placed, Covered, Untouched, Keeps,
     Inserted, Copies, Batch, Late, Uninterrupted, TypeOK, Row, Queue!LedgerTypeOK
<1>8. ASSUME NEW j \in Jobs, InsertBatch(j) PROVE Covered'
  <2>1. CASE doc = "gone"
    BY <1>8, <2>1 DEF InsertBatch, GoTo, Base, Placed, Covered, Untouched, Uninterrupted, TypeOK,
          DeletedLeavesNoChunks, Row, Queue!LedgerTypeOK
  <2>2. CASE doc # "gone"
    <3>1. UNCHANGED <<outcome, active, kind, doc, embedded, todo, request, uploading, spent>>
      BY <1>8 DEF InsertBatch
    <3>2. \A k \in Jobs : k # j => at'[k] = at[k] /\ next'[k] = next[k]
      BY <2>2, <1>8, OneRow DEF Base, TypeOK
    <3>3. /\ next'[j] = next[j] + 1 /\ next[j] \in Nat
          /\ at'[j] = IF next[j] = LastBatch THEN "toEmbed" ELSE "inserting"
          /\ at[j] = "inserting"
      BY <2>2, <1>8, OneRow DEF Base, TypeOK, Batch
    <3>4. ASSUME Untouched, NEW d \in (chunks \ embedded)'
          PROVE  \/ \E k \in Jobs : at'[k] = "embedding" /\ d \in todo'[k]
                 \/ at'[d.job] \in {"inserting", "toEmbed", "selecting"}
      <4>1. d \in chunks \ embedded \/ d.job = j
        BY <2>2, <3>1, <1>8, OneRow
      <4>2. d.job \in Jobs
        BY NextTypeOK, <1>8, <2>2, OneRow DEF Base, TypeOK, Row
      <4>3. QED
        BY <3>1, <3>2, <3>3, <3>4, <4>1, <4>2 DEF Covered
    <3>5. ASSUME NEW k \in Jobs, Keeps(k) PROVE Keeps(k)'
      <4>1. ASSUME NEW n \in Batch, Inserted(k, n)' PROVE Copies(n)' # {}
        <5>1. Inserted(k, n) \/ (k = j /\ n = next[j])
          BY <3>1, <3>2, <3>3, <4>1, BatchAssumption DEF Inserted, Batch
        <5>2. QED
          BY <2>2, <3>5, <5>1, <1>8, OneRow DEF Keeps
      <4>2. QED
        BY <3>1, <3>5, <4>1 DEF Keeps
    <3>6. Untouched' = Untouched
      BY <3>1 DEF Untouched, Uninterrupted
    <3>7. QED
      BY <3>1, <3>2, <3>3, <3>4, <3>5, <3>6 DEF Covered
  <2>3. QED
    BY <2>1, <2>2
<1>9. ASSUME NEW j \in Jobs, MarkEmbedding(j) PROVE Covered'
  BY <1>9 DEF MarkEmbedding, Advance, GoTo, SetDoc, Base, Placed, Covered, Untouched, Keeps,
     Inserted, Copies, Batch, Late, Uninterrupted, TypeOK, Row, Queue!LedgerTypeOK
<1>10. ASSUME NEW j \in Jobs, SelectUnembedded(j) PROVE Covered'
  BY <1>10 DEF SelectUnembedded, Unembedded, GoTo, Base, Placed, Covered, Untouched, Keeps,
     Inserted, Copies, Batch, Late, Uninterrupted, TypeOK, Row, Queue!LedgerTypeOK
<1>11. ASSUME NEW j \in Jobs, EmbedRow(j) PROVE Covered'
  BY <1>11 DEF EmbedRow, Base, Placed, Covered, Untouched, Keeps, Inserted, Copies, Batch,
     Late, Uninterrupted, TypeOK, Row, Queue!LedgerTypeOK
<1>12. ASSUME NEW j \in Jobs, EnqueueProfile(j) PROVE Covered'
  <2>1. CASE PersonaGone
    <3>1. doc = "gone" /\ chunks = {} /\ doc' = "gone" /\ chunks' = {}
      BY <1>12, <2>1 DEF EnqueueProfile, Advance, PersonaGone, Dropped, Base, Placed,
         DeletedLeavesNoChunks
    <3>2. QED
      BY <3>1 DEF Covered
  <2>2. CASE ~PersonaGone
    BY <1>12, <2>2 DEF EnqueueProfile, Advance, GoTo, Base, Placed, Covered, Untouched, Keeps,
       Inserted, Copies, Batch, Late, Uninterrupted, TypeOK, Row, Queue!LedgerTypeOK
  <2>3. QED
    BY <2>1, <2>2
<1>13. ASSUME NEW j \in Jobs, MarkIngested(j) PROVE Covered'
  BY <1>13 DEF MarkIngested, Advance, GoTo, SetDoc, Base, Placed, Covered, Untouched, Keeps,
     Inserted, Copies, Batch, Late, Uninterrupted, TypeOK, Row, Queue!LedgerTypeOK
<1>14. ASSUME NEW j \in Jobs, Succeed(j) PROVE Covered'
  BY <1>14 DEF Succeed, Ends, Dropped, Queue!End, Stop, GoTo, Base, Placed, Covered, Untouched, Keeps,
     Inserted, Copies, Batch, Late, Uninterrupted, TypeOK, Row, Queue!LedgerTypeOK
<1>15. ASSUME NEW j \in Jobs, Fail(j) PROVE Covered'
  BY <1>15 DEF Fail, GiveBack, LastTry, Ends, Dropped, Queue!End, Stop, GoTo, Base, Placed, Covered, Untouched,
     Keeps, Inserted, Copies, Batch, Late, Uninterrupted, TypeOK, Row, Queue!LedgerTypeOK
<1>16. ASSUME NEW j \in Jobs, Fault(j) PROVE Covered'
  BY <1>16 DEF Fault, GiveBack, LastTry, Ends, Dropped, Queue!End, Stop, GoTo, Spend, Base, Placed, Covered,
     Untouched, Keeps, Inserted, Copies, Batch, Late, Uninterrupted, TypeOK, Row,
     Queue!LedgerTypeOK
<1>17. ASSUME NEW j \in Jobs, LoseResult(j) PROVE Covered'
  BY <1>17 DEF LoseResult, Dropped, Stop, GoTo, Spend, Base, Placed, Covered, Untouched, Keeps,
     Inserted, Copies, Batch, Late, Uninterrupted, TypeOK, Row, Queue!LedgerTypeOK
<1>18. ASSUME NEW j \in Jobs, MarkDocFailed(j) PROVE Covered'
  BY <1>18 DEF MarkDocFailed, SetDoc, Spend, Base, Placed, Covered, Untouched, Keeps,
     Inserted, Copies, Batch, Late, Uninterrupted, TypeOK, Row, Queue!LedgerTypeOK
<1>19. ASSUME NEW j \in Jobs, RetryJob(j) PROVE Covered'
  BY <1>19 DEF RetryJob, Queue!Reopen, Spend, Base, Placed, Covered, Untouched, Keeps,
     Inserted, Copies, Batch, Late, Uninterrupted, TypeOK, Row, Queue!LedgerTypeOK
<1>20. ASSUME NEW j \in Jobs, CancelJob(j) PROVE Covered'
  BY <1>20 DEF CancelJob, Queue!Remove, Pending, Running, Spend, Base, Placed, Covered,
     Untouched, Keeps, Inserted, Copies, Batch, Late, Uninterrupted, TypeOK, Row,
     Queue!LedgerTypeOK
<1>21. ASSUME NEW r \in Requests, CheckNotRunning(r) PROVE Covered'
  BY <1>21 DEF CheckNotRunning, Answer, Running, Spend, Base, Placed, Covered, Untouched,
     Keeps, Inserted, Copies, Batch, Late, Uninterrupted, TypeOK, Row, Queue!LedgerTypeOK
<1>22. ASSUME NEW r \in Requests, DeleteChunks(r) PROVE Covered'
  BY <1>22 DEF DeleteChunks, Answer, Base, Placed, Covered, Untouched, Keeps, Inserted,
     Copies, Batch, Late, Uninterrupted, TypeOK, Row, Queue!LedgerTypeOK
<1>23. ASSUME NEW r \in Requests, DiscardJobs(r) PROVE Covered'
  BY <1>23 DEF DiscardJobs, Answer, Discarded, Running, Queue!Remove, Base, Placed, Covered,
     Untouched, Keeps, Inserted, Copies, Batch, Late, Uninterrupted, TypeOK, Row,
     Queue!LedgerTypeOK
<1>24. ASSUME NEW r \in Requests, ResetStatus(r) PROVE Covered'
  BY <1>24 DEF ResetStatus, Answer, SetDoc, Base, Placed, Covered, Untouched, Keeps,
     Inserted, Copies, Batch, Late, Uninterrupted, TypeOK, Row, Queue!LedgerTypeOK
<1>25. ASSUME NEW r \in Requests, NEW j \in Jobs, EnqueueAgain(r, j) PROVE Covered'
  BY <1>25 DEF EnqueueAgain, Answer, Enqueue, Queue!Submit, Base, Placed, Covered,
     Untouched, Keeps, Inserted, Copies, Batch, Late, Uninterrupted, TypeOK, Row,
     Queue!LedgerTypeOK
<1>26. ASSUME NEW r \in Requests, RequestFails(r) PROVE Covered'
  BY <1>26 DEF RequestFails, Spend, Base, Placed, Covered, Untouched, Keeps, Inserted,
     Copies, Batch, Late, Uninterrupted, TypeOK, Row, Queue!LedgerTypeOK
<1>27. CASE EnqueueUploadFails
  BY <1>27 DEF EnqueueUploadFails, Spend, Base, Placed, Covered, Untouched, Keeps, Inserted,
     Copies, Batch, Late, Uninterrupted, TypeOK, Row, Queue!LedgerTypeOK
<1>28. CASE WriteProgress
  BY <1>28 DEF WriteProgress, SetDoc, Base, Placed, Covered, Untouched, Keeps, Inserted,
     Copies, Batch, Late, Uninterrupted, TypeOK, Row, Queue!LedgerTypeOK
<1>29. CASE Reap
  BY <1>29 DEF Reap, Base, Placed, Covered, Untouched, Keeps, Inserted, Copies, Batch, Late,
     Uninterrupted, TypeOK, Row, Queue!LedgerTypeOK
<1>30. CASE Crash
  BY <1>30 DEF Crash, Running, Dropped, Spend, Base, Placed, Covered, Untouched, Keeps, Inserted,
     Copies, Batch, Late, Uninterrupted, TypeOK, Row, Queue!LedgerTypeOK
<1>31. CASE DeleteDocument
  BY <1>31 DEF DeleteDocument, Spend, Base, Placed, Covered, Untouched, Keeps, Inserted,
     Copies, Batch, Late, Uninterrupted, TypeOK, Row, Queue!LedgerTypeOK
<1>32. CASE UNCHANGED vars
  BY <1>32 DEF vars, Base, Placed, Covered, Untouched, Keeps, Inserted, Copies, Batch, Late,
     Uninterrupted, TypeOK, Row, Queue!LedgerTypeOK
<1>33. ASSUME NEW r \in Requests, RefuseAgain(r) PROVE Covered'
  BY <1>33 DEF RefuseAgain, PersonaGone, Dropped, Answer, Base, Placed, Covered, Untouched, Keeps, Inserted, Copies,
     Batch, Late, Uninterrupted, TypeOK, Row, Queue!LedgerTypeOK
<1>34. CASE RefuseUpload
  BY <1>34 DEF RefuseUpload, PersonaGone, Dropped, Base, Placed, Covered, Untouched, Keeps, Inserted, Copies, Batch,
     Late, Uninterrupted, TypeOK, Row, Queue!LedgerTypeOK
<1>35. CASE DeletePersona
  BY <1>35 DEF DeletePersona, Queue!Drop, Dropped, PersonaGone, Spend, Base, Placed, Covered,
     Untouched, Keeps, Inserted, Copies, Batch, Late, Uninterrupted, TypeOK, Row,
     Queue!LedgerTypeOK
<1>36. QED
  BY <1>1, <1>2, <1>3, <1>4, <1>5, <1>6, <1>7, <1>8, <1>9, <1>10, <1>11, <1>12, <1>13,
     <1>14, <1>15, <1>16, <1>17, <1>18, <1>19, <1>20, <1>21, <1>22, <1>23, <1>24, <1>25,
     <1>26, <1>27, <1>28, <1>29, <1>30, <1>31, <1>32, <1>33, <1>34, <1>35 DEF Next, Step, Handle

-----------------------------------------------------------------------------
LEMMA IngestInv == Spec => [](Base /\ Attended /\ Verdict /\ Alone /\ Covered)
<1> DEFINE Inv == Base /\ Attended /\ Verdict /\ Alone /\ Covered
<1>1. Init => Inv
  <2> SUFFICES ASSUME Init PROVE Inv
    OBVIOUS
  <2>1. Base
    BY InitBase
  <2>2. /\ uploading = TRUE /\ chunks = {} /\ doc = "pending" /\ notices = {}
        /\ \A j \in Jobs : outcome[j] = "absent" /\ at[j] = "idle"
    BY DEF Init, Queue!Init
  <2>3. QED
    BY <2>1, <2>2 DEF Attended, Verdict, Alone, Covered
<1>2. Inv /\ [Next]_vars => Inv'
  BY NextTypeOK, NextPlaced, NextAttended, NextVerdict, NextAlone, NextCovered DEF Base
<1>3. QED
  BY <1>1, <1>2, PTL DEF Spec

LEMMA AtRest ==
  ASSUME Base, Quiet
  PROVE  \A j \in Jobs : at[j] = "idle" /\ outcome[j] # "pending"
BY DEF Base, Placed, Quiet, Pending

\* Whatever stages failed and whatever requests raced, a text document that
\* nothing will touch any more is done, failed or gone, unless the process
\* stopped, a statement failed or an administrator cancelled its job.
THEOREM TextsComeToRest == Spec => []NoStrandedDocument
<1>1. Base /\ Attended => NoStrandedDocument
  BY AtRest DEF NoStrandedDocument, Attended, Quiet
<1>2. QED
  BY IngestInv, <1>1, PTL

\* The status of a document at rest is the outcome of some job for it.
THEOREM StatusAgreesWithJobs == Spec => []VerdictAgrees
<1>1. Base /\ Verdict => VerdictAgrees
  BY AtRest DEF VerdictAgrees, Verdict
<1>2. QED
  BY IngestInv, <1>1, PTL

\* A deleted document has no chunk, whoever was inserting or embedding.
THEOREM DeletionIsFinal == Spec => []DeletedLeavesNoChunks
<1>1. Base => DeletedLeavesNoChunks
  BY DEF Base, Placed
<1>2. QED
  BY IngestInv, <1>1, PTL

\* A document at rest and done has every batch of its text, embedded: after
\* any crash, fault, lost result and retry when it was never reingested, and
\* whatever reingests raced its executions when nothing failed.
THEOREM DoneMeansRetrievable == Spec => []DoneIsSearchable
<1>1. ASSUME Base, Alone, Covered, doc = "done", Quiet
      PROVE  \/ Retrievable \/ ReingestDisturbed
             \/ spent["reingest"] > 0 /\ spent["fault"] > 0
  <2>1. CASE spent["reingest"] = 0
    BY <1>1, <2>1 DEF Alone, Whole, Retrievable
  <2>2. ASSUME Untouched PROVE Retrievable
    <3>1. \A j \in Jobs : at[j] = "idle" /\ outcome[j] # "pending"
      BY <1>1, AtRest
    <3>2. \A c \in chunks : c.job \in Jobs
      BY <1>1 DEF Base, TypeOK, Row
    <3>3. embedded = chunks
      BY <1>1, <2>2, <3>1, <3>2 DEF Covered, Base, TypeOK
    <3>4. PICK j \in Jobs : Keeps(j)
      BY <1>1, <2>2, KindAssumption DEF Covered, Quiet, Base, Placed, TypeOK
    <3>5. \A n \in Batch : Copies(n) # {}
      BY <3>1, <3>4 DEF Keeps, Inserted
    <3>6. QED
      BY <3>3, <3>5 DEF Retrievable
  <2>3. CASE spent["reingest"] > 0 /\ ~Untouched
    BY <1>1, <2>3 DEF Untouched, ReingestDisturbed, Uninterrupted, Base, TypeOK
  <2>4. QED
    BY <1>1, <2>1, <2>2, <2>3 DEF Base, TypeOK
<1>2. Base /\ Alone /\ Covered => DoneIsSearchable
  BY <1>1 DEF DoneIsSearchable
<1>3. QED
  BY IngestInv, <1>2, PTL

-----------------------------------------------------------------------------
\* The end of an execution is one of the ledger's steps.
LEMMA Cut ==
  ASSUME NEW j \in Jobs, NEW o, Ends(j, o)
  PROVE  Queue!Next
<1>1. CASE Queue!End(j)
  BY <1>1 DEF Queue!Next
<1>2. CASE j \in active \intersect Dropped /\ active' = active \ {j} /\ UNCHANGED outcome
  <2> DEFINE S == {j}
  <2>1. S \in SUBSET active /\ S # {} /\ active' = active \ S /\ UNCHANGED outcome
    BY <1>2
  <2> HIDE DEF S
  <2>2. Queue!Interrupt
    BY <2>1 DEF Queue!Interrupt
  <2>3. QED
    BY <2>2 DEF Queue!Next
<1>3. QED
  BY <1>1, <1>2 DEF Ends

\* Every step is one of the ledger, or leaves it alone.
LEMMA NextKeepsLedger == Base /\ [Next]_vars => [Queue!Next]_(Queue!ledgerVars)
<1> SUFFICES ASSUME Base, [Next]_vars
             PROVE  Queue!Next \/ UNCHANGED Queue!ledgerVars
  OBVIOUS
<1> DEFINE Kept == Queue!Next \/ UNCHANGED Queue!ledgerVars
<1> USE DEF Queue!Next
<1>1. ASSUME NEW j \in Jobs, EnqueueUpload(j) PROVE Kept
  BY <1>1 DEF EnqueueUpload, Enqueue
<1>2. ASSUME NEW j \in Jobs, Begin(j) PROVE Kept
  BY <1>2 DEF Begin
<1>3. ASSUME NEW j \in Jobs,
             \/ FetchDocument(j) \/ MarkStarted(j) \/ Parse(j) \/ Transcribe(j)
             \/ MarkChunking(j) \/ InsertBatch(j) \/ MarkEmbedding(j)
             \/ SelectUnembedded(j) \/ EmbedRow(j) \/ EnqueueProfile(j) \/ MarkIngested(j)
      PROVE  Kept
  BY <1>3 DEF FetchDocument, MarkStarted, Parse, Transcribe, MarkChunking, InsertBatch,
     MarkEmbedding, SelectUnembedded, EmbedRow, EnqueueProfile, MarkIngested, Advance
<1>4. ASSUME NEW j \in Jobs, Succeed(j) PROVE Kept
  BY <1>4, Cut DEF Succeed
<1>5. ASSUME NEW j \in Jobs, Fail(j) \/ Fault(j) PROVE Kept
  BY <1>5, Cut DEF Fail, Fault, GiveBack
<1>6. ASSUME NEW j \in Jobs, LoseResult(j) PROVE Kept
  <2> DEFINE S == {j}
  <2>1. j \in active
    BY <1>6 DEF LoseResult, Base, Placed
  <2>2. S \in SUBSET active /\ S # {} /\ active' = active \ S /\ UNCHANGED outcome
    BY <1>6, <2>1 DEF LoseResult
  <2> HIDE DEF S
  <2>3. QED
    BY <2>2 DEF Queue!Interrupt
<1>7. ASSUME NEW j \in Jobs, MarkDocFailed(j) PROVE Kept
  BY <1>7 DEF MarkDocFailed
<1>8. ASSUME NEW j \in Jobs, RetryJob(j) PROVE Kept
  BY <1>8 DEF RetryJob
<1>9. ASSUME NEW j \in Jobs, CancelJob(j) PROVE Kept
  <2> DEFINE S == {j}
  <2>1. S \in SUBSET Jobs /\ Queue!Remove(S)
    BY <1>9 DEF CancelJob
  <2> HIDE DEF S
  <2>2. QED
    BY <2>1
<1>10. ASSUME NEW r \in Requests,
              \/ CheckNotRunning(r) \/ DeleteChunks(r) \/ ResetStatus(r)
              \/ RefuseAgain(r) \/ RequestFails(r)
       PROVE  Kept
  BY <1>10 DEF CheckNotRunning, DeleteChunks, ResetStatus, RefuseAgain, RequestFails
<1>11. ASSUME NEW r \in Requests, DiscardJobs(r) PROVE Kept
  <2>1. Discarded \in SUBSET Jobs
    BY DEF Discarded
  <2>2. QED
    BY <1>11, <2>1 DEF DiscardJobs
<1>12. ASSUME NEW r \in Requests, NEW j \in Jobs, EnqueueAgain(r, j) PROVE Kept
  BY <1>12 DEF EnqueueAgain, Enqueue
<1>13. CASE RefuseUpload \/ EnqueueUploadFails \/ WriteProgress \/ Reap \/ DeleteDocument
  BY <1>13 DEF RefuseUpload, EnqueueUploadFails, WriteProgress, Reap, DeleteDocument
<1>14. CASE Crash
  <2>1. active' = active \ active /\ UNCHANGED outcome
    BY <1>14 DEF Crash
  <2>2. CASE active = {}
    BY <2>1, <2>2
  <2>3. CASE active # {}
    <3>1. Queue!Interrupt
      BY <2>1, <2>3 DEF Queue!Interrupt
    <3>2. QED
      BY <3>1
  <2>4. QED
    BY <2>2, <2>3
<1>15. CASE DeletePersona
  <2> DEFINE R == {Jobs}
  <2>1. Jobs \in R /\ Queue!Drop(Jobs)
    BY <1>15 DEF DeletePersona
  <2>2. \E S \in R : Queue!Drop(S)
    BY <2>1
  <2>3. QED
    BY <2>2
<1>16. CASE UNCHANGED vars
  BY <1>16 DEF vars
<1>17. QED
  BY <1>1, <1>2, <1>3, <1>4, <1>5, <1>6, <1>7, <1>8, <1>9, <1>10, <1>11, <1>12, <1>13,
     <1>14, <1>15, <1>16 DEF Next, Step, Handle

\* What the pipeline, the reingest and the administrator's buttons do with a
\* document's jobs is within the ledger that the queue implements: a lost result
\* or a crash is an interrupted execution and nothing else, and no handler
\* removes a job that is being executed.
THEOREM IngestKeepsTheLedger == Spec => Queue!Spec
<1>1. Init => Queue!Init
  BY DEF Init
<1>2. Spec => []Base
  BY IngestInv, PTL
<1>3. QED
  BY <1>1, <1>2, NextKeepsLedger, PTL DEF Spec, Queue!Spec
=============================================================================
