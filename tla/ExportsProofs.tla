--------------------------- MODULE ExportsProofs ----------------------------
(***************************************************************************)
(* Theorems about Exports, for any number of exports, polls and personas,  *)
(* and any limit on the attempts.                                          *)
(***************************************************************************)
EXTENDS Exports, TLAPS

USE DEF requestVars, jobVars, runVars, diskVars, accountVars

(***************************************************************************)
(* A job has an execution exactly while it is running, or was when its row *)
(* went; a request has a job only when it has ended.  Every attempt beyond *)
(* an administrator's retry is a disturbance.                              *)
(***************************************************************************)
RunInv ==
  \A e \in Exports :
    /\ at[e] # "none" => job[e] \in {"running", "removed"}
    /\ job[e] = "running" => at[e] # "none"
    /\ asked[e] # "ended" => job[e] = "none"
    /\ e \in recent => job[e] = "done"
    /\ attempts[e] <= spent

ExportInv == TypeOK /\ RunInv

LEMMA InitExportInv == Init => ExportInv
BY ExportsAssumption DEF Init, ExportInv, TypeOK, RunInv

\* Every step leaves every variable in its type.
LEMMA NextTypeOK == ExportInv /\ [Next]_vars => TypeOK'
<1> SUFFICES ASSUME ExportInv, [Next]_vars PROVE TypeOK'
  OBVIOUS
<1> USE ExportsAssumption DEF ExportInv
<1>1. ASSUME NEW e \in Exports, CheckPending(e) PROVE TypeOK'
  BY <1>1 DEF CheckPending, Ask, TypeOK, RunInv
<1>2. ASSUME NEW e \in Exports, CheckRecent(e) PROVE TypeOK'
  BY <1>2 DEF CheckRecent, Ask, TypeOK, RunInv
<1>3. ASSUME NEW e \in Exports, Enqueue(e) PROVE TypeOK'
  BY <1>3 DEF Enqueue, Ask, TypeOK, RunInv
<1>4. ASSUME NEW e \in Exports, RequestFails(e) PROVE TypeOK'
  BY <1>4 DEF RequestFails, Ask, Spend, TypeOK, RunInv
<1>5. ASSUME NEW e \in Exports, Begin(e) PROVE TypeOK'
  BY <1>5 DEF Begin, TypeOK, RunInv
<1>6. ASSUME NEW e \in Exports, ListPersonas(e) PROVE TypeOK'
  BY <1>6 DEF ListPersonas, Spend, TypeOK, RunInv
<1>7. ASSUME NEW e \in Exports, NEW p \in Personas, ReadPersona(e, p) PROVE TypeOK'
  BY <1>7 DEF ReadPersona, Spend, TypeOK, RunInv
<1>8. ASSUME NEW e \in Exports, WriteArchive(e) PROVE TypeOK'
  BY <1>8 DEF WriteArchive, PutArchive, TypeOK, RunInv
<1>9. ASSUME NEW e \in Exports, Report(e) PROVE TypeOK'
  BY <1>9 DEF Report, EndRun, TypeOK, RunInv
<1>10. ASSUME NEW e \in Exports, WriteFails(e) PROVE TypeOK'
  BY <1>10 DEF WriteFails, PutArchive, GiveBack, EndRun, Spend, TypeOK, RunInv
<1>11. ASSUME NEW e \in Exports, Interrupt(e) PROVE TypeOK'
  BY <1>11 DEF Interrupt, PutArchive, GiveBack, EndRun, Spend, TypeOK, RunInv
<1>12. ASSUME NEW e \in Exports, RetryJob(e) PROVE TypeOK'
  BY <1>12 DEF RetryJob, Spend, TypeOK, RunInv
<1>13. ASSUME NEW e \in Exports, CancelJob(e) PROVE TypeOK'
  BY <1>13 DEF CancelJob, Spend, TypeOK, RunInv
<1>14. ASSUME NEW e \in Exports, DayPasses(e) PROVE TypeOK'
  BY <1>14 DEF DayPasses, TypeOK, RunInv
<1>15. ASSUME NEW e \in Exports, WeekPasses(e) PROVE TypeOK'
  BY <1>15 DEF WeekPasses, TypeOK, RunInv
<1>16. ASSUME NEW e \in Exports, Prune(e) PROVE TypeOK'
  BY <1>16 DEF Prune, RemoveArchivesOf, TypeOK, RunInv
<1>17. ASSUME NEW g \in Polls, MarkMissing(g) PROVE TypeOK'
  BY <1>17 DEF MarkMissing, TypeOK, RunInv
<1>18. ASSUME NEW g \in Polls, NEW e \in Exports, FindMissing(g, e) PROVE TypeOK'
  BY <1>18 DEF FindMissing, TypeOK, RunInv
<1>19. ASSUME NEW p \in Personas, DeletePersona(p) PROVE TypeOK'
  BY <1>19 DEF DeletePersona, TypeOK, RunInv
<1>20. CASE Leave
  BY <1>20 DEF Leave, TypeOK, RunInv
<1>21. CASE RemoveArchives
  BY <1>21 DEF RemoveArchives, RemoveArchivesOf, TypeOK, RunInv
<1>22. CASE DeleteUser
  BY <1>22 DEF DeleteUser, TypeOK, RunInv
<1>23. CASE DeleteUserFails
  BY <1>23 DEF DeleteUserFails, Spend, TypeOK, RunInv
<1>24. CASE UNCHANGED vars
  BY <1>24 DEF vars, TypeOK, RunInv
<1>25. QED
  BY <1>1, <1>2, <1>3, <1>4, <1>5, <1>6, <1>7, <1>8, <1>9, <1>10, <1>11, <1>12, <1>13,
     <1>14, <1>15, <1>16, <1>17, <1>18, <1>19, <1>20, <1>21, <1>22, <1>23, <1>24 DEF Next,
     Request, Run

\* Every step keeps job, execution and request together.
LEMMA NextRunInv == ExportInv /\ [Next]_vars => RunInv'
<1> SUFFICES ASSUME ExportInv, [Next]_vars PROVE RunInv'
  OBVIOUS
<1> USE ExportsAssumption DEF ExportInv
<1>1. ASSUME NEW e \in Exports, CheckPending(e) PROVE RunInv'
  BY <1>1 DEF CheckPending, Ask, TypeOK, RunInv
<1>2. ASSUME NEW e \in Exports, CheckRecent(e) PROVE RunInv'
  BY <1>2 DEF CheckRecent, Ask, TypeOK, RunInv
<1>3. ASSUME NEW e \in Exports, Enqueue(e) PROVE RunInv'
  BY <1>3 DEF Enqueue, Ask, TypeOK, RunInv
<1>4. ASSUME NEW e \in Exports, RequestFails(e) PROVE RunInv'
  BY <1>4 DEF RequestFails, Ask, Spend, TypeOK, RunInv
<1>5. ASSUME NEW e \in Exports, Begin(e) PROVE RunInv'
  BY <1>5 DEF Begin, TypeOK, RunInv
<1>6. ASSUME NEW e \in Exports, ListPersonas(e) PROVE RunInv'
  BY <1>6 DEF ListPersonas, Spend, TypeOK, RunInv
<1>7. ASSUME NEW e \in Exports, NEW p \in Personas, ReadPersona(e, p) PROVE RunInv'
  BY <1>7 DEF ReadPersona, Spend, TypeOK, RunInv
<1>8. ASSUME NEW e \in Exports, WriteArchive(e) PROVE RunInv'
  BY <1>8 DEF WriteArchive, PutArchive, TypeOK, RunInv
<1>9. ASSUME NEW e \in Exports, Report(e) PROVE RunInv'
  BY <1>9 DEF Report, EndRun, TypeOK, RunInv
<1>10. ASSUME NEW e \in Exports, WriteFails(e) PROVE RunInv'
  BY <1>10 DEF WriteFails, PutArchive, GiveBack, EndRun, Spend, TypeOK, RunInv
<1>11. ASSUME NEW e \in Exports, Interrupt(e) PROVE RunInv'
  BY <1>11 DEF Interrupt, PutArchive, GiveBack, EndRun, Spend, TypeOK, RunInv
<1>12. ASSUME NEW e \in Exports, RetryJob(e) PROVE RunInv'
  BY <1>12 DEF RetryJob, Spend, TypeOK, RunInv
<1>13. ASSUME NEW e \in Exports, CancelJob(e) PROVE RunInv'
  BY <1>13 DEF CancelJob, Spend, TypeOK, RunInv
<1>14. ASSUME NEW e \in Exports, DayPasses(e) PROVE RunInv'
  BY <1>14 DEF DayPasses, TypeOK, RunInv
<1>15. ASSUME NEW e \in Exports, WeekPasses(e) PROVE RunInv'
  BY <1>15 DEF WeekPasses, TypeOK, RunInv
<1>16. ASSUME NEW e \in Exports, Prune(e) PROVE RunInv'
  BY <1>16 DEF Prune, RemoveArchivesOf, TypeOK, RunInv
<1>17. ASSUME NEW g \in Polls, MarkMissing(g) PROVE RunInv'
  BY <1>17 DEF MarkMissing, TypeOK, RunInv
<1>18. ASSUME NEW g \in Polls, NEW e \in Exports, FindMissing(g, e) PROVE RunInv'
  BY <1>18 DEF FindMissing, TypeOK, RunInv
<1>19. ASSUME NEW p \in Personas, DeletePersona(p) PROVE RunInv'
  BY <1>19 DEF DeletePersona, TypeOK, RunInv
<1>20. CASE Leave
  BY <1>20 DEF Leave, TypeOK, RunInv
<1>21. CASE RemoveArchives
  BY <1>21 DEF RemoveArchives, RemoveArchivesOf, TypeOK, RunInv
<1>22. CASE DeleteUser
  BY <1>22 DEF DeleteUser, TypeOK, RunInv
<1>23. CASE DeleteUserFails
  BY <1>23 DEF DeleteUserFails, Spend, TypeOK, RunInv
<1>24. CASE UNCHANGED vars
  BY <1>24 DEF vars, TypeOK, RunInv
<1>25. QED
  BY <1>1, <1>2, <1>3, <1>4, <1>5, <1>6, <1>7, <1>8, <1>9, <1>10, <1>11, <1>12, <1>13,
     <1>14, <1>15, <1>16, <1>17, <1>18, <1>19, <1>20, <1>21, <1>22, <1>23, <1>24 DEF Next,
     Request, Run

LEMMA ExportInvHolds == Spec => []ExportInv
<1>1. ExportInv /\ [Next]_vars => ExportInv'
  BY NextTypeOK, NextRunInv DEF ExportInv
<1>2. QED
  BY <1>1, InitExportInv, PTL DEF Spec

-----------------------------------------------------------------------------
(***************************************************************************)
(* A request that found no other export may rely on it until another one   *)
(* is queued: what is under way then was queued again by an administrator. *)
(***************************************************************************)
OneInv ==
  /\ OneExportUnlessChecksOverlap
  /\ \A e \in Exports \ raced :
       /\ asked[e] = "checkRecent" => Pending \subseteq retried
       /\ asked[e] = "enqueue" => Pending \union recent \subseteq retried

\* No step puts a second export beside one that was found or queued.
LEMMA NextOneInv == ExportInv /\ OneInv /\ [Next]_vars => OneInv'
<1> SUFFICES ASSUME ExportInv /\ OneInv, [Next]_vars PROVE OneInv'
  OBVIOUS
<1> USE DEF ExportInv
<1>1. ASSUME NEW e \in Exports, CheckPending(e) PROVE OneInv'
  BY <1>1 DEF CheckPending, Ask, TypeOK, RunInv, OneInv, OneExportUnlessChecksOverlap,
     Pending
<1>2. ASSUME NEW e \in Exports, CheckRecent(e) PROVE OneInv'
  BY <1>2 DEF CheckRecent, Ask, TypeOK, RunInv, OneInv, OneExportUnlessChecksOverlap,
     Pending
<1>3. ASSUME NEW e \in Exports, Enqueue(e) PROVE OneInv'
  BY <1>3 DEF Enqueue, Ask, TypeOK, RunInv, OneInv, OneExportUnlessChecksOverlap, Pending
<1>4. ASSUME NEW e \in Exports, RequestFails(e) PROVE OneInv'
  BY <1>4 DEF RequestFails, Ask, Spend, TypeOK, RunInv, OneInv,
     OneExportUnlessChecksOverlap, Pending
<1>5. ASSUME NEW e \in Exports, Begin(e) PROVE OneInv'
  BY <1>5 DEF Begin, TypeOK, RunInv, OneInv, OneExportUnlessChecksOverlap, Pending
<1>6. ASSUME NEW e \in Exports, ListPersonas(e) PROVE OneInv'
  BY <1>6 DEF ListPersonas, Spend, TypeOK, RunInv, OneInv, OneExportUnlessChecksOverlap,
     Pending
<1>7. ASSUME NEW e \in Exports, NEW p \in Personas, ReadPersona(e, p) PROVE OneInv'
  BY <1>7 DEF ReadPersona, Spend, TypeOK, RunInv, OneInv, OneExportUnlessChecksOverlap,
     Pending
<1>8. ASSUME NEW e \in Exports, WriteArchive(e) PROVE OneInv'
  BY <1>8 DEF WriteArchive, PutArchive, TypeOK, RunInv, OneInv,
     OneExportUnlessChecksOverlap, Pending
<1>9. ASSUME NEW e \in Exports, Report(e) PROVE OneInv'
  BY <1>9 DEF Report, EndRun, TypeOK, RunInv, OneInv, OneExportUnlessChecksOverlap, Pending
<1>10. ASSUME NEW e \in Exports, WriteFails(e) PROVE OneInv'
  <2>1. Pending' \subseteq Pending
    BY <1>10 DEF WriteFails, GiveBack, TypeOK, Pending
  <2>2. UNCHANGED <<asked, recent, raced, retried>>
    BY <1>10 DEF WriteFails, accountVars, requestVars
  <2>3. QED
    BY <2>1, <2>2 DEF OneInv, OneExportUnlessChecksOverlap
<1>11. ASSUME NEW e \in Exports, Interrupt(e) PROVE OneInv'
  BY <1>11 DEF Interrupt, PutArchive, GiveBack, EndRun, Spend, TypeOK, RunInv, OneInv,
     OneExportUnlessChecksOverlap, Pending
<1>12. ASSUME NEW e \in Exports, RetryJob(e) PROVE OneInv'
  BY <1>12 DEF RetryJob, Spend, TypeOK, RunInv, OneInv, OneExportUnlessChecksOverlap,
     Pending
<1>13. ASSUME NEW e \in Exports, CancelJob(e) PROVE OneInv'
  BY <1>13 DEF CancelJob, Spend, TypeOK, RunInv, OneInv, OneExportUnlessChecksOverlap,
     Pending
<1>14. ASSUME NEW e \in Exports, DayPasses(e) PROVE OneInv'
  BY <1>14 DEF DayPasses, TypeOK, RunInv, OneInv, OneExportUnlessChecksOverlap, Pending
<1>15. ASSUME NEW e \in Exports, WeekPasses(e) PROVE OneInv'
  BY <1>15 DEF WeekPasses, TypeOK, RunInv, OneInv, OneExportUnlessChecksOverlap, Pending
<1>16. ASSUME NEW e \in Exports, Prune(e) PROVE OneInv'
  BY <1>16 DEF Prune, RemoveArchivesOf, TypeOK, RunInv, OneInv,
     OneExportUnlessChecksOverlap, Pending
<1>17. ASSUME NEW g \in Polls, MarkMissing(g) PROVE OneInv'
  BY <1>17 DEF MarkMissing, TypeOK, RunInv, OneInv, OneExportUnlessChecksOverlap, Pending
<1>18. ASSUME NEW g \in Polls, NEW e \in Exports, FindMissing(g, e) PROVE OneInv'
  BY <1>18 DEF FindMissing, TypeOK, RunInv, OneInv, OneExportUnlessChecksOverlap, Pending
<1>19. ASSUME NEW p \in Personas, DeletePersona(p) PROVE OneInv'
  BY <1>19 DEF DeletePersona, TypeOK, RunInv, OneInv, OneExportUnlessChecksOverlap, Pending
<1>20. CASE Leave
  BY <1>20 DEF Leave, TypeOK, RunInv, OneInv, OneExportUnlessChecksOverlap, Pending
<1>21. CASE RemoveArchives
  BY <1>21 DEF RemoveArchives, RemoveArchivesOf, TypeOK, RunInv, OneInv,
     OneExportUnlessChecksOverlap, Pending
<1>22. CASE DeleteUser
  BY <1>22 DEF DeleteUser, TypeOK, RunInv, OneInv, OneExportUnlessChecksOverlap, Pending
<1>23. CASE DeleteUserFails
  BY <1>23 DEF DeleteUserFails, Spend, TypeOK, RunInv, OneInv, OneExportUnlessChecksOverlap,
     Pending
<1>24. CASE UNCHANGED vars
  BY <1>24 DEF vars, TypeOK, RunInv, OneInv, OneExportUnlessChecksOverlap, Pending
<1>25. QED
  BY <1>1, <1>2, <1>3, <1>4, <1>5, <1>6, <1>7, <1>8, <1>9, <1>10, <1>11, <1>12, <1>13,
     <1>14, <1>15, <1>16, <1>17, <1>18, <1>19, <1>20, <1>21, <1>22, <1>23, <1>24 DEF Next,
     Request, Run

\* A user has one export under way or done in the last day, for any number of
\* requests that ask for it, unless their checks overlap (request_export in
\* routes/data_rights.rs) or an administrator queues one again.
THEOREM OneExportAtATime == Spec => []OneExportUnlessChecksOverlap
<1>1. Init => OneInv
  BY DEF Init, OneInv, OneExportUnlessChecksOverlap, Pending
<1>2. QED
  BY <1>1, NextOneInv, ExportInvHolds, PTL DEF Spec, OneInv

-----------------------------------------------------------------------------
(***************************************************************************)
(* What an execution has read, has still to read and has written covers    *)
(* the personas that were there ever since it began.                       *)
(***************************************************************************)
Complete(e) == archive[e] = "whole" /\ (owed[e] \subseteq holds[e] \/ e \in holes)

ReadInv ==
  \A e \in Exports :
    /\ owed[e] \subseteq persona
    /\ at[e] = "read" => owed[e] \subseteq got[e] \union todo[e] \/ e \in holes
    /\ at[e] = "report" \/ job[e] = "done" => archive[e] = "none" \/ Complete(e)

\* No step loses a persona that an execution owes to its archive.
LEMMA NextReadInv == ExportInv /\ ReadInv /\ [Next]_vars => ReadInv'
<1> SUFFICES ASSUME ExportInv /\ ReadInv, [Next]_vars PROVE ReadInv'
  OBVIOUS
<1> USE DEF ExportInv
<1>1. ASSUME NEW e \in Exports, CheckPending(e) PROVE ReadInv'
  BY <1>1 DEF CheckPending, Ask, TypeOK, RunInv, ReadInv, Complete
<1>2. ASSUME NEW e \in Exports, CheckRecent(e) PROVE ReadInv'
  BY <1>2 DEF CheckRecent, Ask, TypeOK, RunInv, ReadInv, Complete
<1>3. ASSUME NEW e \in Exports, Enqueue(e) PROVE ReadInv'
  BY <1>3 DEF Enqueue, Ask, TypeOK, RunInv, ReadInv, Complete
<1>4. ASSUME NEW e \in Exports, RequestFails(e) PROVE ReadInv'
  BY <1>4 DEF RequestFails, Ask, Spend, TypeOK, RunInv, ReadInv, Complete
<1>5. ASSUME NEW e \in Exports, Begin(e) PROVE ReadInv'
  BY <1>5 DEF Begin, TypeOK, RunInv, ReadInv, Complete
<1>6. ASSUME NEW e \in Exports, ListPersonas(e) PROVE ReadInv'
  BY <1>6 DEF ListPersonas, Spend, TypeOK, RunInv, ReadInv, Complete
<1>7. ASSUME NEW e \in Exports, NEW p \in Personas, ReadPersona(e, p) PROVE ReadInv'
  BY <1>7 DEF ReadPersona, Spend, TypeOK, RunInv, ReadInv, Complete
<1>8. ASSUME NEW e \in Exports, WriteArchive(e) PROVE ReadInv'
  BY <1>8 DEF WriteArchive, PutArchive, TypeOK, RunInv, ReadInv, Complete
<1>9. ASSUME NEW e \in Exports, Report(e) PROVE ReadInv'
  BY <1>9 DEF Report, EndRun, TypeOK, RunInv, ReadInv, Complete
<1>10. ASSUME NEW e \in Exports, WriteFails(e) PROVE ReadInv'
  BY <1>10 DEF WriteFails, PutArchive, GiveBack, EndRun, Spend, TypeOK, RunInv, ReadInv,
     Complete
<1>11. ASSUME NEW e \in Exports, Interrupt(e) PROVE ReadInv'
  BY <1>11 DEF Interrupt, PutArchive, GiveBack, EndRun, Spend, TypeOK, RunInv, ReadInv,
     Complete
<1>12. ASSUME NEW e \in Exports, RetryJob(e) PROVE ReadInv'
  BY <1>12 DEF RetryJob, Spend, TypeOK, RunInv, ReadInv, Complete
<1>13. ASSUME NEW e \in Exports, CancelJob(e) PROVE ReadInv'
  BY <1>13 DEF CancelJob, Spend, TypeOK, RunInv, ReadInv, Complete
<1>14. ASSUME NEW e \in Exports, DayPasses(e) PROVE ReadInv'
  BY <1>14 DEF DayPasses, TypeOK, RunInv, ReadInv, Complete
<1>15. ASSUME NEW e \in Exports, WeekPasses(e) PROVE ReadInv'
  BY <1>15 DEF WeekPasses, TypeOK, RunInv, ReadInv, Complete
<1>16. ASSUME NEW e \in Exports, Prune(e) PROVE ReadInv'
  BY <1>16 DEF Prune, RemoveArchivesOf, TypeOK, RunInv, ReadInv, Complete
<1>17. ASSUME NEW g \in Polls, MarkMissing(g) PROVE ReadInv'
  BY <1>17 DEF MarkMissing, TypeOK, RunInv, ReadInv, Complete
<1>18. ASSUME NEW g \in Polls, NEW e \in Exports, FindMissing(g, e) PROVE ReadInv'
  BY <1>18 DEF FindMissing, TypeOK, RunInv, ReadInv, Complete
<1>19. ASSUME NEW p \in Personas, DeletePersona(p) PROVE ReadInv'
  BY <1>19 DEF DeletePersona, TypeOK, RunInv, ReadInv, Complete
<1>20. CASE Leave
  BY <1>20 DEF Leave, TypeOK, RunInv, ReadInv, Complete
<1>21. CASE RemoveArchives
  BY <1>21 DEF RemoveArchives, RemoveArchivesOf, TypeOK, RunInv, ReadInv, Complete
<1>22. CASE DeleteUser
  BY <1>22 DEF DeleteUser, TypeOK, RunInv, ReadInv, Complete
<1>23. CASE DeleteUserFails
  BY <1>23 DEF DeleteUserFails, Spend, TypeOK, RunInv, ReadInv, Complete
<1>24. CASE UNCHANGED vars
  BY <1>24 DEF vars, TypeOK, RunInv, ReadInv, Complete
<1>25. QED
  BY <1>1, <1>2, <1>3, <1>4, <1>5, <1>6, <1>7, <1>8, <1>9, <1>10, <1>11, <1>12, <1>13,
     <1>14, <1>15, <1>16, <1>17, <1>18, <1>19, <1>20, <1>21, <1>22, <1>23, <1>24 DEF Next,
     Request, Run

\* The archive of a finished export is written to its end and holds every
\* persona that was there throughout its execution, however often the job was
\* interrupted before, if no statement failed (run_user_export in services/worker.rs).
THEOREM DoneArchivesAreComplete == Spec => []DoneArchiveIsComplete
<1>1. Init => ReadInv
  BY DEF Init, ReadInv, Complete
<1>2. ReadInv => DoneArchiveIsComplete
  BY DEF ReadInv, Complete, DoneArchiveIsComplete
<1>3. QED
  BY <1>1, <1>2, NextReadInv, ExportInvHolds, PTL DEF Spec

-----------------------------------------------------------------------------
(***************************************************************************)
(* Once the archives were removed, what has one, or may yet write one, was *)
(* under way at that moment or was queued after it.                        *)
(***************************************************************************)
Gone == account \in {"removing", "deleted"}

GoneInv ==
  Gone => \A e \in Exports :
            archive[e] # "none" \/ job[e] \in {"queued", "running"} \/ at[e] # "none"
              => e \in straddled \union retried

\* No step adds an archive behind the back of the removal.
LEMMA NextGoneInv == ExportInv /\ GoneInv /\ [Next]_vars => GoneInv'
<1> SUFFICES ASSUME ExportInv /\ GoneInv, [Next]_vars PROVE GoneInv'
  OBVIOUS
<1> USE DEF ExportInv
<1>1. ASSUME NEW e \in Exports, CheckPending(e) PROVE GoneInv'
  BY <1>1 DEF CheckPending, Ask, TypeOK, RunInv, GoneInv, Gone
<1>2. ASSUME NEW e \in Exports, CheckRecent(e) PROVE GoneInv'
  BY <1>2 DEF CheckRecent, Ask, TypeOK, RunInv, GoneInv, Gone
<1>3. ASSUME NEW e \in Exports, Enqueue(e) PROVE GoneInv'
  BY <1>3 DEF Enqueue, Ask, TypeOK, RunInv, GoneInv, Gone
<1>4. ASSUME NEW e \in Exports, RequestFails(e) PROVE GoneInv'
  BY <1>4 DEF RequestFails, Ask, Spend, TypeOK, RunInv, GoneInv, Gone
<1>5. ASSUME NEW e \in Exports, Begin(e) PROVE GoneInv'
  BY <1>5 DEF Begin, TypeOK, RunInv, GoneInv, Gone
<1>6. ASSUME NEW e \in Exports, ListPersonas(e) PROVE GoneInv'
  BY <1>6 DEF ListPersonas, Spend, TypeOK, RunInv, GoneInv, Gone
<1>7. ASSUME NEW e \in Exports, NEW p \in Personas, ReadPersona(e, p) PROVE GoneInv'
  BY <1>7 DEF ReadPersona, Spend, TypeOK, RunInv, GoneInv, Gone
<1>8. ASSUME NEW e \in Exports, WriteArchive(e) PROVE GoneInv'
  BY <1>8 DEF WriteArchive, PutArchive, TypeOK, RunInv, GoneInv, Gone
<1>9. ASSUME NEW e \in Exports, Report(e) PROVE GoneInv'
  BY <1>9 DEF Report, EndRun, TypeOK, RunInv, GoneInv, Gone
<1>10. ASSUME NEW e \in Exports, WriteFails(e) PROVE GoneInv'
  BY <1>10 DEF WriteFails, PutArchive, GiveBack, EndRun, Spend, TypeOK, RunInv, GoneInv,
     Gone
<1>11. ASSUME NEW e \in Exports, Interrupt(e) PROVE GoneInv'
  BY <1>11 DEF Interrupt, PutArchive, GiveBack, EndRun, Spend, TypeOK, RunInv, GoneInv, Gone
<1>12. ASSUME NEW e \in Exports, RetryJob(e) PROVE GoneInv'
  BY <1>12 DEF RetryJob, Spend, TypeOK, RunInv, GoneInv, Gone
<1>13. ASSUME NEW e \in Exports, CancelJob(e) PROVE GoneInv'
  BY <1>13 DEF CancelJob, Spend, TypeOK, RunInv, GoneInv, Gone
<1>14. ASSUME NEW e \in Exports, DayPasses(e) PROVE GoneInv'
  BY <1>14 DEF DayPasses, TypeOK, RunInv, GoneInv, Gone
<1>15. ASSUME NEW e \in Exports, WeekPasses(e) PROVE GoneInv'
  BY <1>15 DEF WeekPasses, TypeOK, RunInv, GoneInv, Gone
<1>16. ASSUME NEW e \in Exports, Prune(e) PROVE GoneInv'
  BY <1>16 DEF Prune, RemoveArchivesOf, TypeOK, RunInv, GoneInv, Gone
<1>17. ASSUME NEW g \in Polls, MarkMissing(g) PROVE GoneInv'
  BY <1>17 DEF MarkMissing, TypeOK, RunInv, GoneInv, Gone
<1>18. ASSUME NEW g \in Polls, NEW e \in Exports, FindMissing(g, e) PROVE GoneInv'
  BY <1>18 DEF FindMissing, TypeOK, RunInv, GoneInv, Gone
<1>19. ASSUME NEW p \in Personas, DeletePersona(p) PROVE GoneInv'
  BY <1>19 DEF DeletePersona, TypeOK, RunInv, GoneInv, Gone
<1>20. CASE Leave
  BY <1>20 DEF Leave, TypeOK, RunInv, GoneInv, Gone
<1>21. CASE RemoveArchives
  BY <1>21 DEF RemoveArchives, RemoveArchivesOf, TypeOK, RunInv, GoneInv, Gone
<1>22. CASE DeleteUser
  BY <1>22 DEF DeleteUser, TypeOK, RunInv, GoneInv, Gone
<1>23. CASE DeleteUserFails
  BY <1>23 DEF DeleteUserFails, Spend, TypeOK, RunInv, GoneInv, Gone
<1>24. CASE UNCHANGED vars
  BY <1>24 DEF vars, TypeOK, RunInv, GoneInv, Gone
<1>25. QED
  BY <1>1, <1>2, <1>3, <1>4, <1>5, <1>6, <1>7, <1>8, <1>9, <1>10, <1>11, <1>12, <1>13,
     <1>14, <1>15, <1>16, <1>17, <1>18, <1>19, <1>20, <1>21, <1>22, <1>23, <1>24 DEF Next,
     Request, Run

\* A deleted account leaves no archive behind, for any number of exports, except
\* of those that were not finished when run_user_delete removed the directory, or
\* were queued after it (services/worker.rs).
THEOREM DeletedAccountLeavesNoArchive == Spec => []NoArchiveOutlivesAccount
<1>1. Init => GoneInv
  BY DEF Init, GoneInv, Gone
<1>2. GoneInv => NoArchiveOutlivesAccount
  BY DEF GoneInv, Gone, NoArchiveOutlivesAccount
<1>3. QED
  BY <1>1, <1>2, NextGoneInv, ExportInvHolds, PTL DEF Spec
=============================================================================
