--------------------------- MODULE AccountsProofs ---------------------------
(***************************************************************************)
(* Theorems about Accounts, for every set of accounts, invitations and     *)
(* requests.                                                               *)
(***************************************************************************)
EXTENDS Accounts, FiniteSetTheorems, TLAPS

USE DEF userVars, inviteVars, jobVars, requestVars, history

(***************************************************************************)
(* An acceptance that is under way holds the row of an invitation nobody   *)
(* else is using, and an account that was made has used its invitation up. *)
(***************************************************************************)
UsersOfRow ==
  \A r \in Requests : pc[r] = "createUser" => r \in Accepts

HoldsRow(a) == InviteOf[a] \in locked /\ invite[InviteOf[a]] = "pending"

MakingInv ==
  /\ UsersOfRow
  /\ \A i \in Invites : invite[i] # "none" => pc[i] = "ended"
  /\ \A a \in Accepts :
       /\ pc[a] = "createUser" => HoldsRow(a)
       /\ pc[a] \in {"idle", "createUser"} => state[a] = "none"
       /\ state[a] # "none" => pc[InviteOf[a]] = "ended" /\ invite[InviteOf[a]] # "pending"
  /\ \A a, b \in Accepts :
       pc[a] = "createUser" /\ pc[b] = "createUser" /\ InviteOf[a] = InviteOf[b] => a = b
  /\ OneAccountPerInvite

(***************************************************************************)
(* A job to delete an account exists only after the account was made       *)
(* anonymous, and has attempts left while it is queued or running.         *)
(***************************************************************************)
LeavingInv ==
  \A u \in Accounts :
    /\ leaving[u] # "yes" => job[u] = "none"
    /\ job[u] = "none" => attempts[u] = 0
    /\ job[u] \in {"queued", "removing"} => attempts[u] < MaxAttempts
    /\ leaving[u] # "no" \/ u \in gone => state[u] # "none"
    /\ leaving[u] = "enqueue" \/ job[u] # "none" => u \in gone

AccountInv == TypeOK /\ MakingInv /\ LeavingInv

LEMMA InitAccountInv == Init => AccountInv
<1> SUFFICES ASSUME Init PROVE AccountInv
  OBVIOUS
<1>1. TypeOK
  <2>1. role \in [Accounts -> {"admin", "user"}]
    BY AccountsAssumption DEF Init, Accounts
  <2>2. patch \in [Patches -> [user : Accounts \union {None}, role : {None, "admin", "user"},
                               status : {None, "active", "disabled"}]]
    BY DEF Init, NoPatch
  <2>3. attempts \in [Accounts -> 0 .. MaxAttempts] /\ spent \in 0 .. Budget
    BY AccountsAssumption DEF Init
  <2>4. QED
    BY <2>1, <2>2, <2>3, AccountsAssumption DEF Init, TypeOK, Accounts
<1>2. MakingInv
  BY AccountsAssumption
     DEF Init, MakingInv, UsersOfRow, HoldsRow, OneAccountPerInvite, Accounts, Requests
<1>3. LeavingInv
  BY AccountsAssumption DEF Init, LeavingInv
<1>4. QED
  BY <1>1, <1>2, <1>3 DEF AccountInv

-----------------------------------------------------------------------------
\* Every step leaves every variable in its type.
LEMMA NextTypeOK == AccountInv /\ [Next]_vars => TypeOK'
<1> SUFFICES ASSUME AccountInv, [Next]_vars PROVE TypeOK'
  OBVIOUS
<1> USE AccountsAssumption DEF AccountInv, LeavingInv, Accounts, Requests, NoPatch
<1>1. ASSUME NEW i \in Invites, NEW c \in Accounts, CheckEmail(i, c) PROVE TypeOK'
  BY <1>1 DEF CheckEmail, GoTo, TypeOK
<1>2. ASSUME NEW i \in Invites, InsertInvite(i) PROVE TypeOK'
  BY <1>2 DEF InsertInvite, GoTo, TypeOK
<1>3. ASSUME NEW i \in Invites, DeleteInvite(i) PROVE TypeOK'
  BY <1>3 DEF DeleteInvite, TypeOK
<1>4. ASSUME NEW i \in Invites, ExpireInvite(i) PROVE TypeOK'
  BY <1>4 DEF ExpireInvite, TypeOK
<1>5. ASSUME NEW a \in Accepts, UseInvite(a) PROVE TypeOK'
  BY <1>5 DEF UseInvite, GoTo, TypeOK
<1>6. ASSUME NEW a \in Accepts, CommitAccept(a) PROVE TypeOK'
  BY <1>6 DEF CommitAccept, GoTo, TypeOK
<1>7. ASSUME NEW a \in Accepts, LogAccept(a) PROVE TypeOK'
  BY <1>7 DEF LogAccept, GoTo, TypeOK
<1>8. ASSUME NEW q \in Patches, NEW p \in Changes, StartPatch(q, p) PROVE TypeOK'
  BY <1>8 DEF StartPatch, GoTo, TypeOK
<1>9. ASSUME NEW q \in Patches, SetRole(q) PROVE TypeOK'
  BY <1>9 DEF SetRole, GoTo, Reshapes, TypeOK
<1>10. ASSUME NEW q \in Patches, SetStatus(q) PROVE TypeOK'
  <2> DEFINE p == patch[q]
  <2>1. p.status \in {None, "active", "disabled"}
    BY DEF TypeOK
  <2>2. state' \in [Accounts -> {"none", "active", "disabled", "deleted"}]
    <3> HIDE DEF p
    <3>1. \/ p.status # None /\ state' = [state EXCEPT ![p.user] = p.status]
          \/ state' = state
      BY <1>10 DEF SetStatus, p
    <3>2. QED
      BY <2>1, <3>1 DEF TypeOK
  <2>3. patched' \in BOOLEAN
    BY <1>10 DEF SetStatus, Reshapes
  <2>4. patch' = [patch EXCEPT ![q] = NoPatch] /\ pc' = [pc EXCEPT ![q] = "ended"]
    BY <1>10 DEF SetStatus, GoTo
  <2>5. UNCHANGED <<role, gone, inviteVars, audited, jobVars, leaving, raced, spent>>
    BY <1>10 DEF SetStatus
  <2> HIDE DEF p
  <2>6. QED
    BY <2>2, <2>3, <2>4, <2>5 DEF TypeOK, inviteVars, jobVars
<1>11. ASSUME NEW u \in Accounts, Login(u) PROVE TypeOK'
  BY <1>11 DEF Login, TypeOK
<1>12. ASSUME NEW u \in Accounts, PruneAudit(u) PROVE TypeOK'
  BY <1>12 DEF PruneAudit, TypeOK
<1>13. ASSUME NEW u \in Accounts, CheckLastAdmin(u) PROVE TypeOK'
  BY <1>13 DEF CheckLastAdmin, TypeOK
<1>14. ASSUME NEW u \in Accounts, Anonymise(u) PROVE TypeOK'
  BY <1>14 DEF Anonymise, TypeOK
<1>15. ASSUME NEW u \in Accounts, EnqueueDelete(u) PROVE TypeOK'
  BY <1>15 DEF EnqueueDelete, TypeOK
<1>16. ASSUME NEW u \in Accounts, Recheck(u) PROVE TypeOK'
  BY <1>16 DEF Recheck, FailAttempt, TypeOK
<1>17. ASSUME NEW u \in Accounts, DeleteUser(u) PROVE TypeOK'
  <2>1. CASE Referenced(u)
    <3>1. /\ job[u] = "removing" /\ FailAttempt(u)
          /\ UNCHANGED <<state, role, gone, inviteVars, audited, requestVars, history>>
      BY <1>17, <2>1 DEF DeleteUser
    <3>2. attempts[u] \in 0 .. MaxAttempts - 1
      BY <3>1 DEF TypeOK
    <3>3. attempts' \in [Accounts -> 0 .. MaxAttempts]
      BY <3>1, <3>2 DEF FailAttempt, TypeOK
    <3>4. job' \in [Accounts -> {"none", "queued", "removing", "failed", "done"}]
      BY <3>1 DEF FailAttempt, TypeOK
    <3>5. QED
      BY <3>1, <3>3, <3>4 DEF TypeOK
  <2>2. CASE ~Referenced(u)
    BY <1>17, <2>2 DEF DeleteUser, TypeOK
  <2>3. QED
    BY <2>1, <2>2
<1>18. ASSUME NEW u \in Accounts, StopLeaving(u) PROVE TypeOK'
  BY <1>18 DEF StopLeaving, TypeOK
<1>19. ASSUME NEW r \in Requests, CutShort(r) PROVE TypeOK'
  BY <1>19 DEF CutShort, GoTo, TypeOK
<1>20. CASE Restart
  BY <1>20 DEF Restart, TypeOK
<1>21. CASE UNCHANGED vars
  BY <1>21 DEF vars, TypeOK
<1>22. QED
  BY <1>1, <1>2, <1>3, <1>4, <1>5, <1>6, <1>7, <1>8, <1>9, <1>10, <1>11, <1>12, <1>13, <1>14, <1>15, <1>16, <1>17, <1>18, <1>19, <1>20, <1>21
     DEF Next, RunJob, RevokeInvite, PruneInvite

\* Every step keeps the bookkeeping of the invitations.
LEMMA NextMakingInv == AccountInv /\ [Next]_vars => MakingInv'
<1> SUFFICES ASSUME AccountInv, [Next]_vars PROVE MakingInv'
  OBVIOUS
<1> USE AccountsAssumption DEF AccountInv, Accounts
<1>1. ASSUME NEW i \in Invites, NEW c \in Accounts, CheckEmail(i, c) PROVE MakingInv'
  BY <1>1 DEF CheckEmail, GoTo, MakingInv, UsersOfRow, HoldsRow, OneAccountPerInvite, LeavingInv, TypeOK,
     Requests
<1>2. ASSUME NEW i \in Invites, InsertInvite(i) PROVE MakingInv'
  BY <1>2 DEF InsertInvite, GoTo, MakingInv, UsersOfRow, HoldsRow, OneAccountPerInvite, LeavingInv, TypeOK,
     Requests
<1>3. ASSUME NEW i \in Invites, DeleteInvite(i) PROVE MakingInv'
  BY <1>3 DEF DeleteInvite, MakingInv, UsersOfRow, HoldsRow, OneAccountPerInvite, LeavingInv, TypeOK,
     Requests
<1>4. ASSUME NEW i \in Invites, ExpireInvite(i) PROVE MakingInv'
  BY <1>4 DEF ExpireInvite, MakingInv, UsersOfRow, HoldsRow, OneAccountPerInvite, LeavingInv, TypeOK,
     Requests
<1>5. ASSUME NEW a \in Accepts, UseInvite(a) PROVE MakingInv'
  BY <1>5 DEF UseInvite, GoTo, MakingInv, UsersOfRow, HoldsRow, OneAccountPerInvite, LeavingInv, TypeOK,
     Requests
<1>6. ASSUME NEW a \in Accepts, CommitAccept(a) PROVE MakingInv'
  <2>1. CASE EmailTaken(EmailOf[InviteOf[a]])
    BY <1>6, <2>1 DEF CommitAccept, GoTo, MakingInv, UsersOfRow, HoldsRow, OneAccountPerInvite, TypeOK, Requests
  <2>2. CASE ~EmailTaken(EmailOf[InviteOf[a]])
    <3>1. /\ pc[a] = "createUser" /\ HoldsRow(a) /\ locked' = locked \ {InviteOf[a]}
          /\ pc[InviteOf[a]] = "ended" /\ state[a] = "none"
      BY <1>6 DEF CommitAccept, MakingInv, HoldsRow, TypeOK
    <3>0. /\ state \in [Accounts -> {"none", "active", "disabled", "deleted"}]
          /\ DOMAIN invite = Invites /\ DOMAIN pc = Requests
          /\ a \in Accounts /\ a \in Requests /\ InviteOf[a] \in Invites
      BY DEF TypeOK, Requests
    <3>10. /\ state' = [state EXCEPT ![a] = "active"]
           /\ invite' = [invite EXCEPT ![InviteOf[a]] = IF @ = "none" THEN "none" ELSE "used"]
           /\ pc' = [pc EXCEPT ![a] = "log"]
      BY <1>6, <2>2 DEF CommitAccept, GoTo
    <3>2. state'[a] = "active" /\ \A b \in Accepts : b # a => state'[b] = state[b]
      BY <3>0, <3>10
    <3>3. invite'[InviteOf[a]] = "used" /\ \A i \in Invites : i # InviteOf[a] => invite'[i] = invite[i]
      BY <3>0, <3>1, <3>10 DEF HoldsRow
    <3>4. pc'[a] = "log" /\ \A r \in Requests : r # a => pc'[r] = pc[r]
      BY <3>0, <3>10
    <3>5. \A b \in Accepts : b # a /\ InviteOf[b] = InviteOf[a] => pc[b] # "createUser" /\ state[b] = "none"
      BY <3>1 DEF MakingInv, HoldsRow
    <3>6. UsersOfRow' /\ \A i \in Invites : invite'[i] # "none" => pc'[i] = "ended"
      BY <3>1, <3>3, <3>4 DEF MakingInv, UsersOfRow, Requests
    <3>7. /\ OneAccountPerInvite'
          /\ \A b, c \in Accepts :
               pc'[b] = "createUser" /\ pc'[c] = "createUser" /\ InviteOf[b] = InviteOf[c] => b = c
      BY <3>2, <3>4, <3>5 DEF MakingInv, OneAccountPerInvite, Requests
    <3>8. ASSUME NEW b \in Accepts
          PROVE  /\ pc'[b] = "createUser" => HoldsRow(b)'
                 /\ pc'[b] \in {"idle", "createUser"} => state'[b] = "none"
                 /\ state'[b] # "none" => pc'[InviteOf[b]] = "ended" /\ invite'[InviteOf[b]] # "pending"
      <4>1. b \in Requests /\ InviteOf[b] \in Requests /\ InviteOf[b] \in Invites /\ InviteOf[b] # a
        BY DEF Requests
      <4>2. CASE b = a
        BY <4>1, <4>2, <3>1, <3>2, <3>3, <3>4
      <4>3. CASE b # a
        BY <4>1, <4>3, <3>1, <3>2, <3>3, <3>4, <3>5 DEF MakingInv, HoldsRow
      <4>4. QED
        BY <4>2, <4>3
    <3>9. QED
      BY <3>6, <3>7, <3>8 DEF MakingInv
  <2>3. QED
    BY <2>1, <2>2
<1>7. ASSUME NEW a \in Accepts, LogAccept(a) PROVE MakingInv'
  BY <1>7 DEF LogAccept, GoTo, MakingInv, UsersOfRow, HoldsRow, OneAccountPerInvite, LeavingInv, TypeOK,
     Requests
<1>8. ASSUME NEW q \in Patches, NEW p \in Changes, StartPatch(q, p) PROVE MakingInv'
  BY <1>8 DEF StartPatch, GoTo, MakingInv, UsersOfRow, HoldsRow, OneAccountPerInvite, LeavingInv, TypeOK,
     Requests
<1>9. ASSUME NEW q \in Patches, SetRole(q) PROVE MakingInv'
  BY <1>9 DEF SetRole, GoTo, Reshapes, MakingInv, UsersOfRow, HoldsRow, OneAccountPerInvite, LeavingInv, TypeOK,
     Requests
<1>10. ASSUME NEW q \in Patches, SetStatus(q) PROVE MakingInv'
  BY <1>10 DEF SetStatus, GoTo, Reshapes, Exists, MakingInv, UsersOfRow, HoldsRow, OneAccountPerInvite, LeavingInv, TypeOK,
     Requests
<1>11. ASSUME NEW u \in Accounts, Login(u) PROVE MakingInv'
  BY <1>11 DEF Login, MakingInv, UsersOfRow, HoldsRow, OneAccountPerInvite, LeavingInv, TypeOK,
     Requests
<1>12. ASSUME NEW u \in Accounts, PruneAudit(u) PROVE MakingInv'
  BY <1>12 DEF PruneAudit, MakingInv, UsersOfRow, HoldsRow, OneAccountPerInvite, LeavingInv, TypeOK,
     Requests
<1>13. ASSUME NEW u \in Accounts, CheckLastAdmin(u) PROVE MakingInv'
  BY <1>13 DEF CheckLastAdmin, MakingInv, UsersOfRow, HoldsRow, OneAccountPerInvite, LeavingInv, TypeOK,
     Requests
<1>14. ASSUME NEW u \in Accounts, Anonymise(u) PROVE MakingInv'
  BY <1>14 DEF Anonymise, MakingInv, UsersOfRow, HoldsRow, OneAccountPerInvite, LeavingInv, TypeOK,
     Requests
<1>15. ASSUME NEW u \in Accounts, EnqueueDelete(u) PROVE MakingInv'
  BY <1>15 DEF EnqueueDelete, MakingInv, UsersOfRow, HoldsRow, OneAccountPerInvite, LeavingInv, TypeOK,
     Requests
<1>16. ASSUME NEW u \in Accounts, Recheck(u) PROVE MakingInv'
  BY <1>16 DEF Recheck, FailAttempt, MakingInv, UsersOfRow, HoldsRow, OneAccountPerInvite, LeavingInv, TypeOK,
     Requests
<1>17. ASSUME NEW u \in Accounts, DeleteUser(u) PROVE MakingInv'
  BY <1>17 DEF DeleteUser, FailAttempt, MakingInv, UsersOfRow, HoldsRow, OneAccountPerInvite, LeavingInv, TypeOK,
     Requests
<1>18. ASSUME NEW u \in Accounts, StopLeaving(u) PROVE MakingInv'
  BY <1>18 DEF StopLeaving, MakingInv, UsersOfRow, HoldsRow, OneAccountPerInvite, LeavingInv, TypeOK,
     Requests
<1>19. ASSUME NEW r \in Requests, CutShort(r) PROVE MakingInv'
  BY <1>19 DEF CutShort, GoTo, MakingInv, UsersOfRow, HoldsRow, OneAccountPerInvite, LeavingInv, TypeOK,
     Requests
<1>20. CASE Restart
  BY <1>20 DEF Restart, MakingInv, UsersOfRow, HoldsRow, OneAccountPerInvite, LeavingInv, TypeOK,
     Requests
<1>21. CASE UNCHANGED vars
  BY <1>21 DEF vars, MakingInv, UsersOfRow, HoldsRow, OneAccountPerInvite, LeavingInv, TypeOK,
     Requests
<1>22. QED
  BY <1>1, <1>2, <1>3, <1>4, <1>5, <1>6, <1>7, <1>8, <1>9, <1>10, <1>11, <1>12, <1>13, <1>14, <1>15, <1>16, <1>17, <1>18, <1>19, <1>20, <1>21
     DEF Next, RunJob, RevokeInvite, PruneInvite

\* Every step keeps the bookkeeping of the deletions.
LEMMA NextLeavingInv == AccountInv /\ [Next]_vars => LeavingInv'
<1> SUFFICES ASSUME AccountInv, [Next]_vars PROVE LeavingInv'
  OBVIOUS
<1> USE AccountsAssumption DEF AccountInv
<1>1. ASSUME NEW i \in Invites, NEW c \in Accounts, CheckEmail(i, c) PROVE LeavingInv'
  BY <1>1 DEF CheckEmail, GoTo, LeavingInv, TypeOK
<1>2. ASSUME NEW i \in Invites, InsertInvite(i) PROVE LeavingInv'
  BY <1>2 DEF InsertInvite, GoTo, LeavingInv, TypeOK
<1>3. ASSUME NEW i \in Invites, DeleteInvite(i) PROVE LeavingInv'
  BY <1>3 DEF DeleteInvite, LeavingInv, TypeOK
<1>4. ASSUME NEW i \in Invites, ExpireInvite(i) PROVE LeavingInv'
  BY <1>4 DEF ExpireInvite, LeavingInv, TypeOK
<1>5. ASSUME NEW a \in Accepts, UseInvite(a) PROVE LeavingInv'
  BY <1>5 DEF UseInvite, GoTo, LeavingInv, TypeOK
<1>6. ASSUME NEW a \in Accepts, CommitAccept(a) PROVE LeavingInv'
  BY <1>6 DEF CommitAccept, GoTo, LeavingInv, TypeOK
<1>7. ASSUME NEW a \in Accepts, LogAccept(a) PROVE LeavingInv'
  BY <1>7 DEF LogAccept, GoTo, LeavingInv, TypeOK
<1>8. ASSUME NEW q \in Patches, NEW p \in Changes, StartPatch(q, p) PROVE LeavingInv'
  BY <1>8 DEF StartPatch, GoTo, LeavingInv, TypeOK
<1>9. ASSUME NEW q \in Patches, SetRole(q) PROVE LeavingInv'
  BY <1>9 DEF SetRole, GoTo, Reshapes, LeavingInv, TypeOK
<1>10. ASSUME NEW q \in Patches, SetStatus(q) PROVE LeavingInv'
  BY <1>10 DEF SetStatus, GoTo, Reshapes, Exists, LeavingInv, TypeOK
<1>11. ASSUME NEW u \in Accounts, Login(u) PROVE LeavingInv'
  BY <1>11 DEF Login, LeavingInv, TypeOK
<1>12. ASSUME NEW u \in Accounts, PruneAudit(u) PROVE LeavingInv'
  BY <1>12 DEF PruneAudit, LeavingInv, TypeOK
<1>13. ASSUME NEW u \in Accounts, CheckLastAdmin(u) PROVE LeavingInv'
  BY <1>13 DEF CheckLastAdmin, LeavingInv, TypeOK
<1>14. ASSUME NEW u \in Accounts, Anonymise(u) PROVE LeavingInv'
  BY <1>14 DEF Anonymise, LeavingInv, TypeOK
<1>15. ASSUME NEW u \in Accounts, EnqueueDelete(u) PROVE LeavingInv'
  BY <1>15 DEF EnqueueDelete, LeavingInv, TypeOK
<1>16. ASSUME NEW u \in Accounts, Recheck(u) PROVE LeavingInv'
  BY <1>16 DEF Recheck, FailAttempt, LeavingInv, TypeOK
<1>17. ASSUME NEW u \in Accounts, DeleteUser(u) PROVE LeavingInv'
  BY <1>17 DEF DeleteUser, FailAttempt, LeavingInv, TypeOK
<1>18. ASSUME NEW u \in Accounts, StopLeaving(u) PROVE LeavingInv'
  BY <1>18 DEF StopLeaving, LeavingInv, TypeOK
<1>19. ASSUME NEW r \in Requests, CutShort(r) PROVE LeavingInv'
  BY <1>19 DEF CutShort, GoTo, LeavingInv, TypeOK
<1>20. CASE Restart
  BY <1>20 DEF Restart, LeavingInv, TypeOK
<1>21. CASE UNCHANGED vars
  BY <1>21 DEF vars, LeavingInv, TypeOK
<1>22. QED
  BY <1>1, <1>2, <1>3, <1>4, <1>5, <1>6, <1>7, <1>8, <1>9, <1>10, <1>11, <1>12, <1>13, <1>14, <1>15, <1>16, <1>17, <1>18, <1>19, <1>20, <1>21
     DEF Next, RunJob, RevokeInvite, PruneInvite

LEMMA AccountInvHolds == Spec => []AccountInv
<1>1. Init => AccountInv
  BY InitAccountInv
<1>2. AccountInv /\ [Next]_vars => AccountInv'
  BY NextTypeOK, NextMakingInv, NextLeavingInv DEF AccountInv
<1>3. QED
  BY <1>1, <1>2, PTL DEF Spec

\* An invitation makes at most one account, for every number of acceptances that
\* bring its token at once: use_invite holds the row FOR UPDATE until the user is
\* inserted and used_at set (repositories/invites.rs, routes/auth.rs).
THEOREM InviteMakesOneAccount == Spec => []OneAccountPerInvite
BY AccountInvHolds, PTL DEF AccountInv, MakingInv

\* An invitation that was revoked makes no account, not even through an
\* acceptance that had begun: revoke_invite waits for the row it holds.
THEOREM RevokedInviteIsDead == Spec => RevokedInviteMakesNoAccount
<1> DEFINE StaysDead ==
      \A a \in Accepts : invite[InviteOf[a]] = "none" /\ state[a] = "none" => state'[a] = "none"
<1>1. ASSUME AccountInv, [Next]_vars PROVE [StaysDead]_vars
  <2> SUFFICES ASSUME Next, NEW b \in Accepts, invite[InviteOf[b]] = "none", state[b] = "none"
               PROVE  state'[b] = "none"
    BY <1>1
  <2> USE AccountsAssumption DEF Accounts
  <2>0. TypeOK /\ MakingInv /\ LeavingInv
    BY <1>1 DEF AccountInv
  <2>1. ASSUME NEW a \in Accepts, CommitAccept(a) PROVE state'[b] = "none"
    <3>1. invite[InviteOf[a]] = "pending"
      BY <2>0, <2>1 DEF CommitAccept, MakingInv, HoldsRow
    <3>2. QED
      BY <2>0, <2>1, <3>1 DEF CommitAccept, TypeOK
  <2>2. ASSUME NEW q \in Patches, SetStatus(q) PROVE state'[b] = "none"
    BY <2>0, <2>2 DEF SetStatus, Exists, TypeOK
  <2>3. ASSUME NEW u \in Accounts, Anonymise(u) \/ DeleteUser(u) PROVE state'[b] = "none"
    BY <2>0, <2>3 DEF Anonymise, DeleteUser, LeavingInv, TypeOK
  <2>4. CASE Restart
    BY <2>0, <2>4 DEF Restart, TypeOK
  <2>5. CASE UNCHANGED state
    BY <2>5
  <2>6. QED
    <3>1. \A i \in Invites : (\E c \in Accounts : CheckEmail(i, c)) \/ InsertInvite(i)
             \/ DeleteInvite(i) \/ ExpireInvite(i) => UNCHANGED state
      BY DEF CheckEmail, InsertInvite, DeleteInvite, ExpireInvite
    <3>2. \A a \in Accepts : UseInvite(a) \/ LogAccept(a) => UNCHANGED state
      BY DEF UseInvite, LogAccept
    <3>3. \A q \in Patches : (\E p \in Changes : StartPatch(q, p)) \/ SetRole(q) => UNCHANGED state
      BY DEF StartPatch, SetRole
    <3>4. \A u \in Accounts : Login(u) \/ PruneAudit(u) \/ CheckLastAdmin(u) \/ EnqueueDelete(u)
             \/ Recheck(u) \/ StopLeaving(u) => UNCHANGED state
      BY DEF Login, PruneAudit, CheckLastAdmin, EnqueueDelete, Recheck, StopLeaving
    <3>5. \A r \in Requests : CutShort(r) => UNCHANGED state
      BY DEF CutShort
    <3>6. QED
      BY <2>1, <2>2, <2>3, <2>4, <2>5, <3>1, <3>2, <3>3, <3>4, <3>5
         DEF Next, RunJob, RevokeInvite, PruneInvite
<1>2. QED
  BY <1>1, AccountInvHolds, PTL DEF Spec, RevokedInviteMakesNoAccount

-----------------------------------------------------------------------------
(***************************************************************************)
(* Who remains to administer the system.  Until a patch takes part, an     *)
(* account made anonymous is not active; until two deletions overlap, one  *)
(* active administrator at least is not about to be made anonymous.        *)
(***************************************************************************)
AdminInv ==
  /\ ~raced => \A u, v \in Accounts :
                 leaving[u] = "anonymise" /\ leaving[v] = "anonymise" => u = v
  /\ ~patched => \A u \in gone : state[u] # "active"
  /\ ~patched /\ ~raced => \E v \in ActiveAdmins : leaving[v] # "anonymise"

LEMMA InitAdminInv == Init => AdminInv
BY AccountsAssumption DEF Init, AdminInv, ActiveAdmins, Accounts

\* More than one active administrator: whoever leaves, another is there.
LEMMA AnotherAdmin ==
  ASSUME NEW u \in Accounts, Cardinality(ActiveAdmins) > 1
  PROVE  \E v \in ActiveAdmins : v # u
<1> SUFFICES ASSUME ActiveAdmins \subseteq {u} PROVE FALSE
  OBVIOUS
<1>1. IsFiniteSet({u}) /\ Cardinality({u}) = 1
  BY FS_Singleton
<1>2. Cardinality(ActiveAdmins) <= 1 /\ Cardinality(ActiveAdmins) \in Nat
  BY <1>1, FS_Subset, FS_CardinalityType
<1>3. QED
  BY <1>2

LEMMA NextAdminInv == AccountInv /\ AdminInv /\ [Next]_vars => AdminInv'
<1> SUFFICES ASSUME AccountInv /\ AdminInv, [Next]_vars PROVE AdminInv'
  OBVIOUS
<1> USE AccountsAssumption DEF AccountInv, LeavingInv, Accounts
<1>1. ASSUME NEW i \in Invites, NEW c \in Accounts, CheckEmail(i, c) PROVE AdminInv'
  BY <1>1 DEF CheckEmail, GoTo, AdminInv, ActiveAdmins, TypeOK
<1>2. ASSUME NEW i \in Invites, InsertInvite(i) PROVE AdminInv'
  BY <1>2 DEF InsertInvite, GoTo, AdminInv, ActiveAdmins, TypeOK
<1>3. ASSUME NEW i \in Invites, DeleteInvite(i) PROVE AdminInv'
  BY <1>3 DEF DeleteInvite, AdminInv, ActiveAdmins, TypeOK
<1>4. ASSUME NEW i \in Invites, ExpireInvite(i) PROVE AdminInv'
  BY <1>4 DEF ExpireInvite, AdminInv, ActiveAdmins, TypeOK
<1>5. ASSUME NEW a \in Accepts, UseInvite(a) PROVE AdminInv'
  BY <1>5 DEF UseInvite, GoTo, AdminInv, ActiveAdmins, TypeOK
<1>6. ASSUME NEW a \in Accepts, CommitAccept(a) PROVE AdminInv'
  <2>1. state[a] = "none" /\ a \in Accounts
    BY <1>6 DEF CommitAccept, MakingInv
  <2>2. /\ state' = state \/ state' = [state EXCEPT ![a] = "active"]
        /\ UNCHANGED <<role, gone, leaving, patched, raced>>
    BY <1>6 DEF CommitAccept
  <2>3. ActiveAdmins \subseteq ActiveAdmins'
    BY <2>1, <2>2 DEF ActiveAdmins, TypeOK
  <2>4. ~patched => \A u \in gone : u # a /\ state'[u] = state[u]
    BY <2>1, <2>2 DEF TypeOK
  <2>5. QED
    BY <2>2, <2>3, <2>4 DEF AdminInv
<1>7. ASSUME NEW a \in Accepts, LogAccept(a) PROVE AdminInv'
  BY <1>7 DEF LogAccept, GoTo, AdminInv, ActiveAdmins, TypeOK
<1>8. ASSUME NEW q \in Patches, NEW p \in Changes, StartPatch(q, p) PROVE AdminInv'
  BY <1>8 DEF StartPatch, GoTo, AdminInv, ActiveAdmins, TypeOK
<1>9. ASSUME NEW q \in Patches, SetRole(q) PROVE AdminInv'
  <2>1. /\ patched' = (patched \/ ~(ActiveAdmins \subseteq ActiveAdmins') \/ patch[q].user \in gone)
        /\ UNCHANGED <<state, gone, leaving, raced>>
    BY <1>9 DEF SetRole, Reshapes
  <2>2. QED
    BY <2>1 DEF AdminInv
<1>10. ASSUME NEW q \in Patches, SetStatus(q) PROVE AdminInv'
  <2>1. PICK x, s :
          /\ patched' = (patched \/ ~(ActiveAdmins \subseteq ActiveAdmins') \/ x \in gone)
          /\ state' = state \/ state' = [state EXCEPT ![x] = s]
          /\ UNCHANGED <<role, gone, leaving, raced>>
    BY <1>10 DEF SetStatus, Reshapes
  <2>2. ~patched' => \A u \in gone : state'[u] = state[u]
    <3>1. gone \subseteq Accounts /\ DOMAIN state = Accounts
      BY DEF TypeOK
    <3>2. x \notin gone => \A u \in gone : state'[u] = state[u]
      BY <2>1, <3>1
    <3>3. QED
      BY <2>1, <3>2, Zenon
  <2>3. QED
    BY <2>1, <2>2 DEF AdminInv
<1>11. ASSUME NEW u \in Accounts, Login(u) PROVE AdminInv'
  BY <1>11 DEF Login, AdminInv, ActiveAdmins, TypeOK
<1>12. ASSUME NEW u \in Accounts, PruneAudit(u) PROVE AdminInv'
  BY <1>12 DEF PruneAudit, AdminInv, ActiveAdmins, TypeOK
<1>13. ASSUME NEW u \in Accounts, CheckLastAdmin(u) PROVE AdminInv'
  <2>1. /\ leaving' = [leaving EXCEPT ![u] = "anonymise"] /\ state[u] = "active"
        /\ raced' = (raced \/ \E v \in Accounts : leaving[v] = "anonymise")
        /\ UNCHANGED <<userVars, patched>>
    BY <1>13 DEF CheckLastAdmin
  <2>2. ~patched /\ ~raced' => \E v \in ActiveAdmins : v # u
    <3>1. CASE role[u] # "admin"
      BY <2>1, <3>1 DEF AdminInv, ActiveAdmins
    <3>2. CASE role[u] = "admin"
      <4>1. ~(Cardinality(ActiveAdmins) <= 1)
        BY <1>13, <3>2 DEF CheckLastAdmin, LastAdmin
      <4>2. IsFiniteSet(ActiveAdmins)
        BY FS_Subset DEF ActiveAdmins
      <4>3. Cardinality(ActiveAdmins) > 1
        BY <4>1, <4>2, FS_CardinalityType
      <4>4. QED
        BY <4>3, AnotherAdmin
    <3>3. QED
      BY <3>1, <3>2
  <2>3. ActiveAdmins' = ActiveAdmins
    BY <2>1 DEF ActiveAdmins
  <2>4. ~raced' => \A v, w \in Accounts :
                     leaving'[v] = "anonymise" /\ leaving'[w] = "anonymise" => v = w
    BY <2>1 DEF TypeOK
  <2>5. ~patched' => \A v \in gone' : state'[v] # "active"
    BY <2>1 DEF AdminInv
  <2>6. ~patched' /\ ~raced' => \E v \in ActiveAdmins' : leaving'[v] # "anonymise"
    <3>1. SUFFICES ASSUME ~patched, ~raced'
                   PROVE  \E v \in ActiveAdmins : leaving'[v] # "anonymise"
      BY <2>1, <2>3
    <3>2. PICK v \in ActiveAdmins : v # u
      BY <2>2, <3>1
    <3>3. leaving[v] # "anonymise" /\ v \in Accounts
      BY <2>1, <3>1 DEF ActiveAdmins
    <3>4. QED
      BY <2>1, <3>2, <3>3 DEF TypeOK
  <2>7. QED
    BY <2>4, <2>5, <2>6 DEF AdminInv
<1>14. ASSUME NEW u \in Accounts, Anonymise(u) PROVE AdminInv'
  BY <1>14 DEF Anonymise, AdminInv, ActiveAdmins, TypeOK
<1>15. ASSUME NEW u \in Accounts, EnqueueDelete(u) PROVE AdminInv'
  BY <1>15 DEF EnqueueDelete, AdminInv, ActiveAdmins, TypeOK
<1>16. ASSUME NEW u \in Accounts, Recheck(u) PROVE AdminInv'
  BY <1>16 DEF Recheck, FailAttempt, AdminInv, ActiveAdmins, TypeOK
<1>17. ASSUME NEW u \in Accounts, DeleteUser(u) PROVE AdminInv'
  BY <1>17 DEF DeleteUser, FailAttempt, AdminInv, ActiveAdmins, TypeOK
<1>18. ASSUME NEW u \in Accounts, StopLeaving(u) PROVE AdminInv'
  BY <1>18 DEF StopLeaving, AdminInv, ActiveAdmins, TypeOK
<1>19. ASSUME NEW r \in Requests, CutShort(r) PROVE AdminInv'
  BY <1>19 DEF CutShort, GoTo, AdminInv, ActiveAdmins, TypeOK
<1>20. CASE Restart
  BY <1>20 DEF Restart, AdminInv, ActiveAdmins, TypeOK
<1>21. CASE UNCHANGED vars
  BY <1>21 DEF vars, AdminInv, ActiveAdmins, TypeOK
<1>22. QED
  BY <1>1, <1>2, <1>3, <1>4, <1>5, <1>6, <1>7, <1>8, <1>9, <1>10, <1>11, <1>12, <1>13, <1>14, <1>15, <1>16, <1>17, <1>18, <1>19, <1>20, <1>21
     DEF Next, RunJob, RevokeInvite, PruneInvite

\* Somebody active remains to administer the system, whatever the number of
\* administrators who leave one after the other: only a patch, or two deletions
\* that count the administrators at the same time, can end that (delete_account
\* in routes/data_rights.rs, patch_user in routes/admin.rs).
THEOREM SomebodyAdministers == Spec => []AdminsRunOutOnlyByPatchOrRace
<1>1. AccountInv /\ AdminInv /\ [Next]_vars => AdminInv'
  BY NextAdminInv
<1>2. AdminInv => AdminsRunOutOnlyByPatchOrRace
  BY DEF AdminInv, AdminsRunOutOnlyByPatchOrRace
<1>3. QED
  BY <1>1, <1>2, InitAdminInv, AccountInvHolds, PTL DEF Spec
=============================================================================
