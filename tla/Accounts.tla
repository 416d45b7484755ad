------------------------------ MODULE Accounts ------------------------------
(***************************************************************************)
(* Who has an account: invitations and their acceptance (routes/admin.rs,  *)
(* routes/auth.rs, services/invites.rs, repositories/invites.rs), changes  *)
(* of role and status by an administrator, the administrator made at       *)
(* start-up (main.rs), and the deletion of an account by its owner, which  *)
(* a background job carries out (routes/data_rights.rs, worker.rs).        *)
(*                                                                         *)
(* The rules span tables and requests: an invitation makes one account and *)
(* a revoked one none, somebody remains to administer the system, and an   *)
(* account whose owner asked for it is deleted.  Rows that refer to a user *)
(* without ON DELETE, the audit log's and the invitations', have a say in  *)
(* the last.                                                               *)
(***************************************************************************)
EXTENDS Integers, FiniteSets

CONSTANTS
  Admins,       \* the accounts at the beginning, administrators all
  Boot,         \* the account of config.admin_bootstrap_email
  Invites,      \* requests to invite; each names the row it inserts
  EmailOf,      \* the address an invitation is for
  RoleOf,       \* the role it grants
  Accepts,      \* requests to accept; each names the account it makes
  InviteOf,     \* the invitation an acceptance brings the token of
  Patches,      \* requests of an administrator to change an account
  Changes,      \* what they may ask for: an account, its new role and status
  Old,          \* bound: accounts whose entries in the audit log may grow old
  MaxAttempts,  \* worker.rs MAX_ATTEMPTS
  None,
  Budget        \* bound on requests cut short and restarts

Accounts == Admins \union Accepts \union {Boot}

ASSUME AccountsAssumption ==
  /\ IsFiniteSet(Accounts) /\ IsFiniteSet(Invites) /\ Admins # {}
  /\ Boot \notin Admins \union Accepts /\ Admins \intersect Accepts = {}
  /\ Invites \intersect Accounts = {} /\ None \notin Accounts \union Invites
  /\ RoleOf \in [Invites -> {"admin", "user"}]
  /\ InviteOf \in [Accepts -> Invites]
  /\ Changes \subseteq [user : Accounts, role : {None, "admin", "user"},
                         status : {None, "active", "disabled"}]
  /\ Old \subseteq Accounts
  /\ MaxAttempts \in Nat \ {0} /\ Budget \in Nat

VARIABLES
  state,     \* users.status of each account, if it has a row
  role,      \* users.role
  gone,      \* accounts made anonymous by delete_account
  invite,    \* invite_tokens.used_at, if the row is there
  expired,   \* invitations past expires_at
  creator,   \* invite_tokens.created_by, and who asks for the row before
  usedBy,    \* invite_tokens.used_by
  locked,    \* invitations whose row an open transaction holds FOR UPDATE
  audited,   \* accounts that audit_log.user_id refers to
  job,       \* the user_delete job of each account
  attempts,  \* its attempts
  pc,        \* requests to invite, to accept and to patch
  leaving,   \* where each account's delete_account is
  patch,     \* what a request to patch is about
  patched,   \* history: a patch took an active administrator away, or touched
             \*   an account made anonymous
  raced,     \* history: two deletions counted the administrators before either was effective
  spent

userVars   == <<state, role, gone>>
inviteVars == <<invite, expired, creator, usedBy, locked>>
jobVars    == <<job, attempts>>
requestVars == <<pc, leaving, patch>>
history    == <<patched, raced, spent>>
vars == <<userVars, inviteVars, audited, jobVars, requestVars, history>>

Requests == Invites \union Accepts \union Patches

NoPatch == [user |-> None, role |-> None, status |-> None]

TypeOK ==
  /\ state \in [Accounts -> {"none", "active", "disabled", "deleted"}]
  /\ role \in [Accounts -> {"admin", "user"}]
  /\ gone \in SUBSET Accounts
  /\ invite \in [Invites -> {"none", "pending", "used"}]
  /\ expired \in SUBSET Invites /\ locked \in SUBSET Invites
  /\ creator \in [Invites -> Accounts \union {None}]
  /\ usedBy \in [Invites -> Accounts \union {None}]
  /\ audited \in SUBSET Accounts
  /\ job \in [Accounts -> {"none", "queued", "removing", "failed", "done"}]
  /\ attempts \in [Accounts -> 0 .. MaxAttempts]
  /\ pc \in [Requests -> {"idle", "insert", "createUser", "log", "setRole", "setStatus", "ended"}]
  /\ leaving \in [Accounts -> {"no", "anonymise", "enqueue", "yes"}]
  /\ patch \in [Patches -> [user : Accounts \union {None}, role : {None, "admin", "user"},
                            status : {None, "active", "disabled"}]]
  /\ patched \in BOOLEAN /\ raced \in BOOLEAN
  /\ spent \in 0 .. Budget

Init ==
  /\ state = [u \in Accounts |-> IF u \in Admins THEN "active" ELSE "none"]
  /\ role = [u \in Accounts |-> IF u \in Accepts THEN RoleOf[InviteOf[u]] ELSE "admin"]
  /\ gone = {}
  /\ invite = [i \in Invites |-> "none"] /\ expired = {} /\ locked = {}
  /\ creator = [i \in Invites |-> None] /\ usedBy = [i \in Invites |-> None]
  /\ audited = Admins
  /\ job = [u \in Accounts |-> "none"] /\ attempts = [u \in Accounts |-> 0]
  /\ pc = [r \in Requests |-> "idle"]
  /\ leaving = [u \in Accounts |-> "no"]
  /\ patch = [q \in Patches |-> NoPatch]
  /\ patched = FALSE /\ raced = FALSE
  /\ spent = 0

-----------------------------------------------------------------------------
GoTo(r, l) == pc' = [pc EXCEPT ![r] = l]

Exists(u) == state[u] \in {"active", "disabled"}

ActiveAdmins == {u \in Accounts : state[u] = "active" /\ role[u] = "admin"}

EmailTaken(e) ==
  \E u \in Accepts : Exists(u) /\ u \notin gone /\ EmailOf[InviteOf[u]] = e

\* Foreign keys to users(id) without ON DELETE.
Referenced(u) ==
  \/ u \in audited
  \/ \E i \in Invites : invite[i] # "none" /\ u \in {creator[i], usedBy[i]}

-----------------------------------------------------------------------------
(* Invitations.                                                            *)

\* invites::create looks for a user of that address, then inserts.
CheckEmail(i, c) ==
  /\ pc[i] = "idle" /\ c \in ActiveAdmins
  /\ IF EmailTaken(EmailOf[i])
     THEN GoTo(i, "ended") /\ UNCHANGED creator
     ELSE GoTo(i, "insert") /\ creator' = [creator EXCEPT ![i] = c]
  /\ UNCHANGED <<userVars, invite, expired, usedBy, locked, audited, jobVars, leaving,
                 patch, history>>

\* UNIQUE (email) WHERE used_at IS NULL: invite_pending, expired or not.
InsertInvite(i) ==
  /\ pc[i] = "insert"
  /\ IF Exists(creator[i])
          /\ \A j \in Invites : EmailOf[j] = EmailOf[i] => invite[j] # "pending"
     THEN invite' = [invite EXCEPT ![i] = "pending"] /\ UNCHANGED creator
     ELSE creator' = [creator EXCEPT ![i] = None] /\ UNCHANGED invite
  /\ GoTo(i, "ended")
  /\ UNCHANGED <<userVars, expired, usedBy, locked, audited, jobVars, leaving,
                 patch, history>>

\* revoke_invite deletes the row, used or not, once no transaction holds it;
\* so does the daily cleanup, a week after it expired.
DeleteInvite(i) ==
  /\ invite[i] # "none" /\ i \notin locked
  /\ invite' = [invite EXCEPT ![i] = "none"]
  /\ creator' = [creator EXCEPT ![i] = None] /\ usedBy' = [usedBy EXCEPT ![i] = None]
  /\ expired' = expired \ {i}
  /\ UNCHANGED <<userVars, locked, audited, jobVars, requestVars, history>>

RevokeInvite(i) == ActiveAdmins # {} /\ DeleteInvite(i)

PruneInvite(i) == i \in expired /\ DeleteInvite(i)

ExpireInvite(i) ==
  /\ invite[i] = "pending" /\ i \notin expired
  /\ expired' = expired \union {i}
  /\ UNCHANGED <<userVars, invite, creator, usedBy, locked, audited, jobVars, requestVars,
                 history>>

\* Variant: the row is read without FOR UPDATE.
UseInviteUnlocked(a) ==
  LET i == InviteOf[a]
  IN /\ pc[a] = "idle"
     /\ IF invite[i] = "pending" /\ i \notin expired
        THEN GoTo(a, "createUser")
        ELSE GoTo(a, "ended")
     /\ UNCHANGED <<userVars, inviteVars, audited, jobVars, leaving, patch, history>>

\* use_invite: SELECT ... FOR UPDATE waits for whoever holds the row.
UseInvite(a) ==
  LET i == InviteOf[a]
  IN /\ pc[a] = "idle" /\ i \notin locked
     /\ IF invite[i] = "pending" /\ i \notin expired
        THEN locked' = locked \union {i} /\ GoTo(a, "createUser")
        ELSE GoTo(a, "ended") /\ UNCHANGED locked
     /\ UNCHANGED <<userVars, invite, expired, creator, usedBy, audited, jobVars, leaving,
                    patch, history>>

\* The password is hashed, the user inserted and used_by set; the commit shows
\* all three, an address already taken none.
CommitAccept(a) ==
  LET i == InviteOf[a]
  IN /\ pc[a] = "createUser"
     /\ locked' = locked \ {i}
     /\ IF EmailTaken(EmailOf[i])
        THEN GoTo(a, "ended") /\ UNCHANGED <<state, invite, usedBy>>
        ELSE /\ state' = [state EXCEPT ![a] = "active"]
             /\ invite' = [invite EXCEPT ![i] = IF @ = "none" THEN "none" ELSE "used"]
             /\ usedBy' = [usedBy EXCEPT ![i] = IF invite[i] = "none" THEN None ELSE a]
             /\ GoTo(a, "log")
     /\ UNCHANGED <<role, gone, expired, creator, audited, jobVars, leaving, patch, history>>

\* After the session is recorded, audit_log refers to the new user.
LogAccept(a) ==
  /\ pc[a] = "log"
  /\ audited' = IF Exists(a) THEN audited \union {a} ELSE audited
  /\ GoTo(a, "ended")
  /\ UNCHANGED <<userVars, inviteVars, jobVars, leaving, patch, history>>

-----------------------------------------------------------------------------
(* Logins and the audit log.                                               *)

Login(u) ==
  /\ state[u] = "active"
  /\ audited' = audited \union {u}
  /\ UNCHANGED <<userVars, inviteVars, jobVars, requestVars, history>>

\* The cleanup removes entries after 180 days.
PruneAudit(u) ==
  /\ u \in Old
  /\ audited' = audited \ {u}
  /\ UNCHANGED <<userVars, inviteVars, jobVars, requestVars, history>>

-----------------------------------------------------------------------------
(* patch_user: the target is looked up, then role and status are set by a  *)
(* statement each.                                                         *)

StartPatch(q, p) ==
  /\ pc[q] = "idle" /\ ActiveAdmins # {}
  /\ Exists(p.user)
  /\ patch' = [patch EXCEPT ![q] = p]
  /\ GoTo(q, "setRole")
  /\ UNCHANGED <<userVars, inviteVars, audited, jobVars, leaving, history>>

\* A patch takes an administrator's rights, or brings back an account whose
\* deletion is under way.
Reshapes(u) == patched' = (patched \/ ~(ActiveAdmins \subseteq ActiveAdmins') \/ u \in gone)

SetRole(q) ==
  LET p == patch[q]
  IN /\ pc[q] = "setRole"
     /\ role' = IF p.role # None /\ Exists(p.user) THEN [role EXCEPT ![p.user] = p.role] ELSE role
     /\ GoTo(q, "setStatus")
     /\ UNCHANGED <<state, gone, inviteVars, audited, jobVars, leaving, patch, raced, spent>>
     /\ Reshapes(p.user)

SetStatus(q) ==
  LET p == patch[q]
  IN /\ pc[q] = "setStatus"
     /\ state' = IF p.status # None /\ Exists(p.user)
                 THEN [state EXCEPT ![p.user] = p.status] ELSE state
     /\ GoTo(q, "ended")
     /\ patch' = [patch EXCEPT ![q] = NoPatch]
     /\ UNCHANGED <<role, gone, inviteVars, audited, jobVars, leaving, raced, spent>>
     /\ Reshapes(p.user)

-----------------------------------------------------------------------------
(* delete_account, and the job that does it.                               *)

\* Variant: every administrator counts, also one that is disabled.
LastAdminOfAny(u) ==
  role[u] = "admin" /\ Cardinality({v \in Accounts : Exists(v) /\ role[v] = "admin"}) <= 1

\* last_admin.
LastAdmin(u) == role[u] = "admin" /\ Cardinality(ActiveAdmins) <= 1

CheckLastAdmin(u) ==
  /\ leaving[u] = "no" /\ state[u] = "active"
  /\ ~LastAdmin(u)
  /\ leaving' = [leaving EXCEPT ![u] = "anonymise"]
  /\ raced' = (raced \/ \E v \in Accounts : leaving[v] = "anonymise")
  /\ UNCHANGED <<userVars, inviteVars, audited, jobVars, pc, patch, patched, spent>>

\* The sessions go, the address and the password are overwritten.
Anonymise(u) ==
  /\ leaving[u] = "anonymise"
  /\ state' = [state EXCEPT ![u] = "disabled"]
  /\ gone' = gone \union {u}
  /\ leaving' = [leaving EXCEPT ![u] = "enqueue"]
  /\ UNCHANGED <<role, inviteVars, audited, jobVars, pc, patch, history>>

EnqueueDelete(u) ==
  /\ leaving[u] = "enqueue"
  /\ job' = [job EXCEPT ![u] = "queued"]
  /\ leaving' = [leaving EXCEPT ![u] = "yes"]
  /\ UNCHANGED <<userVars, inviteVars, audited, attempts, pc, patch, history>>

\* An attempt ends in an error: the job is queued again, MaxAttempts times.
FailAttempt(u) ==
  /\ attempts' = [attempts EXCEPT ![u] = @ + 1]
  /\ job' = [job EXCEPT ![u] = IF attempts[u] + 1 < MaxAttempts THEN "queued" ELSE "failed"]

\* The check of delete_account once more; then the files are removed.
Recheck(u) ==
  /\ job[u] = "queued"
  /\ IF state[u] = "disabled" /\ role[u] = "admin" /\ ActiveAdmins = {}
     THEN FailAttempt(u)
     ELSE job' = [job EXCEPT ![u] = "removing"] /\ UNCHANGED attempts
  /\ UNCHANGED <<userVars, inviteVars, audited, requestVars, history>>

\* DELETE FROM users; the job's own row goes with it.
DeleteUser(u) ==
  /\ job[u] = "removing"
  /\ IF Referenced(u)
     THEN FailAttempt(u) /\ UNCHANGED state
     ELSE /\ state' = [state EXCEPT ![u] = "deleted"]
          /\ job' = [job EXCEPT ![u] = "done"]
          /\ UNCHANGED attempts
  /\ UNCHANGED <<role, gone, inviteVars, audited, requestVars, history>>

-----------------------------------------------------------------------------
(* Errors, clients that leave, restarts.                                   *)

\* A transaction that is open is rolled back.
CutShort(r) ==
  /\ pc[r] \notin {"idle", "ended"} /\ spent < Budget
  /\ GoTo(r, "ended")
  /\ locked' = IF pc[r] = "createUser" THEN locked \ {InviteOf[r]} ELSE locked
  /\ patch' = [q \in Patches |-> IF q = r THEN NoPatch ELSE patch[q]]
  /\ creator' = [i \in Invites |-> IF i = r THEN None ELSE creator[i]]
  /\ spent' = spent + 1
  /\ UNCHANGED <<userVars, invite, expired, usedBy, audited, jobVars, leaving,
                 patched, raced>>

\* Before the anonymisation nothing has happened; after it the account stays
\* as it is, with no job.
StopLeaving(u) ==
  /\ leaving[u] \in {"anonymise", "enqueue"} /\ spent < Budget
  /\ leaving' = [leaving EXCEPT ![u] = IF @ = "enqueue" THEN "yes" ELSE "no"]
  /\ spent' = spent + 1
  /\ UNCHANGED <<userVars, inviteVars, audited, jobVars, pc, patch, patched, raced>>

\* The process starts again.  An administrator is made if no row has the role
\* (once: what becomes of that account after it was deleted is left out).
Restart ==
  /\ spent < Budget /\ spent' = spent + 1
  /\ pc' = [r \in Requests |-> IF pc[r] = "idle" THEN "idle" ELSE "ended"]
  /\ locked' = {}
  /\ patch' = [q \in Patches |-> NoPatch]
  /\ leaving' = [u \in Accounts |-> CASE leaving[u] = "anonymise" -> "no"
                                      [] leaving[u] = "enqueue" -> "yes"
                                      [] OTHER -> leaving[u]]
  /\ job' = [u \in Accounts |-> IF job[u] = "removing" THEN "queued" ELSE job[u]]
  /\ IF state[Boot] = "none" /\ \A u \in Accounts : Exists(u) => role[u] # "admin"
     THEN /\ state' = [state EXCEPT ![Boot] = "active"]
          /\ audited' = audited \union {Boot}
     ELSE UNCHANGED <<state, audited>>
  /\ creator' = [i \in Invites |-> IF pc[i] = "insert" THEN None ELSE creator[i]]
  /\ UNCHANGED <<role, gone, invite, expired, usedBy, attempts, patched, raced>>

-----------------------------------------------------------------------------
RunJob(u) == Recheck(u) \/ DeleteUser(u)

Next ==
  \/ \E i \in Invites : \/ \E c \in Accounts : CheckEmail(i, c)
                        \/ InsertInvite(i) \/ RevokeInvite(i) \/ PruneInvite(i) \/ ExpireInvite(i)
  \/ \E a \in Accepts : UseInvite(a) \/ CommitAccept(a) \/ LogAccept(a)
  \/ \E q \in Patches : (\E p \in Changes : StartPatch(q, p)) \/ SetRole(q) \/ SetStatus(q)
  \/ \E u \in Accounts : \/ Login(u) \/ PruneAudit(u)
                         \/ CheckLastAdmin(u) \/ Anonymise(u) \/ EnqueueDelete(u)
                         \/ RunJob(u) \/ StopLeaving(u)
  \/ \E r \in Requests : CutShort(r)
  \/ Restart

Spec == Init /\ [][Next]_vars

-----------------------------------------------------------------------------
(* Properties.                                                             *)

\* However many requests bring its token at once, an invitation makes at most
\* one account.
OneAccountPerInvite ==
  \A a, b \in Accepts :
    InviteOf[a] = InviteOf[b] /\ state[a] # "none" /\ state[b] # "none" => a = b

\* Once an invitation is revoked no account is made from it: neither by a later
\* acceptance nor by one that had begun.
RevokedInviteMakesNoAccount ==
  [][\A a \in Accepts : invite[InviteOf[a]] = "none" /\ state[a] = "none" => state'[a] = "none"]_vars

\* Somebody active remains to administer the system, unless an administrator's
\* patch took another's rights or brought back one that was leaving, or two
\* deletions overlapped.
AdminsRunOutOnlyByPatchOrRace == ActiveAdmins = {} => patched \/ raced

\* docs/07-data-lifecycle.md:50-51: the audit log's entries let go of the user
\* (null the user_id, keep the row), and the deletion is consistent within an
\* hour; only for the last administrator is it refused.
DeletionFailsOnlyForLastAdmin ==
  \A u \in Accounts : job[u] = "failed" => role[u] = "admin" /\ ActiveAdmins = {}
=============================================================================
