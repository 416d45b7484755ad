------------------------------ MODULE Sessions ------------------------------
(***************************************************************************)
(* The sessions of one account: login with its attempt window, logout, the *)
(* reset of a password by a single-use token, "log out everywhere", an     *)
(* administrator's disabling of the account, and its deletion by its owner *)
(* (routes/auth.rs, auth/, repositories/invites.rs for the tokens,         *)
(* routes/admin.rs, routes/data_rights.rs).                                *)
(*                                                                         *)
(* A session lives in two tables written one after the other: the session  *)
(* store, which requests are authenticated by and which the session layer  *)
(* writes when a response is made, and session_index, which "log out       *)
(* everywhere" finds the sessions by.  A password is read by a login long  *)
(* before its session is in either, and a handler that changes its session *)
(* has it stored again whatever happened to it meanwhile.                  *)
(*                                                                         *)
(* Logins name the e-mail address the account has at first.  The row of a  *)
(* deleted account stays (Accounts), and may be enabled again.             *)
(***************************************************************************)
EXTENDS Integers, FiniteSets, Sequences

CONSTANTS
  Logins,       \* requests to log in; each names the session it opens
  Resets,       \* requests that redeem a reset token; each opens a session too
  Revocations,  \* requests to log out everywhere
  Visits,       \* requests for the caller's own data, which may change its session
  Departures,   \* requests to delete the account
  Tokens,
  TokenOf,      \* the token a reset redeems
  MaxFailures,  \* failures in the window that close the account to logins
  Budget        \* bound on requests cut short by an error or a lost client

ASSUME SessionsAssumption ==
  /\ IsFiniteSet(Logins) /\ IsFiniteSet(Resets) /\ IsFiniteSet(Revocations) /\ IsFiniteSet(Tokens)
  /\ IsFiniteSet(Visits) /\ IsFiniteSet(Departures)
  /\ Logins \intersect Resets = {}
  /\ Revocations \intersect (Logins \union Resets) = {}
  /\ Visits \intersect (Logins \union Resets \union Revocations) = {}
  /\ Departures \intersect (Logins \union Resets \union Revocations \union Visits) = {}
  /\ TokenOf \in [Resets -> Tokens]
  /\ MaxFailures \in Nat \ {0} /\ Budget \in Nat

Openers  == Logins \union Resets
Revokers == Resets \union Revocations
Askers   == Revocations \union Visits
Requests == Openers \union Askers \union Departures

VARIABLES
  password,  \* users.password_hash, as the number of its changes
  status,    \* users.status
  emptied,   \* the change that emptied the password and the e-mail address, or 0
  window,    \* login_attempts: the failures of the last 15 minutes, oldest first
  token,     \* password_resets, per token
  locked,    \* tokens whose row an open transaction holds FOR UPDATE
  live,      \* the session store
  indexed,   \* session_index
  csrf,      \* sessions stored with a CSRF token
  pc,
  seen,      \* the password hash a request read, or set
  found,     \* the sessions a revocation read from session_index
  caller,    \* the session from which a revocation, or a visit, was asked for
  changes,   \* history: how often each token changed the password
  widest,    \* history: most logins at once between the window and its outcome
  late,      \* history: sessions whose login or reset was under way while the index was read
  missed,    \* history: sessions taken from the index and left, or put back
  unrevoked, \* history: sessions left by a request cut short before it revoked
  departed,  \* history: sessions stored, or under way, when the account was deleted
  spent

accountVars == <<password, status, emptied>>
tokenVars   == <<token, locked, changes>>
tableVars   == <<live, indexed, csrf>>
requestVars == <<seen, found, caller>>
history     == <<late, missed, unrevoked, departed>>
vars == <<accountVars, window, tokenVars, tableVars, pc, requestVars, widest, history,
          spent>>

Guessing  == {"lookup", "verify", "verifyDisabled", "verifyUnknown"}
Opening   == {"record", "respond"}
Revoking  == {"select", "delete", "forget"}
Departing == {"disown", "disable"}

TypeOK ==
  /\ password \in Nat /\ emptied \in Nat
  /\ status \in {"active", "disabled"}
  /\ window \in Seq({"guess", "refused"})
  /\ token \in [Tokens -> {"none", "issued", "used", "expired"}]
  /\ locked \in SUBSET Tokens
  /\ live \in SUBSET Openers /\ indexed \in SUBSET Openers
  /\ csrf \in SUBSET Openers
  /\ pc \in [Requests -> {"idle", "clear", "redeem", "rotate", "save", "ended"}
                           \union Guessing \union Opening \union Revoking \union Departing]
  /\ seen \in [Requests -> Nat]
  /\ found \in [Revokers -> SUBSET Openers]
  /\ caller \in [Askers -> SUBSET Openers]
  /\ changes \in [Tokens -> Nat]
  /\ widest \in 0 .. Cardinality(Logins)
  /\ late \in SUBSET Openers /\ missed \in SUBSET Openers
  /\ unrevoked \in SUBSET Openers /\ departed \in SUBSET Openers
  /\ spent \in 0 .. Budget

Init ==
  /\ password = 0 /\ status = "active" /\ emptied = 0
  /\ window = <<>>
  /\ token = [t \in Tokens |-> "none"] /\ locked = {}
  /\ live = {} /\ indexed = {} /\ csrf = {}
  /\ pc = [r \in Requests |-> "idle"]
  /\ seen = [r \in Requests |-> 0]
  /\ found = [r \in Revokers |-> {}]
  /\ caller = [r \in Askers |-> {}]
  /\ changes = [t \in Tokens |-> 0] /\ widest = 0
  /\ late = {} /\ missed = {} /\ unrevoked = {} /\ departed = {}
  /\ spent = 0

-----------------------------------------------------------------------------
At(S) == {r \in Requests : pc[r] \in S}

GoTo(r, l) == pc' = [pc EXCEPT ![r] = l]

Spend == spent < Budget /\ spent' = spent + 1

\* Past the reading, or the setting, of the password, and not stored yet.
Entering ==
  {o \in Openers : pc[o] \in {"verify", "clear"} \union Opening}
    \union {r \in Resets : pc[r] \in Revoking}

Fail(kind) == window' = Append(window, kind)

\* delete_account took the address logins name, and left no password.
Renamed == emptied # 0
NoPassword == Renamed /\ emptied = password

\* A request comes with a stored session of the account (UserCtx).
AskedFrom(r, s) ==
  /\ status = "active"
  /\ s \in live /\ pc[s] = "ended"
  /\ caller' = [caller EXCEPT ![r] = {s}]

\* Opened under a password that has been changed since.
Outdated == {r \in live : seen[r] # password}

-----------------------------------------------------------------------------
(* login.                                                                  *)

\* Variant: one failure more is tolerated.
TooManyPlusOne == Len(window) > MaxFailures

\* count_recent_failures.
TooMany == Len(window) >= MaxFailures

\* The attempt that is refused is recorded too.
CheckWindow(r) ==
  /\ pc[r] = "idle"
  /\ IF TooMany
     THEN Fail("refused") /\ GoTo(r, "ended") /\ UNCHANGED widest
     ELSE /\ GoTo(r, "lookup")
          /\ widest' = LET n == Cardinality(At(Guessing)) + 1
                       IN IF n > widest THEN n ELSE widest
          /\ UNCHANGED window
  /\ UNCHANGED <<accountVars, tokenVars, tableVars, seen, caller, found, history, spent>>

\* After the progressive delay the user's row is looked for by the address, and
\* its hash and status are read.
Lookup(r) ==
  /\ pc[r] = "lookup"
  /\ seen' = [seen EXCEPT ![r] = password]
  /\ GoTo(r, IF Renamed THEN "verifyUnknown"
             ELSE IF status = "active" THEN "verify" ELSE "verifyDisabled")
  /\ UNCHANGED <<accountVars, window, tokenVars, tableVars, found, caller, widest, history, spent>>

\* A wrong password, or an address nobody has, is recorded; a right one opens an
\* account that was active.
Verify(r) ==
  /\ pc[r] \in {"verify", "verifyDisabled", "verifyUnknown"}
  /\ \/ Fail("guess") /\ GoTo(r, "ended")
     \/ /\ pc[r] # "verifyUnknown"
        /\ GoTo(r, IF pc[r] = "verify" THEN "clear" ELSE "ended")
        /\ UNCHANGED window
  /\ UNCHANGED <<accountVars, tokenVars, tableVars, requestVars, widest, history, spent>>

ClearFailures(r) ==
  /\ pc[r] = "clear"
  /\ window' = <<>>
  /\ GoTo(r, "record")
  /\ UNCHANGED <<accountVars, tokenVars, tableVars, requestVars, widest, history, spent>>

\* Variant: the index is not written.
RecordNothing(r) ==
  /\ pc[r] = "record"
  /\ GoTo(r, "respond")
  /\ UNCHANGED <<accountVars, window, tokenVars, tableVars, requestVars, widest, history, spent>>

\* record_session, at the end of a login and of a reset: the session has its
\* new identifier and its user, but is not stored yet.
Record(r) ==
  /\ pc[r] = "record"
  /\ indexed' = indexed \union {r}
  /\ GoTo(r, "respond")
  /\ UNCHANGED <<accountVars, window, tokenVars, live, csrf, requestVars, widest, history, spent>>

\* The session layer stores a session its handler changed, with the response.
\* Only a login gives its session a CSRF token.
Respond(r) ==
  /\ pc[r] = "respond"
  /\ live' = live \union {r}
  /\ csrf' = IF r \in Logins THEN csrf \union {r} ELSE csrf
  /\ GoTo(r, "ended")
  /\ UNCHANGED <<accountVars, window, tokenVars, indexed, requestVars, widest, history, spent>>

-----------------------------------------------------------------------------
(* reset_password, and the revocation it shares with "log out everywhere". *)

\* forgot_password for an active account, or an administrator's reset link.
Issue(t) ==
  /\ token[t] = "none"
  /\ token' = [token EXCEPT ![t] = "issued"]
  /\ UNCHANGED <<accountVars, window, locked, changes, tableVars, pc, seen, found,
                 caller, widest, history, spent>>

ExpireToken(t) ==
  /\ token[t] = "issued" /\ t \notin locked
  /\ token' = [token EXCEPT ![t] = "expired"]
  /\ UNCHANGED <<accountVars, window, locked, changes, tableVars, pc, seen, found,
                 caller, widest, history, spent>>

\* Variant: the row is read without FOR UPDATE.
UseTokenUnlocked(r) ==
  LET t == TokenOf[r]
  IN /\ pc[r] = "idle"
     /\ IF token[t] = "issued"
        THEN locked' = locked \union {t} /\ GoTo(r, "redeem")
        ELSE GoTo(r, "ended") /\ UNCHANGED locked
     /\ UNCHANGED <<accountVars, window, token, changes, tableVars, seen, found,
                    caller, widest, history, spent>>

\* use_reset_token: SELECT ... FOR UPDATE waits for a transaction that holds
\* the row, and then sees what it committed.
UseToken(r) ==
  LET t == TokenOf[r]
  IN /\ pc[r] = "idle"
     /\ t \notin locked
     /\ IF token[t] = "issued"
        THEN locked' = locked \union {t} /\ GoTo(r, "redeem")
        ELSE GoTo(r, "ended") /\ UNCHANGED locked
     /\ UNCHANGED <<accountVars, window, token, changes, tableVars, seen, found,
                    caller, widest, history, spent>>

\* used_at and the new hash become visible together.
CommitReset(r) ==
  LET t == TokenOf[r]
  IN /\ pc[r] = "redeem"
     /\ token' = [token EXCEPT ![t] = "used"]
     /\ locked' = locked \ {t}
     /\ changes' = [changes EXCEPT ![t] = @ + 1]
     /\ password' = password + 1
     /\ seen' = [seen EXCEPT ![r] = password + 1]
     /\ GoTo(r, "select")
     /\ UNCHANGED <<status, emptied, window, tableVars, found, caller, widest, history, spent>>

\* Asked for from one of the sessions.
StartRevocation(r) ==
  /\ pc[r] = "idle"
  /\ \E s \in Openers : AskedFrom(r, s)
  /\ GoTo(r, "select")
  /\ UNCHANGED <<accountVars, window, tokenVars, tableVars, seen, found, widest, history, spent>>

\* revoke_all_sessions: three statements.
SelectIndexed(r) ==
  /\ pc[r] = "select"
  /\ found' = [found EXCEPT ![r] = indexed]
  /\ late' = IF r \in Resets THEN late \union (Entering \ {r}) ELSE late
  /\ GoTo(r, "delete")
  /\ UNCHANGED <<accountVars, window, tokenVars, tableVars, seen, caller, widest, missed,
                 unrevoked, departed, spent>>

\* Variant: only the index is cleared.
DeleteNone(r) ==
  /\ pc[r] = "delete"
  /\ GoTo(r, "forget")
  /\ UNCHANGED <<accountVars, window, tokenVars, tableVars, requestVars, widest, history, spent>>

DeleteFound(r) ==
  /\ pc[r] = "delete"
  /\ live' = live \ found[r]
  /\ missed' = missed \union {o \in found[r] : pc[o] = "respond"}
  /\ GoTo(r, "forget")
  /\ UNCHANGED <<accountVars, window, tokenVars, indexed, csrf, requestVars, widest, late,
                 unrevoked, departed, spent>>

ForgetIndexed(r) ==
  /\ pc[r] = "forget"
  /\ indexed' = {}
  /\ missed' = missed \union (indexed \ found[r])
  /\ found' = [found EXCEPT ![r] = {}]
  /\ GoTo(r, IF r \in Resets THEN "record" ELSE "rotate")
  /\ UNCHANGED <<accountVars, window, tokenVars, live, csrf, seen, caller, widest, late,
                 unrevoked, departed, spent>>

\* "Rotate CSRF token after revoking all sessions": the caller's session is
\* changed, and so stored again with the response, but not indexed again.
Rotate(r) ==
  /\ pc[r] = "rotate"
  /\ live' = live \union caller[r]
  /\ csrf' = csrf \union caller[r]
  /\ missed' = missed \union caller[r]
  /\ caller' = [caller EXCEPT ![r] = {}]
  /\ GoTo(r, "ended")
  /\ UNCHANGED <<accountVars, window, tokenVars, indexed, seen, found, widest, late,
                 unrevoked, departed, spent>>

-----------------------------------------------------------------------------
(* me, and delete_account.                                                 *)

\* me gives a session that has none a CSRF token.
StartVisit(r) ==
  /\ pc[r] = "idle"
  /\ \E s \in Openers \ csrf : AskedFrom(r, s)
  /\ GoTo(r, "save")
  /\ UNCHANGED <<accountVars, window, tokenVars, tableVars, seen, found, widest, history, spent>>

\* The changed session is stored with the response, also when it was deleted
\* from the store meanwhile.
SaveVisit(r) ==
  /\ pc[r] = "save"
  /\ live' = live \union caller[r]
  /\ csrf' = csrf \union caller[r]
  /\ missed' = missed \union (caller[r] \ live)
  /\ caller' = [caller EXCEPT ![r] = {}]
  /\ GoTo(r, "ended")
  /\ UNCHANGED <<accountVars, window, tokenVars, indexed, seen, found, widest, late,
                 unrevoked, departed, spent>>

\* A wrong password, or the last administrator, is refused.
StartDeparture(r) ==
  /\ pc[r] = "idle" /\ status = "active"
  /\ \E s \in live : pc[s] = "ended"
  /\ \/ ~NoPassword /\ GoTo(r, "disown")
     \/ GoTo(r, "ended")
  /\ UNCHANGED <<accountVars, window, tokenVars, tableVars, requestVars, widest, history, spent>>

\* The rows of session_index go, and the sessions themselves stay in the store.
Disown(r) ==
  /\ pc[r] = "disown"
  /\ indexed' = {}
  /\ missed' = missed \union indexed
  /\ GoTo(r, "disable")
  /\ UNCHANGED <<accountVars, window, tokenVars, live, csrf, requestVars, widest, late,
                 unrevoked, departed, spent>>

\* UPDATE users SET status='disabled', email, password_hash=''.
Disable(r) ==
  /\ pc[r] = "disable"
  /\ password' = password + 1 /\ emptied' = password + 1
  /\ status' = "disabled"
  /\ departed' = departed \union live \union Entering
  /\ GoTo(r, "ended")
  /\ UNCHANGED <<window, tokenVars, tableVars, requestVars, widest, late, missed,
                 unrevoked, spent>>

-----------------------------------------------------------------------------
(* What else happens to an account and its sessions.                       *)

\* remove_session, then the session's deletion, which an error may prevent.
Logout(s) ==
  /\ s \in live /\ pc[s] = "ended" /\ status = "active"
  /\ indexed' = indexed \ {s}
  /\ \/ live' = live \ {s} /\ UNCHANGED <<unrevoked, spent>>
     \/ Spend /\ unrevoked' = unrevoked \union {s} /\ UNCHANGED live
  /\ UNCHANGED <<accountVars, window, tokenVars, csrf, pc, requestVars, widest, late, missed,
                 departed>>

\* patch_user leaves the sessions alone.
SetStatus ==
  /\ status' = IF status = "active" THEN "disabled" ELSE "active"
  /\ UNCHANGED <<password, emptied, window, tokenVars, tableVars, pc, requestVars, widest, history, spent>>

\* The oldest failure is 15 minutes old.
AgeOut ==
  /\ window # <<>>
  /\ window' = Tail(window)
  /\ UNCHANGED <<accountVars, tokenVars, tableVars, pc, requestVars, widest, history, spent>>

\* An error, or the client leaves: an open transaction is rolled back, and
\* the statements that were to follow are never run.
CutShort(r) ==
  /\ pc[r] \notin {"idle", "ended"}
  /\ Spend
  /\ locked' = IF pc[r] = "redeem" THEN locked \ {TokenOf[r]} ELSE locked
  /\ unrevoked' = IF pc[r] \in {"select", "delete"} /\ r \in Resets
                  THEN unrevoked \union live \union Entering ELSE unrevoked
  /\ GoTo(r, "ended")
  /\ found' = [v \in Revokers |-> IF v = r THEN {} ELSE found[v]]
  /\ caller' = [v \in Askers |-> IF v = r THEN {} ELSE caller[v]]
  /\ UNCHANGED <<accountVars, window, token, changes, tableVars, seen, widest, late, missed,
                 departed>>

-----------------------------------------------------------------------------
Proceed(r) ==
  \/ r \in Logins /\ (CheckWindow(r) \/ Lookup(r) \/ Verify(r) \/ ClearFailures(r))
  \/ r \in Openers /\ (Record(r) \/ Respond(r))
  \/ r \in Resets /\ (UseToken(r) \/ CommitReset(r))
  \/ r \in Revocations /\ (StartRevocation(r) \/ Rotate(r))
  \/ r \in Visits /\ (StartVisit(r) \/ SaveVisit(r))
  \/ r \in Departures /\ (StartDeparture(r) \/ Disown(r) \/ Disable(r))
  \/ r \in Revokers /\ (SelectIndexed(r) \/ DeleteFound(r) \/ ForgetIndexed(r))

Next ==
  \/ \E r \in Requests : Proceed(r) \/ CutShort(r)
  \/ \E t \in Tokens : Issue(t) \/ ExpireToken(t)
  \/ \E s \in Openers : Logout(s)
  \/ SetStatus
  \/ AgeOut

Spec == Init /\ [][Next]_vars

-----------------------------------------------------------------------------
(* Properties.                                                             *)

\* However many requests redeem it at once, a token changes the password once,
\* and never after it expired (docs/08-security.md: single-use).
TokenIsSingleUse ==
  \A t \in Tokens : changes[t] <= 1 /\ (token[t] = "expired" => changes[t] = 0)

\* Wrong passwords of one window are at most what the limit lets one login try,
\* plus one for each other login that was past the count when it was read.
GuessesAreBounded ==
  Cardinality({i \in DOMAIN window : window[i] = "guess"}) <= MaxFailures - 1 + widest

\* A session opened under an earlier password is about to be revoked by a reset.
\* Or its login or reset overlapped the revocation; its row had been taken from
\* the index by another revocation or by delete_account; its own request put it
\* back (me, revoke_all_sessions); the reset was cut short before it; or it was
\* delete_account that changed the password, which revokes no stored session.
OutdatedSessionOverlappedReset ==
  Outdated # {} =>
    \/ At({"select", "delete"}) \intersect Resets # {}
    \/ Outdated \subseteq late \union missed \union unrevoked \union departed

\* "Log out everywhere" reaches every session it should.  One that is not in the
\* index lost its row to delete_account, or to a revocation that had not read the
\* row or came before the session was stored; was stored again by a request it
\* asked for (me, revoke_all_sessions); or its logout failed.
LiveSessionIsIndexed == live \ indexed \subseteq missed \union unrevoked
=============================================================================
