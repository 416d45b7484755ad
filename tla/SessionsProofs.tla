--------------------------- MODULE SessionsProofs ---------------------------
(***************************************************************************)
(* Theorems about Sessions, for any number of logins, resets, revocations  *)
(* and tokens, and any limit on the failures.                              *)
(***************************************************************************)
EXTENDS Sessions, FiniteSetTheorems, TLAPS

USE DEF accountVars, tokenVars, tableVars, requestVars, history

\* Each request is at a statement of its own handler.
Kinds ==
  \A r \in Requests :
    /\ pc[r] \in Guessing \union {"clear"} => r \in Logins
    /\ pc[r] = "redeem" => r \in Resets
    /\ pc[r] \in Opening => r \in Openers
    /\ pc[r] \in Revoking => r \in Revokers
    /\ pc[r] = "rotate" => r \in Revocations
    /\ pc[r] = "save" => r \in Visits
    /\ pc[r] \in Departing => r \in Departures

(***************************************************************************)
(* A token that is being redeemed is held by one request and still good;   *)
(* a used one has changed the password once.                               *)
(***************************************************************************)
TokenInv ==
  /\ \A r \in Resets : pc[r] = "redeem" => TokenOf[r] \in locked /\ token[TokenOf[r]] = "issued"
  /\ \A r, s \in Resets :
       pc[r] = "redeem" /\ pc[s] = "redeem" /\ TokenOf[r] = TokenOf[s] => r = s
  /\ \A t \in Tokens : changes[t] = IF token[t] = "used" THEN 1 ELSE 0

(***************************************************************************)
(* Where the sessions are: in the store only when their request has ended, *)
(* in the index from its last statement on, and outside the index only for *)
(* one of the reasons that the history variables record.                   *)
(***************************************************************************)
IndexInv ==
  /\ \A o \in live : pc[o] = "ended"
  /\ \A o \in indexed : pc[o] \in {"respond", "ended"}
  /\ \A v \in Revokers : \A o \in found[v] : pc[o] \in {"respond", "ended"}
  /\ \A v \in Askers : \A o \in caller[v] : pc[o] = "ended"
  /\ \A o \in Openers : pc[o] = "respond" => o \in indexed \union missed
  /\ \A v \in Revokers : pc[v] = "forget" =>
       \A o \in found[v] : o \in missed \/ (o \notin live /\ pc[o] = "ended")
  /\ LiveSessionIsIndexed

SessionInv == TypeOK /\ Kinds /\ TokenInv /\ IndexInv

-----------------------------------------------------------------------------
LEMMA FiniteRequests ==
  /\ IsFiniteSet(Requests) /\ IsFiniteSet(Openers)
  /\ \A S : At(S) \subseteq Requests /\ IsFiniteSet(At(S)) /\ Cardinality(At(S)) \in Nat
<1>1. IsFiniteSet(Openers) /\ IsFiniteSet(Requests)
  <2>1. IsFiniteSet(Openers)
    BY SessionsAssumption, FS_Union DEF Openers
  <2>2. IsFiniteSet(Askers)
    BY SessionsAssumption, FS_Union DEF Askers
  <2>3. IsFiniteSet(Openers \union Askers)
    BY <2>1, <2>2, FS_Union
  <2>4. QED
    BY <2>1, <2>3, SessionsAssumption, FS_Union DEF Requests
<1>2. \A S : At(S) \subseteq Requests
  BY DEF At
<1>3. QED
  BY <1>1, <1>2, FS_Subset, FS_CardinalityType

\* A login that passes the count is one of at most all the logins.
LEMMA GuessersAreLogins ==
  ASSUME Kinds, NEW r \in Logins
  PROVE  Cardinality(At(Guessing)) \in Nat /\ Cardinality(At(Guessing) \union {r}) <= Cardinality(Logins)
         /\ Cardinality(Logins) \in Nat
<1>1. At(Guessing) \union {r} \subseteq Logins
  BY DEF At, Kinds
<1>2. QED
  BY <1>1, SessionsAssumption, FiniteRequests, FS_Subset, FS_CardinalityType

\* A request moves to one statement, and no other request does.
Statements == {"idle", "clear", "redeem", "rotate", "save", "ended"}
                \union Guessing \union Opening \union Revoking \union Departing

LEMMA Moves ==
  ASSUME TypeOK, NEW r \in Requests, NEW l \in Statements, GoTo(r, l)
  PROVE  /\ pc' \in [Requests -> Statements]
         /\ pc'[r] = l /\ \A q \in Requests \ {r} : pc'[q] = pc[q]
BY DEF TypeOK, GoTo, Statements

LEMMA FailIsTyped ==
  ASSUME TypeOK, NEW kind \in {"guess", "refused"}, Fail(kind)
  PROVE  window' \in Seq({"guess", "refused"})
BY DEF TypeOK, Fail

LEMMA InitSessionInv == Init => SessionInv
<1> SUFFICES ASSUME Init PROVE SessionInv
  OBVIOUS
<1>1. Cardinality(Logins) \in Nat
  BY SessionsAssumption, FS_CardinalityType
<1>2. TypeOK
  <2>1. password \in Nat /\ widest \in 0 .. Cardinality(Logins) /\ spent \in 0 .. Budget
    BY <1>1, SessionsAssumption DEF Init
  <2>2. seen \in [Requests -> Nat]
    BY DEF Init
  <2>3. window \in Seq({"guess", "refused"})
    BY DEF Init
  <2>4. QED
    BY <2>1, <2>2, <2>3 DEF Init, TypeOK
<1>3. Kinds
  BY DEF Init, Kinds, Guessing, Opening, Revoking, Departing
<1>4. TokenInv
  BY SessionsAssumption DEF Init, TokenInv, Requests, Openers
<1>5. IndexInv
  BY DEF Init, IndexInv, LiveSessionIsIndexed, Requests, Revokers, Openers, Askers
<1>6. QED
  BY <1>2, <1>3, <1>4, <1>5 DEF SessionInv

\* Every step leaves every variable in its type.
LEMMA NextTypeOK == SessionInv /\ [Next]_vars => TypeOK'
<1> SUFFICES ASSUME SessionInv, [Next]_vars PROVE TypeOK'
  OBVIOUS
<1> USE SessionsAssumption DEF SessionInv, Requests, Openers, Revokers, Askers, Guessing,
   Opening, Revoking, Departing
<1>1. ASSUME NEW r \in Logins, CheckWindow(r) PROVE TypeOK'
  <2>1. CASE TooMany
    <3>1. GoTo(r, "ended") /\ Fail("refused") /\ UNCHANGED widest
      BY <1>1, <2>1 DEF CheckWindow
    <3>2. window' \in Seq({"guess", "refused"}) /\ pc' \in [Requests -> Statements]
      BY <3>1, FailIsTyped, Moves DEF Statements
    <3>3. QED
      BY <1>1, <3>1, <3>2 DEF CheckWindow, TypeOK, Statements
  <2>2. CASE ~TooMany
    <3>0. r \notin At(Guessing)
      BY <1>1 DEF CheckWindow, At
    <3>1. Cardinality(At(Guessing) \union {r}) = Cardinality(At(Guessing)) + 1
      BY <3>0, FiniteRequests, FS_AddElement
    <3>2. widest' \in 0 .. Cardinality(Logins)
      BY <1>1, <2>2, <3>1, GuessersAreLogins DEF CheckWindow, TypeOK
    <3>3. GoTo(r, "lookup") /\ UNCHANGED window
      BY <1>1, <2>2 DEF CheckWindow
    <3>4. pc' \in [Requests -> Statements] /\ window' \in Seq({"guess", "refused"})
      BY <3>3, Moves DEF Statements, TypeOK
    <3>5. QED
      BY <1>1, <3>2, <3>4 DEF CheckWindow, TypeOK, Statements
  <2>3. QED
    BY <2>1, <2>2
<1>2. ASSUME NEW r \in Logins, Lookup(r) PROVE TypeOK'
  BY <1>2 DEF Lookup, GoTo, TypeOK
<1>3. ASSUME NEW r \in Logins, Verify(r) PROVE TypeOK'
  <2>1. PICK l \in {"clear", "ended"} : GoTo(r, l)
    BY <1>3 DEF Verify
  <2>2. window' \in Seq({"guess", "refused"})
    <3>1. CASE Fail("guess")
      BY <3>1, FailIsTyped
    <3>2. CASE UNCHANGED window
      BY <3>2 DEF TypeOK
    <3>3. QED
      BY <1>3, <3>1, <3>2 DEF Verify
  <2>3. pc' \in [Requests -> Statements]
    BY <2>1, Moves DEF Statements
  <2>4. QED
    BY <1>3, <2>2, <2>3 DEF Verify, TypeOK, Statements
<1>4. ASSUME NEW r \in Logins, ClearFailures(r) PROVE TypeOK'
  BY <1>4 DEF ClearFailures, GoTo, TypeOK
<1>5. ASSUME NEW r \in Openers, Record(r) PROVE TypeOK'
  BY <1>5 DEF Record, GoTo, TypeOK
<1>6. ASSUME NEW r \in Openers, Respond(r) PROVE TypeOK'
  BY <1>6 DEF Respond, GoTo, TypeOK
<1>7. ASSUME NEW r \in Resets, UseToken(r) PROVE TypeOK'
  <2>1. PICK l \in {"redeem", "ended"} : GoTo(r, l)
    BY <1>7 DEF UseToken
  <2>2. pc' \in [Requests -> Statements]
    BY <2>1, Moves DEF Statements
  <2>3. TokenOf[r] \in Tokens
    OBVIOUS
  <2>4. locked' \in SUBSET Tokens
    BY <1>7, <2>3 DEF UseToken, TypeOK
  <2>5. QED
    BY <1>7, <2>2, <2>4 DEF UseToken, TypeOK, Statements
<1>8. ASSUME NEW r \in Resets, CommitReset(r) PROVE TypeOK'
  <2> DEFINE t == TokenOf[r]
  <2>1. t \in Tokens /\ token[t] = "issued"
    BY <1>8 DEF CommitReset, TokenInv
  <2>2. token' = [token EXCEPT ![t] = "used"]
    BY <1>8 DEF CommitReset
  <2>3. QED
    BY <1>8, <2>1, <2>2 DEF CommitReset, GoTo, TypeOK
<1>9. ASSUME NEW r \in Revocations, StartRevocation(r) PROVE TypeOK'
  BY <1>9 DEF StartRevocation, AskedFrom, GoTo, TypeOK
<1>10. ASSUME NEW r \in Revocations, Rotate(r) PROVE TypeOK'
  BY <1>10 DEF Rotate, GoTo, TypeOK
<1>11. ASSUME NEW r \in Revokers, SelectIndexed(r) PROVE TypeOK'
  <2>1. late' \in SUBSET Openers /\ found' \in [Revokers -> SUBSET Openers]
    BY <1>11 DEF SelectIndexed, TypeOK, Entering
  <2>2. pc' \in [Requests -> Statements]
    BY <1>11, Moves DEF SelectIndexed, Statements
  <2>3. QED
    BY <1>11, <2>1, <2>2 DEF SelectIndexed, TypeOK, Statements
<1>12. ASSUME NEW r \in Revokers, DeleteFound(r) PROVE TypeOK'
  BY <1>12 DEF DeleteFound, GoTo, TypeOK
<1>13. ASSUME NEW r \in Revokers, ForgetIndexed(r) PROVE TypeOK'
  BY <1>13 DEF ForgetIndexed, GoTo, TypeOK
<1>14. ASSUME NEW r \in Requests, CutShort(r) PROVE TypeOK'
  <2>1. unrevoked' \in SUBSET Openers /\ locked' \in SUBSET Tokens /\ spent' \in 0 .. Budget
    BY <1>14 DEF CutShort, Spend, TypeOK, Entering
  <2>2. pc' \in [Requests -> Statements]
    BY <1>14, Moves DEF CutShort, Statements
  <2>3. /\ found' \in [Revokers -> SUBSET Openers]
        /\ caller' \in [Askers -> SUBSET Openers]
    BY <1>14 DEF CutShort, TypeOK
  <2>4. QED
    BY <1>14, <2>1, <2>2, <2>3 DEF CutShort, TypeOK, Statements
<1>15. ASSUME NEW t \in Tokens, Issue(t) PROVE TypeOK'
  BY <1>15 DEF Issue, TypeOK
<1>16. ASSUME NEW t \in Tokens, ExpireToken(t) PROVE TypeOK'
  BY <1>16 DEF ExpireToken, TypeOK
<1>17. ASSUME NEW s \in Openers, Logout(s) PROVE TypeOK'
  BY <1>17 DEF Logout, Spend, TypeOK
<1>18. CASE SetStatus
  BY <1>18 DEF SetStatus, TypeOK
<1>19. CASE AgeOut
  BY <1>19 DEF AgeOut, TypeOK
<1>20. ASSUME NEW r \in Visits, StartVisit(r) PROVE TypeOK'
  BY <1>20 DEF StartVisit, AskedFrom, GoTo, TypeOK
<1>21. ASSUME NEW r \in Visits, SaveVisit(r) PROVE TypeOK'
  BY <1>21 DEF SaveVisit, GoTo, TypeOK
<1>22. ASSUME NEW r \in Departures, StartDeparture(r) PROVE TypeOK'
  BY <1>22 DEF StartDeparture, GoTo, TypeOK
<1>23. ASSUME NEW r \in Departures, Disown(r) PROVE TypeOK'
  BY <1>23 DEF Disown, GoTo, TypeOK
<1>24. ASSUME NEW r \in Departures, Disable(r) PROVE TypeOK'
  BY <1>24 DEF Disable, Entering, GoTo, TypeOK
<1>25. CASE UNCHANGED vars
  BY <1>25 DEF vars, TypeOK
<1>26. QED
  BY <1>1, <1>2, <1>3, <1>4, <1>5, <1>6, <1>7, <1>8, <1>9, <1>10, <1>11, <1>12, <1>13,
     <1>14, <1>15, <1>16, <1>17, <1>18, <1>19, <1>20, <1>21, <1>22, <1>23,
     <1>24, <1>25 DEF Next, Proceed

\* Every step leaves every request in its own handler.
LEMMA NextKinds == SessionInv /\ [Next]_vars => Kinds'
<1> SUFFICES ASSUME SessionInv, [Next]_vars PROVE Kinds'
  OBVIOUS
<1> USE SessionsAssumption DEF SessionInv, Requests, Openers, Revokers, Askers, Guessing,
   Opening, Revoking, Departing
<1>1. ASSUME NEW r \in Logins, CheckWindow(r) PROVE Kinds'
  BY <1>1 DEF CheckWindow, TooMany, Fail, GoTo, Kinds, TypeOK
<1>2. ASSUME NEW r \in Logins, Lookup(r) PROVE Kinds'
  BY <1>2 DEF Lookup, GoTo, Kinds, TypeOK
<1>3. ASSUME NEW r \in Logins, Verify(r) PROVE Kinds'
  BY <1>3 DEF Verify, Fail, GoTo, Kinds, TypeOK
<1>4. ASSUME NEW r \in Logins, ClearFailures(r) PROVE Kinds'
  BY <1>4 DEF ClearFailures, GoTo, Kinds, TypeOK
<1>5. ASSUME NEW r \in Openers, Record(r) PROVE Kinds'
  BY <1>5 DEF Record, GoTo, Kinds, TypeOK
<1>6. ASSUME NEW r \in Openers, Respond(r) PROVE Kinds'
  BY <1>6 DEF Respond, GoTo, Kinds, TypeOK
<1>7. ASSUME NEW r \in Resets, UseToken(r) PROVE Kinds'
  BY <1>7 DEF UseToken, GoTo, Kinds, TypeOK
<1>8. ASSUME NEW r \in Resets, CommitReset(r) PROVE Kinds'
  BY <1>8 DEF CommitReset, GoTo, Kinds, TypeOK
<1>9. ASSUME NEW r \in Revocations, StartRevocation(r) PROVE Kinds'
  BY <1>9 DEF StartRevocation, AskedFrom, GoTo, Kinds, TypeOK
<1>10. ASSUME NEW r \in Revocations, Rotate(r) PROVE Kinds'
  BY <1>10 DEF Rotate, GoTo, Kinds, TypeOK
<1>11. ASSUME NEW r \in Revokers, SelectIndexed(r) PROVE Kinds'
  BY <1>11 DEF SelectIndexed, GoTo, Kinds, TypeOK
<1>12. ASSUME NEW r \in Revokers, DeleteFound(r) PROVE Kinds'
  BY <1>12 DEF DeleteFound, GoTo, Kinds, TypeOK
<1>13. ASSUME NEW r \in Revokers, ForgetIndexed(r) PROVE Kinds'
  BY <1>13 DEF ForgetIndexed, GoTo, Kinds, TypeOK
<1>14. ASSUME NEW r \in Requests, CutShort(r) PROVE Kinds'
  BY <1>14 DEF CutShort, Spend, GoTo, Kinds, TypeOK
<1>15. ASSUME NEW t \in Tokens, Issue(t) PROVE Kinds'
  BY <1>15 DEF Issue, Kinds, TypeOK
<1>16. ASSUME NEW t \in Tokens, ExpireToken(t) PROVE Kinds'
  BY <1>16 DEF ExpireToken, Kinds, TypeOK
<1>17. ASSUME NEW s \in Openers, Logout(s) PROVE Kinds'
  BY <1>17 DEF Logout, Spend, Kinds, TypeOK
<1>18. CASE SetStatus
  BY <1>18 DEF SetStatus, Kinds, TypeOK
<1>19. CASE AgeOut
  BY <1>19 DEF AgeOut, Kinds, TypeOK
<1>20. ASSUME NEW r \in Visits, StartVisit(r) PROVE Kinds'
  BY <1>20 DEF StartVisit, AskedFrom, GoTo, Kinds, TypeOK
<1>21. ASSUME NEW r \in Visits, SaveVisit(r) PROVE Kinds'
  BY <1>21 DEF SaveVisit, GoTo, Kinds, TypeOK
<1>22. ASSUME NEW r \in Departures, StartDeparture(r) PROVE Kinds'
  BY <1>22 DEF StartDeparture, GoTo, Kinds, TypeOK
<1>23. ASSUME NEW r \in Departures, Disown(r) PROVE Kinds'
  BY <1>23 DEF Disown, GoTo, Kinds, TypeOK
<1>24. ASSUME NEW r \in Departures, Disable(r) PROVE Kinds'
  BY <1>24 DEF Disable, GoTo, Kinds, TypeOK
<1>25. CASE UNCHANGED vars
  BY <1>25 DEF vars, Kinds, TypeOK
<1>26. QED
  BY <1>1, <1>2, <1>3, <1>4, <1>5, <1>6, <1>7, <1>8, <1>9, <1>10, <1>11, <1>12, <1>13,
     <1>14, <1>15, <1>16, <1>17, <1>18, <1>19, <1>20, <1>21, <1>22, <1>23,
     <1>24, <1>25 DEF Next, Proceed

\* Every step keeps the bookkeeping of the tokens.
LEMMA NextTokenInv == SessionInv /\ [Next]_vars => TokenInv'
<1> SUFFICES ASSUME SessionInv, [Next]_vars PROVE TokenInv'
  OBVIOUS
<1> USE SessionsAssumption DEF SessionInv, Requests, Openers, Revokers, Askers, Guessing,
   Opening, Revoking, Departing
<1>1. ASSUME NEW r \in Logins, CheckWindow(r) PROVE TokenInv'
  BY <1>1 DEF CheckWindow, TooMany, Fail, GoTo, TokenInv, TypeOK
<1>2. ASSUME NEW r \in Logins, Lookup(r) PROVE TokenInv'
  <2>1. UNCHANGED <<token, changes, locked>>
    BY <1>2 DEF Lookup
  <2>2. \A q \in Requests : pc'[q] = "redeem" => pc[q] = "redeem"
    BY <1>2 DEF Lookup, GoTo, TypeOK
  <2>3. QED
    BY <2>1, <2>2 DEF TokenInv
<1>3. ASSUME NEW r \in Logins, Verify(r) PROVE TokenInv'
  <2>1. UNCHANGED <<token, changes, locked>>
    BY <1>3 DEF Verify
  <2>2. \A q \in Requests : pc'[q] = "redeem" => pc[q] = "redeem"
    BY <1>3 DEF Verify, GoTo, TypeOK
  <2>3. QED
    BY <2>1, <2>2 DEF TokenInv
<1>4. ASSUME NEW r \in Logins, ClearFailures(r) PROVE TokenInv'
  BY <1>4 DEF ClearFailures, GoTo, TokenInv, TypeOK
<1>5. ASSUME NEW r \in Openers, Record(r) PROVE TokenInv'
  BY <1>5 DEF Record, GoTo, TokenInv, TypeOK
<1>6. ASSUME NEW r \in Openers, Respond(r) PROVE TokenInv'
  BY <1>6 DEF Respond, GoTo, TokenInv, TypeOK
<1>7. ASSUME NEW r \in Resets, UseToken(r) PROVE TokenInv'
  <2> DEFINE t == TokenOf[r]
  <2>0. t \in Tokens /\ pc[r] = "idle" /\ t \notin locked
    BY <1>7 DEF UseToken
  <2>1. UNCHANGED <<token, changes>>
    BY <1>7 DEF UseToken
  <2>3. CASE token[t] = "issued"
    <3>1. locked' = locked \union {t} /\ GoTo(r, "redeem")
      BY <1>7, <2>3 DEF UseToken
    <3>2. pc'[r] = "redeem" /\ \A q \in Requests \ {r} : pc'[q] = pc[q]
      BY <3>1, Moves DEF Statements
    <3>3. \A s \in Resets : s # r /\ pc'[s] = "redeem" => TokenOf[s] # t
      BY <2>0, <3>2 DEF TokenInv
    <3>4. QED
      BY <2>1, <2>3, <3>1, <3>2, <3>3 DEF TokenInv
  <2>4. CASE token[t] # "issued"
    <3>1. locked' = locked /\ GoTo(r, "ended")
      BY <1>7, <2>4 DEF UseToken
    <3>2. pc'[r] = "ended" /\ \A q \in Requests \ {r} : pc'[q] = pc[q]
      BY <3>1, Moves DEF Statements
    <3>3. QED
      BY <2>1, <3>1, <3>2 DEF TokenInv
  <2>5. QED
    BY <2>3, <2>4
<1>8. ASSUME NEW r \in Resets, CommitReset(r) PROVE TokenInv'
  <2> DEFINE t == TokenOf[r]
  <2>1. t \in Tokens /\ token[t] = "issued"
    BY <1>8 DEF CommitReset, TokenInv
  <2>4. \A u \in Tokens : changes'[u] = IF token'[u] = "used" THEN 1 ELSE 0
    BY <1>8, <2>1 DEF CommitReset, TokenInv, TypeOK
  <2>5. \A s \in Resets :
          pc'[s] = "redeem" => pc[s] = "redeem" /\ s # r /\ TokenOf[s] # t
    BY <1>8 DEF CommitReset, GoTo, TokenInv, TypeOK
  <2>6. QED
    BY <1>8, <2>4, <2>5 DEF CommitReset, TokenInv, TypeOK
<1>9. ASSUME NEW r \in Revocations, StartRevocation(r) PROVE TokenInv'
  BY <1>9 DEF StartRevocation, AskedFrom, GoTo, TokenInv, TypeOK
<1>10. ASSUME NEW r \in Revocations, Rotate(r) PROVE TokenInv'
  BY <1>10 DEF Rotate, GoTo, TokenInv, TypeOK
<1>11. ASSUME NEW r \in Revokers, SelectIndexed(r) PROVE TokenInv'
  BY <1>11 DEF SelectIndexed, GoTo, TokenInv, TypeOK
<1>12. ASSUME NEW r \in Revokers, DeleteFound(r) PROVE TokenInv'
  BY <1>12 DEF DeleteFound, GoTo, TokenInv, TypeOK
<1>13. ASSUME NEW r \in Revokers, ForgetIndexed(r) PROVE TokenInv'
  BY <1>13 DEF ForgetIndexed, GoTo, TokenInv, TypeOK
<1>14. ASSUME NEW r \in Requests, CutShort(r) PROVE TokenInv'
  <2>1. UNCHANGED <<token, changes>>
    BY <1>14 DEF CutShort
  <2>3. pc'[r] = "ended" /\ \A q \in Requests \ {r} : pc'[q] = pc[q]
    BY <1>14, Moves DEF CutShort, Statements
  <2>4. pc[r] = "redeem" => r \in Resets
    BY DEF Kinds
  <2>5. \A s \in Resets : pc'[s] = "redeem" => s # r /\ pc[s] = "redeem" /\ TokenOf[s] \in locked'
    BY <1>14, <2>3, <2>4 DEF CutShort, TokenInv
  <2>6. QED
    BY <2>1, <2>5 DEF TokenInv
<1>15. ASSUME NEW t \in Tokens, Issue(t) PROVE TokenInv'
  BY <1>15 DEF Issue, TokenInv, TypeOK
<1>16. ASSUME NEW t \in Tokens, ExpireToken(t) PROVE TokenInv'
  <2>1. UNCHANGED <<changes, locked, pc>> /\ token' = [token EXCEPT ![t] = "expired"]
    BY <1>16 DEF ExpireToken
  <2>2. token[t] = "issued" /\ t \notin locked
    BY <1>16 DEF ExpireToken
  <2>4. \A u \in Tokens : u # t => token'[u] = token[u]
    BY <2>1 DEF TypeOK
  <2>5. token'[t] = "expired"
    BY <2>1 DEF TypeOK
  <2>6. QED
    BY <2>1, <2>2, <2>4, <2>5 DEF TokenInv
<1>17. ASSUME NEW s \in Openers, Logout(s) PROVE TokenInv'
  BY <1>17 DEF Logout, Spend, TokenInv, TypeOK
<1>18. CASE SetStatus
  BY <1>18 DEF SetStatus, TokenInv, TypeOK
<1>19. CASE AgeOut
  BY <1>19 DEF AgeOut, TokenInv, TypeOK
<1>20. ASSUME NEW r \in Visits, StartVisit(r) PROVE TokenInv'
  BY <1>20 DEF StartVisit, AskedFrom, GoTo, TokenInv, TypeOK
<1>21. ASSUME NEW r \in Visits, SaveVisit(r) PROVE TokenInv'
  BY <1>21 DEF SaveVisit, GoTo, TokenInv, TypeOK
<1>22. ASSUME NEW r \in Departures, StartDeparture(r) PROVE TokenInv'
  <2>1. UNCHANGED <<token, changes, locked>>
    BY <1>22 DEF StartDeparture
  <2>2. \A q \in Requests : pc'[q] = "redeem" => pc[q] = "redeem"
    BY <1>22 DEF StartDeparture, GoTo, TypeOK
  <2>3. QED
    BY <2>1, <2>2 DEF TokenInv
<1>23. ASSUME NEW r \in Departures, Disown(r) PROVE TokenInv'
  BY <1>23 DEF Disown, GoTo, TokenInv, TypeOK
<1>24. ASSUME NEW r \in Departures, Disable(r) PROVE TokenInv'
  BY <1>24 DEF Disable, GoTo, TokenInv, TypeOK
<1>25. CASE UNCHANGED vars
  BY <1>25 DEF vars, TokenInv, TypeOK
<1>26. QED
  BY <1>1, <1>2, <1>3, <1>4, <1>5, <1>6, <1>7, <1>8, <1>9, <1>10, <1>11, <1>12, <1>13,
     <1>14, <1>15, <1>16, <1>17, <1>18, <1>19, <1>20, <1>21, <1>22, <1>23,
     <1>24, <1>25 DEF Next, Proceed

\* What the tables and the variables of the requests hold are requests.
LEMMA SetsOfRequests ==
  ASSUME TypeOK
  PROVE  /\ live \subseteq Requests /\ indexed \subseteq Requests
         /\ \A v \in Revokers : found[v] \subseteq Requests
         /\ \A v \in Askers : caller[v] \subseteq Requests
BY DEF TypeOK, Requests, Openers, Revokers

\* Every step keeps the two tables as far together as IndexInv says.
LEMMA NextIndexInv == SessionInv /\ [Next]_vars => IndexInv'
<1> SUFFICES ASSUME SessionInv, [Next]_vars PROVE IndexInv'
  OBVIOUS
<1> USE SessionsAssumption DEF SessionInv, Requests, Openers, Revokers, Askers, Guessing,
   Opening, Revoking, Departing
<1>1. ASSUME NEW r \in Logins, CheckWindow(r) PROVE IndexInv'
  <2>1. PICK l \in Statements : GoTo(r, l) /\ l \notin Opening \union Revoking \union {"rotate"}
    BY <1>1 DEF CheckWindow, Statements
  <2>2. pc'[r] = l /\ \A q \in Requests \ {r} : pc'[q] = pc[q]
    BY <2>1, Moves
  <2>3. pc[r] \in {"idle"} /\ UNCHANGED <<tableVars, found, caller, missed, unrevoked>>
    BY <1>1 DEF CheckWindow
  <2>4. /\ \A q \in Requests : pc[q] \in {"respond", "ended"} => pc'[q] = pc[q]
        /\ \A q \in Requests : pc'[q] \in {"respond", "forget"} => pc[q] = pc'[q]
    BY <2>1, <2>2, <2>3
  <2>5. QED
    BY <2>3, <2>4, SetsOfRequests DEF IndexInv, LiveSessionIsIndexed
<1>2. ASSUME NEW r \in Logins, Lookup(r) PROVE IndexInv'
  BY <1>2 DEF Lookup, GoTo, IndexInv, LiveSessionIsIndexed, Kinds, TypeOK
<1>3. ASSUME NEW r \in Logins, Verify(r) PROVE IndexInv'
  <2>1. PICK l \in Statements : GoTo(r, l) /\ l \notin Opening \union Revoking \union {"rotate"}
    BY <1>3 DEF Verify, Statements
  <2>2. pc'[r] = l /\ \A q \in Requests \ {r} : pc'[q] = pc[q]
    BY <2>1, Moves
  <2>3. pc[r] \in {"verify", "verifyDisabled", "verifyUnknown"} /\ UNCHANGED <<tableVars, found, caller, missed, unrevoked>>
    BY <1>3 DEF Verify
  <2>4. /\ \A q \in Requests : pc[q] \in {"respond", "ended"} => pc'[q] = pc[q]
        /\ \A q \in Requests : pc'[q] \in {"respond", "forget"} => pc[q] = pc'[q]
    BY <2>1, <2>2, <2>3
  <2>5. QED
    BY <2>3, <2>4, SetsOfRequests DEF IndexInv, LiveSessionIsIndexed
<1>4. ASSUME NEW r \in Logins, ClearFailures(r) PROVE IndexInv'
  BY <1>4 DEF ClearFailures, GoTo, IndexInv, LiveSessionIsIndexed, Kinds, TypeOK
<1>5. ASSUME NEW r \in Openers, Record(r) PROVE IndexInv'
  BY <1>5 DEF Record, GoTo, IndexInv, LiveSessionIsIndexed, Kinds, TypeOK
<1>6. ASSUME NEW r \in Openers, Respond(r) PROVE IndexInv'
  BY <1>6 DEF Respond, GoTo, IndexInv, LiveSessionIsIndexed, Kinds, TypeOK
<1>7. ASSUME NEW r \in Resets, UseToken(r) PROVE IndexInv'
  <2>1. PICK l \in Statements : GoTo(r, l) /\ l \notin Opening \union Revoking \union {"rotate"}
    BY <1>7 DEF UseToken, Statements
  <2>2. pc'[r] = l /\ \A q \in Requests \ {r} : pc'[q] = pc[q]
    BY <2>1, Moves
  <2>3. pc[r] \in {"idle"} /\ UNCHANGED <<tableVars, found, caller, missed, unrevoked>>
    BY <1>7 DEF UseToken
  <2>4. /\ \A q \in Requests : pc[q] \in {"respond", "ended"} => pc'[q] = pc[q]
        /\ \A q \in Requests : pc'[q] \in {"respond", "forget"} => pc[q] = pc'[q]
    BY <2>1, <2>2, <2>3
  <2>5. QED
    BY <2>3, <2>4, SetsOfRequests DEF IndexInv, LiveSessionIsIndexed
<1>8. ASSUME NEW r \in Resets, CommitReset(r) PROVE IndexInv'
  BY <1>8 DEF CommitReset, GoTo, IndexInv, LiveSessionIsIndexed, Kinds, TypeOK
<1>9. ASSUME NEW r \in Revocations, StartRevocation(r) PROVE IndexInv'
  BY <1>9 DEF StartRevocation, AskedFrom, GoTo, IndexInv, LiveSessionIsIndexed, Kinds, TypeOK
<1>10. ASSUME NEW r \in Revocations, Rotate(r) PROVE IndexInv'
  BY <1>10 DEF Rotate, GoTo, IndexInv, LiveSessionIsIndexed, Kinds, TypeOK
<1>11. ASSUME NEW r \in Revokers, SelectIndexed(r) PROVE IndexInv'
  BY <1>11 DEF SelectIndexed, GoTo, IndexInv, LiveSessionIsIndexed, Kinds, TypeOK
<1>12. ASSUME NEW r \in Revokers, DeleteFound(r) PROVE IndexInv'
  BY <1>12 DEF DeleteFound, GoTo, IndexInv, LiveSessionIsIndexed, Kinds, TypeOK
<1>13. ASSUME NEW r \in Revokers, ForgetIndexed(r) PROVE IndexInv'
  BY <1>13 DEF ForgetIndexed, GoTo, IndexInv, LiveSessionIsIndexed, Kinds, TypeOK
<1>14. ASSUME NEW r \in Requests, CutShort(r) PROVE IndexInv'
  BY <1>14 DEF CutShort, Spend, GoTo, IndexInv, LiveSessionIsIndexed, Kinds, TypeOK
<1>15. ASSUME NEW t \in Tokens, Issue(t) PROVE IndexInv'
  BY <1>15 DEF Issue, IndexInv, LiveSessionIsIndexed, Kinds, TypeOK
<1>16. ASSUME NEW t \in Tokens, ExpireToken(t) PROVE IndexInv'
  BY <1>16 DEF ExpireToken, IndexInv, LiveSessionIsIndexed, Kinds, TypeOK
<1>17. ASSUME NEW s \in Openers, Logout(s) PROVE IndexInv'
  BY <1>17 DEF Logout, Spend, IndexInv, LiveSessionIsIndexed, Kinds, TypeOK
<1>18. CASE SetStatus
  BY <1>18 DEF SetStatus, IndexInv, LiveSessionIsIndexed, Kinds, TypeOK
<1>19. CASE AgeOut
  BY <1>19 DEF AgeOut, IndexInv, LiveSessionIsIndexed, Kinds, TypeOK
<1>20. ASSUME NEW r \in Visits, StartVisit(r) PROVE IndexInv'
  BY <1>20 DEF StartVisit, AskedFrom, GoTo, IndexInv, LiveSessionIsIndexed, Kinds, TypeOK
<1>21. ASSUME NEW r \in Visits, SaveVisit(r) PROVE IndexInv'
  BY <1>21 DEF SaveVisit, GoTo, IndexInv, LiveSessionIsIndexed, Kinds, TypeOK
<1>22. ASSUME NEW r \in Departures, StartDeparture(r) PROVE IndexInv'
  <2>1. PICK l \in {"disown", "ended"} : GoTo(r, l)
    BY <1>22 DEF StartDeparture
  <2>2. pc'[r] = l /\ \A q \in Requests \ {r} : pc'[q] = pc[q]
    BY <2>1, Moves DEF Statements
  <2>3. pc[r] = "idle" /\ UNCHANGED <<tableVars, found, caller, missed, unrevoked>>
    BY <1>22 DEF StartDeparture
  <2>4. /\ \A q \in Requests : pc[q] \in {"respond", "ended"} => pc'[q] = pc[q]
        /\ \A q \in Requests : pc'[q] \in {"respond", "forget"} => pc[q] = pc'[q]
    BY <2>1, <2>2, <2>3
  <2>5. QED
    BY <2>3, <2>4, SetsOfRequests DEF IndexInv, LiveSessionIsIndexed
<1>23. ASSUME NEW r \in Departures, Disown(r) PROVE IndexInv'
  BY <1>23 DEF Disown, GoTo, IndexInv, LiveSessionIsIndexed, Kinds, TypeOK
<1>24. ASSUME NEW r \in Departures, Disable(r) PROVE IndexInv'
  BY <1>24 DEF Disable, GoTo, IndexInv, LiveSessionIsIndexed, Kinds, TypeOK
<1>25. CASE UNCHANGED vars
  BY <1>25 DEF vars, IndexInv, LiveSessionIsIndexed, Kinds, TypeOK
<1>26. QED
  BY <1>1, <1>2, <1>3, <1>4, <1>5, <1>6, <1>7, <1>8, <1>9, <1>10, <1>11, <1>12, <1>13,
     <1>14, <1>15, <1>16, <1>17, <1>18, <1>19, <1>20, <1>21, <1>22, <1>23,
     <1>24, <1>25 DEF Next, Proceed

LEMMA SessionInvHolds == Spec => []SessionInv
<1>1. Init => SessionInv
  BY InitSessionInv
<1>2. SessionInv /\ [Next]_vars => SessionInv'
  BY NextTypeOK, NextKinds, NextTokenInv, NextIndexInv DEF SessionInv
<1>3. QED
  BY <1>1, <1>2, PTL DEF Spec

\* A reset token changes the password at most once, for any number of requests
\* that redeem it at once: use_reset_token keeps the row locked until the hash is
\* written (repositories/invites.rs, routes/auth.rs).
THEOREM TokensAreSingleUse == Spec => []TokenIsSingleUse
<1>1. SessionInv => TokenIsSingleUse
  BY DEF SessionInv, TypeOK, TokenInv, TokenIsSingleUse
<1>2. QED
  BY <1>1, SessionInvHolds, PTL

\* "Log out everywhere" finds every stored session in session_index, but for
\* those a named race or error took from it (record_session and
\* revoke_all_sessions in auth/session.rs).
THEOREM SessionsAreIndexed == Spec => []LiveSessionIsIndexed
BY SessionInvHolds, PTL DEF SessionInv, IndexInv

-----------------------------------------------------------------------------
(***************************************************************************)
(* A session, or one about to be opened, under an earlier password is      *)
(* still going to be revoked by a reset other than its own, or is accounted *)
(* for by the history variables.                                           *)
(***************************************************************************)
ToBeRevoked(o) ==
  \E r \in Resets : \/ pc[r] = "select" /\ r # o
                    \/ pc[r] = "delete" /\ o \in found[r] /\ o \in live

ResetInv ==
  \A o \in live \union Entering :
    seen[o] # password => o \in late \union missed \union unrevoked \union departed \/ ToBeRevoked(o)

\* No step loses sight of a session that was opened under an earlier password.
LEMMA NextResetInv == SessionInv /\ ResetInv /\ [Next]_vars => ResetInv'
<1> SUFFICES ASSUME SessionInv /\ ResetInv, [Next]_vars PROVE ResetInv'
  OBVIOUS
<1> USE SessionsAssumption DEF SessionInv, Requests, Openers, Revokers, Askers, Guessing,
   Opening, Revoking, Departing
<1>1. ASSUME NEW r \in Logins, CheckWindow(r) PROVE ResetInv'
  BY <1>1 DEF CheckWindow, TooMany, Fail, GoTo, ResetInv, ToBeRevoked, Entering, IndexInv,
     Kinds, TypeOK
<1>2. ASSUME NEW r \in Logins, Lookup(r) PROVE ResetInv'
  BY <1>2 DEF Lookup, GoTo, ResetInv, ToBeRevoked, Entering, IndexInv, Kinds, TypeOK
<1>3. ASSUME NEW r \in Logins, Verify(r) PROVE ResetInv'
  BY <1>3 DEF Verify, Fail, GoTo, ResetInv, ToBeRevoked, Entering, IndexInv, Kinds, TypeOK
<1>4. ASSUME NEW r \in Logins, ClearFailures(r) PROVE ResetInv'
  BY <1>4 DEF ClearFailures, GoTo, ResetInv, ToBeRevoked, Entering, IndexInv, Kinds, TypeOK
<1>5. ASSUME NEW r \in Openers, Record(r) PROVE ResetInv'
  BY <1>5 DEF Record, GoTo, ResetInv, ToBeRevoked, Entering, IndexInv, Kinds, TypeOK
<1>6. ASSUME NEW r \in Openers, Respond(r) PROVE ResetInv'
  BY <1>6 DEF Respond, GoTo, ResetInv, ToBeRevoked, Entering, IndexInv, Kinds, TypeOK
<1>7. ASSUME NEW r \in Resets, UseToken(r) PROVE ResetInv'
  BY <1>7 DEF UseToken, GoTo, ResetInv, ToBeRevoked, Entering, IndexInv, Kinds, TypeOK
<1>8. ASSUME NEW r \in Resets, CommitReset(r) PROVE ResetInv'
  BY <1>8 DEF CommitReset, GoTo, ResetInv, ToBeRevoked, Entering, IndexInv, Kinds, TypeOK
<1>9. ASSUME NEW r \in Revocations, StartRevocation(r) PROVE ResetInv'
  BY <1>9 DEF StartRevocation, AskedFrom, GoTo, ResetInv, ToBeRevoked, Entering, IndexInv, Kinds,
     TypeOK
<1>10. ASSUME NEW r \in Revocations, Rotate(r) PROVE ResetInv'
  BY <1>10 DEF Rotate, GoTo, ResetInv, ToBeRevoked, Entering, IndexInv, Kinds, TypeOK
<1>11. ASSUME NEW r \in Revokers, SelectIndexed(r) PROVE ResetInv'
  <2>1. /\ pc[r] = "select" /\ found' = [found EXCEPT ![r] = indexed]
        /\ UNCHANGED <<live, password, seen, missed, unrevoked, departed>>
        /\ late \subseteq late' /\ (r \in Resets => Entering \ {r} \subseteq late')
    BY <1>11 DEF SelectIndexed
  <2>2. pc'[r] = "delete" /\ \A q \in Requests \ {r} : pc'[q] = pc[q]
    BY <1>11, Moves DEF SelectIndexed, Statements
  <2>3. Entering' = Entering
    BY <2>1, <2>2 DEF Entering
  <2>4. \A q \in Revokers \ {r} : found'[q] = found[q]
    BY <2>1 DEF TypeOK
  <2>5. r \in Resets => found'[r] = indexed
    BY <2>1 DEF TypeOK
  <2>6. SUFFICES ASSUME NEW o \in live \union Entering, seen[o] # password,
                        o \notin late' \union missed \union unrevoked \union departed
                 PROVE  ToBeRevoked(o)'
    BY <2>1, <2>3 DEF ResetInv
  <2>7. PICK q \in Resets : \/ pc[q] = "select" /\ q # o
                            \/ pc[q] = "delete" /\ o \in found[q] /\ o \in live
    BY <2>1, <2>6 DEF ResetInv, ToBeRevoked
  <2>8. CASE q # r
    BY <2>1, <2>2, <2>4, <2>7, <2>8 DEF ToBeRevoked
  <2>9. CASE q = r
    <3>1. o # r /\ r \in Resets
      BY <2>1, <2>7, <2>9
    <3>2. o \in live
      BY <2>1, <2>6, <3>1
    <3>3. o \in indexed
      BY <2>6, <3>2 DEF IndexInv, LiveSessionIsIndexed
    <3>4. QED
      BY <2>1, <2>2, <2>5, <3>1, <3>2, <3>3 DEF ToBeRevoked
  <2>10. QED
    BY <2>8, <2>9
<1>12. ASSUME NEW r \in Revokers, DeleteFound(r) PROVE ResetInv'
  BY <1>12 DEF DeleteFound, GoTo, ResetInv, ToBeRevoked, Entering, IndexInv, Kinds, TypeOK
<1>13. ASSUME NEW r \in Revokers, ForgetIndexed(r) PROVE ResetInv'
  <2>1. PICK l \in {"record", "rotate"} : GoTo(r, l) /\ (r \in Resets => l = "record")
    BY <1>13 DEF ForgetIndexed
  <2>2. pc'[r] = l /\ \A q \in Requests \ {r} : pc'[q] = pc[q]
    BY <2>1, Moves DEF Statements
  <2>3. /\ pc[r] = "forget" /\ UNCHANGED <<live, password, seen, late, unrevoked, departed>>
        /\ missed \subseteq missed' /\ found' = [found EXCEPT ![r] = {}]
    BY <1>13 DEF ForgetIndexed
  <2>4. Entering' \subseteq Entering
    BY <2>1, <2>2, <2>3 DEF Entering
  <2>5. \A q \in Revokers \ {r} : found'[q] = found[q]
    BY <2>3 DEF TypeOK
  <2>6. \A o : ToBeRevoked(o) => ToBeRevoked(o)'
    BY <2>2, <2>3, <2>5 DEF ToBeRevoked
  <2>7. QED
    BY <2>3, <2>4, <2>6 DEF ResetInv
<1>14. ASSUME NEW r \in Requests, CutShort(r) PROVE ResetInv'
  BY <1>14 DEF CutShort, Spend, GoTo, ResetInv, ToBeRevoked, Entering, IndexInv, Kinds,
     TypeOK
<1>15. ASSUME NEW t \in Tokens, Issue(t) PROVE ResetInv'
  BY <1>15 DEF Issue, ResetInv, ToBeRevoked, Entering, IndexInv, Kinds, TypeOK
<1>16. ASSUME NEW t \in Tokens, ExpireToken(t) PROVE ResetInv'
  BY <1>16 DEF ExpireToken, ResetInv, ToBeRevoked, Entering, IndexInv, Kinds, TypeOK
<1>17. ASSUME NEW s \in Openers, Logout(s) PROVE ResetInv'
  BY <1>17 DEF Logout, Spend, ResetInv, ToBeRevoked, Entering, IndexInv, Kinds, TypeOK
<1>18. CASE SetStatus
  BY <1>18 DEF SetStatus, ResetInv, ToBeRevoked, Entering, IndexInv, Kinds, TypeOK
<1>19. CASE AgeOut
  BY <1>19 DEF AgeOut, ResetInv, ToBeRevoked, Entering, IndexInv, Kinds, TypeOK
<1>20. ASSUME NEW r \in Visits, StartVisit(r) PROVE ResetInv'
  BY <1>20 DEF StartVisit, AskedFrom, GoTo, ResetInv, ToBeRevoked, Entering, IndexInv, Kinds, TypeOK
<1>21. ASSUME NEW r \in Visits, SaveVisit(r) PROVE ResetInv'
  BY <1>21 DEF SaveVisit, GoTo, ResetInv, ToBeRevoked, Entering, IndexInv, Kinds, TypeOK
<1>22. ASSUME NEW r \in Departures, StartDeparture(r) PROVE ResetInv'
  BY <1>22 DEF StartDeparture, GoTo, ResetInv, ToBeRevoked, Entering, IndexInv, Kinds, TypeOK
<1>23. ASSUME NEW r \in Departures, Disown(r) PROVE ResetInv'
  BY <1>23 DEF Disown, GoTo, ResetInv, ToBeRevoked, Entering, IndexInv, Kinds, TypeOK
<1>24. ASSUME NEW r \in Departures, Disable(r) PROVE ResetInv'
  BY <1>24 DEF Disable, GoTo, ResetInv, ToBeRevoked, Entering, IndexInv, Kinds, TypeOK
<1>25. CASE UNCHANGED vars
  BY <1>25 DEF vars, ResetInv, ToBeRevoked, Entering, IndexInv, Kinds, TypeOK
<1>26. QED
  BY <1>1, <1>2, <1>3, <1>4, <1>5, <1>6, <1>7, <1>8, <1>9, <1>10, <1>11, <1>12, <1>13,
     <1>14, <1>15, <1>16, <1>17, <1>18, <1>19, <1>20, <1>21, <1>22, <1>23,
     <1>24, <1>25 DEF Next, Proceed

\* After a password reset no session of the earlier password is left, unless
\* its login or reset overlapped the revocation, or the named races and errors
\* took it out of the revocation's reach (reset_password in routes/auth.rs).
THEOREM ResetsRevoke == Spec => []OutdatedSessionOverlappedReset
<1>1. Init => ResetInv
  BY DEF Init, ResetInv, Entering, Opening, Revoking, Openers, Requests
<1>2. SessionInv /\ ResetInv => OutdatedSessionOverlappedReset
  BY DEF ResetInv, ToBeRevoked, OutdatedSessionOverlappedReset, Outdated, At, Requests, Openers
<1>3. QED
  BY <1>1, <1>2, NextResetInv, SessionInvHolds, PTL DEF Spec

-----------------------------------------------------------------------------
(***************************************************************************)
(* The failures that are guesses, and the logins that may yet add one.     *)
(***************************************************************************)
Guesses == {i \in DOMAIN window : window[i] = "guess"}

GuessInv ==
  /\ Cardinality(Guesses) + Cardinality(At(Guessing)) <= MaxFailures - 1 + widest
  /\ Cardinality(At(Guessing)) <= widest

LEMMA GuessesAreFinite ==
  ASSUME TypeOK
  PROVE  /\ IsFiniteSet(Guesses) /\ Cardinality(Guesses) \in Nat
         /\ Cardinality(Guesses) <= Len(window)
<1>1. Len(window) \in Nat /\ DOMAIN window = 1 .. Len(window)
  BY DEF TypeOK
<1>2. IsFiniteSet(1 .. Len(window)) /\ Cardinality(1 .. Len(window)) = Len(window)
  <2>1. /\ IsFiniteSet(1 .. Len(window))
        /\ Cardinality(1 .. Len(window)) = IF 1 > Len(window) THEN 0 ELSE Len(window) - 1 + 1
    <3>1. 1 \in Int /\ Len(window) \in Int
      BY <1>1
    <3>2. QED
      BY <3>1, FS_Interval, Zenon
  <2>2. QED
    BY <1>1, <2>1
<1>3. Guesses \subseteq 1 .. Len(window)
  BY <1>1 DEF Guesses
<1>4. QED
  BY <1>2, <1>3, FS_Subset, FS_CardinalityType

\* A recorded failure adds to the guesses only when it is one.
LEMMA FailCounts ==
  ASSUME TypeOK, NEW kind \in {"guess", "refused"}, Fail(kind)
  PROVE  Cardinality(Guesses') = Cardinality(Guesses) + (IF kind = "guess" THEN 1 ELSE 0)
<1> DEFINE n == Len(window)
<1>1. /\ n \in Nat /\ DOMAIN window = 1 .. n
      /\ DOMAIN window' = 1 .. (n + 1) /\ window'[n + 1] = kind
      /\ \A i \in 1 .. n : window'[i] = window[i]
  BY DEF TypeOK, Fail
<1>2. CASE kind = "guess"
  <2>1. Guesses' = Guesses \union {n + 1} /\ n + 1 \notin Guesses
    BY <1>1, <1>2 DEF Guesses
  <2>2. QED
    BY <1>2, <2>1, GuessesAreFinite, FS_AddElement
<1>3. CASE kind = "refused"
  <2>1. Guesses' = Guesses
    BY <1>1, <1>3 DEF Guesses
  <2>2. QED
    BY <1>3, <2>1, GuessesAreFinite
<1>4. QED
  BY <1>2, <1>3

\* When the oldest failure ages out no guess is added.
LEMMA AgeOutCounts ==
  ASSUME TypeOK, AgeOut
  PROVE  Cardinality(Guesses') <= Cardinality(Guesses) /\ Cardinality(Guesses') \in Nat
<1> DEFINE n == Len(window)
           shift == [i \in Guesses' |-> i + 1]
<1>1. /\ n \in Nat \ {0} /\ DOMAIN window = 1 .. n
      /\ DOMAIN window' = 1 .. (n - 1)
      /\ \A i \in 1 .. (n - 1) : window'[i] = window[i + 1]
  BY DEF TypeOK, AgeOut
<1>2. Guesses' \subseteq 1 .. (n - 1) /\ \A i \in Guesses' : i + 1 \in Guesses
  BY <1>1 DEF Guesses
<1>3. shift \in [Guesses' -> Guesses]
  BY <1>2
<1>4. \A i, j \in Guesses' : shift[i] = shift[j] => i = j
  BY <1>1, <1>2
<1>5. shift \in Injection(Guesses', Guesses)
  BY <1>3, <1>4 DEF Injection, IsInjective
<1>6. QED
  BY <1>5, GuessesAreFinite, FS_Injection, FS_CardinalityType

\* A login leaves the guessing, or none does.
LEMMA GuessersMove ==
  ASSUME TypeOK, NEW r \in Requests, NEW l, GoTo(r, l)
  PROVE  /\ pc[r] \in Guessing /\ l \notin Guessing =>
              Cardinality(At(Guessing)') = Cardinality(At(Guessing)) - 1
         /\ pc[r] \notin Guessing /\ l \in Guessing =>
              Cardinality(At(Guessing)') = Cardinality(At(Guessing)) + 1
         /\ (pc[r] \in Guessing <=> l \in Guessing) =>
              Cardinality(At(Guessing)') = Cardinality(At(Guessing))
<1>1. DOMAIN pc = Requests /\ pc' = [pc EXCEPT ![r] = l]
  BY DEF TypeOK, GoTo
<1>2. CASE pc[r] \in Guessing /\ l \notin Guessing
  <2>1. At(Guessing)' = At(Guessing) \ {r} /\ r \in At(Guessing)
    BY <1>1, <1>2 DEF At
  <2>2. QED
    BY <1>2, <2>1, FiniteRequests, FS_RemoveElement
<1>3. CASE pc[r] \notin Guessing /\ l \in Guessing
  <2>1. At(Guessing)' = At(Guessing) \union {r} /\ r \notin At(Guessing)
    BY <1>1, <1>3 DEF At
  <2>2. QED
    BY <1>3, <2>1, FiniteRequests, FS_AddElement
<1>4. CASE pc[r] \in Guessing <=> l \in Guessing
  <2>1. At(Guessing)' = At(Guessing)
    BY <1>1, <1>4 DEF At
  <2>2. QED
    BY <1>4, <2>1
<1>5. QED
  BY <1>2, <1>3, <1>4

\* No step adds a guess that was not counted when its login passed the window.
LEMMA NextGuessInv == SessionInv /\ GuessInv /\ [Next]_vars => GuessInv'
<1> SUFFICES ASSUME SessionInv /\ GuessInv, [Next]_vars PROVE GuessInv'
  OBVIOUS
<1> USE SessionsAssumption DEF SessionInv, Requests, Openers, Revokers, Askers
<1>0. /\ Cardinality(Guesses) \in Nat /\ Cardinality(At(Guessing)) \in Nat /\ widest \in Nat
      /\ MaxFailures \in Nat \ {0}
  BY GuessesAreFinite, FiniteRequests DEF TypeOK
<1> USE <1>0
<1>1. ASSUME NEW r \in Logins, CheckWindow(r) PROVE GuessInv'
  <2>1. CASE TooMany
    <3>1. GoTo(r, "ended") /\ Fail("refused") /\ widest' = widest /\ pc[r] = "idle"
      BY <1>1, <2>1 DEF CheckWindow
    <3>2. Cardinality(At(Guessing)') = Cardinality(At(Guessing))
      BY <3>1, GuessersMove DEF Guessing
    <3>3. Cardinality(Guesses') = Cardinality(Guesses)
      BY <3>1, FailCounts
    <3>4. QED
      BY <3>1, <3>2, <3>3 DEF GuessInv
  <2>2. CASE ~TooMany
    <3>1. /\ GoTo(r, "lookup") /\ Guesses' = Guesses /\ pc[r] = "idle"
          /\ widest' >= Cardinality(At(Guessing)) + 1 /\ widest' \in Nat
      BY <1>1, <2>2, FiniteRequests DEF CheckWindow, Guesses, TypeOK
    <3>2. Cardinality(At(Guessing)') = Cardinality(At(Guessing)) + 1
      BY <3>1, GuessersMove DEF Guessing
    <3>3. Cardinality(Guesses) <= MaxFailures - 1
      BY <2>2, GuessesAreFinite DEF TooMany, TypeOK
    <3>4. QED
      BY <3>1, <3>2, <3>3 DEF GuessInv
  <2>3. QED
    BY <2>1, <2>2
<1>2. ASSUME NEW r \in Logins, Lookup(r) PROVE GuessInv'
  <2>1. PICK l \in {"verify", "verifyDisabled", "verifyUnknown"} : GoTo(r, l)
    BY <1>2 DEF Lookup
  <2>2. Cardinality(At(Guessing)') = Cardinality(At(Guessing))
    BY <1>2, <2>1, GuessersMove DEF Lookup, Guessing
  <2>3. Guesses' = Guesses /\ widest' = widest
    BY <1>2 DEF Lookup, Guesses
  <2>4. QED
    BY <2>2, <2>3 DEF GuessInv
<1>3. ASSUME NEW r \in Logins, Verify(r) PROVE GuessInv'
  <2>0. PICK l \in {"clear", "ended"} : GoTo(r, l)
    BY <1>3 DEF Verify
  <2>1. Cardinality(At(Guessing)') = Cardinality(At(Guessing)) - 1 /\ widest' = widest
    BY <1>3, <2>0, GuessersMove DEF Verify, Guessing
  <2>2. CASE Fail("guess")
    BY <2>1, <2>2, FailCounts DEF GuessInv
  <2>3. CASE UNCHANGED window
    BY <2>1, <2>3 DEF GuessInv, Guesses
  <2>4. QED
    BY <1>3, <2>2, <2>3 DEF Verify
<1>4. ASSUME NEW r \in Logins, ClearFailures(r) PROVE GuessInv'
  <2>1. Cardinality(At(Guessing)') = Cardinality(At(Guessing))
    BY <1>4, GuessersMove DEF ClearFailures, Guessing
  <2>2. Guesses' = {} /\ widest' = widest
    BY <1>4 DEF ClearFailures, Guesses
  <2>3. QED
    BY <2>1, <2>2, FS_EmptySet DEF GuessInv
<1>5. ASSUME NEW r \in Openers, Record(r) PROVE GuessInv'
  <2>1. Cardinality(At(Guessing)') = Cardinality(At(Guessing))
    BY <1>5, GuessersMove DEF Record, Guessing
  <2>2. Guesses' = Guesses /\ widest' = widest
    BY <1>5 DEF Record, Guesses
  <2>3. QED
    BY <2>1, <2>2 DEF GuessInv
<1>6. ASSUME NEW r \in Openers, Respond(r) PROVE GuessInv'
  <2>1. Cardinality(At(Guessing)') = Cardinality(At(Guessing))
    BY <1>6, GuessersMove DEF Respond, Guessing
  <2>2. Guesses' = Guesses /\ widest' = widest
    BY <1>6 DEF Respond, Guesses
  <2>3. QED
    BY <2>1, <2>2 DEF GuessInv
<1>7. ASSUME NEW r \in Resets, UseToken(r) PROVE GuessInv'
  <2>1. PICK l \in {"redeem", "ended"} : GoTo(r, l)
    BY <1>7 DEF UseToken
  <2>2. Cardinality(At(Guessing)') = Cardinality(At(Guessing))
    BY <1>7, <2>1, GuessersMove DEF UseToken, Guessing
  <2>3. Guesses' = Guesses /\ widest' = widest
    BY <1>7 DEF UseToken, Guesses
  <2>4. QED
    BY <2>2, <2>3 DEF GuessInv
<1>8. ASSUME NEW r \in Resets, CommitReset(r) PROVE GuessInv'
  <2>1. Cardinality(At(Guessing)') = Cardinality(At(Guessing))
    BY <1>8, GuessersMove DEF CommitReset, Guessing
  <2>2. Guesses' = Guesses /\ widest' = widest
    BY <1>8 DEF CommitReset, Guesses
  <2>3. QED
    BY <2>1, <2>2 DEF GuessInv
<1>9. ASSUME NEW r \in Revocations, StartRevocation(r) PROVE GuessInv'
  <2>1. Cardinality(At(Guessing)') = Cardinality(At(Guessing))
    BY <1>9, GuessersMove DEF StartRevocation, Guessing
  <2>2. Guesses' = Guesses /\ widest' = widest
    BY <1>9 DEF StartRevocation, Guesses
  <2>3. QED
    BY <2>1, <2>2 DEF GuessInv
<1>10. ASSUME NEW r \in Revocations, Rotate(r) PROVE GuessInv'
  <2>1. Cardinality(At(Guessing)') = Cardinality(At(Guessing))
    BY <1>10, GuessersMove DEF Rotate, Guessing
  <2>2. Guesses' = Guesses /\ widest' = widest
    BY <1>10 DEF Rotate, Guesses
  <2>3. QED
    BY <2>1, <2>2 DEF GuessInv
<1>11. ASSUME NEW r \in Revokers, SelectIndexed(r) PROVE GuessInv'
  <2>1. Cardinality(At(Guessing)') = Cardinality(At(Guessing))
    BY <1>11, GuessersMove DEF SelectIndexed, Guessing
  <2>2. Guesses' = Guesses /\ widest' = widest
    BY <1>11 DEF SelectIndexed, Guesses
  <2>3. QED
    BY <2>1, <2>2 DEF GuessInv
<1>12. ASSUME NEW r \in Revokers, DeleteFound(r) PROVE GuessInv'
  <2>1. Cardinality(At(Guessing)') = Cardinality(At(Guessing))
    BY <1>12, GuessersMove DEF DeleteFound, Guessing
  <2>2. Guesses' = Guesses /\ widest' = widest
    BY <1>12 DEF DeleteFound, Guesses
  <2>3. QED
    BY <2>1, <2>2 DEF GuessInv
<1>13. ASSUME NEW r \in Revokers, ForgetIndexed(r) PROVE GuessInv'
  <2>1. PICK l \in {"record", "rotate"} : GoTo(r, l)
    BY <1>13 DEF ForgetIndexed
  <2>2. Cardinality(At(Guessing)') = Cardinality(At(Guessing))
    BY <1>13, <2>1, GuessersMove DEF ForgetIndexed, Guessing
  <2>3. Guesses' = Guesses /\ widest' = widest
    BY <1>13 DEF ForgetIndexed, Guesses
  <2>4. QED
    BY <2>2, <2>3 DEF GuessInv
<1>14. ASSUME NEW r \in Requests, CutShort(r) PROVE GuessInv'
  <2>1. Cardinality(At(Guessing)') <= Cardinality(At(Guessing))
    BY <1>14, GuessersMove, FiniteRequests DEF CutShort, Guessing
  <2>2. Guesses' = Guesses /\ widest' = widest
    BY <1>14 DEF CutShort, Guesses
  <2>3. Cardinality(At(Guessing)') \in Nat
    <3>1. At(Guessing)' \subseteq Requests
      BY DEF At
    <3>2. QED
      BY <3>1, FiniteRequests, FS_Subset, FS_CardinalityType
  <2>4. QED
    BY <2>1, <2>2, <2>3 DEF GuessInv
<1>15. ASSUME NEW t \in Tokens, Issue(t) PROVE GuessInv'
  BY <1>15 DEF Issue, GuessInv, Guesses, At
<1>16. ASSUME NEW t \in Tokens, ExpireToken(t) PROVE GuessInv'
  BY <1>16 DEF ExpireToken, GuessInv, Guesses, At
<1>17. ASSUME NEW s \in Openers, Logout(s) PROVE GuessInv'
  BY <1>17 DEF Logout, Spend, GuessInv, Guesses, At
<1>18. CASE SetStatus
  BY <1>18 DEF SetStatus, GuessInv, Guesses, At
<1>19. CASE AgeOut
  <2>1. At(Guessing)' = At(Guessing) /\ widest' = widest
    BY <1>19 DEF AgeOut, At
  <2>2. QED
    BY <1>19, <2>1, AgeOutCounts DEF GuessInv
<1>20. ASSUME NEW r \in Visits, StartVisit(r) PROVE GuessInv'
  <2>1. Cardinality(At(Guessing)') = Cardinality(At(Guessing))
    BY <1>20, GuessersMove DEF StartVisit, Guessing
  <2>2. Guesses' = Guesses /\ widest' = widest
    BY <1>20 DEF StartVisit, Guesses
  <2>3. QED
    BY <2>1, <2>2 DEF GuessInv
<1>21. ASSUME NEW r \in Visits, SaveVisit(r) PROVE GuessInv'
  <2>1. Cardinality(At(Guessing)') = Cardinality(At(Guessing))
    BY <1>21, GuessersMove DEF SaveVisit, Guessing
  <2>2. Guesses' = Guesses /\ widest' = widest
    BY <1>21 DEF SaveVisit, Guesses
  <2>3. QED
    BY <2>1, <2>2 DEF GuessInv
<1>22. ASSUME NEW r \in Departures, StartDeparture(r) PROVE GuessInv'
  <2>1. PICK l \in {"disown", "ended"} : GoTo(r, l)
    BY <1>22 DEF StartDeparture
  <2>2. Cardinality(At(Guessing)') = Cardinality(At(Guessing))
    BY <1>22, <2>1, GuessersMove DEF StartDeparture, Guessing
  <2>3. Guesses' = Guesses /\ widest' = widest
    BY <1>22 DEF StartDeparture, Guesses
  <2>4. QED
    BY <2>2, <2>3 DEF GuessInv
<1>23. ASSUME NEW r \in Departures, Disown(r) PROVE GuessInv'
  <2>1. Cardinality(At(Guessing)') = Cardinality(At(Guessing))
    BY <1>23, GuessersMove DEF Disown, Guessing
  <2>2. Guesses' = Guesses /\ widest' = widest
    BY <1>23 DEF Disown, Guesses
  <2>3. QED
    BY <2>1, <2>2 DEF GuessInv
<1>24. ASSUME NEW r \in Departures, Disable(r) PROVE GuessInv'
  <2>1. Cardinality(At(Guessing)') = Cardinality(At(Guessing))
    BY <1>24, GuessersMove DEF Disable, Guessing
  <2>2. Guesses' = Guesses /\ widest' = widest
    BY <1>24 DEF Disable, Guesses
  <2>3. QED
    BY <2>1, <2>2 DEF GuessInv
<1>25. CASE UNCHANGED vars
  BY <1>25 DEF vars, GuessInv, Guesses, At
<1>26. QED
  BY <1>1, <1>2, <1>3, <1>4, <1>5, <1>6, <1>7, <1>8, <1>9, <1>10, <1>11, <1>12, <1>13,
     <1>14, <1>15, <1>16, <1>17, <1>18, <1>19, <1>20, <1>21, <1>22, <1>23,
     <1>24, <1>25 DEF Next, Proceed

\* Wrong passwords within one window are fewer than the limit, but for the
\* logins that were past the count together: the count and the record are two
\* statements (login in routes/auth.rs).
THEOREM GuessesStayBounded == Spec => []GuessesAreBounded
<1>1. Init => GuessInv
  <2> SUFFICES ASSUME Init PROVE GuessInv
    OBVIOUS
  <2>1. Guesses = {} /\ At(Guessing) = {} /\ widest = 0
    BY DEF Init, Guesses, At, Guessing
  <2>2. QED
    BY <2>1, FS_EmptySet, SessionsAssumption DEF GuessInv
<1>2. SessionInv /\ GuessInv => GuessesAreBounded
  BY FiniteRequests, GuessesAreFinite, SessionsAssumption
     DEF SessionInv, TypeOK, GuessInv, Guesses, GuessesAreBounded
<1>3. QED
  BY <1>1, <1>2, NextGuessInv, SessionInvHolds, PTL DEF Spec
=============================================================================
