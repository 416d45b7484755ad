-------------------------- MODULE GenerationProofs --------------------------
(***************************************************************************)
(* Theorems about Generation, for any number of users, sessions, posts and *)
(* keys, and any limits on the permits and the slots.                      *)
(***************************************************************************)
EXTENDS Generation, FiniteSetTheorems, TLAPS

USE DEF rowVars, slotVars

\* Each request is at a statement of its own handler.
Kinds ==
  \A r \in Requests :
    /\ pc[r] \in {"insert", "storeCreated"} => r \in Creates
    /\ pc[r] \in Holding \union Synthetic \union {"countChunks", "wait"} => r \in Posts

(***************************************************************************)
(* What leaked belongs to requests that are over.                          *)
(***************************************************************************)
AccountInv == SlotsAreAccountedFor /\ \A r \in leaked : pc[r] = "ended"

GenInv == Typed /\ Kinds /\ AccountInv

-----------------------------------------------------------------------------
LEMMA SlotOfRequest == \A r \in Requests : Slot(r) \in Slots /\ UserOf(r) \in Users
BY RequestsAssumption DEF Slots, UserOf, Requests

LEMMA FiniteSlots ==
  /\ \A S : /\ At(S) \subseteq Requests
            /\ IsFiniteSet(At(S)) /\ Cardinality(At(S)) \in Nat
            /\ \A u : /\ IsFiniteSet(OfUser(At(S), u))
                      /\ Cardinality(OfUser(At(S), u)) \in Nat
  /\ Typed => \A u : /\ IsFiniteSet(OfUser(leaked, u))
                     /\ Cardinality(OfUser(leaked, u)) \in Nat
<1>1. IsFiniteSet(Requests) /\ IsFiniteSet(Posts)
  BY RequestsAssumption, FS_Union DEF Requests
<1>2. \A S : At(S) \subseteq Requests /\ \A u : OfUser(At(S), u) \subseteq Requests
  BY DEF At, OfUser
<1>3. Typed => \A u : OfUser(leaked, u) \subseteq Posts
  BY DEF Typed, OfUser
<1>4. QED
  BY <1>1, <1>2, <1>3, FS_Subset, FS_CardinalityType

\* Somebody who holds something is counted.
LEMMA HeldIsCounted ==
  ASSUME Typed, AccountInv, NEW r \in Requests
  PROVE  /\ pc[r] \in Holding => permits < MaxGeneration
         /\ pc[r] \in Counted => counts[UserOf(r)] > 0
<1>1. ASSUME pc[r] \in Holding PROVE permits < MaxGeneration
  <2>1. r \in At(Holding)
    BY <1>1 DEF At
  <2>2. IsFiniteSet(At(Holding)) /\ Cardinality(At(Holding)) \in Nat
    BY FiniteSlots
  <2>3. Cardinality(At(Holding)) # 0
    BY <2>1, <2>2, FS_EmptySet
  <2>4. permits + Cardinality(At(Holding)) = MaxGeneration
    BY DEF AccountInv, SlotsAreAccountedFor
  <2>5. permits \in Nat
    BY CapsAssumption DEF Typed
  <2>6. QED
    BY <2>2, <2>3, <2>4, <2>5
<1>2. ASSUME pc[r] \in Counted PROVE counts[UserOf(r)] > 0
  <2>1. r \in OfUser(At(Counted), UserOf(r))
    BY <1>2 DEF At, OfUser
  <2> DEFINE c == Cardinality(OfUser(At(Counted), UserOf(r)))
             l == Cardinality(OfUser(leaked, UserOf(r)))
  <2>2. IsFiniteSet(OfUser(At(Counted), UserOf(r))) /\ c \in Nat /\ l \in Nat
    BY FiniteSlots
  <2>3. c # 0
    BY <2>1, <2>2, FS_EmptySet
  <2>4. counts[UserOf(r)] = c + l
    BY SlotOfRequest DEF AccountInv, SlotsAreAccountedFor
  <2>5. QED
    BY <2>2, <2>3, <2>4
<1>3. QED
  BY <1>1, <1>2

LEMMA InitGenInv == Init => GenInv
<1> SUFFICES ASSUME Init PROVE GenInv
  OBVIOUS
<1>1. Typed
  BY CapsAssumption DEF Init, Typed
<1>2. Kinds
  BY DEF Init, Kinds, Holding, Counted, Streaming, Synthetic
<1>3. AccountInv
  <2>1. At(Holding) = {} /\ \A u : OfUser(At(Counted), u) = {} /\ OfUser(leaked, u) = {}
    BY DEF Init, At, OfUser, Holding, Counted, Streaming
  <2>2. Cardinality({}) = 0
    BY FS_EmptySet
  <2>3. permits + Cardinality(At(Holding)) = MaxGeneration
    BY <2>1, <2>2, CapsAssumption DEF Init
  <2>4. \A u \in Users :
          counts[u] = Cardinality(OfUser(At(Counted), u)) + Cardinality(OfUser(leaked, u))
    <3>1. SUFFICES ASSUME NEW u \in Users
                   PROVE  counts[u] = Cardinality(OfUser(At(Counted), u)) + Cardinality(OfUser(leaked, u))
      OBVIOUS
    <3>2. OfUser(At(Counted), u) = {} /\ OfUser(leaked, u) = {}
      BY <2>1
    <3>3. counts[u] = 0
      BY DEF Init
    <3>4. QED
      BY <2>2, <3>2, <3>3
  <2>5. QED
    BY <2>3, <2>4 DEF Init, AccountInv, SlotsAreAccountedFor
<1>4. QED
  BY <1>1, <1>2, <1>3 DEF GenInv

\* Every step leaves every variable in its type.
LEMMA NextTyped == GenInv /\ [Next]_vars => Typed'
<1> SUFFICES ASSUME GenInv, [Next]_vars PROVE Typed'
  OBVIOUS
<1> USE SlotOfRequest, HeldIsCounted, RequestsAssumption, CapsAssumption DEF GenInv, Requests, Holding, Handling, Synthetic,
       Streaming, Counted
<1>1. ASSUME NEW r \in Requests, Arrive(r) PROVE Typed'
  BY <1>1 DEF Arrive, GoTo, Typed, Kinds
<1>2. ASSUME NEW r \in Requests, CheckKey(r) PROVE Typed'
  BY <1>2 DEF CheckKey, GoTo, Typed, Kinds
<1>3. ASSUME NEW c \in Creates, InsertSession(c) PROVE Typed'
  BY <1>3 DEF InsertSession, GoTo, Typed, Kinds
<1>4. ASSUME NEW c \in Creates, StoreCreated(c) PROVE Typed'
  BY <1>4 DEF StoreCreated, Keep, GoTo, Typed, Kinds
<1>5. ASSUME NEW r \in Posts, CountChunks(r) PROVE Typed'
  BY <1>5 DEF CountChunks, GoTo, Typed, Kinds
<1>6. ASSUME NEW r \in Posts, Acquire(r) PROVE Typed'
  BY <1>6 DEF Acquire, GoTo, Typed, Kinds
<1>7. ASSUME NEW r \in Posts, Admit(r) PROVE Typed'
  BY <1>7 DEF Admit, GoTo, Typed, Kinds
<1>8. ASSUME NEW r \in Posts, Refuse(r) PROVE Typed'
  BY <1>8 DEF Refuse, GivePermit, GoTo, Typed, Kinds
<1>9. ASSUME NEW r \in Posts, PersistAsked(r) PROVE Typed'
  BY <1>9 DEF PersistAsked, LoseSlot, GivePermit, GoTo, Typed, Kinds
<1>10. ASSUME NEW r \in Posts, Prepare(r) PROVE Typed'
  BY <1>10 DEF Prepare, GoTo, Typed, Kinds
<1>11. ASSUME NEW r \in Posts, CreateAnswer(r) PROVE Typed'
  <2>1. CASE SessionOf[r] \in sessions
    BY <1>11, <2>1 DEF CreateAnswer, GoTo, Typed
  <2>2. CASE SessionOf[r] \notin sessions
    <3>1. /\ GivePermit /\ GiveSlot(r) /\ GoTo(r, "ended") /\ pc[r] = "createAnswer"
          /\ UNCHANGED <<rowVars, replies, line, leaked, replayed, repeat, cut, spent>>
      BY <1>11, <2>2 DEF CreateAnswer, EndStream
    <3>2. permits' \in 0 .. MaxGeneration /\ counts' \in [Users -> 0 .. UserCap]
      BY <3>1 DEF GivePermit, GiveSlot, Typed
    <3>3. QED
      BY <3>1, <3>2 DEF GoTo, Typed
  <2>3. QED
    BY <2>1, <2>2
<1>12. ASSUME NEW r \in Posts, Generate(r) PROVE Typed'
  BY <1>12 DEF Generate, GoTo, Typed, Kinds
<1>13. ASSUME NEW r \in Posts, Store(r) PROVE Typed'
  BY <1>13 DEF Store, Keep, EndStream, GivePermit, GiveSlot, GoTo, Typed, Kinds
<1>14. ASSUME NEW r \in Posts, AnswerSynthetic(r) PROVE Typed'
  <2>1. replies' \in [Slots -> Requests \union {None, Stale}]
    BY <1>14 DEF AnswerSynthetic, Keep, Typed
  <2>2. PICK l \in {"answerSynthetic", "storeSynthetic", "ended"} : GoTo(r, l)
    BY <1>14 DEF AnswerSynthetic
  <2>3. asked' \in SUBSET Posts /\ answer' \in [Posts -> {"none", "empty", "written"}]
    BY <1>14 DEF AnswerSynthetic, Typed
  <2>4. pc' \in [Requests -> {"idle", "admit", "storeCreated", "ended"}
                               \union Handling \union Synthetic \union Streaming]
    BY <2>2 DEF GoTo, Typed
  <2>5. QED
    BY <1>14, <2>1, <2>3, <2>4 DEF AnswerSynthetic, Typed
<1>15. ASSUME NEW r \in Requests, HandlerDies(r) PROVE Typed'
  BY <1>15 DEF HandlerDies, LoseSlot, GivePermit, GoTo, Spend, Typed, Kinds
<1>16. ASSUME NEW r \in Posts, WaitTimesOut(r) PROVE Typed'
  BY <1>16 DEF WaitTimesOut, GoTo, Typed, Kinds
<1>17. ASSUME NEW r \in Posts, TaskFails(r) PROVE Typed'
  BY <1>17 DEF TaskFails, EndStream, GivePermit, GiveSlot, GoTo, Spend, Typed, Kinds
<1>18. ASSUME NEW c \in Creates, DeleteSession(c) PROVE Typed'
  BY <1>18 DEF DeleteSession, Typed, Kinds
<1>19. ASSUME NEW s \in Slots, ExpireKey(s) PROVE Typed'
  BY <1>19 DEF ExpireKey, Spend, At, Typed, Kinds
<1>20. ASSUME NEW s \in Slots, PruneKey(s) PROVE Typed'
  BY <1>20 DEF PruneKey, Typed, Kinds
<1>21. CASE Crash
  BY <1>21 DEF Crash, Spend, At, Typed, Kinds
<1>22. CASE UNCHANGED vars
  BY <1>22 DEF vars, Typed, Kinds
<1>23. QED
  BY <1>1, <1>2, <1>3, <1>4, <1>5, <1>6, <1>7, <1>8, <1>9, <1>10, <1>11, <1>12, <1>13,
     <1>14, <1>15, <1>16, <1>17, <1>18, <1>19, <1>20, <1>21, <1>22 DEF Next, Proceed, Requests

\* Every step leaves every request in its own handler.
LEMMA NextKinds == GenInv /\ [Next]_vars => Kinds'
<1> SUFFICES ASSUME GenInv, [Next]_vars PROVE Kinds'
  OBVIOUS
<1> USE DEF GenInv, Requests, Holding, Handling, Synthetic, Streaming, Counted
<1>1. ASSUME NEW r \in Requests, Arrive(r) PROVE Kinds'
  BY <1>1 DEF Arrive, GoTo, Typed, Kinds
<1>2. ASSUME NEW r \in Requests, CheckKey(r) PROVE Kinds'
  BY <1>2 DEF CheckKey, GoTo, Typed, Kinds
<1>3. ASSUME NEW c \in Creates, InsertSession(c) PROVE Kinds'
  BY <1>3 DEF InsertSession, GoTo, Typed, Kinds
<1>4. ASSUME NEW c \in Creates, StoreCreated(c) PROVE Kinds'
  BY <1>4 DEF StoreCreated, Keep, GoTo, Typed, Kinds
<1>5. ASSUME NEW r \in Posts, CountChunks(r) PROVE Kinds'
  BY <1>5 DEF CountChunks, GoTo, Typed, Kinds
<1>6. ASSUME NEW r \in Posts, Acquire(r) PROVE Kinds'
  BY <1>6 DEF Acquire, GoTo, Typed, Kinds
<1>7. ASSUME NEW r \in Posts, Admit(r) PROVE Kinds'
  BY <1>7 DEF Admit, GoTo, Typed, Kinds
<1>8. ASSUME NEW r \in Posts, Refuse(r) PROVE Kinds'
  BY <1>8 DEF Refuse, GivePermit, GoTo, Typed, Kinds
<1>9. ASSUME NEW r \in Posts, PersistAsked(r) PROVE Kinds'
  BY <1>9 DEF PersistAsked, LoseSlot, GivePermit, GoTo, Typed, Kinds
<1>10. ASSUME NEW r \in Posts, Prepare(r) PROVE Kinds'
  BY <1>10 DEF Prepare, GoTo, Typed, Kinds
<1>11. ASSUME NEW r \in Posts, CreateAnswer(r) PROVE Kinds'
  BY <1>11 DEF CreateAnswer, EndStream, GivePermit, GiveSlot, GoTo, Typed, Kinds
<1>12. ASSUME NEW r \in Posts, Generate(r) PROVE Kinds'
  BY <1>12 DEF Generate, GoTo, Typed, Kinds
<1>13. ASSUME NEW r \in Posts, Store(r) PROVE Kinds'
  BY <1>13 DEF Store, Keep, EndStream, GivePermit, GiveSlot, GoTo, Typed, Kinds
<1>14. ASSUME NEW r \in Posts, AnswerSynthetic(r) PROVE Kinds'
  BY <1>14 DEF AnswerSynthetic, Keep, GoTo, Typed, Kinds
<1>15. ASSUME NEW r \in Requests, HandlerDies(r) PROVE Kinds'
  BY <1>15 DEF HandlerDies, LoseSlot, GivePermit, GoTo, Spend, Typed, Kinds
<1>16. ASSUME NEW r \in Posts, WaitTimesOut(r) PROVE Kinds'
  BY <1>16 DEF WaitTimesOut, GoTo, Typed, Kinds
<1>17. ASSUME NEW r \in Posts, TaskFails(r) PROVE Kinds'
  BY <1>17 DEF TaskFails, EndStream, GivePermit, GiveSlot, GoTo, Spend, Typed, Kinds
<1>18. ASSUME NEW c \in Creates, DeleteSession(c) PROVE Kinds'
  BY <1>18 DEF DeleteSession, Typed, Kinds
<1>19. ASSUME NEW s \in Slots, ExpireKey(s) PROVE Kinds'
  BY <1>19 DEF ExpireKey, Spend, At, Typed, Kinds
<1>20. ASSUME NEW s \in Slots, PruneKey(s) PROVE Kinds'
  BY <1>20 DEF PruneKey, Typed, Kinds
<1>21. CASE Crash
  BY <1>21 DEF Crash, Spend, At, Typed, Kinds
<1>22. CASE UNCHANGED vars
  BY <1>22 DEF vars, Typed, Kinds
<1>23. QED
  BY <1>1, <1>2, <1>3, <1>4, <1>5, <1>6, <1>7, <1>8, <1>9, <1>10, <1>11, <1>12, <1>13,
     <1>14, <1>15, <1>16, <1>17, <1>18, <1>19, <1>20, <1>21, <1>22 DEF Next, Proceed, Requests

-----------------------------------------------------------------------------
(***************************************************************************)
(* The four ways in which a request's move touches the accounts.           *)
(***************************************************************************)
LEMMA SetsMove ==
  ASSUME Typed, NEW r \in Requests, NEW l, GoTo(r, l), NEW S
  PROVE  /\ pc[r] \in S /\ l \notin S => At(S)' = At(S) \ {r} /\ r \in At(S)
         /\ pc[r] \notin S /\ l \in S => At(S)' = At(S) \union {r} /\ r \notin At(S)
         /\ (pc[r] \in S <=> l \in S) => At(S)' = At(S)
BY DEF Typed, GoTo, At

LEMMA StaysAccounted ==
  ASSUME Typed, AccountInv, NEW r \in Requests, NEW l, GoTo(r, l), pc[r] # "ended",
         pc[r] \in Holding <=> l \in Holding, pc[r] \in Counted <=> l \in Counted,
         UNCHANGED <<permits, counts, leaked>>
  PROVE  AccountInv'
<1>1. At(Holding)' = At(Holding) /\ At(Counted)' = At(Counted)
  BY SetsMove
<1>2. \A q \in leaked : pc'[q] = "ended"
  BY DEF AccountInv, GoTo, Typed, Requests
<1>3. QED
  BY <1>1, <1>2 DEF AccountInv, SlotsAreAccountedFor, OfUser

\* A request gives its permit back, and its slot, or leaks it.
LEMMA GivesBack ==
  ASSUME GenInv, NEW r \in Posts, GoTo(r, "ended"), GivePermit, pc[r] \in Counted,
         \/ GiveSlot(r) /\ UNCHANGED leaked
         \/ leaked' = leaked \union {r} /\ UNCHANGED counts
  PROVE  AccountInv'
<1> USE DEF GenInv
<1> DEFINE C(u) == OfUser(At(Counted), u)
           L(u) == OfUser(leaked, u)
<1>0. r \in Requests /\ UserOf(r) \in Users /\ "ended" \notin Holding /\ "ended" \notin Counted
      /\ pc[r] \in Holding /\ pc[r] # "ended"
  BY SlotOfRequest DEF Requests, Holding, Counted, Streaming
<1>1. /\ At(Holding)' = At(Holding) \ {r} /\ r \in At(Holding)
      /\ At(Counted)' = At(Counted) \ {r} /\ r \in At(Counted)
  BY <1>0, SetsMove
<1>2. Cardinality(At(Holding)') = Cardinality(At(Holding)) - 1
  BY <1>1, FiniteSlots, FS_RemoveElement
<1>3. permits' + Cardinality(At(Holding)') = MaxGeneration
  BY <1>2, FiniteSlots, CapsAssumption DEF GivePermit, AccountInv, SlotsAreAccountedFor, Typed
<1>4. ASSUME NEW u \in Users
      PROVE  counts'[u] = Cardinality(C(u)') + Cardinality(L(u)')
  <2>1. counts[u] = Cardinality(C(u)) + Cardinality(L(u))
    BY DEF AccountInv, SlotsAreAccountedFor
  <2>2. CASE u # UserOf(r)
    <3>1. C(u)' = C(u) /\ L(u)' = L(u)
      BY <1>1, <2>2 DEF OfUser
    <3>2. counts'[u] = counts[u]
      BY <1>0, <2>2 DEF GiveSlot, Typed
    <3>3. QED
      BY <2>1, <3>1, <3>2
  <2>3. CASE u = UserOf(r)
    <3>1. C(u)' = C(u) \ {r} /\ r \in C(u)
      BY <1>1, <2>3 DEF OfUser
    <3>2. Cardinality(C(u)') = Cardinality(C(u)) - 1
      <4>1. IsFiniteSet(C(u))
        BY FiniteSlots
      <4> HIDE DEF C
      <4>2. QED
        BY <3>1, <4>1, FS_RemoveElement
    <3>3. CASE GiveSlot(r) /\ UNCHANGED leaked
      <4>1. L(u)' = L(u)
        BY <3>3 DEF OfUser
      <4>2. counts'[u] = counts[u] - 1
        BY <3>3, <2>3 DEF GiveSlot, Typed
      <4>3. QED
        BY <2>1, <3>2, <4>1, <4>2, FiniteSlots
    <3>4. CASE leaked' = leaked \union {r} /\ UNCHANGED counts
      <4>1. r \notin leaked
        BY <1>0 DEF AccountInv
      <4>2. L(u)' = L(u) \union {r} /\ r \notin L(u)
        BY <2>3, <3>4, <4>1 DEF OfUser
      <4>3. Cardinality(L(u)') = Cardinality(L(u)) + 1
        BY <4>2, FiniteSlots, FS_AddElement
      <4>4. QED
        BY <2>1, <3>2, <3>4, <4>3, FiniteSlots
    <3>5. QED
      BY <3>3, <3>4
  <2>4. QED
    BY <2>2, <2>3
<1>5. \A q \in leaked' : pc'[q] = "ended"
  BY <1>0 DEF AccountInv, GoTo, Typed, Requests
<1>6. QED
  BY <1>3, <1>4, <1>5 DEF AccountInv, SlotsAreAccountedFor

LEMMA AcquireAccounted == ASSUME GenInv, NEW r \in Posts, Acquire(r) PROVE AccountInv'
<1> USE DEF GenInv
<1>1. /\ r \in Requests /\ GoTo(r, "admit") /\ pc[r] = "wait" /\ permits' = permits - 1
      /\ UNCHANGED <<counts, leaked>>
  BY DEF Acquire, Requests
<1>2. /\ At(Holding)' = At(Holding) \union {r} /\ r \notin At(Holding)
      /\ At(Counted)' = At(Counted)
  BY <1>1, SetsMove DEF Holding, Counted, Streaming
<1>3. Cardinality(At(Holding)') = Cardinality(At(Holding)) + 1
  BY <1>2, FiniteSlots, FS_AddElement
<1>4. permits' + Cardinality(At(Holding)') = MaxGeneration
  BY <1>1, <1>3, FiniteSlots DEF AccountInv, SlotsAreAccountedFor, Typed
<1>5. \A q \in leaked' : pc'[q] = "ended"
  BY <1>1 DEF AccountInv, GoTo, Typed, Requests
<1>6. QED
  BY <1>1, <1>2, <1>4, <1>5 DEF AccountInv, SlotsAreAccountedFor, OfUser

LEMMA AdmitAccounted == ASSUME GenInv, NEW r \in Posts, Admit(r) PROVE AccountInv'
<1> USE DEF GenInv
<1> DEFINE C(u) == OfUser(At(Counted), u)
<1>1. /\ r \in Requests /\ UserOf(r) \in Users /\ GoTo(r, "persistAsked") /\ pc[r] = "admit"
      /\ counts' = [counts EXCEPT ![UserOf(r)] = @ + 1] /\ UNCHANGED <<permits, leaked>>
  BY SlotOfRequest DEF Admit, Requests
<1>2. /\ At(Counted)' = At(Counted) \union {r} /\ r \notin At(Counted)
      /\ At(Holding)' = At(Holding)
  BY <1>1, SetsMove DEF Holding, Counted, Streaming
<1>3. ASSUME NEW u \in Users
      PROVE  counts'[u] = Cardinality(C(u)') + Cardinality(OfUser(leaked, u)')
  <2>1. counts[u] = Cardinality(C(u)) + Cardinality(OfUser(leaked, u))
    BY DEF AccountInv, SlotsAreAccountedFor
  <2>2. OfUser(leaked, u)' = OfUser(leaked, u)
    BY <1>1 DEF OfUser
  <2>3. CASE u # UserOf(r)
    <3>1. C(u)' = C(u)
      BY <1>2, <2>3 DEF OfUser
    <3>2. counts'[u] = counts[u]
      BY <1>1, <2>3 DEF Typed
    <3>3. QED
      BY <2>1, <2>2, <3>1, <3>2
  <2>4. CASE u = UserOf(r)
    <3>1. C(u)' = C(u) \union {r} /\ r \notin C(u)
      BY <1>2, <2>4 DEF OfUser
    <3>2. Cardinality(C(u)') = Cardinality(C(u)) + 1
      BY <3>1, FiniteSlots, FS_AddElement
    <3>3. counts'[u] = counts[u] + 1
      BY <1>1, <2>4 DEF Typed
    <3>4. QED
      BY <2>1, <2>2, <3>2, <3>3, FiniteSlots
  <2>5. QED
    BY <2>3, <2>4
<1>4. \A q \in leaked' : pc'[q] = "ended"
  BY <1>1 DEF AccountInv, GoTo, Typed, Requests
<1>5. QED
  BY <1>1, <1>2, <1>3, <1>4 DEF AccountInv, SlotsAreAccountedFor

LEMMA RefuseAccounted == ASSUME GenInv, NEW r \in Posts, Refuse(r) PROVE AccountInv'
<1> USE DEF GenInv
<1>1. /\ r \in Requests /\ GoTo(r, "ended") /\ pc[r] = "admit" /\ permits' = permits + 1
      /\ UNCHANGED <<counts, leaked>>
  BY DEF Refuse, GivePermit, Requests
<1>2. /\ At(Holding)' = At(Holding) \ {r} /\ r \in At(Holding)
      /\ At(Counted)' = At(Counted)
  BY <1>1, SetsMove DEF Holding, Counted, Streaming
<1>3. Cardinality(At(Holding)') = Cardinality(At(Holding)) - 1
  BY <1>2, FiniteSlots, FS_RemoveElement
<1>4. permits' + Cardinality(At(Holding)') = MaxGeneration
  BY <1>1, <1>3, FiniteSlots DEF AccountInv, SlotsAreAccountedFor, Typed
<1>5. \A q \in leaked' : pc'[q] = "ended"
  BY <1>1 DEF AccountInv, GoTo, Typed, Requests
<1>6. QED
  BY <1>1, <1>2, <1>4, <1>5 DEF AccountInv, SlotsAreAccountedFor, OfUser

\* Every step keeps the accounts of permits and slots.
LEMMA NextAccountInv == GenInv /\ [Next]_vars => AccountInv'
<1> SUFFICES ASSUME GenInv, [Next]_vars PROVE AccountInv'
  OBVIOUS
<1> USE DEF GenInv
<1>1. ASSUME NEW r \in Requests, Arrive(r) PROVE AccountInv'
  <2>1. PICK l \in {"ended", "checkKey"} : GoTo(r, l)
    BY <1>1 DEF Arrive
  <2>2. QED
    BY <1>1, <2>1, StaysAccounted DEF Arrive, Requests, Synthetic, Handling, Holding, Counted, Streaming
<1>2. ASSUME NEW r \in Requests, CheckKey(r) PROVE AccountInv'
  <2>1. PICK l \in {"ended", "countChunks", "insert"} : GoTo(r, l)
    BY <1>2 DEF CheckKey
  <2>2. QED
    BY <1>2, <2>1, StaysAccounted DEF CheckKey, Requests, Synthetic, Handling, Holding, Counted, Streaming
<1>3. ASSUME NEW c \in Creates, InsertSession(c) PROVE AccountInv'
  <2>1. PICK l \in {"storeCreated"} : GoTo(c, l)
    BY <1>3 DEF InsertSession
  <2>2. QED
    BY <1>3, <2>1, StaysAccounted DEF InsertSession, Requests, Synthetic, Handling, Holding, Counted, Streaming
<1>4. ASSUME NEW c \in Creates, StoreCreated(c) PROVE AccountInv'
  <2>1. PICK l \in {"ended"} : GoTo(c, l)
    BY <1>4 DEF StoreCreated
  <2>2. QED
    BY <1>4, <2>1, StaysAccounted DEF StoreCreated, Requests, Synthetic, Handling, Holding, Counted, Streaming
<1>5. ASSUME NEW r \in Posts, CountChunks(r) PROVE AccountInv'
  <2>1. PICK l \in {"askSynthetic", "wait"} : GoTo(r, l)
    BY <1>5 DEF CountChunks
  <2>2. QED
    BY <1>5, <2>1, StaysAccounted DEF CountChunks, Requests, Synthetic, Handling, Holding, Counted, Streaming
<1>6. ASSUME NEW r \in Posts, Acquire(r) PROVE AccountInv'
  BY <1>6, AcquireAccounted
<1>7. ASSUME NEW r \in Posts, Admit(r) PROVE AccountInv'
  BY <1>7, AdmitAccounted
<1>8. ASSUME NEW r \in Posts, Refuse(r) PROVE AccountInv'
  BY <1>8, RefuseAccounted
<1>9. ASSUME NEW r \in Posts, PersistAsked(r) PROVE AccountInv'
  <2>1. CASE SessionOf[r] \in sessions
    BY <1>9, <2>1, StaysAccounted DEF PersistAsked, Requests, Holding, Counted, Streaming
  <2>2. CASE SessionOf[r] \notin sessions
    BY <1>9, <2>2, GivesBack DEF PersistAsked, LoseSlot, Holding, Counted, Streaming
  <2>3. QED
    BY <2>1, <2>2
<1>10. ASSUME NEW r \in Posts, Prepare(r) PROVE AccountInv'
  <2>1. PICK l \in {"createAnswer"} : GoTo(r, l)
    BY <1>10 DEF Prepare
  <2>2. QED
    BY <1>10, <2>1, StaysAccounted DEF Prepare, Requests, Synthetic, Handling, Holding, Counted, Streaming
<1>11. ASSUME NEW r \in Posts, CreateAnswer(r) PROVE AccountInv'
  <2>1. CASE SessionOf[r] \in sessions
    BY <1>11, <2>1, StaysAccounted DEF CreateAnswer, Requests, Holding, Counted, Streaming
  <2>2. CASE SessionOf[r] \notin sessions
    BY <1>11, <2>2, GivesBack DEF CreateAnswer, EndStream, Holding, Counted, Streaming
  <2>3. QED
    BY <2>1, <2>2
<1>12. ASSUME NEW r \in Posts, Generate(r) PROVE AccountInv'
  <2>1. PICK l \in {"store"} : GoTo(r, l)
    BY <1>12 DEF Generate
  <2>2. QED
    BY <1>12, <2>1, StaysAccounted DEF Generate, Requests, Synthetic, Handling, Holding, Counted, Streaming
<1>13. ASSUME NEW r \in Posts, Store(r) PROVE AccountInv'
  BY <1>13, GivesBack DEF Store, EndStream, Holding, Counted, Streaming
<1>14. ASSUME NEW r \in Posts, AnswerSynthetic(r) PROVE AccountInv'
  <2>1. PICK l \in {"answerSynthetic", "storeSynthetic", "ended"} : GoTo(r, l)
    BY <1>14 DEF AnswerSynthetic
  <2>2. QED
    BY <1>14, <2>1, StaysAccounted DEF AnswerSynthetic, Requests, Synthetic, Handling, Holding, Counted, Streaming
<1>15. ASSUME NEW r \in Requests, HandlerDies(r) PROVE AccountInv'
  <2>1. CASE pc[r] \in Counted
    <3>1. r \in Posts
      BY <2>1 DEF Kinds, Holding
    <3>2. LoseSlot(r) /\ UNCHANGED counts
      BY <1>15, <2>1 DEF HandlerDies
    <3>3. QED
      BY <2>1, <3>1, <3>2, GivesBack DEF LoseSlot
  <2>2. CASE pc[r] \notin Counted
    <3>1. GoTo(r, "ended") /\ UNCHANGED <<permits, counts, leaked>>
      BY <1>15, <2>2 DEF HandlerDies
    <3>2. pc[r] \notin Holding /\ pc[r] # "ended"
      BY <1>15, <2>2 DEF HandlerDies, Handling, Holding, Counted, Streaming
    <3>3. "ended" \notin Holding /\ "ended" \notin Counted
      BY DEF Holding, Counted, Streaming
    <3>4. QED
      BY <2>2, <3>1, <3>2, <3>3, StaysAccounted
  <2>3. QED
    BY <2>1, <2>2
<1>16. ASSUME NEW r \in Posts, WaitTimesOut(r) PROVE AccountInv'
  <2>1. PICK l \in {"ended"} : GoTo(r, l)
    BY <1>16 DEF WaitTimesOut
  <2>2. QED
    BY <1>16, <2>1, StaysAccounted DEF WaitTimesOut, Requests, Synthetic, Handling, Holding, Counted, Streaming
<1>17. ASSUME NEW r \in Posts, TaskFails(r) PROVE AccountInv'
  <2>1. CASE EndStream(r) /\ UNCHANGED leaked /\ pc[r] \in {"createAnswer", "store"}
    BY <2>1, GivesBack DEF EndStream, Holding, Counted, Streaming
  <2>2. ASSUME NEW l \in {"store", "answerSynthetic", "storeSynthetic", "ended"}, GoTo(r, l),
               (pc[r] = "generate" /\ l = "store") \/ (pc[r] \in Synthetic /\ l # "store"),
               UNCHANGED <<permits, counts, leaked>>
        PROVE  AccountInv'
    BY <2>2, StaysAccounted DEF Requests, Synthetic, Holding, Counted, Streaming
  <2>3. QED
    BY <1>17, <2>1, <2>2 DEF TaskFails, Synthetic
<1>18. ASSUME NEW c \in Creates, DeleteSession(c) PROVE AccountInv'
  BY <1>18 DEF DeleteSession, AccountInv, SlotsAreAccountedFor, At, OfUser
<1>19. ASSUME NEW s \in Slots, ExpireKey(s) PROVE AccountInv'
  BY <1>19 DEF ExpireKey, AccountInv, SlotsAreAccountedFor, At, OfUser
<1>20. ASSUME NEW s \in Slots, PruneKey(s) PROVE AccountInv'
  BY <1>20 DEF PruneKey, AccountInv, SlotsAreAccountedFor, At, OfUser
<1>21. CASE Crash
  <2>1. At(Holding)' = {} /\ \A u : OfUser(At(Counted), u)' = {} /\ OfUser(leaked, u)' = {}
    BY <1>21 DEF Crash, At, OfUser, Holding, Counted, Streaming
  <2>2. Cardinality({}) = 0
    BY FS_EmptySet
  <2>3. permits' + Cardinality(At(Holding)') = MaxGeneration
    BY <1>21, <2>1, <2>2, CapsAssumption DEF Crash
  <2>4. \A u \in Users :
          counts'[u] = Cardinality(OfUser(At(Counted), u)') + Cardinality(OfUser(leaked, u)')
    <3>1. SUFFICES ASSUME NEW u \in Users
                   PROVE  counts'[u] = Cardinality(OfUser(At(Counted), u)') + Cardinality(OfUser(leaked, u)')
      OBVIOUS
    <3>2. OfUser(At(Counted), u)' = {} /\ OfUser(leaked, u)' = {}
      BY <2>1
    <3>3. counts'[u] = 0
      BY <1>21 DEF Crash
    <3>4. QED
      BY <2>2, <3>2, <3>3
  <2>5. QED
    BY <1>21, <2>3, <2>4 DEF Crash, AccountInv, SlotsAreAccountedFor
<1>22. CASE UNCHANGED vars
  BY <1>22 DEF vars, AccountInv, SlotsAreAccountedFor, At, OfUser
<1>23. QED
  BY <1>1, <1>2, <1>3, <1>4, <1>5, <1>6, <1>7, <1>8, <1>9, <1>10, <1>11, <1>12, <1>13,
     <1>14, <1>15, <1>16, <1>17, <1>18, <1>19, <1>20, <1>21, <1>22 DEF Next, Proceed, Requests

LEMMA GenInvHolds == Spec => []GenInv
<1>1. GenInv /\ [Next]_vars => GenInv'
  BY NextTyped, NextKinds, NextAccountInv DEF GenInv
<1>2. QED
  BY <1>1, InitGenInv, PTL DEF Spec

\* Every permit and every slot is accounted for, for any number of posts and
\* users and any limits: none is given back twice, and a slot is lost only by an
\* early return after fetch_update (post_message in routes/chat.rs).
THEOREM SlotsAreNeverGivenBackTwice == Spec => []SlotsAreAccountedFor
BY GenInvHolds, PTL DEF GenInv, AccountInv

-----------------------------------------------------------------------------
(***************************************************************************)
(* A request that has not come yet has left nothing, and one that came when *)
(* its key was stored goes no further than the check of the key.           *)
(***************************************************************************)
RepeatInv ==
  /\ \A r \in Requests : pc[r] = "idle" =>
       r \notin sessions /\ r \notin asked /\ (r \in Posts => answer[r] = "none")
  /\ \A r \in repeat :
       \/ pc[r] = "ended"
       \/ pc[r] = "checkKey" /\ replies[Slot(r)] \in Requests
  /\ RepeatAddsNothing

\* No step lets a repeated request past the check of its key.
LEMMA NextRepeatInv == GenInv /\ RepeatInv /\ [Next]_vars => RepeatInv'
<1> SUFFICES ASSUME GenInv /\ RepeatInv, [Next]_vars PROVE RepeatInv'
  OBVIOUS
<1> USE SlotOfRequest, RequestsAssumption DEF GenInv, Requests, Handling, Synthetic, Streaming, Counted
<1>1. ASSUME NEW r \in Requests, Arrive(r) PROVE RepeatInv'
  BY <1>1 DEF Arrive, GoTo, RepeatInv, RepeatAddsNothing, Typed
<1>2. ASSUME NEW r \in Requests, CheckKey(r) PROVE RepeatInv'
  BY <1>2 DEF CheckKey, GoTo, RepeatInv, RepeatAddsNothing, Typed
<1>3. ASSUME NEW c \in Creates, InsertSession(c) PROVE RepeatInv'
  BY <1>3 DEF InsertSession, GoTo, RepeatInv, RepeatAddsNothing, Typed
<1>4. ASSUME NEW c \in Creates, StoreCreated(c) PROVE RepeatInv'
  BY <1>4 DEF StoreCreated, Keep, GoTo, RepeatInv, RepeatAddsNothing, Typed
<1>5. ASSUME NEW r \in Posts, CountChunks(r) PROVE RepeatInv'
  BY <1>5 DEF CountChunks, GoTo, RepeatInv, RepeatAddsNothing, Typed
<1>6. ASSUME NEW r \in Posts, Acquire(r) PROVE RepeatInv'
  BY <1>6 DEF Acquire, GoTo, RepeatInv, RepeatAddsNothing, Typed
<1>7. ASSUME NEW r \in Posts, Admit(r) PROVE RepeatInv'
  BY <1>7 DEF Admit, GoTo, RepeatInv, RepeatAddsNothing, Typed
<1>8. ASSUME NEW r \in Posts, Refuse(r) PROVE RepeatInv'
  BY <1>8 DEF Refuse, GivePermit, GoTo, RepeatInv, RepeatAddsNothing, Typed
<1>9. ASSUME NEW r \in Posts, PersistAsked(r) PROVE RepeatInv'
  BY <1>9 DEF PersistAsked, LoseSlot, GivePermit, GoTo, RepeatInv, RepeatAddsNothing, Typed
<1>10. ASSUME NEW r \in Posts, Prepare(r) PROVE RepeatInv'
  BY <1>10 DEF Prepare, GoTo, RepeatInv, RepeatAddsNothing, Typed
<1>11. ASSUME NEW r \in Posts, CreateAnswer(r) PROVE RepeatInv'
  BY <1>11 DEF CreateAnswer, EndStream, GivePermit, GiveSlot, GoTo, RepeatInv,
     RepeatAddsNothing, Typed
<1>12. ASSUME NEW r \in Posts, Generate(r) PROVE RepeatInv'
  BY <1>12 DEF Generate, GoTo, RepeatInv, RepeatAddsNothing, Typed
<1>13. ASSUME NEW r \in Posts, Store(r) PROVE RepeatInv'
  BY <1>13 DEF Store, Keep, EndStream, GivePermit, GiveSlot, GoTo, RepeatInv,
     RepeatAddsNothing, Typed
<1>14. ASSUME NEW r \in Posts, AnswerSynthetic(r) PROVE RepeatInv'
  BY <1>14 DEF AnswerSynthetic, Keep, GoTo, RepeatInv, RepeatAddsNothing, Typed
<1>15. ASSUME NEW r \in Requests, HandlerDies(r) PROVE RepeatInv'
  BY <1>15 DEF HandlerDies, LoseSlot, GivePermit, GoTo, Spend, RepeatInv, RepeatAddsNothing,
     Typed
<1>16. ASSUME NEW r \in Posts, WaitTimesOut(r) PROVE RepeatInv'
  BY <1>16 DEF WaitTimesOut, GoTo, RepeatInv, RepeatAddsNothing, Typed
<1>17. ASSUME NEW r \in Posts, TaskFails(r) PROVE RepeatInv'
  BY <1>17 DEF TaskFails, EndStream, GivePermit, GiveSlot, GoTo, Spend, RepeatInv,
     RepeatAddsNothing, Typed
<1>18. ASSUME NEW c \in Creates, DeleteSession(c) PROVE RepeatInv'
  BY <1>18 DEF DeleteSession, RepeatInv, RepeatAddsNothing, Typed
<1>19. ASSUME NEW s \in Slots, ExpireKey(s) PROVE RepeatInv'
  BY <1>19 DEF ExpireKey, Spend, At, RepeatInv, RepeatAddsNothing, Typed
<1>20. ASSUME NEW s \in Slots, PruneKey(s) PROVE RepeatInv'
  BY <1>20 DEF PruneKey, RepeatInv, RepeatAddsNothing, Typed
<1>21. CASE Crash
  BY <1>21 DEF Crash, Spend, At, RepeatInv, RepeatAddsNothing, Typed
<1>22. CASE UNCHANGED vars
  BY <1>22 DEF vars, RepeatInv, RepeatAddsNothing, Typed
<1>23. QED
  BY <1>1, <1>2, <1>3, <1>4, <1>5, <1>6, <1>7, <1>8, <1>9, <1>10, <1>11, <1>12, <1>13,
     <1>14, <1>15, <1>16, <1>17, <1>18, <1>19, <1>20, <1>21, <1>22 DEF Next, Proceed, Requests

\* A request repeated after its response was stored adds nothing, whatever the
\* other requests of the same user do, sessions deleted and streams lost included
\* (services/idempotency.rs, routes/chat.rs).
THEOREM RepeatsAddNothing == Spec => []RepeatAddsNothing
<1>1. Init => RepeatInv
  BY DEF Init, RepeatInv, RepeatAddsNothing
<1>2. QED
  BY <1>1, NextRepeatInv, GenInvHolds, PTL DEF Spec, RepeatInv

-----------------------------------------------------------------------------
\* A stored response is of a request with that key, which is over.
KeyInv ==
  \A s \in Slots : replies[s] \in Requests =>
    Slot(replies[s]) = s /\ pc[replies[s]] = "ended"

ReplayInv == KeyInv /\ ReplayIsFaithful

\* No step gives a request the response of another key or body.
LEMMA NextReplayInv == GenInv /\ ReplayInv /\ [Next]_vars => ReplayInv'
<1> SUFFICES ASSUME GenInv /\ ReplayInv, [Next]_vars PROVE ReplayInv'
  OBVIOUS
<1> USE SlotOfRequest, RequestsAssumption DEF GenInv, Requests, Handling, Synthetic, Streaming, Counted
<1>1. ASSUME NEW r \in Requests, Arrive(r) PROVE ReplayInv'
  BY <1>1 DEF Arrive, GoTo, ReplayInv, KeyInv, ReplayIsFaithful, Typed
<1>2. ASSUME NEW r \in Requests, CheckKey(r) PROVE ReplayInv'
  BY <1>2 DEF CheckKey, GoTo, ReplayInv, KeyInv, ReplayIsFaithful, Typed
<1>3. ASSUME NEW c \in Creates, InsertSession(c) PROVE ReplayInv'
  BY <1>3 DEF InsertSession, GoTo, ReplayInv, KeyInv, ReplayIsFaithful, Typed
<1>4. ASSUME NEW c \in Creates, StoreCreated(c) PROVE ReplayInv'
  BY <1>4 DEF StoreCreated, Keep, GoTo, ReplayInv, KeyInv, ReplayIsFaithful, Typed
<1>5. ASSUME NEW r \in Posts, CountChunks(r) PROVE ReplayInv'
  BY <1>5 DEF CountChunks, GoTo, ReplayInv, KeyInv, ReplayIsFaithful, Typed
<1>6. ASSUME NEW r \in Posts, Acquire(r) PROVE ReplayInv'
  BY <1>6 DEF Acquire, GoTo, ReplayInv, KeyInv, ReplayIsFaithful, Typed
<1>7. ASSUME NEW r \in Posts, Admit(r) PROVE ReplayInv'
  BY <1>7 DEF Admit, GoTo, ReplayInv, KeyInv, ReplayIsFaithful, Typed
<1>8. ASSUME NEW r \in Posts, Refuse(r) PROVE ReplayInv'
  BY <1>8 DEF Refuse, GivePermit, GoTo, ReplayInv, KeyInv, ReplayIsFaithful, Typed
<1>9. ASSUME NEW r \in Posts, PersistAsked(r) PROVE ReplayInv'
  BY <1>9 DEF PersistAsked, LoseSlot, GivePermit, GoTo, ReplayInv, KeyInv, ReplayIsFaithful,
     Typed
<1>10. ASSUME NEW r \in Posts, Prepare(r) PROVE ReplayInv'
  BY <1>10 DEF Prepare, GoTo, ReplayInv, KeyInv, ReplayIsFaithful, Typed
<1>11. ASSUME NEW r \in Posts, CreateAnswer(r) PROVE ReplayInv'
  BY <1>11 DEF CreateAnswer, EndStream, GivePermit, GiveSlot, GoTo, ReplayInv, KeyInv,
     ReplayIsFaithful, Typed
<1>12. ASSUME NEW r \in Posts, Generate(r) PROVE ReplayInv'
  BY <1>12 DEF Generate, GoTo, ReplayInv, KeyInv, ReplayIsFaithful, Typed
<1>13. ASSUME NEW r \in Posts, Store(r) PROVE ReplayInv'
  BY <1>13 DEF Store, Keep, EndStream, GivePermit, GiveSlot, GoTo, ReplayInv, KeyInv,
     ReplayIsFaithful, Typed
<1>14. ASSUME NEW r \in Posts, AnswerSynthetic(r) PROVE ReplayInv'
  BY <1>14 DEF AnswerSynthetic, Keep, GoTo, ReplayInv, KeyInv, ReplayIsFaithful, Typed
<1>15. ASSUME NEW r \in Requests, HandlerDies(r) PROVE ReplayInv'
  BY <1>15 DEF HandlerDies, LoseSlot, GivePermit, GoTo, Spend, ReplayInv, KeyInv,
     ReplayIsFaithful, Typed
<1>16. ASSUME NEW r \in Posts, WaitTimesOut(r) PROVE ReplayInv'
  BY <1>16 DEF WaitTimesOut, GoTo, ReplayInv, KeyInv, ReplayIsFaithful, Typed
<1>17. ASSUME NEW r \in Posts, TaskFails(r) PROVE ReplayInv'
  BY <1>17 DEF TaskFails, EndStream, GivePermit, GiveSlot, GoTo, Spend, ReplayInv, KeyInv,
     ReplayIsFaithful, Typed
<1>18. ASSUME NEW c \in Creates, DeleteSession(c) PROVE ReplayInv'
  BY <1>18 DEF DeleteSession, ReplayInv, KeyInv, ReplayIsFaithful, Typed
<1>19. ASSUME NEW s \in Slots, ExpireKey(s) PROVE ReplayInv'
  BY <1>19 DEF ExpireKey, Spend, At, ReplayInv, KeyInv, ReplayIsFaithful, Typed
<1>20. ASSUME NEW s \in Slots, PruneKey(s) PROVE ReplayInv'
  BY <1>20 DEF PruneKey, ReplayInv, KeyInv, ReplayIsFaithful, Typed
<1>21. CASE Crash
  BY <1>21 DEF Crash, Spend, At, ReplayInv, KeyInv, ReplayIsFaithful, Typed
<1>22. CASE UNCHANGED vars
  BY <1>22 DEF vars, ReplayInv, KeyInv, ReplayIsFaithful, Typed
<1>23. QED
  BY <1>1, <1>2, <1>3, <1>4, <1>5, <1>6, <1>7, <1>8, <1>9, <1>10, <1>11, <1>12, <1>13,
     <1>14, <1>15, <1>16, <1>17, <1>18, <1>19, <1>20, <1>21, <1>22 DEF Next, Proceed, Requests

\* The response given to a repeated request was made for the same user, handler,
\* key and body, by another request (services/idempotency.rs).
THEOREM ReplaysAreFaithful == Spec => []ReplayIsFaithful
<1>1. Init => ReplayInv
  BY RequestsAssumption DEF Init, ReplayInv, KeyInv, ReplayIsFaithful, Requests
<1>2. QED
  BY <1>1, NextReplayInv, GenInvHolds, PTL DEF Spec, ReplayInv

-----------------------------------------------------------------------------
\* No step leaves an answer unwritten but an error or a crash.
LEMMA NextEmptyAnswer == GenInv /\ EmptyAnswerIsBeingWritten /\ [Next]_vars => EmptyAnswerIsBeingWritten'
<1> SUFFICES ASSUME GenInv /\ EmptyAnswerIsBeingWritten, [Next]_vars PROVE EmptyAnswerIsBeingWritten'
  OBVIOUS
<1> USE DEF GenInv, Requests, Handling, Synthetic, Streaming, Counted
<1>1. ASSUME NEW r \in Requests, Arrive(r) PROVE EmptyAnswerIsBeingWritten'
  BY <1>1 DEF Arrive, GoTo, EmptyAnswerIsBeingWritten, Typed, At
<1>2. ASSUME NEW r \in Requests, CheckKey(r) PROVE EmptyAnswerIsBeingWritten'
  BY <1>2 DEF CheckKey, GoTo, EmptyAnswerIsBeingWritten, Typed, At
<1>3. ASSUME NEW c \in Creates, InsertSession(c) PROVE EmptyAnswerIsBeingWritten'
  BY <1>3 DEF InsertSession, GoTo, EmptyAnswerIsBeingWritten, Typed, At
<1>4. ASSUME NEW c \in Creates, StoreCreated(c) PROVE EmptyAnswerIsBeingWritten'
  BY <1>4 DEF StoreCreated, Keep, GoTo, EmptyAnswerIsBeingWritten, Typed, At
<1>5. ASSUME NEW r \in Posts, CountChunks(r) PROVE EmptyAnswerIsBeingWritten'
  BY <1>5 DEF CountChunks, GoTo, EmptyAnswerIsBeingWritten, Typed, At
<1>6. ASSUME NEW r \in Posts, Acquire(r) PROVE EmptyAnswerIsBeingWritten'
  BY <1>6 DEF Acquire, GoTo, EmptyAnswerIsBeingWritten, Typed, At
<1>7. ASSUME NEW r \in Posts, Admit(r) PROVE EmptyAnswerIsBeingWritten'
  BY <1>7 DEF Admit, GoTo, EmptyAnswerIsBeingWritten, Typed, At
<1>8. ASSUME NEW r \in Posts, Refuse(r) PROVE EmptyAnswerIsBeingWritten'
  BY <1>8 DEF Refuse, GivePermit, GoTo, EmptyAnswerIsBeingWritten, Typed, At
<1>9. ASSUME NEW r \in Posts, PersistAsked(r) PROVE EmptyAnswerIsBeingWritten'
  BY <1>9 DEF PersistAsked, LoseSlot, GivePermit, GoTo, EmptyAnswerIsBeingWritten, Typed, At
<1>10. ASSUME NEW r \in Posts, Prepare(r) PROVE EmptyAnswerIsBeingWritten'
  BY <1>10 DEF Prepare, GoTo, EmptyAnswerIsBeingWritten, Typed, At
<1>11. ASSUME NEW r \in Posts, CreateAnswer(r) PROVE EmptyAnswerIsBeingWritten'
  BY <1>11 DEF CreateAnswer, EndStream, GivePermit, GiveSlot, GoTo,
     EmptyAnswerIsBeingWritten, Typed, At
<1>12. ASSUME NEW r \in Posts, Generate(r) PROVE EmptyAnswerIsBeingWritten'
  BY <1>12 DEF Generate, GoTo, EmptyAnswerIsBeingWritten, Typed, At
<1>13. ASSUME NEW r \in Posts, Store(r) PROVE EmptyAnswerIsBeingWritten'
  BY <1>13 DEF Store, Keep, EndStream, GivePermit, GiveSlot, GoTo,
     EmptyAnswerIsBeingWritten, Typed, At
<1>14. ASSUME NEW r \in Posts, AnswerSynthetic(r) PROVE EmptyAnswerIsBeingWritten'
  BY <1>14 DEF AnswerSynthetic, Keep, GoTo, EmptyAnswerIsBeingWritten, Typed, At
<1>15. ASSUME NEW r \in Requests, HandlerDies(r) PROVE EmptyAnswerIsBeingWritten'
  BY <1>15 DEF HandlerDies, LoseSlot, GivePermit, GoTo, Spend, EmptyAnswerIsBeingWritten,
     Typed, At
<1>16. ASSUME NEW r \in Posts, WaitTimesOut(r) PROVE EmptyAnswerIsBeingWritten'
  BY <1>16 DEF WaitTimesOut, GoTo, EmptyAnswerIsBeingWritten, Typed, At
<1>17. ASSUME NEW r \in Posts, TaskFails(r) PROVE EmptyAnswerIsBeingWritten'
  BY <1>17 DEF TaskFails, EndStream, GivePermit, GiveSlot, GoTo, Spend,
     EmptyAnswerIsBeingWritten, Typed, At
<1>18. ASSUME NEW c \in Creates, DeleteSession(c) PROVE EmptyAnswerIsBeingWritten'
  BY <1>18 DEF DeleteSession, EmptyAnswerIsBeingWritten, Typed, At
<1>19. ASSUME NEW s \in Slots, ExpireKey(s) PROVE EmptyAnswerIsBeingWritten'
  BY <1>19 DEF ExpireKey, Spend, At, EmptyAnswerIsBeingWritten, Typed, At
<1>20. ASSUME NEW s \in Slots, PruneKey(s) PROVE EmptyAnswerIsBeingWritten'
  BY <1>20 DEF PruneKey, EmptyAnswerIsBeingWritten, Typed, At
<1>21. CASE Crash
  BY <1>21 DEF Crash, Spend, At, EmptyAnswerIsBeingWritten, Typed, At
<1>22. CASE UNCHANGED vars
  BY <1>22 DEF vars, EmptyAnswerIsBeingWritten, Typed, At
<1>23. QED
  BY <1>1, <1>2, <1>3, <1>4, <1>5, <1>6, <1>7, <1>8, <1>9, <1>10, <1>11, <1>12, <1>13,
     <1>14, <1>15, <1>16, <1>17, <1>18, <1>19, <1>20, <1>21, <1>22 DEF Next, Proceed, Requests

\* An answer that was begun is written, whether or not its client stays: an empty
\* one belongs to a running task, to a failed UPDATE or to a crash.
THEOREM AnswersAreWritten == Spec => []EmptyAnswerIsBeingWritten
<1>1. Init => EmptyAnswerIsBeingWritten
  BY DEF Init, EmptyAnswerIsBeingWritten
<1>2. QED
  BY <1>1, NextEmptyAnswer, GenInvHolds, PTL DEF Spec
-----------------------------------------------------------------------------
(***************************************************************************)
(* The steps of the contract that a request's steps are.                   *)
(***************************************************************************)
LEMMA StageMoves ==
  ASSUME Typed, NEW r \in Requests, NEW l, GoTo(r, l)
  PROVE  Stage[r] = StageAt(pc[r]) /\ Stage' = [Stage EXCEPT ![r] = StageAt(l)]
BY DEF Typed, GoTo, Stage

LEMMA GoesOn ==
  ASSUME Typed, NEW r \in Requests, NEW l, GoTo(r, l), StageAt(l) = StageAt(pc[r]),
         UNCHANGED <<replies, replayed, rowVars>>
  PROVE  UNCHANGED Contract!contractVars
BY StageMoves DEF Contract!contractVars, Stage, Added

LEMMA EndsEarly ==
  ASSUME Typed, NEW R \in SUBSET Requests, \A r \in R : pc[r] # "ended",
         pc' = [r \in Requests |-> IF r \in R THEN "ended" ELSE pc[r]],
         UNCHANGED <<replies, replayed, rowVars>>
  PROVE  Contract!Next
<1>1. \A r \in R : Stage[r] \in {"new", "working"}
  BY DEF Stage, StageAt
<1>2. Stage' = [r \in Requests |-> IF r \in R THEN "ended" ELSE Stage[r]]
  BY DEF Stage, StageAt
<1>3. Contract!End(R)
  BY <1>1, <1>2 DEF Contract!End, Added
<1>4. QED
  BY <1>3 DEF Contract!Next

LEMMA EndsUnkept ==
  ASSUME Typed, NEW r \in Requests, GoTo(r, "ended"), pc[r] # "ended",
         UNCHANGED <<replies, replayed, rowVars>>
  PROVE  Contract!Next
<1> DEFINE R == {r}
<1>1. pc' = [q \in Requests |-> IF q \in R THEN "ended" ELSE pc[q]]
  BY DEF GoTo, Typed
<1>2. R \in SUBSET Requests /\ \A q \in R : pc[q] # "ended"
  OBVIOUS
<1> HIDE DEF R
<1>3. QED
  BY <1>1, <1>2, EndsEarly

LEMMA Adds ==
  ASSUME Typed, NEW r \in Requests, NEW l, GoTo(r, l), StageAt(l) = "working",
         StageAt(pc[r]) = "working", Added' = Added \union {r},
         UNCHANGED <<replies, replayed>>
  PROVE  Contract!Next
<1>1. Stage[r] = "working" /\ Stage' = [Stage EXCEPT ![r] = "working"]
  BY StageMoves
<1>2. UNCHANGED Stage
  BY <1>1 DEF Stage
<1>3. Contract!Act(r)
  BY <1>1, <1>2 DEF Contract!Act
<1>4. QED
  BY <1>3 DEF Contract!Next

LEMMA Keeps ==
  ASSUME Typed, NEW r \in Requests, GoTo(r, "ended"), StageAt(pc[r]) = "working", Keep(r),
         UNCHANGED <<replayed, rowVars>>
  PROVE  Contract!Next
<1>1. Stage[r] = "working" /\ Stage' = [Stage EXCEPT ![r] = "ended"]
  BY StageMoves DEF StageAt
<1>2. Contract!Store(r)
  BY <1>1 DEF Contract!Store, Keep, Added
<1>3. QED
  BY <1>2 DEF Contract!Next

\* Every step of a request, of a session's deletion or of the cleanup is one of
\* the contract, or none.
LEMMA NextKeepsContract ==
  GenInv /\ [Next]_vars => [Contract!Next]_Contract!contractVars
<1> SUFFICES ASSUME GenInv, [Next]_vars
             PROVE  Contract!Next \/ UNCHANGED Contract!contractVars
  OBVIOUS
<1> DEFINE Kept == Contract!Next \/ UNCHANGED Contract!contractVars
<1> USE DEF GenInv
<1>1. ASSUME NEW r \in Requests, Arrive(r) PROVE Kept
  <2>1. UNCHANGED <<rowVars, replies, replayed>> /\ pc[r] = "idle"
    BY <1>1 DEF Arrive
  <2>2. GoTo(r, "checkKey") \/ GoTo(r, "ended")
    BY <1>1 DEF Arrive
  <2>3. QED
    BY <2>1, <2>2, GoesOn, EndsUnkept DEF StageAt
<1>2. ASSUME NEW r \in Requests, CheckKey(r) PROVE Kept
  <2> DEFINE v == replies[Slot(r)]
  <2>1. UNCHANGED <<rowVars, replies>> /\ Added' = Added /\ pc[r] = "checkKey"
    BY <1>2 DEF CheckKey, Added
  <2>2. Stage[r] = "new"
    BY <2>1 DEF Stage, StageAt
  <2>3. CASE v \notin Requests
    <3>1. (GoTo(r, "countChunks") \/ GoTo(r, "insert")) /\ UNCHANGED replayed
      BY <1>2, <2>3 DEF CheckKey
    <3>2. Stage' = [Stage EXCEPT ![r] = "working"]
      BY <3>1, StageMoves DEF StageAt
    <3>3. Contract!Work(r)
      BY <2>1, <2>2, <2>3, <3>1, <3>2 DEF Contract!Work
    <3>4. QED
      BY <3>3 DEF Contract!Next
  <2>4. CASE v \in Requests /\ BodyOf[v] = BodyOf[r]
    <3>1. GoTo(r, "ended") /\ replayed' = [replayed EXCEPT ![r] = v]
      BY <1>2, <2>4 DEF CheckKey
    <3>2. Stage' = [Stage EXCEPT ![r] = "ended"]
      BY <3>1, StageMoves DEF StageAt
    <3>3. Contract!Replay(r)
      BY <2>1, <2>2, <2>4, <3>1, <3>2 DEF Contract!Replay
    <3>4. QED
      BY <3>3 DEF Contract!Next
  <2>5. CASE v \in Requests /\ BodyOf[v] # BodyOf[r]
    <3>1. GoTo(r, "ended") /\ UNCHANGED replayed
      BY <1>2, <2>5 DEF CheckKey
    <3>2. QED
      BY <2>1, <3>1, EndsUnkept
  <2>6. QED
    BY <2>3, <2>4, <2>5
<1>3. ASSUME NEW r \in Creates, InsertSession(r) PROVE Kept
  <2>1. /\ r \in Requests /\ UNCHANGED <<replies, replayed>>
        /\ pc[r] = "insert" /\ GoTo(r, "storeCreated")
    BY <1>3 DEF InsertSession, Requests
  <2>2. Added' = Added \union {r}
    BY <1>3 DEF InsertSession, Added
  <2>3. QED
    BY <2>1, <2>2, Adds DEF StageAt
<1>4. ASSUME NEW r \in Creates, StoreCreated(r) PROVE Kept
  <2>1. /\ r \in Requests /\ UNCHANGED <<rowVars, replayed>>
        /\ pc[r] = "storeCreated" /\ Keep(r) /\ GoTo(r, "ended")
    BY <1>4 DEF StoreCreated, Requests
  <2>2. QED
    BY <2>1, Keeps DEF StageAt
<1>5. ASSUME NEW r \in Posts, CountChunks(r) PROVE Kept
  <2>1. UNCHANGED <<rowVars, replies, replayed>> /\ pc[r] = "countChunks" /\ r \in Requests
    BY <1>5 DEF CountChunks, Requests
  <2>2. GoTo(r, "askSynthetic") \/ GoTo(r, "wait")
    BY <1>5 DEF CountChunks
  <2>3. QED
    BY <2>1, <2>2, GoesOn DEF StageAt
<1>6. ASSUME NEW r \in Posts, Acquire(r) PROVE Kept
  <2>1. UNCHANGED <<rowVars, replies, replayed>> /\ pc[r] = "wait" /\ GoTo(r, "admit")
    BY <1>6 DEF Acquire
  <2>2. QED
    BY <2>1, GoesOn DEF StageAt, Requests
<1>7. ASSUME NEW r \in Posts, Admit(r) PROVE Kept
  <2>1. UNCHANGED <<rowVars, replies, replayed>> /\ pc[r] = "admit" /\ GoTo(r, "persistAsked")
    BY <1>7 DEF Admit
  <2>2. QED
    BY <2>1, GoesOn DEF StageAt, Requests
<1>8. ASSUME NEW r \in Posts, Refuse(r) PROVE Kept
  <2>1. UNCHANGED <<rowVars, replies, replayed>> /\ pc[r] = "admit" /\ GoTo(r, "ended")
    BY <1>8 DEF Refuse
  <2>2. QED
    BY <2>1, EndsUnkept DEF Requests
<1>9. ASSUME NEW r \in Posts, PersistAsked(r) PROVE Kept
  <2>1. UNCHANGED <<replies, replayed, sessions, answer>> /\ pc[r] = "persistAsked" /\ r \in Requests
    BY <1>9 DEF PersistAsked, Requests
  <2>2. CASE SessionOf[r] \in sessions
    <3>1. GoTo(r, "prepare") /\ asked' = asked \union {r}
      BY <1>9, <2>2 DEF PersistAsked
    <3>2. Added' = Added \union {r}
      BY <2>1, <3>1 DEF Added
    <3>3. QED
      BY <2>1, <3>1, <3>2, Adds DEF StageAt
  <2>3. CASE SessionOf[r] \notin sessions
    <3>1. GoTo(r, "ended") /\ UNCHANGED asked
      BY <1>9, <2>3 DEF PersistAsked, LoseSlot
    <3>2. QED
      BY <2>1, <3>1, EndsUnkept
  <2>4. QED
    BY <2>2, <2>3
<1>10. ASSUME NEW r \in Posts, Prepare(r) PROVE Kept
  <2>1. UNCHANGED <<rowVars, replies, replayed>> /\ pc[r] = "prepare" /\ GoTo(r, "createAnswer")
    BY <1>10 DEF Prepare
  <2>2. QED
    BY <2>1, GoesOn DEF StageAt, Requests
<1>11. ASSUME NEW r \in Posts, CreateAnswer(r) PROVE Kept
  <2>1. UNCHANGED <<replies, replayed, sessions, asked>> /\ pc[r] = "createAnswer" /\ r \in Requests
    BY <1>11 DEF CreateAnswer, Requests
  <2>2. CASE SessionOf[r] \in sessions
    <3>1. GoTo(r, "generate") /\ answer' = [answer EXCEPT ![r] = "empty"]
      BY <1>11, <2>2 DEF CreateAnswer
    <3>2. Added' = Added \union {r}
      BY <2>1, <3>1 DEF Added, Typed
    <3>3. QED
      BY <2>1, <3>1, <3>2, Adds DEF StageAt
  <2>3. CASE SessionOf[r] \notin sessions
    <3>1. GoTo(r, "ended") /\ UNCHANGED answer
      BY <1>11, <2>3 DEF CreateAnswer, EndStream
    <3>2. QED
      BY <2>1, <3>1, EndsUnkept
  <2>4. QED
    BY <2>2, <2>3
<1>12. ASSUME NEW r \in Posts, Generate(r) PROVE Kept
  <2>1. /\ UNCHANGED <<replies, replayed, sessions, asked>>
        /\ pc[r] = "generate" /\ GoTo(r, "store") /\ r \in Requests
    BY <1>12 DEF Generate, Requests
  <2>2. \A q \in Posts : answer'[q] # "none" <=> answer[q] # "none"
    BY <1>12 DEF Generate, Typed
  <2>3. Added' = Added
    BY <2>1, <2>2 DEF Added
  <2>4. Stage' = Stage
    <3>1. Stage[r] = "working" /\ Stage' = [Stage EXCEPT ![r] = "working"]
      BY <2>1, StageMoves DEF StageAt
    <3>2. QED
      BY <3>1 DEF Stage
  <2>5. QED
    BY <2>1, <2>3, <2>4 DEF Contract!contractVars
<1>13. ASSUME NEW r \in Posts, Store(r) PROVE Kept
  <2>1. /\ UNCHANGED <<rowVars, replayed>> /\ r \in Requests
        /\ pc[r] = "store" /\ Keep(r) /\ GoTo(r, "ended")
    BY <1>13 DEF Store, EndStream, Requests
  <2>2. QED
    BY <2>1, Keeps DEF StageAt
<1>14. ASSUME NEW r \in Posts, AnswerSynthetic(r) PROVE Kept
  <2>1. UNCHANGED <<replayed, sessions>> /\ r \in Requests
    BY <1>14 DEF AnswerSynthetic, Requests
  <2>2. CASE pc[r] = "askSynthetic"
    <3>1. /\ GoTo(r, "answerSynthetic") /\ UNCHANGED <<replies, answer>>
          /\ asked' = asked \union {r} \/ UNCHANGED asked
      BY <1>14, <2>2 DEF AnswerSynthetic
    <3>2. Added' = Added \union {r} \/ UNCHANGED asked
      BY <2>1, <3>1 DEF Added
    <3>3. QED
      BY <2>1, <2>2, <3>1, <3>2, Adds, GoesOn DEF StageAt
  <2>3. CASE pc[r] = "answerSynthetic"
    <3>1. /\ GoTo(r, "storeSynthetic") /\ UNCHANGED <<replies, asked>>
          /\ answer' = [answer EXCEPT ![r] = "written"] \/ UNCHANGED answer
      BY <1>14, <2>3 DEF AnswerSynthetic
    <3>2. Added' = Added \union {r} \/ UNCHANGED answer
      BY <2>1, <3>1 DEF Added, Typed
    <3>3. QED
      BY <2>1, <2>3, <3>1, <3>2, Adds, GoesOn DEF StageAt
  <2>4. CASE pc[r] = "storeSynthetic"
    <3>1. GoTo(r, "ended") /\ Keep(r) /\ UNCHANGED rowVars
      BY <1>14, <2>4 DEF AnswerSynthetic
    <3>2. QED
      BY <2>1, <2>4, <3>1, Keeps DEF StageAt
  <2>5. QED
    BY <1>14, <2>2, <2>3, <2>4 DEF AnswerSynthetic
<1>15. ASSUME NEW r \in Requests, HandlerDies(r) PROVE Kept
  <2>1. /\ UNCHANGED <<rowVars, replies, replayed>>
        /\ pc[r] \in Handling \union {"storeCreated"} /\ GoTo(r, "ended")
    BY <1>15 DEF HandlerDies, LoseSlot
  <2>2. QED
    BY <2>1, EndsUnkept DEF Handling
<1>16. ASSUME NEW r \in Posts, WaitTimesOut(r) PROVE Kept
  <2>1. UNCHANGED <<rowVars, replies, replayed>> /\ pc[r] = "wait" /\ GoTo(r, "ended")
    BY <1>16 DEF WaitTimesOut
  <2>2. QED
    BY <2>1, EndsUnkept DEF Requests
<1>17. ASSUME NEW r \in Posts, TaskFails(r) PROVE Kept
  <2>1. UNCHANGED <<rowVars, replies, replayed>> /\ r \in Requests
    BY <1>17 DEF TaskFails, Requests
  <2>2. CASE GoTo(r, "ended") /\ pc[r] # "ended"
    BY <2>1, <2>2, EndsUnkept
  <2>3. ASSUME NEW l, GoTo(r, l), StageAt(l) = "working", StageAt(pc[r]) = "working"
        PROVE  Kept
    BY <2>1, <2>3, GoesOn
  <2>4. CASE pc[r] \in {"createAnswer", "store"}
    <3>1. GoTo(r, "ended")
      BY <1>17, <2>4 DEF TaskFails, EndStream, Synthetic
    <3>2. QED
      BY <2>2, <2>4, <3>1
  <2>5. CASE pc[r] = "generate"
    <3>1. GoTo(r, "store")
      BY <1>17, <2>5 DEF TaskFails, Synthetic
    <3>2. QED
      BY <2>3, <2>5, <3>1 DEF StageAt
  <2>6. CASE pc[r] = "askSynthetic"
    <3>1. GoTo(r, "answerSynthetic")
      BY <1>17, <2>6 DEF TaskFails, Synthetic
    <3>2. QED
      BY <2>3, <2>6, <3>1 DEF StageAt
  <2>7. CASE pc[r] = "answerSynthetic"
    <3>1. GoTo(r, "storeSynthetic")
      BY <1>17, <2>7 DEF TaskFails, Synthetic
    <3>2. QED
      BY <2>3, <2>7, <3>1 DEF StageAt
  <2>8. CASE pc[r] = "storeSynthetic"
    <3>1. GoTo(r, "ended")
      BY <1>17, <2>8 DEF TaskFails, Synthetic
    <3>2. QED
      BY <2>2, <2>8, <3>1
  <2>9. QED
    BY <1>17, <2>4, <2>5, <2>6, <2>7, <2>8 DEF TaskFails, Synthetic
<1>18. ASSUME NEW c \in Creates, DeleteSession(c) PROVE Kept
  <2> DEFINE R == Added \ Added'
  <2>1. Added' \subseteq Added
    BY <1>18 DEF DeleteSession, Added
  <2>2. R \in SUBSET Requests
    BY DEF Added, Typed, Requests
  <2>3. Contract!Forget(R)
    BY <1>18, <2>1 DEF DeleteSession, Contract!Forget, Stage
  <2> HIDE DEF R
  <2>4. QED
    BY <2>2, <2>3 DEF Contract!Next
<1>19. ASSUME NEW s \in Slots, ExpireKey(s) PROVE Kept
  <2>1. Contract!Expire(s)
    BY <1>19 DEF ExpireKey, Contract!Expire, Stage, Added
  <2>2. s \in Contract!Slots
    BY DEF Slots, Contract!Slots
  <2>3. QED
    BY <2>1, <2>2 DEF Contract!Next
<1>20. ASSUME NEW s \in Slots, PruneKey(s) PROVE Kept
  <2>1. Contract!Prune(s)
    BY <1>20 DEF PruneKey, Contract!Prune, Stage, Added
  <2>2. s \in Contract!Slots
    BY DEF Slots, Contract!Slots
  <2>3. QED
    BY <2>1, <2>2 DEF Contract!Next
<1>21. CASE Crash
  <2> DEFINE R == {r \in Requests : pc[r] \notin {"idle", "ended"}}
  <2>1. /\ pc' = [r \in Requests |-> IF r \in R THEN "ended" ELSE pc[r]]
        /\ UNCHANGED <<replies, replayed, rowVars>>
    BY <1>21 DEF Crash
  <2>2. R \in SUBSET Requests /\ \A r \in R : pc[r] # "ended"
    OBVIOUS
  <2> HIDE DEF R
  <2>3. QED
    BY <2>1, <2>2, EndsEarly
<1>22. CASE UNCHANGED vars
  BY <1>22 DEF vars, Contract!contractVars, Stage, Added
<1>23. QED
  BY <1>1, <1>2, <1>3, <1>4, <1>5, <1>6, <1>7, <1>8, <1>9, <1>10, <1>11, <1>12, <1>13,
     <1>14, <1>15, <1>16, <1>17, <1>18, <1>19, <1>20, <1>21, <1>22 DEF Next, Proceed, Requests

\* create_session and post_message keep the contract of services/idempotency.rs,
\* for any requests and keys, also where the response is stored by a task that
\* outlives its handler: a request answered from the store adds nothing, and the
\* response it is given was the first to be kept, of its own body.
THEOREM ChatsKeepTheContract == Spec => KeepsContract
<1>1. Init => Contract!Init
  BY DEF Init, Slots, Contract!Init, Contract!Slots, Stage, StageAt, Added
<1>2. QED
  BY <1>1, NextKeepsContract, GenInvHolds, PTL DEF Spec, KeepsContract, Contract!Spec
=============================================================================
