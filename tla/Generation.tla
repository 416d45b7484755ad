----------------------------- MODULE Generation -----------------------------
(***************************************************************************)
(* Chat: sessions are created and deleted, and a message posted to one is  *)
(* answered by a stream (routes/chat.rs).  A post is a handler that dies   *)
(* with its client until it hands its work to a detached task, which does  *)
(* not.  Between the two it takes a permit of the server's semaphore,      *)
(* waiting in line for it, and one of its user's two slots.                *)
(*                                                                         *)
(* What has to balance: every permit and every slot taken is given back,   *)
(* however the post ends; a message repeated with its Idempotency-Key is   *)
(* not answered twice; an answer that was begun is written to the end.     *)
(***************************************************************************)
EXTENDS Integers, FiniteSets, Sequences

CONSTANTS
  Creates,        \* requests to create a session; each names the session it makes
  Posts,          \* requests to post a message
  Users,
  SessionOf,      \* the session in a post's path
  OwnerOf,        \* the user of a session, and so of the posts to it
  KeyOf,          \* the Idempotency-Key of a request
  BodyOf,         \* what body_hash tells apart
  MaxGeneration,  \* config.max_concurrent_generation
  UserCap,        \* USER_CONCURRENCY_CAP
  None,           \* no response stored
  Stale,          \* one stored more than 24 hours ago
  Budget          \* bound on errors, disconnections, crashes and expired keys

ASSUME RequestsAssumption ==
  /\ IsFiniteSet(Posts) /\ IsFiniteSet(Creates) /\ Posts \intersect Creates = {}
  /\ None \notin Posts \union Creates /\ Stale \notin Posts \union Creates \union {None}
  /\ SessionOf \in [Posts -> Creates] /\ OwnerOf \in [Creates -> Users]
ASSUME CapsAssumption ==
  MaxGeneration \in Nat \ {0} /\ UserCap \in Nat \ {0} /\ Budget \in Nat

Requests == Posts \union Creates

UserOf(r) == IF r \in Posts THEN OwnerOf[SessionOf[r]] ELSE OwnerOf[r]

\* PRIMARY KEY (user_id, route, key): the route is the handler's name, so one
\* key spans all the sessions of its user.
Slot(r) == <<UserOf(r), r \in Posts, KeyOf[r]>>
Slots == {Slot(r) : r \in Requests}

VARIABLES
  sessions,  \* the rows of chat_sessions
  asked,     \* posts whose user message is a row of `messages`
  answer,    \* per post: its assistant message, and whether it is written yet
  replies,   \* idempotency_keys: the request whose response is stored
  permits,   \* generation_semaphore: permits left
  line,      \* the semaphore's waiters, first come first
  counts,    \* user_generation_counts
  pc,
  replayed,  \* the request whose response a request was given
  repeat,    \* history: requests that came when their key was already stored
  leaked,    \* history: posts that ended without giving back their user's slot
  cut,       \* history: posts whose answer an error or a crash left unwritten
  spent      \* history: disturbances so far

rowVars  == <<sessions, asked, answer>>
slotVars == <<permits, line, counts, leaked>>
vars == <<rowVars, replies, slotVars, pc, replayed, repeat, cut, spent>>

Handling  == {"checkKey", "insert", "countChunks", "wait", "persistAsked", "prepare"}
Synthetic == {"askSynthetic", "answerSynthetic", "storeSynthetic"}
Streaming == {"createAnswer", "generate", "store"}
Counted   == {"persistAsked", "prepare"} \union Streaming
Holding   == {"admit"} \union Counted

At(S) == {r \in Requests : pc[r] \in S}

OfUser(S, u) == {r \in S : UserOf(r) = u}

\* Every variable but the line.
Typed ==
  /\ sessions \in SUBSET Creates
  /\ asked \in SUBSET Posts
  /\ answer \in [Posts -> {"none", "empty", "written"}]
  /\ replies \in [Slots -> Requests \union {None, Stale}]
  /\ permits \in 0 .. MaxGeneration
  /\ counts \in [Users -> 0 .. UserCap]
  /\ pc \in [Requests -> {"idle", "admit", "storeCreated", "ended"}
                           \union Handling \union Synthetic \union Streaming]
  /\ replayed \in [Requests -> Requests \union {None}]
  /\ repeat \in SUBSET Requests /\ leaked \in SUBSET Posts /\ cut \in SUBSET Posts
  /\ spent \in 0 .. Budget

TypeOK == Typed /\ line \in Seq(Posts)

Init ==
  /\ sessions = {} /\ asked = {}
  /\ answer = [r \in Posts |-> "none"]
  /\ replies = [s \in Slots |-> None]
  /\ permits = MaxGeneration /\ line = <<>> /\ counts = [u \in Users |-> 0]
  /\ pc = [r \in Requests |-> "idle"]
  /\ replayed = [r \in Requests |-> None]
  /\ repeat = {} /\ leaked = {} /\ cut = {}
  /\ spent = 0

-----------------------------------------------------------------------------
Spend == spent < Budget /\ spent' = spent + 1

GoTo(r, l) == pc' = [pc EXCEPT ![r] = l]

\* Variant: ON CONFLICT DO UPDATE.
KeepLast(r) == replies' = [replies EXCEPT ![Slot(r)] = r]

\* INSERT ... ON CONFLICT DO NOTHING: the first response stays, also a stale one.
Keep(r) == replies' = [replies EXCEPT ![Slot(r)] = IF @ = None THEN r ELSE @]

\* The post's permit goes back with the permit's drop.
GivePermit == permits' = permits + 1

\* CounterGuard::drop.
GiveSlot(r) == counts' = [counts EXCEPT ![UserOf(r)] = @ - 1]

-----------------------------------------------------------------------------
(* Both handlers begin alike: the owner is checked, then the key.          *)

Arrive(r) ==
  /\ pc[r] = "idle"
  /\ GoTo(r, IF r \in Posts /\ SessionOf[r] \notin sessions THEN "ended" ELSE "checkKey")
  /\ repeat' = IF replies[Slot(r)] \in Requests THEN repeat \union {r} ELSE repeat
  /\ UNCHANGED <<rowVars, replies, slotVars, replayed, cut, spent>>

\* Variant: a different body under a stored key is taken for a new request.
CheckKeyAndBody(r) ==
  LET v == replies[Slot(r)]
  IN /\ pc[r] = "checkKey"
     /\ GoTo(r, IF v \in Requests /\ BodyOf[v] = BodyOf[r] THEN "ended"
                ELSE IF r \in Posts THEN "countChunks" ELSE "insert")
     /\ replayed' = IF v \in Requests /\ BodyOf[v] = BodyOf[r]
                    THEN [replayed EXCEPT ![r] = v] ELSE replayed
     /\ UNCHANGED <<rowVars, replies, slotVars, repeat, cut, spent>>

CheckKey(r) ==
  LET v == replies[Slot(r)]
  IN /\ pc[r] = "checkKey"
     /\ GoTo(r, IF v \in Requests THEN "ended"
                ELSE IF r \in Posts THEN "countChunks" ELSE "insert")
     /\ replayed' = IF v \in Requests /\ BodyOf[v] = BodyOf[r]
                    THEN [replayed EXCEPT ![r] = v] ELSE replayed
     /\ UNCHANGED <<rowVars, replies, slotVars, repeat, cut, spent>>

\* create_session.
InsertSession(c) ==
  /\ pc[c] = "insert"
  /\ sessions' = sessions \union {c}
  /\ GoTo(c, "storeCreated")
  /\ UNCHANGED <<asked, answer, replies, slotVars, replayed, repeat, cut, spent>>

StoreCreated(c) ==
  /\ pc[c] = "storeCreated"
  /\ Keep(c)
  /\ GoTo(c, "ended")
  /\ UNCHANGED <<rowVars, slotVars, replayed, repeat, cut, spent>>

-----------------------------------------------------------------------------
(* post_message.                                                           *)

\* A persona with no embedded text is answered with a fixed sentence, by a
\* task of its own; otherwise the post joins the line for a permit.
CountChunks(r) ==
  /\ pc[r] = "countChunks"
  /\ \/ GoTo(r, "askSynthetic") /\ UNCHANGED line
     \/ GoTo(r, "wait") /\ line' = Append(line, r)
  /\ UNCHANGED <<rowVars, replies, permits, counts, leaked, replayed, repeat, cut, spent>>

Acquire(r) ==
  /\ pc[r] = "wait"
  /\ permits > 0 /\ line # <<>> /\ Head(line) = r
  /\ permits' = permits - 1
  /\ line' = Tail(line)
  /\ GoTo(r, "admit")
  /\ UNCHANGED <<rowVars, replies, counts, leaked, replayed, repeat, cut, spent>>

\* Variant: a timed-out post is left in the line.
WaitTimesOutInLine(r) ==
  /\ pc[r] = "wait"
  /\ GoTo(r, "ended")
  /\ UNCHANGED <<rowVars, replies, slotVars, replayed, repeat, cut, spent>>

\* 20 s without a permit: server_busy.
WaitTimesOut(r) ==
  /\ pc[r] = "wait"
  /\ line' = SelectSeq(line, LAMBDA w : w # r)
  /\ GoTo(r, "ended")
  /\ UNCHANGED <<rowVars, replies, permits, counts, leaked, replayed, repeat, cut, spent>>

Admit(r) ==
  /\ pc[r] = "admit" /\ counts[UserOf(r)] < UserCap
  /\ counts' = [counts EXCEPT ![UserOf(r)] = @ + 1]
  /\ GoTo(r, "persistAsked")
  /\ UNCHANGED <<rowVars, replies, permits, line, leaked, replayed, repeat, cut, spent>>

\* generation_concurrency_exceeded.
Refuse(r) ==
  /\ pc[r] = "admit" /\ counts[UserOf(r)] >= UserCap
  /\ GivePermit
  /\ GoTo(r, "ended")
  /\ UNCHANGED <<rowVars, replies, line, counts, leaked, replayed, repeat, cut, spent>>

\* A `?`, or the drop of the handler, after the slot was taken and before its
\* guard exists: the permit goes back, the slot does not.
LoseSlot(r) ==
  /\ GivePermit
  /\ leaked' = leaked \union {r}
  /\ GoTo(r, "ended")

PersistAsked(r) ==
  /\ pc[r] = "persistAsked"
  /\ IF SessionOf[r] \in sessions
     THEN /\ asked' = asked \union {r}
          /\ GoTo(r, "prepare")
          /\ UNCHANGED <<permits, leaked>>
     ELSE LoseSlot(r) /\ UNCHANGED asked
  /\ UNCHANGED <<sessions, answer, replies, line, counts, replayed, repeat, cut, spent>>

\* Persona, era, profile, retrieval and history are read and the prompt built;
\* the rest runs in a detached task, which owns the permit and the guard.
Prepare(r) ==
  /\ pc[r] = "prepare"
  /\ GoTo(r, "createAnswer")
  /\ UNCHANGED <<rowVars, replies, slotVars, replayed, repeat, cut, spent>>

\* Variant: the counter is not given back by an early end of the task.
EndStreamKeepsSlot(r) == GivePermit /\ UNCHANGED counts /\ GoTo(r, "ended")

\* The end of the task drops the permit and the guard.
EndStream(r) == GivePermit /\ GiveSlot(r) /\ GoTo(r, "ended")

CreateAnswer(r) ==
  /\ pc[r] = "createAnswer"
  /\ IF SessionOf[r] \in sessions
     THEN /\ answer' = [answer EXCEPT ![r] = "empty"]
          /\ GoTo(r, "generate")
          /\ UNCHANGED <<permits, counts>>
     ELSE EndStream(r) /\ UNCHANGED answer
  /\ UNCHANGED <<sessions, asked, replies, line, leaked, replayed, repeat, cut, spent>>

\* Variant: the task stops at the first token it cannot send.
GenerateWhileRead(r) ==
  /\ pc[r] = "generate"
  /\ \/ answer' = [answer EXCEPT ![r] = IF @ = "empty" THEN "written" ELSE @]
     \/ UNCHANGED answer
  /\ GoTo(r, "store")
  /\ UNCHANGED <<sessions, asked, replies, slotVars, replayed, repeat, cut, spent>>

\* The tokens are produced and sent, whether or not a client still reads, and
\* the message updated: of a session deleted meanwhile there is no row.
Generate(r) ==
  /\ pc[r] = "generate"
  /\ answer' = [answer EXCEPT ![r] = IF @ = "empty" THEN "written" ELSE @]
  /\ GoTo(r, "store")
  /\ UNCHANGED <<sessions, asked, replies, slotVars, replayed, repeat, cut, spent>>

Store(r) ==
  /\ pc[r] = "store"
  /\ Keep(r)
  /\ EndStream(r)
  /\ UNCHANGED <<rowVars, line, leaked, replayed, repeat, cut, spent>>

\* The synthetic answer ignores the outcome of every statement.
AnswerSynthetic(r) ==
  /\ \/ /\ pc[r] = "askSynthetic"
        /\ asked' = IF SessionOf[r] \in sessions THEN asked \union {r} ELSE asked
        /\ GoTo(r, "answerSynthetic")
        /\ UNCHANGED <<answer, replies>>
     \/ /\ pc[r] = "answerSynthetic"
        /\ answer' = IF SessionOf[r] \in sessions
                     THEN [answer EXCEPT ![r] = "written"] ELSE answer
        /\ GoTo(r, "storeSynthetic")
        /\ UNCHANGED <<asked, replies>>
     \/ /\ pc[r] = "storeSynthetic"
        /\ Keep(r)
        /\ GoTo(r, "ended")
        /\ UNCHANGED <<asked, answer>>
  /\ UNCHANGED <<sessions, slotVars, replayed, repeat, cut, spent>>

-----------------------------------------------------------------------------
(* What goes wrong.                                                        *)

\* A statement of a handler fails, or its client goes away while it waits.
HandlerDies(r) ==
  /\ pc[r] \in Handling \union {"storeCreated"}
  /\ Spend
  /\ line' = SelectSeq(line, LAMBDA w : w # r)
  /\ IF pc[r] \in Counted
     THEN LoseSlot(r)
     ELSE GoTo(r, "ended") /\ UNCHANGED <<permits, leaked>>
  /\ UNCHANGED <<rowVars, replies, counts, replayed, repeat, cut>>

\* A statement of a task fails.
TaskFails(r) ==
  /\ Spend
  /\ \/ /\ pc[r] = "createAnswer" \/ pc[r] = "store"
        /\ EndStream(r)
        /\ UNCHANGED cut
     \/ /\ pc[r] = "generate"                    \* UPDATE ... ignored
        /\ GoTo(r, "store")
        /\ cut' = cut \union {r}
        /\ UNCHANGED <<permits, counts>>
     \/ /\ pc[r] \in Synthetic
        /\ GoTo(r, CASE pc[r] = "askSynthetic"    -> "answerSynthetic"
                     [] pc[r] = "answerSynthetic" -> "storeSynthetic"
                     [] pc[r] = "storeSynthetic"  -> "ended")
        /\ UNCHANGED <<permits, counts, cut>>
  /\ UNCHANGED <<rowVars, replies, line, leaked, replayed, repeat>>

\* The process stops and starts again: semaphore and counters begin anew.
Crash ==
  /\ Spend
  /\ pc' = [r \in Requests |-> IF pc[r] = "idle" THEN "idle" ELSE "ended"]
  /\ permits' = MaxGeneration /\ line' = <<>>
  /\ counts' = [u \in Users |-> 0] /\ leaked' = {}
  /\ cut' = cut \union At({"generate"})
  /\ UNCHANGED <<rowVars, replies, replayed, repeat>>

\* ON DELETE CASCADE takes the messages.
DeleteSession(c) ==
  /\ c \in sessions
  /\ sessions' = sessions \ {c}
  /\ asked' = {r \in asked : SessionOf[r] # c}
  /\ answer' = [r \in Posts |-> IF SessionOf[r] = c THEN "none" ELSE answer[r]]
  /\ UNCHANGED <<replies, slotVars, pc, replayed, repeat, cut, spent>>

\* 24 hours pass; no request is that long on its way from its first statement
\* to the check of its key.
ExpireKey(s) ==
  /\ Spend
  /\ replies[s] \in Requests
  /\ \A r \in At({"checkKey"}) : Slot(r) # s
  /\ replies' = [replies EXCEPT ![s] = Stale]
  /\ UNCHANGED <<rowVars, slotVars, pc, replayed, repeat, cut>>

\* The nightly cleanup removes the row.
PruneKey(s) ==
  /\ replies[s] = Stale
  /\ replies' = [replies EXCEPT ![s] = None]
  /\ UNCHANGED <<rowVars, slotVars, pc, replayed, repeat, cut, spent>>

-----------------------------------------------------------------------------
Proceed(r) ==
  \/ CheckKey(r)
  \/ r \in Creates /\ (InsertSession(r) \/ StoreCreated(r))
  \/ r \in Posts /\ ( \/ CountChunks(r) \/ Acquire(r) \/ Admit(r) \/ Refuse(r)
                      \/ PersistAsked(r) \/ Prepare(r) \/ CreateAnswer(r)
                      \/ Generate(r) \/ Store(r) \/ AnswerSynthetic(r) )

Next ==
  \/ \E r \in Requests : Arrive(r) \/ Proceed(r) \/ HandlerDies(r)
  \/ \E r \in Posts : WaitTimesOut(r) \/ TaskFails(r)
  \/ \E c \in Creates : DeleteSession(c)
  \/ \E s \in Slots : ExpireKey(s) \/ PruneKey(s)
  \/ Crash

Spec == Init /\ [][Next]_vars

\* Every await of a handler or a task returns, the model's included.  Neither
\* the timeout nor a client that leaves is relied on.
Fairness == \A r \in Requests : WF_vars(Proceed(r))

FairSpec == Spec /\ Fairness

-----------------------------------------------------------------------------
(* Properties.                                                             *)

\* A permit is missing from the semaphore exactly while a post holds it, and a
\* user's counter is what his streams hold plus what early returns after
\* fetch_update never gave back: post_message gives nothing back twice.
SlotsAreAccountedFor ==
  /\ permits + Cardinality(At(Holding)) = MaxGeneration
  /\ \A u \in Users :
       counts[u] = Cardinality(OfUser(At(Counted), u)) + Cardinality(OfUser(leaked, u))

\* A request that comes when its key is already stored adds no session, no
\* message and no answer, whatever else is going on.
RepeatAddsNothing ==
  \A r \in repeat : r \notin sessions /\ r \notin asked
                    /\ (r \in Posts => answer[r] = "none")

\* A replayed response was made for the same user and the same body.
ReplayIsFaithful ==
  \A r \in Requests : replayed[r] # None =>
     /\ Slot(replayed[r]) = Slot(r) /\ BodyOf[replayed[r]] = BodyOf[r]
     /\ replayed[r] # r

\* An empty assistant message belongs to a running task, unless the UPDATE
\* failed or the process stopped: losing the client leaves none behind.
EmptyAnswerIsBeingWritten ==
  \A r \in Posts : answer[r] = "empty" => pc[r] = "generate" \/ r \in cut

\* Every request that came ends: the line moves, and nobody waits for a permit
\* for ever.
EveryRequestEnds == <>[](At({"idle", "ended"}) = Requests)

-----------------------------------------------------------------------------
(* The contract of the keys.  What a request does is to add a session, its *)
(* message or the answer to it.                                            *)

StageAt(l) == CASE l \in {"idle", "checkKey"} -> "new"
                [] l = "ended" -> "ended"
                [] OTHER -> "working"

Stage == [r \in Requests |-> StageAt(pc[r])]

Added == sessions \union asked \union {r \in Posts : answer[r] # "none"}

Contract == INSTANCE Idempotency
  WITH SlotOf <- [r \in Requests |-> Slot(r)], stage <- Stage, stored <- replies,
       effects <- Added

\* Both handlers keep the contract of their keys: a request answered from the
\* store adds nothing, and it is given the one response that was kept first and
\* has not expired since, and of its own body; also when the response is stored
\* by a task that outlives the request.
KeepsContract == Contract!Spec
=============================================================================
