---------------------------- MODULE ActionExecutor ----------------------------
(***************************************************************************)
(* The executor of actions on behalf of one candidate: CandidateAction-    *)
(* Executor and the SQLite tables it writes (batches, receipts, kill       *)
(* switches, daily usage).  A call of executeBatch is a process that runs  *)
(* on the single Node event loop: loop = c while call c executes a         *)
(* synchronous stretch of more than one database statement, loop = Free    *)
(* while every call is suspended at an await.  Each step of a stretch is   *)
(* one autocommitted statement, so Crash can fall between any two of them. *)
(* A stretch between two awaits that has at most one statement is one step *)
(* with loop = Free before and after; what follows an await that is already *)
(* resolved is a step of its own too, so that the model allows other       *)
(* handlers wherever Node could, and in a few places where it would not.   *)
(*                                                                         *)
(* Everything is keyed by the candidate, so one candidate is modelled; the *)
(* tables are durable, the variables call, loop and inFlight are memory.   *)
(***************************************************************************)
EXTENDS Naturals, Sequences, FiniteSets

CONSTANTS
  Callers,      \* concurrent calls of executeBatch
  Actions,      \* ids of actions, which are the ids of their receipts
  Batches,      \* ids of batches
  Requests,     \* the [batch, acts] bodies that the clients post
  KindOf,       \* the actionKind of each action
  Tracked,      \* the actions that carry an applicationId
  UserScopes,   \* the kill-switch scopes the candidate toggles
  Limit,        \* daily limit of each kind
  BoostGap,     \* least time between two resume boosts of a day
  Quiet,        \* the times that fall in the quiet hours
  DayLength,    \* times per local day
  MaxTime,      \* bound on the clock
  Outcomes,     \* what the runner may come to
  Free,         \* nobody holds the event loop
  NoTime        \* a time that is not set

Kinds == {"hh_apply", "hh_resume_boost", "linkedin_easy_apply"}
Scopes == {"candidate", "hh", "linkedin"}
Final == {"delivered", "attempted", "failed"}
BatchStatus == {"none", "running", "completed", "partial_failure", "aborted"}
RunnerOutcomes == {"delivered", "unconfirmed", "attempted", "failed"}
Results == {"none", "ran", "consent", "daily_limit_reached", "quiet_hours",
            "boost_interval_unexpired", "not_connected", "error"}
CallPcs == {"idle", "timezone", "sessions", "receipts", "check", "reserved",
            "running", "record", "advance", "after", "pausing", "stopping",
            "close", "done"}

\* The program counters at which a call owns the event loop.
HoldingPcs == {"receipts", "check", "reserved", "record", "advance", "stopping"}

Times == 0..MaxTime
DayOf(t) == t \div DayLength
Days == {DayOf(t) : t \in Times}
ActSeqs == {r.acts : r \in Requests} \cup {<<a>> : a \in Actions}
BatchNames == Batches \cup {"none"}

ASSUME ConstantsAssumption ==
  /\ MaxTime \in Nat /\ DayLength \in Nat \ {0} /\ BoostGap \in Nat
  /\ KindOf \in [Actions -> Kinds]
  /\ Tracked \subseteq Actions /\ UserScopes \subseteq Scopes
  /\ Limit \in [Kinds -> Nat]
  /\ Quiet \subseteq Nat
  /\ Outcomes \subseteq RunnerOutcomes /\ "none" \notin Outcomes
  /\ Requests \subseteq [batch : Batches, acts : Seq(Actions) \ {<<>>}]
  /\ Free \notin Callers
  /\ NoTime \notin Nat
  /\ "none" \notin Batches

PlatformOf(a) == IF KindOf[a] = "linkedin_easy_apply" THEN "linkedin" ELSE "hh"
IsLinkedin(a) == PlatformOf(a) = "linkedin"

VARIABLES
  clock,      \* the time of day and date, shared by everybody
  onBehalf,   \* the consent actions_on_behalf is active
  batch,      \* candidate_action_batches: status by id
  receipt,    \* candidate_action_receipts: status by id
  kill,       \* candidate_action_kill_switches: the active scopes
  used,       \* candidate_action_daily_usage: count by day and kind
  lastBoost,  \* candidate_action_daily_usage: last_hh_boost_at by day
  card,       \* stage of the application of each tracked action
  inFlight,   \* the candidate is in LINKEDIN_CANDIDATES_IN_FLIGHT
  call,       \* the state of each call of executeBatch
  loop,       \* the call that holds the event loop, or Free
  runs,       \* history: how often the runner was started for an action
  runAt       \* history: the time by which the last start was judged (CallNow)

tables == <<onBehalf, batch, receipt, kill, used, lastBoost, card>>
history == <<runs, runAt>>
executorVars == <<clock, tables, inFlight, call, loop, history>>

IdleCall == [pc |-> "idle", batch |-> "none", acts |-> <<>>, idx |-> 0,
             at |-> NoTime, outcome |-> "none", result |-> "none"]

CallType == [pc : CallPcs, batch : BatchNames, acts : ActSeqs \cup {<<>>},
             idx : Nat, at : Nat \cup {NoTime},
             outcome : Outcomes \cup {"none"}, result : Results]

ExecutorInit ==
  /\ clock = 0
  /\ onBehalf = TRUE
  /\ batch = [b \in Batches |-> "none"]
  /\ receipt = [a \in Actions |-> "none"]
  /\ kill = {}
  /\ used = [d \in Days |-> [k \in Kinds |-> 0]]
  /\ lastBoost = [d \in Days |-> NoTime]
  /\ card = [a \in Tracked |-> "saved"]
  /\ inFlight = FALSE
  /\ call = [c \in Callers |-> IdleCall]
  /\ loop = Free
  /\ runs = [a \in Actions |-> 0]
  /\ runAt = [a \in Actions |-> NoTime]

-----------------------------------------------------------------------------
(* Reading the call and the tables.                                        *)

Current(c) == call[c].acts[call[c].idx]

\* resolveNow: the caller's fixed time, or the clock.
CallNow(c) == IF call[c].at = NoTime THEN clock ELSE call[c].at

KillSwitchActive(a) == kill \cap {"candidate", PlatformOf(a)} # {}

\* checkActionCapacity on the usage row of the day, with `earlier` more
\* actions of the same kind already counted in.
Capacity(kind, t, earlier) ==
  LET day == DayOf(t) IN
    IF t \in Quiet THEN "quiet_hours"
    ELSE IF used[day][kind] + earlier >= Limit[kind] THEN "daily_limit_reached"
    ELSE IF /\ kind = "hh_resume_boost"
            /\ \/ earlier > 0 /\ BoostGap > 0
               \/ lastBoost[day] # NoTime /\ t < lastBoost[day] + BoostGap
         THEN "boost_interval_unexpired"
    ELSE "allowed"

\* assertBatchCapacity: the verdict on the n-th action of a batch once the
\* earlier ones are taken as done.
VerdictAt(acts, n, t) ==
  Capacity(KindOf[acts[n]], t,
           Cardinality({m \in 1..(n - 1) : KindOf[acts[m]] = KindOf[acts[n]]}))

Refused(acts, t) == {n \in DOMAIN acts : VerdictAt(acts, n, t) # "allowed"}

\* calculateBatchStatus over the receipts of the batch.
BatchOutcome(acts) ==
  LET delivered == {n \in DOMAIN acts : receipt[acts[n]] = "delivered"} IN
    IF delivered = DOMAIN acts THEN "completed"
    ELSE IF delivered # {} THEN "partial_failure"
    ELSE "aborted"

-----------------------------------------------------------------------------
(* Moving a call, and settling a receipt.                                  *)

GoTo(c, pc) == call' = [call EXCEPT ![c].pc = pc]

\* executeBatch resolves, or rejects and the exception unwinds to the caller.
Finish(c, result) ==
  call' = [call EXCEPT ![c].pc = "done", ![c].result = result]

NextAction(c, pc) ==
  call' = [call EXCEPT ![c].pc = pc, ![c].idx = @ + 1]

\* updateReceiptStatus: only a pending receipt is settled; it throws on any
\* other, which SettlesOwnPending below shows never to happen.
SettleReceipt(a, status) ==
  /\ receipt[a] = "pending"
  /\ receipt' = [receipt EXCEPT ![a] = status]

-----------------------------------------------------------------------------
(* Faulty variants of steps below, each with a mistake that could be made  *)
(* in the code.  No specification uses them; they measure the properties.  *)

\* INSERT OR REPLACE, INSERT OR IGNORE, and a loop that ends one short.
InsertedThen(c) ==
  IF call[c].idx = Len(call[c].acts)
  THEN call' = [call EXCEPT ![c].pc = "check", ![c].idx = 1]
  ELSE NextAction(c, "receipts")

CreatePendingReceiptReplacing(c) ==
  /\ call[c].pc = "receipts"
  /\ receipt' = [receipt EXCEPT ![Current(c)] = "pending"]
  /\ InsertedThen(c)
  /\ UNCHANGED <<clock, onBehalf, batch, kill, used, lastBoost, card,
                 inFlight, loop, history>>

CreatePendingReceiptIgnoring(c) ==
  /\ call[c].pc = "receipts"
  /\ receipt' = [receipt EXCEPT ![Current(c)] = IF @ = "none" THEN "pending" ELSE @]
  /\ InsertedThen(c)
  /\ UNCHANGED <<clock, onBehalf, batch, kill, used, lastBoost, card,
                 inFlight, loop, history>>

CreatePendingReceiptShort(c) ==
  /\ call[c].pc = "receipts"
  /\ IF call[c].idx = Len(call[c].acts)
     THEN UNCHANGED receipt
     ELSE receipt' = [receipt EXCEPT ![Current(c)] = "pending"]
  /\ InsertedThen(c)
  /\ UNCHANGED <<clock, onBehalf, batch, kill, used, lastBoost, card,
                 inFlight, loop, history>>

\* The limits are trusted to have been checked for the batch.
CheckActionTrusting(c) ==
  LET a == Current(c)
      t == CallNow(c)
  IN
  /\ call[c].pc = "check"
  /\ \/ KillSwitchActive(a) /\ GoTo(c, "stopping") /\ UNCHANGED <<used, lastBoost>>
     \/ /\ ~KillSwitchActive(a)
        /\ used' = [used EXCEPT ![DayOf(t)][KindOf[a]] = @ + 1]
        /\ lastBoost' = IF KindOf[a] = "hh_resume_boost"
                        THEN [lastBoost EXCEPT ![DayOf(t)] = t] ELSE lastBoost
        /\ GoTo(c, "reserved")
  /\ UNCHANGED <<clock, onBehalf, batch, receipt, kill, card, inFlight, loop, history>>

\* The kill switch is read once, before the first action; and the time of a
\* boost is not kept.
CheckActionOnce(c) ==
  LET a == Current(c)
      t == CallNow(c)
      verdict == Capacity(KindOf[a], t, 0)
      stopped == call[c].idx = 1 /\ KillSwitchActive(a)
  IN
  /\ call[c].pc = "check"
  /\ \/ stopped /\ GoTo(c, "stopping") /\ UNCHANGED <<receipt, used, loop>>
     \/ /\ ~stopped /\ verdict # "allowed"
        /\ SettleReceipt(a, "failed")
        /\ GoTo(c, "after") /\ loop' = Free
        /\ UNCHANGED used
     \/ /\ ~stopped /\ verdict = "allowed"
        /\ used' = [used EXCEPT ![DayOf(t)][KindOf[a]] = @ + 1]
        /\ GoTo(c, "reserved")
        /\ UNCHANGED <<receipt, loop>>
  /\ UNCHANGED <<clock, onBehalf, batch, kill, lastBoost, card, inFlight, history>>

\* LinkedIn is not limited to one action at a time.
StartRunnerUnguarded(c) ==
  LET a == Current(c) IN
  /\ call[c].pc = "reserved"
  /\ loop' = Free
  /\ inFlight' = (inFlight \/ IsLinkedin(a))
  /\ runs' = [runs EXCEPT ![a] = @ + 1]
  /\ runAt' = [runAt EXCEPT ![a] = CallNow(c)]
  /\ GoTo(c, "running")
  /\ UNCHANGED <<clock, onBehalf, batch, receipt, kill, used, lastBoost, card>>

\* `delivered' counts without the provider's confirmation: for the card, and
\* as it is for the receipt.
RecordOutcomeEagerly(c) ==
  LET outcome == call[c].outcome
      status == IF outcome = "unconfirmed" THEN "failed" ELSE outcome
  IN
  /\ call[c].pc = "record"
  /\ SettleReceipt(Current(c), status)
  /\ IF outcome \in {"delivered", "unconfirmed"}
     THEN GoTo(c, "advance") /\ UNCHANGED loop
     ELSE GoTo(c, "after") /\ loop' = Free
  /\ UNCHANGED <<clock, onBehalf, batch, kill, used, lastBoost, card,
                 inFlight, history>>

RecordOutcomeAsIs(c) ==
  LET status == call[c].outcome IN
  /\ call[c].pc = "record"
  /\ SettleReceipt(Current(c), status)
  /\ IF status = "delivered" THEN GoTo(c, "advance") /\ UNCHANGED loop
                             ELSE GoTo(c, "after") /\ loop' = Free
  /\ UNCHANGED <<clock, onBehalf, batch, kill, used, lastBoost, card,
                 inFlight, history>>

\* The batch goes on after a failure; or the stop begins at the action that
\* has just failed.
AfterActionGoingOn(c) ==
  /\ loop = Free
  /\ call[c].pc = "after"
  /\ IF call[c].idx = Len(call[c].acts)
     THEN GoTo(c, "close") ELSE NextAction(c, "pausing")
  /\ UNCHANGED <<clock, tables, inFlight, loop, history>>

AfterActionAgain(c) ==
  /\ loop = Free
  /\ call[c].pc = "after"
  /\ \/ /\ receipt[Current(c)] = "delivered"
        /\ IF call[c].idx = Len(call[c].acts)
           THEN GoTo(c, "close") ELSE NextAction(c, "pausing")
        /\ UNCHANGED loop
     \/ /\ receipt[Current(c)] # "delivered"
        /\ GoTo(c, "stopping") /\ loop' = c
  /\ UNCHANGED <<clock, tables, inFlight, history>>

\* The loop forgets to move on.
StopActionStuck(c) ==
  /\ call[c].pc = "stopping"
  /\ SettleReceipt(Current(c), "failed")
  /\ IF call[c].idx = Len(call[c].acts)
     THEN GoTo(c, "close") /\ loop' = Free
     ELSE UNCHANGED <<call, loop>>
  /\ UNCHANGED <<clock, onBehalf, batch, kill, used, lastBoost, card,
                 inFlight, history>>

-----------------------------------------------------------------------------
(* The steps of a call.                                                    *)

\* executeBatch up to its first await.  The runner and the session resolver
\* are wired in: without them the route answers before it gets here.
Begin(c, b, acts, at) ==
  /\ call[c].pc = "idle"
  /\ call' = [call EXCEPT ![c] =
                [IdleCall EXCEPT !.batch = b, !.acts = acts, !.at = at,
                                 !.pc = IF onBehalf THEN "timezone" ELSE "done",
                                 !.result = IF onBehalf THEN "none" ELSE "consent"]]

\* After the lookup of the time zone: assertBatchCapacity throws at the first
\* action that is refused.
CheckBatchCapacity(c) ==
  LET acts == call[c].acts
      refused == Refused(acts, CallNow(c))
  IN
  /\ loop = Free
  /\ call[c].pc = "timezone"
  /\ \/ refused = {} /\ GoTo(c, "sessions")
     \/ \E n \in refused : /\ \A m \in refused : n <= m
                           /\ Finish(c, VerdictAt(acts, n, CallNow(c)))
  /\ UNCHANGED <<clock, tables, inFlight, loop, history>>

\* resolveSessions finds no session of the candidate for a platform.
NotConnected(c) ==
  /\ loop = Free
  /\ call[c].pc = "sessions"
  /\ Finish(c, "not_connected")
  /\ UNCHANGED <<clock, tables, inFlight, loop, history>>

\* The sessions are resolved: consent and the caller's own guard are read
\* again, then createBatch inserts the row of the batch.
CreateBatch(c, guard) ==
  /\ loop = Free
  /\ call[c].pc = "sessions"
  /\ IF ~onBehalf \/ ~guard
     THEN Finish(c, "consent") /\ UNCHANGED <<batch, loop>>
     ELSE IF batch[call[c].batch] # "none"
     THEN Finish(c, "error") /\ UNCHANGED <<batch, loop>>
     ELSE /\ batch' = [batch EXCEPT ![call[c].batch] = "running"]
          /\ loop' = c
          /\ call' = [call EXCEPT ![c].pc = "receipts", ![c].idx = 1]
  /\ UNCHANGED <<clock, onBehalf, receipt, kill, used, lastBoost, card,
                 inFlight, history>>

\* createPendingReceipts, one INSERT at a time; a known id breaks the batch.
CreatePendingReceipt(c) ==
  /\ call[c].pc = "receipts"
  /\ IF receipt[Current(c)] # "none"
     THEN Finish(c, "error") /\ loop' = Free /\ UNCHANGED receipt
     ELSE /\ receipt' = [receipt EXCEPT ![Current(c)] = "pending"]
          /\ IF call[c].idx = Len(call[c].acts)
             THEN call' = [call EXCEPT ![c].pc = "check", ![c].idx = 1]
             ELSE NextAction(c, "receipts")
          /\ UNCHANGED loop
  /\ UNCHANGED <<clock, onBehalf, batch, kill, used, lastBoost, card,
                 inFlight, history>>

\* runBatch before an action: the kill switch; then executeAction's own
\* capacity check, and the reservation of the daily slot.
CheckAction(c) ==
  LET a == Current(c)
      t == CallNow(c)
      verdict == Capacity(KindOf[a], t, 0)
  IN
  /\ call[c].pc = "check"
  /\ \/ /\ KillSwitchActive(a)
        /\ GoTo(c, "stopping")
        /\ UNCHANGED <<receipt, used, lastBoost, loop>>
     \/ /\ ~KillSwitchActive(a) /\ verdict # "allowed"
        /\ SettleReceipt(a, "failed")
        /\ GoTo(c, "after") /\ loop' = Free
        /\ UNCHANGED <<used, lastBoost>>
     \/ /\ ~KillSwitchActive(a) /\ verdict = "allowed"
        /\ used' = [used EXCEPT ![DayOf(t)][KindOf[a]] = @ + 1]
        /\ lastBoost' = IF KindOf[a] = "hh_resume_boost"
                        THEN [lastBoost EXCEPT ![DayOf(t)] = t] ELSE lastBoost
        /\ GoTo(c, "reserved")
        /\ UNCHANGED <<receipt, loop>>
  /\ UNCHANGED <<clock, onBehalf, batch, kill, card, inFlight, history>>

\* executeAction once the slot is reserved: LinkedIn runs one action of a
\* candidate at a time; otherwise the runner starts and the call awaits it.
StartRunner(c) ==
  LET a == Current(c) IN
  /\ call[c].pc = "reserved"
  /\ loop' = Free
  /\ \/ /\ IsLinkedin(a) /\ inFlight
        /\ SettleReceipt(a, "attempted")
        /\ GoTo(c, "after")
        /\ UNCHANGED <<inFlight, history>>
     \/ /\ ~(IsLinkedin(a) /\ inFlight)
        /\ inFlight' = (inFlight \/ IsLinkedin(a))
        /\ runs' = [runs EXCEPT ![a] = @ + 1]
        /\ runAt' = [runAt EXCEPT ![a] = CallNow(c)]
        /\ GoTo(c, "running")
        /\ UNCHANGED receipt
  /\ UNCHANGED <<clock, onBehalf, batch, kill, used, lastBoost, card>>

\* The runner answers or throws: the guard is dropped, and anything but
\* `delivered' stops LinkedIn for the candidate.
RunnerAnswers(c, outcome) ==
  LET a == Current(c) IN
  /\ loop = Free
  /\ call[c].pc = "running"
  /\ loop' = c
  /\ inFlight' = (inFlight /\ ~IsLinkedin(a))
  /\ kill' = IF IsLinkedin(a) /\ outcome \in {"attempted", "failed"}
             THEN kill \cup {"linkedin"} ELSE kill
  /\ call' = [call EXCEPT ![c].pc = "record", ![c].outcome = outcome]
  /\ UNCHANGED <<clock, onBehalf, batch, receipt, used, lastBoost, card, history>>

\* recordOutcome: `delivered' without the provider's confirmation is a failure.
RecordOutcome(c) ==
  LET outcome == call[c].outcome
      status == IF outcome = "unconfirmed" THEN "failed" ELSE outcome
  IN
  /\ call[c].pc = "record"
  /\ SettleReceipt(Current(c), status)
  /\ \/ status = "delivered" /\ GoTo(c, "advance") /\ UNCHANGED loop
     \/ status # "delivered" /\ GoTo(c, "after") /\ loop' = Free
  /\ UNCHANGED <<clock, onBehalf, batch, kill, used, lastBoost, card,
                 inFlight, history>>

\* advanceApplicationToApplied: only a card that is still saved moves.
AdvanceApplication(c) ==
  LET a == Current(c) IN
  /\ call[c].pc = "advance"
  /\ card' = [t \in Tracked |->
               IF t = a /\ card[t] = "saved" THEN "applied" ELSE card[t]]
  /\ GoTo(c, "after")
  /\ loop' = Free
  /\ UNCHANGED <<clock, onBehalf, batch, receipt, kill, used, lastBoost,
                 inFlight, history>>

\* runBatch after an action: go on after a delivery, else fail the rest.
AfterAction(c) ==
  /\ loop = Free
  /\ call[c].pc = "after"
  /\ \/ /\ receipt[Current(c)] = "delivered"
        /\ IF call[c].idx = Len(call[c].acts)
           THEN GoTo(c, "close") ELSE NextAction(c, "pausing")
        /\ UNCHANGED loop
     \/ /\ receipt[Current(c)] # "delivered"
        /\ IF call[c].idx = Len(call[c].acts)
           THEN GoTo(c, "close") /\ UNCHANGED loop
           ELSE NextAction(c, "stopping") /\ loop' = c
  /\ UNCHANGED <<clock, tables, inFlight, history>>

\* The random pause between two actions ends.
PauseEnds(c) ==
  /\ loop = Free
  /\ call[c].pc = "pausing"
  /\ GoTo(c, "check")
  /\ loop' = c
  /\ UNCHANGED <<clock, tables, inFlight, history>>

\* appendStoppedActions: fail this action and those after it.
StopAction(c) ==
  /\ call[c].pc = "stopping"
  /\ SettleReceipt(Current(c), "failed")
  /\ IF call[c].idx = Len(call[c].acts)
     THEN GoTo(c, "close") /\ loop' = Free
     ELSE NextAction(c, "stopping") /\ UNCHANGED loop
  /\ UNCHANGED <<clock, onBehalf, batch, kill, used, lastBoost, card,
                 inFlight, history>>

\* updateBatchStatus, and executeBatch resolves.
CloseBatch(c) ==
  /\ loop = Free
  /\ call[c].pc = "close"
  /\ batch' = [batch EXCEPT ![call[c].batch] = BatchOutcome(call[c].acts)]
  /\ Finish(c, "ran")
  /\ UNCHANGED <<clock, onBehalf, receipt, kill, used, lastBoost, card,
                 inFlight, loop, history>>

\* What the server itself does for a call, the caller's guard given.
ServerStep(c, guard) ==
  \/ CheckBatchCapacity(c)
  \/ CreateBatch(c, guard)
  \/ CreatePendingReceipt(c)
  \/ CheckAction(c)
  \/ StartRunner(c)
  \/ RecordOutcome(c)
  \/ AdvanceApplication(c)
  \/ AfterAction(c)
  \/ PauseEnds(c)
  \/ StopAction(c)
  \/ CloseBatch(c)

\* ... and what the session resolver and the runner answer.
ExecutorStep(c, guard) ==
  \/ ServerStep(c, guard)
  \/ NotConnected(c)
  \/ \E outcome \in Outcomes : RunnerAnswers(c, outcome)

-----------------------------------------------------------------------------
(* The clients of POST /candidate/actions and the candidate's own switches. *)

\* handleExecuteBatch: any request, new or repeated, at any time.
PostBatch(c, r) ==
  /\ loop = Free
  /\ Begin(c, r.batch, r.acts, NoTime)
  /\ UNCHANGED <<clock, tables, inFlight, loop, history>>

\* The response is sent.
Respond(c) ==
  /\ loop = Free
  /\ call[c].pc = "done"
  /\ call' = [call EXCEPT ![c] = IdleCall]
  /\ UNCHANGED <<clock, tables, inFlight, loop, history>>

\* POST or DELETE /me/consents/actions_on_behalf.
SetOnBehalf(granted) ==
  /\ loop = Free
  /\ onBehalf' = granted
  /\ UNCHANGED <<clock, batch, receipt, kill, used, lastBoost, card,
                 inFlight, call, loop, history>>

\* handleToggleKillSwitch.
ToggleKillSwitch(scope, active) ==
  /\ loop = Free
  /\ kill' = IF active THEN kill \cup {scope} ELSE kill \ {scope}
  /\ UNCHANGED <<clock, onBehalf, batch, receipt, used, lastBoost, card,
                 inFlight, call, loop, history>>

\* The candidate moves the card of an application to another stage.
MoveCard(a) ==
  /\ loop = Free
  /\ card[a] = "saved"
  /\ card' = [card EXCEPT ![a] = "other"]
  /\ UNCHANGED <<clock, onBehalf, batch, receipt, kill, used, lastBoost,
                 inFlight, call, loop, history>>

\* The process dies and starts again: memory is lost, the tables stay.
LoseMemory ==
  /\ inFlight' = FALSE
  /\ call' = [c \in Callers |-> IdleCall]
  /\ loop' = Free

Crash ==
  /\ LoseMemory
  /\ UNCHANGED <<clock, tables, history>>

Tick ==
  /\ loop = Free
  /\ clock < MaxTime
  /\ clock' = clock + 1
  /\ UNCHANGED <<tables, inFlight, call, loop, history>>

ExecutorNext ==
  \/ \E c \in Callers : \/ \E r \in Requests : PostBatch(c, r)
                        \/ ExecutorStep(c, TRUE)
                        \/ Respond(c)
  \/ \E granted \in BOOLEAN : SetOnBehalf(granted)
  \/ \E scope \in UserScopes, active \in BOOLEAN : ToggleKillSwitch(scope, active)
  \/ \E a \in Tracked : MoveCard(a)
  \/ Crash
  \/ Tick

ExecutorSpec == ExecutorInit /\ [][ExecutorNext]_executorVars

-----------------------------------------------------------------------------
(* Properties.                                                              *)

\* Every variable has its type: statuses are those of the CHECK clauses of
\* the tables, and a call is at one of its await points or statements.
ExecutorTypeOK ==
  /\ clock \in Times
  /\ onBehalf \in BOOLEAN
  /\ batch \in [Batches -> BatchStatus]
  /\ receipt \in [Actions -> Final \cup {"none", "pending"}]
  /\ kill \subseteq Scopes
  /\ used \in [Days -> [Kinds -> Nat]]
  /\ lastBoost \in [Days -> Nat \cup {NoTime}]
  /\ card \in [Tracked -> {"saved", "applied", "other"}]
  /\ inFlight \in BOOLEAN
  /\ call \in [Callers -> CallType]
  /\ loop \in Callers \cup {Free}
  /\ runs \in [Actions -> Nat]
  /\ runAt \in [Actions -> Nat \cup {NoTime}]

\* No application is sent twice: whatever requests are repeated, calls
\* overlap and crashes happen, the runner starts at most once for an action.
AtMostOneRun == \A a \in Actions : runs[a] <= 1

\* The receipt is written before the provider can be touched, so an action
\* that may have happened is never without a trace in the table.
RunLeavesReceipt == \A a \in Actions : runs[a] > 0 => receipt[a] # "none"

\* The actions of a call whose pending receipts it has inserted and has still
\* to settle, by their places in the batch.
Owned(c) ==
  {n \in DOMAIN call[c].acts :
     \/ call[c].pc = "receipts" /\ n < call[c].idx
     \/ call[c].pc \in {"check", "reserved", "running", "record", "pausing", "stopping"}
          /\ n >= call[c].idx
     \/ call[c].pc \in {"advance", "after"} /\ n > call[c].idx}

\* Those of them that have not been handed to the runner.
Waiting(c) ==
  {n \in Owned(c) : call[c].pc \in {"running", "record"} => n # call[c].idx}

\* A call finds the receipts it has to settle still pending, and no two calls,
\* nor two actions of one, share a receipt: updateReceiptStatus never throws,
\* and no outcome is filed under the wrong action.
SettlesOwnPending ==
  /\ \A c \in Callers : \A n \in Owned(c) : receipt[call[c].acts[n]] = "pending"
  /\ \A c1, c2 \in Callers : \A n \in Owned(c1), m \in Owned(c2) :
       call[c1].acts[n] = call[c2].acts[m] => c1 = c2 /\ n = m

\* What a call still has to hand to the runner was never run.
OwnedNotRun ==
  \A c \in Callers : \A n \in Waiting(c) : runs[call[c].acts[n]] = 0

\* The event loop belongs to the one call that is inside a synchronous stretch.
LoopHeld == \A c \in Callers : call[c].pc \in HoldingPcs <=> loop = c

\* A call that has passed its first check names a batch and one of its actions,
\* and knows what the runner came to when it records it.
WellPlaced ==
  \A c \in Callers :
    /\ call[c].pc # "idle" => call[c].batch \in Batches /\ call[c].acts \in ActSeqs
    /\ call[c].pc \notin {"idle", "timezone", "sessions", "done"} =>
         call[c].idx \in 1..Len(call[c].acts)
    /\ call[c].pc = "record" => call[c].outcome \in Outcomes

\* The provider never sees more actions of a kind in a day than the limit,
\* although batches check it, wait for sessions, and run side by side.  A day is
\* that of the time a call judges by: the clock when the runner starts, unless
\* the caller named a time of its own.
RunsWithinLimit ==
  \A d \in Days, k \in Kinds :
    Cardinality({a \in Actions : runs[a] > 0 /\ DayOf(runAt[a]) = d /\ KindOf[a] = k})
      <= Limit[k]

\* No action of a call that goes by the clock starts in the quiet hours, however
\* long its batch has waited.  (A call that was given a time is judged by that
\* time only, wherever the clock is by then.)
NoRunAtNight == \A a \in Actions : runs[a] > 0 => runAt[a] \notin Quiet

\* Two resume boosts are at least BoostGap apart, also across midnight, where
\* the usage row that remembers the last boost is a new one.
BoostsApart ==
  \A a, b \in Actions :
    (/\ a # b /\ runs[a] > 0 /\ runs[b] > 0
     /\ KindOf[a] = "hh_resume_boost" /\ KindOf[b] = "hh_resume_boost")
      => runAt[a] >= runAt[b] + BoostGap \/ runAt[b] >= runAt[a] + BoostGap

\* LINKEDIN_CANDIDATES_IN_FLIGHT says exactly that a LinkedIn runner works,
\* and there is never a second one.
RunningLinkedin ==
  {c \in Callers : call[c].pc = "running" /\ IsLinkedin(Current(c))}

OneLinkedinRunner ==
  /\ inFlight = (RunningLinkedin # {})
  /\ \A c1, c2 \in RunningLinkedin : c1 = c2

\* A batch stops at its first action that is not delivered: when a runner
\* works, every earlier action of its batch was delivered.  What executeBatch
\* returns in the end is complete: every receipt is settled, and the stored
\* status of the batch is the one they add up to.
StopsAtFirstFailure ==
  \A c \in Callers :
    /\ call[c].pc \in {"running", "pausing", "reserved"} =>
         \A n \in 1..(call[c].idx - 1) : receipt[call[c].acts[n]] = "delivered"
    /\ call[c].pc = "done" /\ call[c].result = "ran" =>
         /\ \A n \in DOMAIN call[c].acts : receipt[call[c].acts[n]] \in Final
         /\ batch[call[c].batch] = BatchOutcome(call[c].acts)

\* A card is moved to `applied' only on a confirmed delivery.
AppliedMeansDelivered ==
  \A a \in Tracked : card[a] = "applied" => receipt[a] = "delivered"

\* A settled receipt is never rewritten, by a retry, a late answer or a stop.
FinalStays ==
  [][\A a \in Actions : receipt[a] \in Final => receipt'[a] = receipt[a]]_executorVars

\* A stop switched on while a batch runs holds for each of its next actions.
NoStartWhenStopped ==
  [][\A a \in Actions : runs'[a] > runs[a] => ~KillSwitchActive(a)]_executorVars

\* Every call that is not cut off by a crash comes to its end.
CallEnds ==
  \A c \in Callers : call[c].pc # "idle" ~> call[c].pc \in {"done", "idle"}

\* The consent document says that revoking it "immediately stops any action
\* of the platform on your behalf" (capabilityConsents.ts): no action starts
\* once the consent is revoked, be it in the middle of a batch.
RevocationStopsActions ==
  [][\A a \in Actions : runs'[a] > runs[a] => onBehalf]_executorVars
=============================================================================
