-------------------------- MODULE ExecutorBatchProofs --------------------------
(***************************************************************************)
(* More proofs about ActionExecutor: the stops, the quiet hours and the     *)
(* daily limits at the moment an action starts, the guard of LinkedIn, and  *)
(* what a batch has come to when it ends.  As in ActionExecutorProofs every *)
(* lemma is about ExecutorMove, the steps of the executor whoever calls it. *)
(***************************************************************************)
EXTENDS ActionExecutorProofs, FiniteSetTheorems

\* Between the check of an action and its start nothing can come: what was
\* checked still holds.
ReservedMayRun ==
  \A c \in Callers : call[c].pc = "reserved" =>
    ~KillSwitchActive(Current(c)) /\ CallNow(c) \notin Quiet

\* A call that has created its batch, up to its response.
InBatch(c) ==
  \/ call[c].pc \notin {"idle", "timezone", "sessions", "done"}
  \/ call[c].pc = "done" /\ call[c].result = "ran"

\* The batch is there and no other call works on it.
BatchIsOwn ==
  /\ \A c \in Callers : InBatch(c) => batch[call[c].batch] # "none"
  /\ \A c1, c2 \in Callers :
       InBatch(c1) /\ InBatch(c2) /\ call[c1].batch = call[c2].batch => c1 = c2

\* What the receipts before the current place have come to.
SettledAt(c) ==
  /\ call[c].pc \in {"check", "reserved", "running", "record", "pausing", "advance", "after"} =>
       \A n \in 1..(call[c].idx - 1) : receipt[call[c].acts[n]] = "delivered"
  /\ call[c].pc = "advance" => receipt[Current(c)] = "delivered"
  /\ call[c].pc = "after" => receipt[Current(c)] \in Final
  /\ call[c].pc = "stopping" =>
       \A n \in 1..(call[c].idx - 1) : receipt[call[c].acts[n]] \in Final
  /\ call[c].pc = "close" => \A n \in DOMAIN call[c].acts : receipt[call[c].acts[n]] \in Final
  /\ call[c].pc = "done" /\ call[c].result = "ran" =>
       /\ \A n \in DOMAIN call[c].acts : receipt[call[c].acts[n]] \in Final
       /\ batch[call[c].batch] = BatchOutcome(call[c].acts)

SettledSoFar == \A c \in Callers : SettledAt(c)

\* The row of daily usage counts every start of the day, and the reservation
\* of the call that is about to start.
RunOn(d, k) == {a \in Actions : runs[a] > 0 /\ DayOf(runAt[a]) = d /\ KindOf[a] = k}
ReservedOn(d, k) ==
  {c \in Callers : call[c].pc = "reserved" /\ DayOf(CallNow(c)) = d /\ KindOf[Current(c)] = k}

UsageCounted ==
  \A d \in Days, k \in Kinds :
    /\ IsFiniteSet(RunOn(d, k))
    /\ Cardinality(RunOn(d, k)) + (IF ReservedOn(d, k) = {} THEN 0 ELSE 1) <= used[d][k]
    /\ used[d][k] <= Limit[k]

BatchInv ==
  /\ ExecutorInv
  /\ ReservedMayRun
  /\ NoRunAtNight
  /\ OneLinkedinRunner
  /\ BatchIsOwn
  /\ SettledSoFar
  /\ AppliedMeansDelivered
  /\ UsageCounted

\* A time at which a call may be asked to run.
KnownTimes == \A c \in Callers : call[c].at \in Times \cup {NoTime}

Boosts == {a \in Actions : runs[a] > 0 /\ KindOf[a] = "hh_resume_boost"}

\* The row of a day remembers the last boost of the day, or a later one that was
\* reserved and cut off; a reserved boost is far enough from those before it.
BoostsKept ==
  /\ \A a \in Boosts : /\ runAt[a] \in Times
                       /\ lastBoost[DayOf(runAt[a])] # NoTime
                       /\ runAt[a] <= lastBoost[DayOf(runAt[a])]
  /\ \A c \in Callers :
       call[c].pc = "reserved" /\ KindOf[Current(c)] = "hh_resume_boost" =>
         /\ lastBoost[DayOf(CallNow(c))] = CallNow(c)
         /\ \A a \in Boosts : DayOf(runAt[a]) = DayOf(CallNow(c)) =>
              runAt[a] + BoostGap <= CallNow(c)
  /\ BoostsApart

-----------------------------------------------------------------------------
(* What is checked still holds when an action starts.                       *)

\* The facts of a call that is about to start an action hang on the kill
\* switches, the clock and its own state.
LEMMA SameCall ==
  ASSUME NEW c \in Callers, call'[c].acts = call[c].acts, call'[c].idx = call[c].idx,
         call'[c].at = call[c].at, clock' = clock
  PROVE  Current(c)' = Current(c) /\ CallNow(c)' = CallNow(c)
  BY DEF Current, CallNow

\* Any other step leaves a reserved action alone.
LEMMA ReservedKept ==
  ASSUME ExecutorInv, ExecutorMove, NEW d \in Callers, call'[d].pc = "reserved",
         \A c \in Callers : ~(c = d /\ CheckAction(c))
  PROVE  /\ call'[d] = call[d] /\ kill' = kill
         /\ Current(d)' = Current(d) /\ CallNow(d)' = CallNow(d)
<1>a. call \in [Callers -> CallType] /\ "reserved" \in HoldingPcs
  BY DEF ExecutorInv, ExecutorTypeOK, HoldingPcs
<1>b. CallPcs = {"idle", "timezone", "sessions", "receipts", "check", "reserved",
                 "running", "record", "advance", "after", "pausing", "stopping",
                 "close", "done"}
  BY DEF CallPcs
<1>1. CASE \E c \in Callers : BeginMove(c) \/ ForgetMove(c)
  <2>1. PICK c \in Callers : BeginMove(c) \/ ForgetMove(c)
    BY <1>1
  <2>2. /\ call'[c].pc \in {"idle", "timezone", "done"}
        /\ \A e \in Callers : e # c => call'[e] = call[e]
    <3>1. CASE BeginMove(c)
      BY <3>1, <1>a DEF BeginMove, Begin, IdleCall
    <3>2. CASE ForgetMove(c)
      BY <3>2, <1>a DEF ForgetMove, IdleCall
    <3>3. QED
      BY <2>1, <3>1, <3>2
  <2>3. call[d].pc # "reserved"
    BY <2>1, <1>a DEF BeginMove, ForgetMove, Quietly
  <2>4. QED
    BY <2>2, <2>3
<1>2. CASE \E c \in Callers : CallMove(c)
  <2>1. PICK c \in Callers : CallMove(c)
    BY <1>2
  <2>2. \A e \in Callers : e # c => call'[e] = call[e] /\ call[e].pc # "reserved"
    BY <2>1, CallMoveFrame, <1>a DEF ExecutorInv
  <2>3. d = c
    BY <2>2
  <2>4. call'[c].pc # "reserved"
    <3>1. CASE CheckBatchCapacity(c) \/ NotConnected(c)
      BY <3>1, <1>a, <1>b, Moved DEF CheckBatchCapacity, NotConnected
    <3>2. CASE \E guard : CreateBatch(c, guard)
      BY <3>2, <1>a, <1>b, Moved DEF CreateBatch
    <3>3. CASE CreatePendingReceipt(c)
      BY <3>3, <1>a, <1>b, Moved DEF CreatePendingReceipt
    <3>4. CASE StartRunner(c) \/ RecordOutcome(c)
      BY <3>4, <1>a, <1>b, Moved DEF StartRunner, RecordOutcome
    <3>5. CASE AdvanceApplication(c) \/ AfterAction(c) \/ PauseEnds(c)
      BY <3>5, <1>a, <1>b, Moved DEF AdvanceApplication, AfterAction, PauseEnds
    <3>6. CASE StopAction(c) \/ CloseBatch(c)
      BY <3>6, <1>a, <1>b, Moved DEF StopAction, CloseBatch
    <3>7. CASE \E outcome \in Outcomes : RunnerAnswers(c, outcome)
      BY <3>7, <1>a, AnswerMoves
    <3>8. QED
      BY <2>1, <2>3, <3>1, <3>2, <3>3, <3>4, <3>5, <3>6, <3>7 DEF CallMove, ServerStep
  <2>5. QED
    BY <2>3, <2>4
<1>3. CASE OutsideMove
  <2>1. call' = call
    BY <1>3 DEF OutsideMove
  <2>2. ~Quietly
    BY <2>1, <1>a DEF Quietly
  <2>3. QED
    BY <1>3, <2>1, <2>2 DEF OutsideMove, Current, CallNow
<1>4. CASE Crash
  BY <1>4 DEF Crash, LoseMemory, IdleCall
<1>5. QED
  BY <1>1, <1>2, <1>3, <1>4 DEF ExecutorMove

\* What a successful check of an action establishes.
LEMMA CheckedFacts ==
  ASSUME ExecutorInv, NEW c \in Callers, CheckAction(c), call'[c].pc = "reserved"
  PROVE  /\ ~KillSwitchActive(Current(c)) /\ CallNow(c) \notin Quiet
         /\ Capacity(KindOf[Current(c)], CallNow(c), 0) = "allowed"
         /\ call[c].pc = "check" /\ kill' = kill
         /\ Current(c)' = Current(c) /\ CallNow(c)' = CallNow(c)
         /\ used' = [used EXCEPT ![DayOf(CallNow(c))][KindOf[Current(c)]] = @ + 1]
         /\ lastBoost' = IF KindOf[Current(c)] = "hh_resume_boost"
                         THEN [lastBoost EXCEPT ![DayOf(CallNow(c))] = CallNow(c)]
                         ELSE lastBoost
<1>a. {"stopping", "after", "reserved"} \subseteq CallPcs
  BY DEF CallPcs
<1>1. \A pc \in {"stopping", "after", "reserved"} : GoTo(c, pc) =>
        /\ call'[c].pc = pc /\ call'[c].acts = call[c].acts
        /\ call'[c].idx = call[c].idx /\ call'[c].at = call[c].at
  BY <1>a, Moved DEF ExecutorInv, ExecutorTypeOK
<1>2. /\ call[c].pc = "check" /\ ~KillSwitchActive(Current(c))
      /\ Capacity(KindOf[Current(c)], CallNow(c), 0) = "allowed"
      /\ GoTo(c, "reserved") /\ kill' = kill /\ clock' = clock
      /\ used' = [used EXCEPT ![DayOf(CallNow(c))][KindOf[Current(c)]] = @ + 1]
      /\ lastBoost' = IF KindOf[Current(c)] = "hh_resume_boost"
                      THEN [lastBoost EXCEPT ![DayOf(CallNow(c))] = CallNow(c)]
                      ELSE lastBoost
  BY <1>1 DEF CheckAction
<1>3. CallNow(c) \notin Quiet
  BY <1>2 DEF Capacity
<1>4. QED
  BY <1>1, <1>2, <1>3, SameCall

LEMMA ReservedStep ==
  ASSUME ExecutorInv, ReservedMayRun, ExecutorMove
  PROVE  ReservedMayRun'
<1> SUFFICES ASSUME NEW d \in Callers, call'[d].pc = "reserved"
             PROVE  (~KillSwitchActive(Current(d)) /\ CallNow(d) \notin Quiet)'
  BY DEF ReservedMayRun
<1>1. CASE CheckAction(d)
  BY <1>1, CheckedFacts DEF KillSwitchActive
<1>2. CASE ~CheckAction(d)
  BY <1>2, ReservedKept DEF ReservedMayRun, KillSwitchActive
<1>3. QED
  BY <1>1, <1>2

\* The runner starts in one step of a call, which was about to start an action,
\* and in no other.
Starts(c) ==
  /\ StartRunner(c)
  /\ ~(IsLinkedin(Current(c)) /\ inFlight)
  /\ runs' = [runs EXCEPT ![Current(c)] = @ + 1]
  /\ runAt' = [runAt EXCEPT ![Current(c)] = CallNow(c)]
  /\ GoTo(c, "running")

LEMMA StartsOnly ==
  ASSUME ExecutorMove
  PROVE  UNCHANGED history \/ \E c \in Callers : Starts(c)
<1>1. CASE \E c \in Callers : StartRunner(c)
  BY <1>1 DEF StartRunner, Starts
<1>2. CASE \E c \in Callers : CallMove(c) /\ ~StartRunner(c)
  BY <1>2 DEF CallMove, ServerStep, CheckBatchCapacity, NotConnected, CreateBatch,
              CreatePendingReceipt, CheckAction, RunnerAnswers, RecordOutcome,
              AdvanceApplication, AfterAction, PauseEnds, StopAction, CloseBatch
<1>3. CASE \E c \in Callers : BeginMove(c) \/ ForgetMove(c)
  BY <1>3 DEF BeginMove, ForgetMove
<1>4. CASE OutsideMove \/ Crash
  BY <1>4 DEF OutsideMove, Crash
<1>5. QED
  BY <1>1, <1>2, <1>3, <1>4 DEF ExecutorMove

\* A step that starts the runner finds an action of its own that had no run.
LEMMA StartFacts ==
  ASSUME ExecutorInv, NEW c \in Callers, Starts(c)
  PROVE  /\ call[c].pc = "reserved" /\ Current(c) \in Actions
         /\ runs[Current(c)] = 0 /\ receipt[Current(c)] = "pending"
         /\ runs'[Current(c)] = 1 /\ runAt'[Current(c)] = CallNow(c)
         /\ \A a \in Actions : a # Current(c) => runs'[a] = runs[a] /\ runAt'[a] = runAt[a]
         /\ call'[c].pc = "running" /\ Current(c)' = Current(c)
         /\ \A d \in Callers : d # c => call'[d] = call[d] /\ call[d].pc # "reserved"
<1>1. call[c].pc = "reserved" /\ Current(c) \in Actions
  BY PlaceOf DEF Starts, StartRunner
<1>2. /\ call'[c].pc = "running" /\ Current(c)' = Current(c)
      /\ \A d \in Callers : d # c => call'[d] = call[d]
  BY Moved DEF Starts, ExecutorInv, ExecutorTypeOK, CallPcs, Current
<1>3. \A d \in Callers : d # c => call[d].pc # "reserved"
  BY <1>1 DEF ExecutorInv, HoldsLoop, HoldingPcs
<1>4. runs[Current(c)] = 0 /\ receipt[Current(c)] = "pending"
  <2>1. /\ call[c].idx \in Owned(c) /\ call[c].idx \in Waiting(c)
        /\ Current(c) = call[c].acts[call[c].idx]
    BY <1>1, PlaceOf DEF Owned, Waiting
  <2>2. QED
    BY <2>1 DEF ExecutorInv, OwnedNotRun, SettlesOwnPending
<1>5. runs \in [Actions -> Nat] /\ runAt \in [Actions -> Nat \cup {NoTime}]
  BY DEF ExecutorInv, ExecutorTypeOK
<1>6. QED
  BY <1>1, <1>2, <1>3, <1>4, <1>5 DEF Starts

LEMMA NightStep ==
  ASSUME ExecutorInv, ReservedMayRun, NoRunAtNight, ExecutorMove
  PROVE  NoRunAtNight'
<1>1. CASE UNCHANGED history
  BY <1>1 DEF history, NoRunAtNight
<1>2. CASE \E c \in Callers : Starts(c)
  <2>1. PICK c \in Callers : Starts(c)
    BY <1>2
  <2>2. CallNow(c) \notin Quiet
    BY <2>1, StartFacts DEF ReservedMayRun
  <2>3. QED
    BY <2>1, <2>2, StartFacts DEF NoRunAtNight
<1>3. QED
  BY <1>1, <1>2, StartsOnly

\* A stop that is on when a runner starts is a stop for another action.
LEMMA NoStoppedStart ==
  ASSUME ExecutorInv, ReservedMayRun, ExecutorMove, NEW a \in Actions, runs'[a] > runs[a]
  PROVE  ~KillSwitchActive(a)
<1>1. CASE UNCHANGED history
  BY <1>1 DEF history, ExecutorInv, ExecutorTypeOK
<1>2. CASE \E c \in Callers : Starts(c)
  <2>1. PICK c \in Callers : Starts(c)
    BY <1>2
  <2>2. a = Current(c)
    BY <2>1, StartFacts DEF ExecutorInv, ExecutorTypeOK
  <2>3. QED
    BY <2>1, <2>2, StartFacts DEF ReservedMayRun
<1>3. QED
  BY <1>1, <1>2, StartsOnly

-----------------------------------------------------------------------------
(* One runner of LinkedIn at a time.                                        *)

LEMMA SameRunners ==
  ASSUME \A d \in Callers :
           /\ call'[d].pc = "running" <=> call[d].pc = "running"
           /\ call[d].pc = "running" => Current(d)' = Current(d)
  PROVE  RunningLinkedin' = RunningLinkedin
  BY DEF RunningLinkedin, IsLinkedin, PlatformOf

\* A step that starts no runner and answers for none leaves the guard and those
\* who run alone.
LEMMA OtherRunners ==
  ASSUME ExecutorInv, ExecutorMove, ~Crash,
         \A c \in Callers : ~Starts(c) /\ \A outcome \in Outcomes : ~RunnerAnswers(c, outcome)
  PROVE  inFlight' = inFlight /\ RunningLinkedin' = RunningLinkedin
<1>a. call \in [Callers -> CallType]
  BY DEF ExecutorInv, ExecutorTypeOK
<1>b. CallPcs = {"idle", "timezone", "sessions", "receipts", "check", "reserved",
                 "running", "record", "advance", "after", "pausing", "stopping",
                 "close", "done"}
  BY DEF CallPcs
<1>1. CASE \E c \in Callers : BeginMove(c) \/ ForgetMove(c)
  <2>1. PICK c \in Callers : BeginMove(c) \/ ForgetMove(c)
    BY <1>1
  <2>2. /\ call'[c].pc # "running" /\ call[c].pc # "running"
        /\ \A d \in Callers : d # c => call'[d] = call[d]
    <3>1. CASE BeginMove(c)
      BY <3>1, <1>a DEF BeginMove, Begin, IdleCall
    <3>2. CASE ForgetMove(c)
      BY <3>2, <1>a DEF ForgetMove, IdleCall
    <3>3. QED
      BY <2>1, <3>1, <3>2
  <2>3. inFlight' = inFlight
    BY <2>1 DEF BeginMove, ForgetMove
  <2>4. QED
    BY <2>2, <2>3, SameRunners DEF Current
<1>2. CASE \E c \in Callers : CallMove(c)
  <2>1. PICK c \in Callers : CallMove(c)
    BY <1>2
  <2>2. \A d \in Callers : d # c => call'[d] = call[d]
    BY <2>1, CallMoveFrame DEF ExecutorInv
  <2>3. inFlight' = inFlight /\ call[c].pc # "running" /\ call'[c].pc # "running"
    <3>1. CASE CheckBatchCapacity(c) \/ NotConnected(c)
      BY <3>1, <1>a, <1>b, Moved DEF CheckBatchCapacity, NotConnected
    <3>2. CASE \E guard : CreateBatch(c, guard)
      BY <3>2, <1>a, <1>b, Moved DEF CreateBatch
    <3>3. CASE CreatePendingReceipt(c)
      BY <3>3, <1>a, <1>b, Moved DEF CreatePendingReceipt
    <3>4. CASE CheckAction(c)
      BY <3>4, <1>a, <1>b, Moved DEF CheckAction
    <3>5. CASE StartRunner(c)
      <4>1. GoTo(c, "after") /\ inFlight' = inFlight /\ call[c].pc = "reserved"
        BY <3>5 DEF StartRunner, Starts
      <4>2. QED
        BY <4>1, <1>a, <1>b, Moved
    <3>6. CASE RecordOutcome(c) \/ AdvanceApplication(c)
      BY <3>6, <1>a, <1>b, Moved DEF RecordOutcome, AdvanceApplication
    <3>7. CASE AfterAction(c) \/ PauseEnds(c)
      BY <3>7, <1>a, <1>b, Moved DEF AfterAction, PauseEnds
    <3>8. CASE StopAction(c) \/ CloseBatch(c)
      BY <3>8, <1>a, <1>b, Moved DEF StopAction, CloseBatch
    <3>9. QED
      BY <2>1, <3>1, <3>2, <3>3, <3>4, <3>5, <3>6, <3>7, <3>8 DEF CallMove, ServerStep
  <2>4. QED
    BY <2>2, <2>3, SameRunners DEF Current
<1>3. CASE OutsideMove
  BY <1>3, SameRunners DEF OutsideMove, Current
<1>4. QED
  BY <1>1, <1>2, <1>3 DEF ExecutorMove

\* The guard is set and dropped with the one runner it stands for.
LEMMA LinkedinStep ==
  ASSUME ExecutorInv, OneLinkedinRunner, ExecutorMove
  PROVE  OneLinkedinRunner'
<1>a. call \in [Callers -> CallType] /\ inFlight \in BOOLEAN
  BY DEF ExecutorInv, ExecutorTypeOK
<1>1. CASE Crash
  <2>1. inFlight' = FALSE /\ RunningLinkedin' = {}
    BY <1>1 DEF Crash, LoseMemory, IdleCall, RunningLinkedin
  <2>2. QED
    BY <2>1 DEF OneLinkedinRunner
<1>2. CASE \E c \in Callers : Starts(c)
  <2>1. PICK c \in Callers : Starts(c)
    BY <1>2
  <2>2. /\ call[c].pc = "reserved" /\ call'[c].pc = "running" /\ Current(c)' = Current(c)
        /\ \A d \in Callers : d # c => call'[d] = call[d]
    BY <2>1, StartFacts
  <2>3. ~(IsLinkedin(Current(c)) /\ inFlight) /\ inFlight' = (inFlight \/ IsLinkedin(Current(c)))
    BY <2>1, Zenon DEF Starts, StartRunner
  <2>4. CASE IsLinkedin(Current(c))
    <3>1. RunningLinkedin = {}
      BY <2>3, <2>4, Zenon DEF OneLinkedinRunner
    <3>2. RunningLinkedin' = {c}
      BY <2>2, <2>4, <3>1 DEF RunningLinkedin, Current, IsLinkedin, PlatformOf
    <3>3. QED
      BY <2>3, <2>4, <3>2, Zenon DEF OneLinkedinRunner
  <2>5. CASE ~IsLinkedin(Current(c))
    <3>1. RunningLinkedin' = RunningLinkedin
      BY <2>2, <2>5 DEF RunningLinkedin, Current, IsLinkedin, PlatformOf
    <3>2. inFlight' = inFlight
      BY <2>3, <2>5, <1>a
    <3>3. QED
      BY <3>1, <3>2 DEF OneLinkedinRunner
  <2>6. QED
    BY <2>4, <2>5
<1>3. CASE \E c \in Callers, outcome \in Outcomes : RunnerAnswers(c, outcome)
  <2>1. PICK c \in Callers, outcome \in Outcomes : RunnerAnswers(c, outcome)
    BY <1>3
  <2>2. call'[c].pc = "record" /\ \A d \in Callers : d # c => call'[d] = call[d]
    BY <2>1, <1>a, AnswerMoves
  <2>3. call[c].pc = "running"
    BY <2>1 DEF RunnerAnswers
  <2>4. inFlight' = (inFlight /\ ~IsLinkedin(Current(c)))
    BY <2>1, Zenon DEF RunnerAnswers
  <2>5. RunningLinkedin' = RunningLinkedin \ {c}
    BY <2>2, <2>3 DEF RunningLinkedin, Current, IsLinkedin, PlatformOf
  <2>6. CASE IsLinkedin(Current(c))
    <3>1. c \in RunningLinkedin
      BY <2>3, <2>6 DEF RunningLinkedin
    <3>2. RunningLinkedin' = {}
      BY <2>5, <3>1 DEF OneLinkedinRunner
    <3>3. inFlight' = FALSE
      BY <2>4, <2>6, Zenon
    <3>4. QED
      BY <3>2, <3>3 DEF OneLinkedinRunner
  <2>7. CASE ~IsLinkedin(Current(c))
    <3>1. RunningLinkedin' = RunningLinkedin
      BY <2>5, <2>7 DEF RunningLinkedin
    <3>2. inFlight' = inFlight
      BY <2>4, <2>7, <1>a
    <3>3. QED
      BY <3>1, <3>2 DEF OneLinkedinRunner
  <2>8. QED
    BY <2>6, <2>7
<1>4. CASE /\ ~Crash
           /\ \A c \in Callers : ~Starts(c) /\ \A outcome \in Outcomes : ~RunnerAnswers(c, outcome)
  BY <1>4, OtherRunners DEF OneLinkedinRunner
<1>5. QED
  BY <1>1, <1>2, <1>3, <1>4

-----------------------------------------------------------------------------
(* A batch has one call, and stops at its first failure.                    *)

\* A call that ends before it has run its batch says so.
LEMMA NotRan ==
  ASSUME ExecutorTypeOK, NEW c \in Callers,
         \/ CheckBatchCapacity(c) \/ NotConnected(c)
         \/ \E guard : CreateBatch(c, guard) /\ batch' = batch
         \/ CreatePendingReceipt(c)
  PROVE  /\ call'[c].pc = "done" => call'[c].result # "ran"
         /\ call'[c].pc \in {"sessions", "done", "receipts", "check"}
         /\ call'[c].pc = "check" => call'[c].idx = 1
<1>a. call \in [Callers -> CallType] /\ {"sessions", "done", "receipts", "check"} \subseteq CallPcs
  BY DEF ExecutorTypeOK, CallPcs
<1>b. \A result : Finish(c, result) => call'[c].pc = "done" /\ call'[c].result = result
  BY <1>a DEF Finish, CallType
<1>1. CASE CheckBatchCapacity(c)
  <2>1. CASE GoTo(c, "sessions")
    BY <2>1, <1>a, Moved
  <2>2. CASE \E n \in Refused(call[c].acts, CallNow(c)) :
               Finish(c, VerdictAt(call[c].acts, n, CallNow(c)))
    <3>1. \A acts, n, t : VerdictAt(acts, n, t) # "ran"
      BY DEF VerdictAt, Capacity
    <3>2. QED
      BY <2>2, <3>1, <1>b
  <2>3. QED
    BY <1>1, <2>1, <2>2 DEF CheckBatchCapacity
<1>2. CASE NotConnected(c)
  BY <1>2, <1>b DEF NotConnected
<1>3. CASE \E guard : CreateBatch(c, guard) /\ batch' = batch
  <2>1. \/ Finish(c, "consent") \/ Finish(c, "error")
        \/ call' = [call EXCEPT ![c].pc = "receipts", ![c].idx = 1]
    BY <1>3 DEF CreateBatch
  <2>2. QED
    BY <2>1, <1>a, <1>b, Moved
<1>4. CASE CreatePendingReceipt(c)
  <2>1. \/ Finish(c, "error")
        \/ call' = [call EXCEPT ![c].pc = "check", ![c].idx = 1]
        \/ NextAction(c, "receipts")
    BY <1>4 DEF CreatePendingReceipt
  <2>2. CASE Finish(c, "error")
    BY <2>2, <1>b
  <2>3. CASE NextAction(c, "receipts")
    BY <2>3, <1>a, Moved
  <2>4. CASE call' = [call EXCEPT ![c].pc = "check", ![c].idx = 1]
    BY <2>4, <1>a, Moved
  <2>5. QED
    BY <2>1, <2>2, <2>3, <2>4
<1>5. QED
  BY <1>1, <1>2, <1>3, <1>4

\* The row of a batch is written by the call that creates it and by the call
\* that closes it.
LEMMA BatchRow ==
  ASSUME ExecutorInv, BatchIsOwn, NEW c \in Callers, CallMove(c)
  PROVE  \/ batch' = batch /\ (InBatch(c)' => InBatch(c))
         \/ /\ batch[call[c].batch] = "none"
            /\ batch' = [batch EXCEPT ![call[c].batch] = "running"]
            /\ call'[c].pc = "receipts"
         \/ /\ InBatch(c) /\ call[c].pc = "close"
            /\ batch' = [batch EXCEPT ![call[c].batch] = BatchOutcome(call[c].acts)]
            /\ receipt' = receipt /\ call'[c].pc = "done"
<1>a. /\ call \in [Callers -> CallType] /\ {"done", "receipts"} \subseteq CallPcs
      /\ ExecutorTypeOK
  BY DEF ExecutorInv, ExecutorTypeOK, CallPcs
<1>1. CASE CheckBatchCapacity(c) \/ NotConnected(c)
  <2>1. batch' = batch
    BY <1>1 DEF CheckBatchCapacity, NotConnected, tables
  <2>2. call'[c].pc \in {"sessions", "done"}
    BY <1>1, <1>a, Moved DEF CheckBatchCapacity, NotConnected, CallPcs
  <2>3. ~InBatch(c)'
    BY <1>1, <1>a, <2>2, NotRan DEF InBatch
  <2>4. QED
    BY <2>1, <2>3
<1>2. CASE \E guard : CreateBatch(c, guard)
  <2>1. \/ /\ batch[call[c].batch] = "none"
           /\ batch' = [batch EXCEPT ![call[c].batch] = "running"]
           /\ call' = [call EXCEPT ![c].pc = "receipts", ![c].idx = 1]
        \/ batch' = batch /\ (Finish(c, "consent") \/ Finish(c, "error"))
    BY <1>2 DEF CreateBatch
  <2>2. \A result : Finish(c, result) => call'[c].pc = "done"
    BY <1>a, Moved
  <2>3. call' = [call EXCEPT ![c].pc = "receipts", ![c].idx = 1] => call'[c].pc = "receipts"
    BY <1>a, Moved
  <2>4. CASE batch' = batch /\ call'[c].pc = "done"
    <3>1. ~InBatch(c)'
      BY <1>2, <1>a, <2>4, NotRan DEF InBatch
    <3>2. QED
      BY <2>4, <3>1
  <2>5. QED
    BY <2>1, <2>2, <2>3, <2>4
<1>3. CASE CloseBatch(c)
  BY <1>3, <1>a, Moved DEF CloseBatch, InBatch
<1>4. CASE /\ call[c].pc \notin {"timezone", "sessions"}
           /\ CallMove(c) /\ ~CloseBatch(c)
  <2>1. batch' = batch
    BY <1>4 DEF CallMove, ServerStep, CheckBatchCapacity, NotConnected, CreateBatch,
                CreatePendingReceipt, CheckAction, StartRunner, RunnerAnswers, RecordOutcome,
                AdvanceApplication, AfterAction, PauseEnds, StopAction, tables
  <2>2. InBatch(c)
    BY <1>4, <1>a, CallMoveFrame DEF InBatch, ExecutorInv
  <2>3. QED
    BY <2>1, <2>2
<1>5. call[c].pc \in {"timezone", "sessions"} =>
        CheckBatchCapacity(c) \/ NotConnected(c) \/ \E guard : CreateBatch(c, guard)
  BY DEF CallMove, ServerStep, CreatePendingReceipt, CheckAction, StartRunner, RunnerAnswers,
         RecordOutcome, AdvanceApplication, AfterAction, PauseEnds, StopAction, CloseBatch
<1>6. QED
  BY <1>1, <1>2, <1>3, <1>4, <1>5

LEMMA BatchStep ==
  ASSUME ExecutorInv, BatchIsOwn, ExecutorMove
  PROVE  BatchIsOwn'
<1>a. /\ call \in [Callers -> CallType] /\ batch \in [Batches -> BatchStatus]
      /\ ExecutorTypeOK
  BY DEF ExecutorInv, ExecutorTypeOK
<1>1. CASE \E c \in Callers : BeginMove(c) \/ ForgetMove(c)
  <2>1. PICK c \in Callers : BeginMove(c) \/ ForgetMove(c)
    BY <1>1
  <2>2. /\ ~InBatch(c)' /\ batch' = batch
        /\ \A d \in Callers : d # c => call'[d] = call[d]
    <3>1. CASE BeginMove(c)
      BY <3>1, <1>a DEF BeginMove, Begin, IdleCall, InBatch, tables
    <3>2. CASE ForgetMove(c)
      BY <3>2, <1>a DEF ForgetMove, IdleCall, InBatch, tables
    <3>3. QED
      BY <2>1, <3>1, <3>2
  <2>3. \A d \in Callers : InBatch(d)' => d # c /\ InBatch(d) /\ call'[d] = call[d]
    BY <2>2 DEF InBatch
  <2>4. QED
    BY <2>2, <2>3 DEF BatchIsOwn
<1>2. CASE \E c \in Callers : CallMove(c)
  <2>1. PICK c \in Callers : CallMove(c)
    BY <1>2
  <2>2. /\ \A d \in Callers : d # c => call'[d] = call[d]
        /\ call'[c].batch = call[c].batch /\ call[c].pc # "idle"
    BY <2>1, CallMoveFrame DEF ExecutorInv
  <2>3. \A d \in Callers : d # c => InBatch(d)' = InBatch(d)
    BY <2>2 DEF InBatch
  <2>4. \A d \in Callers : call'[d].batch = call[d].batch
    BY <2>2
  <2>5. CASE batch' = batch /\ (InBatch(c)' => InBatch(c))
    <3>1. \A d \in Callers : InBatch(d)' => InBatch(d)
      BY <2>3, <2>5
    <3>2. QED
      BY <2>4, <2>5, <3>1 DEF BatchIsOwn
  <2>6. CASE /\ batch[call[c].batch] = "none"
             /\ batch' = [batch EXCEPT ![call[c].batch] = "running"]
    <3>1. \A d \in Callers : d # c /\ InBatch(d) => call[d].batch # call[c].batch
      BY <2>6 DEF BatchIsOwn
    <3>2. call[c].batch \in Batches
      BY <2>2 DEF ExecutorInv, WellPlaced
    <3>3. \A d \in Callers : InBatch(d)' => batch'[call[d].batch] # "none"
      BY <2>3, <2>6, <3>1, <3>2, <1>a DEF BatchIsOwn
    <3>4. \A d, e \in Callers : InBatch(d)' /\ InBatch(e)' /\ call[d].batch = call[e].batch => d = e
      BY <2>3, <3>1 DEF BatchIsOwn
    <3>5. QED
      BY <2>4, <3>3, <3>4 DEF BatchIsOwn
  <2>7. CASE /\ InBatch(c)
             /\ batch' = [batch EXCEPT ![call[c].batch] = BatchOutcome(call[c].acts)]
    <3>1. BatchOutcome(call[c].acts) # "none"
      BY DEF BatchOutcome
    <3>2. \A d \in Callers : InBatch(d)' => InBatch(d)
      BY <2>3, <2>7
    <3>3. \A d \in Callers : InBatch(d) => batch'[call[d].batch] # "none"
      BY <2>7, <3>1, <1>a DEF BatchIsOwn
    <3>4. QED
      BY <2>4, <3>2, <3>3 DEF BatchIsOwn
  <2>8. QED
    BY <2>1, <2>5, <2>6, <2>7, BatchRow
<1>3. CASE OutsideMove
  BY <1>3 DEF OutsideMove, BatchIsOwn, InBatch
<1>4. CASE Crash
  <2>1. \A c \in Callers : ~InBatch(c)'
    BY <1>4 DEF Crash, LoseMemory, IdleCall, InBatch
  <2>2. QED
    BY <2>1 DEF BatchIsOwn
<1>5. QED
  BY <1>1, <1>2, <1>3, <1>4 DEF ExecutorMove

\* The places of a call name actions.
LEMMA ActsOf ==
  ASSUME ExecutorInv, NEW c \in Callers, call[c].pc # "idle"
  PROVE  /\ call[c].acts \in Seq(Actions) /\ Len(call[c].acts) \in Nat
         /\ DOMAIN call[c].acts = 1..Len(call[c].acts)
         /\ call[c].batch \in Batches
<1>1. call[c].acts \in ActSeqs /\ call[c].batch \in Batches
  BY DEF ExecutorInv, WellPlaced
<1>2. QED
  BY <1>1, RequestShape

\* What a call that does not move has settled stays settled.
LEMMA SettledOthers ==
  ASSUME ExecutorInv, ExecutorMove, NEW d \in Callers, SettledAt(d), call'[d] = call[d],
         InBatch(d) => batch'[call[d].batch] = batch[call[d].batch]
  PROVE  SettledAt(d)'
<1>1. CASE call[d].pc \in {"idle", "timezone", "sessions", "receipts"}
  BY <1>1 DEF SettledAt
<1>2. CASE call[d].pc \notin {"idle", "timezone", "sessions", "receipts"}
  <2>1. /\ call[d].acts \in Seq(Actions) /\ Len(call[d].acts) \in Nat
        /\ DOMAIN call[d].acts = 1..Len(call[d].acts)
    BY <1>2, ActsOf
  <2>2. \A n \in DOMAIN call[d].acts :
          receipt[call[d].acts[n]] \in Final => receipt'[call[d].acts[n]] = receipt[call[d].acts[n]]
    BY <2>1, FinalKept DEF ExecutorInv
  <2>3. "delivered" \in Final
    BY DEF Final
  <2>4. CASE call[d].pc = "done"
    <3>1. CASE call[d].result = "ran"
      <4>1. /\ \A n \in DOMAIN call[d].acts : receipt[call[d].acts[n]] \in Final
            /\ batch[call[d].batch] = BatchOutcome(call[d].acts)
            /\ batch'[call[d].batch] = batch[call[d].batch]
        BY <2>4, <3>1 DEF SettledAt, InBatch
      <4>2. \A n \in DOMAIN call[d].acts : receipt'[call[d].acts[n]] = receipt[call[d].acts[n]]
        BY <2>2, <4>1
      <4>3. {n \in DOMAIN call[d].acts : receipt'[call[d].acts[n]] = "delivered"}
              = {n \in DOMAIN call[d].acts : receipt[call[d].acts[n]] = "delivered"}
        BY <4>2
      <4>4. BatchOutcome(call[d].acts)' = BatchOutcome(call[d].acts)
        BY <4>3 DEF BatchOutcome
      <4>5. QED
        BY <2>4, <4>1, <4>2, <4>4 DEF SettledAt
    <3>2. CASE call[d].result # "ran"
      BY <2>4, <3>2 DEF SettledAt
    <3>3. QED
      BY <3>1, <3>2
  <2>5. CASE call[d].pc # "done"
    <3>1. /\ call[d].idx \in 1..Len(call[d].acts) /\ call[d].idx \in Nat
          /\ Current(d) = call[d].acts[call[d].idx]
      BY <1>2, <2>5, PlaceOf
    <3>2. Current(d)' = Current(d)
      BY DEF Current
    <3>3. \A n \in 1..(call[d].idx - 1) : n \in DOMAIN call[d].acts
      BY <2>1, <3>1
    <3>4. QED
      BY <2>1, <2>2, <2>3, <2>5, <3>1, <3>2, <3>3 DEF SettledAt
  <2>6. QED
    BY <2>4, <2>5
<1>3. QED
  BY <1>1, <1>2

\* A settled receipt is final, whoever looks at it.
LEMMA SettledNow ==
  ASSUME ExecutorTypeOK, NEW a \in Actions, NEW status \in Final, SettleReceipt(a, status)
  PROVE  receipt'[a] = status /\ receipt'[a] \in Final
  BY DEF SettleReceipt, ExecutorTypeOK

\* What a call has settled when it has made a step.
LEMMA SettledMover ==
  ASSUME ExecutorInv, BatchIsOwn, NEW c \in Callers, SettledAt(c), CallMove(c)
  PROVE  SettledAt(c)'
<1> DEFINE k == call[c].idx
           acts == call[c].acts
           Earlier(S) == \A n \in 1..(k - 1) : receipt[acts[n]] \in S
           EarlierNow(S) == \A n \in 1..(k - 1) : receipt'[acts[n]] \in S
<1>a. call \in [Callers -> CallType] /\ ExecutorTypeOK
  BY DEF ExecutorInv, ExecutorTypeOK
<1>b. CallPcs = {"idle", "timezone", "sessions", "receipts", "check", "reserved",
                 "running", "record", "advance", "after", "pausing", "stopping",
                 "close", "done"}
  BY DEF CallPcs
<1>c. {"delivered", "attempted", "failed"} = Final
  BY DEF Final
<1>d. ExecutorMove
  BY DEF ExecutorMove
<1>e. call'[c].acts = acts /\ call[c].pc # "idle" /\ call'[c].batch = call[c].batch
  BY <1>a, CallMoveFrame DEF ExecutorInv
<1>f. acts \in Seq(Actions) /\ Len(acts) \in Nat /\ DOMAIN acts = 1..Len(acts)
  BY <1>e, ActsOf
<1>g. \A n \in DOMAIN acts :
        receipt[acts[n]] \in Final => receipt'[acts[n]] = receipt[acts[n]]
  BY <1>a, <1>d, <1>f, FinalKept
<1>h. call[c].pc \notin {"idle", "timezone", "sessions", "done"} =>
        /\ k \in Nat /\ k \in 1..Len(acts) /\ Current(c) = acts[k] /\ Current(c) \in Actions
        /\ \A n \in 1..(k - 1) : n \in DOMAIN acts
        /\ Earlier({"delivered"}) => EarlierNow({"delivered"})
        /\ Earlier(Final) => EarlierNow(Final)
  <2> SUFFICES ASSUME call[c].pc \notin {"idle", "timezone", "sessions", "done"}
               PROVE  /\ k \in Nat /\ k \in 1..Len(acts)
                      /\ Current(c) = acts[k] /\ Current(c) \in Actions
                      /\ \A n \in 1..(k - 1) : n \in DOMAIN acts
                      /\ Earlier({"delivered"}) => EarlierNow({"delivered"})
                      /\ Earlier(Final) => EarlierNow(Final)
    OBVIOUS
  <2>1. /\ k \in Nat /\ k \in 1..Len(acts)
        /\ Current(c) = acts[k] /\ Current(c) \in Actions
    BY PlaceOf
  <2>2. \A n \in 1..(k - 1) : n \in DOMAIN acts
    BY <2>1, <1>f
  <2>3. Earlier({"delivered"}) => EarlierNow({"delivered"})
    BY <2>2, <1>c, <1>g
  <2>4. Earlier(Final) => EarlierNow(Final)
    BY <2>2, <1>g
  <2>5. QED
    BY <2>1, <2>2, <2>3, <2>4
<1>i. call'[c].idx = k => Current(c)' = Current(c)
  BY <1>e DEF Current
<1>j. call[c].pc \in {"check", "reserved", "running", "record", "pausing", "advance", "after"} =>
        Earlier({"delivered"}) /\ Earlier(Final)
  BY <1>c DEF SettledAt
<1>k. ASSUME call'[c].pc \in {"check", "reserved", "running", "record", "pausing"},
             call'[c].idx = k, EarlierNow({"delivered"})
      PROVE  SettledAt(c)'
  BY <1>k, <1>e DEF SettledAt
<1>l. ASSUME call'[c].pc = "after", call'[c].idx = k, EarlierNow({"delivered"}),
             receipt'[Current(c)] \in Final
      PROVE  SettledAt(c)'
  BY <1>l, <1>e, <1>i DEF SettledAt
<1>1. CASE \/ CheckBatchCapacity(c) \/ NotConnected(c)
           \/ \E guard : CreateBatch(c, guard) /\ batch' = batch
           \/ CreatePendingReceipt(c)
  BY <1>1, <1>a, NotRan DEF SettledAt
<1>2. CASE \E guard : CreateBatch(c, guard) /\ batch' # batch
  <2>1. call' = [call EXCEPT ![c].pc = "receipts", ![c].idx = 1]
    BY <1>2 DEF CreateBatch
  <2>2. call'[c].pc = "receipts"
    BY <1>a, <1>b, <2>1, Moved
  <2>3. QED
    BY <2>2 DEF SettledAt
<1>3. CASE CheckAction(c)
  <2>1. call[c].pc = "check" /\ Current(c) \in Actions /\ EarlierNow({"delivered"})
    BY <1>3, <1>h, <1>j DEF CheckAction
  <2>2. CASE GoTo(c, "stopping")
    <3>1. call'[c].pc = "stopping" /\ call'[c].idx = k
      BY <1>a, <1>b, <2>2, Moved
    <3>2. EarlierNow(Final)
      BY <2>1, <1>c
    <3>3. QED
      BY <3>1, <3>2, <1>e DEF SettledAt
  <2>3. CASE SettleReceipt(Current(c), "failed") /\ GoTo(c, "after")
    <3>1. call'[c].pc = "after" /\ call'[c].idx = k
      BY <1>a, <1>b, <2>3, Moved
    <3>2. receipt'[Current(c)] \in Final
      BY <1>a, <1>c, <2>1, <2>3, SettledNow
    <3>3. QED
      BY <2>1, <3>1, <3>2, <1>l
  <2>4. CASE GoTo(c, "reserved")
    <3>1. call'[c].pc = "reserved" /\ call'[c].idx = k
      BY <1>a, <1>b, <2>4, Moved
    <3>2. QED
      BY <2>1, <3>1, <1>k
  <2>5. QED
    BY <1>3, <2>2, <2>3, <2>4 DEF CheckAction
<1>4. CASE StartRunner(c)
  <2>1. call[c].pc = "reserved" /\ Current(c) \in Actions /\ EarlierNow({"delivered"})
    BY <1>4, <1>h, <1>j DEF StartRunner
  <2>2. CASE SettleReceipt(Current(c), "attempted") /\ GoTo(c, "after")
    <3>1. call'[c].pc = "after" /\ call'[c].idx = k
      BY <1>a, <1>b, <2>2, Moved
    <3>2. receipt'[Current(c)] \in Final
      BY <1>a, <1>c, <2>1, <2>2, SettledNow
    <3>3. QED
      BY <2>1, <3>1, <3>2, <1>l
  <2>3. CASE GoTo(c, "running")
    <3>1. call'[c].pc = "running" /\ call'[c].idx = k
      BY <1>a, <1>b, <2>3, Moved
    <3>2. QED
      BY <2>1, <3>1, <1>k
  <2>4. QED
    BY <1>4, <2>2, <2>3 DEF StartRunner
<1>5. CASE \E outcome \in Outcomes : RunnerAnswers(c, outcome)
  <2>1. call[c].pc = "running" /\ call'[c].pc = "record" /\ call'[c].idx = k
    BY <1>5, <1>a, AnswerMoves DEF RunnerAnswers
  <2>2. EarlierNow({"delivered"})
    BY <2>1, <1>h, <1>j
  <2>3. QED
    BY <2>1, <2>2, <1>k
<1>6. CASE RecordOutcome(c)
  <2>1. /\ call[c].pc = "record" /\ Current(c) \in Actions /\ EarlierNow({"delivered"})
        /\ Current(c) = acts[k] /\ k \in DOMAIN acts
    BY <1>6, <1>f, <1>h, <1>j DEF RecordOutcome
  <2>2. PICK status \in Final : /\ SettleReceipt(Current(c), status)
                                /\ \/ status = "delivered" /\ GoTo(c, "advance")
                                   \/ status # "delivered" /\ GoTo(c, "after")
    <3>1. call[c].outcome \in RunnerOutcomes
      BY <2>1, ConstantsAssumption DEF ExecutorInv, WellPlaced
    <3>2. QED
      BY <1>6, <3>1, <1>c DEF RecordOutcome, RunnerOutcomes
  <2>3. receipt'[Current(c)] = status /\ receipt'[Current(c)] \in Final
    BY <1>a, <2>1, <2>2, SettledNow
  <2>4. CASE status = "delivered" /\ GoTo(c, "advance")
    <3>1. call'[c].pc = "advance" /\ call'[c].idx = k
      BY <1>a, <1>b, <2>4, Moved
    <3>2. QED
      BY <2>1, <2>3, <2>4, <3>1, <1>e, <1>i DEF SettledAt
  <2>5. CASE status # "delivered" /\ GoTo(c, "after")
    <3>1. call'[c].pc = "after" /\ call'[c].idx = k
      BY <1>a, <1>b, <2>5, Moved
    <3>2. QED
      BY <2>1, <2>3, <3>1, <1>l
  <2>6. QED
    BY <2>2, <2>4, <2>5
<1>7. CASE AdvanceApplication(c)
  <2>1. call[c].pc = "advance" /\ EarlierNow({"delivered"}) /\ receipt' = receipt
    BY <1>7, <1>h, <1>j DEF AdvanceApplication
  <2>2. call'[c].pc = "after" /\ call'[c].idx = k
    BY <1>7, <1>a, <1>b, Moved DEF AdvanceApplication
  <2>3. receipt'[Current(c)] \in Final
    BY <2>1, <1>c DEF SettledAt
  <2>4. QED
    BY <2>1, <2>2, <2>3, <1>l
<1>8. CASE AfterAction(c)
  <2>1. /\ call[c].pc = "after" /\ k \in Nat /\ k \in 1..Len(acts) /\ Current(c) = acts[k]
        /\ Earlier({"delivered"}) /\ Earlier(Final) /\ receipt[Current(c)] \in Final
        /\ receipt' = receipt
    BY <1>8, <1>h, <1>j DEF AfterAction, SettledAt, tables
  <2>2. CASE GoTo(c, "close") /\ k = Len(acts)
    <3>1. call'[c].pc = "close"
      BY <1>a, <1>b, <2>2, Moved
    <3>2. \A n \in DOMAIN acts : receipt'[acts[n]] \in Final
      BY <2>1, <2>2, <1>f
    <3>3. QED
      BY <3>1, <3>2, <1>e DEF SettledAt
  <2>3. CASE receipt[Current(c)] = "delivered" /\ NextAction(c, "pausing")
    <3>1. call'[c].pc = "pausing" /\ call'[c].idx = k + 1
      BY <1>a, <1>b, <2>3, Moved
    <3>2. \A n \in 1..(call'[c].idx - 1) : receipt'[acts[n]] = "delivered"
      BY <2>1, <2>3, <3>1
    <3>3. QED
      BY <3>1, <3>2, <1>e DEF SettledAt
  <2>4. CASE NextAction(c, "stopping")
    <3>1. call'[c].pc = "stopping" /\ call'[c].idx = k + 1
      BY <1>a, <1>b, <2>4, Moved
    <3>2. \A n \in 1..(call'[c].idx - 1) : receipt'[acts[n]] \in Final
      BY <2>1, <3>1
    <3>3. QED
      BY <3>1, <3>2, <1>e DEF SettledAt
  <2>5. QED
    BY <1>8, <2>2, <2>3, <2>4 DEF AfterAction
<1>9. CASE PauseEnds(c)
  <2>1. call[c].pc = "pausing" /\ call'[c].pc = "check" /\ call'[c].idx = k
    BY <1>9, <1>a, <1>b, Moved DEF PauseEnds
  <2>2. EarlierNow({"delivered"})
    BY <2>1, <1>h, <1>j
  <2>3. QED
    BY <2>1, <2>2, <1>k
<1>10. CASE StopAction(c)
  <2>1. /\ call[c].pc = "stopping" /\ k \in Nat /\ k \in 1..Len(acts) /\ Current(c) = acts[k]
        /\ Current(c) \in Actions
    BY <1>10, <1>h DEF StopAction
  <2>2. EarlierNow(Final)
    BY <2>1, <1>h DEF SettledAt
  <2>3. receipt'[acts[k]] \in Final
    BY <1>10, <1>a, <1>c, <2>1, SettledNow DEF StopAction
  <2>4. CASE GoTo(c, "close") /\ k = Len(acts)
    <3>1. call'[c].pc = "close"
      BY <1>a, <1>b, <2>4, Moved
    <3>2. \A n \in DOMAIN acts : receipt'[acts[n]] \in Final
      BY <2>1, <2>2, <2>3, <2>4, <1>f
    <3>3. QED
      BY <3>1, <3>2, <1>e DEF SettledAt
  <2>5. CASE NextAction(c, "stopping")
    <3>1. call'[c].pc = "stopping" /\ call'[c].idx = k + 1
      BY <1>a, <1>b, <2>5, Moved
    <3>2. \A n \in 1..(call'[c].idx - 1) : receipt'[acts[n]] \in Final
      BY <2>1, <2>2, <2>3, <3>1
    <3>3. QED
      BY <3>1, <3>2, <1>e DEF SettledAt
  <2>6. QED
    BY <1>10, <2>4, <2>5 DEF StopAction
<1>11. CASE CloseBatch(c)
  <2>1. /\ call[c].pc = "close" /\ receipt' = receipt
        /\ batch' = [batch EXCEPT ![call[c].batch] = BatchOutcome(acts)]
        /\ Finish(c, "ran")
    BY <1>11 DEF CloseBatch
  <2>2. call'[c].pc = "done"
    BY <1>a, <1>b, <2>1, Moved
  <2>3. call[c].batch \in Batches /\ batch \in [Batches -> BatchStatus]
    BY <1>a, <1>e, ActsOf DEF ExecutorTypeOK
  <2>4. batch'[call[c].batch] = BatchOutcome(acts)
    BY <2>1, <2>3
  <2>5. BatchOutcome(acts)' = BatchOutcome(acts) /\ call'[c].acts = acts
    BY <2>1, <1>e DEF BatchOutcome
  <2>6. \A n \in DOMAIN acts : receipt'[acts[n]] \in Final
    BY <2>1 DEF SettledAt
  <2>7. QED
    BY <2>2, <2>4, <2>5, <2>6, <1>e DEF SettledAt
<1>12. CASE \E guard : CreateBatch(c, guard)
  BY <1>1, <1>2, <1>12
<1> HIDE DEF k, acts, Earlier, EarlierNow
<1>13. QED
  BY <1>1, <1>3, <1>4, <1>5, <1>6, <1>7, <1>8, <1>9, <1>10, <1>11, <1>12 DEF CallMove, ServerStep

LEMMA SettledStep ==
  ASSUME ExecutorInv, BatchIsOwn, SettledSoFar, ExecutorMove
  PROVE  SettledSoFar'
<1>a. call \in [Callers -> CallType]
  BY DEF ExecutorInv, ExecutorTypeOK
<1>1. CASE \E c \in Callers : BeginMove(c) \/ ForgetMove(c)
  <2>1. PICK c \in Callers : BeginMove(c) \/ ForgetMove(c)
    BY <1>1
  <2>2. /\ call'[c].pc \in {"idle", "timezone", "done"}
        /\ call'[c].result # "ran" /\ batch' = batch
        /\ \A d \in Callers : d # c => call'[d] = call[d]
    <3>1. CASE BeginMove(c)
      BY <3>1, <1>a DEF BeginMove, Begin, IdleCall, tables
    <3>2. CASE ForgetMove(c)
      BY <3>2, <1>a DEF ForgetMove, IdleCall, tables
    <3>3. QED
      BY <2>1, <3>1, <3>2
  <2>3. SettledAt(c)'
    BY <2>2 DEF SettledAt
  <2>4. \A d \in Callers : d # c => SettledAt(d)'
    BY <2>2, SettledOthers DEF SettledSoFar
  <2>5. QED
    BY <2>3, <2>4 DEF SettledSoFar
<1>2. CASE \E c \in Callers : CallMove(c)
  <2>1. PICK c \in Callers : CallMove(c)
    BY <1>2
  <2>2. \A d \in Callers : d # c => call'[d] = call[d]
    BY <2>1, CallMoveFrame DEF ExecutorInv
  <2>3. ASSUME NEW d \in Callers, d # c, InBatch(d)
        PROVE  batch'[call[d].batch] = batch[call[d].batch]
    <3>1. batch[call[d].batch] # "none"
      BY <2>3 DEF BatchIsOwn
    <3>2. InBatch(c) => call[d].batch # call[c].batch
      BY <2>3 DEF BatchIsOwn
    <3>3. batch \in [Batches -> BatchStatus] /\ call[d].batch \in Batches
      <4>1. call[d].pc # "idle"
        BY <2>3 DEF InBatch
      <4>2. QED
        BY <4>1, ActsOf DEF ExecutorInv, ExecutorTypeOK
    <3>4. QED
      BY <2>1, <3>1, <3>2, <3>3, BatchRow
  <2>4. \A d \in Callers : d # c => SettledAt(d)'
    BY <2>2, <2>3, SettledOthers DEF SettledSoFar
  <2>5. SettledAt(c)'
    BY <2>1, SettledMover DEF SettledSoFar
  <2>6. QED
    BY <2>4, <2>5 DEF SettledSoFar
<1>3. CASE OutsideMove
  BY <1>3, SettledOthers DEF OutsideMove, SettledSoFar
<1>4. CASE Crash
  BY <1>4 DEF Crash, LoseMemory, IdleCall, SettledSoFar, SettledAt
<1>5. QED
  BY <1>1, <1>2, <1>3, <1>4 DEF ExecutorMove

\* Only the delivery of its own action moves a card to `applied'.
LEMMA AppliedStep ==
  ASSUME ExecutorInv, SettledSoFar, AppliedMeansDelivered, ExecutorMove
  PROVE  AppliedMeansDelivered'
<1> SUFFICES ASSUME NEW a \in Tracked, card'[a] = "applied" PROVE receipt'[a] = "delivered"
  BY DEF AppliedMeansDelivered
<1>a. a \in Actions /\ "delivered" \in Final /\ card \in [Tracked -> {"saved", "applied", "other"}]
  BY ConstantsAssumption DEF Final, ExecutorInv, ExecutorTypeOK
<1>1. CASE card[a] = "applied"
  BY <1>1, <1>a, FinalKept DEF AppliedMeansDelivered, ExecutorInv
<1>2. CASE card[a] # "applied"
  <2>1. PICK c \in Callers : AdvanceApplication(c)
    BY <1>2 DEF ExecutorMove, BeginMove, ForgetMove, OutsideMove, Crash, CallMove, ServerStep,
                CheckBatchCapacity, NotConnected, CreateBatch, CreatePendingReceipt, CheckAction,
                StartRunner, RunnerAnswers, RecordOutcome, AfterAction, PauseEnds, StopAction,
                CloseBatch, tables
  <2>2. a = Current(c)
    BY <1>2, <2>1 DEF AdvanceApplication
  <2>3. receipt[Current(c)] = "delivered" /\ receipt' = receipt
    BY <2>1 DEF AdvanceApplication, SettledSoFar, SettledAt
  <2>4. QED
    BY <2>2, <2>3
<1>3. QED
  BY <1>1, <1>2

-----------------------------------------------------------------------------
(* The limits of a day.                                                     *)

\* A step that neither starts the runner nor reserves a slot writes no usage and
\* reserves nothing.
LEMMA UsageSame ==
  ASSUME ExecutorInv, ExecutorMove,
         \A c \in Callers : ~Starts(c) /\ ~(CheckAction(c) /\ call'[c].pc = "reserved")
  PROVE  /\ UNCHANGED <<used, lastBoost, history>>
         /\ \A d \in Callers : call'[d].pc = "reserved" =>
              /\ call[d].pc = "reserved"
              /\ Current(d)' = Current(d) /\ CallNow(d)' = CallNow(d)
<1>1. UNCHANGED history
  BY StartsOnly
<1>2. UNCHANGED <<used, lastBoost>>
  <2>1. CASE \E c \in Callers : CheckAction(c)
    <3>1. PICK c \in Callers : CheckAction(c)
      BY <2>1
    <3>2. GoTo(c, "reserved") => call'[c].pc = "reserved"
      BY Moved DEF ExecutorInv, ExecutorTypeOK, CallPcs
    <3>3. QED
      BY <3>1, <3>2 DEF CheckAction
  <2>2. CASE \A c \in Callers : ~CheckAction(c)
    BY <2>2 DEF ExecutorMove, BeginMove, ForgetMove, OutsideMove, Crash, CallMove, ServerStep,
                CheckBatchCapacity, NotConnected, CreateBatch, CreatePendingReceipt,
                StartRunner, RunnerAnswers, RecordOutcome, AdvanceApplication, AfterAction,
                PauseEnds, StopAction, CloseBatch, tables
  <2>3. QED
    BY <2>1, <2>2
<1>3. \A d \in Callers : call'[d].pc = "reserved" =>
        /\ call[d].pc = "reserved"
        /\ Current(d)' = Current(d) /\ CallNow(d)' = CallNow(d)
  BY ReservedKept
<1>4. QED
  BY <1>1, <1>2, <1>3

\* When a call reserves a slot nobody else is between its check and its start.
LEMMA AloneAtCheck ==
  ASSUME ExecutorInv, NEW c \in Callers, CheckAction(c)
  PROVE  /\ UNCHANGED history
         /\ \A e \in Callers : call[e].pc # "reserved"
         /\ \A e \in Callers : call'[e].pc = "reserved" => e = c
<1>1. /\ \A e \in Callers : e # c => call'[e] = call[e] /\ call[e].pc \notin HoldingPcs
      /\ call[c].pc = "check" /\ UNCHANGED history
  BY CallMoveFrame DEF CallMove, ServerStep, CheckAction, ExecutorInv
<1>2. "reserved" \in HoldingPcs
  BY DEF HoldingPcs
<1>3. QED
  BY <1>1, <1>2

LEMMA UsageStep ==
  ASSUME ExecutorInv, UsageCounted, ExecutorMove
  PROVE  UsageCounted'
<1> SUFFICES ASSUME NEW d \in Days, NEW k \in Kinds
             PROVE  (/\ IsFiniteSet(RunOn(d, k))
                     /\ Cardinality(RunOn(d, k)) + (IF ReservedOn(d, k) = {} THEN 0 ELSE 1)
                          <= used[d][k]
                     /\ used[d][k] <= Limit[k])'
  BY DEF UsageCounted
<1>a. /\ IsFiniteSet(RunOn(d, k)) /\ Cardinality(RunOn(d, k)) \in Nat
      /\ Cardinality(RunOn(d, k)) + (IF ReservedOn(d, k) = {} THEN 0 ELSE 1) <= used[d][k]
      /\ used[d][k] <= Limit[k]
  BY FS_CardinalityType DEF UsageCounted
<1>b. used \in [Days -> [Kinds -> Nat]] /\ used[d][k] \in Nat /\ Limit[k] \in Nat
  BY ConstantsAssumption DEF ExecutorInv, ExecutorTypeOK
<1>c. UNCHANGED history => RunOn(d, k)' = RunOn(d, k)
  BY DEF history, RunOn
<1>1. CASE \E c \in Callers : Starts(c)
  <2>1. PICK c \in Callers : Starts(c)
    BY <1>1
  <2>2. /\ call[c].pc = "reserved" /\ Current(c) \in Actions
        /\ runs[Current(c)] = 0 /\ runs'[Current(c)] = 1 /\ runAt'[Current(c)] = CallNow(c)
        /\ \A a \in Actions : a # Current(c) => runs'[a] = runs[a] /\ runAt'[a] = runAt[a]
        /\ call'[c].pc = "running"
        /\ \A e \in Callers : e # c => call'[e] = call[e] /\ call[e].pc # "reserved"
    BY <2>1, StartFacts
  <2>3. used' = used
    BY <2>1 DEF Starts, StartRunner
  <2>4. ReservedOn(d, k)' = {}
    BY <2>2 DEF ReservedOn
  <2>5. CASE DayOf(CallNow(c)) = d /\ KindOf[Current(c)] = k
    <3>1. RunOn(d, k)' = RunOn(d, k) \cup {Current(c)} /\ Current(c) \notin RunOn(d, k)
      BY <2>2, <2>5 DEF RunOn
    <3>2. c \in ReservedOn(d, k)
      BY <2>2, <2>5 DEF ReservedOn
    <3>3. /\ IsFiniteSet(RunOn(d, k) \cup {Current(c)})
          /\ Cardinality(RunOn(d, k) \cup {Current(c)}) = Cardinality(RunOn(d, k)) + 1
      BY <1>a, <3>1, FS_AddElement
    <3>4. QED
      BY <1>a, <1>b, <2>3, <2>4, <3>1, <3>2, <3>3
  <2>6. CASE ~(DayOf(CallNow(c)) = d /\ KindOf[Current(c)] = k)
    <3>1. RunOn(d, k)' = RunOn(d, k)
      BY <2>2, <2>6 DEF RunOn
    <3>2. QED
      BY <1>a, <1>b, <2>3, <2>4, <3>1
  <2>7. QED
    BY <2>5, <2>6
<1>2. CASE \E c \in Callers : CheckAction(c) /\ call'[c].pc = "reserved"
  <2>1. PICK c \in Callers : CheckAction(c) /\ call'[c].pc = "reserved"
    BY <1>2
  <2>2. /\ Capacity(KindOf[Current(c)], CallNow(c), 0) = "allowed"
        /\ Current(c)' = Current(c) /\ CallNow(c)' = CallNow(c)
        /\ used' = [used EXCEPT ![DayOf(CallNow(c))][KindOf[Current(c)]] = @ + 1]
    BY <2>1, CheckedFacts
  <2>3. /\ RunOn(d, k)' = RunOn(d, k) /\ ReservedOn(d, k) = {}
        /\ \A e \in Callers : call'[e].pc = "reserved" => e = c
    BY <2>1, <1>c, AloneAtCheck DEF ReservedOn
  <2>4. CASE DayOf(CallNow(c)) = d /\ KindOf[Current(c)] = k
    <3>1. used'[d][k] = used[d][k] + 1
      BY <1>b, <2>2, <2>4
    <3>2. ~(used[d][k] + 0 >= Limit[k])
      BY <2>2, <2>4 DEF Capacity
    <3>3. QED
      BY <1>a, <1>b, <2>3, <3>1, <3>2
  <2>5. CASE ~(DayOf(CallNow(c)) = d /\ KindOf[Current(c)] = k)
    <3>1. used'[d][k] = used[d][k]
      BY <1>b, <2>2, <2>5
    <3>2. ReservedOn(d, k)' = {}
      BY <2>2, <2>3, <2>5 DEF ReservedOn
    <3>3. QED
      BY <1>a, <2>3, <3>1, <3>2
  <2>6. QED
    BY <2>4, <2>5
<1>3. CASE \A c \in Callers : ~Starts(c) /\ ~(CheckAction(c) /\ call'[c].pc = "reserved")
  <2>1. /\ used' = used /\ RunOn(d, k)' = RunOn(d, k)
        /\ \A e \in Callers : call'[e].pc = "reserved" =>
             call[e].pc = "reserved" /\ Current(e)' = Current(e) /\ CallNow(e)' = CallNow(e)
    BY <1>3, <1>c, UsageSame
  <2>2. ReservedOn(d, k)' \subseteq ReservedOn(d, k)
    BY <2>1 DEF ReservedOn
  <2>3. QED
    BY <1>a, <1>b, <2>1, <2>2
<1>4. QED
  BY <1>1, <1>2, <1>3

-----------------------------------------------------------------------------
(* The distance of two boosts.                                              *)

\* A call is asked to run at a time of the clock.
LEMMA KnownTimesStep ==
  ASSUME ExecutorInv, KnownTimes, ExecutorMove
  PROVE  KnownTimes'
<1>a. call \in [Callers -> CallType]
  BY DEF ExecutorInv, ExecutorTypeOK
<1>1. CASE \E c \in Callers : BeginMove(c)
  <2>1. PICK c \in Callers, at \in Times \cup {NoTime},
             b \in Batches, acts \in ActSeqs : Begin(c, b, acts, at)
    BY <1>1 DEF BeginMove
  <2>2. call'[c].at = at /\ \A d \in Callers : d # c => call'[d] = call[d]
    BY <2>1, <1>a DEF Begin, IdleCall
  <2>3. QED
    BY <2>2 DEF KnownTimes
<1>2. CASE \E c \in Callers : CallMove(c)
  <2>1. PICK c \in Callers : CallMove(c)
    BY <1>2
  <2>2. call'[c].at = call[c].at /\ \A d \in Callers : d # c => call'[d] = call[d]
    BY <2>1, CallMoveFrame DEF ExecutorInv
  <2>3. QED
    BY <2>2 DEF KnownTimes
<1>3. CASE \E c \in Callers : ForgetMove(c)
  BY <1>3, <1>a DEF ForgetMove, IdleCall, KnownTimes
<1>4. CASE OutsideMove
  BY <1>4 DEF OutsideMove, KnownTimes
<1>5. CASE Crash
  BY <1>5 DEF Crash, LoseMemory, IdleCall, KnownTimes
<1>6. QED
  BY <1>1, <1>2, <1>3, <1>4, <1>5 DEF ExecutorMove

LEMMA DayOfType == \A t \in Times : t \in Nat /\ DayOf(t) \in Nat /\ DayOf(t) \in Days
<1>1. Times \subseteq Nat /\ DayLength \in Nat \ {0}
  BY ConstantsAssumption DEF Times
<1>2. \A t \in Nat : t \div DayLength \in Nat
  BY <1>1
<1>3. QED
  BY <1>1, <1>2 DEF DayOf, Days

\* The night between two days is longer than the least time between two boosts.
NightsAreLong ==
  \A s, t \in Times \ Quiet : DayOf(s) < DayOf(t) => s + BoostGap <= t

LEMMA BoostsStep ==
  ASSUME NightsAreLong, ExecutorInv, ReservedMayRun, NoRunAtNight, KnownTimes, BoostsKept,
         ExecutorMove
  PROVE  BoostsKept'
<1>a. /\ runs \in [Actions -> Nat] /\ runAt \in [Actions -> Nat \cup {NoTime}]
      /\ lastBoost \in [Days -> Nat \cup {NoTime}] /\ clock \in Times
      /\ BoostGap \in Nat /\ NoTime \notin Nat
  BY ConstantsAssumption DEF ExecutorInv, ExecutorTypeOK
<1>b. \A c \in Callers : CallNow(c) \in Times
  BY <1>a DEF KnownTimes, CallNow
<1>1. CASE \E c \in Callers : Starts(c)
  <2>1. PICK c \in Callers : Starts(c)
    BY <1>1
  <2>2. /\ call[c].pc = "reserved" /\ Current(c) \in Actions
        /\ runs[Current(c)] = 0 /\ runs'[Current(c)] = 1 /\ runAt'[Current(c)] = CallNow(c)
        /\ \A a \in Actions : a # Current(c) => runs'[a] = runs[a] /\ runAt'[a] = runAt[a]
        /\ call'[c].pc = "running"
        /\ \A e \in Callers : e # c => call'[e] = call[e] /\ call[e].pc # "reserved"
    BY <2>1, StartFacts
  <2>3. lastBoost' = lastBoost /\ \A e \in Callers : call'[e].pc # "reserved"
    BY <2>1, <2>2 DEF Starts, StartRunner
  <2> DEFINE x == Current(c)
             t == CallNow(c)
  <2>4. CASE KindOf[x] = "hh_resume_boost"
    <3>1. Boosts' = Boosts \cup {x} /\ x \notin Boosts
      BY <2>2, <2>4 DEF Boosts
    <3>2. \A a \in Boosts : runAt'[a] = runAt[a] /\ a # x
      BY <2>2, <3>1 DEF Boosts
    <3>3. /\ t \in Times /\ t \notin Quiet /\ lastBoost[DayOf(t)] = t
          /\ \A a \in Boosts : DayOf(runAt[a]) = DayOf(t) => runAt[a] + BoostGap <= t
      BY <1>b, <2>2, <2>4 DEF BoostsKept, ReservedMayRun
    <3>4. \A a \in Boosts : runAt[a] \in Times \ Quiet
      BY DEF BoostsKept, NoRunAtNight, Boosts
    <3>5. \A a \in Boosts : runAt[a] + BoostGap <= t \/ t + BoostGap <= runAt[a]
      BY <3>3, <3>4, DayOfType DEF NightsAreLong
    <3>6. \A a \in Boosts' : /\ runAt'[a] \in Times
                             /\ lastBoost'[DayOf(runAt'[a])] # NoTime
                             /\ runAt'[a] <= lastBoost'[DayOf(runAt'[a])]
      <4>1. \A a \in Boosts : /\ runAt'[a] \in Times
                              /\ lastBoost'[DayOf(runAt'[a])] # NoTime
                              /\ runAt'[a] <= lastBoost'[DayOf(runAt'[a])]
        BY <2>3, <3>2 DEF BoostsKept
      <4>2. /\ runAt'[x] \in Times /\ lastBoost'[DayOf(runAt'[x])] # NoTime
            /\ runAt'[x] <= lastBoost'[DayOf(runAt'[x])]
        BY <1>a, <2>2, <2>3, <3>3, DayOfType
      <4>3. QED
        BY <3>1, <4>1, <4>2
    <3>7. BoostsApart'
      <4>1. \A a, b \in Boosts' : a # b =>
              runAt'[a] >= runAt'[b] + BoostGap \/ runAt'[b] >= runAt'[a] + BoostGap
        <5> SUFFICES ASSUME NEW a \in Boosts', NEW b \in Boosts', a # b
                     PROVE  runAt'[a] >= runAt'[b] + BoostGap \/ runAt'[b] >= runAt'[a] + BoostGap
          OBVIOUS
        <5>1. CASE a \in Boosts /\ b \in Boosts
          BY <3>2, <5>1 DEF BoostsKept, BoostsApart, Boosts
        <5>2. CASE a = x
          <6>1. b \in Boosts /\ runAt'[a] = t /\ runAt'[b] = runAt[b]
            BY <2>2, <3>1, <3>2, <5>2
          <6>2. runAt[b] \in Nat /\ t \in Nat
            BY <3>3, <3>4, <6>1, DayOfType
          <6>3. QED
            BY <1>a, <3>5, <6>1, <6>2
        <5>3. CASE b = x
          <6>1. a \in Boosts /\ runAt'[b] = t /\ runAt'[a] = runAt[a]
            BY <2>2, <3>1, <3>2, <5>3
          <6>2. runAt[a] \in Nat /\ t \in Nat
            BY <3>3, <3>4, <6>1, DayOfType
          <6>3. QED
            BY <1>a, <3>5, <6>1, <6>2
        <5>4. QED
          BY <3>1, <5>1, <5>2, <5>3
      <4>2. QED
        BY <4>1 DEF BoostsApart, Boosts
    <3>8. QED
      BY <2>3, <3>6, <3>7 DEF BoostsKept
  <2>5. CASE KindOf[x] # "hh_resume_boost"
    <3>1. Boosts' = Boosts /\ \A a \in Boosts : runAt'[a] = runAt[a]
      BY <2>2, <2>5 DEF Boosts
    <3>2. BoostsApart'
      BY <3>1 DEF BoostsKept, BoostsApart, Boosts
    <3>3. QED
      BY <2>3, <3>1, <3>2 DEF BoostsKept
  <2>6. QED
    BY <2>4, <2>5
<1>2. CASE \E c \in Callers : CheckAction(c) /\ call'[c].pc = "reserved"
  <2>1. PICK c \in Callers : CheckAction(c) /\ call'[c].pc = "reserved"
    BY <1>2
  <2> DEFINE t == CallNow(c)
             day == DayOf(t)
  <2>2. /\ Capacity(KindOf[Current(c)], t, 0) = "allowed"
        /\ Current(c)' = Current(c) /\ CallNow(c)' = t
        /\ lastBoost' = IF KindOf[Current(c)] = "hh_resume_boost"
                        THEN [lastBoost EXCEPT ![day] = t] ELSE lastBoost
    BY <2>1, CheckedFacts
  <2>3. /\ UNCHANGED history
        /\ \A e \in Callers : call'[e].pc = "reserved" => e = c
    BY <2>1, AloneAtCheck
  <2>4. Boosts' = Boosts /\ runAt' = runAt /\ (BoostsApart => BoostsApart')
    BY <2>3 DEF history, Boosts, BoostsApart
  <2>5. CASE KindOf[Current(c)] = "hh_resume_boost"
    <3>1. t \in Times /\ t \in Nat /\ day \in Days
      BY <1>b, DayOfType
    <3>2. lastBoost[day] # NoTime => lastBoost[day] \in Nat /\ lastBoost[day] + BoostGap <= t
      <4>1. ~(lastBoost[day] # NoTime /\ t < lastBoost[day] + BoostGap)
        BY <2>2, <2>5 DEF Capacity
      <4>2. QED
        BY <1>a, <3>1, <4>1
    <3> HIDE DEF t, day
    <3>3. \A a \in Boosts : DayOf(runAt[a]) = day =>
            runAt[a] \in Nat /\ runAt[a] + BoostGap <= t /\ runAt[a] <= t
      <4> SUFFICES ASSUME NEW a \in Boosts, DayOf(runAt[a]) = day
                   PROVE  runAt[a] \in Nat /\ runAt[a] + BoostGap <= t /\ runAt[a] <= t
        OBVIOUS
      <4>1. runAt[a] \in Nat /\ lastBoost[day] # NoTime /\ runAt[a] <= lastBoost[day]
        BY DayOfType DEF BoostsKept
      <4>2. QED
        BY <1>a, <3>1, <3>2, <4>1
    <3>4. /\ lastBoost'[day] = t
          /\ \A e \in Days : e # day => lastBoost'[e] = lastBoost[e]
      BY <1>a, <2>2, <2>5, <3>1
    <3>5. \A a \in Boosts' : /\ runAt'[a] \in Times
                             /\ lastBoost'[DayOf(runAt'[a])] # NoTime
                             /\ runAt'[a] <= lastBoost'[DayOf(runAt'[a])]
      <4> SUFFICES ASSUME NEW a \in Boosts
                   PROVE  /\ runAt[a] \in Times
                          /\ lastBoost'[DayOf(runAt[a])] # NoTime
                          /\ runAt[a] <= lastBoost'[DayOf(runAt[a])]
        BY <2>4
      <4>1. CASE DayOf(runAt[a]) = day
        BY <1>a, <3>1, <3>3, <3>4, <4>1 DEF BoostsKept
      <4>2. CASE DayOf(runAt[a]) # day
        BY <3>4, <4>2, DayOfType DEF BoostsKept
      <4>3. QED
        BY <4>1, <4>2
    <3>6. \A e \in Callers :
            call'[e].pc = "reserved" /\ KindOf[Current(e)'] = "hh_resume_boost" =>
              /\ lastBoost'[DayOf(CallNow(e)')] = CallNow(e)'
              /\ \A a \in Boosts' : DayOf(runAt'[a]) = DayOf(CallNow(e)') =>
                   runAt'[a] + BoostGap <= CallNow(e)'
      BY <2>2, <2>3, <2>4, <3>3, <3>4 DEF day
    <3>7. QED
      BY <2>4, <3>5, <3>6 DEF BoostsKept
  <2>6. CASE KindOf[Current(c)] # "hh_resume_boost"
    BY <2>2, <2>3, <2>4, <2>6 DEF BoostsKept
  <2>7. QED
    BY <2>5, <2>6
<1>3. CASE \A c \in Callers : ~Starts(c) /\ ~(CheckAction(c) /\ call'[c].pc = "reserved")
  <2>1. /\ UNCHANGED <<lastBoost, history>>
        /\ \A e \in Callers : call'[e].pc = "reserved" =>
             call[e].pc = "reserved" /\ Current(e)' = Current(e) /\ CallNow(e)' = CallNow(e)
    BY <1>3, UsageSame
  <2>2. Boosts' = Boosts /\ runAt' = runAt /\ (BoostsApart => BoostsApart')
    BY <2>1 DEF history, Boosts, BoostsApart
  <2>3. QED
    BY <2>1, <2>2 DEF BoostsKept
<1>4. QED
  BY <1>1, <1>2, <1>3

-----------------------------------------------------------------------------
(* The invariant, and what follows from it.                                 *)

LEMMA BatchInvInit == ExecutorInit => BatchInv /\ KnownTimes /\ BoostsKept
<1> SUFFICES ASSUME ExecutorInit PROVE BatchInv /\ KnownTimes /\ BoostsKept
  OBVIOUS
<1>a. /\ \A c \in Callers : call[c] = IdleCall
      /\ \A a \in Actions : runs[a] = 0
      /\ inFlight = FALSE
  BY DEF ExecutorInit
<1>b. IdleCall.pc = "idle" /\ IdleCall.result = "none" /\ IdleCall.at = NoTime
  BY DEF IdleCall
<1>1. ExecutorInv
  BY InitInv
<1>2. ReservedMayRun /\ NoRunAtNight
  BY <1>a, <1>b DEF ReservedMayRun, NoRunAtNight
<1>3. OneLinkedinRunner
  <2>1. RunningLinkedin = {}
    BY <1>a, <1>b DEF RunningLinkedin
  <2>2. QED
    BY <1>a, <2>1 DEF OneLinkedinRunner
<1>4. BatchIsOwn
  BY <1>a, <1>b DEF BatchIsOwn, InBatch
<1>5. SettledSoFar
  BY <1>a, <1>b DEF SettledSoFar, SettledAt
<1>6. AppliedMeansDelivered
  BY DEF ExecutorInit, AppliedMeansDelivered
<1>7. UsageCounted
  <2> SUFFICES ASSUME NEW d \in Days, NEW k \in Kinds
               PROVE  /\ IsFiniteSet(RunOn(d, k))
                      /\ Cardinality(RunOn(d, k)) + (IF ReservedOn(d, k) = {} THEN 0 ELSE 1)
                           <= used[d][k]
                      /\ used[d][k] <= Limit[k]
    BY DEF UsageCounted
  <2>1. RunOn(d, k) = {} /\ ReservedOn(d, k) = {}
    BY <1>a, <1>b DEF RunOn, ReservedOn
  <2>2. used[d][k] = 0 /\ Limit[k] \in Nat
    BY ConstantsAssumption DEF ExecutorInit
  <2>3. QED
    BY <2>1, <2>2, FS_EmptySet
<1>8. KnownTimes /\ BoostsKept
  BY <1>a, <1>b DEF KnownTimes, BoostsKept, Boosts, BoostsApart
<1>9. QED
  BY <1>1, <1>2, <1>3, <1>4, <1>5, <1>6, <1>7, <1>8 DEF BatchInv

\* Whoever calls the executor, each of its steps keeps the invariant.
LEMMA BatchMoveInv == BatchInv /\ ExecutorMove => BatchInv'
  BY MoveInv, ReservedStep, NightStep, LinkedinStep, BatchStep, SettledStep, AppliedStep, UsageStep
     DEF BatchInv

\* What the runs check of it.
LEMMA BatchInvMeans ==
  ASSUME BatchInv
  PROVE  ExecutorInv /\ RunsWithinLimit /\ StopsAtFirstFailure
<1>1. RunsWithinLimit
  <2> SUFFICES ASSUME NEW d \in Days, NEW k \in Kinds
               PROVE  Cardinality(RunOn(d, k)) <= Limit[k]
    BY DEF RunsWithinLimit, RunOn
  <2>1. /\ Cardinality(RunOn(d, k)) \in Nat /\ used[d][k] \in Nat /\ Limit[k] \in Nat
        /\ Cardinality(RunOn(d, k)) + (IF ReservedOn(d, k) = {} THEN 0 ELSE 1) <= used[d][k]
        /\ used[d][k] <= Limit[k]
    BY FS_CardinalityType, ConstantsAssumption
       DEF BatchInv, UsageCounted, ExecutorInv, ExecutorTypeOK
  <2>2. QED
    BY <2>1
<1>2. StopsAtFirstFailure
  BY DEF BatchInv, SettledSoFar, SettledAt, StopsAtFirstFailure
<1>3. QED
  BY <1>1, <1>2 DEF BatchInv

\* BatchInv holds throughout.
THEOREM BatchInvHolds == ExecutorSpec => []BatchInv
<1>1. ExecutorInit => BatchInv
  BY BatchInvInit
<1>2. BatchInv /\ [ExecutorNext]_executorVars => BatchInv'
  BY NextMoves, BatchMoveInv DEF BatchInv, ExecutorInv
<1>3. QED
  BY <1>1, <1>2, PTL DEF ExecutorSpec

\* No more actions of a kind start in a day than its limit, whatever batches run
\* side by side: the slot is reserved in the turn of the loop that checks it.
THEOREM LimitHolds == ExecutorSpec => []RunsWithinLimit
<1>1. BatchInv => RunsWithinLimit
  BY BatchInvMeans
<1>2. QED
  BY <1>1, BatchInvHolds, PTL

\* A batch stops at its first action that is not delivered, and what
\* executeBatch returns is complete and what the table says.
THEOREM BatchStops == ExecutorSpec => []StopsAtFirstFailure
<1>1. BatchInv => StopsAtFirstFailure
  BY BatchInvMeans
<1>2. QED
  BY <1>1, BatchInvHolds, PTL

\* One LinkedIn runner of the candidate works at a time, and the guard of
\* executeAction says exactly whether it does.
THEOREM OneLinkedin == ExecutorSpec => []OneLinkedinRunner
<1>1. BatchInv => OneLinkedinRunner
  BY DEF BatchInv
<1>2. QED
  BY <1>1, BatchInvHolds, PTL

\* A card is moved to `applied' only on a delivery the provider confirmed.
THEOREM AppliedIsDelivered == ExecutorSpec => []AppliedMeansDelivered
<1>1. BatchInv => AppliedMeansDelivered
  BY DEF BatchInv
<1>2. QED
  BY <1>1, BatchInvHolds, PTL

\* No action starts in the quiet hours.
THEOREM NightsAreQuiet == ExecutorSpec => []NoRunAtNight
<1>1. BatchInv => NoRunAtNight
  BY DEF BatchInv
<1>2. QED
  BY <1>1, BatchInvHolds, PTL

\* No action starts while a kill switch of its platform or of the candidate is
\* on, be it in the middle of a batch.
THEOREM StopsHold == ExecutorSpec => NoStartWhenStopped
<1>1. BatchInv /\ [ExecutorNext]_executorVars
        => [\A a \in Actions : runs'[a] > runs[a] => ~KillSwitchActive(a)]_executorVars
  BY NextMoves, NoStoppedStart DEF BatchInv, ExecutorInv
<1>2. QED
  BY <1>1, BatchInvHolds, PTL DEF ExecutorSpec, NoStartWhenStopped

\* Two resume boosts are at least the interval apart, although the row that
\* remembers the last one is that of its day, provided that no two times outside
\* the quiet hours are closer than the interval across midnight.
THEOREM BoostsStayApart ==
  ASSUME NightsAreLong
  PROVE  ExecutorSpec => []BoostsApart
<1> DEFINE Inv == BatchInv /\ KnownTimes /\ BoostsKept
<1>1. ExecutorInit => Inv
  BY BatchInvInit
<1>2. Inv /\ [ExecutorNext]_executorVars => Inv'
  BY NextMoves, BatchMoveInv, KnownTimesStep, BoostsStep DEF BatchInv, ExecutorInv
<1>3. Inv => BoostsApart
  BY DEF BoostsKept
<1> HIDE DEF Inv
<1>4. QED
  BY <1>1, <1>2, <1>3, PTL DEF ExecutorSpec

=============================================================================
