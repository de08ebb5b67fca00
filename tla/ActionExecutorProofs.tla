------------------------ MODULE ActionExecutorProofs ------------------------
(***************************************************************************)
(* Proofs about ActionExecutor, for any number of callers, actions and     *)
(* batches, any requests and any limits.                                   *)
(***************************************************************************)
EXTENDS ActionExecutor, TLAPS

\* What a request names: a batch id and a nonempty sequence of actions.
LEMMA RequestShape ==
  /\ \A r \in Requests : r.batch \in Batches /\ r.acts \in ActSeqs
  /\ \A acts \in ActSeqs : acts \in Seq(Actions) /\ Len(acts) \in Nat \ {0}
<1>1. \A r \in Requests : r \in [batch : Batches, acts : Seq(Actions) \ {<<>>}]
  BY ConstantsAssumption
<1>2. \A r \in Requests : r.batch \in Batches /\ r.acts \in ActSeqs
  BY <1>1 DEF ActSeqs
<1>3. ASSUME NEW acts \in ActSeqs
      PROVE  acts \in Seq(Actions) /\ Len(acts) \in Nat \ {0}
  <2>1. CASE \E r \in Requests : acts = r.acts
    <3>1. acts \in Seq(Actions) /\ acts # <<>>
      BY <2>1, <1>1
    <3>2. QED
      BY <3>1
  <2>2. CASE \E a \in Actions : acts = <<a>>
    BY <2>2
  <2>3. QED
    BY <2>1, <2>2 DEF ActSeqs
<1>4. QED
  BY <1>2, <1>3

-----------------------------------------------------------------------------
(* Types.                                                                   *)

\* A call record keeps its type when a step changes its place, its outcome or
\* its result.
LEMMA CallUpdate ==
  ASSUME NEW x \in CallType, NEW pc \in CallPcs, NEW k \in Nat,
         NEW outcome \in Outcomes \cup {"none"}, NEW result \in Results
  PROVE  /\ [x EXCEPT !.pc = pc] \in CallType
         /\ [x EXCEPT !.pc = pc, !.idx = k] \in CallType
         /\ [x EXCEPT !.pc = pc, !.outcome = outcome] \in CallType
         /\ [x EXCEPT !.pc = pc, !.result = result] \in CallType
  BY DEF CallType

LEMMA IdleCallType == IdleCall \in CallType
  BY DEF IdleCall, CallType, CallPcs, BatchNames, Results

LEMMA InitTypeOK == ExecutorInit => ExecutorTypeOK
<1> SUFFICES ASSUME ExecutorInit PROVE ExecutorTypeOK
  OBVIOUS
<1>1. call \in [Callers -> CallType]
  BY IdleCallType DEF ExecutorInit
<1>2. clock \in Times
  BY ConstantsAssumption DEF ExecutorInit, Times
<1>3. used \in [Days -> [Kinds -> Nat]] /\ lastBoost \in [Days -> Nat \cup {NoTime}]
  BY DEF ExecutorInit
<1>4. QED
  BY <1>1, <1>2, <1>3 DEF ExecutorInit, ExecutorTypeOK, BatchStatus

LEMMA CallMoves ==
  ASSUME call \in [Callers -> CallType], NEW c \in Callers, NEW pc \in CallPcs
  PROVE  /\ GoTo(c, pc) => call' \in [Callers -> CallType]
         /\ NextAction(c, pc) => call' \in [Callers -> CallType]
         /\ \A result \in Results : Finish(c, result) => call' \in [Callers -> CallType]
         /\ call' = [call EXCEPT ![c].pc = pc, ![c].idx = 1]
              => call' \in [Callers -> CallType]
<1>1. call[c] \in CallType /\ call[c].idx \in Nat
  BY DEF CallType
<1>2. GoTo(c, pc) => call' \in [Callers -> CallType]
  <2> SUFFICES ASSUME GoTo(c, pc) PROVE call' \in [Callers -> CallType]
    OBVIOUS
  <2>1. [call[c] EXCEPT !.pc = pc] \in CallType
    BY <1>1 DEF CallType
  <2>2. call' = [call EXCEPT ![c] = [call[c] EXCEPT !.pc = pc]]
    BY DEF GoTo
  <2>3. QED
    BY <2>1, <2>2
<1>3. NextAction(c, pc) => call' \in [Callers -> CallType]
  BY <1>1 DEF NextAction, CallType
<1>4. \A result \in Results : Finish(c, result) => call' \in [Callers -> CallType]
  <2> SUFFICES ASSUME NEW result \in Results, Finish(c, result)
               PROVE  call' \in [Callers -> CallType]
    OBVIOUS
  <2>1. "done" \in CallPcs
    BY DEF CallPcs
  <2>2. QED
    BY <1>1, <2>1 DEF Finish, CallType
<1>5. call' = [call EXCEPT ![c].pc = pc, ![c].idx = 1]
        => call' \in [Callers -> CallType]
  <2>1. [call[c] EXCEPT !.pc = pc, !.idx = 1] \in CallType
    BY <1>1, CallUpdate DEF CallType
  <2>2. [call EXCEPT ![c].pc = pc, ![c].idx = 1]
          = [call EXCEPT ![c] = [call[c] EXCEPT !.pc = pc, !.idx = 1]]
    OBVIOUS
  <2>3. QED
    BY <2>1, <2>2
<1>6. QED
  BY <1>2, <1>3, <1>4, <1>5

\* A settled receipt is one of the table's statuses.
LEMMA SettleType ==
  ASSUME receipt \in [Actions -> Final \cup {"none", "pending"}],
         NEW a, NEW status \in Final \cup {"none"}, SettleReceipt(a, status)
  PROVE  receipt' \in [Actions -> Final \cup {"none", "pending"}]
  BY DEF SettleReceipt

LEMMA CallNowType ==
  ASSUME ExecutorTypeOK, NEW c \in Callers
  PROVE  CallNow(c) \in Nat
  BY ConstantsAssumption DEF ExecutorTypeOK, CallNow, CallType, Times

LEMMA RefusalType ==
  ASSUME NEW acts, NEW t, NEW n \in Refused(acts, t)
  PROVE  VerdictAt(acts, n, t) \in Results
<1>1. VerdictAt(acts, n, t) \in Results \cup {"allowed"}
  BY DEF VerdictAt, Capacity, Results
<1>2. VerdictAt(acts, n, t) # "allowed"
  BY DEF Refused
<1>3. QED
  BY <1>1, <1>2

LEMMA BeginType ==
  ASSUME call \in [Callers -> CallType], NEW c \in Callers, NEW b \in Batches,
         NEW acts \in ActSeqs, NEW at \in Nat \cup {NoTime}, Begin(c, b, acts, at)
  PROVE  call' \in [Callers -> CallType]
<1> DEFINE new == [IdleCall EXCEPT !.batch = b, !.acts = acts, !.at = at,
                     !.pc = IF onBehalf THEN "timezone" ELSE "done",
                     !.result = IF onBehalf THEN "none" ELSE "consent"]
<1>1. new \in CallType
  BY DEF IdleCall, CallType, CallPcs, BatchNames, Results
<1>2. call' = [call EXCEPT ![c] = new]
  BY DEF Begin
<1>3. QED
  BY <1>1, <1>2

\* Each step of a call keeps the types.
LEMMA ServerStepTypeOK ==
  ASSUME ExecutorTypeOK, NEW c \in Callers, NEW guard, ServerStep(c, guard)
  PROVE  ExecutorTypeOK'
<1> USE DEF ExecutorTypeOK
<1>a. CallPcs = {"idle", "timezone", "sessions", "receipts", "check", "reserved",
                 "running", "record", "advance", "after", "pausing", "stopping",
                 "close", "done"}
  BY DEF CallPcs
<1>b. {"failed", "attempted", "delivered"} = Final /\ {"ran", "error", "consent"} \subseteq Results
  BY DEF Final, Results
<1>c. call[c] \in CallType /\ CallNow(c) \in Nat
  BY CallNowType
<1>1. CASE CheckBatchCapacity(c)
  <2>1. call' \in [Callers -> CallType]
    BY <1>1, <1>a, CallMoves, RefusalType DEF CheckBatchCapacity
  <2>2. QED
    BY <1>1, <2>1 DEF CheckBatchCapacity, tables, history
<1>2. CASE CreateBatch(c, guard)
  <2>1. call' \in [Callers -> CallType]
    BY <1>2, <1>a, <1>b, CallMoves DEF CreateBatch
  <2>2. batch' \in [Batches -> BatchStatus] /\ loop' \in Callers \cup {Free}
    BY <1>2 DEF CreateBatch, BatchStatus
  <2>3. QED
    BY <1>2, <2>1, <2>2 DEF CreateBatch, history
<1>3. CASE CreatePendingReceipt(c)
  <2>1. call' \in [Callers -> CallType]
    BY <1>3, <1>a, <1>b, CallMoves DEF CreatePendingReceipt
  <2>2. receipt' \in [Actions -> Final \cup {"none", "pending"}] /\ loop' \in Callers \cup {Free}
    BY <1>3 DEF CreatePendingReceipt
  <2>3. QED
    BY <1>3, <2>1, <2>2 DEF CreatePendingReceipt, history
<1>4. CASE CheckAction(c)
  <2>1. call' \in [Callers -> CallType]
    BY <1>4, <1>a, CallMoves DEF CheckAction
  <2>2. receipt' \in [Actions -> Final \cup {"none", "pending"}]
    BY <1>4, <1>b, SettleType DEF CheckAction
  <2>3. used' \in [Days -> [Kinds -> Nat]]
    <3> DEFINE d == DayOf(CallNow(c))
               k == KindOf[Current(c)]
               row == [used[d] EXCEPT ![k] = used[d][k] + 1]
    <3>1. d \in Days => row \in [Kinds -> Nat]
      <4> SUFFICES ASSUME d \in Days PROVE row \in [Kinds -> Nat]
        OBVIOUS
      <4>1. used[d] \in [Kinds -> Nat]
        OBVIOUS
      <4> HIDE DEF d, k
      <4>2. CASE k \in Kinds
        BY <4>1, <4>2
      <4>3. CASE k \notin Kinds
        BY <4>1, <4>3
      <4>4. QED
        BY <4>2, <4>3
    <3>2. used' \in {used, [used EXCEPT ![d] = row]}
      BY <1>4 DEF CheckAction
    <3> HIDE DEF d, row
    <3>3. QED
      BY <3>1, <3>2
  <2>4. lastBoost' \in [Days -> Nat \cup {NoTime}] /\ loop' \in Callers \cup {Free}
    BY <1>4, <1>c DEF CheckAction
  <2>5. QED
    BY <1>4, <2>1, <2>2, <2>3, <2>4 DEF CheckAction, history
<1>5. CASE StartRunner(c)
  <2>1. call' \in [Callers -> CallType]
    BY <1>5, <1>a, CallMoves DEF StartRunner
  <2>2. receipt' \in [Actions -> Final \cup {"none", "pending"}]
    BY <1>5, <1>b, SettleType DEF StartRunner
  <2>3. runs' \in [Actions -> Nat] /\ runAt' \in [Actions -> Nat \cup {NoTime}]
    BY <1>5, <1>c DEF StartRunner, history
  <2>4. inFlight' \in BOOLEAN
    BY <1>5, Zenon DEF StartRunner, IsLinkedin
  <2>5. QED
    BY <1>5, <2>1, <2>2, <2>3, <2>4 DEF StartRunner
<1>6. CASE RecordOutcome(c)
  <2>1. call' \in [Callers -> CallType]
    BY <1>6, <1>a, CallMoves DEF RecordOutcome
  <2>2. PICK status \in Final \cup {"none"} : SettleReceipt(Current(c), status)
    <3>1. call[c].outcome \in RunnerOutcomes \cup {"none"}
      BY <1>c, ConstantsAssumption DEF CallType
    <3>2. QED
      BY <1>6, <3>1 DEF RecordOutcome, RunnerOutcomes, Final
  <2>3. receipt' \in [Actions -> Final \cup {"none", "pending"}]
    BY <2>2, SettleType
  <2>4. QED
    BY <1>6, <2>1, <2>3 DEF RecordOutcome, history
<1>7. CASE AdvanceApplication(c)
  <2>1. call' \in [Callers -> CallType]
    BY <1>7, <1>a, CallMoves DEF AdvanceApplication
  <2>2. card' \in [Tracked -> {"saved", "applied", "other"}]
    BY <1>7 DEF AdvanceApplication
  <2>3. QED
    BY <1>7, <2>1, <2>2 DEF AdvanceApplication, history
<1>8. CASE AfterAction(c)
  <2>1. call' \in [Callers -> CallType]
    BY <1>8, <1>a, CallMoves DEF AfterAction
  <2>2. QED
    BY <1>8, <2>1 DEF AfterAction, tables, history
<1>9. CASE PauseEnds(c)
  <2>1. call' \in [Callers -> CallType]
    BY <1>9, <1>a, CallMoves DEF PauseEnds
  <2>2. QED
    BY <1>9, <2>1 DEF PauseEnds, tables, history
<1>10. CASE StopAction(c)
  <2>1. call' \in [Callers -> CallType]
    BY <1>10, <1>a, CallMoves DEF StopAction
  <2>2. receipt' \in [Actions -> Final \cup {"none", "pending"}]
    BY <1>10, <1>b, SettleType DEF StopAction
  <2>3. QED
    BY <1>10, <2>1, <2>2 DEF StopAction, history
<1>11. CASE CloseBatch(c)
  <2>1. call' \in [Callers -> CallType]
    BY <1>11, <1>a, <1>b, CallMoves DEF CloseBatch
  <2>2. batch' \in [Batches -> BatchStatus]
    BY <1>11 DEF CloseBatch, BatchOutcome, BatchStatus
  <2>3. QED
    BY <1>11, <2>1, <2>2 DEF CloseBatch, history
<1>12. QED
  BY <1>1, <1>2, <1>3, <1>4, <1>5, <1>6, <1>7, <1>8, <1>9, <1>10, <1>11 DEF ServerStep

LEMMA AnswerTypeOK ==
  ASSUME ExecutorTypeOK, NEW c \in Callers,
         NotConnected(c) \/ \E outcome \in Outcomes : RunnerAnswers(c, outcome)
  PROVE  ExecutorTypeOK'
<1> USE DEF ExecutorTypeOK
<1>1. CASE NotConnected(c)
  <2>1. call' \in [Callers -> CallType]
    BY <1>1, CallMoves DEF NotConnected, CallPcs, Results
  <2>2. QED
    BY <1>1, <2>1 DEF NotConnected, tables, history
<1>2. CASE \E outcome \in Outcomes : RunnerAnswers(c, outcome)
  <2>1. PICK outcome \in Outcomes : RunnerAnswers(c, outcome)
    BY <1>2
  <2>2. [call[c] EXCEPT !.pc = "record", !.outcome = outcome] \in CallType
    <3>1. call[c] \in CallType /\ "record" \in CallPcs
      BY DEF CallPcs
    <3>2. QED
      BY <3>1 DEF CallType
  <2>3. [call EXCEPT ![c].pc = "record", ![c].outcome = outcome]
          = [call EXCEPT ![c] = [call[c] EXCEPT !.pc = "record", !.outcome = outcome]]
    OBVIOUS
  <2>4. call' \in [Callers -> CallType]
    BY <2>1, <2>2, <2>3 DEF RunnerAnswers
  <2>5. kill' \subseteq Scopes
    BY <2>1 DEF RunnerAnswers, Scopes
  <2>6. inFlight' \in BOOLEAN
    <3>1. inFlight' = (inFlight /\ ~IsLinkedin(Current(c)))
      BY <2>1, Zenon DEF RunnerAnswers
    <3>2. \A p, q : (p /\ ~q) \in BOOLEAN
      BY Zenon
    <3>3. QED
      BY <3>1, <3>2, Zenon
  <2>7. QED
    BY <2>1, <2>4, <2>5, <2>6 DEF RunnerAnswers, history
<1>3. QED
  BY <1>1, <1>2

-----------------------------------------------------------------------------
(* The steps of the executor and of what is around it.                      *)

\* No call is inside a synchronous stretch.
Quietly == \A c \in Callers : call[c].pc \notin HoldingPcs

\* A call that is inside one holds the event loop.  (The loop may also be held
\* by what is around the executor.)
HoldsLoop == \A c \in Callers : call[c].pc \in HoldingPcs => loop = c

BeginMove(c) ==
  /\ Quietly
  /\ \E b \in Batches, acts \in ActSeqs, at \in Times \cup {NoTime} : Begin(c, b, acts, at)
  /\ loop' \in Callers \cup {Free}
  /\ UNCHANGED <<clock, tables, inFlight, history>>

CallMove(c) ==
  \/ \E guard : ServerStep(c, guard)
  \/ NotConnected(c)
  \/ \E outcome \in Outcomes : RunnerAnswers(c, outcome)

ForgetMove(c) ==
  /\ Quietly
  /\ call[c].pc = "done"
  /\ call' = [call EXCEPT ![c] = IdleCall]
  /\ loop' \in Callers \cup {Free}
  /\ UNCHANGED <<clock, tables, inFlight, history>>

\* Whatever else may happen: no call, batch or receipt is touched, no card is
\* moved to `applied', and the clock, the stops and the loop wait for a call
\* that is inside a stretch.
OutsideMove ==
  /\ UNCHANGED <<batch, receipt, used, lastBoost, inFlight, call, history>>
  /\ clock' \in Times /\ onBehalf' \in BOOLEAN /\ kill' \subseteq Scopes
  /\ loop' \in Callers \cup {Free}
  /\ card' \in [Tracked -> {"saved", "applied", "other"}]
  /\ \A a \in Tracked : card'[a] = "applied" => card[a] = "applied"
  /\ Quietly \/ UNCHANGED <<clock, kill, loop>>

\* The steps that the proofs are about: those of ExecutorNext, and of any other
\* specification that calls the executor as its clients do.
ExecutorMove ==
  \/ \E c \in Callers : BeginMove(c) \/ CallMove(c) \/ ForgetMove(c)
  \/ OutsideMove
  \/ Crash

LEMMA MoveTypeOK == ExecutorTypeOK /\ ExecutorMove => ExecutorTypeOK'
<1> SUFFICES ASSUME ExecutorTypeOK, ExecutorMove PROVE ExecutorTypeOK'
  OBVIOUS
<1>1. CASE \E c \in Callers : BeginMove(c)
  <2>1. PICK c \in Callers, b \in Batches, acts \in ActSeqs, at \in Nat \cup {NoTime} :
             Begin(c, b, acts, at)
    BY <1>1 DEF BeginMove, Times
  <2>2. call' \in [Callers -> CallType]
    BY <2>1, BeginType DEF ExecutorTypeOK
  <2>3. QED
    BY <1>1, <2>2 DEF BeginMove, ExecutorTypeOK, tables, history
<1>2. CASE \E c \in Callers : CallMove(c)
  BY <1>2, ServerStepTypeOK, AnswerTypeOK DEF CallMove
<1>3. CASE \E c \in Callers : ForgetMove(c)
  <2>1. call' \in [Callers -> CallType]
    BY <1>3, IdleCallType DEF ForgetMove, ExecutorTypeOK
  <2>2. QED
    BY <1>3, <2>1 DEF ForgetMove, ExecutorTypeOK, tables, history
<1>4. CASE OutsideMove
  BY <1>4 DEF OutsideMove, ExecutorTypeOK, history
<1>5. CASE Crash
  <2>1. call' \in [Callers -> CallType]
    BY <1>5, IdleCallType DEF Crash, LoseMemory
  <2>2. QED
    BY <1>5, <2>1 DEF Crash, LoseMemory, ExecutorTypeOK, tables, history
<1>6. QED
  BY <1>1, <1>2, <1>3, <1>4, <1>5 DEF ExecutorMove

\* Every step of the executor's own specification is one of these.
LEMMA NextMoves ==
  ASSUME ExecutorTypeOK, HoldsLoop, [ExecutorNext]_executorVars
  PROVE  ExecutorMove
<1>a. loop = Free => Quietly
  BY ConstantsAssumption DEF HoldsLoop, Quietly
<1>b. loop \in Callers \cup {Free} /\ NoTime \in Times \cup {NoTime}
  BY DEF ExecutorTypeOK
<1>1. CASE \E c \in Callers, r \in Requests : PostBatch(c, r)
  <2>1. PICK c \in Callers, r \in Requests : PostBatch(c, r)
    BY <1>1
  <2>2. r.batch \in Batches /\ r.acts \in ActSeqs
    BY RequestShape
  <2>3. BeginMove(c)
    BY <2>1, <2>2, <1>a, <1>b DEF PostBatch, BeginMove
  <2>4. QED
    BY <2>3 DEF ExecutorMove
<1>2. CASE \E c \in Callers : ExecutorStep(c, TRUE)
  BY <1>2 DEF ExecutorStep, ExecutorMove, CallMove
<1>3. CASE \E c \in Callers : Respond(c)
  BY <1>3, <1>a, <1>b DEF Respond, ExecutorMove, ForgetMove
<1>4. CASE \E granted \in BOOLEAN : SetOnBehalf(granted)
  BY <1>4 DEF SetOnBehalf, ExecutorTypeOK, ExecutorMove, OutsideMove
<1>5. CASE \E scope \in UserScopes, active \in BOOLEAN : ToggleKillSwitch(scope, active)
  <2>1. kill' \subseteq Scopes
    BY <1>5, ConstantsAssumption DEF ToggleKillSwitch, ExecutorTypeOK
  <2>2. QED
    BY <1>5, <1>a, <2>1 DEF ToggleKillSwitch, ExecutorTypeOK, ExecutorMove, OutsideMove
<1>6. CASE \E a \in Tracked : MoveCard(a)
  BY <1>6 DEF MoveCard, ExecutorTypeOK, ExecutorMove, OutsideMove
<1>7. CASE Crash
  BY <1>7 DEF ExecutorMove
<1>8. CASE Tick
  <2>1. clock' \in Times
    BY <1>8, ConstantsAssumption DEF Tick, ExecutorTypeOK, Times
  <2>2. QED
    BY <1>8, <1>a, <2>1 DEF Tick, ExecutorTypeOK, ExecutorMove, OutsideMove, tables
<1>9. CASE UNCHANGED executorVars
  BY <1>9 DEF executorVars, tables, ExecutorTypeOK, ExecutorMove, OutsideMove
<1>10. QED
  BY <1>1, <1>2, <1>3, <1>4, <1>5, <1>6, <1>7, <1>8, <1>9 DEF ExecutorNext

-----------------------------------------------------------------------------
(* No action is run twice.                                                  *)

\* Where a call finds itself after each of its ways to move.
LEMMA Moved ==
  ASSUME call \in [Callers -> CallType], NEW c \in Callers, NEW pc \in CallPcs
  PROVE  /\ GoTo(c, pc) =>
              /\ call'[c].pc = pc /\ call'[c].idx = call[c].idx
              /\ call'[c].acts = call[c].acts /\ call'[c].batch = call[c].batch
              /\ call'[c].at = call[c].at
              /\ \A d \in Callers : d # c => call'[d] = call[d]
         /\ NextAction(c, pc) =>
              /\ call'[c].pc = pc /\ call'[c].idx = call[c].idx + 1
              /\ call'[c].acts = call[c].acts /\ call'[c].batch = call[c].batch
              /\ call'[c].at = call[c].at
              /\ \A d \in Callers : d # c => call'[d] = call[d]
         /\ call' = [call EXCEPT ![c].pc = pc, ![c].idx = 1] =>
              /\ call'[c].pc = pc /\ call'[c].idx = 1
              /\ call'[c].acts = call[c].acts /\ call'[c].batch = call[c].batch
              /\ call'[c].at = call[c].at
              /\ \A d \in Callers : d # c => call'[d] = call[d]
         /\ \A result : Finish(c, result) =>
              /\ call'[c].pc = "done" /\ call'[c].idx = call[c].idx
              /\ call'[c].acts = call[c].acts /\ call'[c].batch = call[c].batch
              /\ call'[c].at = call[c].at
              /\ \A d \in Callers : d # c => call'[d] = call[d]
<1>1. DOMAIN call = Callers /\ call[c] \in CallType
  OBVIOUS
<1>2. /\ GoTo(c, pc) => \A d \in Callers : d # c => call'[d] = call[d]
      /\ NextAction(c, pc) => \A d \in Callers : d # c => call'[d] = call[d]
      /\ call' = [call EXCEPT ![c].pc = pc, ![c].idx = 1] =>
           \A d \in Callers : d # c => call'[d] = call[d]
      /\ \A result : Finish(c, result) => \A d \in Callers : d # c => call'[d] = call[d]
  BY <1>1 DEF GoTo, NextAction, Finish
<1>3. GoTo(c, pc) =>
        /\ call'[c].pc = pc /\ call'[c].idx = call[c].idx
        /\ call'[c].acts = call[c].acts /\ call'[c].batch = call[c].batch
        /\ call'[c].at = call[c].at
  BY <1>1 DEF GoTo, CallType
<1>4. NextAction(c, pc) =>
        /\ call'[c].pc = pc /\ call'[c].idx = call[c].idx + 1
        /\ call'[c].acts = call[c].acts /\ call'[c].batch = call[c].batch
        /\ call'[c].at = call[c].at
  BY <1>1 DEF NextAction, CallType
<1>5. call' = [call EXCEPT ![c].pc = pc, ![c].idx = 1] =>
        /\ call'[c].pc = pc /\ call'[c].idx = 1
        /\ call'[c].acts = call[c].acts /\ call'[c].batch = call[c].batch
        /\ call'[c].at = call[c].at
  BY <1>1 DEF CallType
<1>6. \A result : Finish(c, result) =>
        /\ call'[c].pc = "done" /\ call'[c].idx = call[c].idx
        /\ call'[c].acts = call[c].acts /\ call'[c].batch = call[c].batch
        /\ call'[c].at = call[c].at
  BY <1>1 DEF Finish, CallType
<1>7. QED
  BY <1>2, <1>3, <1>4, <1>5, <1>6

\* The inductive invariant: a call is somewhere in its batch, what it has still
\* to settle is pending and its own, and what it has still to run was not run.
ExecutorInv ==
  /\ ExecutorTypeOK
  /\ HoldsLoop
  /\ WellPlaced
  /\ SettlesOwnPending
  /\ OwnedNotRun
  /\ RunLeavesReceipt
  /\ AtMostOneRun

\* A call that has nothing to settle, or another one, is not in the way of a
\* step; a step that only gives up places of one call, settling them or not,
\* and runs nothing, keeps the receipts apart and the runs counted.
LEMMA GiveUpPlaces ==
  ASSUME ExecutorInv, NEW c \in Callers,
         \A d \in Callers : d # c => call'[d] = call[d],
         Owned(c)' \subseteq Owned(c), Waiting(c)' \subseteq Waiting(c),
         Owned(c)' # {} => call'[c].acts = call[c].acts,
         runs' = runs,
         \/ receipt' = receipt
         \/ \E n \in Owned(c) \ Owned(c)', status \in Final \cup {"none"} :
              status # "none" /\ receipt' = [receipt EXCEPT ![call[c].acts[n]] = status]
  PROVE  SettlesOwnPending' /\ OwnedNotRun' /\ RunLeavesReceipt' /\ AtMostOneRun'
<1> USE DEF ExecutorInv
<1>1. \A d \in Callers : d # c =>
        Owned(d)' = Owned(d) /\ Waiting(d)' = Waiting(d) /\ call'[d].acts = call[d].acts
  BY DEF Owned, Waiting
<1>2. \A d \in Callers : Owned(d)' \subseteq Owned(d) /\ Waiting(d)' \subseteq Waiting(d)
  BY <1>1
<1>3. \A d \in Callers : \A n \in Owned(d)' : call'[d].acts[n] = call[d].acts[n]
  BY <1>1
<1>4. \A d \in Callers : Waiting(d)' \subseteq Owned(d)'
  BY DEF Waiting
<1>5. \A d \in Callers : \A n \in Owned(d)' : receipt'[call[d].acts[n]] = receipt[call[d].acts[n]]
  <2> SUFFICES ASSUME NEW d \in Callers, NEW n \in Owned(d)',
                      NEW m \in Owned(c) \ Owned(c)', NEW status,
                      receipt' = [receipt EXCEPT ![call[c].acts[m]] = status]
               PROVE  receipt'[call[d].acts[n]] = receipt[call[d].acts[n]]
    OBVIOUS
  <2>1. call[d].acts[n] # call[c].acts[m]
    BY <1>2 DEF SettlesOwnPending
  <2>2. QED
    BY <2>1 DEF ExecutorTypeOK
<1>6. SettlesOwnPending'
  <2>1. \A d \in Callers : \A n \in Owned(d)' : receipt'[call'[d].acts[n]] = "pending"
    BY <1>2, <1>3, <1>5 DEF SettlesOwnPending
  <2>2. \A c1, c2 \in Callers : \A n \in Owned(c1)', m \in Owned(c2)' :
          call'[c1].acts[n] = call'[c2].acts[m] => c1 = c2 /\ n = m
    BY <1>2, <1>3 DEF SettlesOwnPending
  <2>3. QED
    BY <2>1, <2>2 DEF SettlesOwnPending
<1>7. OwnedNotRun'
  <2>1. \A d \in Callers : \A n \in Waiting(d)' : runs'[call'[d].acts[n]] = 0
    BY <1>2, <1>3, <1>4 DEF OwnedNotRun
  <2>2. QED
    BY <2>1 DEF OwnedNotRun
<1>8. RunLeavesReceipt'
  BY DEF RunLeavesReceipt, ExecutorTypeOK
<1>9. AtMostOneRun'
  BY DEF AtMostOneRun
<1>10. QED
  BY <1>6, <1>7, <1>8, <1>9

LEMMA InitInv == ExecutorInit => ExecutorInv
<1> SUFFICES ASSUME ExecutorInit PROVE ExecutorInv
  OBVIOUS
<1>1. \A c \in Callers : call[c].pc = "idle" /\ Owned(c) = {} /\ Waiting(c) = {}
  BY DEF ExecutorInit, IdleCall, Owned, Waiting
<1>2. WellPlaced
  BY <1>1 DEF WellPlaced
<1>3. SettlesOwnPending /\ OwnedNotRun
  BY <1>1 DEF SettlesOwnPending, OwnedNotRun
<1>4. RunLeavesReceipt /\ AtMostOneRun
  BY DEF ExecutorInit, RunLeavesReceipt, AtMostOneRun
<1>5. HoldsLoop
  BY <1>1 DEF HoldsLoop, HoldingPcs
<1>6. QED
  BY <1>2, <1>3, <1>4, <1>5, InitTypeOK DEF ExecutorInv

\* Where the answer of the runner takes a call.
LEMMA AnswerMoves ==
  ASSUME call \in [Callers -> CallType], NEW c \in Callers, NEW outcome \in Outcomes,
         RunnerAnswers(c, outcome)
  PROVE  /\ call'[c].pc = "record" /\ call'[c].outcome = outcome
         /\ call'[c].idx = call[c].idx /\ call'[c].at = call[c].at
         /\ call'[c].acts = call[c].acts /\ call'[c].batch = call[c].batch
         /\ \A d \in Callers : d # c => call'[d] = call[d]
<1>1. call' = [call EXCEPT ![c] = [call[c] EXCEPT !.pc = "record", !.outcome = outcome]]
  <2>1. call' = [call EXCEPT ![c].pc = "record", ![c].outcome = outcome]
    BY DEF RunnerAnswers
  <2>2. QED
    BY <2>1
<1>2. /\ \A d \in Callers : d # c => call'[d] = call[d]
      /\ call'[c] = [call[c] EXCEPT !.pc = "record", !.outcome = outcome]
  BY <1>1
<1>3. QED
  BY <1>2 DEF CallType

\* What every step of a call does: it finds nobody else inside a stretch, moves
\* no other call, keeps its own request, and holds the loop when it has begun a
\* stretch and not ended it.
LEMMA CallMoveFrame ==
  ASSUME ExecutorTypeOK, HoldsLoop, NEW c \in Callers, CallMove(c)
  PROVE  /\ \A d \in Callers : d # c => call'[d] = call[d] /\ call[d].pc \notin HoldingPcs
         /\ call'[c].acts = call[c].acts /\ call'[c].batch = call[c].batch
         /\ call'[c].at = call[c].at
         /\ call[c].pc \notin {"idle", "done"} /\ call'[c].pc # "idle"
         /\ clock' = clock
         /\ call'[c].pc \in HoldingPcs => loop' = c
<1>a. CallPcs = {"idle", "timezone", "sessions", "receipts", "check", "reserved",
                 "running", "record", "advance", "after", "pausing", "stopping",
                 "close", "done"}
  BY DEF CallPcs
<1>b. call \in [Callers -> CallType]
  BY DEF ExecutorTypeOK
<1>c. loop = Free \/ call[c].pc \in HoldingPcs =>
        \A d \in Callers : d # c => call[d].pc \notin HoldingPcs
  BY ConstantsAssumption DEF HoldsLoop
<1>d. call[c].pc \in HoldingPcs => loop = c
  BY DEF HoldsLoop
<1>e. HoldingPcs = {"receipts", "check", "reserved", "record", "advance", "stopping"}
  BY DEF HoldingPcs
<1> DEFINE Kept == /\ \A d \in Callers : d # c => call'[d] = call[d]
                   /\ call'[c].acts = call[c].acts /\ call'[c].batch = call[c].batch
                   /\ call'[c].at = call[c].at
<1>1. CASE CheckBatchCapacity(c)
  <2>1. Kept /\ call'[c].pc \in {"sessions", "done"}
    BY <1>1, <1>a, <1>b, Moved DEF CheckBatchCapacity
  <2>2. QED
    BY <1>1, <2>1, <1>c, <1>e DEF CheckBatchCapacity
<1>2. CASE \E guard : CreateBatch(c, guard)
  <2>1. \/ Kept /\ call'[c].pc = "done"
        \/ Kept /\ call'[c].pc = "receipts" /\ loop' = c
    BY <1>2, <1>a, <1>b, Moved DEF CreateBatch
  <2>2. QED
    BY <1>2, <2>1, <1>c, <1>e DEF CreateBatch
<1>3. CASE CreatePendingReceipt(c)
  <2>1. \/ Kept /\ call'[c].pc = "done"
        \/ Kept /\ call'[c].pc \in {"receipts", "check"} /\ loop' = loop
    BY <1>3, <1>a, <1>b, Moved DEF CreatePendingReceipt
  <2>2. QED
    BY <1>3, <2>1, <1>c, <1>d, <1>e DEF CreatePendingReceipt
<1>4. CASE CheckAction(c)
  <2>1. \/ Kept /\ call'[c].pc = "after"
        \/ Kept /\ call'[c].pc \in {"stopping", "reserved"} /\ loop' = loop
    BY <1>4, <1>a, <1>b, Moved DEF CheckAction
  <2>2. QED
    BY <1>4, <2>1, <1>c, <1>d, <1>e DEF CheckAction
<1>5. CASE StartRunner(c)
  <2>1. Kept /\ call'[c].pc \in {"after", "running"}
    BY <1>5, <1>a, <1>b, Moved DEF StartRunner
  <2>2. QED
    BY <1>5, <2>1, <1>c, <1>e DEF StartRunner
<1>6. CASE RecordOutcome(c)
  <2>1. \/ Kept /\ call'[c].pc = "after"
        \/ Kept /\ call'[c].pc = "advance" /\ loop' = loop
    BY <1>6, <1>a, <1>b, Moved DEF RecordOutcome
  <2>2. QED
    BY <1>6, <2>1, <1>c, <1>d, <1>e DEF RecordOutcome
<1>7. CASE AdvanceApplication(c)
  <2>1. Kept /\ call'[c].pc = "after"
    BY <1>7, <1>a, <1>b, Moved DEF AdvanceApplication
  <2>2. QED
    BY <1>7, <2>1, <1>c, <1>e DEF AdvanceApplication
<1>8. CASE AfterAction(c)
  <2>1. \/ Kept /\ call'[c].pc \in {"close", "pausing"}
        \/ Kept /\ call'[c].pc = "stopping" /\ loop' = c
    BY <1>8, <1>a, <1>b, Moved DEF AfterAction
  <2>2. QED
    BY <1>8, <2>1, <1>c, <1>e DEF AfterAction
<1>9. CASE PauseEnds(c)
  <2>1. Kept /\ call'[c].pc = "check" /\ loop' = c
    BY <1>9, <1>a, <1>b, Moved DEF PauseEnds
  <2>2. QED
    BY <1>9, <2>1, <1>c DEF PauseEnds
<1>10. CASE StopAction(c)
  <2>1. \/ Kept /\ call'[c].pc = "close"
        \/ Kept /\ call'[c].pc = "stopping" /\ loop' = loop
    BY <1>10, <1>a, <1>b, Moved DEF StopAction
  <2>2. QED
    BY <1>10, <2>1, <1>c, <1>d, <1>e DEF StopAction
<1>11. CASE CloseBatch(c) \/ NotConnected(c)
  <2>1. Kept /\ call'[c].pc = "done"
    BY <1>11, <1>a, <1>b, Moved DEF CloseBatch, NotConnected
  <2>2. QED
    BY <1>11, <2>1, <1>c, <1>e DEF CloseBatch, NotConnected
<1>12. CASE \E outcome \in Outcomes : RunnerAnswers(c, outcome)
  <2>1. Kept /\ call'[c].pc = "record"
    BY <1>12, <1>b, AnswerMoves
  <2>2. QED
    BY <1>12, <2>1, <1>c DEF RunnerAnswers
<1>13. QED
  BY <1>1, <1>2, <1>3, <1>4, <1>5, <1>6, <1>7, <1>8, <1>9, <1>10, <1>11, <1>12
     DEF CallMove, ServerStep

\* Every step leaves the loop with the call that is inside a stretch.
LEMMA MoveHoldsLoop == ExecutorTypeOK /\ HoldsLoop /\ ExecutorMove => HoldsLoop'
<1> SUFFICES ASSUME ExecutorTypeOK, HoldsLoop, ExecutorMove PROVE HoldsLoop'
  OBVIOUS
<1>a. call \in [Callers -> CallType]
  BY DEF ExecutorTypeOK
<1>1. CASE \E c \in Callers : BeginMove(c) \/ ForgetMove(c)
  <2>1. PICK c \in Callers : BeginMove(c) \/ ForgetMove(c)
    BY <1>1
  <2>2. call'[c].pc \in {"idle", "timezone", "done"} /\ \A d \in Callers : d # c => call'[d] = call[d]
    <3>1. CASE BeginMove(c)
      BY <3>1, <1>a DEF BeginMove, Begin, IdleCall
    <3>2. CASE ForgetMove(c)
      BY <3>2, <1>a DEF ForgetMove, IdleCall
    <3>3. QED
      BY <2>1, <3>1, <3>2
  <2>3. Quietly
    BY <2>1 DEF BeginMove, ForgetMove
  <2>4. QED
    BY <2>2, <2>3 DEF Quietly, HoldsLoop, HoldingPcs
<1>2. CASE \E c \in Callers : CallMove(c)
  BY <1>2, CallMoveFrame DEF HoldsLoop
<1>3. CASE OutsideMove
  BY <1>3 DEF OutsideMove, HoldsLoop, Quietly
<1>4. CASE Crash
  BY <1>4 DEF Crash, LoseMemory, IdleCall, HoldsLoop, HoldingPcs
<1>5. QED
  BY <1>1, <1>2, <1>3, <1>4 DEF ExecutorMove

\* What WellPlaced says of a call at one of its statements.
LEMMA PlaceOf ==
  ASSUME ExecutorInv, NEW c \in Callers,
         call[c].pc \notin {"idle", "timezone", "sessions", "done"}
  PROVE  /\ call[c].idx \in Nat /\ Len(call[c].acts) \in Nat
         /\ call[c].idx \in 1..Len(call[c].acts)
         /\ DOMAIN call[c].acts = 1..Len(call[c].acts)
         /\ Current(c) = call[c].acts[call[c].idx] /\ Current(c) \in Actions
<1>1. call[c].acts \in ActSeqs /\ call[c].idx \in 1..Len(call[c].acts)
  BY DEF ExecutorInv, WellPlaced
<1>2. call[c].acts \in Seq(Actions)
  BY <1>1, RequestShape
<1>3. QED
  BY <1>1, <1>2 DEF Current

LEMMA PlaceKept ==
  ASSUME ExecutorInv, NEW c \in Callers,
         \A d \in Callers : d # c => call'[d] = call[d],
         call'[c].acts = call[c].acts, call'[c].batch = call[c].batch,
         call[c].pc # "idle",
         call'[c].pc # "record",
         call'[c].pc \in {"done", "sessions"} \/ call'[c].idx \in 1..Len(call[c].acts)
  PROVE  WellPlaced'
<1>1. ASSUME NEW d \in Callers
      PROVE  /\ call'[d].pc # "idle" => call'[d].batch \in Batches /\ call'[d].acts \in ActSeqs
             /\ call'[d].pc \notin {"idle", "timezone", "sessions", "done"} =>
                  call'[d].idx \in 1..Len(call'[d].acts)
             /\ call'[d].pc = "record" => call'[d].outcome \in Outcomes
  <2>1. CASE d = c
    BY <2>1 DEF ExecutorInv, WellPlaced
  <2>2. CASE d # c
    BY <2>2 DEF ExecutorInv, WellPlaced
  <2>3. QED
    BY <2>1, <2>2
<1>2. QED
  BY <1>1 DEF WellPlaced

\* Inserting a pending receipt adds a place nobody else owns.
LEMMA InsertInv ==
  ASSUME ExecutorInv, NEW c \in Callers, CreatePendingReceipt(c),
         receipt[Current(c)] = "none"
  PROVE  SettlesOwnPending' /\ OwnedNotRun' /\ RunLeavesReceipt' /\ AtMostOneRun' /\ WellPlaced'
<1> DEFINE k == call[c].idx
           a == Current(c)
<1>1. /\ k \in Nat /\ Len(call[c].acts) \in Nat /\ k \in 1..Len(call[c].acts)
      /\ DOMAIN call[c].acts = 1..Len(call[c].acts)
      /\ a = call[c].acts[k] /\ a \in Actions /\ call[c].pc = "receipts"
  BY PlaceOf DEF CreatePendingReceipt
<1>2. /\ call'[c].acts = call[c].acts /\ call'[c].batch = call[c].batch
      /\ \A d \in Callers : d # c => call'[d] = call[d]
      /\ \/ k = Len(call[c].acts) /\ call'[c].pc = "check" /\ call'[c].idx = 1
         \/ k # Len(call[c].acts) /\ call'[c].pc = "receipts" /\ call'[c].idx = k + 1
  BY Moved DEF CreatePendingReceipt, ExecutorInv, ExecutorTypeOK, CallPcs
<1>3. receipt' = [receipt EXCEPT ![a] = "pending"] /\ runs' = runs
  BY DEF CreatePendingReceipt, history
<1>4. Owned(c)' = Owned(c) \cup {k} /\ Waiting(c)' = Owned(c)'
  <2>1. Owned(c) = {n \in 1..Len(call[c].acts) : n < k}
    BY <1>1 DEF Owned
  <2>2. Owned(c)' = {n \in 1..Len(call[c].acts) : n <= k}
    <3>1. CASE k = Len(call[c].acts)
      BY <1>1, <1>2, <3>1 DEF Owned
    <3>2. CASE k # Len(call[c].acts)
      BY <1>1, <1>2, <3>2 DEF Owned
    <3>3. QED
      BY <3>1, <3>2
  <2>3. Waiting(c)' = Owned(c)'
    BY <1>2 DEF Waiting
  <2>4. QED
    BY <1>1, <2>1, <2>2, <2>3
<1>5. \A d \in Callers : d # c =>
        Owned(d)' = Owned(d) /\ Waiting(d)' = Waiting(d) /\ call'[d].acts = call[d].acts
  BY <1>2 DEF Owned, Waiting
<1>6. \A d \in Callers : \A n \in Owned(d) :
        receipt[call[d].acts[n]] = "pending" /\ call[d].acts[n] # a
  BY DEF ExecutorInv, SettlesOwnPending
<1>7. Waiting(c) = Owned(c) /\ k \notin Owned(c)
  BY <1>1 DEF Owned, Waiting
<1>8. receipt \in [Actions -> Final \cup {"none", "pending"}] /\ runs \in [Actions -> Nat]
  BY DEF ExecutorInv, ExecutorTypeOK
<1>9. runs[a] = 0
  BY <1>1, <1>8 DEF ExecutorInv, RunLeavesReceipt
<1> HIDE DEF k, a
<1>10. SettlesOwnPending'
  <2>1. \A d \in Callers : \A n \in Owned(d)' : receipt'[call'[d].acts[n]] = "pending"
    BY <1>1, <1>2, <1>3, <1>4, <1>5, <1>6, <1>8
  <2>2. ASSUME NEW c1 \in Callers, NEW c2 \in Callers,
               NEW n \in Owned(c1)', NEW m \in Owned(c2)',
               call'[c1].acts[n] = call'[c2].acts[m]
        PROVE  c1 = c2 /\ n = m
    <3>1. call'[c1].acts = call[c1].acts /\ call'[c2].acts = call[c2].acts
      BY <1>2
    <3>2. CASE n \in Owned(c1) /\ m \in Owned(c2)
      BY <2>2, <3>1, <3>2 DEF ExecutorInv, SettlesOwnPending
    <3>3. CASE n \notin Owned(c1)
      BY <2>2, <3>1, <3>3, <1>1, <1>4, <1>5, <1>6
    <3>4. CASE m \notin Owned(c2)
      BY <2>2, <3>1, <3>4, <1>1, <1>4, <1>5, <1>6
    <3>5. QED
      BY <3>2, <3>3, <3>4
  <2>3. QED
    BY <2>1, <2>2 DEF SettlesOwnPending
<1>11. OwnedNotRun'
  <2>1. \A d \in Callers : \A n \in Waiting(d)' : runs'[call'[d].acts[n]] = 0
    BY <1>1, <1>2, <1>3, <1>4, <1>5, <1>7, <1>9 DEF ExecutorInv, OwnedNotRun
  <2>2. QED
    BY <2>1 DEF OwnedNotRun
<1>12. RunLeavesReceipt' /\ AtMostOneRun'
  BY <1>3, <1>8 DEF ExecutorInv, RunLeavesReceipt, AtMostOneRun
<1>13. WellPlaced'
  BY <1>1, <1>2, PlaceKept
<1>14. QED
  BY <1>10, <1>11, <1>12, <1>13

\* Starting the runner counts one run of an action that had none, and takes its
\* place out of those that wait.
LEMMA RunInv ==
  ASSUME ExecutorInv, NEW c \in Callers, StartRunner(c),
         runs' = [runs EXCEPT ![Current(c)] = @ + 1], receipt' = receipt,
         GoTo(c, "running")
  PROVE  SettlesOwnPending' /\ OwnedNotRun' /\ RunLeavesReceipt' /\ AtMostOneRun' /\ WellPlaced'
<1> DEFINE k == call[c].idx
           a == Current(c)
<1>1. /\ k \in Nat /\ Len(call[c].acts) \in Nat /\ k \in 1..Len(call[c].acts)
      /\ DOMAIN call[c].acts = 1..Len(call[c].acts)
      /\ a = call[c].acts[k] /\ a \in Actions /\ call[c].pc = "reserved"
  BY PlaceOf DEF StartRunner
<1>2. /\ call'[c].pc = "running" /\ call'[c].idx = k
      /\ call'[c].acts = call[c].acts /\ call'[c].batch = call[c].batch
      /\ \A d \in Callers : d # c => call'[d] = call[d]
  BY Moved DEF ExecutorInv, ExecutorTypeOK, CallPcs
<1>3. Owned(c)' = Owned(c) /\ Waiting(c) = Owned(c) /\ Waiting(c)' = Owned(c) \ {k}
  BY <1>1, <1>2 DEF Owned, Waiting
<1>4. k \in Owned(c) /\ runs[a] = 0 /\ receipt[a] = "pending"
  BY <1>1, <1>3 DEF Owned, ExecutorInv, OwnedNotRun, SettlesOwnPending
<1>5. \A d \in Callers : d # c =>
        Owned(d)' = Owned(d) /\ Waiting(d)' = Waiting(d) /\ call'[d].acts = call[d].acts
  BY <1>2 DEF Owned, Waiting
<1>6. \A d \in Callers : Owned(d)' = Owned(d) /\ call'[d].acts = call[d].acts
  BY <1>2, <1>3, <1>5
<1>7. \A d \in Callers : Waiting(d) \subseteq Owned(d)
  BY DEF Waiting
<1>8. runs \in [Actions -> Nat] /\ runs' = [runs EXCEPT ![a] = runs[a] + 1]
  BY DEF ExecutorInv, ExecutorTypeOK
<1> HIDE DEF k, a
<1>9. SettlesOwnPending'
  <2>1. \A d \in Callers : \A n \in Owned(d)' : receipt'[call'[d].acts[n]] = "pending"
    BY <1>6 DEF ExecutorInv, SettlesOwnPending
  <2>2. \A c1, c2 \in Callers : \A n \in Owned(c1)', m \in Owned(c2)' :
          call'[c1].acts[n] = call'[c2].acts[m] => c1 = c2 /\ n = m
    BY <1>6 DEF ExecutorInv, SettlesOwnPending
  <2>3. QED
    BY <2>1, <2>2 DEF SettlesOwnPending
<1>10. OwnedNotRun'
  <2>1. ASSUME NEW d \in Callers, NEW n \in Waiting(d)'
        PROVE  runs'[call'[d].acts[n]] = 0
    <3>1. n \in Waiting(d) /\ ~(d = c /\ n = k)
      BY <1>3, <1>5
    <3>2. call[d].acts[n] # call[c].acts[k]
      BY <3>1, <1>4, <1>7 DEF ExecutorInv, SettlesOwnPending
    <3>3. runs[call[d].acts[n]] = 0
      BY <3>1 DEF ExecutorInv, OwnedNotRun
    <3>4. QED
      BY <3>2, <3>3, <1>1, <1>6, <1>8
  <2>2. QED
    BY <2>1 DEF OwnedNotRun
<1>11. RunLeavesReceipt'
  BY <1>4, <1>8 DEF ExecutorInv, RunLeavesReceipt
<1>12. AtMostOneRun'
  BY <1>4, <1>8 DEF ExecutorInv, AtMostOneRun
<1>13. WellPlaced'
  BY <1>1, <1>2, PlaceKept
<1>14. QED
  BY <1>9, <1>10, <1>11, <1>12, <1>13

\* A call that settles its current action, leaves its place alone and goes on
\* behind it, or stops at the next one, gives up that one place.
LEMMA SettleInv ==
  ASSUME ExecutorInv, NEW c \in Callers, NEW status \in Final,
         call[c].pc \in {"check", "reserved", "record", "stopping"},
         SettleReceipt(Current(c), status),
         \/ GoTo(c, "after") \/ GoTo(c, "advance")
         \/ call[c].pc = "stopping" /\ GoTo(c, "close")
         \/ call[c].idx # Len(call[c].acts) /\ NextAction(c, "stopping"),
         runs' = runs
  PROVE  SettlesOwnPending' /\ OwnedNotRun' /\ RunLeavesReceipt' /\ AtMostOneRun' /\ WellPlaced'
<1> DEFINE k == call[c].idx
<1>1. /\ k \in Nat /\ Len(call[c].acts) \in Nat /\ k \in 1..Len(call[c].acts)
      /\ DOMAIN call[c].acts = 1..Len(call[c].acts)
      /\ Current(c) = call[c].acts[k]
  BY PlaceOf
<1>2. /\ call'[c].acts = call[c].acts /\ call'[c].batch = call[c].batch
      /\ \A d \in Callers : d # c => call'[d] = call[d]
      /\ \/ call'[c].pc \in {"after", "advance", "close"} /\ call'[c].idx = k
         \/ /\ k # Len(call[c].acts)
            /\ call'[c].pc = "stopping" /\ call'[c].idx = k + 1
  BY Moved DEF ExecutorInv, ExecutorTypeOK, CallPcs
<1>3. Owned(c) = {n \in 1..Len(call[c].acts) : n >= k}
  BY <1>1 DEF Owned
<1>4. Owned(c)' \subseteq {n \in 1..Len(call[c].acts) : n > k}
  <2>1. CASE call'[c].pc \in {"after", "advance", "close"} /\ call'[c].idx = k
    BY <1>1, <1>2, <2>1 DEF Owned
  <2>2. CASE call'[c].pc = "stopping" /\ call'[c].idx = k + 1
    BY <1>1, <1>2, <2>2 DEF Owned
  <2>3. QED
    BY <1>2, <2>1, <2>2
<1>5. k \in Owned(c) \ Owned(c)' /\ Owned(c)' \subseteq Owned(c)
  BY <1>1, <1>3, <1>4
<1>6. Waiting(c)' \subseteq Waiting(c)
  BY <1>1, <1>3, <1>4 DEF Waiting
<1>7. receipt' = [receipt EXCEPT ![call[c].acts[k]] = status] /\ status # "none"
  BY <1>1 DEF SettleReceipt, Final
<1>8. WellPlaced'
  <2>1. call'[c].idx \in 1..Len(call[c].acts)
    BY <1>1, <1>2
  <2>2. QED
    BY <1>2, <2>1, PlaceKept
<1>9. SettlesOwnPending' /\ OwnedNotRun' /\ RunLeavesReceipt' /\ AtMostOneRun'
  BY <1>2, <1>5, <1>6, <1>7, GiveUpPlaces
<1>10. QED
  BY <1>8, <1>9

\* A call that stays at its action, on its way to the runner, keeps its places.
LEMMA StayInv ==
  ASSUME ExecutorInv, NEW c \in Callers,
         NEW pc \in {"check", "reserved", "stopping", "after"}, GoTo(c, pc),
         \/ /\ call[c].pc \in {"check", "pausing"} /\ pc \in {"check", "reserved", "stopping"}
         \/ call[c].pc = "advance" /\ pc = "after",
         receipt' = receipt, runs' = runs
  PROVE  SettlesOwnPending' /\ OwnedNotRun' /\ RunLeavesReceipt' /\ AtMostOneRun' /\ WellPlaced'
<1>1. /\ call'[c].pc = pc /\ call'[c].idx = call[c].idx
      /\ call'[c].acts = call[c].acts /\ call'[c].batch = call[c].batch
      /\ \A d \in Callers : d # c => call'[d] = call[d]
  <2>1. pc \in CallPcs
    BY DEF CallPcs
  <2>2. QED
    BY <2>1, Moved DEF ExecutorInv, ExecutorTypeOK
<1>2. call[c].idx \in 1..Len(call[c].acts)
  BY PlaceOf
<1>3. Owned(c)' = Owned(c) /\ Waiting(c)' = Waiting(c)
  BY <1>1 DEF Owned, Waiting
<1>4. QED
  BY <1>1, <1>2, <1>3, GiveUpPlaces, PlaceKept

LEMMA ServerStepInv ==
  ASSUME ExecutorInv, NEW c \in Callers, NEW guard, ServerStep(c, guard)
  PROVE  SettlesOwnPending' /\ OwnedNotRun' /\ RunLeavesReceipt' /\ AtMostOneRun' /\ WellPlaced'
<1>a. CallPcs = {"idle", "timezone", "sessions", "receipts", "check", "reserved",
                 "running", "record", "advance", "after", "pausing", "stopping",
                 "close", "done"}
  BY DEF CallPcs
<1>b. call \in [Callers -> CallType]
  BY DEF ExecutorInv, ExecutorTypeOK
<1>c. {"failed", "attempted", "delivered"} \subseteq Final
  BY DEF Final
<1>d. call[c].pc # "idle" => call[c].batch \in Batches /\ call[c].acts \in ActSeqs
  BY DEF ExecutorInv, WellPlaced
<1>1. CASE CheckBatchCapacity(c)
  <2>1. /\ call[c].pc = "timezone" /\ call'[c].pc \in {"sessions", "done"}
        /\ call'[c].acts = call[c].acts /\ call'[c].batch = call[c].batch
        /\ \A d \in Callers : d # c => call'[d] = call[d]
        /\ receipt' = receipt /\ runs' = runs
    BY <1>1, <1>a, <1>b, Moved DEF CheckBatchCapacity, tables, history
  <2>2. Owned(c)' = {} /\ Waiting(c)' = {}
    BY <2>1 DEF Owned, Waiting
  <2>3. QED
    BY <2>1, <2>2, GiveUpPlaces, PlaceKept
<1>2. CASE CreateBatch(c, guard)
  <2>1. /\ call[c].pc = "sessions"
        /\ \/ call'[c].pc = "done"
           \/ call'[c].pc = "receipts" /\ call'[c].idx = 1
        /\ call'[c].acts = call[c].acts /\ call'[c].batch = call[c].batch
        /\ \A d \in Callers : d # c => call'[d] = call[d]
        /\ receipt' = receipt /\ runs' = runs
    <3>1. /\ call[c].pc = "sessions" /\ receipt' = receipt /\ runs' = runs
          /\ \/ Finish(c, "consent") \/ Finish(c, "error")
             \/ call' = [call EXCEPT ![c].pc = "receipts", ![c].idx = 1]
      BY <1>2 DEF CreateBatch, history
    <3>2. CASE Finish(c, "consent") \/ Finish(c, "error")
      <4>1. "done" \in CallPcs
        BY <1>a
      <4>2. \A result : Finish(c, result) =>
              /\ call'[c].pc = "done" /\ call'[c].acts = call[c].acts
              /\ call'[c].batch = call[c].batch
              /\ \A d \in Callers : d # c => call'[d] = call[d]
        BY <4>1, <1>b, Moved
      <4>3. QED
        BY <3>1, <3>2, <4>2
    <3>3. CASE call' = [call EXCEPT ![c].pc = "receipts", ![c].idx = 1]
      <4>1. "receipts" \in CallPcs
        BY <1>a
      <4>2. QED
        BY <3>1, <3>3, <4>1, <1>b, Moved
    <3>4. QED
      BY <3>1, <3>2, <3>3
  <2>2. call[c].acts \in Seq(Actions) /\ Len(call[c].acts) \in Nat \ {0}
    BY <2>1, <1>d, RequestShape
  <2>3. Owned(c)' = {} /\ Waiting(c)' = {}
    BY <2>1, <2>2 DEF Owned, Waiting
  <2>4. call'[c].pc = "done" \/ call'[c].idx \in 1..Len(call[c].acts)
    BY <2>1, <2>2
  <2>5. WellPlaced'
    BY <2>1, <2>4, PlaceKept
  <2>6. QED
    BY <2>1, <2>3, <2>5, GiveUpPlaces
<1>3. CASE CreatePendingReceipt(c)
  <2>1. CASE receipt[Current(c)] = "none"
    BY <1>3, <2>1, InsertInv
  <2>2. CASE receipt[Current(c)] # "none"
    <3>1. /\ call[c].pc = "receipts" /\ call'[c].pc = "done"
          /\ call'[c].acts = call[c].acts /\ call'[c].batch = call[c].batch
          /\ \A d \in Callers : d # c => call'[d] = call[d]
          /\ receipt' = receipt /\ runs' = runs
      BY <1>3, <2>2, <1>a, <1>b, Moved DEF CreatePendingReceipt, history
    <3>2. Owned(c)' = {} /\ Waiting(c)' = {}
      BY <3>1 DEF Owned, Waiting
    <3>3. QED
      BY <3>1, <3>2, GiveUpPlaces, PlaceKept
  <2>3. QED
    BY <2>1, <2>2
<1>4. CASE CheckAction(c)
  <2>1. call[c].pc = "check" /\ runs' = runs
    BY <1>4 DEF CheckAction, history
  <2>2. CASE GoTo(c, "stopping") /\ receipt' = receipt
    BY <2>1, <2>2, StayInv
  <2>3. CASE SettleReceipt(Current(c), "failed") /\ GoTo(c, "after")
    BY <2>1, <2>3, <1>c, SettleInv
  <2>4. CASE GoTo(c, "reserved") /\ receipt' = receipt
    BY <2>1, <2>4, StayInv
  <2>5. QED
    BY <1>4, <2>2, <2>3, <2>4 DEF CheckAction
<1>5. CASE StartRunner(c)
  <2>1. CASE SettleReceipt(Current(c), "attempted") /\ GoTo(c, "after") /\ runs' = runs
    BY <1>5, <2>1, <1>c, SettleInv DEF StartRunner
  <2>2. CASE /\ runs' = [runs EXCEPT ![Current(c)] = @ + 1]
             /\ GoTo(c, "running") /\ receipt' = receipt
    BY <1>5, <2>2, RunInv
  <2>3. QED
    BY <1>5, <2>1, <2>2 DEF StartRunner, history
<1>6. CASE RecordOutcome(c)
  <2>1. PICK status \in Final : SettleReceipt(Current(c), status)
    <3>1. call[c].outcome \in RunnerOutcomes
      BY <1>6, ConstantsAssumption DEF RecordOutcome, ExecutorInv, WellPlaced
    <3>2. QED
      BY <1>6, <3>1 DEF RecordOutcome, RunnerOutcomes, Final
  <2>2. QED
    BY <1>6, <2>1, SettleInv DEF RecordOutcome, history
<1>7. CASE AdvanceApplication(c)
  BY <1>7, StayInv DEF AdvanceApplication, history
<1>8. CASE AfterAction(c)
  <2>1. /\ call[c].idx \in Nat /\ Len(call[c].acts) \in Nat
        /\ call[c].idx \in 1..Len(call[c].acts)
        /\ DOMAIN call[c].acts = 1..Len(call[c].acts) /\ call[c].pc = "after"
    BY <1>8, PlaceOf DEF AfterAction
  <2>2. /\ receipt' = receipt /\ runs' = runs
        /\ call'[c].acts = call[c].acts /\ call'[c].batch = call[c].batch
        /\ \A d \in Callers : d # c => call'[d] = call[d]
        /\ \/ call'[c].pc = "close" /\ call'[c].idx = call[c].idx
           \/ /\ call[c].idx # Len(call[c].acts)
              /\ call'[c].pc \in {"pausing", "stopping"} /\ call'[c].idx = call[c].idx + 1
    BY <1>8, <1>a, <1>b, Moved DEF AfterAction, tables, history
  <2>3. Owned(c)' \subseteq Owned(c) /\ Waiting(c)' \subseteq Waiting(c)
    <3>1. Owned(c) = {n \in 1..Len(call[c].acts) : n > call[c].idx} /\ Waiting(c) = Owned(c)
      BY <2>1 DEF Owned, Waiting
    <3>2. CASE call'[c].pc = "close"
      BY <3>2 DEF Owned, Waiting
    <3>3. CASE call'[c].pc \in {"pausing", "stopping"} /\ call'[c].idx = call[c].idx + 1
      <4>1. Owned(c)' \subseteq {n \in 1..Len(call[c].acts) : n > call[c].idx}
        BY <2>1, <2>2, <3>3 DEF Owned
      <4>2. Waiting(c)' \subseteq Owned(c)'
        BY DEF Waiting
      <4>3. QED
        BY <3>1, <4>1, <4>2
    <3>4. QED
      BY <2>2, <3>2, <3>3
  <2>4. call'[c].idx \in 1..Len(call[c].acts)
    BY <2>1, <2>2
  <2>5. WellPlaced'
    BY <2>1, <2>2, <2>4, PlaceKept
  <2>6. QED
    BY <2>2, <2>3, <2>5, GiveUpPlaces
<1>9. CASE PauseEnds(c)
  BY <1>9, StayInv DEF PauseEnds, tables, history
<1>10. CASE StopAction(c)
  BY <1>10, <1>c, SettleInv DEF StopAction, history
<1>11. CASE CloseBatch(c)
  <2>1. /\ call[c].pc = "close" /\ call'[c].pc = "done" /\ receipt' = receipt /\ runs' = runs
        /\ call'[c].acts = call[c].acts /\ call'[c].batch = call[c].batch
        /\ \A d \in Callers : d # c => call'[d] = call[d]
    BY <1>11, <1>a, <1>b, Moved DEF CloseBatch, history
  <2>2. Owned(c)' = {} /\ Waiting(c)' = {}
    BY <2>1 DEF Owned, Waiting
  <2>3. QED
    BY <2>1, <2>2, GiveUpPlaces, PlaceKept
<1>12. QED
  BY <1>1, <1>2, <1>3, <1>4, <1>5, <1>6, <1>7, <1>8, <1>9, <1>10, <1>11 DEF ServerStep

\* A step that leaves one call with nothing to settle, or touches no call,
\* receipt or run, keeps the invariant.
LEMMA AloneInv ==
  ASSUME ExecutorInv, NEW c \in Callers,
         \A d \in Callers : d # c => call'[d] = call[d],
         call'[c].pc \in {"idle", "timezone", "done"},
         call'[c].pc # "idle" => call'[c].batch \in Batches /\ call'[c].acts \in ActSeqs,
         receipt' = receipt, runs' = runs
  PROVE  SettlesOwnPending' /\ OwnedNotRun' /\ RunLeavesReceipt' /\ AtMostOneRun' /\ WellPlaced'
<1>1. Owned(c)' = {} /\ Waiting(c)' = {}
  BY DEF Owned, Waiting
<1>2. ASSUME NEW d \in Callers
      PROVE  /\ call'[d].pc # "idle" => call'[d].batch \in Batches /\ call'[d].acts \in ActSeqs
             /\ call'[d].pc \notin {"idle", "timezone", "sessions", "done"} =>
                  call'[d].idx \in 1..Len(call'[d].acts)
             /\ call'[d].pc = "record" => call'[d].outcome \in Outcomes
  <2>1. CASE d = c
    BY <2>1
  <2>2. CASE d # c
    BY <2>2 DEF ExecutorInv, WellPlaced
  <2>3. QED
    BY <2>1, <2>2
<1>3. WellPlaced'
  BY <1>2 DEF WellPlaced
<1>4. QED
  BY <1>1, <1>3, GiveUpPlaces

LEMMA SameInv ==
  ASSUME ExecutorInv, call' = call, receipt' = receipt, runs' = runs
  PROVE  SettlesOwnPending' /\ OwnedNotRun' /\ RunLeavesReceipt' /\ AtMostOneRun' /\ WellPlaced'
<1>1. \A d \in Callers : Owned(d)' = Owned(d) /\ Waiting(d)' = Waiting(d)
  BY DEF Owned, Waiting
<1>2. SettlesOwnPending' /\ OwnedNotRun'
  BY <1>1 DEF ExecutorInv, SettlesOwnPending, OwnedNotRun
<1>3. RunLeavesReceipt' /\ AtMostOneRun' /\ WellPlaced'
  BY DEF ExecutorInv, RunLeavesReceipt, AtMostOneRun, WellPlaced
<1>4. QED
  BY <1>2, <1>3

LEMMA MoveInv == ExecutorInv /\ ExecutorMove => ExecutorInv'
<1> SUFFICES ASSUME ExecutorInv, ExecutorMove
             PROVE  /\ SettlesOwnPending' /\ OwnedNotRun' /\ RunLeavesReceipt'
                    /\ AtMostOneRun' /\ WellPlaced'
  BY MoveTypeOK, MoveHoldsLoop DEF ExecutorInv
<1>a. call \in [Callers -> CallType]
  BY DEF ExecutorInv, ExecutorTypeOK
<1>1. CASE \E c \in Callers : BeginMove(c)
  <2>1. PICK c \in Callers, b \in Batches, acts \in ActSeqs, at \in Times \cup {NoTime} :
             BeginMove(c) /\ Begin(c, b, acts, at)
    BY <1>1 DEF BeginMove
  <2>2. /\ receipt' = receipt /\ runs' = runs
        /\ \A d \in Callers : d # c => call'[d] = call[d]
        /\ call'[c].batch = b /\ call'[c].acts = acts
        /\ call'[c].pc \in {"timezone", "done"}
    BY <2>1, <1>a DEF BeginMove, Begin, IdleCall, tables, history
  <2>3. QED
    BY <2>2, AloneInv
<1>2. CASE \E c \in Callers : \E guard : ServerStep(c, guard)
  BY <1>2, ServerStepInv
<1>3. CASE \E c \in Callers : NotConnected(c)
  <2>1. PICK c \in Callers : NotConnected(c)
    BY <1>3
  <2>2. /\ receipt' = receipt /\ runs' = runs /\ call[c].pc = "sessions"
        /\ Finish(c, "not_connected")
    BY <2>1 DEF NotConnected, tables, history
  <2>3. "done" \in CallPcs
    BY DEF CallPcs
  <2>4. /\ call'[c].acts = call[c].acts /\ call'[c].batch = call[c].batch
        /\ call'[c].pc = "done"
        /\ \A d \in Callers : d # c => call'[d] = call[d]
    BY <2>2, <2>3, <1>a, Moved
  <2>5. call[c].batch \in Batches /\ call[c].acts \in ActSeqs
    BY <2>2 DEF ExecutorInv, WellPlaced
  <2>6. QED
    BY <2>2, <2>4, <2>5, AloneInv
<1>4. CASE \E c \in Callers, outcome \in Outcomes : RunnerAnswers(c, outcome)
  <2>1. PICK c \in Callers, outcome \in Outcomes : RunnerAnswers(c, outcome)
    BY <1>4
  <2>2. call[c].pc = "running" /\ receipt' = receipt /\ runs' = runs
    BY <2>1 DEF RunnerAnswers, history
  <2>3. /\ \A d \in Callers : d # c => call'[d] = call[d]
        /\ call'[c].pc = "record" /\ call'[c].outcome = outcome
        /\ call'[c].idx = call[c].idx
        /\ call'[c].acts = call[c].acts /\ call'[c].batch = call[c].batch
    BY <2>1, <1>a, AnswerMoves
  <2>4. Owned(c)' = Owned(c) /\ Waiting(c)' = Waiting(c)
    BY <2>2, <2>3 DEF Owned, Waiting
  <2>5. WellPlaced'
    <3>1. ASSUME NEW d \in Callers
          PROVE  /\ call'[d].pc # "idle" => call'[d].batch \in Batches /\ call'[d].acts \in ActSeqs
                 /\ call'[d].pc \notin {"idle", "timezone", "sessions", "done"} =>
                      call'[d].idx \in 1..Len(call'[d].acts)
                 /\ call'[d].pc = "record" => call'[d].outcome \in Outcomes
      <4>1. CASE d = c
        BY <2>2, <2>3, <4>1 DEF ExecutorInv, WellPlaced
      <4>2. CASE d # c
        BY <2>3, <4>2 DEF ExecutorInv, WellPlaced
      <4>3. QED
        BY <4>1, <4>2
    <3>2. QED
      BY <3>1 DEF WellPlaced
  <2>6. QED
    BY <2>2, <2>3, <2>4, <2>5, GiveUpPlaces
<1>5. CASE \E c \in Callers : ForgetMove(c)
  <2>1. PICK c \in Callers : ForgetMove(c)
    BY <1>5
  <2>2. /\ receipt' = receipt /\ runs' = runs /\ call'[c].pc = "idle"
        /\ \A d \in Callers : d # c => call'[d] = call[d]
    BY <2>1, <1>a DEF ForgetMove, IdleCall, tables, history
  <2>3. QED
    BY <2>2, AloneInv
<1>6. CASE Crash
  <2>1. receipt' = receipt /\ runs' = runs /\ \A c \in Callers : call'[c] = IdleCall
    BY <1>6 DEF Crash, LoseMemory, tables, history
  <2>2. \A c \in Callers : Owned(c)' = {} /\ Waiting(c)' = {} /\ call'[c].pc = "idle"
    BY <2>1 DEF Owned, Waiting, IdleCall
  <2>3. SettlesOwnPending' /\ OwnedNotRun'
    BY <2>2 DEF SettlesOwnPending, OwnedNotRun
  <2>4. WellPlaced'
    BY <2>2 DEF WellPlaced
  <2>5. RunLeavesReceipt' /\ AtMostOneRun'
    BY <2>1 DEF ExecutorInv, RunLeavesReceipt, AtMostOneRun
  <2>6. QED
    BY <2>3, <2>4, <2>5
<1>7. CASE OutsideMove
  BY <1>7, SameInv DEF OutsideMove, history
<1>8. QED
  BY <1>1, <1>2, <1>3, <1>4, <1>5, <1>6, <1>7 DEF ExecutorMove, CallMove

\* The invariant holds in every reachable state.
THEOREM InvHolds == ExecutorSpec => []ExecutorInv
<1>1. ExecutorInv /\ [ExecutorNext]_executorVars => ExecutorInv'
  BY MoveInv, NextMoves DEF ExecutorInv
<1>2. QED
  BY <1>1, InitInv, PTL DEF ExecutorSpec

\* The variables of the executor keep their types: what the tables hold stays
\* within their CHECK clauses, and a call is always at one of its await points
\* or statements.
THEOREM TypeCorrect == ExecutorSpec => []ExecutorTypeOK
<1>1. ExecutorInv => ExecutorTypeOK
  BY DEF ExecutorInv
<1>2. QED
  BY <1>1, InvHolds, PTL

\* No application is sent twice: for any requests, repeated and overlapping, any
\* number of calls, and crashes anywhere, the runner of executeAction is started
\* at most once for an action.
THEOREM AtMostOnce == ExecutorSpec => []AtMostOneRun
<1>1. ExecutorInv => AtMostOneRun
  BY DEF ExecutorInv
<1>2. QED
  BY <1>1, InvHolds, PTL

\* An action that may have reached the provider always has its receipt.
THEOREM RunsAreReceipted == ExecutorSpec => []RunLeavesReceipt
<1>1. ExecutorInv => RunLeavesReceipt
  BY DEF ExecutorInv
<1>2. QED
  BY <1>1, InvHolds, PTL

\* A call always finds the receipts it has to settle pending and its own, so
\* updateReceiptStatus never throws in executeAction or appendStoppedActions.
THEOREM ReceiptsAreOwn == ExecutorSpec => []SettlesOwnPending
<1>1. ExecutorInv => SettlesOwnPending
  BY DEF ExecutorInv
<1>2. QED
  BY <1>1, InvHolds, PTL

\* No step rewrites a settled receipt: inserts find no row, and settling finds a
\* pending one.
LEMMA FinalKept ==
  ASSUME ExecutorTypeOK, ExecutorMove, NEW a \in Actions, receipt[a] \in Final
  PROVE  receipt'[a] = receipt[a]
<1>0. receipt[a] \notin {"none", "pending"} /\ receipt \in [Actions -> Final \cup {"none", "pending"}]
  BY DEF Final, ExecutorTypeOK
<1>1. CASE \E c \in Callers : CreatePendingReceipt(c)
  BY <1>0, <1>1 DEF CreatePendingReceipt
<1>2. CASE \E c \in Callers : CheckAction(c) \/ StartRunner(c) \/ RecordOutcome(c) \/ StopAction(c)
  <2>1. receipt' = receipt \/ \E b, status : SettleReceipt(b, status)
    BY <1>2 DEF CheckAction, StartRunner, RecordOutcome, StopAction
  <2>2. QED
    BY <1>0, <2>1 DEF SettleReceipt
<1>3. CASE receipt' = receipt
  BY <1>3
<1>4. QED
  BY <1>1, <1>2, <1>3
     DEF ExecutorMove, BeginMove, CallMove, ForgetMove, OutsideMove, ServerStep,
         CheckBatchCapacity, NotConnected, CreateBatch, RunnerAnswers,
         AdvanceApplication, AfterAction, PauseEnds, CloseBatch, Crash, tables

\* A settled receipt is never rewritten, by a retry, a late answer or a stop of
\* executeBatch.
THEOREM ReceiptsAreFinal == ExecutorSpec => FinalStays
<1>1. ExecutorInv /\ [ExecutorNext]_executorVars
        => [\A a \in Actions : receipt[a] \in Final => receipt'[a] = receipt[a]]_executorVars
  BY NextMoves, FinalKept DEF ExecutorInv
<1>2. QED
  BY <1>1, InvHolds, PTL DEF ExecutorSpec, FinalStays
=============================================================================
