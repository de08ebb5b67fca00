-------------------------- MODULE ApplicationsProofs --------------------------
(***************************************************************************)
(* Auto-apply implements the promise of Applications: each of its steps is  *)
(* a step of what the candidate was promised, or changes neither what the   *)
(* candidate is told nor what is recorded of the fact.  On the way: only    *)
(* an authorised dispatcher creates the batch of a row.  At the end: the    *)
(* daily limit of the schedule.                                             *)
(***************************************************************************)
EXTENDS QueueProofs

\* The ids of a batch that a client posts are new UUIDs, and so are the ids of
\* the rows of the queue: neither meets the other.
RequestsApart ==
  \A r \in Requests : r.batch \notin Items /\ \A n \in DOMAIN r.acts : r.acts[n] \notin Items

DirectApart ==
  \A c \in Callers \ Dispatchers :
    call[c].batch \notin Items /\ \A n \in DOMAIN call[c].acts : call[c].acts[n] \notin Items

LEMMA ApartInit == AutoApplyInit => DirectApart
  BY AutoApplyAssumption DEF AutoApplyInit, ExecutorInit, IdleCall, DirectApart

LEMMA ApartStep ==
  ASSUME RequestsApart, AutoInv, DirectApart, [AutoApplyNext]_vars
  PROVE  DirectApart'
<1>a. call \in [Callers -> CallType] /\ ExecutorInv /\ Dispatchers \subseteq Callers
  BY AutoApplyAssumption DEF AutoInv, BatchInv, ExecutorInv, ExecutorTypeOK
<1> SUFFICES ASSUME NEW c \in Callers \ Dispatchers
             PROVE  /\ call'[c].batch \notin Items
                    /\ \A n \in DOMAIN call'[c].acts : call'[c].acts[n] \notin Items
  BY DEF DirectApart
<1>b. ASSUME call'[c].acts = call[c].acts, call'[c].batch = call[c].batch
      PROVE  /\ call'[c].batch \notin Items
             /\ \A n \in DOMAIN call'[c].acts : call'[c].acts[n] \notin Items
  BY <1>b DEF DirectApart
<1>c. ASSUME call'[c] = IdleCall
      PROVE  /\ call'[c].batch \notin Items
             /\ \A n \in DOMAIN call'[c].acts : call'[c].acts[n] \notin Items
  BY <1>c, AutoApplyAssumption DEF IdleCall
<1>1. CASE \E d \in Dispatchers : DispatcherMove(d)
  <2>1. PICK d \in Dispatchers : DispatcherMove(d)
    BY <1>1
  <2>2. BeginMove(d) \/ ForgetMove(d) \/ call' = call
    BY <1>a, <2>1, DispatcherMoves DEF AutoInv
  <2>3. call'[c] = call[c]
    BY <1>a, <2>2 DEF BeginMove, Begin, ForgetMove
  <2>4. QED
    BY <1>b, <2>3
<1>2. CASE \E e \in Callers : CallMove(e)
  <2>1. PICK e \in Callers : CallMove(e)
    BY <1>2
  <2>2. call'[c].acts = call[c].acts /\ call'[c].batch = call[c].batch
    BY <1>a, <2>1, CallMoveFrame DEF ExecutorInv
  <2>3. QED
    BY <1>b, <2>2
<1>3. CASE \E e \in Callers \ Dispatchers, r \in Requests : PostBatch(e, r)
  <2>1. PICK e \in Callers \ Dispatchers, r \in Requests : PostBatch(e, r)
    BY <1>3
  <2>2. CASE e = c
    <3>1. call'[c].batch = r.batch /\ call'[c].acts = r.acts
      BY <1>a, <2>1, <2>2 DEF PostBatch, Begin, IdleCall
    <3>2. QED
      BY <3>1 DEF RequestsApart
  <2>3. CASE e # c
    <3>1. call'[c] = call[c]
      BY <1>a, <2>1, <2>3 DEF PostBatch, Begin
    <3>2. QED
      BY <1>b, <3>1
  <2>4. QED
    BY <2>2, <2>3
<1>4. CASE \E e \in Callers : Respond(e)
  <2>1. call'[c] = call[c] \/ call'[c] = IdleCall
    BY <1>4, <1>a DEF Respond
  <2>2. QED
    BY <1>b, <1>c, <2>1
<1>5. CASE SwitchStep \/ Tick \/ CandidateStep \/ UNCHANGED vars
  <2>1. call' = call
    BY <1>5, CandidateFrame DEF SwitchStep, Tick, SetOnBehalf, ToggleKillSwitch, MoveCard, vars,
                                executorVars
  <2>2. QED
    BY <1>b, <2>1
<1>6. CASE AutoCrash
  BY <1>6, <1>c DEF AutoCrash, Crash, LoseMemory
<1>7. QED
  BY <1>a, <1>1, <1>2, <1>3, <1>4, <1>5, <1>6, AutoCases
     DEF DispatcherCall, DirectCall, ExecutorStep, CallMove

-----------------------------------------------------------------------------
(* Who creates the batch of a row.                                          *)

\* The row of a batch is never taken away, and that of an item is inserted by a
\* dispatcher whose guard has just been read.
LEMMA CommitStep ==
  ASSUME AutoInv, DirectApart, [AutoApplyNext]_vars, NEW i \in Items
  PROVE  /\ batch[i] # "none" => batch'[i] # "none"
         /\ batch[i] = "none" /\ batch'[i] # "none" =>
              /\ \E d \in Dispatchers : disp[d].item = i /\ CanExecute(d)
              /\ onBehalf
              /\ UNCHANGED <<receipt, history>>
              /\ \A j \in Items : j # i => batch'[j] = batch[j]
<1>a. /\ ExecutorInv /\ BatchIsOwn /\ DispatchInv /\ Items \subseteq Batches
      /\ batch \in [Batches -> BatchStatus] /\ call \in [Callers -> CallType]
      /\ Dispatchers \subseteq Callers
  BY AutoApplyAssumption DEF AutoInv, BatchInv, ExecutorInv, ExecutorTypeOK
<1>b. ASSUME NEW c \in Callers, NEW guard, CreateBatch(c, guard),
             c \in Dispatchers => guard = CanExecute(c)
      PROVE  /\ batch[i] # "none" => batch'[i] # "none"
             /\ batch[i] = "none" /\ batch'[i] # "none" =>
                  /\ \E d \in Dispatchers : disp[d].item = i /\ CanExecute(d)
                  /\ onBehalf
                  /\ UNCHANGED <<receipt, history>>
                  /\ \A j \in Items : j # i => batch'[j] = batch[j]
  <2>1. CASE batch' = batch
    BY <2>1
  <2>2. CASE batch' # batch
    <3>1. /\ batch' = [batch EXCEPT ![call[c].batch] = "running"] /\ onBehalf /\ guard
          /\ UNCHANGED <<receipt, history>> /\ call[c].pc = "sessions"
      BY <1>b, <2>2 DEF CreateBatch
    <3>2. CASE call[c].batch = i
      <4>1. c \in Dispatchers
        BY <3>2 DEF DirectApart
      <4>2. disp[c].item = i
        BY <1>a, <3>1, <3>2, <4>1 DEF DispatchInv
      <4>3. QED
        BY <1>a, <1>b, <3>1, <3>2, <4>1, <4>2
    <3>3. CASE call[c].batch # i
      BY <1>a, <3>1, <3>3
    <3>4. QED
      BY <3>2, <3>3
  <2>3. QED
    BY <2>1, <2>2
<1>c. ASSUME NEW c \in Callers, CloseBatch(c)
      PROVE  (batch[i] # "none" <=> batch'[i] # "none")
  <2>1. /\ batch[call[c].batch] # "none"
        /\ batch' = [batch EXCEPT ![call[c].batch] = BatchOutcome(call[c].acts)]
    BY <1>a, <1>c DEF CloseBatch, BatchIsOwn, InBatch
  <2>2. BatchOutcome(call[c].acts) # "none"
    BY DEF BatchOutcome
  <2>3. QED
    BY <1>a, <2>1, <2>2
<1>1. CASE batch' = batch
  BY <1>1
<1>2. CASE \E c \in Callers : CloseBatch(c)
  BY <1>2, <1>c
<1>3. CASE \E d \in Dispatchers : CreateBatch(d, CanExecute(d))
  BY <1>3, <1>a, <1>b
<1>4. CASE \E c \in Callers \ Dispatchers : CreateBatch(c, TRUE)
  BY <1>4, <1>b
<1>5. QED
  <2>1. CASE \E d \in Dispatchers : DispatcherMove(d)
    BY <1>1, <2>1, DispatcherMoves DEF AutoInv, BatchInv, tables
  <2>2. CASE \E d \in Dispatchers : DispatcherCall(d)
    BY <1>a, <1>1, <1>2, <1>3, <2>2 DEF DispatcherCall, ServerStep, CheckBatchCapacity, NotConnected,
       CreatePendingReceipt, CheckAction, StartRunner, RunnerAnswers, RecordOutcome,
       AdvanceApplication, AfterAction, PauseEnds, StopAction, tables
  <2>3. CASE \E c \in Callers \ Dispatchers : DirectCall(c)
    BY <1>1, <1>2, <1>4, <2>3 DEF DirectCall, PostBatch, Respond, ExecutorStep, ServerStep,
       CheckBatchCapacity, NotConnected, CreatePendingReceipt, CheckAction, StartRunner,
       RunnerAnswers, RecordOutcome, AdvanceApplication, AfterAction, PauseEnds, StopAction, tables
  <2>4. CASE SwitchStep \/ Tick \/ CandidateStep \/ AutoCrash \/ UNCHANGED vars
    BY <1>1, <2>4, CandidateFrame DEF SwitchStep, Tick, SetOnBehalf, ToggleKillSwitch, MoveCard,
       AutoCrash, Crash, vars, executorVars, tables
  <2>5. QED
    BY <2>1, <2>2, <2>3, <2>4, AutoCases

\* The batch of a row is created only with the row approved, the automation on,
\* the consents given and no emergency pause, all at that moment: what changed
\* while the sessions were awaited counts.
THEOREM CommitsAreAuthorised ==
  ASSUME RequestsApart
  PROVE  AutoApplySpec => CommitIsAuthorised
<1>1. AutoInv /\ DirectApart /\ [AutoApplyNext]_vars => DirectApart'
  BY ApartStep
<1>2. AutoInv /\ DirectApart /\ [AutoApplyNext]_vars
        => [\A i \in Items : batch[i] = "none" /\ batch'[i] # "none" =>
              /\ queue[i] = "approved" /\ settings.enabled
              /\ settings.mode = "approval_required"
              /\ HasAutomationConsent /\ onBehalf
              /\ ~runtime.emergency]_vars
  BY CommitStep DEF CanExecute
<1>3. QED
  BY <1>1, <1>2, ApartInit, AutoInvHolds, PTL DEF AutoApplySpec, CommitIsAuthorised
-----------------------------------------------------------------------------
(* What is known of the fact of an application, and when it changes.        *)

\* What a runner works on, and what was delivered, has been started.
HandedInv ==
  /\ \A c \in Callers : call[c].pc \in {"running", "record"} => runs[Current(c)] > 0
  /\ \A a \in Actions : receipt[a] = "delivered" => runs[a] > 0

\* A receipt is inserted as pending, refused before its action was started, or
\* settled after; and an action is started once, its receipt pending.
Inserts(a) ==
  receipt[a] = "none" /\ receipt' = [receipt EXCEPT ![a] = "pending"] /\ runs' = runs
Refuses(a) ==
  /\ receipt[a] = "pending" /\ runs[a] = 0 /\ runs' = runs
  /\ \E status \in {"failed", "attempted"} : receipt' = [receipt EXCEPT ![a] = status]
Hands(a) ==
  receipt[a] = "pending" /\ runs[a] = 0 /\ runs' = [runs EXCEPT ![a] = 1] /\ receipt' = receipt
Learns(a) ==
  /\ receipt[a] = "pending" /\ runs[a] > 0 /\ runs' = runs
  /\ \E status \in Final : receipt' = [receipt EXCEPT ![a] = status]

LEMMA FactCases ==
  ASSUME ExecutorInv, HandedInv, ExecutorMove
  PROVE  \/ UNCHANGED <<receipt, runs>>
         \/ \E c \in Callers : /\ CallMove(c) /\ Current(c) \in Actions
                               /\ Inserts(Current(c)) \/ Refuses(Current(c))
                                  \/ Hands(Current(c)) \/ Learns(Current(c))
                               /\ \E n \in DOMAIN call[c].acts : Current(c) = call[c].acts[n]
                               /\ InBatch(c)
<1>1. CASE \E c \in Callers : CallMove(c)
  <2>1. PICK c \in Callers : CallMove(c)
    BY <1>1
  <2> DEFINE a == Current(c)
  <2>2. ASSUME call[c].pc \in {"receipts", "check", "reserved", "record", "stopping"}
        PROVE  /\ a \in Actions /\ InBatch(c)
               /\ \E n \in DOMAIN call[c].acts : a = call[c].acts[n]
    BY <2>2, PlaceOf DEF InBatch
  <2>3. ASSUME call[c].pc \in {"check", "reserved", "stopping"}
        PROVE  receipt[a] = "pending" /\ runs[a] = 0
    <3>1. call[c].idx \in Waiting(c) /\ call[c].idx \in Owned(c) /\ a = call[c].acts[call[c].idx]
      BY <2>3, PlaceOf DEF Owned, Waiting
    <3>2. QED
      BY <3>1 DEF ExecutorInv, OwnedNotRun, SettlesOwnPending
  <2>4. CASE CreatePendingReceipt(c)
    <3>1. UNCHANGED receipt \/ Inserts(a)
      BY <2>4 DEF CreatePendingReceipt, Inserts, history
    <3>2. UNCHANGED runs /\ call[c].pc = "receipts"
      BY <2>4 DEF CreatePendingReceipt, history
    <3>3. QED
      BY <2>1, <2>2, <3>1, <3>2
  <2>5. CASE CheckAction(c) \/ StopAction(c)
    <3>1. /\ call[c].pc \in {"check", "stopping"} /\ runs' = runs
          /\ receipt' = receipt \/ receipt' = [receipt EXCEPT ![a] = "failed"]
      BY <2>5 DEF CheckAction, StopAction, SettleReceipt, history
    <3>2. receipt' = receipt \/ Refuses(a)
      BY <2>3, <3>1 DEF Refuses
    <3>3. QED
      BY <2>1, <2>2, <3>1, <3>2
  <2>6. CASE StartRunner(c)
    <3>1. call[c].pc = "reserved" /\ runs[a] = 0
      BY <2>3, <2>6 DEF StartRunner
    <3>2. \/ receipt' = [receipt EXCEPT ![a] = "attempted"] /\ runs' = runs
          \/ receipt' = receipt /\ runs' = [runs EXCEPT ![a] = @ + 1]
      BY <2>6 DEF StartRunner, SettleReceipt, history
    <3>3. Refuses(a) \/ Hands(a)
      BY <2>3, <3>1, <3>2 DEF Refuses, Hands
    <3>4. QED
      BY <2>1, <2>2, <3>1, <3>3
  <2>7. CASE RecordOutcome(c)
    <3>1. call[c].pc = "record" /\ runs' = runs /\ receipt[a] = "pending" /\ runs[a] > 0
      BY <2>7 DEF RecordOutcome, SettleReceipt, history, HandedInv
    <3>2. (IF call[c].outcome = "unconfirmed" THEN "failed" ELSE call[c].outcome) \in Final
      BY <3>1, ConstantsAssumption DEF ExecutorInv, WellPlaced, RunnerOutcomes, Final
    <3>3. \E status \in Final : receipt' = [receipt EXCEPT ![a] = status]
      BY <2>7, <3>2 DEF RecordOutcome, SettleReceipt
    <3>4. Learns(a)
      BY <3>1, <3>3 DEF Learns
    <3>5. QED
      BY <2>1, <2>2, <3>1, <3>4
  <2>8. QED
    <3>1. CASE \/ CheckBatchCapacity(c) \/ NotConnected(c) \/ (\E guard : CreateBatch(c, guard))
               \/ (\E outcome \in Outcomes : RunnerAnswers(c, outcome)) \/ AdvanceApplication(c)
               \/ AfterAction(c) \/ PauseEnds(c) \/ CloseBatch(c)
      BY <3>1 DEF CheckBatchCapacity, NotConnected, CreateBatch, RunnerAnswers,
         AdvanceApplication, AfterAction, PauseEnds, CloseBatch, tables, history
    <3>2. QED
      BY <2>1, <2>4, <2>5, <2>6, <2>7, <3>1 DEF CallMove, ServerStep
<1>2. CASE \E c \in Callers : BeginMove(c) \/ ForgetMove(c)
  BY <1>2 DEF BeginMove, ForgetMove, tables, history
<1>3. CASE OutsideMove \/ Crash
  BY <1>3 DEF OutsideMove, Crash, tables, history
<1>4. QED
  BY <1>1, <1>2, <1>3 DEF ExecutorMove

LEMMA HandedStep ==
  ASSUME ExecutorInv, HandedInv, ExecutorMove
  PROVE  HandedInv'
<1>a. /\ runs \in [Actions -> Nat] /\ receipt \in [Actions -> Final \cup {"none", "pending"}]
      /\ call \in [Callers -> CallType]
  BY DEF ExecutorInv, ExecutorTypeOK
<1>1. /\ \A a \in Actions : runs[a] > 0 => runs'[a] > 0
      /\ \A a \in Actions : receipt'[a] = "delivered" => runs'[a] > 0
  BY <1>a, FactCases DEF HandedInv, Inserts, Refuses, Hands, Learns
<1>2. ASSUME NEW c \in Callers, call'[c].pc \in {"running", "record"}
      PROVE  runs'[Current(c)'] > 0
  <2>1. CASE call'[c] = call[c]
    <3>1. Current(c)' = Current(c) /\ Current(c) \in Actions
      BY <1>2, <2>1, PlaceOf DEF Current
    <3>2. QED
      BY <1>1, <1>2, <2>1, <3>1 DEF HandedInv
  <2>2. CASE StartRunner(c)
    <3>1. Starts(c)
      BY <1>a, <1>2, <2>2, Moved DEF StartRunner, Starts, CallPcs
    <3>2. QED
      BY <3>1, StartFacts
  <2>3. CASE \E outcome \in Outcomes : RunnerAnswers(c, outcome)
    <3>1. call[c].pc = "running" /\ Current(c)' = Current(c) /\ Current(c) \in Actions
      BY <1>a, <2>3, AnswerMoves, PlaceOf DEF RunnerAnswers, Current
    <3>2. QED
      BY <1>1, <3>1 DEF HandedInv
  <2>4. CASE CallMove(c) /\ ~StartRunner(c) /\ ~\E outcome \in Outcomes : RunnerAnswers(c, outcome)
    <3>1. {"sessions", "receipts", "check", "stopping", "after", "reserved", "advance", "close",
           "pausing"} \subseteq CallPcs
      BY DEF CallPcs
    <3>2. \/ \E pc \in {"sessions", "check", "receipts", "stopping", "after", "reserved", "advance",
                        "close", "pausing"} : GoTo(c, pc) \/ NextAction(c, pc)
                \/ call' = [call EXCEPT ![c].pc = pc, ![c].idx = 1]
          \/ \E result : Finish(c, result)
      BY <2>4 DEF CallMove, ServerStep, CheckBatchCapacity, NotConnected, CreateBatch,
         CreatePendingReceipt, CheckAction, RecordOutcome, AdvanceApplication, AfterAction,
         PauseEnds, StopAction, CloseBatch
    <3>3. call'[c].pc \notin {"running", "record"}
      BY <1>a, <3>1, <3>2, Moved
    <3>4. QED
      BY <1>2, <3>3
  <2>5. CASE \E d \in Callers : d # c /\ CallMove(d)
    BY <2>1, <2>5, CallMoveFrame DEF ExecutorInv
  <2>6. CASE \E d \in Callers : BeginMove(d)
    <3>1. PICK d \in Callers : BeginMove(d)
      BY <2>6
    <3>2. d # c => call'[c] = call[c]
      BY <1>a, <3>1 DEF BeginMove, Begin
    <3>3. d = c => call'[c].pc \in {"timezone", "done"}
      BY <1>a, <3>1 DEF BeginMove, Begin, IdleCall
    <3>4. QED
      BY <1>2, <2>1, <3>2, <3>3
  <2>7. CASE \E d \in Callers : ForgetMove(d)
    <3>1. call'[c] = call[c] \/ call'[c] = IdleCall
      BY <1>a, <2>7 DEF ForgetMove
    <3>2. QED
      BY <1>2, <2>1, <3>1 DEF IdleCall
  <2>8. CASE OutsideMove \/ Crash
    BY <1>2, <2>1, <2>8 DEF OutsideMove, Crash, LoseMemory, IdleCall
  <2>9. QED
    BY <2>2, <2>3, <2>4, <2>5, <2>6, <2>7, <2>8 DEF ExecutorMove
<1>3. QED
  BY <1>1, <1>2 DEF HandedInv

\* A receipt of a row comes after its batch.
ItemReceipts == \A i \in Items : receipt[i] # "none" => batch[i] # "none"

PromiseInv ==
  /\ AutoInv
  /\ DirectApart
  /\ HandedInv
  /\ ItemReceipts

\* What a call works on is a row only if it is the call of the row's dispatcher.
LEMMA ItemCalls ==
  ASSUME DirectApart, DispatchInv, ExecutorInv, NEW c \in Callers, call[c].pc # "idle",
         NEW n \in DOMAIN call[c].acts, call[c].acts[n] \in Items
  PROVE  call[c].batch = call[c].acts[n]
<1>1. c \in Dispatchers
  BY DEF DirectApart
<1>2. disp[c].pc = "calling" /\ call[c].batch = disp[c].item /\ call[c].acts = <<disp[c].item>>
  BY <1>1 DEF DispatchInv
<1>3. QED
  BY <1>2

LEMMA ReceiptsStep ==
  ASSUME PromiseInv, [AutoApplyNext]_vars
  PROVE  ItemReceipts'
<1>a. /\ ExecutorInv /\ BatchIsOwn /\ DispatchInv /\ Items \subseteq Actions
      /\ receipt \in [Actions -> Final \cup {"none", "pending"}]
  BY AutoApplyAssumption DEF PromiseInv, AutoInv, BatchInv, ExecutorInv, ExecutorTypeOK
<1> SUFFICES ASSUME NEW i \in Items, receipt'[i] # "none" PROVE batch'[i] # "none"
  BY DEF ItemReceipts
<1>1. CASE receipt[i] # "none"
  BY <1>1, CommitStep DEF PromiseInv, ItemReceipts
<1>2. CASE receipt[i] = "none"
  <2>1. ExecutorMove
    BY AutoInvStep DEF PromiseInv
  <2>2. PICK c \in Callers : /\ CallMove(c) /\ InBatch(c)
                             /\ \E n \in DOMAIN call[c].acts : i = call[c].acts[n]
    <3>1. receipt' # receipt
      BY <1>2
    <3>2. PICK c \in Callers : /\ CallMove(c) /\ InBatch(c) /\ Current(c) \in Actions
                               /\ \E n \in DOMAIN call[c].acts : Current(c) = call[c].acts[n]
                               /\ \/ Inserts(Current(c)) \/ Refuses(Current(c))
                                  \/ Hands(Current(c)) \/ Learns(Current(c))
      BY <1>a, <2>1, <3>1, FactCases DEF PromiseInv
    <3>3. i = Current(c)
      BY <1>a, <1>2, <3>2 DEF Inserts, Refuses, Hands, Learns
    <3>4. QED
      BY <3>2, <3>3
  <2>3. call[c].pc # "idle"
    BY <2>2, <1>a, CallMoveFrame DEF ExecutorInv
  <2>4. call[c].batch = i
    BY <1>a, <2>2, <2>3, ItemCalls DEF PromiseInv
  <2>5. batch[i] # "none"
    BY <1>a, <2>2, <2>4 DEF BatchIsOwn
  <2>6. QED
    BY <2>5, CommitStep DEF PromiseInv
<1>3. QED
  BY <1>1, <1>2

LEMMA PromiseInvInit == AutoApplyInit => PromiseInv
<1> SUFFICES ASSUME AutoApplyInit PROVE PromiseInv
  OBVIOUS
<1>1. AutoInv /\ DirectApart
  BY AutoInvInit, ApartInit
<1>2. HandedInv
  BY DEF AutoApplyInit, ExecutorInit, IdleCall, HandedInv
<1>3. ItemReceipts
  BY AutoApplyAssumption DEF AutoApplyInit, ExecutorInit, ItemReceipts
<1>4. QED
  BY <1>1, <1>2, <1>3 DEF PromiseInv

LEMMA PromiseInvStep ==
  ASSUME RequestsApart, PromiseInv, [AutoApplyNext]_vars
  PROVE  PromiseInv'
<1>1. AutoInv' /\ ExecutorMove
  BY AutoInvStep DEF PromiseInv
<1>2. DirectApart' /\ ItemReceipts'
  BY ApartStep, ReceiptsStep DEF PromiseInv
<1>3. HandedInv'
  BY <1>1, HandedStep DEF PromiseInv, AutoInv, BatchInv
<1>4. QED
  BY <1>1, <1>2, <1>3 DEF PromiseInv

-----------------------------------------------------------------------------
(* The steps of auto-apply as steps of the promise.                         *)

\* What is known of a fact follows from three rows of the executor.
LEMMA FactSame ==
  ASSUME NEW i \in Items, receipt'[i] = receipt[i], runs'[i] = runs[i],
         batch'[i] = "none" <=> batch[i] = "none"
  PROVE  FactOf(i)' = FactOf(i)
  BY DEF FactOf

\* One step changes the fact of one application at most: it commits to an approved
\* one, refuses it or hands it over, or learns what became of it.
LEMMA FactMoves ==
  ASSUME PromiseInv, [AutoApplyNext]_vars
  PROVE  \/ \A i \in Items : FactOf(i)' = FactOf(i)
         \/ \E i \in Items :
              /\ \A j \in Items \ {i} : FactOf(j)' = FactOf(j)
              /\ \/ /\ FactOf(i) = "none" /\ queue[i] = "approved"
                    /\ FactOf(i)' = "committed"
                 \/ FactOf(i) = "committed" /\ FactOf(i)' \in {"refused", "handed"}
                 \/ FactOf(i) = "handed" /\ FactOf(i)' \in Final
<1>a. /\ ExecutorInv /\ BatchIsOwn /\ DispatchInv /\ Items \subseteq Actions
      /\ receipt \in [Actions -> Final \cup {"none", "pending"}]
      /\ runs \in [Actions -> Nat] /\ RunLeavesReceipt
  BY AutoApplyAssumption DEF PromiseInv, AutoInv, BatchInv, ExecutorInv, ExecutorTypeOK
<1>1. CASE \E i \in Items : batch[i] = "none" /\ batch'[i] # "none"
  <2>1. PICK i \in Items : batch[i] = "none" /\ batch'[i] # "none"
    BY <1>1
  <2>2. /\ queue[i] = "approved"
        /\ UNCHANGED <<receipt, runs>>
        /\ \A j \in Items : j # i => batch'[j] = batch[j]
    BY <2>1, CommitStep DEF PromiseInv, CanExecute, history
  <2>3. \A j \in Items \ {i} : FactOf(j)' = FactOf(j)
    BY <2>2, FactSame
  <2>4. receipt[i] = "none" /\ runs[i] = 0
    BY <1>a, <2>1 DEF PromiseInv, ItemReceipts, RunLeavesReceipt
  <2>5. FactOf(i) = "none" /\ FactOf(i)' = "committed"
    BY <2>1, <2>2, <2>4 DEF FactOf, Final
  <2>6. QED
    BY <2>2, <2>3, <2>5
<1>2. CASE \A i \in Items : batch[i] = "none" => batch'[i] = "none"
  <2>1. \A i \in Items : batch'[i] = "none" <=> batch[i] = "none"
    BY <1>2, CommitStep DEF PromiseInv
  <2>2. CASE UNCHANGED <<receipt, runs>>
    BY <2>1, <2>2, FactSame
  <2>3. CASE ~UNCHANGED <<receipt, runs>>
    <3>1. ExecutorMove
      BY AutoInvStep DEF PromiseInv
    <3>2. PICK c \in Callers, a \in Actions :
                  /\ CallMove(c) /\ InBatch(c)
                  /\ \E n \in DOMAIN call[c].acts : a = call[c].acts[n]
                  /\ Inserts(a) \/ Refuses(a) \/ Hands(a) \/ Learns(a)
      BY <1>a, <2>3, <3>1, FactCases DEF PromiseInv
    <3>3. \A j \in Items : j # a => receipt'[j] = receipt[j] /\ runs'[j] = runs[j]
      BY <1>a, <3>2 DEF Inserts, Refuses, Hands, Learns
    <3>4. \A j \in Items : j # a => FactOf(j)' = FactOf(j)
      BY <2>1, <3>3, FactSame
    <3>5. CASE a \notin Items
      BY <3>4, <3>5
    <3>6. CASE a \in Items
      <4>1. call[c].pc # "idle"
        BY <3>2, <1>a, CallMoveFrame DEF ExecutorInv
      <4>2. call[c].batch = a
        BY <1>a, <3>2, <3>6, <4>1, ItemCalls DEF PromiseInv
      <4>3. batch[a] # "none" /\ batch'[a] # "none"
        BY <1>a, <2>1, <3>2, <3>6, <4>2 DEF BatchIsOwn
      <4>4. CASE Inserts(a)
        <5>1. runs[a] = 0 /\ runs'[a] = 0 /\ receipt[a] = "none" /\ receipt'[a] = "pending"
          BY <1>a, <3>2, <4>4 DEF Inserts, RunLeavesReceipt
        <5>2. FactOf(a)' = FactOf(a)
          BY <4>3, <5>1 DEF FactOf, Final
        <5>3. QED
          BY <3>4, <5>2
      <4>5. CASE Refuses(a)
        <5>1. /\ runs[a] = 0 /\ runs'[a] = 0 /\ receipt[a] = "pending"
              /\ receipt'[a] \in {"failed", "attempted"}
          BY <1>a, <3>2, <4>5 DEF Refuses
        <5>2. FactOf(a) = "committed" /\ FactOf(a)' = "refused"
          BY <4>3, <5>1 DEF FactOf, Final
        <5>3. QED
          BY <3>4, <3>6, <5>2
      <4>6. CASE Hands(a)
        <5>1. /\ runs[a] = 0 /\ runs'[a] = 1
              /\ receipt[a] = "pending" /\ receipt'[a] = "pending"
          BY <1>a, <3>2, <4>6 DEF Hands
        <5>2. FactOf(a) = "committed" /\ FactOf(a)' = "handed"
          BY <4>3, <5>1 DEF FactOf, Final
        <5>3. QED
          BY <3>4, <3>6, <5>2
      <4>7. CASE Learns(a)
        <5>1. /\ runs[a] > 0 /\ runs'[a] > 0 /\ receipt[a] = "pending" /\ receipt'[a] \in Final
          BY <1>a, <3>2, <4>7 DEF Learns
        <5>2. FactOf(a) = "handed" /\ FactOf(a)' \in Final
          BY <5>1 DEF FactOf, Final
        <5>3. QED
          BY <3>4, <3>6, <5>2
      <4>8. QED
        BY <3>2, <4>4, <4>5, <4>6, <4>7
    <3>7. QED
      BY <3>5, <3>6
  <2>4. QED
    BY <2>2, <2>3
<1>3. QED
  BY <1>1, <1>2

\* What the candidate is shown of an application follows from its row.
LEMMA ToldSame ==
  ASSUME NEW i \in Items, queue'[i] = queue[i]
  PROVE  ToldOf(i)' = ToldOf(i)
  BY DEF ToldOf

\* The told of rows that move together.
LEMMA ToldMoved ==
  ASSUME NEW moved \in SUBSET Items, NEW status, NEW t, MoveRows(moved, status, t)
  PROVE  /\ \A i \in moved : queue'[i] = status
         /\ \A i \in Items \ moved : ToldOf(i)' = ToldOf(i)
  BY ToldSame DEF MoveRows

\* What the candidate does to the rows is what the promise lets happen.
LEMMA CandidateSteps ==
  ASSUME AutoInv, CandidateRows, \A i \in Items : FactOf(i)' = FactOf(i)
  PROVE  App!Next \/ \A i \in Items : ToldOf(i)' = ToldOf(i)
<1>a. queue \in [Items -> OpenStatus \cup ClosedStatus \cup {"absent"}]
  BY TypeParts DEF AutoInv, TypedParts, QueueTypeOK
<1>b. [i \in Items |-> FactOf(i)]' = [i \in Items |-> FactOf(i)]
  OBVIOUS
<1>1. CASE ReturnApproved
  <2> DEFINE S == {i \in Items : queue[i] = "approved"}
  <2>1. \A i \in S : queue'[i] = "pending_approval"
    BY <1>1 DEF ReturnApproved, MoveRows
  <2>2. \A i \in Items \ S : ToldOf(i)' = ToldOf(i)
    BY <1>1, ToldSame DEF ReturnApproved, MoveRows
  <2>3. \A i \in S : ToldOf(i) = "approved" /\ ToldOf(i)' = "prepared"
    BY <2>1 DEF ToldOf
  <2>4. App!TakeBack(S)
    BY <1>b, <2>2, <2>3 DEF App!TakeBack
  <2>5. S \in SUBSET Items
    OBVIOUS
  <2>6. QED
    BY <2>4, <2>5 DEF App!Next
<1>2. CASE \E gone \in SUBSET Items : (\A i \in gone : queue[i] \in OpenStatus) /\ RemoveRows(gone)
  <2>1. PICK gone \in SUBSET Items : (\A i \in gone : queue[i] \in OpenStatus) /\ RemoveRows(gone)
    BY <1>2
  <2>2. /\ \A i \in gone : queue'[i] = "removed"
        /\ \A i \in Items \ gone : ToldOf(i)' = ToldOf(i)
    BY <2>1, ToldMoved DEF RemoveRows
  <2>3. \A i \in gone : ToldOf(i) \in {"prepared", "approved"} /\ ToldOf(i)' = "withdrawn"
    BY <2>1, <2>2 DEF ToldOf, OpenStatus
  <2>4. App!Withdraw(gone)
    BY <1>b, <2>2, <2>3 DEF App!Withdraw, App!Open
  <2>5. QED
    BY <2>4 DEF App!Next
<1>3. CASE \E i \in Items : queue[i] = "pending_approval" /\ MoveRows({i}, "approved", clock)
  <2>1. PICK i \in Items : queue[i] = "pending_approval" /\ MoveRows({i}, "approved", clock)
    BY <1>3
  <2>2. queue'[i] = "approved" /\ \A j \in Items \ {i} : ToldOf(j)' = ToldOf(j)
    BY <2>1, ToldMoved
  <2>3. ToldOf(i) = "prepared" /\ ToldOf(i)' = "approved"
    BY <2>1, <2>2 DEF ToldOf
  <2>4. App!Approve(i)
    BY <1>b, <2>2, <2>3 DEF App!Approve
  <2>5. QED
    BY <2>4 DEF App!Next
<1>4. CASE \E i \in Items : /\ queue[i] \in {"pending_approval", "letter_not_ready"}
                            /\ MoveRows({i}, "consultant", clock)
  <2>1. PICK i \in Items : /\ queue[i] \in {"pending_approval", "letter_not_ready"}
                           /\ MoveRows({i}, "consultant", clock)
    BY <1>4
  <2>2. queue'[i] = "consultant" /\ \A j \in Items \ {i} : ToldOf(j)' = ToldOf(j)
    BY <2>1, ToldMoved
  <2>3. ToldOf(i) = "prepared" /\ ToldOf(i)' = "withdrawn"
    BY <2>1, <2>2 DEF ToldOf
  <2>4. App!Withdraw({i})
    BY <1>b, <2>2, <2>3 DEF App!Withdraw, App!Open
  <2>5. {i} \in SUBSET Items
    OBVIOUS
  <2>6. QED
    BY <2>4, <2>5 DEF App!Next
<1>5. CASE \E i \in Items, version \in Letters : AddItem(i, version)
  <2>1. PICK i \in Items, version \in Letters : AddItem(i, version)
    BY <1>5
  <2>2. /\ queue[i] = "absent" /\ queue'[i] \in OpenStatus
        /\ \A j \in Items \ {i} : queue'[j] = queue[j]
    BY <1>a, <2>1 DEF AddItem, OpenStatus
  <2>3. \A j \in Items \ {i} : ToldOf(j)' = ToldOf(j)
    BY <2>2, ToldSame
  <2>4. ToldOf(i) = "absent" /\ ToldOf(i)' \in {"prepared", "approved"}
    BY <2>2 DEF ToldOf, OpenStatus
  <2>5. PICK status \in App!Open : ToldOf(i)' = status
    BY <2>4 DEF App!Open
  <2>6. [j \in Items |-> ToldOf(j)]' = [[j \in Items |-> ToldOf(j)] EXCEPT ![i] = status]
    BY <2>3, <2>5
  <2>7. App!Prepare(i)
    BY <1>b, <2>4, <2>5, <2>6 DEF App!Prepare
  <2>8. QED
    BY <2>7 DEF App!Next
<1>6. CASE \E i \in Items, version \in Letters : EditLetter(i, version)
  <2>1. PICK i \in Items, version \in Letters : EditLetter(i, version)
    BY <1>6
  <2>2. /\ queue[i] \in {"pending_approval", "letter_not_ready"}
        /\ queue'[i] \in {"pending_approval", "letter_not_ready"}
        /\ \A j \in Items \ {i} : queue'[j] = queue[j]
    BY <1>a, <2>1 DEF EditLetter
  <2>3. ToldOf(i)' = ToldOf(i)
    BY <2>2 DEF ToldOf
  <2>4. QED
    BY <2>2, <2>3, ToldSame
<1>7. QED
  BY <1>1, <1>2, <1>3, <1>4, <1>5, <1>6 DEF CandidateRows

\* A row is completed only with what may be said of the fact.
LEMMA TruthfulStep ==
  ASSUME PromiseInv, NEW d \in Dispatchers, CompleteItem(d)
  PROVE  App!Next \/ (\A i \in Items : ToldOf(i)' = ToldOf(i) /\ FactOf(i)' = FactOf(i))
<1>a. /\ DispatchInv /\ HandedInv /\ ItemReceipts /\ Items \subseteq Actions
      /\ receipt \in [Actions -> Final \cup {"none", "pending"}] /\ runs \in [Actions -> Nat]
      /\ queue \in [Items -> OpenStatus \cup ClosedStatus \cup {"absent"}]
  BY AutoApplyAssumption, TypeParts
     DEF PromiseInv, AutoInv, BatchInv, ExecutorInv, ExecutorTypeOK, TypedParts, QueueTypeOK
<1>b. PICK i \in Items : i = disp[d].item /\ receipt[i] # "none"
  BY <1>a DEF CompleteItem, DispatchInv
<1>c. \A j \in Items : FactOf(j)' = FactOf(j)
  BY FactSame DEF CompleteItem, executorVars, tables, history
<1>1. CASE ~Completable(i)
  <2>1. queue' = queue
    BY <1>b, <1>1 DEF CompleteItem, queueVars
  <2>2. QED
    BY <1>c, <2>1, ToldSame
<1>2. CASE Completable(i)
  <2> DEFINE status == SettledAs(receipt[i])
  <2>1. MoveRows({i}, status, disp[d].at)
    BY <1>b, <1>2 DEF CompleteItem
  <2>2. queue'[i] = status /\ \A j \in Items \ {i} : ToldOf(j)' = ToldOf(j)
    BY <2>1, ToldMoved
  <2>3. receipt[i] \in {"pending", "delivered", "attempted", "failed"} /\ batch[i] # "none"
    BY <1>a, <1>b DEF Final, ItemReceipts
  <2>4. receipt[i] = "delivered" => runs[i] > 0
    BY <1>a DEF HandedInv
  <2>5. /\ receipt[i] = "delivered" => FactOf(i) = "delivered" /\ status = "sent"
        /\ receipt[i] = "pending" =>
             FactOf(i) \in {"committed", "handed"} /\ status = "attempted"
        /\ receipt[i] \in {"attempted", "failed"} =>
             FactOf(i) \in {receipt[i], "refused"} /\ status = receipt[i]
    BY <2>3, <2>4 DEF FactOf, SettledAs, Final
  <2>6. status \in App!MayTell(FactOf(i)) /\ status \in {"sent", "attempted", "failed"}
    BY <2>3, <2>5 DEF App!MayTell
  <2>7. ToldOf(i) \in App!Open /\ ToldOf(i)' = status
    BY <1>2, <2>2, <2>6 DEF Completable, ToldOf, App!Open
  <2>8. /\ [j \in Items |-> ToldOf(j)]' = [[j \in Items |-> ToldOf(j)] EXCEPT ![i] = status]
        /\ [j \in Items |-> FactOf(j)]' = [j \in Items |-> FactOf(j)]
    BY <1>c, <2>2, <2>7
  <2>9. App!Tell(i)
    BY <2>6, <2>7, <2>8 DEF App!Tell
  <2>10. QED
    BY <2>9 DEF App!Next
<1>3. QED
  BY <1>1, <1>2

\* Outside the queue, a step of the executor is one of the fact.
LEMMA ExecutorSteps ==
  ASSUME PromiseInv, [AutoApplyNext]_vars, UNCHANGED queueVars
  PROVE  App!Next \/ (\A i \in Items : ToldOf(i)' = ToldOf(i) /\ FactOf(i)' = FactOf(i))
<1>1. \A i \in Items : ToldOf(i)' = ToldOf(i)
  BY ToldSame DEF queueVars
<1>2. CASE \A i \in Items : FactOf(i)' = FactOf(i)
  BY <1>1, <1>2
<1>3. ASSUME NEW i \in Items, \A j \in Items \ {i} : FactOf(j)' = FactOf(j)
      PROVE  /\ [j \in Items |-> FactOf(j)]' =
                  [[j \in Items |-> FactOf(j)] EXCEPT ![i] = FactOf(i)']
             /\ [j \in Items |-> ToldOf(j)]' = [j \in Items |-> ToldOf(j)]
  BY <1>1, <1>3
<1>4. CASE \E i \in Items : /\ \A j \in Items \ {i} : FactOf(j)' = FactOf(j)
                            /\ FactOf(i) = "none" /\ queue[i] = "approved"
                            /\ FactOf(i)' = "committed"
  <2>1. PICK i \in Items : /\ \A j \in Items \ {i} : FactOf(j)' = FactOf(j)
                           /\ FactOf(i) = "none" /\ queue[i] = "approved"
                           /\ FactOf(i)' = "committed"
    BY <1>4
  <2>2. ToldOf(i) = "approved"
    BY <2>1 DEF ToldOf
  <2>3. App!Commit(i)
    BY <1>3, <2>1, <2>2 DEF App!Commit
  <2>4. QED
    BY <2>3 DEF App!Next
<1>5. CASE \E i \in Items : /\ \A j \in Items \ {i} : FactOf(j)' = FactOf(j)
                            /\ FactOf(i) = "committed" /\ FactOf(i)' \in {"refused", "handed"}
  <2>1. PICK i \in Items : /\ \A j \in Items \ {i} : FactOf(j)' = FactOf(j)
                           /\ FactOf(i) = "committed" /\ FactOf(i)' \in {"refused", "handed"}
    BY <1>5
  <2>2. App!Refuse(i) \/ App!HandOver(i)
    BY <1>3, <2>1 DEF App!Refuse, App!HandOver
  <2>3. QED
    BY <2>2 DEF App!Next
<1>6. CASE \E i \in Items : /\ \A j \in Items \ {i} : FactOf(j)' = FactOf(j)
                            /\ FactOf(i) = "handed" /\ FactOf(i)' \in Final
  <2>1. PICK i \in Items : /\ \A j \in Items \ {i} : FactOf(j)' = FactOf(j)
                           /\ FactOf(i) = "handed" /\ FactOf(i)' \in Final
    BY <1>6
  <2>2. PICK outcome \in App!Outcome : FactOf(i)' = outcome
    BY <2>1 DEF App!Outcome, Final
  <2>3. App!Learn(i)
    BY <1>3, <2>1, <2>2 DEF App!Learn
  <2>4. QED
    BY <2>3 DEF App!Next
<1>7. QED
  BY <1>2, <1>4, <1>5, <1>6, FactMoves

LEMMA PromiseStep ==
  ASSUME PromiseInv, [AutoApplyNext]_vars
  PROVE  [App!Next]_(<<[i \in Items |-> ToldOf(i)], [i \in Items |-> FactOf(i)]>>)
<1>1. CASE UNCHANGED queueVars
  BY <1>1, ExecutorSteps
<1>2. CASE \E d \in Dispatchers : CompleteItem(d)
  BY <1>2, TruthfulStep
<1>3. CASE CandidateRows /\ UNCHANGED <<batch, receipt, history>>
  <2>1. \A i \in Items : FactOf(i)' = FactOf(i)
    BY <1>3, FactSame DEF history
  <2>2. QED
    BY <1>3, <2>1, CandidateSteps DEF PromiseInv
<1>4. QED
  BY <1>1, <1>2, <1>3, QueueCases DEF history

LEMMA PromiseInit == AutoApplyInit => App!Init
<1> SUFFICES ASSUME AutoApplyInit PROVE App!Init
  OBVIOUS
<1>1. \A i \in Items : queue[i] = "absent" /\ runs[i] = 0 /\ batch[i] = "none"
  BY AutoApplyAssumption DEF AutoApplyInit, ExecutorInit
<1>2. \A i \in Items : ToldOf(i) = "absent" /\ FactOf(i) = "none"
  BY <1>1 DEF ToldOf, FactOf
<1>3. QED
  BY <1>2 DEF App!Init

\* Auto-apply implements Applications: whatever overlaps, runs late, is taken back
\* or crashes, an application is committed to only while it is approved, handed to
\* the platform at most once, and the candidate is told what is recorded of it.
THEOREM PromiseIsKept ==
  ASSUME RequestsApart
  PROVE  AutoApplySpec => KeepsPromise
<1>1. PromiseInv /\ [AutoApplyNext]_vars => PromiseInv'
  BY PromiseInvStep
<1>2. PromiseInv /\ [AutoApplyNext]_vars
        => [App!Next]_(<<[i \in Items |-> ToldOf(i)], [i \in Items |-> FactOf(i)]>>)
  BY PromiseStep
<1>3. QED
  BY <1>1, <1>2, PromiseInvInit, PromiseInit, PTL DEF AutoApplySpec, KeepsPromise, App!Spec


-----------------------------------------------------------------------------
(* The daily limit of the schedule.                                         *)

\* The entries that countDailyAttempts counts.
AttemptsOf(day, platform) ==
  {e \in journal : e.attempted /\ e.day = day /\ PlatformOf(e.item) = platform}

\* The run of a row is in the journal, on its day; or no entry is in the way of
\* the one that its receipt will bring.
RunIsTold(i) == \E e \in journal : e.item = i /\ e.attempted /\ e.day = DayOf(runAt[i])
Fresh(i) == \A e \in journal : e.item = i => e.event \notin Final \cup {"pending"}

\* A call of which the dispatcher will settle no receipt has run nothing.
Unsettled(d) ==
  \/ call[d].pc \in {"timezone", "sessions", "receipts"}
  \/ call[d].pc = "done" /\ call[d].result \notin {"ran", "error"}

Busy(d) == disp[d].pc \in {"calling", "settle"}

\* The dispatcher keeps a slot of the day free until the run is in the journal.
ScheduleInv(d) ==
  /\ \A day \in Nat, platform \in Platforms :
       /\ IsFiniteSet(AttemptsOf(day, platform))
       /\ DailyAttempts(day, platform) <= DailyLimit[platform]
  /\ \A e \in journal : e.event \in Final \cup {"pending"} => receipt[e.item] # "none"
  /\ Busy(d) => DailyAttempts(DayOf(disp[d].at), PlatformOf(disp[d].item))
                  < DailyLimit[PlatformOf(disp[d].item)]
  /\ disp[d].pc = "calling" => /\ Fresh(disp[d].item)
                               /\ call[d].at = disp[d].at
                               /\ Unsettled(d) => runs[disp[d].item] = 0
  /\ \A i \in Items : runs[i] > 0 =>
       \/ RunIsTold(i)
       \/ Busy(d) /\ disp[d].item = i /\ runAt[i] = disp[d].at /\ Fresh(i)

\* Receipts do not go away, whoever moves.
LEMMA ReceiptsStay ==
  ASSUME PromiseInv, [AutoApplyNext]_vars, NEW a \in Actions, receipt[a] # "none"
  PROVE  receipt'[a] # "none"
<1>1. receipt \in [Actions -> Final \cup {"none", "pending"}] /\ ExecutorInv /\ ExecutorMove
  BY AutoInvStep DEF PromiseInv, AutoInv, BatchInv, ExecutorInv, ExecutorTypeOK
<1>2. QED
  BY <1>1, FactCases DEF PromiseInv, Inserts, Refuses, Hands, Learns, Final

\* A row is run by the call of its dispatcher alone, at the time of the run.
LEMMA RowsRunByDispatcher ==
  ASSUME PromiseInv, [AutoApplyNext]_vars, NEW i \in Items
  PROVE  \/ runs'[i] = runs[i] /\ runAt'[i] = runAt[i]
         \/ \E d \in Dispatchers :
              /\ disp[d].pc = "calling" /\ disp[d].item = i
              /\ runAt'[i] = CallNow(d) /\ call'[d].pc = "running"
              /\ CallMove(d)
<1>a. ExecutorInv /\ DispatchInv /\ DirectApart /\ ExecutorMove /\ Items \subseteq Actions
  BY AutoInvStep, AutoApplyAssumption DEF PromiseInv, AutoInv, BatchInv
<1>1. CASE UNCHANGED history
  BY <1>1 DEF history
<1>2. CASE \E c \in Callers : Starts(c)
  <2>1. PICK c \in Callers : Starts(c)
    BY <1>2
  <2>2. /\ call[c].pc = "reserved" /\ runAt'[Current(c)] = CallNow(c) /\ call'[c].pc = "running"
        /\ \A a \in Actions : a # Current(c) => runs'[a] = runs[a] /\ runAt'[a] = runAt[a]
    BY <1>a, <2>1, StartFacts
  <2>3. CASE i # Current(c)
    BY <1>a, <2>2, <2>3
  <2>4. CASE i = Current(c)
    <3>1. call[c].idx \in DOMAIN call[c].acts /\ call[c].acts[call[c].idx] = i
      BY <1>a, <2>2, <2>4, PlaceOf
    <3>2. c \in Dispatchers
      BY <1>a, <3>1 DEF DirectApart
    <3>3. disp[c].pc = "calling" /\ call[c].batch = disp[c].item
      BY <1>a, <2>2, <3>2 DEF DispatchInv
    <3>4. call[c].batch = i
      BY <1>a, <2>2, <3>1, ItemCalls
    <3>5. CallMove(c)
      BY <2>1 DEF Starts, CallMove, ServerStep
    <3>6. QED
      BY <2>2, <2>4, <3>2, <3>3, <3>4, <3>5
  <2>5. QED
    BY <2>3, <2>4
<1>3. QED
  BY <1>a, <1>1, <1>2, StartsOnly

\* A call that has passed its receipts ends with what they say.
LEMMA SettledStays ==
  ASSUME ExecutorInv, NEW c \in Callers, CallMove(c), Unsettled(c)'
  PROVE  Unsettled(c)
<1>a. call \in [Callers -> CallType]
  BY DEF ExecutorInv, ExecutorTypeOK
<1>1. CASE \/ CheckBatchCapacity(c) \/ NotConnected(c) \/ (\E guard : CreateBatch(c, guard))
           \/ CreatePendingReceipt(c)
  BY <1>1 DEF CheckBatchCapacity, NotConnected, CreateBatch, CreatePendingReceipt, Unsettled
<1>2. CASE \/ CheckAction(c) \/ RecordOutcome(c) \/ AdvanceApplication(c) \/ AfterAction(c)
           \/ PauseEnds(c) \/ StopAction(c)
  <2>1. {"stopping", "after", "reserved", "advance", "close", "pausing", "check"} \subseteq CallPcs
    BY DEF CallPcs
  <2>2. \E pc \in {"stopping", "after", "reserved", "advance", "close", "pausing", "check"} :
          GoTo(c, pc) \/ NextAction(c, pc)
    BY <1>2 DEF CheckAction, RecordOutcome, AdvanceApplication, AfterAction, PauseEnds, StopAction
  <2>3. call'[c].pc \in {"stopping", "after", "reserved", "advance", "close", "pausing", "check"}
    BY <1>a, <2>1, <2>2, Moved
  <2>4. QED
    BY <2>3 DEF Unsettled
<1>3. CASE StartRunner(c)
  <2>1. call'[c].pc \in {"after", "running"}
    BY <1>a, <1>3, Moved DEF StartRunner, CallPcs
  <2>2. QED
    BY <2>1 DEF Unsettled
<1>4. CASE \E outcome \in Outcomes : RunnerAnswers(c, outcome)
  <2>1. call'[c].pc = "record"
    BY <1>a, <1>4, AnswerMoves
  <2>2. QED
    BY <2>1 DEF Unsettled
<1>5. CASE CloseBatch(c)
  <2>1. call'[c].pc = "done" /\ call'[c].result = "ran"
    BY <1>a, <1>5 DEF CloseBatch, Finish
  <2>2. QED
    BY <2>1 DEF Unsettled
<1>6. QED
  BY <1>1, <1>2, <1>3, <1>4, <1>5 DEF CallMove, ServerStep

LEMMA AttemptsAreCounted ==
  /\ \A day, platform : DailyAttempts(day, platform) = Cardinality(AttemptsOf(day, platform))
  /\ \A t \in Times : t \in Nat /\ DayOf(t) \in Nat
  /\ \A platform \in Platforms : DailyLimit[platform] \in Nat
  /\ \A i : PlatformOf(i) \in Platforms
<1>1. \A day, platform : DailyAttempts(day, platform) = Cardinality(AttemptsOf(day, platform))
  BY DEF DailyAttempts, AttemptsOf
<1>2. \A t \in Times : t \in Nat /\ DayOf(t) \in Nat
  BY ConstantsAssumption DEF Times, DayOf
<1>3. QED
  BY <1>1, <1>2, AutoApplyAssumption DEF PlatformOf, Platforms

\* Entries that are no attempts change no count.
LEMMA NoAttempt ==
  ASSUME journal \subseteq journal',
         \A e \in journal' : e \in journal \/ (~e.attempted /\ e.event \notin Final \cup {"pending"})
  PROVE  /\ \A day, platform : /\ AttemptsOf(day, platform)' = AttemptsOf(day, platform)
                               /\ DailyAttempts(day, platform)' = DailyAttempts(day, platform)
         /\ \A i : Fresh(i) => Fresh(i)'
         /\ \A i : runAt'[i] = runAt[i] /\ RunIsTold(i) => RunIsTold(i)'
<1>1. \A day, platform : AttemptsOf(day, platform)' = AttemptsOf(day, platform)
  BY DEF AttemptsOf, PlatformOf
<1>2. \A day, platform : DailyAttempts(day, platform)' = DailyAttempts(day, platform)
  BY <1>1, AttemptsAreCounted DEF DailyAttempts, AttemptsOf
<1>3. \A i : Fresh(i) => Fresh(i)'
  BY DEF Fresh
<1>4. \A i : runAt'[i] = runAt[i] /\ RunIsTold(i) => RunIsTold(i)'
  BY DEF RunIsTold, DayOf
<1>5. QED
  BY <1>1, <1>2, <1>3, <1>4

\* One more attempt fits as long as a slot of its day is free.
LEMMA OneAttempt ==
  ASSUME NEW d \in Dispatchers, ScheduleInv(d), Busy(d), disp[d].at \in Times,
         NEW event, NEW stamp,
         journal' = Journaled(Entry(disp[d].item, event, stamp, disp[d].at, TRUE))
  PROVE  /\ \A day \in Nat, platform \in Platforms :
              /\ IsFiniteSet(AttemptsOf(day, platform)')
              /\ DailyAttempts(day, platform)' <= DailyLimit[platform]
         /\ \A i : runAt'[i] = runAt[i] /\ RunIsTold(i) => RunIsTold(i)'
         /\ \A f \in journal' : f \in journal \/ (f.item = disp[d].item /\ f.event = event)
<1> DEFINE e == Entry(disp[d].item, event, stamp, disp[d].at, TRUE)
           p == PlatformOf(disp[d].item)
<1>1. /\ e.item = disp[d].item /\ e.event = event /\ e.attempted /\ e.day = DayOf(disp[d].at)
      /\ journal' = journal \/ journal' = journal \cup {e}
  BY DEF Journaled, Entry
<1> HIDE DEF e
<1>2. ASSUME NEW day \in Nat, NEW platform \in Platforms
      PROVE  /\ IsFiniteSet(AttemptsOf(day, platform)')
             /\ DailyAttempts(day, platform)' <= DailyLimit[platform]
  <2>a. /\ IsFiniteSet(AttemptsOf(day, platform))
        /\ Cardinality(AttemptsOf(day, platform)) \in Nat
        /\ Cardinality(AttemptsOf(day, platform)) <= DailyLimit[platform]
        /\ DailyAttempts(day, platform)' = Cardinality(AttemptsOf(day, platform)')
        /\ DailyLimit[platform] \in Nat
    <3>1. DailyAttempts(day, platform)' = Cardinality(AttemptsOf(day, platform)')
      BY DEF DailyAttempts, AttemptsOf
    <3>2. IsFiniteSet(AttemptsOf(day, platform))
      BY DEF ScheduleInv
    <3>3. Cardinality(AttemptsOf(day, platform)) \in Nat
      BY <3>2, FS_CardinalityType
    <3>4. QED
      BY <3>1, <3>2, <3>3, AttemptsAreCounted DEF ScheduleInv
  <2>1. CASE AttemptsOf(day, platform)' = AttemptsOf(day, platform)
    BY <2>a, <2>1
  <2>2. CASE AttemptsOf(day, platform)' # AttemptsOf(day, platform)
    <3>1. /\ AttemptsOf(day, platform)' = AttemptsOf(day, platform) \cup {e}
          /\ day = DayOf(disp[d].at) /\ platform = p
      BY <1>1, <2>2 DEF AttemptsOf, PlatformOf
    <3>2. Cardinality(AttemptsOf(day, platform)) < DailyLimit[platform]
      BY <3>1, AttemptsAreCounted DEF ScheduleInv
    <3>3. /\ IsFiniteSet(AttemptsOf(day, platform) \cup {e})
          /\ \/ Cardinality(AttemptsOf(day, platform) \cup {e}) = Cardinality(AttemptsOf(day, platform))
             \/ Cardinality(AttemptsOf(day, platform) \cup {e})
                  = Cardinality(AttemptsOf(day, platform)) + 1
      BY <2>a, FS_AddElement
    <3>4. QED
      BY <2>a, <3>1, <3>2, <3>3
  <2>3. QED
    BY <2>1, <2>2
<1>3. \A i : runAt'[i] = runAt[i] /\ RunIsTold(i) => RunIsTold(i)'
  BY <1>1 DEF RunIsTold, DayOf
<1>4. \A f \in journal' : f \in journal \/ (f.item = disp[d].item /\ f.event = event)
  BY <1>1
<1>5. QED
  BY <1>2, <1>3, <1>4

\* A step of the executor, or of anything that leaves journal and dispatcher alone.
LEMMA ScheduleOnCall ==
  ASSUME PromiseInv, [AutoApplyNext]_vars, NEW d, Dispatchers = {d}, ScheduleInv(d),
         UNCHANGED <<journal, disp>>, call'[d] = call[d] \/ CallMove(d)
  PROVE  ScheduleInv(d)'
<1>a. /\ ExecutorInv /\ DispatchInv /\ d \in Callers /\ d \in Dispatchers
      /\ Items \subseteq Actions /\ AutoApplyTypeOK /\ runs \in [Actions -> Nat]
      /\ runs' \in [Actions -> Nat]
  BY AutoInvStep, AutoApplyAssumption
     DEF PromiseInv, AutoInv, BatchInv, ExecutorInv, ExecutorTypeOK
<1>b. disp[d].at \in Times /\ \A e \in journal : e.item \in Items
  BY <1>a DEF AutoApplyTypeOK, EntryType
<1>1. /\ \A day, platform : /\ AttemptsOf(day, platform)' = AttemptsOf(day, platform)
                            /\ DailyAttempts(day, platform)' = DailyAttempts(day, platform)
      /\ \A i : Fresh(i) => Fresh(i)'
      /\ \A i : runAt'[i] = runAt[i] /\ RunIsTold(i) => RunIsTold(i)'
  BY NoAttempt
<1>2. \A e \in journal : receipt[e.item] # "none" => receipt'[e.item] # "none"
  BY <1>a, <1>b, ReceiptsStay
<1>3. /\ disp[d].pc = "calling" => disp[d].item \in Items
      /\ call'[d].at = call[d].at
      /\ Unsettled(d)' => Unsettled(d)
  <2>1. call'[d].at = call[d].at
    BY <1>a, CallMoveFrame DEF ExecutorInv
  <2>2. Unsettled(d)' => Unsettled(d)
    BY <1>a, SettledStays DEF Unsettled
  <2>3. QED
    BY <1>a, <2>1, <2>2 DEF DispatchInv
<1>4. ASSUME NEW i \in Items
      PROVE  \/ runs'[i] = runs[i] /\ runAt'[i] = runAt[i]
             \/ /\ disp[d].pc = "calling" /\ disp[d].item = i
                /\ runAt'[i] = disp[d].at /\ ~Unsettled(d)'
  <2>1. CASE runs'[i] = runs[i] /\ runAt'[i] = runAt[i]
    BY <2>1
  <2>2. CASE /\ disp[d].pc = "calling" /\ disp[d].item = i
             /\ runAt'[i] = CallNow(d) /\ call'[d].pc = "running"
    <3>1. CallNow(d) = disp[d].at
      BY <1>b, <2>2, AttemptsAreCounted, ConstantsAssumption DEF CallNow, ScheduleInv
    <3>2. QED
      BY <2>2, <3>1 DEF Unsettled
  <2>3. QED
    BY <2>1, <2>2, RowsRunByDispatcher
<1>5. disp[d].pc = "calling" => /\ Fresh(disp[d].item)'
                                /\ call'[d].at = disp[d].at
                                /\ Unsettled(d)' => runs'[disp[d].item] = 0
  BY <1>1, <1>3, <1>4 DEF ScheduleInv
<1>6. ASSUME NEW i \in Items, runs'[i] > 0
      PROVE  \/ RunIsTold(i)'
             \/ Busy(d) /\ disp[d].item = i /\ runAt'[i] = disp[d].at /\ Fresh(i)'
  <2>1. CASE runs'[i] = runs[i] /\ runAt'[i] = runAt[i]
    BY <1>1, <1>6, <2>1 DEF ScheduleInv
  <2>2. CASE disp[d].pc = "calling" /\ disp[d].item = i /\ runAt'[i] = disp[d].at
    BY <1>5, <2>2 DEF Busy
  <2>3. QED
    BY <1>4, <2>1, <2>2
<1>7. QED
  BY <1>1, <1>2, <1>5, <1>6 DEF ScheduleInv, Busy, PlatformOf, DayOf

\* A step of the candidate: what it adds to the journal is no attempt.
LEMMA ScheduleOnRemoval ==
  ASSUME NEW d \in Dispatchers, ScheduleInv(d),
         UNCHANGED <<receipt, history, disp, call>>,
         \/ journal' = journal
         \/ \E gone \in SUBSET Items : RemoveRows(gone)
  PROVE  ScheduleInv(d)'
<1>1. /\ journal \subseteq journal'
      /\ \A e \in journal' : e \in journal \/ (~e.attempted /\ e.event \notin Final \cup {"pending"})
  <2>1. CASE journal' = journal
    BY <2>1
  <2>2. CASE \E gone \in SUBSET Items : RemoveRows(gone)
    <3>1. PICK gone \in SUBSET Items : RemoveRows(gone)
      BY <2>2
    <3>2. journal' = journal \cup {Entry(i, "removed", NoTime, clock, FALSE) : i \in gone}
      BY <3>1 DEF RemoveRows
    <3>3. QED
      BY <3>2 DEF Entry, Final
  <2>3. QED
    BY <2>1, <2>2
<1>2. /\ \A day, platform : /\ AttemptsOf(day, platform)' = AttemptsOf(day, platform)
                            /\ DailyAttempts(day, platform)' = DailyAttempts(day, platform)
      /\ \A i : Fresh(i) => Fresh(i)'
      /\ \A i : runAt'[i] = runAt[i] /\ RunIsTold(i) => RunIsTold(i)'
  BY <1>1, NoAttempt
<1>3. Unsettled(d)' = Unsettled(d) /\ Busy(d)' = Busy(d)
  BY DEF Unsettled, Busy
<1>4. QED
  BY <1>1, <1>2, <1>3 DEF ScheduleInv, PlatformOf, DayOf, history

\* A step of the dispatcher outside of executeBatch.
LEMMA ScheduleOnDispatch ==
  ASSUME PromiseInv, [AutoApplyNext]_vars, NEW d, Dispatchers = {d}, ScheduleInv(d),
         DispatcherMove(d)
  PROVE  ScheduleInv(d)'
<1>a. /\ ExecutorInv /\ DispatchInv /\ d \in Callers /\ d \in Dispatchers /\ Items \subseteq Actions
      /\ AutoApplyTypeOK /\ UNCHANGED <<receipt, runs, runAt>> /\ disp[d].at \in Times
      /\ call \in [Callers -> CallType] /\ receipt \in [Actions -> Final \cup {"none", "pending"}]
      /\ runs \in [Actions -> Nat] /\ RunLeavesReceipt
      /\ disp \in [Dispatchers ->
               [pc : DispatchPcs, item : Items \cup {"none"}, at : Times,
                letter : Letters, ending : Endings \cup {"none"}]]
  BY DispatcherMoves, AutoApplyAssumption
     DEF PromiseInv, AutoInv, BatchInv, ExecutorInv, ExecutorTypeOK, AutoApplyTypeOK, tables, history
<1>b. ASSUME journal' = journal
      PROVE  /\ \A day, platform : /\ AttemptsOf(day, platform)' = AttemptsOf(day, platform)
                                   /\ DailyAttempts(day, platform)' = DailyAttempts(day, platform)
             /\ \A i : Fresh(i) => Fresh(i)'
             /\ \A i \in Items : RunIsTold(i) => RunIsTold(i)'
  BY <1>a, <1>b, NoAttempt
<1>c. ASSUME journal' = journal, ~Busy(d)', \A i \in Items : runs[i] > 0 => RunIsTold(i)
      PROVE  ScheduleInv(d)'
  BY <1>a, <1>b, <1>c DEF ScheduleInv, Busy
<1>d. ~Busy(d) => \A i \in Items : runs[i] > 0 => RunIsTold(i)
  BY DEF ScheduleInv
<1>e. \A i \in Items : runs[i] > 0 => RunIsTold(i) \/ i = disp[d].item
  BY DEF ScheduleInv
<1>1. CASE Claim(d) \/ DecideGate(d) \/ RecordRuntime(d) \/ Release(d)
  <2>1. journal' = journal /\ disp[d].pc \in {"idle", "deciding", "runtime", "releasing"}
    BY <1>1 DEF Claim, DecideGate, RecordRuntime, Release
  <2>a. /\ Claim(d) => disp'[d] = [IdleDispatch EXCEPT !.pc = "deciding", !.at = clock]
        /\ Release(d) => disp'[d] = IdleDispatch
    BY <1>a DEF Claim, Release
  <2>b. /\ [IdleDispatch EXCEPT !.pc = "deciding", !.at = clock].pc = "deciding"
        /\ IdleDispatch.pc = "idle"
    BY DEF IdleDispatch
  <2>2. /\ Claim(d) => disp'[d].pc = "deciding"
        /\ Release(d) => disp'[d].pc = "idle"
    BY <2>a, <2>b
  <2>3. DecideGate(d) \/ RecordRuntime(d) => disp'[d].pc = "releasing"
    BY <1>a DEF DecideGate, RecordRuntime, EndAt, EndRun, DispatchGoTo
  <2>4. ~Busy(d) /\ ~Busy(d)'
    BY <1>1, <2>1, <2>2, <2>3 DEF Busy
  <2>5. QED
    BY <2>1, <2>4, <1>c, <1>d
<1>2. CASE DecideItem(d)
  <2> DEFINE t == disp[d].at
  <2>1. journal' = journal /\ ~Busy(d) /\ disp[d].pc = "deciding"
    BY <1>2 DEF DecideItem, Busy
  <2>a. PICK i \in Items : \E due : LET verdict == ItemVerdict(i, t, due) IN
          \/ verdict \in {"prepared", "early", "closed", "limit"} /\ DispatchGoTo(d, "releasing")
          \/ /\ verdict = "known"
             /\ disp' = [disp EXCEPT ![d].pc = "settle", ![d].item = i]
          \/ /\ verdict = "send"
             /\ Begin(d, i, <<i>>, t)
             /\ disp' = [disp EXCEPT ![d].pc = "calling", ![d].item = i, ![d].letter = letter[i]]
    BY <1>2 DEF DecideItem, EndAt, EndRun
  <2>2. PICK due : LET verdict == ItemVerdict(i, t, due) IN
          \/ verdict \in {"prepared", "early", "closed", "limit"} /\ DispatchGoTo(d, "releasing")
          \/ /\ verdict = "known"
             /\ disp' = [disp EXCEPT ![d].pc = "settle", ![d].item = i]
          \/ /\ verdict = "send"
             /\ Begin(d, i, <<i>>, t)
             /\ disp' = [disp EXCEPT ![d].pc = "calling", ![d].item = i, ![d].letter = letter[i]]
    BY <2>a
  <2> DEFINE verdict == ItemVerdict(i, t, due)
  <2>3. CASE DispatchGoTo(d, "releasing")
    <3>1. ~Busy(d)'
      BY <1>a, <2>3 DEF DispatchGoTo, Busy
    <3>2. QED
      BY <2>1, <3>1, <1>c, <1>d
  <2>4. ASSUME verdict \in {"known", "send"}
        PROVE  /\ DailyAttempts(DayOf(t), PlatformOf(i)) < DailyLimit[PlatformOf(i)]
               /\ verdict = "send" => receipt[i] = "none"
    <3>1. /\ ~(DailyAttempts(DayOf(t), PlatformOf(i)) >= DailyLimit[PlatformOf(i)])
          /\ verdict = "send" => receipt[i] = "none"
      BY <2>4 DEF ItemVerdict
    <3>2. /\ IsFiniteSet(AttemptsOf(DayOf(t), PlatformOf(i)))
          /\ DailyLimit[PlatformOf(i)] \in Nat
      BY <1>a, AttemptsAreCounted DEF ScheduleInv
    <3>3. DailyAttempts(DayOf(t), PlatformOf(i)) \in Nat
      BY <3>2, FS_CardinalityType, AttemptsAreCounted
    <3>4. QED
      BY <3>1, <3>2, <3>3
  <2>5. CASE verdict = "known" /\ disp' = [disp EXCEPT ![d].pc = "settle", ![d].item = i]
    <3>1. disp'[d].pc = "settle" /\ disp'[d].item = i /\ disp'[d].at = t
      BY <1>a, <2>5
    <3>2. QED
      BY <1>a, <1>b, <1>d, <2>1, <2>4, <2>5, <3>1 DEF ScheduleInv, Busy, PlatformOf, DayOf
  <2>6. CASE /\ verdict = "send" /\ Begin(d, i, <<i>>, t)
             /\ disp' = [disp EXCEPT ![d].pc = "calling", ![d].item = i, ![d].letter = letter[i]]
    <3>1. disp'[d].pc = "calling" /\ disp'[d].item = i /\ disp'[d].at = t
      BY <1>a, <2>6
    <3>2. call'[d].at = t
      BY <1>a, <2>6 DEF Begin, IdleCall
    <3>3. receipt[i] = "none" /\ runs[i] = 0
      BY <1>a, <2>4, <2>6 DEF RunLeavesReceipt
    <3>4. Fresh(i)
      BY <3>3 DEF Fresh, ScheduleInv
    <3>5. QED
      BY <1>a, <1>b, <1>d, <2>1, <2>4, <2>6, <3>1, <3>2, <3>3, <3>4
         DEF ScheduleInv, Busy, PlatformOf, DayOf
  <2>7. QED
    BY <2>2, <2>3, <2>5, <2>6
<1>3. CASE Continue(d)
  <2> DEFINE i == disp[d].item
             result == call[d].result
  <2>1. /\ disp[d].pc = "calling" /\ call[d].pc = "done" /\ i \in Items /\ Busy(d)
        /\ Fresh(i)
    BY <1>a, <1>3 DEF Continue, DispatchInv, ScheduleInv, Busy
  <2>2. result \notin {"ran", "error"} => runs[i] = 0
    BY <2>1 DEF ScheduleInv, Unsettled
  <2>3. receipt[i] = "none" => runs[i] = 0
    BY <1>a, <2>1 DEF RunLeavesReceipt
  <2>4. runs[i] = 0 => \A j \in Items : runs[j] > 0 => RunIsTold(j)
    BY <1>e, <2>1
  <2>5. \/ /\ result \notin {"ran", "error"} /\ journal' = journal /\ DispatchGoTo(d, "releasing")
        \/ /\ result = "not_connected" /\ JournalFailure(d, "not_connected", FALSE, "unconnected")
        \/ /\ result = "error" /\ receipt[i] = "none"
           /\ JournalFailure(d, "executor_failure", TRUE, "unreceipted")
        \/ journal' = journal /\ DispatchGoTo(d, "settle")
    BY <1>3 DEF Continue, EndAt, EndRun
  <2>6. CASE result \notin {"ran", "error"} /\ journal' = journal /\ DispatchGoTo(d, "releasing")
    <3>1. ~Busy(d)'
      BY <1>a, <2>6 DEF DispatchGoTo, Busy
    <3>2. QED
      BY <1>c, <2>2, <2>4, <2>6, <3>1
  <2>7. CASE result = "not_connected" /\ JournalFailure(d, "not_connected", FALSE, "unconnected")
    <3>1. ~Busy(d)'
      BY <1>a, <2>7 DEF JournalFailure, Busy
    <3>2. /\ journal \subseteq journal'
          /\ \A e \in journal' : e \in journal
                                \/ (~e.attempted /\ e.event \notin Final \cup {"pending"})
      BY <2>7 DEF JournalFailure, Journaled, Entry, Final
    <3>3. /\ \A day, platform : /\ AttemptsOf(day, platform)' = AttemptsOf(day, platform)
                                /\ DailyAttempts(day, platform)' = DailyAttempts(day, platform)
          /\ \A j \in Items : RunIsTold(j) => RunIsTold(j)'
      BY <1>a, <3>2, NoAttempt
    <3>4. QED
      BY <1>a, <2>2, <2>4, <2>7, <3>1, <3>2, <3>3 DEF ScheduleInv, Busy
  <2>8. CASE /\ result = "error" /\ receipt[i] = "none"
             /\ JournalFailure(d, "executor_failure", TRUE, "unreceipted")
    <3>1. ~Busy(d)'
      BY <1>a, <2>8 DEF JournalFailure, Busy
    <3>2. journal' = Journaled(Entry(i, "executor_failure", disp[d].at, disp[d].at, TRUE))
      BY <2>8 DEF JournalFailure
    <3>3. /\ \A day \in Nat, platform \in Platforms :
               /\ IsFiniteSet(AttemptsOf(day, platform)')
               /\ DailyAttempts(day, platform)' <= DailyLimit[platform]
          /\ \A j \in Items : RunIsTold(j) => RunIsTold(j)'
          /\ \A e \in journal' : e \in journal \/ (e.item = i /\ e.event = "executor_failure")
      BY <1>a, <2>1, <3>2, OneAttempt
    <3>4. "executor_failure" \notin Final \cup {"pending"}
      BY DEF Final
    <3>5. QED
      BY <1>a, <2>3, <2>4, <2>8, <3>1, <3>3, <3>4 DEF ScheduleInv, Busy
  <2>9. CASE journal' = journal /\ DispatchGoTo(d, "settle")
    <3>1. disp'[d].pc = "settle" /\ disp'[d].item = i /\ disp'[d].at = disp[d].at
      BY <1>a, <2>9 DEF DispatchGoTo
    <3>2. QED
      BY <1>a, <1>b, <2>1, <2>9, <3>1 DEF ScheduleInv, Busy, PlatformOf, DayOf
  <2>10. QED
    BY <2>5, <2>6, <2>7, <2>8, <2>9
<1>4. CASE CompleteItem(d)
  <2> DEFINE i == disp[d].item
             e == Entry(i, receipt[i], NoTime, disp[d].at, TRUE)
  <2>1. /\ Busy(d) /\ i \in Items /\ receipt[i] \in Final \cup {"pending"}
        /\ journal' = Journaled(e)
    BY <1>a, <1>4 DEF CompleteItem, DispatchInv, Busy
  <2>2. ~Busy(d)'
    BY <1>a, <1>4 DEF CompleteItem, Busy
  <2>3. /\ \A day \in Nat, platform \in Platforms :
             /\ IsFiniteSet(AttemptsOf(day, platform)')
             /\ DailyAttempts(day, platform)' <= DailyLimit[platform]
        /\ \A j \in Items : RunIsTold(j) => RunIsTold(j)'
        /\ \A f \in journal' : f \in journal \/ (f.item = i /\ f.event = receipt[i])
    BY <1>a, <2>1, OneAttempt
  <2>4. e.item = i /\ e.event = receipt[i] /\ e.attempted /\ e.day = DayOf(disp[d].at)
    BY DEF Entry
  <2>5. Fresh(i) => e \in journal'
    <3>1. Fresh(i) => ~\E f \in journal : f.item = e.item /\ f.event = e.event
      BY <2>1, <2>4 DEF Fresh
    <3>2. QED
      BY <2>1, <3>1 DEF Journaled
  <2> HIDE DEF e
  <2>6. ASSUME NEW j \in Items, runs[j] > 0
        PROVE  RunIsTold(j)'
    <3>1. CASE RunIsTold(j)
      BY <2>3, <3>1
    <3>2. CASE ~RunIsTold(j)
      <4>1. i = j /\ runAt[j] = disp[d].at /\ Fresh(j)
        BY <2>6, <3>2 DEF ScheduleInv
      <4>2. e \in journal' /\ e.item = j /\ e.attempted /\ e.day = DayOf(runAt[j])
        BY <2>4, <2>5, <4>1
      <4>3. QED
        BY <1>a, <4>2 DEF RunIsTold, DayOf
    <3>3. QED
      BY <3>1, <3>2
  <2>7. ASSUME NEW f \in journal', f.event \in Final \cup {"pending"}
        PROVE  receipt'[f.item] # "none"
    <3>1. receipt[i] # "none"
      BY <2>1 DEF Final
    <3>2. QED
      BY <1>a, <2>3, <2>7, <3>1 DEF ScheduleInv
  <2>8. QED
    BY <1>a, <2>2, <2>3, <2>6, <2>7 DEF ScheduleInv, Busy
<1>5. QED
  BY <1>1, <1>2, <1>3, <1>4 DEF DispatcherMove

LEMMA ScheduleStep ==
  ASSUME PromiseInv, [AutoApplyNext]_vars, "crash" \notin Operations,
         NEW d, Dispatchers = {d}, ScheduleInv(d)
  PROVE  ScheduleInv(d)'
<1>a. d \in Dispatchers /\ d \in Callers /\ ExecutorInv /\ call \in [Callers -> CallType]
  BY AutoApplyAssumption DEF PromiseInv, AutoInv, BatchInv, ExecutorInv, ExecutorTypeOK
<1>b. UNCHANGED autoVars => UNCHANGED <<journal, disp>>
  BY DEF autoVars
<1>1. CASE DispatcherMove(d)
  BY <1>1, ScheduleOnDispatch
<1>2. CASE DispatcherCall(d)
  <2>1. CallMove(d) /\ UNCHANGED <<journal, disp>>
    BY <1>2, <1>b DEF DispatcherCall, CallMove
  <2>2. QED
    BY <2>1, ScheduleOnCall
<1>3. CASE \E c \in Callers \ Dispatchers : DirectCall(c) /\ UNCHANGED autoVars
  <2>1. PICK c \in Callers \ Dispatchers : DirectCall(c) /\ UNCHANGED autoVars
    BY <1>3
  <2>2. c # d /\ c \in Callers
    BY <1>a
  <2>3. CASE CallMove(c)
    <3>1. call'[d] = call[d]
      BY <1>a, <2>2, <2>3, CallMoveFrame DEF ExecutorInv
    <3>2. QED
      BY <1>b, <2>1, <3>1, ScheduleOnCall
  <2>4. CASE (\E r \in Requests : PostBatch(c, r)) \/ Respond(c)
    <3>1. call'[d] = call[d]
      BY <1>a, <2>2, <2>4 DEF PostBatch, Begin, Respond
    <3>2. QED
      BY <1>b, <2>1, <3>1, ScheduleOnCall
  <2>5. QED
    BY <2>1, <2>3, <2>4 DEF DirectCall, ExecutorStep, CallMove
<1>4. CASE (SwitchStep \/ Tick) /\ UNCHANGED autoVars
  <2>1. call' = call
    BY <1>4 DEF SwitchStep, Tick, SetOnBehalf, ToggleKillSwitch, MoveCard
  <2>2. QED
    BY <1>4, <1>b, <2>1, ScheduleOnCall
<1>5. CASE CandidateStep
  <2>1. UNCHANGED <<receipt, history, disp, call>>
    BY <1>5, CandidateFrame DEF history
  <2>2. CASE journal' = journal
    BY <1>a, <2>1, <2>2, ScheduleOnRemoval
  <2>3. CASE CandidateRows
    <3>1. journal' = journal \/ \E gone \in SUBSET Items : RemoveRows(gone)
      BY <2>3 DEF CandidateRows, AddItem, EditLetter
    <3>2. QED
      BY <1>a, <2>1, <3>1, ScheduleOnRemoval
  <2>4. CASE \E e \in Dispatchers : Continue(e) \/ CompleteItem(e)
    BY <2>4, <1>1 DEF DispatcherMove
  <2>5. QED
    BY <2>2, <2>3, <2>4, QueueCases
<1>6. CASE AutoCrash
  BY <1>6 DEF AutoCrash
<1>7. CASE UNCHANGED vars
  <2>1. call' = call /\ UNCHANGED <<journal, disp>>
    BY <1>7 DEF vars, autoVars, executorVars
  <2>2. QED
    BY <2>1, ScheduleOnCall
<1>8. QED
  BY <1>1, <1>2, <1>3, <1>4, <1>5, <1>6, <1>7, AutoCases

LEMMA ScheduleInit ==
  ASSUME AutoApplyInit, NEW d \in Dispatchers
  PROVE  ScheduleInv(d)
<1>1. /\ journal = {} /\ disp[d].pc = "idle"
      /\ \A i \in Items : runs[i] = 0
  BY AutoApplyAssumption DEF AutoApplyInit, ExecutorInit, IdleDispatch
<1>2. \A day, platform : AttemptsOf(day, platform) = {}
  BY <1>1 DEF AttemptsOf
<1>3. \A day, platform : DailyAttempts(day, platform) = 0
  BY <1>2, AttemptsAreCounted, FS_EmptySet
<1>4. \A day \in Nat, platform \in Platforms :
        /\ IsFiniteSet(AttemptsOf(day, platform))
        /\ DailyAttempts(day, platform) <= DailyLimit[platform]
  <2>1. IsFiniteSet({})
    BY FS_EmptySet
  <2>2. QED
    BY <1>2, <1>3, <2>1, AttemptsAreCounted
<1>5. QED
  BY <1>1, <1>4 DEF ScheduleInv, Busy

\* The runs of a day are at most its entries, and one more while the dispatcher
\* keeps a slot for it.
LEMMA ScheduleInvMeans ==
  ASSUME PromiseInv, NEW d \in Dispatchers, ScheduleInv(d)
  PROVE  RunsWithinSchedule
<1> SUFFICES ASSUME NEW day \in Days, NEW platform \in Platforms
             PROVE  Cardinality({i \in Items : /\ runs[i] > 0 /\ DayOf(runAt[i]) = day
                                               /\ PlatformOf(i) = platform})
                      <= DailyLimit[platform]
  BY DEF RunsWithinSchedule
<1> DEFINE Ran == {i \in Items : /\ runs[i] > 0 /\ DayOf(runAt[i]) = day
                                 /\ PlatformOf(i) = platform}
           Entries == AttemptsOf(day, platform)
           Known == {e.item : e \in Entries}
           item == disp[d].item
<1>1. day \in Nat
  BY DayOfType DEF Days
<1>2. /\ IsFiniteSet(Entries) /\ Cardinality(Entries) \in Nat
      /\ Cardinality(Entries) <= DailyLimit[platform] /\ DailyLimit[platform] \in Nat
  BY <1>1, FS_CardinalityType, AttemptsAreCounted DEF ScheduleInv
<1>3. IsFiniteSet(Known) /\ Cardinality(Known) <= Cardinality(Entries) /\ Cardinality(Known) \in Nat
  <2> DEFINE f == [e \in Entries |-> e.item]
  <2>1. f \in Surjection(Entries, Known)
    BY DEF Surjection
  <2>2. IsFiniteSet(Known) /\ Cardinality(Known) <= Cardinality(Entries)
    <3> HIDE DEF f, Known, Entries
    <3>1. QED
      BY <1>2, <2>1, FS_Surjection
  <2>3. QED
    BY <2>2, FS_CardinalityType
<1>4. \A i \in Ran : i \in Known \/ (i = item /\ Busy(d) /\ runAt[i] = disp[d].at)
  <2> SUFFICES ASSUME NEW i \in Ran, RunIsTold(i) PROVE i \in Known
    BY DEF ScheduleInv
  <2>1. PICK e \in journal : e.item = i /\ e.attempted /\ e.day = DayOf(runAt[i])
    BY DEF RunIsTold
  <2>2. e \in Entries /\ e.item = i
    BY <2>1 DEF AttemptsOf
  <2>3. QED
    BY <2>2
<1>5. CASE Ran \subseteq Known
  <2> HIDE DEF Ran, Known, Entries
  <2>1. Cardinality(Ran) <= Cardinality(Known) /\ IsFiniteSet(Ran)
    BY <1>3, <1>5, FS_Subset
  <2>2. Cardinality(Ran) \in Nat
    BY <2>1, FS_CardinalityType
  <2>3. Cardinality(Ran) <= DailyLimit[platform]
    BY <1>2, <1>3, <2>1, <2>2
  <2>4. QED
    BY <2>3 DEF Ran
<1>6. CASE ~(Ran \subseteq Known)
  <2>1. /\ item \in Ran /\ Busy(d) /\ runAt[item] = disp[d].at
        /\ Ran \subseteq Known \cup {item}
    BY <1>4, <1>6
  <2>2. DayOf(disp[d].at) = day /\ PlatformOf(item) = platform
    BY <2>1
  <2>3. Cardinality(Entries) < DailyLimit[platform]
    BY <2>1, <2>2, AttemptsAreCounted DEF ScheduleInv
  <2> HIDE DEF Ran, Known, Entries, item
  <2>4. /\ IsFiniteSet(Known \cup {item})
        /\ Cardinality(Known \cup {item}) = Cardinality(Known)
             \/ Cardinality(Known \cup {item}) = Cardinality(Known) + 1
    BY <1>3, FS_AddElement
  <2>5. Cardinality(Ran) <= Cardinality(Known \cup {item}) /\ IsFiniteSet(Ran)
    BY <2>1, <2>4, FS_Subset
  <2>6. Cardinality(Ran) \in Nat
    BY <2>5, FS_CardinalityType
  <2>7. Cardinality(Ran) <= DailyLimit[platform]
    BY <1>2, <1>3, <2>3, <2>4, <2>5, <2>6
  <2>8. QED
    BY <2>7 DEF Ran
<1>7. QED
  BY <1>5, <1>6

\* One dispatcher that is not cut off starts no more applications to a platform
\* in a day than the schedule allows, whatever the candidate removes, edits,
\* approves or stops while they are being sent.
THEOREM ScheduleHolds ==
  ASSUME RequestsApart, "crash" \notin Operations, NEW d, Dispatchers = {d}
  PROVE  AutoApplySpec => []RunsWithinSchedule
<1> DEFINE Inv == PromiseInv /\ ScheduleInv(d)
<1>1. AutoApplyInit => Inv
  BY PromiseInvInit, ScheduleInit
<1>2. Inv /\ [AutoApplyNext]_vars => Inv'
  BY PromiseInvStep, ScheduleStep
<1>3. Inv => RunsWithinSchedule
  BY ScheduleInvMeans
<1> HIDE DEF Inv
<1>4. QED
  BY <1>1, <1>2, <1>3, PTL DEF AutoApplySpec

=============================================================================
