---------------------------- MODULE AutoApplyProofs ----------------------------
(***************************************************************************)
(* Proofs about AutoApply, for any number of dispatchers, items and direct  *)
(* calls, any rules, windows and limits.  Each step of auto-apply is a step *)
(* of the executor in the sense of ExecutorMove, so that what is proved of  *)
(* the executor holds in it too; the invariants of the queue, the journal   *)
(* and the runtime row come on top.                                         *)
(***************************************************************************)
EXTENDS AutoApply, ExecutorBatchProofs

-----------------------------------------------------------------------------
(* The dispatchers on the event loop.                                       *)

\* The program counters at which a dispatcher owns the event loop.
DispatchHolding == {"deciding", "settle", "runtime"}

\* A dispatcher is either inside executeBatch, with a batch of its item alone,
\* or its call is idle; outside it owns the loop while it reads and writes.
DispatchInv ==
  \A d \in Dispatchers :
    /\ disp[d].pc \in DispatchHolding => loop = d
    /\ call[d].pc = "idle" <=> disp[d].pc # "calling"
    /\ disp[d].pc \in {"calling", "settle", "runtime"} => disp[d].item \in Items
    /\ disp[d].pc = "calling" =>
         call[d].batch = disp[d].item /\ call[d].acts = <<disp[d].item>>
    /\ disp[d].pc = "settle" => receipt[disp[d].item] # "none"

\* While a dispatcher owns the loop no call moves.
LEMMA DispatchHolds ==
  ASSUME ExecutorInv, DispatchInv, NEW d \in Dispatchers, disp[d].pc \in DispatchHolding
  PROVE  /\ Quietly /\ loop = d /\ loop # Free
         /\ \A c \in Callers : ~CallMove(c)
<1>a. /\ d \in Callers /\ Free \notin Callers
      /\ HoldingPcs = {"receipts", "check", "reserved", "record", "advance", "stopping"}
  BY ConstantsAssumption, AutoApplyAssumption DEF HoldingPcs
<1>1. loop = d /\ call[d].pc = "idle"
  BY DEF DispatchInv, DispatchHolding
<1>2. Quietly
  BY <1>a, <1>1 DEF Quietly, ExecutorInv, HoldsLoop
<1>3. \A c \in Callers : ~CallMove(c)
  <2> SUFFICES ASSUME NEW c \in Callers, CallMove(c) PROVE FALSE
    OBVIOUS
  <2>1. loop = Free \/ call[c].pc \in HoldingPcs
    BY <1>a DEF CallMove, ServerStep, CheckBatchCapacity, NotConnected, CreateBatch,
           CreatePendingReceipt, CheckAction, StartRunner, RunnerAnswers, RecordOutcome,
           AdvanceApplication, AfterAction, PauseEnds, StopAction, CloseBatch
  <2>2. QED
    BY <1>a, <1>1, <1>2, <2>1 DEF Quietly
<1>4. QED
  BY <1>a, <1>1, <1>2, <1>3

\* With the loop free nobody is inside a stretch.
LEMMA FreeIsQuiet == HoldsLoop /\ loop = Free => Quietly
  BY ConstantsAssumption DEF HoldsLoop, Quietly

\* The steps of AutoApplyNext, those of calls gathered.
DispatcherCall(d) ==
  (ServerStep(d, CanExecute(d)) \/ NotConnected(d) \/ \E outcome \in Outcomes : RunnerAnswers(d, outcome))
    /\ UNCHANGED autoVars

DispatcherMove(d) ==
  \/ Claim(d) \/ DecideGate(d) \/ DecideItem(d) \/ Continue(d)
  \/ CompleteItem(d) \/ RecordRuntime(d) \/ Release(d)

LEMMA AutoCases ==
  ASSUME [AutoApplyNext]_vars
  PROVE  \/ \E d \in Dispatchers : DispatcherMove(d) \/ DispatcherCall(d)
         \/ \E c \in Callers \ Dispatchers : DirectCall(c) /\ UNCHANGED autoVars
         \/ (SwitchStep \/ Tick) /\ UNCHANGED autoVars
         \/ CandidateStep
         \/ AutoCrash
         \/ UNCHANGED vars
  BY DEF AutoApplyNext, DispatchStep, Answer, DispatcherMove, DispatcherCall

\* What the candidate does leaves the executor alone but for its kill switches,
\* and waits for the loop.
LEMMA CandidateFrame ==
  ASSUME CandidateStep
  PROVE  /\ loop = Free /\ UNCHANGED <<disp, call, loop>>
         /\ UNCHANGED <<clock, onBehalf, batch, receipt, used, lastBoost, card, inFlight, history>>
         /\ kill' \in {kill, kill \cup {"candidate"}, kill \ {"candidate"}}
<1> USE DEF Performs, executorVars, tables
<1>1. CASE (\E mode \in EnableModes : Enable(mode)) \/ Disable \/ (\E rules \in RuleSets : SaveRules(rules))
  BY <1>1 DEF Enable, Disable, SaveRules
<1>2. CASE (\E key \in ConsentKeys : RevokeConsent(key)) \/ SaveSchedule
  BY <1>2 DEF RevokeConsent, SaveSchedule
<1>3. CASE Pause \/ Resume \/ EmergencyPause
  BY <1>3 DEF Pause, Resume, EmergencyPause
<1>4. CASE \E i \in Items, version \in Letters : AddItem(i, version) \/ EditLetter(i, version)
  BY <1>4 DEF AddItem, EditLetter
<1>5. CASE \E i \in Items : Approve(i) \/ AskConsultant(i) \/ RemoveItem(i)
  BY <1>5 DEF Approve, AskConsultant, RemoveItem
<1>6. CASE \E company \in Companies :
             StopCompany(company) \/ RemoveStopCompany(company) \/ ImportRejected(company)
  BY <1>6 DEF StopCompany, RemoveStopCompany, ImportRejected
<1>7. QED
  BY <1>1, <1>2, <1>3, <1>4, <1>5, <1>6 DEF CandidateStep

\* A step of a dispatcher outside executeBatch begins a call of its own, ends
\* one, or leaves the executor alone.
LEMMA DispatcherMoves ==
  ASSUME ExecutorInv, AutoApplyTypeOK, DispatchInv, NEW d \in Dispatchers, DispatcherMove(d)
  PROVE  /\ UNCHANGED <<clock, tables, inFlight, history>>
         /\ loop' \in Callers \cup {Free}
         /\ Quietly
         /\ BeginMove(d) \/ ForgetMove(d) \/ call' = call
<1>a. d \in Callers /\ loop \in Callers \cup {Free}
  BY AutoApplyAssumption DEF ExecutorInv, ExecutorTypeOK
<1>b. loop = Free \/ disp[d].pc \in DispatchHolding => Quietly
  BY FreeIsQuiet, DispatchHolds DEF ExecutorInv
<1>1. CASE Claim(d)
  BY <1>1, <1>a, <1>b DEF Claim, tables, history
<1>2. CASE DecideGate(d)
  BY <1>2, <1>a, <1>b DEF DecideGate, EndAt, EndRun, DispatchHolding, tables, history
<1>3. CASE DecideItem(d)
  <2>1. UNCHANGED <<clock, tables, inFlight, history>> /\ loop' \in Callers \cup {Free} /\ Quietly
    BY <1>3, <1>a, <1>b DEF DecideItem, EndAt, EndRun, DispatchHolding
  <2>2. call' = call \/ \E i \in Items : Begin(d, i, <<i>>, disp[d].at)
    BY <1>3 DEF DecideItem
  <2>3. \A i \in Items : i \in Batches /\ <<i>> \in ActSeqs
    BY AutoApplyAssumption DEF ActSeqs
  <2>4. disp[d].at \in Times
    BY DEF AutoApplyTypeOK
  <2>5. QED
    BY <2>1, <2>2, <2>3, <2>4 DEF BeginMove
<1>4. CASE Continue(d)
  <2>1. /\ UNCHANGED <<clock, tables, inFlight, history>>
        /\ loop = Free /\ call[d].pc = "done" /\ call' = [call EXCEPT ![d] = IdleCall]
        /\ loop' \in {Free, d}
    BY <1>4 DEF Continue, EndAt, EndRun, JournalFailure
  <2>2. QED
    BY <2>1, <1>a, <1>b DEF ForgetMove
<1>5. CASE CompleteItem(d)
  BY <1>5, <1>a, <1>b DEF CompleteItem, executorVars, DispatchHolding
<1>6. CASE RecordRuntime(d)
  BY <1>6, <1>a, <1>b DEF RecordRuntime, EndRun, DispatchHolding, tables, history
<1>7. CASE Release(d)
  BY <1>7, <1>a, <1>b DEF Release, executorVars
<1>8. QED
  BY <1>1, <1>2, <1>3, <1>4, <1>5, <1>6, <1>7 DEF DispatcherMove

\* Auto-apply calls the executor as ExecutorMove allows.
LEMMA AutoMoves ==
  ASSUME ExecutorInv, AutoApplyTypeOK, DispatchInv, [AutoApplyNext]_vars
  PROVE  ExecutorMove
<1>a. /\ clock \in Times /\ onBehalf \in BOOLEAN /\ kill \subseteq Scopes
      /\ loop \in Callers \cup {Free} /\ card \in [Tracked -> {"saved", "applied", "other"}]
  BY DEF ExecutorInv, ExecutorTypeOK
<1>1. CASE \E d \in Dispatchers : DispatcherMove(d)
  <2>1. PICK d \in Dispatchers : DispatcherMove(d)
    BY <1>1
  <2>2. d \in Callers
    BY AutoApplyAssumption
  <2>3. CASE call' = call
    BY <1>a, <2>1, <2>3, DispatcherMoves DEF ExecutorMove, OutsideMove, tables
  <2>4. QED
    BY <2>1, <2>2, <2>3, DispatcherMoves DEF ExecutorMove
<1>2. CASE \E d \in Dispatchers : DispatcherCall(d)
  BY <1>2, AutoApplyAssumption DEF DispatcherCall, ExecutorMove, CallMove
<1>3. CASE (\E c \in Callers \ Dispatchers : DirectCall(c)) \/ SwitchStep \/ Tick
  <2>1. CASE \E c \in Callers \ Dispatchers : DirectCall(c)
    BY <2>1, NextMoves DEF DirectCall, ExecutorNext, ExecutorInv
  <2>2. CASE Tick
    BY <2>2, NextMoves DEF ExecutorNext, ExecutorInv
  <2>3. CASE SwitchStep
    <3>1. CASE \E granted \in BOOLEAN : SetOnBehalf(granted)
      BY <3>1, NextMoves DEF ExecutorNext, ExecutorInv
    <3>2. CASE \E scope \in UserScopes, active \in BOOLEAN : ToggleKillSwitch(scope, active)
      BY <3>2, NextMoves DEF ExecutorNext, ExecutorInv
    <3>3. CASE \E i \in Items : MoveCard(i)
      BY <3>3, NextMoves, AutoApplyAssumption DEF ExecutorNext, ExecutorInv
    <3>4. QED
      BY <2>3, <3>1, <3>2, <3>3 DEF SwitchStep
  <2>4. QED
    BY <1>3, <2>1, <2>2, <2>3
<1>4. CASE CandidateStep
  <2>1. Quietly /\ kill' \subseteq Scopes
    BY <1>4, <1>a, CandidateFrame, FreeIsQuiet DEF ExecutorInv, Scopes
  <2>2. QED
    BY <1>4, <1>a, <2>1, CandidateFrame DEF ExecutorMove, OutsideMove
<1>5. CASE AutoCrash
  BY <1>5 DEF AutoCrash, ExecutorMove
<1>6. CASE UNCHANGED vars
  BY <1>6, NextMoves DEF vars, ExecutorInv
<1>7. QED
  BY <1>1, <1>2, <1>3, <1>4, <1>5, <1>6, AutoCases

-----------------------------------------------------------------------------
(* Types.                                                                   *)

\* A set of numbers that is not empty has a least one.
LEMMA LeastNumber ==
  ASSUME NEW T \in SUBSET Nat, T # {}
  PROVE  \E x \in T : \A y \in T : x <= y
<1>1. PICK x \in T : \A y \in T : <<y, x>> \notin OpToRel(<, Nat)
  BY WFMin, NatLessThanWellFounded, Zenon
<1>2. ASSUME NEW y \in T, y < x PROVE FALSE
  <2>1. <<y, x>> \in OpToRel(<, Nat)
    BY <1>2 DEF OpToRel
  <2>2. QED
    BY <1>1, <2>1, Zenon
<1>3. QED
  BY <1>2

\* The next time to send at, and the next midnight, are times.
LEMMA SendTimes ==
  ASSUME NEW t \in Times
  PROVE  /\ t \in Nat /\ DayOf(t) \in Nat /\ ResetAt(t) \in Nat
         /\ \A platform \in Platforms, pause \in Pauses : NextSend(t, platform, pause) \in Nat
         /\ \A platform \in Platforms, pause \in Pauses :
              NextSend(t + BreakTime, platform, pause) \in Nat
<1>a. /\ MaxTime \in Nat /\ DayLength \in Nat /\ BreakTime \in Nat
      /\ Pauses \subseteq Nat /\ Window \in [Platforms -> SUBSET Nat]
  BY ConstantsAssumption, AutoApplyAssumption
<1>1. t \in Nat /\ DayOf(t) \in Nat
  BY DayOfType
<1>2. ResetAt(t) \in Nat
  <2>1. \A x, y \in Nat : x * y \in Nat
    OBVIOUS
  <2>2. DayOf(t) + 1 \in Nat
    BY <1>1
  <2>3. QED
    BY <1>a, <2>1, <2>2 DEF ResetAt
<1>3. ASSUME NEW u \in Nat, NEW platform \in Platforms, NEW pause \in Pauses
      PROVE  NextSend(u, platform, pause) \in Nat
  <2> DEFINE open == {v \in Window[platform] : v >= u + pause}
  <2>1. open \in SUBSET Nat
    BY <1>a
  <2>2. CASE open = {}
    BY <1>a, <2>2 DEF NextSend
  <2>3. CASE open # {}
    <3>1. \E v \in open : \A w \in open : v <= w
      BY <2>1, <2>3, LeastNumber
    <3>2. (CHOOSE v \in open : \A w \in open : v <= w) \in open
      BY <3>1
    <3>3. NextSend(u, platform, pause) = CHOOSE v \in open : \A w \in open : v <= w
      BY <2>3 DEF NextSend
    <3> HIDE DEF open
    <3>4. QED
      BY <2>1, <3>2, <3>3
  <2>4. QED
    BY <2>2, <2>3
<1>4. QED
  BY <1>a, <1>1, <1>2, <1>3

QueueTypeOK ==
  /\ rows \in Seq(Items)
  /\ queue \in [Items -> OpenStatus \cup ClosedStatus \cup {"absent"}]
  /\ letter \in [Items -> Letters]
  /\ approval \in [Items -> {"none", "candidate", "automatic"}]
  /\ touched \in [Items -> Times]

LEMMA MoveRowsType ==
  ASSUME QueueTypeOK, NEW moved, NEW status \in OpenStatus \cup ClosedStatus,
         NEW t \in Times, MoveRows(moved, status, t)
  PROVE  QueueTypeOK'
<1>1. 0 \in Letters
  BY AutoApplyAssumption DEF Letters
<1>2. \A i \in Items : (CASE status = "approved" -> "candidate"
                          [] status = "pending_approval" -> "none"
                          [] OTHER -> approval[i]) \in {"none", "candidate", "automatic"}
  BY DEF QueueTypeOK
<1>3. approval' \in [Items -> {"none", "candidate", "automatic"}]
  BY <1>2 DEF MoveRows, QueueTypeOK
<1>4. QED
  BY <1>1, <1>3 DEF MoveRows, QueueTypeOK

LEMMA AutoInitType == AutoApplyInit => AutoApplyTypeOK
<1> SUFFICES ASSUME AutoApplyInit PROVE AutoApplyTypeOK
  OBVIOUS
<1>a. MaxTime \in Nat /\ MaxLetter \in Nat /\ BreakAfter \in Nat \ {0} /\ 0 \in Times /\ 0 \in Letters
  BY ConstantsAssumption, AutoApplyAssumption DEF Times, Letters
<1>1. IdleDispatch \in [pc : DispatchPcs, item : Items \cup {"none"}, at : Times,
                        letter : Letters, ending : Endings \cup {"none"}]
  BY <1>a DEF IdleDispatch, DispatchPcs
<1>2. settings \in [enabled : BOOLEAN, mode : Modes,
                    pausedUntil : Nat \cup {NoTime}, rules : RuleSets]
  BY DEF AutoApplyInit, Modes
<1>3. runtime \in [nextSendAt : Nat \cup {NoTime}, errors : Nat, sinceBreak : 0..(BreakAfter - 1),
                   emergency : BOOLEAN, leaseToken : Dispatchers \cup {"none"},
                   leaseUntil : Nat \cup {NoTime}]
  BY <1>a DEF AutoApplyInit
<1>4. QED
  BY <1>a, <1>1, <1>2, <1>3 DEF AutoApplyInit, AutoApplyTypeOK

RuntimeType == [nextSendAt : Nat \cup {NoTime}, errors : Nat, sinceBreak : 0..(BreakAfter - 1),
                emergency : BOOLEAN, leaseToken : Dispatchers \cup {"none"},
                leaseUntil : Nat \cup {NoTime}]
DispatchType == [pc : DispatchPcs, item : Items \cup {"none"}, at : Times,
                 letter : Letters, ending : Endings \cup {"none"}]
SettingsType == [enabled : BOOLEAN, mode : Modes,
                 pausedUntil : Nat \cup {NoTime}, rules : RuleSets]

TypedParts ==
  /\ QueueTypeOK /\ settings \in SettingsType /\ consents \subseteq ConsentKeys
  /\ stops \subseteq Companies /\ runtime \in RuntimeType
  /\ \A e \in journal : e \in EntryType
  /\ disp \in [Dispatchers -> DispatchType]

LEMMA TypeParts == AutoApplyTypeOK <=> TypedParts
  BY DEF AutoApplyTypeOK, TypedParts, QueueTypeOK, SettingsType, RuntimeType, DispatchType

\* What the candidate's operations write to the settings, the runtime row and the
\* journal has its type.
LEMMA CandidateTypes ==
  ASSUME ExecutorInv, TypedParts, CandidateStep
  PROVE  TypedParts'
<1>a. /\ QueueTypeOK /\ settings \in SettingsType /\ consents \subseteq ConsentKeys
      /\ stops \subseteq Companies /\ runtime \in RuntimeType
      /\ \A e \in journal : e \in EntryType
      /\ disp \in [Dispatchers -> DispatchType]
  BY DEF TypedParts
<1>b. /\ clock \in Times /\ clock \in Nat /\ PauseTime \in Nat /\ NoTime \notin Nat
      /\ DayOf(clock) \in Nat
  BY DayOfType, ConstantsAssumption, AutoApplyAssumption DEF ExecutorInv, ExecutorTypeOK
<1>c. MakeReady \in RuntimeType
  BY <1>a, <1>b DEF MakeReady, RuntimeType
<1>d. ASSUME NEW new \in SettingsType, SaveSettings(new)
      PROVE  settings' \in SettingsType /\ QueueTypeOK'
  <2>1. QueueTypeOK'
    <3>1. CASE UNCHANGED queueVars
      BY <1>a, <3>1 DEF queueVars, QueueTypeOK
    <3>2. CASE ReturnApproved
      BY <1>a, <1>b, <3>2, MoveRowsType DEF ReturnApproved, OpenStatus
    <3>3. QED
      BY <1>d, <3>1, <3>2 DEF SaveSettings
  <2>2. QED
    BY <1>d, <2>1 DEF SaveSettings
<1>e. ASSUME NEW gone \in SUBSET Items, RemoveRows(gone)
      PROVE  QueueTypeOK' /\ \A e \in journal' : e \in EntryType
  <2>1. QueueTypeOK'
    BY <1>a, <1>b, <1>e, MoveRowsType DEF RemoveRows, ClosedStatus
  <2>2. \A i \in gone : Entry(i, "removed", NoTime, clock, FALSE) \in EntryType
    BY <1>b DEF Entry, EntryType
  <2>3. QED
    BY <1>a, <1>e, <2>1, <2>2 DEF RemoveRows
<1> USE DEF executorVars, queueVars, userTables
<1>1. CASE \E mode \in EnableModes : Enable(mode)
  <2>1. PICK mode \in EnableModes : Enable(mode)
    BY <1>1
  <2>2. [settings EXCEPT !.enabled = TRUE, !.mode = mode] \in SettingsType
    BY <1>a, AutoApplyAssumption DEF SettingsType
  <2>3. settings' \in SettingsType /\ QueueTypeOK'
    BY <2>1, <2>2, <1>d DEF Enable
  <2>4. consents' \subseteq ConsentKeys
    BY <1>a, <2>1 DEF Enable, ConsentKeys, RequiredConsents
  <2>5. QED
    BY <1>a, <1>c, <2>1, <2>3, <2>4 DEF TypedParts, Enable
<1>2. CASE Disable \/ (\E rules \in RuleSets : SaveRules(rules)) \/ \E key \in ConsentKeys : RevokeConsent(key)
  <2>1. /\ [settings EXCEPT !.enabled = FALSE] \in SettingsType
        /\ \A rules \in RuleSets : [settings EXCEPT !.rules = rules] \in SettingsType
    BY <1>a DEF SettingsType
  <2>2. settings' \in SettingsType /\ QueueTypeOK'
    BY <1>2, <2>1, <1>d DEF Disable, SaveRules, RevokeConsent
  <2>3. QED
    BY <1>2, <1>a, <2>2 DEF TypedParts, Disable, SaveRules, RevokeConsent
<1>3. CASE Pause \/ Resume
  <2>1. /\ [settings EXCEPT !.pausedUntil = clock + PauseTime] \in SettingsType
        /\ [settings EXCEPT !.pausedUntil = NoTime] \in SettingsType
    BY <1>a, <1>b DEF SettingsType
  <2>2. settings' \in SettingsType /\ QueueTypeOK'
    BY <1>3, <2>1, <1>d DEF Pause, Resume
  <2>3. /\ [runtime EXCEPT !.nextSendAt = clock + PauseTime] \in RuntimeType
        /\ [runtime EXCEPT !.emergency = FALSE, !.nextSendAt = clock, !.errors = 0] \in RuntimeType
    <3>1. clock + PauseTime \in Nat /\ FALSE \in BOOLEAN
      BY <1>b
    <3> DEFINE later == clock + PauseTime
    <3> HIDE DEF later
    <3>2. [runtime EXCEPT !.nextSendAt = later] \in RuntimeType
      BY <1>a, <3>1 DEF RuntimeType, later
    <3>3. [runtime EXCEPT !.emergency = FALSE, !.nextSendAt = clock, !.errors = 0] \in RuntimeType
      BY <1>a, <1>b, <3>1 DEF RuntimeType
    <3>4. QED
      BY <3>2, <3>3 DEF later
  <2>4. QED
    BY <1>3, <1>a, <2>2, <2>3 DEF TypedParts, Pause, Resume, SetNextSend
<1>4. CASE SaveSchedule \/ EmergencyPause
  <2>1. [runtime EXCEPT !.emergency = TRUE, !.nextSendAt = NoTime] \in RuntimeType
    BY <1>a DEF RuntimeType
  <2>2. QED
    BY <1>4, <1>a, <1>c, <2>1 DEF TypedParts, SaveSchedule, EmergencyPause, QueueTypeOK
<1>5. CASE \E i \in Items, version \in Letters : AddItem(i, version) \/ EditLetter(i, version)
  <2>1. PICK i \in Items, version \in Letters : AddItem(i, version) \/ EditLetter(i, version)
    BY <1>5
  <2>2. ASSUME AddItem(i, version) PROVE QueueTypeOK'
    <3>1. rows' \in Seq(Items)
      BY <1>a, <2>2 DEF AddItem, QueueTypeOK
    <3>2. queue' \in [Items -> OpenStatus \cup ClosedStatus \cup {"absent"}]
      BY <1>a, <2>2 DEF AddItem, QueueTypeOK, OpenStatus
    <3>3. approval' \in [Items -> {"none", "candidate", "automatic"}]
      BY <1>a, <2>2 DEF AddItem, QueueTypeOK
    <3>4. letter' \in [Items -> Letters] /\ touched' \in [Items -> Times]
      BY <1>a, <1>b, <2>2 DEF AddItem, QueueTypeOK
    <3>5. QED
      BY <3>1, <3>2, <3>3, <3>4 DEF QueueTypeOK
  <2>3. ASSUME EditLetter(i, version) PROVE QueueTypeOK'
    BY <1>a, <1>b, <2>3 DEF EditLetter, QueueTypeOK, OpenStatus
  <2>4. QueueTypeOK'
    BY <2>1, <2>2, <2>3
  <2>5. QED
    BY <1>5, <1>a, <2>4 DEF TypedParts, AddItem, EditLetter
<1>6. CASE \E i \in Items : Approve(i) \/ AskConsultant(i)
  <2>1. QueueTypeOK'
    BY <1>6, <1>a, <1>b, MoveRowsType DEF Approve, AskConsultant, OpenStatus, ClosedStatus
  <2>2. QED
    BY <1>6, <1>a, <2>1 DEF TypedParts, Approve, AskConsultant
<1>7. CASE \E i \in Items : RemoveItem(i)
  BY <1>7, <1>a, <1>e DEF TypedParts, RemoveItem
<1>8. CASE \E company \in Companies : StopCompany(company)
  <2>1. PICK company \in Companies : StopCompany(company)
    BY <1>8
  <2>2. QueueTypeOK' /\ \A e \in journal' : e \in EntryType
    BY <2>1, <1>e DEF StopCompany
  <2>3. QED
    BY <1>a, <2>1, <2>2 DEF TypedParts, StopCompany
<1>9. CASE \E company \in Companies : RemoveStopCompany(company) \/ ImportRejected(company)
  BY <1>9, <1>a DEF TypedParts, RemoveStopCompany, ImportRejected, QueueTypeOK
<1>10. QED
  BY <1>1, <1>2, <1>3, <1>4, <1>5, <1>6, <1>7, <1>8, <1>9 DEF CandidateStep

\* So has what a dispatcher writes.
LEMMA DispatcherTypes ==
  ASSUME ExecutorInv, TypedParts, DispatchInv, NEW d \in Dispatchers, DispatcherMove(d)
  PROVE  TypedParts'
<1>a. /\ QueueTypeOK /\ settings \in SettingsType /\ consents \subseteq ConsentKeys
      /\ stops \subseteq Companies /\ runtime \in RuntimeType
      /\ \A e \in journal : e \in EntryType
      /\ disp \in [Dispatchers -> DispatchType]
  BY DEF TypedParts
<1>b. clock \in Times /\ clock \in Nat /\ LeaseTime \in Nat /\ NoTime \notin Nat
  BY DayOfType, ConstantsAssumption, AutoApplyAssumption DEF ExecutorInv, ExecutorTypeOK
<1>c. /\ disp[d] \in DispatchType /\ disp[d].at \in Times /\ disp[d].at \in Nat
      /\ DayOf(disp[d].at) \in Nat /\ ResetAt(disp[d].at) \in Nat
  BY <1>a, SendTimes DEF DispatchType
<1>d. \A i \in Items : PlatformOf(i) \in Platforms
  BY DEF PlatformOf, Platforms
<1>e1. ASSUME NEW pc \in DispatchPcs
       PROVE  [disp EXCEPT ![d].pc = pc] \in [Dispatchers -> DispatchType]
  <2>1. [disp[d] EXCEPT !.pc = pc] \in DispatchType
    BY <1>c DEF DispatchType
  <2>2. QED
    BY <1>a, <2>1
<1>e2. ASSUME NEW pc \in DispatchPcs, NEW item \in Items
       PROVE  [disp EXCEPT ![d].pc = pc, ![d].item = item] \in [Dispatchers -> DispatchType]
  <2>1. [disp[d] EXCEPT !.pc = pc, !.item = item] \in DispatchType
    BY <1>c DEF DispatchType
  <2>2. [disp EXCEPT ![d].pc = pc, ![d].item = item]
          = [disp EXCEPT ![d] = [disp[d] EXCEPT !.pc = pc, !.item = item]]
    OBVIOUS
  <2>3. QED
    BY <1>a, <2>1, <2>2
<1>e3. ASSUME NEW pc \in DispatchPcs, NEW item \in Items, NEW version \in Letters
       PROVE  [disp EXCEPT ![d].pc = pc, ![d].item = item, ![d].letter = version]
                \in [Dispatchers -> DispatchType]
  <2>1. [disp[d] EXCEPT !.pc = pc, !.item = item, !.letter = version] \in DispatchType
    BY <1>c DEF DispatchType
  <2>2. [disp EXCEPT ![d].pc = pc, ![d].item = item, ![d].letter = version]
          = [disp EXCEPT ![d] = [disp[d] EXCEPT !.pc = pc, !.item = item, !.letter = version]]
    OBVIOUS
  <2>3. QED
    BY <1>a, <2>1, <2>2
<1>e4. ASSUME NEW pc \in DispatchPcs, NEW ending \in Endings
       PROVE  [disp EXCEPT ![d].pc = pc, ![d].ending = ending] \in [Dispatchers -> DispatchType]
  <2>1. [disp[d] EXCEPT !.pc = pc, !.ending = ending] \in DispatchType
    BY <1>c DEF DispatchType
  <2>2. [disp EXCEPT ![d].pc = pc, ![d].ending = ending]
          = [disp EXCEPT ![d] = [disp[d] EXCEPT !.pc = pc, !.ending = ending]]
    OBVIOUS
  <2>3. QED
    BY <1>a, <2>1, <2>2
<1>f. \A t \in Nat \cup {NoTime} : [runtime EXCEPT !.nextSendAt = t] \in RuntimeType
  BY <1>a DEF RuntimeType
<1>g. {"deciding", "calling", "settle", "runtime", "releasing"} \subseteq DispatchPcs
  BY DEF DispatchPcs
<1>i. EndRun(d) => disp' \in [Dispatchers -> DispatchType]
  <2>1. [disp EXCEPT ![d].pc = "releasing"] \in [Dispatchers -> DispatchType]
    BY <1>e1, <1>g
  <2>2. QED
    BY <2>1 DEF EndRun, DispatchGoTo
<1>h. ASSUME NEW t \in Nat \cup {NoTime}, EndAt(d, t)
      PROVE  runtime' \in RuntimeType /\ disp' \in [Dispatchers -> DispatchType]
  BY <1>f, <1>h, <1>i DEF EndAt, SetNextSend
<1>j. ASSUME NEW e \in EntryType, journal' = Journaled(e)
      PROVE  \A f \in journal' : f \in EntryType
  BY <1>a, <1>j DEF Journaled
<1> USE DEF executorVars, queueVars, userTables
<1>1. CASE Claim(d)
  <2>1. [IdleDispatch EXCEPT !.pc = "deciding", !.at = clock] \in DispatchType
    <3>1. 0 \in Letters /\ 0 \in Times /\ {"idle", "deciding"} \subseteq DispatchPcs
      BY ConstantsAssumption, AutoApplyAssumption DEF Letters, Times, DispatchPcs
    <3>2. IdleDispatch \in DispatchType
      BY <3>1 DEF IdleDispatch, DispatchType
    <3>3. QED
      BY <1>b, <3>1, <3>2 DEF DispatchType
  <2>2. disp' \in [Dispatchers -> DispatchType]
    BY <1>1, <1>a, <2>1 DEF Claim
  <2>3. clock + LeaseTime \in Nat
    BY <1>b
  <2>4. runtime' \in RuntimeType
    BY <1>1, <1>a, <2>3 DEF Claim, RuntimeType
  <2>5. QED
    BY <1>1, <1>a, <2>2, <2>4 DEF Claim, TypedParts, QueueTypeOK
<1>2. CASE DecideGate(d)
  <2>1. runtime' \in RuntimeType /\ disp' \in [Dispatchers -> DispatchType]
    BY <1>2, <1>a, <1>h, <1>i DEF DecideGate
  <2>2. QED
    BY <1>2, <1>a, <2>1 DEF DecideGate, TypedParts, QueueTypeOK
<1>3. CASE DecideItem(d)
  <2>1. PICK i \in Items, pause \in Pauses :
          LET t == disp[d].at
              p == PlatformOf(i)
              due == IF runtime.nextSendAt # NoTime THEN runtime.nextSendAt
                     ELSE NextSend(touched[i], p, pause)
          IN  \/ EndAt(d, NoTime) \/ EndAt(d, due)
              \/ EndAt(d, NextSend(t, p, pause)) \/ EndAt(d, ResetAt(t))
              \/ disp' = [disp EXCEPT ![d].pc = "settle", ![d].item = i] /\ UNCHANGED runtime
              \/ /\ disp' = [disp EXCEPT ![d].pc = "calling", ![d].item = i, ![d].letter = letter[i]]
                 /\ UNCHANGED runtime
    BY <1>3 DEF DecideItem
  <2>2. /\ NextSend(touched[i], PlatformOf(i), pause) \in Nat
        /\ NextSend(disp[d].at, PlatformOf(i), pause) \in Nat
    BY <1>a, <1>c, <1>d, SendTimes DEF QueueTypeOK
  <2>3. runtime.nextSendAt # NoTime => runtime.nextSendAt \in Nat
    BY <1>a DEF RuntimeType
  <2>4. /\ [disp EXCEPT ![d].pc = "settle", ![d].item = i] \in [Dispatchers -> DispatchType]
        /\ [disp EXCEPT ![d].pc = "calling", ![d].item = i, ![d].letter = letter[i]]
             \in [Dispatchers -> DispatchType]
    BY <1>a, <1>e2, <1>e3, <1>g DEF QueueTypeOK
  <2>5. runtime' \in RuntimeType /\ disp' \in [Dispatchers -> DispatchType]
    BY <1>a, <1>c, <1>h, <2>1, <2>2, <2>3, <2>4
  <2>6. QED
    BY <1>3, <1>a, <2>5 DEF DecideItem, TypedParts, QueueTypeOK
<1>4. CASE Continue(d)
  <2>1. disp[d].item \in Items
    BY <1>4 DEF Continue, DispatchInv
  <2>2. \A event \in {"not_connected", "executor_failure"}, attempted \in BOOLEAN :
          Entry(disp[d].item, event, disp[d].at, disp[d].at, attempted) \in EntryType
    BY <1>c, <2>1 DEF Entry, EntryType
  <2>3. /\ runtime' \in RuntimeType /\ disp' \in [Dispatchers -> DispatchType]
        /\ \A e \in journal' : e \in EntryType
    <3>1. CASE \E event \in {"not_connected", "executor_failure"}, attempted \in BOOLEAN,
                  ending \in {"unconnected", "unreceipted"} :
                  JournalFailure(d, event, attempted, ending)
      <4>1. \A ending \in {"unconnected", "unreceipted"} :
              [disp EXCEPT ![d].pc = "runtime", ![d].ending = ending] \in [Dispatchers -> DispatchType]
        BY <1>e4, <1>g DEF Endings
      <4>2. QED
        BY <3>1, <1>a, <1>j, <2>1, <2>2, <4>1 DEF JournalFailure
    <3>2. CASE DispatchGoTo(d, "settle") /\ UNCHANGED <<runtime, journal>>
      BY <3>2, <1>a, <1>e1, <1>g DEF DispatchGoTo
    <3>3. CASE /\ UNCHANGED journal
               /\ \/ EndAt(d, ResetAt(disp[d].at)) \/ EndAt(d, NoTime)
                  \/ \E pause \in Pauses :
                       EndAt(d, NextSend(disp[d].at, PlatformOf(disp[d].item), pause))
      BY <3>3, <1>a, <1>c, <1>d, <1>h, <2>1, SendTimes
    <3>4. QED
      BY <1>4, <3>1, <3>2, <3>3 DEF Continue
  <2>4. QED
    BY <1>4, <1>a, <2>3 DEF Continue, TypedParts, QueueTypeOK
<1>5. CASE CompleteItem(d)
  <2> DEFINE i == disp[d].item
             status == receipt[i]
             ending == IF status = "delivered" THEN "delivered" ELSE "failed"
  <2>1. i \in Items /\ i \in Actions /\ status # "none"
    BY <1>5, AutoApplyAssumption DEF CompleteItem, DispatchInv
  <2>2. status \in Final \cup {"pending"}
    BY <2>1 DEF ExecutorInv, ExecutorTypeOK
  <2>3. SettledAs(status) \in OpenStatus \cup ClosedStatus
    BY <2>2 DEF SettledAs, ClosedStatus, Final
  <2>4. QueueTypeOK'
    BY <1>5, <1>a, <1>c, <2>3, MoveRowsType DEF CompleteItem, QueueTypeOK
  <2>5. Entry(i, status, NoTime, disp[d].at, TRUE) \in EntryType
    BY <1>c, <2>1, <2>2 DEF Entry, EntryType
  <2>6. disp' \in [Dispatchers -> DispatchType]
    <3>1. ending \in Endings /\ disp' = [disp EXCEPT ![d].pc = "runtime", ![d].ending = ending]
      BY <1>5 DEF CompleteItem, Endings
    <3> HIDE DEF ending
    <3>2. QED
      BY <1>e4, <1>g, <3>1
  <2>7. QED
    BY <1>5, <1>a, <1>j, <2>4, <2>5, <2>6 DEF CompleteItem, TypedParts
<1>6. CASE RecordRuntime(d)
  <2>1. disp[d].item \in Items /\ runtime.errors + 1 \in Nat /\ 0 \in 0..(BreakAfter - 1)
    BY <1>6, <1>a, AutoApplyAssumption DEF RecordRuntime, DispatchInv, RuntimeType
  <2>2. Stopped \in RuntimeType
    BY <1>a, <2>1 DEF Stopped, RuntimeType
  <2>3. \A pause \in Pauses : Delivered(disp[d].at, PlatformOf(disp[d].item), pause) \in RuntimeType
    <3> SUFFICES ASSUME NEW pause \in Pauses
                 PROVE  Delivered(disp[d].at, PlatformOf(disp[d].item), pause) \in RuntimeType
      OBVIOUS
    <3> DEFINE platform == PlatformOf(disp[d].item)
               breakDue == runtime.sinceBreak + 1 >= BreakAfter
               next == NextSend(IF breakDue THEN disp[d].at + BreakTime ELSE disp[d].at, platform, pause)
               since == IF breakDue THEN 0 ELSE runtime.sinceBreak + 1
    <3>1. next \in Nat
      BY <1>c, <1>d, <2>1, SendTimes
    <3>2. since \in 0..(BreakAfter - 1)
      BY <1>a, AutoApplyAssumption DEF RuntimeType
    <3>3. Delivered(disp[d].at, platform, pause)
            = [runtime EXCEPT !.nextSendAt = next, !.sinceBreak = since, !.errors = 0]
      BY DEF Delivered
    <3> HIDE DEF next, since
    <3>4. [runtime EXCEPT !.nextSendAt = next, !.sinceBreak = since, !.errors = 0] \in RuntimeType
      BY <1>a, <3>1, <3>2 DEF RuntimeType
    <3>5. QED
      BY <3>3, <3>4
  <2>4. runtime' \in RuntimeType
    BY <1>6, <1>f, <2>2, <2>3 DEF RecordRuntime, SetNextSend
  <2>5. QED
    BY <1>6, <1>a, <1>i, <2>4 DEF RecordRuntime, TypedParts, QueueTypeOK
<1>7. CASE Release(d)
  <2>1. IdleDispatch \in DispatchType
    BY ConstantsAssumption, AutoApplyAssumption
       DEF IdleDispatch, DispatchType, DispatchPcs, Letters, Times
  <2>2. disp' \in [Dispatchers -> DispatchType]
    BY <1>7, <1>a, <2>1 DEF Release
  <2>3. runtime' \in RuntimeType
    BY <1>7, <1>a, <1>c DEF Release, RuntimeType
  <2>4. QED
    BY <1>7, <1>a, <2>2, <2>3 DEF Release, TypedParts, QueueTypeOK
<1>8. QED
  BY <1>1, <1>2, <1>3, <1>4, <1>5, <1>6, <1>7 DEF DispatcherMove

LEMMA AutoTypeStep ==
  ASSUME ExecutorInv, AutoApplyTypeOK, DispatchInv, [AutoApplyNext]_vars
  PROVE  AutoApplyTypeOK'
<1>1. TypedParts
  BY TypeParts
<1>2. TypedParts'
  <2>1. CASE UNCHANGED autoVars
    BY <1>1, <2>1 DEF TypedParts, QueueTypeOK, autoVars, queueVars, userTables
  <2>2. CASE \E d \in Dispatchers : DispatcherMove(d)
    BY <1>1, <2>2, DispatcherTypes
  <2>3. CASE CandidateStep
    BY <1>1, <2>3, CandidateTypes
  <2>4. CASE AutoCrash
    <3>1. IdleDispatch \in DispatchType
      BY ConstantsAssumption, AutoApplyAssumption
         DEF IdleDispatch, DispatchType, DispatchPcs, Letters, Times
    <3>2. QED
      BY <1>1, <2>4, <3>1 DEF AutoCrash, TypedParts, QueueTypeOK, queueVars, userTables
  <2>5. QED
    BY <2>1, <2>2, <2>3, <2>4, AutoCases DEF DispatcherCall, vars
<1>3. QED
  BY <1>2 DEF AutoApplyTypeOK, TypedParts, QueueTypeOK, SettingsType, RuntimeType, DispatchType

\* Where a step of a dispatcher leaves it: only it and its call move.
LEMMA DispatcherPlaces ==
  ASSUME ExecutorInv, AutoApplyTypeOK, DispatchInv, NEW d \in Dispatchers, DispatcherMove(d)
  PROVE  /\ \A e \in Dispatchers : e # d => disp'[e] = disp[e] /\ call'[e] = call[e]
         /\ \A e \in Dispatchers : e # d => disp[e].pc \notin DispatchHolding
         /\ disp'[d].pc \in DispatchHolding => loop' = d
         /\ call'[d].pc = "idle" <=> disp'[d].pc # "calling"
         /\ disp'[d].pc \in {"calling", "settle", "runtime"} => disp'[d].item \in Items
         /\ disp'[d].pc = "calling" =>
              call'[d].batch = disp'[d].item /\ call'[d].acts = <<disp'[d].item>>
         /\ disp'[d].pc = "settle" => receipt'[disp'[d].item] # "none"
<1>a. /\ disp \in [Dispatchers -> DispatchType] /\ call \in [Callers -> CallType]
      /\ d \in Callers /\ Dispatchers \subseteq Callers /\ Free \notin Callers
      /\ "none" \notin Items
  BY ConstantsAssumption, AutoApplyAssumption
     DEF AutoApplyTypeOK, DispatchType, ExecutorInv, ExecutorTypeOK
<1>b. /\ disp[d].pc \in DispatchHolding => loop = d
      /\ call[d].pc = "idle" <=> disp[d].pc # "calling"
      /\ disp[d].pc \in {"calling", "settle", "runtime"} => disp[d].item \in Items
      /\ \A e \in Dispatchers : disp[e].pc \in DispatchHolding => loop = e
  BY DEF DispatchInv, DispatchHolding
<1>c. \A e \in Dispatchers : e # d => disp[e].pc \notin DispatchHolding
  <2>1. loop = Free \/ loop = d
    BY <1>b DEF DispatcherMove, Claim, DecideGate, DecideItem, Continue, CompleteItem,
                RecordRuntime, Release, DispatchHolding
  <2>2. QED
    BY <1>a, <1>b, <2>1
<1>d. ASSUME EndRun(d) \/ \E t : EndAt(d, t), call'[d].pc = "idle"
      PROVE  /\ \A e \in Dispatchers : e # d => disp'[e] = disp[e]
             /\ disp'[d].pc = "releasing"
  BY <1>a, <1>d DEF EndAt, EndRun, DispatchGoTo, DispatchType
<1> USE DEF DispatchHolding
<1>1. CASE Claim(d)
  BY <1>1, <1>a, <1>b, <1>c DEF Claim, IdleDispatch
<1>2. CASE DecideGate(d)
  <2>1. call' = call /\ call[d].pc = "idle"
    BY <1>2, <1>b DEF DecideGate
  <2>2. EndRun(d) \/ \E t : EndAt(d, t)
    BY <1>2 DEF DecideGate
  <2>3. QED
    BY <2>1, <2>2, <1>c, <1>d
<1>3. CASE DecideItem(d)
  <2>1. PICK i \in Items :
          \/ (\E t : EndAt(d, t)) /\ UNCHANGED call
          \/ /\ disp' = [disp EXCEPT ![d].pc = "settle", ![d].item = i]
             /\ receipt[i] # "none" /\ UNCHANGED <<call, loop>>
          \/ /\ Begin(d, i, <<i>>, disp[d].at)
             /\ disp' = [disp EXCEPT ![d].pc = "calling", ![d].item = i, ![d].letter = letter[i]]
    BY <1>3 DEF DecideItem, ItemVerdict
  <2>2. disp[d].pc = "deciding" /\ call[d].pc = "idle" /\ loop = d /\ receipt' = receipt
    BY <1>3, <1>b DEF DecideItem, tables
  <2>3. CASE (\E t : EndAt(d, t)) /\ UNCHANGED call
    BY <2>2, <2>3, <1>c, <1>d
  <2>4. CASE /\ disp' = [disp EXCEPT ![d].pc = "settle", ![d].item = i]
             /\ receipt[i] # "none" /\ UNCHANGED <<call, loop>>
    BY <1>a, <1>c, <2>2, <2>4 DEF DispatchType
  <2>5. CASE /\ Begin(d, i, <<i>>, disp[d].at)
             /\ disp' = [disp EXCEPT ![d].pc = "calling", ![d].item = i, ![d].letter = letter[i]]
    <3>1. /\ \A e \in Callers : e # d => call'[e] = call[e]
          /\ call'[d].batch = i /\ call'[d].acts = <<i>> /\ call'[d].pc # "idle"
      BY <1>a, <2>5 DEF Begin, IdleCall
    <3>2. /\ \A e \in Dispatchers : e # d => disp'[e] = disp[e]
          /\ disp'[d].pc = "calling" /\ disp'[d].item = i
      BY <1>a, <2>5 DEF DispatchType
    <3>3. QED
      BY <1>a, <1>c, <3>1, <3>2
  <2>6. QED
    BY <2>1, <2>3, <2>4, <2>5
<1>4. CASE Continue(d)
  <2>1. /\ \A e \in Callers : e # d => call'[e] = call[e]
        /\ call'[d].pc = "idle" /\ receipt' = receipt
        /\ disp[d].pc = "calling" /\ disp[d].item \in Items
    BY <1>4, <1>a, <1>b DEF Continue, IdleCall, tables
  <2>2. CASE \E t : EndAt(d, t)
    BY <1>a, <2>1, <2>2, <1>c, <1>d
  <2>3. CASE \E event, attempted, ending : JournalFailure(d, event, attempted, ending)
    <3>1. /\ \A e \in Dispatchers : e # d => disp'[e] = disp[e]
          /\ disp'[d].pc = "runtime" /\ disp'[d].item = disp[d].item /\ loop' = d
      BY <1>a, <2>3 DEF JournalFailure, DispatchType
    <3>2. QED
      BY <1>a, <1>c, <2>1, <3>1
  <2>4. CASE receipt[disp[d].item] # "none" /\ DispatchGoTo(d, "settle") /\ loop' = d
    <3>1. /\ \A e \in Dispatchers : e # d => disp'[e] = disp[e]
          /\ disp'[d].pc = "settle" /\ disp'[d].item = disp[d].item
      BY <1>a, <2>4 DEF DispatchGoTo, DispatchType
    <3>2. QED
      BY <1>a, <1>c, <2>1, <2>4, <3>1
  <2>5. QED
    BY <1>4, <2>2, <2>3, <2>4 DEF Continue
<1>5. CASE CompleteItem(d)
  <2>1. /\ \A e \in Dispatchers : e # d => disp'[e] = disp[e]
        /\ disp'[d].pc = "runtime" /\ disp'[d].item = disp[d].item
    <3> DEFINE ending == IF receipt[disp[d].item] = "delivered" THEN "delivered" ELSE "failed"
    <3>1. disp' = [disp EXCEPT ![d].pc = "runtime", ![d].ending = ending]
      BY <1>5 DEF CompleteItem
    <3> HIDE DEF ending
    <3>2. QED
      BY <1>a, <3>1 DEF DispatchType
  <2>2. UNCHANGED <<call, loop, receipt>> /\ disp[d].pc = "settle"
    BY <1>5 DEF CompleteItem, executorVars, tables
  <2>3. QED
    BY <1>b, <1>c, <2>1, <2>2
<1>6. CASE RecordRuntime(d)
  <2>1. call' = call /\ call[d].pc = "idle" /\ EndRun(d)
    BY <1>6, <1>b DEF RecordRuntime
  <2>2. QED
    BY <2>1, <1>c, <1>d
<1>7. CASE Release(d)
  <2>1. UNCHANGED <<call, loop, receipt>> /\ disp[d].pc = "releasing"
    BY <1>7 DEF Release, executorVars, tables
  <2>2. disp'[d].pc = "idle" /\ \A e \in Dispatchers : e # d => disp'[e] = disp[e]
    BY <1>7, <1>a DEF Release, IdleDispatch
  <2>3. QED
    BY <1>b, <1>c, <2>1, <2>2
<1>8. QED
  BY <1>1, <1>2, <1>3, <1>4, <1>5, <1>6, <1>7 DEF DispatcherMove

LEMMA DispatchInvStep ==
  ASSUME ExecutorInv, AutoApplyTypeOK, DispatchInv, [AutoApplyNext]_vars
  PROVE  DispatchInv'
<1>a. /\ disp \in [Dispatchers -> DispatchType] /\ call \in [Callers -> CallType]
      /\ Dispatchers \subseteq Callers /\ Free \notin Callers
  BY ConstantsAssumption, AutoApplyAssumption
     DEF AutoApplyTypeOK, DispatchType, ExecutorInv, ExecutorTypeOK
\* A step that leaves the dispatchers alone while none owns the loop.
<1>b. ASSUME disp' = disp, \A e \in Dispatchers : disp[e].pc \notin DispatchHolding,
             \A e \in Dispatchers : /\ call'[e].acts = call[e].acts
                                    /\ call'[e].batch = call[e].batch
                                    /\ call'[e].pc = "idle" <=> call[e].pc = "idle"
      PROVE  DispatchInv'
  BY <1>b DEF DispatchInv, DispatchHolding
<1>c. loop = Free => \A e \in Dispatchers : disp[e].pc \notin DispatchHolding
  BY <1>a, DispatchHolds
<1>1. CASE \E d \in Dispatchers : DispatcherMove(d)
  <2>1. PICK d \in Dispatchers : DispatcherMove(d)
    BY <1>1
  <2>2. \A e \in Dispatchers : e # d =>
          disp'[e] = disp[e] /\ call'[e] = call[e] /\ disp[e].pc \notin DispatchHolding
    BY <2>1, DispatcherPlaces
  <2> SUFFICES ASSUME NEW e \in Dispatchers
               PROVE  (/\ disp[e].pc \in DispatchHolding => loop = e
                       /\ call[e].pc = "idle" <=> disp[e].pc # "calling"
                       /\ disp[e].pc \in {"calling", "settle", "runtime"} => disp[e].item \in Items
                       /\ disp[e].pc = "calling" =>
                            call[e].batch = disp[e].item /\ call[e].acts = <<disp[e].item>>
                       /\ disp[e].pc = "settle" => receipt[disp[e].item] # "none")'
    BY DEF DispatchInv
  <2>3. CASE e = d
    BY <2>1, <2>3, DispatcherPlaces
  <2>4. CASE e # d
    BY <2>2, <2>4 DEF DispatchInv, DispatchHolding
  <2>5. QED
    BY <2>3, <2>4
<1>2. CASE \E c \in Callers : CallMove(c) /\ UNCHANGED autoVars
  <2>1. PICK c \in Callers : CallMove(c) /\ UNCHANGED autoVars
    BY <1>2
  <2>2. \A e \in Dispatchers : disp[e].pc \notin DispatchHolding
    BY <2>1, DispatchHolds
  <2>3. /\ \A e \in Callers : e # c => call'[e] = call[e]
        /\ call'[c].acts = call[c].acts /\ call'[c].batch = call[c].batch
        /\ call[c].pc # "idle" /\ call'[c].pc # "idle"
    BY <2>1, CallMoveFrame DEF ExecutorInv
  <2>4. QED
    BY <1>a, <1>b, <2>1, <2>2, <2>3 DEF autoVars
<1>3. CASE /\ UNCHANGED autoVars
           /\ \E c \in Callers \ Dispatchers : (\E r \in Requests : PostBatch(c, r)) \/ Respond(c)
  <2>1. /\ loop = Free
        /\ \A e \in Dispatchers : call'[e] = call[e]
    BY <1>3, <1>a DEF PostBatch, Respond, Begin
  <2>2. QED
    BY <1>3, <1>b, <1>c, <2>1 DEF autoVars
<1>4. CASE (SwitchStep \/ Tick) /\ UNCHANGED autoVars
  <2>1. loop = Free /\ call' = call
    BY <1>4 DEF SwitchStep, SetOnBehalf, ToggleKillSwitch, MoveCard, Tick
  <2>2. QED
    BY <1>4, <1>b, <1>c, <2>1 DEF autoVars
<1>5. CASE CandidateStep
  BY <1>5, <1>b, <1>c, CandidateFrame
<1>6. CASE AutoCrash
  BY <1>6, <1>a DEF AutoCrash, Crash, LoseMemory, IdleDispatch, IdleCall, DispatchInv,
                    DispatchHolding
<1>7. CASE UNCHANGED vars
  BY <1>7 DEF vars, autoVars, executorVars, tables, DispatchInv, DispatchHolding
<1>8. QED
  <2>1. CASE \E d \in Dispatchers : DispatcherCall(d)
    BY <1>a, <1>2, <2>1 DEF DispatcherCall, CallMove
  <2>2. CASE \E c \in Callers \ Dispatchers : DirectCall(c) /\ UNCHANGED autoVars
    BY <1>2, <1>3, <2>2 DEF DirectCall, ExecutorStep, CallMove
  <2>3. QED
    BY <1>1, <1>4, <1>5, <1>6, <1>7, <2>1, <2>2, AutoCases

\* What holds of the executor, the types and the dispatchers.
AutoInv ==
  /\ BatchInv
  /\ AutoApplyTypeOK
  /\ DispatchInv

LEMMA AutoInvStep ==
  ASSUME AutoInv, [AutoApplyNext]_vars
  PROVE  AutoInv' /\ ExecutorMove
<1>1. ExecutorInv
  BY DEF AutoInv, BatchInv
<1>2. QED
  BY <1>1, AutoMoves, BatchMoveInv, AutoTypeStep, DispatchInvStep DEF AutoInv

LEMMA AutoInvInit == AutoApplyInit => AutoInv
<1> SUFFICES ASSUME AutoApplyInit PROVE AutoInv
  OBVIOUS
<1>1. BatchInv /\ AutoApplyTypeOK
  BY BatchInvInit, AutoInitType DEF AutoApplyInit
<1>2. DispatchInv
  BY AutoApplyAssumption
     DEF AutoApplyInit, ExecutorInit, IdleDispatch, IdleCall, DispatchInv, DispatchHolding
<1>3. QED
  BY <1>1, <1>2 DEF AutoInv

\* AutoInv holds throughout.
THEOREM AutoInvHolds == AutoApplySpec => []AutoInv
<1>1. AutoInv /\ [AutoApplyNext]_vars => AutoInv'
  BY AutoInvStep
<1>2. QED
  BY <1>1, AutoInvInit, PTL DEF AutoApplySpec

\* Every table of auto-apply, and every dispatcher, has its type.
THEOREM AutoTypeCorrect == AutoApplySpec => []AutoApplyTypeOK
<1>1. AutoInv => AutoApplyTypeOK
  BY DEF AutoInv
<1>2. QED
  BY <1>1, AutoInvHolds, PTL

\* With dispatchers and direct calls side by side, no application is sent twice,
\* none is without its receipt, no call settles the receipt of another, LinkedIn
\* has one runner, a batch stops at its first failure, and a card is moved only
\* on a delivery.  Limits and quiet hours are left out: a dispatcher names the
\* time of its pass, by which they are judged, and may start later.
THEOREM ExecutorHoldsInAutoApply ==
  AutoApplySpec =>
    [](/\ AtMostOneRun /\ RunLeavesReceipt /\ SettlesOwnPending
       /\ OneLinkedinRunner /\ StopsAtFirstFailure /\ AppliedMeansDelivered)
<1>1. AutoInv => /\ AtMostOneRun /\ RunLeavesReceipt /\ SettlesOwnPending
                 /\ OneLinkedinRunner /\ StopsAtFirstFailure /\ AppliedMeansDelivered
  BY BatchInvMeans DEF AutoInv, BatchInv, ExecutorInv
<1>2. QED
  BY <1>1, AutoInvHolds, PTL
=============================================================================
