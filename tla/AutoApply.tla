------------------------------- MODULE AutoApply -------------------------------
(***************************************************************************)
(* Auto-apply of one candidate: the queue of prepared applications, the     *)
(* settings and consents that govern it, and CandidateAutomationDispatch,   *)
(* which takes the oldest approved item and hands it to the executor of     *)
(* ActionExecutor as a batch of one action.                                 *)
(*                                                                          *)
(* A dispatcher is one run of runCandidate.  It is a caller of the executor *)
(* and runs on the same event loop; the lease in the runtime row keeps a    *)
(* second run away, until it expires.  The candidate acts in between,       *)
(* through the routes, whenever the event loop is free.                     *)
(*                                                                          *)
(* The schedule (windows, limits, pauses) is constant.  The runtime columns *)
(* status, pause_until and last_failure_code only label what happened and   *)
(* are left out.                                                            *)
(***************************************************************************)
EXTENDS ActionExecutor

CONSTANTS
  Dispatchers,  \* concurrent runs of runCandidate, each a caller
  Items,        \* the queue items: ids of a batch and of its only action
  CompanyOf,    \* the company of each item
  RuleSets,     \* the [platforms, excludeStops] rules the candidate saves
  Operations,   \* what the candidate does, and what may fail
  EnableModes,  \* the modes the candidate switches the automation to
  MaxLetter,    \* bound on the versions of a letter; version 0 is blank
  Window,       \* the times at which each platform may be sent to
  Pauses,       \* the random pauses between two sendings
  DailyLimit,   \* dailyCandidateAutomationLimit of each platform
  BreakAfter,   \* sendings until a long break
  BreakTime,    \* ... and its length
  LeaseTime,    \* how long a claim lasts
  PauseTime     \* length of a pause the candidate asks for

Platforms == {"hh", "linkedin"}
Modes == {"drafts_only", "approval_required", "automatic"}
\* The consents that are required and read later on.  `notifications' is asked
\* for with them and never read; to revoke it has the effect of Disable.
RequiredConsents == {"drafts", "send_after_approval"}
ConsentKeys == RequiredConsents \cup {"automatic_submission"}
OpenStatus == {"letter_not_ready", "pending_approval", "approved"}
ClosedStatus == {"removed", "consultant", "sent", "attempted", "failed"}
DispatchPcs == {"idle", "deciding", "calling", "settle", "runtime", "releasing"}
Endings == {"delivered", "failed", "unconnected", "unreceipted"}
Letters == 0..MaxLetter

ASSUME AutoApplyAssumption ==
  /\ Dispatchers \subseteq Callers
  /\ Items \subseteq Batches /\ Items \subseteq Actions /\ Items \subseteq Tracked
  /\ \A i \in Items : KindOf[i] # "hh_resume_boost"
  /\ "none" \notin Items /\ "none" \notin Callers
  /\ DOMAIN CompanyOf = Items
  /\ RuleSets \subseteq [platforms : (SUBSET Platforms) \ {{}}, excludeStops : BOOLEAN]
  /\ EnableModes \subseteq Modes
  /\ MaxLetter \in Nat /\ BreakAfter \in Nat \ {0} /\ BreakTime \in Nat
  /\ LeaseTime \in Nat \ {0} /\ PauseTime \in Nat \ {0}
  /\ Window \in [Platforms -> SUBSET Nat]
  /\ Pauses \subseteq Nat /\ Pauses # {}
  /\ DailyLimit \in [Platforms -> Nat \ {0}]

VARIABLES
  rows,       \* candidate_auto_apply_queue in the order of creation
  queue,      \* status of each row
  letter,     \* version of the letter in its payload
  approval,   \* approvalType in its payload
  touched,    \* its updated_at
  settings,   \* candidate_auto_apply_settings
  consents,   \* keys of the consents that are not revoked
  stops,      \* stop companies
  runtime,    \* candidate_auto_apply_runtime
  journal,    \* candidate_auto_apply_journal
  disp        \* the state of each dispatcher

queueVars == <<rows, queue, letter, approval, touched>>
userTables == <<settings, consents, stops>>
autoVars == <<queueVars, userTables, runtime, journal, disp>>
vars == <<executorVars, autoVars>>

IdleDispatch == [pc |-> "idle", item |-> "none", at |-> 0, letter |-> 0, ending |-> "none"]

AutoApplyInit ==
  /\ ExecutorInit
  /\ rows = <<>>
  /\ queue = [i \in Items |-> "absent"]
  /\ letter = [i \in Items |-> 0]
  /\ approval = [i \in Items |-> "none"]
  /\ touched = [i \in Items |-> 0]
  /\ settings \in [enabled : {FALSE}, mode : {"drafts_only"},
                   pausedUntil : {NoTime}, rules : RuleSets]
  /\ consents = {}
  /\ stops = {}
  /\ runtime = [nextSendAt |-> NoTime, errors |-> 0, sinceBreak |-> 0,
                emergency |-> FALSE, leaseToken |-> "none", leaseUntil |-> NoTime]
  /\ journal = {}
  /\ disp = [d \in Dispatchers |-> IdleDispatch]

-----------------------------------------------------------------------------
(* Time and the schedule.                                                   *)

\* nextCandidateAutomationSendAt: a pause, then the first open minute; eight
\* days on (here: never within the bound) when there is none.
NextSend(t, platform, pause) ==
  LET open == {u \in Window[platform] : u >= t + pause} IN
    IF open = {} THEN MaxTime + 1 ELSE CHOOSE u \in open : \A v \in open : u <= v

\* getCandidateActionResetAt: the next local midnight.
ResetAt(t) == (DayOf(t) + 1) * DayLength

Paused(t) == settings.pausedUntil # NoTime /\ settings.pausedUntil > t

-----------------------------------------------------------------------------
(* Reading the tables.                                                      *)

HasAutomationConsent == "send_after_approval" \in consents

\* getNextApprovedQueueItem: the oldest row that is approved.
ApprovedPlaces == {n \in DOMAIN rows : queue[rows[n]] = "approved"}

NextApproved(i) ==
  \E n \in ApprovedPlaces : rows[n] = i /\ \A m \in ApprovedPlaces : n <= m

MatchesCurrentRules(i) ==
  /\ PlatformOf(i) \in settings.rules.platforms
  /\ settings.rules.excludeStops => CompanyOf[i] \notin stops

\* countDailyAttempts.
DailyAttempts(day, platform) ==
  Cardinality({e \in journal : /\ e.attempted /\ e.day = day
                               /\ PlatformOf(e.item) = platform})

\* Faulty: the row is not read again.
CanExecuteRowless(d) ==
  /\ settings.enabled /\ settings.mode = "approval_required"
  /\ HasAutomationConsent
  /\ ~Paused(disp[d].at) /\ ~runtime.emergency

\* canExecuteApprovedItem, the guard the executor calls before createBatch.
CanExecute(d) ==
  /\ settings.enabled /\ settings.mode = "approval_required"
  /\ HasAutomationConsent
  /\ ~Paused(disp[d].at) /\ ~runtime.emergency
  /\ disp[d].item \in Items /\ queue[disp[d].item] = "approved"

-----------------------------------------------------------------------------
(* Writing them.                                                            *)

\* transitionQueueItem and its like for a set of rows: a row that is closed
\* loses its letter (a consultant gets it), one that goes back to review loses
\* its approval.
MoveRows(moved, status, t) ==
  /\ queue' = [i \in Items |-> IF i \in moved THEN status ELSE queue[i]]
  /\ letter' = [i \in Items |->
                 IF i \in moved /\ status \in ClosedStatus \ {"consultant"}
                 THEN 0 ELSE letter[i]]
  /\ approval' = [i \in Items |->
                   IF i \notin moved THEN approval[i]
                   ELSE CASE status = "approved" -> "candidate"
                          [] status = "pending_approval" -> "none"
                          [] OTHER -> approval[i]]
  /\ touched' = [i \in Items |-> IF i \in moved THEN t ELSE touched[i]]
  /\ UNCHANGED rows

\* returnApprovedItemsToReview.
ReturnApproved == MoveRows({i \in Items : queue[i] = "approved"}, "pending_approval", clock)

\* appendJournalEntry: INSERT OR IGNORE on the event key, which holds the
\* time for the failures that leave no receipt.
Entry(i, event, stamp, t, attempted) ==
  [item |-> i, event |-> event, stamp |-> stamp, day |-> DayOf(t), attempted |-> attempted]

Journaled(e) ==
  IF \E f \in journal : /\ f.item = e.item /\ f.event = e.event
                        /\ f.stamp = e.stamp
  THEN journal ELSE journal \cup {e}

DispatchGoTo(d, pc) == disp' = [disp EXCEPT ![d].pc = pc]

\* setRuntime with a new next_send_at: it reads the row and writes all of it
\* back in one turn of the event loop.
SetNextSend(t) == runtime' = [runtime EXCEPT !.nextSendAt = t]

\* enable and saveSchedule make the runtime ready, unless there is an
\* emergency pause.
MakeReady ==
  IF runtime.emergency THEN runtime
  ELSE [runtime EXCEPT !.nextSendAt = clock, !.errors = 0]
-----------------------------------------------------------------------------
(* The steps of a dispatcher.                                               *)

\* claimCandidate: a lease is taken when there is none or it has run out.
LeaseOver == runtime.leaseUntil # NoTime => runtime.leaseUntil <= clock

Claim(d) ==
  /\ loop = Free
  /\ disp[d].pc = "idle"
  /\ LeaseOver
  /\ runtime' = [runtime EXCEPT !.leaseToken = d, !.leaseUntil = clock + LeaseTime]
  /\ disp' = [disp EXCEPT ![d] = [IdleDispatch EXCEPT !.pc = "deciding", !.at = clock]]
  /\ loop' = d
  /\ UNCHANGED <<clock, tables, inFlight, call, history, queueVars, userTables, journal>>

\* runClaimedCandidate and processNextApproved up to sendApprovedItem: what
\* happens at time t to the oldest approved row, which is due at time due.
GateVerdict(t) ==
  IF ~settings.enabled \/ settings.mode # "approval_required" THEN "prepared"
  ELSE IF Paused(t) \/ runtime.emergency THEN "paused"
  ELSE IF ~HasAutomationConsent THEN "consent"
  ELSE IF runtime.errors >= 1 THEN "blocked"
  ELSE IF ApprovedPlaces = {} THEN "idle"
  ELSE "open"

ItemVerdict(i, t, due) ==
  IF ~MatchesCurrentRules(i) THEN "prepared"
  ELSE IF due > t THEN "early"
  ELSE IF t \notin Window[PlatformOf(i)] THEN "closed"
  ELSE IF DailyAttempts(DayOf(t), PlatformOf(i)) >= DailyLimit[PlatformOf(i)] THEN "limit"
  ELSE IF receipt[i] # "none" THEN "known"
  ELSE "send"

\* The run is over but for the release, which runs once the promise of the run
\* is resolved: setRuntime with the time of the next sending, or nothing.
EndRun(d) == DispatchGoTo(d, "releasing") /\ loop' = Free
EndAt(d, t) == SetNextSend(t) /\ EndRun(d)

\* Nothing can be sent now, whatever the queue holds.
DecideGate(d) ==
  LET verdict == GateVerdict(disp[d].at) IN
  /\ disp[d].pc = "deciding"
  /\ \/ verdict \in {"prepared", "consent"} /\ EndAt(d, NoTime)
     \/ verdict \in {"paused", "blocked", "idle"} /\ EndRun(d) /\ UNCHANGED runtime
  /\ UNCHANGED <<clock, tables, inFlight, call, history, queueVars, userTables, journal>>

\* The oldest approved row is put off, completed from a receipt that is
\* there already, or handed to executeBatch with the letter it has now.
DecideItem(d) ==
  LET t == disp[d].at IN
  /\ disp[d].pc = "deciding"
  /\ GateVerdict(t) = "open"
  /\ \E i \in Items, pause \in Pauses :
       LET p == PlatformOf(i)
           due == IF runtime.nextSendAt # NoTime THEN runtime.nextSendAt
                  ELSE NextSend(touched[i], p, pause)
           verdict == ItemVerdict(i, t, due)
       IN
       /\ NextApproved(i)
       /\ \/ verdict = "prepared" /\ EndAt(d, NoTime) /\ UNCHANGED call
          \/ verdict = "early" /\ EndAt(d, due) /\ UNCHANGED call
          \/ verdict = "closed" /\ EndAt(d, NextSend(t, p, pause)) /\ UNCHANGED call
          \/ verdict = "limit" /\ EndAt(d, ResetAt(t)) /\ UNCHANGED call
          \/ /\ verdict = "known"
             /\ disp' = [disp EXCEPT ![d].pc = "settle", ![d].item = i]
             /\ UNCHANGED <<call, loop, runtime>>
          \/ /\ verdict = "send"
             /\ Begin(d, i, <<i>>, t)
             /\ disp' = [disp EXCEPT ![d].pc = "calling", ![d].item = i, ![d].letter = letter[i]]
             /\ loop' = Free
             /\ UNCHANGED runtime
  /\ UNCHANGED <<clock, tables, inFlight, history, queueVars, userTables, journal>>

\* appendJournalEntry for a call that left no receipt.
JournalFailure(d, event, attempted, ending) ==
  /\ journal' = Journaled(Entry(disp[d].item, event, disp[d].at, disp[d].at, attempted))
  /\ disp' = [disp EXCEPT ![d].pc = "runtime", ![d].ending = ending]
  /\ loop' = d
  /\ UNCHANGED runtime

\* executeBatch has resolved or thrown: handleReceipt or handleExecutorError.
Continue(d) ==
  LET t == disp[d].at
      i == disp[d].item
      result == call[d].result
  IN
  /\ loop = Free
  /\ disp[d].pc = "calling" /\ call[d].pc = "done"
  /\ call' = [call EXCEPT ![d] = IdleCall]
  /\ \/ /\ result = "daily_limit_reached"
        /\ EndAt(d, ResetAt(t)) /\ UNCHANGED journal
     \/ /\ result \in {"quiet_hours", "boost_interval_unexpired"}
        /\ \E pause \in Pauses : EndAt(d, NextSend(t, PlatformOf(i), pause))
        /\ UNCHANGED journal
     \/ /\ result = "consent"
        /\ EndAt(d, NoTime) /\ UNCHANGED journal
     \/ /\ result = "not_connected"
        /\ JournalFailure(d, "not_connected", FALSE, "unconnected")
     \/ /\ result = "error" /\ receipt[i] = "none"
        /\ JournalFailure(d, "executor_failure", TRUE, "unreceipted")
     \/ /\ result \in {"ran", "error"} /\ receipt[i] # "none"
        /\ DispatchGoTo(d, "settle") /\ loop' = d /\ UNCHANGED <<runtime, journal>>
  /\ UNCHANGED <<clock, tables, inFlight, history, queueVars, userTables>>

\* Faulty: what may have arrived counts as sent.
SettledHopefully(status) == IF status = "failed" THEN "failed" ELSE "sent"

\* The status of the row and of the run that a receipt stands for.
SettledAs(status) ==
  CASE status = "delivered" -> "sent"
    [] status \in {"attempted", "pending"} -> "attempted"
    [] status = "failed" -> "failed"

\* completeScheduledQueueItem: one transaction closes the row, if it is still
\* approved or back in review, and writes the journal.
Completable(i) == queue[i] \in {"approved", "pending_approval"}

\* Faulty: only a row that is completed is journaled; or the row is left as
\* it is.
CompleteItemQuietly(d) ==
  LET i == disp[d].item
      status == receipt[i]
  IN
  /\ disp[d].pc = "settle"
  /\ IF Completable(i)
     THEN /\ MoveRows({i}, SettledAs(status), disp[d].at)
          /\ journal' = Journaled(Entry(i, status, NoTime, disp[d].at, TRUE))
     ELSE UNCHANGED <<queueVars, journal>>
  /\ disp' = [disp EXCEPT ![d].pc = "runtime",
                           ![d].ending = IF status = "delivered" THEN "delivered" ELSE "failed"]
  /\ UNCHANGED <<executorVars, userTables, runtime>>

CompleteItemOnPaper(d) ==
  LET i == disp[d].item
      status == receipt[i]
  IN
  /\ disp[d].pc = "settle"
  /\ journal' = Journaled(Entry(i, status, NoTime, disp[d].at, TRUE))
  /\ disp' = [disp EXCEPT ![d].pc = "runtime",
                           ![d].ending = IF status = "delivered" THEN "delivered" ELSE "failed"]
  /\ UNCHANGED <<executorVars, queueVars, userTables, runtime>>

CompleteItem(d) ==
  LET i == disp[d].item
      status == receipt[i]
  IN
  /\ disp[d].pc = "settle"
  /\ IF Completable(i) THEN MoveRows({i}, SettledAs(status), disp[d].at)
                       ELSE UNCHANGED queueVars
  /\ journal' = Journaled(Entry(i, status, NoTime, disp[d].at, TRUE))
  /\ disp' = [disp EXCEPT ![d].pc = "runtime",
                           ![d].ending = IF status = "delivered" THEN "delivered" ELSE "failed"]
  /\ UNCHANGED <<executorVars, userTables, runtime>>

\* Faulty: the count to the long break is not reset.
DeliveredOnAndOn(t, platform, pause) ==
  LET breakDue == runtime.sinceBreak + 1 >= BreakAfter IN
  [runtime EXCEPT
     !.nextSendAt = NextSend(IF breakDue THEN t + BreakTime ELSE t, platform, pause),
     !.sinceBreak = @ + 1,
     !.errors = 0]

\* Faulty: the row is written back as it was when the run was decided, and an
\* emergency pause that came meanwhile is lost.
DeliveredOnStaleRow(t, platform, pause) ==
  LET breakDue == runtime.sinceBreak + 1 >= BreakAfter IN
  [runtime EXCEPT
     !.nextSendAt = NextSend(IF breakDue THEN t + BreakTime ELSE t, platform, pause),
     !.sinceBreak = IF breakDue THEN 0 ELSE @ + 1,
     !.errors = 0,
     !.emergency = FALSE]

\* recordDelivery: a long break after BreakAfter deliveries.
Delivered(t, platform, pause) ==
  LET breakDue == runtime.sinceBreak + 1 >= BreakAfter IN
  [runtime EXCEPT
     !.nextSendAt = NextSend(IF breakDue THEN t + BreakTime ELSE t, platform, pause),
     !.sinceBreak = IF breakDue THEN 0 ELSE @ + 1,
     !.errors = 0]

\* recordFailure and recordUnreceiptedFailure; stopAfterErrors is always 1,
\* so there is no next sending.
Stopped == [runtime EXCEPT !.nextSendAt = NoTime, !.errors = @ + 1]

RecordRuntime(d) ==
  /\ disp[d].pc = "runtime"
  /\ \/ /\ disp[d].ending = "delivered"
        /\ \E pause \in Pauses :
             runtime' = Delivered(disp[d].at, PlatformOf(disp[d].item), pause)
     \/ disp[d].ending \in {"failed", "unreceipted"} /\ runtime' = Stopped
     \/ disp[d].ending = "unconnected" /\ SetNextSend(NoTime)
  /\ EndRun(d)
  /\ UNCHANGED <<clock, tables, inFlight, call, history, queueVars, userTables, journal>>

\* Faulty: whoever holds the lease, it is released.
ReleaseAny(d) ==
  /\ loop = Free
  /\ disp[d].pc = "releasing"
  /\ runtime' = [runtime EXCEPT !.leaseToken = "none", !.leaseUntil = disp[d].at]
  /\ disp' = [disp EXCEPT ![d] = IdleDispatch]
  /\ UNCHANGED <<executorVars, queueVars, userTables, journal>>

\* releaseCandidate, WHERE lease_token is the token of this run.
Release(d) ==
  /\ loop = Free
  /\ disp[d].pc = "releasing"
  /\ runtime' = IF runtime.leaseToken = d
                THEN [runtime EXCEPT !.leaseToken = "none", !.leaseUntil = disp[d].at]
                ELSE runtime
  /\ disp' = [disp EXCEPT ![d] = IdleDispatch]
  /\ UNCHANGED <<executorVars, queueVars, userTables, journal>>

\* What a dispatcher does by itself once it has claimed the candidate.
DispatchStep(d) ==
  \/ DecideGate(d)
  \/ DecideItem(d)
  \/ Continue(d)
  \/ CompleteItem(d)
  \/ RecordRuntime(d)
  \/ Release(d)
  \/ ServerStep(d, CanExecute(d)) /\ UNCHANGED autoVars

Answer(d) ==
  /\ \/ \E outcome \in Outcomes : RunnerAnswers(d, outcome)
     \/ "disconnect" \in Operations /\ NotConnected(d)
  /\ UNCHANGED autoVars

-----------------------------------------------------------------------------
(* The operations of the candidate.  A handler never awaits between its     *)
(* statements, so each is one step; a bulk operation is a run of them.      *)

Performs(operation) == loop = Free /\ operation \in Operations

\* saveSettings: a disabled automation holds no approved row.
SaveSettings(new) ==
  /\ settings' = new
  /\ IF new.enabled THEN UNCHANGED queueVars ELSE ReturnApproved

\* The consent dialog sends all the consents its mode requires.
Enable(mode) ==
  /\ Performs("enable")
  /\ consents' = consents \cup RequiredConsents
                 \cup (IF mode = "automatic" THEN {"automatic_submission"} ELSE {})
  /\ SaveSettings([settings EXCEPT !.enabled = TRUE, !.mode = mode])
  /\ runtime' = MakeReady
  /\ UNCHANGED <<executorVars, stops, journal, disp>>

Disable ==
  /\ Performs("disable")
  /\ SaveSettings([settings EXCEPT !.enabled = FALSE])
  /\ UNCHANGED <<executorVars, consents, stops, runtime, journal, disp>>

SaveRules(rules) ==
  /\ Performs("rules")
  /\ SaveSettings([settings EXCEPT !.rules = rules])
  /\ UNCHANGED <<executorVars, consents, stops, runtime, journal, disp>>

\* Faulty: the automation stays on.
RevokeConsentOnly(key) ==
  /\ Performs("revoke")
  /\ key \in consents
  /\ consents' = consents \ {key}
  /\ UNCHANGED <<executorVars, queueVars, settings, stops, runtime, journal, disp>>

RevokeConsent(key) ==
  /\ Performs("revoke")
  /\ key \in consents
  /\ consents' = consents \ {key}
  /\ SaveSettings([settings EXCEPT !.enabled = FALSE])
  /\ UNCHANGED <<executorVars, stops, runtime, journal, disp>>

SaveSchedule ==
  /\ Performs("schedule")
  /\ runtime' = MakeReady
  /\ UNCHANGED <<executorVars, queueVars, userTables, journal, disp>>

\* pauseAutomation switches the candidate's kill switch on as well.
Pause ==
  /\ Performs("pause")
  /\ kill' = kill \cup {"candidate"}
  /\ SaveSettings([settings EXCEPT !.pausedUntil = clock + PauseTime])
  /\ SetNextSend(clock + PauseTime)
  /\ UNCHANGED <<clock, onBehalf, batch, receipt, used, lastBoost, card,
                 inFlight, call, loop, history, consents, stops, journal, disp>>

Resume ==
  /\ Performs("resume")
  /\ kill' = kill \ {"candidate"}
  /\ SaveSettings([settings EXCEPT !.pausedUntil = NoTime])
  /\ runtime' = [runtime EXCEPT !.emergency = FALSE, !.nextSendAt = clock, !.errors = 0]
  /\ UNCHANGED <<clock, onBehalf, batch, receipt, used, lastBoost, card,
                 inFlight, call, loop, history, consents, stops, journal, disp>>

EmergencyPause ==
  /\ Performs("emergency")
  /\ kill' = kill \cup {"candidate"}
  /\ runtime' = [runtime EXCEPT !.emergency = TRUE, !.nextSendAt = NoTime]
  /\ UNCHANGED <<clock, onBehalf, batch, receipt, used, lastBoost, card, inFlight,
                 call, loop, history, queueVars, userTables, journal, disp>>

\* Faulty: the automatic mode approves a row whatever its letter.
AddItemBlindly(i, version) ==
  LET approved == settings.mode = "automatic" IN
  /\ Performs("add")
  /\ queue[i] = "absent" /\ card[i] = "saved"
  /\ settings.enabled /\ ~Paused(clock)
  /\ RequiredConsents \subseteq consents
  /\ approved => "automatic_submission" \in consents
  /\ MatchesCurrentRules(i)
  /\ rows' = Append(rows, i)
  /\ queue' = [queue EXCEPT ![i] = IF approved THEN "approved"
                                  ELSE IF version = 0 THEN "letter_not_ready"
                                  ELSE "pending_approval"]
  /\ letter' = [letter EXCEPT ![i] = version]
  /\ approval' = [approval EXCEPT ![i] = IF approved THEN "automatic" ELSE "none"]
  /\ touched' = [touched EXCEPT ![i] = clock]
  /\ UNCHANGED <<executorVars, userTables, runtime, journal, disp>>

\* refreshAutomationQueue adds a matching vacancy whose application is still
\* saved; the automatic mode approves it at once if it has a letter.
AddItem(i, version) ==
  LET approved == settings.mode = "automatic" /\ version > 0 IN
  /\ Performs("add")
  /\ queue[i] = "absent" /\ card[i] = "saved"
  /\ settings.enabled /\ ~Paused(clock)
  /\ RequiredConsents \subseteq consents
  /\ settings.mode = "automatic" => "automatic_submission" \in consents
  /\ MatchesCurrentRules(i)
  /\ rows' = Append(rows, i)
  /\ queue' = [queue EXCEPT ![i] = IF version = 0 THEN "letter_not_ready"
                                  ELSE IF approved THEN "approved"
                                  ELSE "pending_approval"]
  /\ letter' = [letter EXCEPT ![i] = version]
  /\ approval' = [approval EXCEPT ![i] = IF approved THEN "automatic" ELSE "none"]
  /\ touched' = [touched EXCEPT ![i] = clock]
  /\ UNCHANGED <<executorVars, userTables, runtime, journal, disp>>

\* updateQueueLetter.
EditLetter(i, version) ==
  /\ Performs("edit")
  /\ queue[i] \in {"pending_approval", "letter_not_ready"}
  /\ queue' = [queue EXCEPT ![i] =
                  IF version = 0 THEN "letter_not_ready" ELSE "pending_approval"]
  /\ letter' = [letter EXCEPT ![i] = version]
  /\ touched' = [touched EXCEPT ![i] = clock]
  /\ UNCHANGED <<executorVars, rows, approval, userTables, runtime, journal, disp>>

Approve(i) ==
  /\ Performs("approve")
  /\ settings.enabled /\ ~Paused(clock)
  /\ RequiredConsents \subseteq consents
  /\ settings.mode # "drafts_only"
  /\ queue[i] = "pending_approval"
  /\ MoveRows({i}, "approved", clock)
  /\ UNCHANGED <<executorVars, userTables, runtime, journal, disp>>

AskConsultant(i) ==
  /\ Performs("consultant")
  /\ queue[i] \in {"pending_approval", "letter_not_ready"}
  /\ MoveRows({i}, "consultant", clock)
  /\ UNCHANGED <<executorVars, userTables, runtime, journal, disp>>

\* Faulty: the journal is not written.
RemoveRowsSilently(gone) ==
  /\ MoveRows(gone, "removed", clock)
  /\ UNCHANGED journal

\* The rows leave the queue with an entry in the journal.
RemoveRows(gone) ==
  /\ MoveRows(gone, "removed", clock)
  /\ journal' = journal \cup {Entry(i, "removed", NoTime, clock, FALSE) : i \in gone}

RemoveItem(i) ==
  /\ Performs("remove")
  /\ queue[i] \in OpenStatus
  /\ RemoveRows({i})
  /\ UNCHANGED <<executorVars, userTables, runtime, disp>>

\* createStopCompany: its open rows are removed.
StopCompany(company) ==
  /\ Performs("stop")
  /\ stops' = stops \cup {company}
  /\ RemoveRows({i \in Items : CompanyOf[i] = company /\ queue[i] \in OpenStatus})
  /\ UNCHANGED <<executorVars, settings, consents, runtime, disp>>

RemoveStopCompany(company) ==
  /\ Performs("stop")
  /\ company \in stops
  /\ stops' = stops \ {company}
  /\ UNCHANGED <<executorVars, queueVars, settings, consents, runtime, journal, disp>>

\* importRejectedCompanies: the company of a rejected application is stopped,
\* the rows of the queue stay as they are.
ImportRejected(company) ==
  /\ Performs("import")
  /\ stops' = stops \cup {company}
  /\ UNCHANGED <<executorVars, queueVars, settings, consents, runtime, journal, disp>>

Companies == {CompanyOf[i] : i \in Items}

CandidateStep ==
  \/ \E mode \in EnableModes : Enable(mode)
  \/ Disable
  \/ \E rules \in RuleSets : SaveRules(rules)
  \/ \E key \in ConsentKeys : RevokeConsent(key)
  \/ SaveSchedule
  \/ Pause
  \/ Resume
  \/ EmergencyPause
  \/ \E i \in Items, version \in Letters : AddItem(i, version) \/ EditLetter(i, version)
  \/ \E i \in Items : Approve(i) \/ AskConsultant(i) \/ RemoveItem(i)
  \/ \E company \in Companies :
       StopCompany(company) \/ RemoveStopCompany(company) \/ ImportRejected(company)

-----------------------------------------------------------------------------
(* The whole: dispatchers, direct calls of the executor, the candidate.     *)

DirectCall(c) ==
  \/ \E r \in Requests : PostBatch(c, r)
  \/ ExecutorStep(c, TRUE)
  \/ Respond(c)

SwitchStep ==
  \/ \E granted \in BOOLEAN : Performs("onBehalf") /\ SetOnBehalf(granted)
  \/ \E scope \in UserScopes, active \in BOOLEAN : ToggleKillSwitch(scope, active)
  \/ \E i \in Items : Performs("card") /\ MoveCard(i)

AutoCrash ==
  /\ "crash" \in Operations
  /\ Crash
  /\ disp' = [d \in Dispatchers |-> IdleDispatch]
  /\ UNCHANGED <<queueVars, userTables, runtime, journal>>

AutoApplyNext ==
  \/ \E d \in Dispatchers : Claim(d) \/ DispatchStep(d) \/ Answer(d)
  \/ \E c \in Callers \ Dispatchers : DirectCall(c) /\ UNCHANGED autoVars
  \/ (SwitchStep \/ Tick) /\ UNCHANGED autoVars
  \/ CandidateStep
  \/ AutoCrash

AutoApplySpec == AutoApplyInit /\ [][AutoApplyNext]_vars

\* Fairness: the event loop serves every continuation that stays ready now and
\* then (strong fairness, since others take the loop in between); the session
\* resolver and the runner, which work under browser timeouts, answer in the
\* end; and the app of the candidate keeps posting /dispatch.
ServeDirectCall(c) ==
  /\ ServerStep(c, TRUE) \/ \E outcome \in Outcomes : RunnerAnswers(c, outcome)
  /\ UNCHANGED autoVars

FairAutoApplySpec ==
  /\ AutoApplySpec
  /\ \A d \in Dispatchers :
       /\ SF_vars(Claim(d))
       /\ SF_vars(DispatchStep(d))
       /\ SF_vars(Answer(d))
  /\ \A c \in Callers \ Dispatchers : SF_vars(ServeDirectCall(c))

-----------------------------------------------------------------------------
(* Properties.                                                              *)

\* Every table and every dispatcher has its type.
EntryType == [item : Items, event : Final \cup {"pending", "removed", "not_connected",
                                               "executor_failure"},
              stamp : Times \cup {NoTime}, day : Nat, attempted : BOOLEAN]

AutoApplyTypeOK ==
  /\ rows \in Seq(Items)
  /\ queue \in [Items -> OpenStatus \cup ClosedStatus \cup {"absent"}]
  /\ letter \in [Items -> Letters]
  /\ approval \in [Items -> {"none", "candidate", "automatic"}]
  /\ touched \in [Items -> Times]
  /\ settings \in [enabled : BOOLEAN, mode : Modes,
                   pausedUntil : Nat \cup {NoTime}, rules : RuleSets]
  /\ consents \subseteq ConsentKeys
  /\ stops \subseteq Companies
  /\ runtime \in [nextSendAt : Nat \cup {NoTime}, errors : Nat, sinceBreak : 0..(BreakAfter - 1),
                  emergency : BOOLEAN, leaseToken : Dispatchers \cup {"none"},
                  leaseUntil : Nat \cup {NoTime}]
  /\ \A e \in journal : e \in EntryType
  /\ disp \in [Dispatchers ->
               [pc : DispatchPcs, item : Items \cup {"none"}, at : Times,
                letter : Letters, ending : Endings \cup {"none"}]]

\* What the queue and the journal tell the candidate is what happened: a row
\* is `sent', and an entry says `delivered', only on a delivered receipt.
SentMeansDelivered ==
  /\ \A i \in Items : queue[i] = "sent" => receipt[i] = "delivered"
  /\ \A e \in journal : e.event = "delivered" => receipt[e.item] = "delivered"

\* No row waits for sending without the right to send it: disabling the
\* automation or revoking a consent takes every approval back, and nothing
\* approves a row, by hand or by the automatic mode, before both are there.
ApprovedNeedsConsent ==
  \A i \in Items : queue[i] = "approved" =>
    settings.enabled /\ RequiredConsents \subseteq consents

\* Every approved row has a letter with text, and an approval that was given
\* after the row was last sent back to review; and no blank letter is handed to
\* the executor, whatever becomes of the row meanwhile.
ApprovedHasText ==
  /\ \A i \in Items : queue[i] = "approved" => approval[i] # "none" /\ letter[i] > 0
  /\ \A d \in Dispatchers : disp[d].pc = "calling" => disp[d].letter > 0

\* The journal explains every row that the dispatcher closed.
ClosedIsJournaled ==
  \A i \in Items : queue[i] \in {"sent", "attempted", "failed", "removed"} =>
    \E e \in journal : e.item = i /\ e.attempted = (queue[i] # "removed")

\* A dispatcher creates the batch of a row only with the row approved, the
\* automation on in the mode with approval, both consents given and no
\* emergency pause: all of it still so after the sessions were awaited, and
\* not just when the row was chosen.
CommitIsAuthorised ==
  [][\A i \in Items : batch[i] = "none" /\ batch'[i] # "none" =>
       /\ queue[i] = "approved" /\ settings.enabled
       /\ settings.mode = "approval_required"
       /\ HasAutomationConsent /\ onBehalf
       /\ ~runtime.emergency]_vars

\* An emergency pause holds at once and until the candidate resumes: no
\* application starts under it, one that was chosen before included, and no
\* write of a dispatcher, which rewrites the whole runtime row after a run, lifts
\* it.  (The kill switch of the scope candidate is left to the pauses: UserScopes
\* does not hold it.)
EmergencyHolds ==
  [][runtime.emergency =>
       /\ \A i \in Items : runs'[i] = runs[i]
       /\ ~runtime'.emergency => runtime'.errors = 0 /\ "candidate" \notin kill']_vars

\* A lease that has not run out is given up by its holder alone, so that a
\* run whose lease was taken over cannot release its successor's.
LeaseHolds ==
  [][(/\ runtime.leaseToken # "none" /\ clock < runtime.leaseUntil
      /\ runtime'.leaseToken # runtime.leaseToken)
       => disp[runtime.leaseToken].pc = "releasing"]_vars

\* The daily limit of the schedule, which is read from the journal, limits what
\* is really started: one dispatcher that is not cut off never starts more
\* applications to a platform in a day, also when a row leaves the queue while
\* it is being sent.  The day is that of the dispatcher's pass.
RunsWithinSchedule ==
  \A day \in Days, platform \in Platforms :
    Cardinality({i \in Items : /\ runs[i] > 0 /\ DayOf(runAt[i]) = day
                               /\ PlatformOf(i) = platform}) <= DailyLimit[platform]

\* No approval is forgotten: as long as the sessions are connected, each row
\* that is approved is sent or taken back, or the candidate or the stop after
\* an error keeps the automation from sending.
SendingStops ==
  \/ ~settings.enabled \/ settings.mode # "approval_required" \/ ~HasAutomationConsent
  \/ Paused(clock) \/ runtime.emergency \/ runtime.errors > 0 \/ ~onBehalf

ApprovedIsAnswered ==
  \A i \in Items :
    queue[i] = "approved" ~>
      queue[i] # "approved" \/ SendingStops

\* Auto-apply implements the promise of Applications: the rows of the queue are
\* what the candidate is told, and batches, receipts and runs what is recorded
\* of the fact.
ToldOf(i) ==
  CASE queue[i] \in {"letter_not_ready", "pending_approval"} -> "prepared"
    [] queue[i] \in {"removed", "consultant"} -> "withdrawn"
    [] OTHER -> queue[i]

\* Once a run has started, the fact is what its receipt says: `failed' is also
\* a run that threw, a delivery without confirmation, and an attempt that came
\* back with the code of a stop, whether or not the application arrived.
FactOf(i) ==
  IF runs[i] > 0
  THEN IF receipt[i] = "pending" THEN "handed" ELSE receipt[i]
  ELSE IF batch[i] = "none" THEN "none"
  ELSE IF receipt[i] \in Final THEN "refused" ELSE "committed"

App == INSTANCE Applications WITH
  told <- [i \in Items |-> ToldOf(i)], fact <- [i \in Items |-> FactOf(i)]

\* No application is committed to without approval, none is handed over twice,
\* whatever is repeated, overlaps or crashes, and the candidate is told what was
\* recorded of each: never `sent' without a confirmed delivery, never `failed'
\* while the outcome is open, and never `attempted' of a recorded failure of its
\* own run.
KeepsPromise == App!Spec
=============================================================================
