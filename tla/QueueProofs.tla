------------------------------ MODULE QueueProofs ------------------------------
(***************************************************************************)
(* Proofs about the queue of AutoApply: the right to send, the letters, and *)
(* what the rows and the journal say of the receipts; and what the steps of *)
(* the candidate and of the dispatchers may never do.                       *)
(***************************************************************************)
EXTENDS AutoApplyProofs

-----------------------------------------------------------------------------
(* The queue, the settings and the journal.                                 *)

\* A row in review has text as well, so that an approval finds it.
ReviewHasText == \A i \in Items : queue[i] = "pending_approval" => letter[i] > 0

\* What the executor made of an item is journaled as an attempt.
AttemptsAreMarked ==
  \A e \in journal : e.event \in Final \cup {"pending"} => e.attempted

QueueInv ==
  /\ ApprovedNeedsConsent
  /\ ApprovedHasText /\ ReviewHasText
  /\ SentMeansDelivered
  /\ ClosedIsJournaled /\ AttemptsAreMarked

\* No row is approved once the approvals are taken back, and none that was not
\* approved is touched.
LEMMA Returned ==
  ASSUME TypedParts, ReturnApproved
  PROVE  \A i \in Items :
           /\ queue'[i] = IF queue[i] = "approved" THEN "pending_approval" ELSE queue[i]
           /\ letter'[i] = letter[i]
           /\ queue[i] # "approved" => approval'[i] = approval[i]
  BY DEF TypedParts, QueueTypeOK, ReturnApproved, MoveRows, ClosedStatus

\* Saving settings touches approved rows only, and none when the automation is on.
LEMMA Saved ==
  ASSUME TypedParts, NEW new, SaveSettings(new)
  PROVE  /\ settings' = new
         /\ \A i \in Items : queue'[i] = "approved" =>
              new.enabled /\ queue[i] = "approved" /\ approval'[i] = approval[i]
         /\ \A i \in Items : queue'[i] # queue[i] =>
              queue[i] = "approved" /\ queue'[i] = "pending_approval"
         /\ \A i \in Items : letter'[i] = letter[i]
<1>1. CASE new.enabled
  BY <1>1 DEF SaveSettings, queueVars
<1>2. CASE ~new.enabled
  BY <1>2, Returned DEF SaveSettings
<1>3. QED
  BY <1>1, <1>2

\* What the settings, the queue and the consents are after a step that does not
\* close a row: this is all that decides the right to send.
LEMMA ConsentStep ==
  ASSUME AutoInv, ApprovedNeedsConsent, [AutoApplyNext]_vars
  PROVE  ApprovedNeedsConsent'
<1>a. TypedParts /\ queue \in [Items -> OpenStatus \cup ClosedStatus \cup {"absent"}]
      /\ settings \in SettingsType
  BY TypeParts DEF AutoInv, TypedParts, QueueTypeOK
<1>b. ASSUME UNCHANGED <<queue, settings, consents>> PROVE ApprovedNeedsConsent'
  BY <1>b DEF ApprovedNeedsConsent
<1>d. ASSUME NEW moved, NEW status \in (OpenStatus \cup ClosedStatus) \ {"approved"}, NEW t,
             MoveRows(moved, status, t), UNCHANGED <<settings, consents>>
      PROVE  ApprovedNeedsConsent'
  BY <1>a, <1>d DEF MoveRows, ApprovedNeedsConsent
<1>1. CASE \E d \in Dispatchers : DispatcherMove(d)
  <2>1. PICK d \in Dispatchers : DispatcherMove(d)
    BY <1>1
  <2>2. CASE CompleteItem(d)
    <3>1. disp[d].item \in Actions /\ receipt[disp[d].item] \in Final \cup {"pending"}
      BY <2>2, AutoApplyAssumption
         DEF CompleteItem, AutoInv, DispatchInv, BatchInv, ExecutorInv, ExecutorTypeOK
    <3>2. SettledAs(receipt[disp[d].item]) \in (OpenStatus \cup ClosedStatus) \ {"approved"}
      BY <3>1 DEF SettledAs, ClosedStatus, OpenStatus, Final
    <3>3. QED
      BY <2>2, <3>2, <1>b, <1>d DEF CompleteItem, queueVars, userTables
  <2>3. CASE ~CompleteItem(d)
    BY <1>b, <2>1, <2>3 DEF DispatcherMove, Claim, DecideGate, DecideItem, Continue,
       RecordRuntime, Release, queueVars, userTables
  <2>4. QED
    BY <2>2, <2>3
<1>2. CASE \E mode \in EnableModes : Enable(mode)
  <2>1. PICK mode \in EnableModes : Enable(mode)
    BY <1>2
  <2>2. RequiredConsents \subseteq consents' /\ settings'.enabled
    BY <2>1, <1>a DEF Enable, SaveSettings, SettingsType
  <2>3. QED
    BY <2>2 DEF ApprovedNeedsConsent
<1>3. CASE Disable \/ \E key \in ConsentKeys : RevokeConsent(key)
  <2>1. SaveSettings([settings EXCEPT !.enabled = FALSE])
    BY <1>3 DEF Disable, RevokeConsent
  <2>2. QED
    BY <1>a, <2>1, Saved DEF ApprovedNeedsConsent, SettingsType
<1>4. CASE (\E rules \in RuleSets : SaveRules(rules)) \/ Pause \/ Resume
  <2>1. SaveSettings(settings') /\ settings'.enabled = settings.enabled
    <3>1. CASE \E rules \in RuleSets : SaveRules(rules)
      BY <3>1, <1>a DEF SaveRules, SaveSettings, SettingsType
    <3>2. CASE Pause
      BY <3>2, <1>a DEF Pause, SaveSettings, SettingsType
    <3>3. CASE Resume
      BY <3>3, <1>a DEF Resume, SaveSettings, SettingsType
    <3>4. QED
      BY <1>4, <3>1, <3>2, <3>3
  <2>2. consents' = consents
    BY <1>4 DEF SaveRules, Pause, Resume
  <2>3. QED
    BY <1>a, <2>1, <2>2, Saved DEF ApprovedNeedsConsent
<1>5. CASE SaveSchedule \/ EmergencyPause
           \/ \E company \in Companies : RemoveStopCompany(company) \/ ImportRejected(company)
  BY <1>5, <1>b DEF SaveSchedule, EmergencyPause, RemoveStopCompany, ImportRejected, queueVars, userTables
<1>6. CASE \E i \in Items, version \in Letters : AddItem(i, version) \/ EditLetter(i, version)
  BY <1>6, <1>a DEF AddItem, EditLetter, userTables, ApprovedNeedsConsent
<1>7. CASE \E i \in Items : Approve(i)
  BY <1>7, <1>a DEF Approve, MoveRows, userTables, ApprovedNeedsConsent
<1>8. CASE \/ \E i \in Items : AskConsultant(i) \/ RemoveItem(i)
           \/ \E company \in Companies : StopCompany(company)
  BY <1>8, <1>d DEF AskConsultant, RemoveItem, StopCompany, RemoveRows, userTables, OpenStatus,
     ClosedStatus
<1>9. CASE AutoCrash \/ UNCHANGED autoVars
  BY <1>9, <1>b DEF AutoCrash, autoVars, queueVars, userTables
<1>10. QED
  BY <1>1, <1>2, <1>3, <1>4, <1>5, <1>6, <1>7, <1>8, <1>9, AutoCases
     DEF CandidateStep, DispatcherCall, vars

-----------------------------------------------------------------------------
(* What can become of the rows and the journal.                             *)

\* The candidate's ways to change rows: approvals are taken back, open rows are
\* removed with an entry in the journal, one in review is approved, one goes to a
\* consultant, a row is added or its letter is edited.
CandidateRows ==
  \/ ReturnApproved /\ UNCHANGED journal
  \/ \E gone \in SUBSET Items : (\A i \in gone : queue[i] \in OpenStatus) /\ RemoveRows(gone)
  \/ \E i \in Items : /\ queue[i] = "pending_approval"
                      /\ MoveRows({i}, "approved", clock) /\ UNCHANGED journal
  \/ \E i \in Items : /\ queue[i] \in {"pending_approval", "letter_not_ready"}
                      /\ MoveRows({i}, "consultant", clock) /\ UNCHANGED journal
  \/ \E i \in Items, version \in Letters : AddItem(i, version) \/ EditLetter(i, version)

\* A step changes the rows as the candidate does, the tables of the executor
\* left alone; or it completes a row; or it leaves the rows as they are and at
\* most journals a failure.
LEMMA QueueCases ==
  ASSUME [AutoApplyNext]_vars
  PROVE  \/ UNCHANGED <<queueVars, journal>>
         \/ UNCHANGED queueVars /\ \E d \in Dispatchers : Continue(d)
         \/ \E d \in Dispatchers : CompleteItem(d)
         \/ CandidateRows /\ UNCHANGED <<batch, receipt, history, disp, call>>
<1> DEFINE Frame == UNCHANGED <<batch, receipt, history, disp, call>>
<1>a. CandidateStep => Frame
  BY CandidateFrame DEF history
<1>1. CASE \E d \in Dispatchers : DispatcherMove(d)
  <2>1. PICK d \in Dispatchers : DispatcherMove(d)
    BY <1>1
  <2>2. CASE Claim(d) \/ DecideGate(d) \/ DecideItem(d) \/ RecordRuntime(d) \/ Release(d)
    BY <2>2 DEF Claim, DecideGate, DecideItem, RecordRuntime, Release
  <2>3. CASE Continue(d)
    BY <2>3 DEF Continue
  <2>4. QED
    BY <2>1, <2>2, <2>3 DEF DispatcherMove
<1>2. CASE CandidateStep
  <2>1. CASE \/ \E mode \in EnableModes : Enable(mode)
             \/ Disable
             \/ \E rules \in RuleSets : SaveRules(rules)
             \/ \E key \in ConsentKeys : RevokeConsent(key)
             \/ Pause \/ Resume
    <3>1. UNCHANGED journal /\ (ReturnApproved \/ UNCHANGED queueVars)
      BY <2>1 DEF Enable, Disable, SaveRules, RevokeConsent, Pause, Resume, SaveSettings
    <3>2. QED
      BY <1>2, <1>a, <3>1 DEF CandidateRows
  <2>2. CASE \/ SaveSchedule \/ EmergencyPause
             \/ \E company \in Companies : RemoveStopCompany(company) \/ ImportRejected(company)
    BY <2>2 DEF SaveSchedule, EmergencyPause, RemoveStopCompany, ImportRejected
  <2>3. CASE \E i \in Items, version \in Letters : AddItem(i, version) \/ EditLetter(i, version)
    BY <1>2, <1>a, <2>3 DEF CandidateRows
  <2>4. CASE \E i \in Items : Approve(i) \/ AskConsultant(i)
    BY <1>2, <1>a, <2>4 DEF CandidateRows, Approve, AskConsultant
  <2>5. CASE \E i \in Items : RemoveItem(i)
    <3>1. PICK i \in Items : RemoveItem(i)
      BY <2>5
    <3>2. queue[i] \in OpenStatus /\ RemoveRows({i}) /\ {i} \in SUBSET Items
      BY <3>1 DEF RemoveItem
    <3>3. QED
      BY <1>2, <1>a, <3>2 DEF CandidateRows
  <2>6. CASE \E company \in Companies : StopCompany(company)
    <3>1. PICK company \in Companies : StopCompany(company)
      BY <2>6
    <3>2. RemoveRows({i \in Items : CompanyOf[i] = company /\ queue[i] \in OpenStatus})
      BY <3>1 DEF StopCompany
    <3>3. QED
      BY <1>2, <1>a, <3>2 DEF CandidateRows
  <2>7. QED
    BY <1>2, <2>1, <2>2, <2>3, <2>4, <2>5, <2>6 DEF CandidateStep
<1>3. CASE UNCHANGED autoVars \/ AutoCrash
  BY <1>3 DEF autoVars, AutoCrash
<1>4. QED
  BY <1>1, <1>2, <1>3, AutoCases DEF DispatcherCall, vars

\* Approved rows have text and an approval, and so have the letters that are
\* handed to the executor.
LEMMA TextStep ==
  ASSUME AutoInv, ApprovedHasText, ReviewHasText, [AutoApplyNext]_vars
  PROVE  ApprovedHasText' /\ ReviewHasText'
<1>a. /\ TypedParts /\ letter \in [Items -> Letters]
      /\ queue \in [Items -> OpenStatus \cup ClosedStatus \cup {"absent"}]
      /\ approval \in [Items -> {"none", "candidate", "automatic"}]
      /\ disp \in [Dispatchers -> DispatchType]
      /\ Letters \subseteq Nat
  BY TypeParts, AutoApplyAssumption DEF AutoInv, TypedParts, QueueTypeOK, Letters
<1>1. \A i \in Items :
        /\ queue'[i] = "approved" => approval'[i] # "none" /\ letter'[i] > 0
        /\ queue'[i] = "pending_approval" => letter'[i] > 0
  <2>1. CASE UNCHANGED queueVars
    BY <2>1 DEF queueVars, ApprovedHasText, ReviewHasText
  <2>2. CASE \E d \in Dispatchers : CompleteItem(d)
    <3>1. PICK d \in Dispatchers : CompleteItem(d)
      BY <2>2
    <3>2. UNCHANGED queueVars \/ MoveRows({disp[d].item}, SettledAs(receipt[disp[d].item]), disp[d].at)
      BY <3>1 DEF CompleteItem
    <3>3. disp[d].item \in Actions /\ receipt[disp[d].item] \in Final \cup {"pending"}
      BY <3>1, AutoApplyAssumption
         DEF CompleteItem, AutoInv, DispatchInv, BatchInv, ExecutorInv, ExecutorTypeOK
    <3>4. SettledAs(receipt[disp[d].item]) \notin {"approved", "pending_approval"}
      BY <3>3 DEF SettledAs, Final
    <3>5. QED
      BY <1>a, <3>2, <3>4, <2>1 DEF MoveRows, ApprovedHasText, ReviewHasText
  <2>3. CASE CandidateRows
    <3>1. CASE ReturnApproved
      BY <1>a, <3>1, Returned DEF ApprovedHasText, ReviewHasText
    <3>2. CASE \E gone \in SUBSET Items : RemoveRows(gone)
      BY <1>a, <3>2 DEF RemoveRows, MoveRows, ApprovedHasText, ReviewHasText
    <3>3. CASE \E i \in Items : queue[i] = "pending_approval" /\ MoveRows({i}, "approved", clock)
      BY <1>a, <3>3 DEF MoveRows, ClosedStatus, ApprovedHasText, ReviewHasText
    <3>4. CASE \E i \in Items : MoveRows({i}, "consultant", clock)
      BY <1>a, <3>4 DEF MoveRows, ApprovedHasText, ReviewHasText
    <3>5. CASE \E i \in Items, version \in Letters : AddItem(i, version) \/ EditLetter(i, version)
      BY <1>a, <3>5 DEF AddItem, EditLetter, ApprovedHasText, ReviewHasText
    <3>6. QED
      BY <2>3, <3>1, <3>2, <3>3, <3>4, <3>5 DEF CandidateRows
  <2>4. QED
    BY <2>1, <2>2, <2>3, QueueCases
<1>2. \A d \in Dispatchers : disp'[d].pc = "calling" => disp'[d].letter > 0
  <2> SUFFICES ASSUME NEW e \in Dispatchers, disp'[e].pc = "calling"
               PROVE  disp'[e].letter > 0
    OBVIOUS
  <2>1. CASE disp'[e] = disp[e]
    BY <2>1 DEF ApprovedHasText
  <2>2. CASE \E d \in Dispatchers : DispatcherMove(d)
    <3>1. PICK d \in Dispatchers : DispatcherMove(d)
      BY <2>2
    <3>2. CASE DecideItem(d) /\ e = d
      <4>1. PICK i \in Items : /\ NextApproved(i)
                               /\ \/ disp' = [disp EXCEPT ![d].pc = "calling", ![d].item = i,
                                                          ![d].letter = letter[i]]
                                  \/ disp' = [disp EXCEPT ![d].pc = "settle", ![d].item = i]
                                  \/ disp' = [disp EXCEPT ![d].pc = "releasing"]
        BY <3>2 DEF DecideItem, EndAt, EndRun, DispatchGoTo
      <4>2. queue[i] = "approved"
        BY <4>1 DEF NextApproved, ApprovedPlaces
      <4>3. disp'[e].letter = letter[i]
        BY <1>a, <3>2, <4>1 DEF DispatchType
      <4>4. QED
        BY <4>2, <4>3 DEF ApprovedHasText
    <3>3. CASE ~DecideItem(d) /\ e = d
      <4>1. ASSUME NEW pc, DispatchGoTo(d, pc) PROVE disp'[d].pc = pc
        BY <1>a, <4>1 DEF DispatchGoTo, DispatchType
      <4>2. ASSUME NEW ending, disp' = [disp EXCEPT ![d].pc = "runtime", ![d].ending = ending]
            PROVE  disp'[d].pc = "runtime"
        BY <1>a, <4>2 DEF DispatchType
      <4>3. CASE Claim(d) \/ Release(d)
        <5>1. CASE Claim(d)
          <6>1. disp'[d] = [IdleDispatch EXCEPT !.pc = "deciding", !.at = clock]
            BY <1>a, <5>1 DEF Claim
          <6>2. QED
            BY <3>3, <6>1 DEF IdleDispatch
        <5>2. CASE Release(d)
          BY <1>a, <3>3, <5>2 DEF Release, IdleDispatch
        <5>3. QED
          BY <4>3, <5>1, <5>2
      <4>4. CASE DecideGate(d) \/ RecordRuntime(d) \/ Continue(d)
        <5>1. \/ \E pc \in {"releasing", "settle"} : DispatchGoTo(d, pc)
              \/ \E ending : disp' = [disp EXCEPT ![d].pc = "runtime", ![d].ending = ending]
          <6>1. CASE DecideGate(d)
            BY <6>1 DEF DecideGate, EndAt, EndRun
          <6>2. CASE RecordRuntime(d)
            BY <6>2 DEF RecordRuntime, EndRun
          <6>3. CASE Continue(d)
            <7>1. \/ EndRun(d) \/ DispatchGoTo(d, "settle")
                  \/ \E event, attempted, ending : JournalFailure(d, event, attempted, ending)
              BY <6>3 DEF Continue, EndAt
            <7>2. QED
              BY <7>1 DEF EndRun, JournalFailure
          <6>4. QED
            BY <4>4, <6>1, <6>2, <6>3
        <5>2. QED
          BY <3>3, <4>1, <4>2, <5>1
      <4>5. CASE CompleteItem(d)
        BY <3>3, <4>2, <4>5 DEF CompleteItem
      <4>6. QED
        BY <3>1, <3>3, <4>3, <4>4, <4>5 DEF DispatcherMove
    <3>4. CASE e # d
      <4>1. disp'[e] = disp[e]
        BY <3>1, <3>4, DispatcherPlaces DEF AutoInv, BatchInv
      <4>2. QED
        BY <2>1, <4>1
    <3>5. QED
      BY <3>2, <3>3, <3>4
  <2>3. CASE AutoCrash
    BY <2>3 DEF AutoCrash, IdleDispatch
  <2>4. CASE UNCHANGED disp
    BY <2>1, <2>4
  <2>5. QED
    BY <2>2, <2>3, <2>4, AutoCases, CandidateFrame DEF DispatcherCall, autoVars, vars
<1>3. QED
  BY <1>1, <1>2 DEF ApprovedHasText, ReviewHasText

\* A row is `sent', and an entry says so, only when the receipt said so, and a
\* receipt that has said it says it for ever.
LEMMA SentStep ==
  ASSUME AutoInv, SentMeansDelivered, [AutoApplyNext]_vars
  PROVE  SentMeansDelivered'
<1>a. /\ TypedParts /\ queue \in [Items -> OpenStatus \cup ClosedStatus \cup {"absent"}]
      /\ \A e \in journal : e \in EntryType
      /\ Items \subseteq Actions
  BY TypeParts, AutoApplyAssumption DEF AutoInv, TypedParts, QueueTypeOK
<1>b. \A i \in Items : receipt[i] = "delivered" => receipt'[i] = "delivered"
  BY <1>a, AutoInvStep, FinalKept DEF AutoInv, BatchInv, ExecutorInv, Final
<1>c. \A e \in journal : e.item \in Items
  BY <1>a DEF EntryType
\* What is new must be true.
<1>d. ASSUME \A i \in Items : queue'[i] = "sent" => queue[i] = "sent" \/ receipt[i] = "delivered",
             \A e \in journal' : e \in journal \/ e.event # "delivered"
                                 \/ (e.item \in Items /\ receipt[e.item] = "delivered")
      PROVE  SentMeansDelivered'
  BY <1>b, <1>c, <1>d DEF SentMeansDelivered
<1>1. CASE UNCHANGED <<queueVars, journal>>
  BY <1>1, <1>d DEF queueVars
<1>2. CASE UNCHANGED queueVars /\ \E d \in Dispatchers : Continue(d)
  <2>1. PICK d \in Dispatchers : Continue(d)
    BY <1>2
  <2>2. \/ journal' = journal
        \/ \E event \in {"not_connected", "executor_failure"}, attempted \in BOOLEAN :
             journal' = Journaled(Entry(disp[d].item, event, disp[d].at, disp[d].at, attempted))
    BY <2>1 DEF Continue, JournalFailure
  <2>3. \A e \in journal' : e \in journal \/ e.event # "delivered"
    BY <2>2 DEF Journaled, Entry
  <2>4. QED
    BY <1>2, <2>3, <1>d DEF queueVars
<1>3. CASE \E d \in Dispatchers : CompleteItem(d)
  <2>1. PICK d \in Dispatchers : CompleteItem(d)
    BY <1>3
  <2> DEFINE i == disp[d].item
  <2>2. i \in Items /\ receipt[i] \in Final \cup {"pending"}
    BY <1>a, <2>1 DEF CompleteItem, AutoInv, DispatchInv, BatchInv, ExecutorInv, ExecutorTypeOK
  <2>3. SettledAs(receipt[i]) = "sent" => receipt[i] = "delivered"
    BY <2>2 DEF SettledAs, Final
  <2>4. /\ UNCHANGED queueVars \/ MoveRows({i}, SettledAs(receipt[i]), disp[d].at)
        /\ journal' = Journaled(Entry(i, receipt[i], NoTime, disp[d].at, TRUE))
    BY <2>1 DEF CompleteItem
  <2>5. \A j \in Items : queue'[j] = "sent" => queue[j] = "sent" \/ receipt[j] = "delivered"
    BY <2>3, <2>4 DEF queueVars, MoveRows
  <2>6. \A e \in journal' : e \in journal \/ (e.item = i /\ e.event = receipt[i])
    BY <2>4 DEF Journaled, Entry
  <2>7. QED
    BY <2>2, <2>5, <2>6, <1>d
<1>4. CASE CandidateRows
  <2>1. \A i \in Items : queue'[i] = "sent" => queue[i] = "sent"
    <3>1. CASE ReturnApproved
      BY <1>a, <3>1, Returned
    <3>2. CASE \E gone \in SUBSET Items : RemoveRows(gone)
      BY <3>2 DEF RemoveRows, MoveRows
    <3>3. CASE \E i \in Items : MoveRows({i}, "approved", clock) \/ MoveRows({i}, "consultant", clock)
      BY <3>3 DEF MoveRows
    <3>4. CASE \E i \in Items, version \in Letters : AddItem(i, version) \/ EditLetter(i, version)
      BY <1>a, <3>4 DEF AddItem, EditLetter
    <3>5. QED
      BY <1>4, <3>1, <3>2, <3>3, <3>4 DEF CandidateRows
  <2>2. \A e \in journal' : e \in journal \/ e.event = "removed"
    <3>1. journal' = journal \/ \E gone : RemoveRows(gone)
      BY <1>4 DEF CandidateRows, AddItem, EditLetter
    <3>2. QED
      BY <3>1 DEF RemoveRows, Entry
  <2>3. QED
    BY <2>1, <2>2, <1>d
<1>5. QED
  BY <1>1, <1>2, <1>3, <1>4, QueueCases

\* The journal only grows, and each row is closed together with its entry.
LEMMA JournalStep ==
  ASSUME AutoInv, ClosedIsJournaled, AttemptsAreMarked, [AutoApplyNext]_vars
  PROVE  ClosedIsJournaled' /\ AttemptsAreMarked'
<1>a. /\ TypedParts /\ queue \in [Items -> OpenStatus \cup ClosedStatus \cup {"absent"}]
      /\ Items \subseteq Actions
  BY TypeParts, AutoApplyAssumption DEF AutoInv, TypedParts, QueueTypeOK
<1>c. \A e \in journal : e.event \in Final \cup {"pending"} => e.attempted = TRUE
  <2>1. \A e \in journal : e \in EntryType
    BY <1>a DEF TypedParts
  <2>2. QED
    BY <2>1 DEF AttemptsAreMarked, EntryType
<1> DEFINE Closed == {"sent", "attempted", "failed", "removed"}
           Told(i, attempted) == \E e \in journal' : e.item = i /\ e.attempted = attempted
\* It suffices that old entries stay, that new ones are marked, and that each
\* row that is newly closed has its entry.
<1>b. ASSUME journal \subseteq journal',
             \A e \in journal' : e \in journal \/ e.event \notin Final \cup {"pending"} \/ e.attempted,
             \A i \in Items : queue'[i] \in Closed =>
               queue'[i] = queue[i] \/ Told(i, queue'[i] # "removed")
      PROVE  ClosedIsJournaled' /\ AttemptsAreMarked'
  <2>1. AttemptsAreMarked'
    BY <1>b DEF AttemptsAreMarked
  <2>2. ASSUME NEW i \in Items, queue'[i] \in Closed
        PROVE  Told(i, queue'[i] # "removed")
    BY <1>b, <2>2 DEF ClosedIsJournaled
  <2>3. QED
    BY <2>1, <2>2 DEF ClosedIsJournaled
<1>1. CASE UNCHANGED <<queueVars, journal>>
  BY <1>1, <1>b DEF queueVars
<1>2. CASE UNCHANGED queueVars /\ \E d \in Dispatchers : Continue(d)
  <2>1. PICK d \in Dispatchers : Continue(d)
    BY <1>2
  <2>2. \/ journal' = journal
        \/ \E event \in {"not_connected", "executor_failure"}, attempted \in BOOLEAN :
             journal' = Journaled(Entry(disp[d].item, event, disp[d].at, disp[d].at, attempted))
    BY <2>1 DEF Continue, JournalFailure
  <2>3. /\ journal \subseteq journal'
        /\ \A e \in journal' : e \in journal \/ e.event \in {"not_connected", "executor_failure"}
    BY <2>2 DEF Journaled, Entry
  <2>4. QED
    BY <1>2, <2>3, <1>b DEF queueVars, Final
<1>3. CASE \E d \in Dispatchers : CompleteItem(d)
  <2>1. PICK d \in Dispatchers : CompleteItem(d)
    BY <1>3
  <2> DEFINE i == disp[d].item
             e == Entry(i, receipt[i], NoTime, disp[d].at, TRUE)
  <2>2. i \in Items /\ receipt[i] \in Final \cup {"pending"}
    BY <1>a, <2>1 DEF CompleteItem, AutoInv, DispatchInv, BatchInv, ExecutorInv, ExecutorTypeOK
  <2>3. SettledAs(receipt[i]) # "removed"
    BY <2>2 DEF SettledAs, Final
  <2>4. /\ UNCHANGED queueVars \/ MoveRows({i}, SettledAs(receipt[i]), disp[d].at)
        /\ journal' = Journaled(e)
    BY <2>1 DEF CompleteItem
  <2>5. /\ e.item = i /\ e.event = receipt[i] /\ e.attempted = TRUE
        /\ journal \subseteq journal' /\ \A f \in journal' : f \in journal \/ f = e
    BY <2>4 DEF Journaled, Entry
  <2>6. Told(i, TRUE)
    <3>1. CASE e \in journal'
      BY <2>5, <3>1
    <3>2. CASE \E f \in journal : f.item = e.item /\ f.event = e.event
      <4>1. PICK f \in journal : f.item = i /\ f.event = receipt[i]
        BY <2>5, <3>2
      <4>2. f.attempted = TRUE /\ f \in journal'
        BY <2>2, <2>5, <4>1, <1>c
      <4>3. QED
        BY <4>1, <4>2
    <3>3. QED
      BY <2>4, <3>1, <3>2 DEF Journaled
  <2>7. \A j \in Items : queue'[j] \in Closed => queue'[j] = queue[j] \/ (j = i /\ queue'[j] # "removed")
    BY <2>3, <2>4 DEF queueVars, MoveRows
  <2> HIDE DEF i, e
  <2>8. QED
    BY <2>5, <2>6, <2>7, <1>b
<1>4. CASE CandidateRows
  <2>1. CASE ReturnApproved /\ UNCHANGED journal
    BY <1>a, <2>1, <1>b, Returned
  <2>2. CASE \E gone \in SUBSET Items : RemoveRows(gone)
    <3>1. PICK gone \in SUBSET Items : RemoveRows(gone)
      BY <2>2
    <3>2. \A i \in gone : Entry(i, "removed", NoTime, clock, FALSE) \in journal'
      BY <3>1 DEF RemoveRows
    <3>3. \A i \in gone : Told(i, FALSE)
      BY <3>2 DEF Entry
    <3>4. /\ journal \subseteq journal'
          /\ \A e \in journal' : e \in journal \/ e.event = "removed"
      BY <3>1 DEF RemoveRows, Entry
    <3>5. \A i \in Items : queue'[i] = IF i \in gone THEN "removed" ELSE queue[i]
      BY <3>1 DEF RemoveRows, MoveRows
    <3>6. QED
      BY <3>3, <3>4, <3>5, <1>b DEF Final
  <2>3. CASE /\ \E i \in Items : MoveRows({i}, "approved", clock) \/ MoveRows({i}, "consultant", clock)
             /\ UNCHANGED journal
    BY <2>3, <1>b DEF MoveRows
  <2>4. CASE \E i \in Items, version \in Letters : AddItem(i, version) \/ EditLetter(i, version)
    BY <1>a, <2>4, <1>b DEF AddItem, EditLetter
  <2>5. QED
    BY <1>4, <2>1, <2>2, <2>3, <2>4 DEF CandidateRows
<1>5. QED
  BY <1>1, <1>2, <1>3, <1>4, QueueCases

LEMMA QueueInvInit == AutoApplyInit => QueueInv
  BY DEF AutoApplyInit, IdleDispatch, QueueInv, ApprovedNeedsConsent, ApprovedHasText, ReviewHasText,
         SentMeansDelivered, ClosedIsJournaled, AttemptsAreMarked

LEMMA QueueInvStep ==
  ASSUME AutoInv, QueueInv, [AutoApplyNext]_vars
  PROVE  QueueInv'
<1>1. ApprovedNeedsConsent'
  BY ConsentStep DEF QueueInv
<1>2. ApprovedHasText' /\ ReviewHasText'
  BY TextStep DEF QueueInv
<1>3. SentMeansDelivered'
  BY SentStep DEF QueueInv
<1>4. ClosedIsJournaled' /\ AttemptsAreMarked'
  BY JournalStep DEF QueueInv
<1>5. QED
  BY <1>1, <1>2, <1>3, <1>4 DEF QueueInv

\* QueueInv holds throughout, on top of AutoInv.
THEOREM QueueInvHolds == AutoApplySpec => [](AutoInv /\ QueueInv)
<1>1. AutoApplyInit => AutoInv /\ QueueInv
  BY AutoInvInit, QueueInvInit
<1>2. AutoInv /\ QueueInv /\ [AutoApplyNext]_vars => (AutoInv /\ QueueInv)'
  BY AutoInvStep, QueueInvStep
<1>3. QED
  BY <1>1, <1>2, PTL DEF AutoApplySpec

\* No row waits for sending unless the automation is on and the consents that it
\* requires are given: whatever disables the one or revokes the other takes every
\* approval back.
THEOREM ApprovalsAreConsented == AutoApplySpec => []ApprovedNeedsConsent
<1>1. QueueInv => ApprovedNeedsConsent
  BY DEF QueueInv
<1>2. QED
  BY <1>1, QueueInvHolds, PTL

\* Every approved row has an approval and a letter with text, and no blank letter
\* is on its way to the executor.
THEOREM LettersHaveText == AutoApplySpec => []ApprovedHasText
<1>1. QueueInv => ApprovedHasText
  BY DEF QueueInv
<1>2. QED
  BY <1>1, QueueInvHolds, PTL

\* What the queue and the journal call sent was confirmed as delivered.
THEOREM SentIsDelivered == AutoApplySpec => []SentMeansDelivered
<1>1. QueueInv => SentMeansDelivered
  BY DEF QueueInv
<1>2. QED
  BY <1>1, QueueInvHolds, PTL

\* The journal has an entry for every row that was closed, an attempt or not as
\* the row says.
THEOREM ClosingIsJournaled == AutoApplySpec => []ClosedIsJournaled
<1>1. QueueInv => ClosedIsJournaled
  BY DEF QueueInv
<1>2. QED
  BY <1>1, QueueInvHolds, PTL

-----------------------------------------------------------------------------
(* Who writes the runtime row.                                              *)

\* The lease is taken by a claim and given up by a release; the emergency pause
\* is set and lifted by the candidate.
LEMMA RuntimeMoves ==
  ASSUME AutoInv, [AutoApplyNext]_vars
  PROVE  /\ \/ \E d \in Dispatchers : Claim(d) \/ Release(d)
            \/ runtime'.leaseToken = runtime.leaseToken /\ runtime'.leaseUntil = runtime.leaseUntil
         /\ EmergencyPause \/ Resume \/ runtime'.emergency = runtime.emergency
<1>a. runtime \in RuntimeType
  BY TypeParts DEF AutoInv, TypedParts
<1> DEFINE Kept == /\ runtime'.leaseToken = runtime.leaseToken
                   /\ runtime'.leaseUntil = runtime.leaseUntil
                   /\ runtime'.emergency = runtime.emergency
<1>b. \A t : SetNextSend(t) => Kept
  BY <1>a DEF SetNextSend, RuntimeType
<1>c. runtime' = MakeReady => Kept
  BY <1>a DEF MakeReady, RuntimeType
<1>d. UNCHANGED runtime => Kept
  OBVIOUS
<1>1. CASE \E d \in Dispatchers : Claim(d) \/ Release(d)
  <2>1. PICK d \in Dispatchers : Claim(d) \/ Release(d)
    BY <1>1
  <2>2. runtime'.emergency = runtime.emergency
    BY <1>a, <2>1 DEF Claim, Release, RuntimeType
  <2>3. QED
    BY <1>1, <2>2
<1>2. CASE \E d \in Dispatchers : DecideGate(d) \/ DecideItem(d) \/ Continue(d)
  <2>1. UNCHANGED runtime \/ \E t : SetNextSend(t)
    <3>1. CASE \E d \in Dispatchers : DecideGate(d)
      BY <3>1 DEF DecideGate, EndAt
    <3>2. CASE \E d \in Dispatchers : DecideItem(d)
      BY <3>2 DEF DecideItem, EndAt
    <3>3. CASE \E d \in Dispatchers : Continue(d)
      <4>1. PICK d \in Dispatchers : Continue(d)
        BY <3>3
      <4>2. \/ \E t : EndAt(d, t)
            \/ \E event, attempted, ending : JournalFailure(d, event, attempted, ending)
            \/ UNCHANGED runtime
        BY <4>1 DEF Continue
      <4>3. QED
        BY <4>2 DEF EndAt, JournalFailure
    <3>4. QED
      BY <1>2, <3>1, <3>2, <3>3
  <2>2. QED
    BY <1>b, <1>d, <2>1
<1>3. CASE \E d \in Dispatchers : CompleteItem(d)
  BY <1>3, <1>d DEF CompleteItem
<1>4. CASE \E d \in Dispatchers : RecordRuntime(d)
  <2>1. \/ \E t : SetNextSend(t)
        \/ runtime' = Stopped
        \/ \E t, platform, pause : runtime' = Delivered(t, platform, pause)
    <3>1. PICK d \in Dispatchers : RecordRuntime(d)
      BY <1>4
    <3>2. \/ \E pause \in Pauses :
               runtime' = Delivered(disp[d].at, PlatformOf(disp[d].item), pause)
          \/ runtime' = Stopped \/ SetNextSend(NoTime)
      BY <3>1 DEF RecordRuntime
    <3>3. QED
      BY <3>2, Zenon
  <2>2. runtime' = Stopped => Kept
    BY <1>a DEF Stopped, RuntimeType
  <2>3. ASSUME NEW t, NEW platform, NEW pause, runtime' = Delivered(t, platform, pause)
        PROVE  Kept
    <3>1. \E next, since : runtime' = [runtime EXCEPT !.nextSendAt = next, !.sinceBreak = since, !.errors = 0]
      BY <2>3 DEF Delivered
    <3>2. QED
      BY <1>a, <3>1 DEF RuntimeType
  <2>4. QED
    BY <1>b, <2>1, <2>2, <2>3
<1>5. CASE CandidateStep
  <2>1. CASE EmergencyPause \/ Resume
    <3>1. runtime'.leaseToken = runtime.leaseToken /\ runtime'.leaseUntil = runtime.leaseUntil
      BY <1>a, <2>1 DEF EmergencyPause, Resume, RuntimeType
    <3>2. QED
      BY <2>1, <3>1
  <2>2. CASE ~(EmergencyPause \/ Resume)
    <3>1. UNCHANGED runtime \/ runtime' = MakeReady \/ \E t : SetNextSend(t)
      BY <1>5, <2>2 DEF CandidateStep, Enable, Disable, SaveRules, RevokeConsent, SaveSchedule, Pause,
         AddItem, EditLetter, Approve, AskConsultant, RemoveItem, StopCompany, RemoveStopCompany,
         ImportRejected
    <3>2. QED
      BY <1>b, <1>c, <1>d, <3>1
  <2>3. QED
    BY <2>1, <2>2
<1>6. CASE UNCHANGED autoVars \/ AutoCrash
  BY <1>6, <1>d DEF autoVars, AutoCrash
<1>7. QED
  BY <1>1, <1>2, <1>3, <1>4, <1>5, <1>6, AutoCases DEF DispatcherMove, DispatcherCall, vars

\* A lease has an end.
LeaseIsTimed == runtime.leaseToken # "none" => runtime.leaseUntil # NoTime

LEMMA LeaseStep ==
  ASSUME AutoInv, LeaseIsTimed, [AutoApplyNext]_vars
  PROVE  /\ LeaseIsTimed'
         /\ (/\ runtime.leaseToken # "none" /\ clock < runtime.leaseUntil
             /\ runtime'.leaseToken # runtime.leaseToken)
              => disp[runtime.leaseToken].pc = "releasing"
<1>a. /\ runtime \in RuntimeType /\ disp \in [Dispatchers -> DispatchType]
      /\ clock \in Nat /\ LeaseTime \in Nat /\ NoTime \notin Nat
  BY TypeParts, DayOfType, AutoApplyAssumption, ConstantsAssumption
     DEF AutoInv, TypedParts, BatchInv, ExecutorInv, ExecutorTypeOK
<1>1. CASE \E d \in Dispatchers : Claim(d)
  <2>1. PICK d \in Dispatchers : Claim(d)
    BY <1>1
  <2>2. clock + LeaseTime \in Nat /\ runtime'.leaseUntil = clock + LeaseTime
    BY <1>a, <2>1 DEF Claim, RuntimeType
  <2>3. ~(runtime.leaseToken # "none" /\ clock < runtime.leaseUntil)
    BY <1>a, <2>1 DEF Claim, LeaseOver, LeaseIsTimed, RuntimeType
  <2>4. QED
    BY <1>a, <2>2, <2>3 DEF LeaseIsTimed
<1>2. CASE \E d \in Dispatchers : Release(d)
  <2>1. PICK d \in Dispatchers : Release(d)
    BY <1>2
  <2>2. CASE runtime.leaseToken = d
    BY <1>a, <2>1, <2>2 DEF Release, RuntimeType, LeaseIsTimed
  <2>3. CASE runtime.leaseToken # d
    BY <2>1, <2>3 DEF Release, LeaseIsTimed
  <2>4. QED
    BY <2>2, <2>3
<1>3. CASE runtime'.leaseToken = runtime.leaseToken /\ runtime'.leaseUntil = runtime.leaseUntil
  BY <1>3 DEF LeaseIsTimed
<1>4. QED
  BY <1>1, <1>2, <1>3, RuntimeMoves

\* A lease that has not run out is given up by its holder alone: no claim takes
\* it over, and a late run does not release the lease of its successor.
THEOREM LeasesAreHeld == AutoApplySpec => LeaseHolds
<1>1. AutoApplyInit => LeaseIsTimed
  BY DEF AutoApplyInit, LeaseIsTimed
<1>2. AutoInv /\ LeaseIsTimed /\ [AutoApplyNext]_vars
        => /\ LeaseIsTimed'
           /\ [(/\ runtime.leaseToken # "none" /\ clock < runtime.leaseUntil
                /\ runtime'.leaseToken # runtime.leaseToken)
                 => disp[runtime.leaseToken].pc = "releasing"]_vars
  BY LeaseStep
<1>3. QED
  BY <1>1, <1>2, AutoInvHolds, PTL DEF AutoApplySpec, LeaseHolds

\* An emergency pause is a stop for every action, as long as the candidate does
\* not lift the stop of the scope candidate by itself.
EmergencyStops == runtime.emergency => "candidate" \in kill

LEMMA EmergencyStep ==
  ASSUME "candidate" \notin UserScopes, AutoInv, EmergencyStops, [AutoApplyNext]_vars
  PROVE  /\ EmergencyStops'
         /\ runtime.emergency =>
              /\ \A i \in Items : runs'[i] = runs[i]
              /\ ~runtime'.emergency => runtime'.errors = 0 /\ "candidate" \notin kill'
<1>a. /\ runtime \in RuntimeType /\ Items \subseteq Actions /\ runs \in [Actions -> Nat]
      /\ ExecutorInv /\ ReservedMayRun
  BY TypeParts, AutoApplyAssumption DEF AutoInv, TypedParts, BatchInv, ExecutorInv, ExecutorTypeOK
<1>b. ExecutorMove
  BY AutoInvStep
<1>1. CASE EmergencyPause
  <2>1. runtime'.emergency = TRUE /\ "candidate" \in kill' /\ runs' = runs
    BY <1>a, <1>1 DEF EmergencyPause, RuntimeType, history
  <2>2. QED
    BY <2>1 DEF EmergencyStops
<1>2. CASE Resume
  <2>1. /\ runtime'.emergency = FALSE /\ runtime'.errors = 0
        /\ "candidate" \notin kill' /\ runs' = runs
    BY <1>a, <1>2 DEF Resume, RuntimeType, history
  <2>2. QED
    BY <2>1 DEF EmergencyStops
<1>3. CASE ~EmergencyPause /\ ~Resume
  <2>1. runtime'.emergency = runtime.emergency
    BY <1>3, RuntimeMoves
  <2>2. "candidate" \in kill => "candidate" \in kill'
    <3>1. CASE CandidateStep
      BY <1>3, <3>1 DEF CandidateStep, Enable, Disable, SaveRules, RevokeConsent, SaveSchedule, Pause,
         AddItem, EditLetter, Approve, AskConsultant, RemoveItem, StopCompany, RemoveStopCompany,
         ImportRejected, executorVars, tables
    <3>2. CASE SwitchStep \/ Tick
      BY <3>2 DEF SwitchStep, Tick, SetOnBehalf, ToggleKillSwitch, MoveCard, tables
    <3>3. CASE \E c \in Callers : CallMove(c)
      BY <3>3 DEF CallMove, ServerStep, CheckBatchCapacity, NotConnected, CreateBatch,
         CreatePendingReceipt, CheckAction, StartRunner, RunnerAnswers, RecordOutcome,
         AdvanceApplication, AfterAction, PauseEnds, StopAction, CloseBatch, tables
    <3>4. CASE \E c \in Callers : (\E r \in Requests : PostBatch(c, r)) \/ Respond(c)
      BY <3>4 DEF PostBatch, Respond, tables
    <3>5. CASE \E d \in Dispatchers : DispatcherMove(d)
      BY <3>5, DispatcherMoves DEF AutoInv, BatchInv, tables
    <3>6. CASE AutoCrash \/ UNCHANGED vars
      BY <3>6 DEF AutoCrash, Crash, vars, executorVars, tables
    <3>7. QED
      BY <3>1, <3>2, <3>3, <3>4, <3>5, <3>6, AutoCases, AutoApplyAssumption
         DEF DispatcherCall, DirectCall, ExecutorStep, CallMove
  <2>3. ASSUME runtime.emergency, NEW i \in Items PROVE runs'[i] = runs[i]
    <3>1. KillSwitchActive(i)
      BY <2>3 DEF EmergencyStops, KillSwitchActive
    <3>2. ~(runs'[i] > runs[i])
      BY <1>a, <1>b, <3>1, NoStoppedStart
    <3>3. runs'[i] = runs[i] \/ runs'[i] = runs[i] + 1
      BY <1>a, <1>b, StartsOnly DEF Starts, history
    <3>4. QED
      BY <1>a, <3>2, <3>3
  <2>4. QED
    BY <2>1, <2>2, <2>3 DEF EmergencyStops
<1>4. QED
  BY <1>1, <1>2, <1>3

\* Under an emergency pause no application starts, one that was chosen before it
\* included, and only the candidate's resume lifts it: no late write of a
\* dispatcher does.  (The stop of the scope candidate is the pause's own.)
THEOREM EmergenciesHold ==
  ASSUME "candidate" \notin UserScopes
  PROVE  AutoApplySpec => EmergencyHolds
<1>1. AutoApplyInit => EmergencyStops
  BY DEF AutoApplyInit, EmergencyStops
<1>2. AutoInv /\ EmergencyStops /\ [AutoApplyNext]_vars
        => /\ EmergencyStops'
           /\ [runtime.emergency =>
                 /\ \A i \in Items : runs'[i] = runs[i]
                 /\ ~runtime'.emergency => runtime'.errors = 0 /\ "candidate" \notin kill']_vars
  BY EmergencyStep
<1>3. QED
  BY <1>1, <1>2, AutoInvHolds, PTL DEF AutoApplySpec, EmergencyHolds

=============================================================================
