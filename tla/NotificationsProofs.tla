-------------------------- MODULE NotificationsProofs --------------------------
(***************************************************************************)
(* Answers are bounded and messages are repeated only after a lost answer:  *)
(* proof for any number of notifications, any delays and any bound on the   *)
(* attempts.                                                                *)
(***************************************************************************)
EXTENDS Notifications, TLAPS

RowType == [status : RowStatus, attempts : 0..MaxAttempts, wait : Nat, age : Nat]
AnswersType == [taken : 0..2, seen : Nat]

\* What the poller has still to send.
Claimed(r) == r \in poll.todo \cup poll.current

\* The provider has not taken a message, or its answer was lost, or it is to be
\* stored next.
Unstored(r) == \/ answers[r].taken = 0 \/ r \in lost
               \/ answers[r].taken = 1 /\ r \in poll.taken

\* The attempts of a row are counted when it is claimed, so one of them is still
\* to be answered while it is sent; a row that is claimed again at the last
\* attempt, whose count stays, has had fewer answers than that.  A row that was
\* removed meanwhile is sent all the same, but only once more.
RowInv(r) ==
  /\ row[r] \in RowType /\ answers[r] \in AnswersType
  /\ answers[r].seen <= MaxAttempts
  /\ answers[r].taken > 1 => r \in lost
  /\ row[r].status \notin {"delivered", "none"} \/ Claimed(r) => Unstored(r)
  /\ note[r[1]] = "new" =>
       /\ row[r].status = "none" /\ ~Claimed(r)
       /\ answers[r].taken = 0 /\ answers[r].seen = 0
  /\ row[r].status # "none" => note[r[1]] = "kept"
  /\ Claimed(r) => row[r].status \in {"sending", "none"} /\ answers[r].seen < MaxAttempts
  /\ row[r].status = "pending" => answers[r].seen <= row[r].attempts
                                  /\ answers[r].seen < MaxAttempts
  /\ row[r].status = "sending" => answers[r].seen < row[r].attempts

OutboxInv ==
  /\ note \in [Notes -> {"new", "kept", "gone"}]
  /\ DOMAIN row = Rows /\ row = [r \in Rows |-> row[r]]
  /\ DOMAIN answers = Rows /\ answers = [r \in Rows |-> answers[r]]
  /\ poll \in [todo : SUBSET Rows, current : SUBSET Rows, taken : SUBSET Rows, age : Nat]
  /\ poll.taken \subseteq poll.current
  /\ \A r, s \in poll.current : r = s
  /\ poll.todo \cap poll.current = {}
  /\ \A r \in Rows : RowInv(r)

LEMMA OutboxInit == NotificationsInit => OutboxInv
<1> SUFFICES ASSUME NotificationsInit PROVE OutboxInv
  OBVIOUS
<1>1. \A r \in Rows : row[r] = NoRow /\ answers[r] = [taken |-> 0, seen |-> 0]
                      /\ note[r[1]] = "new" /\ ~Claimed(r)
  BY DEF NotificationsInit, Rows, Claimed, IdlePoll
<1>2. \A r \in Rows : RowInv(r)
  BY <1>1, NotificationsAssumption DEF RowInv, RowType, AnswersType, NoRow, RowStatus, Unstored
<1>3. QED
  BY <1>2 DEF OutboxInv, NotificationsInit, IdlePoll

\* A row whose state, answers and claim stay, stays as it should be.
LEMMA RowSame ==
  ASSUME NEW r \in Rows, RowInv(r), row'[r] = row[r], answers'[r] = answers[r],
         note'[r[1]] = note[r[1]], Claimed(r)' => Claimed(r),
         r \in poll.taken => r \in poll'.taken \cup lost', lost \subseteq lost'
  PROVE  RowInv(r)'
  BY DEF RowInv, Unstored

LEMMA OutboxStep == OutboxInv /\ [NotificationsNext]_notificationVars => OutboxInv'
<1> SUFFICES ASSUME OutboxInv, [NotificationsNext]_notificationVars PROVE OutboxInv'
  OBVIOUS
<1> USE NotificationsAssumption
<1>1. ASSUME NEW n \in Notes, RecordEvent(n) PROVE OutboxInv'
  <2>1. \A r \in Rows : RowInv(r)'
    <3> SUFFICES ASSUME NEW r \in Rows PROVE RowInv(r)'
      OBVIOUS
    <3>1. CASE r[1] = n /\ Enabled(r[2])
      <4>1. /\ row'[r] = [NoRow EXCEPT !.status = "pending"] /\ note'[r[1]] = "kept"
            /\ answers'[r] = answers[r] /\ answers[r].taken = 0 /\ answers[r].seen = 0
            /\ answers[r] \in AnswersType /\ ~Claimed(r)'
        BY <1>1, <3>1 DEF RecordEvent, OutboxInv, RowInv, Claimed
      <4>2. row'[r] \in RowType /\ row'[r].status = "pending" /\ row'[r].attempts = 0
        BY <4>1 DEF RowType, NoRow, RowStatus
      <4>3. QED
        BY <4>1, <4>2 DEF RowInv, AnswersType, Unstored
    <3>2. CASE r[1] = n /\ ~Enabled(r[2])
      <4>1. /\ row'[r] = row[r] /\ answers'[r] = answers[r] /\ row[r].status = "none"
            /\ ~Claimed(r)' /\ note'[r[1]] = "kept" /\ RowInv(r) /\ answers[r].taken = 0
        BY <1>1, <3>2 DEF RecordEvent, OutboxInv, RowInv, Claimed
      <4>2. QED
        BY <4>1 DEF RowInv, Unstored
    <3>3. CASE r[1] # n
      BY <1>1, <3>3, RowSame DEF RecordEvent, OutboxInv, Claimed, Rows
    <3>4. QED
      BY <3>1, <3>2, <3>3
  <2>2. QED
    BY <1>1, <2>1 DEF RecordEvent, OutboxInv
<1>2. ASSUME NEW n \in Notes, WithdrawEvent(n) PROVE OutboxInv'
  <2>1. \A r \in Rows : RowInv(r)'
    <3> SUFFICES ASSUME NEW r \in Rows PROVE RowInv(r)'
      OBVIOUS
    <3>1. CASE r[1] = n
      <4>1. /\ row'[r] = NoRow /\ note'[r[1]] = "gone" /\ answers'[r] = answers[r]
            /\ (Claimed(r)' <=> Claimed(r)) /\ (Unstored(r)' <=> Unstored(r)) /\ RowInv(r)
            /\ lost' = lost
        BY <1>2, <3>1 DEF WithdrawEvent, OutboxInv, Claimed, Unstored
      <4>2. row'[r] \in RowType /\ row'[r].status = "none"
        BY <4>1 DEF RowType, NoRow, RowStatus
      <4>3. QED
        BY <4>1, <4>2 DEF RowInv
    <3>2. CASE r[1] # n
      BY <1>2, <3>2, RowSame DEF WithdrawEvent, OutboxInv, Claimed, Rows
    <3>3. QED
      BY <3>1, <3>2
  <2>2. QED
    BY <1>2, <2>1 DEF WithdrawEvent, OutboxInv
<1>3. CASE SetPreference \/ LinkTelegram \/ UNCHANGED notificationVars
  <2>1. UNCHANGED <<note, row, poll, answers, lost>>
    BY <1>3 DEF SetPreference, LinkTelegram, notificationVars, tables
  <2>2. \A r \in Rows : RowInv(r)'
    BY <2>1, RowSame DEF OutboxInv, Claimed
  <2>3. QED
    BY <2>1, <2>2 DEF OutboxInv
<1>4. CASE ClaimDue
  <2>1. \A r \in Rows : RowInv(r)'
    <3> SUFFICES ASSUME NEW r \in Rows PROVE RowInv(r)'
      OBVIOUS
    <3>0. RowInv(r) /\ ~Claimed(r) /\ UNCHANGED <<note, answers, lost>> /\ poll.taken = {}
      BY <1>4 DEF ClaimDue, OutboxInv, Claimed, Busy
    <3>1. CASE r \in Due
      <4>1. /\ row'[r] = [NoRow EXCEPT !.status = "sending", !.attempts = CountAttempt(r)]
            /\ row[r].status \in {"pending", "sending"} /\ note[r[1]] = "kept"
        BY <1>4, <3>0, <3>1 DEF ClaimDue, Due, Recovered, RowInv, RowType
      <4>2. /\ answers[r].seen <= row[r].attempts /\ answers[r].seen < MaxAttempts
            /\ (answers[r].taken = 0 \/ r \in lost) /\ answers[r] \in AnswersType
            /\ row[r].attempts \in 0..MaxAttempts
        BY <3>0, <4>1 DEF RowInv, RowType, AnswersType, Unstored
      <4>3. CountAttempt(r) \in 0..MaxAttempts /\ answers[r].seen < CountAttempt(r)
        BY <4>2 DEF CountAttempt, AnswersType
      <4>4. row'[r] \in RowType /\ row'[r].status = "sending" /\ row'[r].attempts = CountAttempt(r)
        <5>1. row'[r] = [status |-> "sending", attempts |-> CountAttempt(r),
                         wait |-> 0, age |-> 0]
          BY <4>1 DEF NoRow
        <5>2. QED
          BY <4>3, <5>1 DEF RowType, RowStatus
      <4>5. QED
        BY <3>0, <4>1, <4>2, <4>3, <4>4 DEF RowInv, AnswersType, Unstored
    <3>2. CASE r \notin Due
      <4>1. row'[r] = Recovered[r] /\ ~Claimed(r)'
        BY <1>4, <3>2 DEF ClaimDue, Claimed, IdlePoll
      <4>2. CASE row[r].status = "sending" /\ row[r].age >= StaleAfter
        BY <3>2, <4>2, <3>0 DEF Due, Recovered, RowInv, RowType
      <4>3. CASE ~(row[r].status = "sending" /\ row[r].age >= StaleAfter)
        <5>1. row'[r] = row[r]
          BY <4>1, <4>3 DEF Recovered
        <5>2. QED
          BY <3>0, <4>1, <5>1, RowSame
      <4>4. QED
        BY <4>2, <4>3
    <3>3. QED
      BY <3>1, <3>2
  <2>2. poll' = [todo |-> Due, current |-> {}, taken |-> {}, age |-> 0] /\ Due \in SUBSET Rows
    BY <1>4 DEF ClaimDue, IdlePoll, Due
  <2>3. DOMAIN row' = Rows /\ row' = [r \in Rows |-> row'[r]] /\ UNCHANGED <<note, answers>>
    BY <1>4 DEF ClaimDue
  <2>4. QED
    BY <2>1, <2>2, <2>3 DEF OutboxInv
<1>5. ASSUME NEW r \in Rows, BeginSend(r) PROVE OutboxInv'
  <2>1. /\ poll' = [todo |-> poll.todo \ {r}, current |-> {r}, taken |-> {}, age |-> poll.age]
        /\ UNCHANGED <<note, row, answers, lost>> /\ r \in poll.todo /\ poll.taken = {}
    BY <1>5 DEF BeginSend, OutboxInv, tables
  <2>2. \A s \in Rows : RowInv(s)'
    BY <2>1, RowSame DEF OutboxInv, Claimed
  <2>3. QED
    BY <2>1, <2>2 DEF OutboxInv
<1>5a. ASSUME NEW r \in Rows, ProviderTakes(r) PROVE OutboxInv'
  <2>1. /\ poll' = [todo |-> poll.todo, current |-> poll.current, taken |-> {r},
                    age |-> poll.age]
        /\ UNCHANGED <<note, row, lost>> /\ r \in poll.current \ poll.taken
        /\ answers' = [answers EXCEPT ![r].taken = IF @ = 0 THEN 1 ELSE 2]
    BY <1>5a DEF ProviderTakes, OutboxInv, tables
  <2>2. \A s \in Rows \ {r} : RowInv(s)'
    BY <2>1, RowSame DEF OutboxInv, Claimed
  <2>3. RowInv(r)'
    <3>1. /\ RowInv(r) /\ Claimed(r) /\ (answers[r].taken = 0 \/ r \in lost)
          /\ answers[r] \in AnswersType
      BY <2>1 DEF OutboxInv, Claimed, RowInv, Unstored
    <3> DEFINE taken == IF answers[r].taken = 0 THEN 1 ELSE 2
    <3>2. answers'[r] = [taken |-> taken, seen |-> answers[r].seen] /\ taken \in 1..2
      BY <2>1, <3>1 DEF OutboxInv, AnswersType
    <3>3. Claimed(r)' /\ r \in poll'.taken
      BY <2>1, <3>1 DEF Claimed
    <3>4. QED
      BY <2>1, <3>1, <3>2, <3>3 DEF RowInv, Unstored, AnswersType
  <2>4. QED
    BY <2>1, <2>2, <2>3 DEF OutboxInv
<1>6. ASSUME NEW r \in Rows, SkipRow(r) PROVE OutboxInv'
  <2>1. /\ poll' = [todo |-> poll.todo \ {r}, current |-> {}, taken |-> {}, age |-> poll.age]
        /\ UNCHANGED <<note, answers, lost>> /\ poll.taken = {}
        /\ row' = IF row[r].status = "sending"
                  THEN [row EXCEPT ![r] = [row[r] EXCEPT !.status = "skipped", !.age = 0]]
                  ELSE row
        /\ r \in poll.todo /\ poll.current = {}
    BY <1>6 DEF SkipRow, OutboxInv, Settle
  <2>2. \A s \in Rows \ {r} : RowInv(s)'
    BY <2>1, RowSame DEF OutboxInv, Claimed
  <2>3. RowInv(r)'
    <3>1. RowInv(r) /\ Claimed(r) /\ ~Claimed(r)'
      BY <2>1 DEF OutboxInv, Claimed
    <3>2. CASE row[r].status # "sending"
      BY <2>1, <3>1, <3>2, RowSame
    <3>3. CASE row[r].status = "sending"
      <4>1. row'[r] = [row[r] EXCEPT !.status = "skipped", !.age = 0]
        BY <2>1, <3>3 DEF OutboxInv
      <4>2. row'[r] \in RowType /\ row'[r].status = "skipped"
        <5>1. row[r] \in RowType /\ row[r].wait \in Nat /\ row[r].attempts \in 0..MaxAttempts
          BY <3>1 DEF RowInv, RowType
        <5>2. row'[r] = [status |-> "skipped", attempts |-> row[r].attempts,
                         wait |-> row[r].wait, age |-> 0]
          BY <4>1, <5>1 DEF RowType
        <5>3. QED
          BY <5>1, <5>2 DEF RowType, RowStatus
      <4>3. QED
        BY <2>1, <3>1, <3>3, <4>2 DEF RowInv, AnswersType, Unstored
    <3>4. QED
      BY <3>2, <3>3
  <2>4. QED
    BY <2>1, <2>2, <2>3 DEF OutboxInv
<1>7. ASSUME NEW r \in Rows, SendSucceeds(r) PROVE OutboxInv'
  <2>1. /\ poll' = [todo |-> poll.todo, current |-> {}, taken |-> {}, age |-> poll.age]
        /\ UNCHANGED <<note, lost>> /\ poll.taken = {r} /\ poll.current = {r}
        /\ answers' = [answers EXCEPT ![r].seen = @ + 1]
        /\ row' = IF row[r].status = "sending"
                  THEN [row EXCEPT ![r] = [row[r] EXCEPT !.status = "delivered", !.age = 0]]
                  ELSE row
        /\ r \in poll.taken
    BY <1>7 DEF SendSucceeds, OutboxInv, Settle
  <2>2. \A s \in Rows \ {r} : RowInv(s)'
    BY <2>1, RowSame DEF OutboxInv, Claimed
  <2>3. RowInv(r)'
    <3>1. RowInv(r) /\ Claimed(r) /\ ~Claimed(r)'
      BY <2>1 DEF OutboxInv, Claimed
    <3>2. answers'[r] = [answers[r] EXCEPT !.seen = @ + 1] /\ answers[r] \in AnswersType
      <4>1. r \in DOMAIN answers
        BY DEF OutboxInv
      <4>2. QED
        BY <2>1, <3>1, <4>1 DEF RowInv
    <3>3. answers'[r] \in AnswersType /\ answers'[r].taken = answers[r].taken
          /\ answers'[r].seen = answers[r].seen + 1 /\ answers[r].seen < MaxAttempts
      BY <3>1, <3>2 DEF RowInv, AnswersType
    <3>4. row'[r] \in RowType /\ row'[r].status \in {"delivered", "none"}
          /\ (row'[r].status # "none" => row[r].status # "none")
      BY <2>1, <3>1 DEF OutboxInv, RowInv, RowType, RowStatus
    <3>5. QED
      BY <2>1, <3>1, <3>3, <3>4 DEF RowInv, AnswersType, Unstored
  <2>4. QED
    BY <2>1, <2>2, <2>3 DEF OutboxInv
<1>8. ASSUME NEW r \in Rows, SendFails(r) PROVE OutboxInv'
  <2>1. /\ poll' = [todo |-> poll.todo, current |-> {}, taken |-> {}, age |-> poll.age]
        /\ UNCHANGED note /\ lost' = lost \cup poll.taken /\ poll.current = {r}
        /\ answers' = [answers EXCEPT ![r].seen = @ + 1]
        /\ row' = IF row[r].status = "sending" THEN [row EXCEPT ![r] = Retried(r)] ELSE row
        /\ r \in poll.current
    BY <1>8 DEF SendFails, OutboxInv, Settle
  <2>2. \A s \in Rows \ {r} : RowInv(s)'
    BY <2>1, RowSame DEF OutboxInv, Claimed
  <2>3. RowInv(r)'
    <3>1. RowInv(r) /\ Claimed(r) /\ ~Claimed(r)'
      BY <2>1 DEF OutboxInv, Claimed
    <3>2. answers'[r] = [answers[r] EXCEPT !.seen = @ + 1] /\ answers[r] \in AnswersType
      <4>1. r \in DOMAIN answers
        BY DEF OutboxInv
      <4>2. QED
        BY <2>1, <3>1, <4>1 DEF RowInv
    <3>3. answers'[r] \in AnswersType /\ answers'[r].taken = answers[r].taken
          /\ (answers[r].taken = 0 \/ r \in lost')
          /\ answers'[r].seen = answers[r].seen + 1 /\ answers[r].seen < MaxAttempts
      BY <2>1, <3>1, <3>2 DEF RowInv, AnswersType, Unstored
    <3>4. CASE row[r].status = "none"
      BY <2>1, <3>1, <3>3, <3>4 DEF RowInv, AnswersType, Unstored
    <3>5. CASE row[r].status = "sending"
      <4>1. row'[r] = Retried(r) /\ row[r].attempts \in 1..MaxAttempts /\ row[r] \in RowType
            /\ answers[r].seen < row[r].attempts
        BY <2>1, <3>1, <3>2, <3>5 DEF OutboxInv, RowInv, RowType, AnswersType
      <4>2. poll.age \in Nat /\ Backoff[row[r].attempts] \in Nat
        BY <4>1 DEF OutboxInv
      <4> DEFINE attempts == row[r].attempts
                 status == IF attempts >= MaxAttempts THEN "failed" ELSE "pending"
                 wait == IF Backoff[attempts] > poll.age THEN Backoff[attempts] - poll.age ELSE 0
      <4>3. /\ row'[r] \in RowType /\ row'[r].attempts = row[r].attempts
            /\ row'[r].status = status
        <5>1. status \in RowStatus /\ wait \in Nat
          BY <4>2 DEF RowStatus
        <5>2. row'[r] = [status |-> status, attempts |-> attempts, wait |-> wait, age |-> 0]
          BY <4>1 DEF Retried, RowType
        <5> HIDE DEF status, wait
        <5>3. QED
          BY <4>1, <5>1, <5>2 DEF RowType
      <4>4. QED
        BY <2>1, <3>1, <3>3, <3>5, <4>1, <4>3 DEF RowInv, RowType, AnswersType, Unstored
    <3>6. QED
      BY <3>1, <3>4, <3>5 DEF RowInv
  <2>4. QED
    BY <2>1, <2>2, <2>3 DEF OutboxInv
<1>9. CASE PollCrash
  <2>1. poll' = IdlePoll /\ lost' = lost \cup poll.taken /\ UNCHANGED <<note, row, answers>>
    BY <1>9 DEF PollCrash, tables
  <2>2. \A r \in Rows : RowInv(r)'
    BY <2>1, RowSame DEF OutboxInv, Claimed, IdlePoll
  <2>3. QED
    BY <2>1, <2>2 DEF OutboxInv, IdlePoll
<1>10. CASE PassTime
  <2>1. \A r \in Rows : /\ row'[r] \in RowType
                        /\ row'[r].status = row[r].status /\ row'[r].attempts = row[r].attempts
    <3> SUFFICES ASSUME NEW r \in Rows
                 PROVE  /\ row'[r] \in RowType
                        /\ row'[r].status = row[r].status /\ row'[r].attempts = row[r].attempts
      OBVIOUS
    <3>1. /\ row[r] \in RowType /\ row[r].status \in RowStatus /\ row[r].wait \in Nat
          /\ row[r].age \in Nat /\ row[r].attempts \in 0..MaxAttempts
      BY DEF OutboxInv, RowInv, RowType
    <3> DEFINE Older(t) == IF t < MaxAge THEN t + 1 ELSE t
               wait == IF row[r].wait > 0 THEN row[r].wait - 1 ELSE 0
               age == IF row[r].status = "sending" THEN Older(row[r].age) ELSE 0
    <3>2. wait \in Nat /\ age \in Nat
      BY <3>1
    <3>3. row'[r] = [row[r] EXCEPT !.wait = wait, !.age = age]
      BY <1>10 DEF PassTime
    <3>4. row'[r] = [status |-> row[r].status, attempts |-> row[r].attempts,
                     wait |-> wait, age |-> age]
      BY <3>1, <3>3 DEF RowType
    <3> HIDE DEF wait, age
    <3>5. QED
      BY <3>1, <3>2, <3>4 DEF RowType
  <2>2. /\ poll' \in [todo : SUBSET Rows, current : SUBSET Rows, taken : SUBSET Rows, age : Nat]
        /\ poll'.todo = poll.todo /\ poll'.current = poll.current /\ poll'.taken = poll.taken
    <3>1. poll \in [todo : SUBSET Rows, current : SUBSET Rows, taken : SUBSET Rows, age : Nat]
      BY DEF OutboxInv
    <3> DEFINE age == IF Busy THEN IF poll.age < MaxAge THEN poll.age + 1 ELSE poll.age ELSE 0
    <3>2. age \in Nat
      BY <3>1
    <3>3. poll' = [poll EXCEPT !.age = age]
      BY <1>10 DEF PassTime
    <3>4. QED
      BY <3>1, <3>2, <3>3
  <2>3. \A r \in Rows : RowInv(r)'
    <3> SUFFICES ASSUME NEW r \in Rows PROVE RowInv(r)'
      OBVIOUS
    <3>1. /\ RowInv(r) /\ (Claimed(r)' <=> Claimed(r)) /\ (Unstored(r)' <=> Unstored(r))
          /\ lost' = lost /\ answers'[r] = answers[r] /\ note'[r[1]] = note[r[1]]
      BY <1>10, <2>2 DEF PassTime, OutboxInv, Claimed, Unstored
    <3>2. QED
      BY <2>1, <3>1 DEF RowInv
  <2>4. QED
    BY <1>10, <2>2, <2>3 DEF PassTime, OutboxInv
<1>11. QED
  BY <1>1, <1>2, <1>3, <1>4, <1>5, <1>6, <1>7, <1>8, <1>9, <1>10, <1>5a DEF NotificationsNext, PollStep

\* OutboxInv holds throughout.
THEOREM OutboxInvHolds == NotificationsSpec => []OutboxInv
  BY OutboxInit, OutboxStep, PTL DEF NotificationsSpec

\* However often a run crashes and its rows are claimed again, a row comes to a
\* bounded number of answers, and a message that the provider took is sent again
\* only if its answer was lost before it was stored.
THEOREM AnswersStayBounded == NotificationsSpec => []AnswersAreBounded
<1>1. OutboxInv => AnswersAreBounded
  BY DEF OutboxInv, RowInv, AnswersAreBounded, AnswersType, Unstored
<1>2. QED
  BY <1>1, OutboxInvHolds, PTL
=============================================================================
