----------------------------- MODULE Notifications -----------------------------
(***************************************************************************)
(* The outbox of notifications of one candidate: an event puts one row per  *)
(* chosen channel into it, and a poller claims the rows that are due, sends  *)
(* them one after another and settles each by the answer of its provider.    *)
(*                                                                         *)
(* Every transaction of SqliteNotificationRepository is one step, and so is  *)
(* what the provider does: it may have taken a message whose answer is lost  *)
(* or never stored.  While it is awaited the candidate may change the        *)
(* channels or take the event back, time passes, and the run may end, which  *)
(* leaves claimed rows behind.                                              *)
(*                                                                         *)
(* Times are kept as what is left to wait, and as the age of a claim: the    *)
(* clock has no bound.  Attempts are counted to MaxAttempts and no further,  *)
(* for no code tells higher ones apart.  A run claims at most 20 rows: the   *)
(* model has fewer.  The list in the application and its read marks are left *)
(* out; so are the contents.                                                *)
(***************************************************************************)
EXTENDS Naturals

CONSTANTS
  Notes,       \* ids of notifications
  Backoff,     \* the delay after each attempt (2^n minutes)
  MaxAttempts, \* attempts at one row (5)
  StaleAfter,  \* how long a claim lasts (10 minutes)
  MaxAge       \* ages are counted so far

Channels == {"email", "telegram"}
Rows == Notes \X Channels
RowStatus == {"none", "pending", "sending", "delivered", "failed", "skipped"}
Open == {"pending", "sending"}

ASSUME NotificationsAssumption ==
  /\ MaxAttempts \in Nat \ {0} /\ StaleAfter \in Nat \ {0}
  /\ MaxAge \in Nat /\ StaleAfter <= MaxAge
  /\ Backoff \in [1..MaxAttempts -> 0..MaxAge]

VARIABLES
  note,    \* whether a notification is new, kept or gone again
  wants,   \* the channels of the preference
  linked,  \* a Telegram chat is linked
  row,     \* candidate_notification_deliveries
  poll,    \* the state of processDue
  answers, \* history: what the provider took and how often the poller learned,
  lost     \* ... and the rows whose taken message was not stored

tables == <<note, wants, linked, row>>
notificationVars == <<tables, poll, answers, lost>>

NoRow == [status |-> "none", attempts |-> 0, wait |-> 0, age |-> 0]
IdlePoll == [todo |-> {}, current |-> {}, taken |-> {}, age |-> 0]
Busy == poll.todo \cup poll.current # {}

NotificationsInit ==
  /\ note = [n \in Notes |-> "new"]
  /\ wants \in SUBSET Channels /\ linked \in BOOLEAN
  /\ row = [r \in Rows |-> NoRow]
  /\ poll = IdlePoll
  /\ answers = [r \in Rows |-> [taken |-> 0, seen |-> 0]]
  /\ lost = {}

-----------------------------------------------------------------------------
(* The candidate and the events.                                            *)

\* isDeliveryEnabled, and the choice of enqueueSelectedChannels.
Enabled(c) == c \in wants /\ (c = "telegram" => linked)

\* recordEvent: a known key changes nothing.
RecordEvent(n) ==
  /\ note[n] = "new"
  /\ note' = [note EXCEPT ![n] = "kept"]
  /\ row' = [r \in Rows |-> IF r[1] = n /\ Enabled(r[2])
                            THEN [NoRow EXCEPT !.status = "pending"] ELSE row[r]]
  /\ UNCHANGED <<wants, linked, poll, answers, lost>>

\* withdrawEvent, or deleteExpired: the rows go with the notification.
WithdrawEvent(n) ==
  /\ note[n] = "kept"
  /\ note' = [note EXCEPT ![n] = "gone"]
  /\ row' = [r \in Rows |-> IF r[1] = n THEN NoRow ELSE row[r]]
  /\ UNCHANGED <<wants, linked, poll, answers, lost>>

SetPreference ==
  /\ wants' \in SUBSET Channels \ {wants}
  /\ UNCHANGED <<note, linked, row, poll, answers, lost>>

\* linkTelegramChat, unlinkTelegramChat.
LinkTelegram ==
  /\ linked' = ~linked
  /\ UNCHANGED <<note, wants, row, poll, answers, lost>>

-----------------------------------------------------------------------------
(* The poller, which never starts a run while another one is under way.      *)

\* Faulty: a claim that was left behind stays where it is.
RecoveredNever == row

\* The rows once the claims that were left behind are open again.
Recovered ==
  [r \in Rows |-> IF row[r].status = "sending" /\ row[r].age >= StaleAfter
                  THEN [row[r] EXCEPT !.status = "pending", !.wait = 0]
                  ELSE row[r]]

Due == {r \in Rows : Recovered[r].status = "pending" /\ Recovered[r].wait = 0}

CountAttempt(r) ==
  IF row[r].attempts < MaxAttempts THEN row[r].attempts + 1 ELSE MaxAttempts

\* claimDueDeliveries.
ClaimDue ==
  /\ ~Busy /\ Due # {}
  /\ row' = [r \in Rows |-> IF r \in Due
                            THEN [NoRow EXCEPT !.status = "sending",
                                               !.attempts = CountAttempt(r)]
                            ELSE Recovered[r]]
  /\ poll' = [IdlePoll EXCEPT !.todo = Due]
  /\ UNCHANGED <<note, wants, linked, answers, lost>>

\* processOne begins to send; that its row may be gone is not looked at.
BeginSend(r) ==
  /\ poll.current = {} /\ r \in poll.todo
  /\ Enabled(r[2])
  /\ poll' = [poll EXCEPT !.todo = @ \ {r}, !.current = {r}]
  /\ UNCHANGED <<tables, answers, lost>>

\* A claimed row becomes what the answer makes of it, if it is still there.
Settle(r, new) ==
  /\ row' = IF row[r].status = "sending" THEN [row EXCEPT ![r] = new] ELSE row
  /\ UNCHANGED <<note, wants, linked>>

\* ... or skips it: the channel is off, or the account has no address.
SkipRow(r) ==
  /\ poll.current = {} /\ r \in poll.todo
  /\ ~Enabled(r[2]) \/ r[2] = "email"
  /\ Settle(r, [row[r] EXCEPT !.status = "skipped", !.age = 0])
  /\ poll' = [poll EXCEPT !.todo = @ \ {r}]
  /\ UNCHANGED <<answers, lost>>

\* The provider takes the message; one that the poller sends again is taken
\* again.  (Takes are told apart up to the second.)
ProviderTakes(r) ==
  /\ r \in poll.current \ poll.taken
  /\ poll' = [poll EXCEPT !.taken = {r}]
  /\ answers' = [answers EXCEPT ![r].taken = IF @ = 0 THEN 1 ELSE 2]
  /\ UNCHANGED <<tables, lost>>

\* The poller learns of it, and completeDelivery stores it.
SendSucceeds(r) ==
  /\ r \in poll.taken
  /\ Settle(r, [row[r] EXCEPT !.status = "delivered", !.age = 0])
  /\ poll' = [poll EXCEPT !.current = {}, !.taken = {}]
  /\ answers' = [answers EXCEPT ![r].seen = @ + 1]
  /\ UNCHANGED lost

\* Faulty: the last attempt is tried again.
RetriedAgain(r) ==
  LET attempts == row[r].attempts
      delay == Backoff[attempts]
  IN
  [row[r] EXCEPT !.age = 0,
                 !.status = "pending",
                 !.wait = IF delay > poll.age THEN delay - poll.age ELSE 0]

\* retryDelivery counts the delay from the start of the run.
Retried(r) ==
  LET attempts == row[r].attempts
      delay == Backoff[attempts]
  IN
  [row[r] EXCEPT !.age = 0,
                 !.status = IF attempts >= MaxAttempts THEN "failed" ELSE "pending",
                 !.wait = IF delay > poll.age THEN delay - poll.age ELSE 0]

\* The provider refuses or the request fails; or the provider took the message,
\* and its answer is lost or completeDelivery throws: all are provider_error.
SendFails(r) ==
  /\ r \in poll.current
  /\ Settle(r, Retried(r))
  /\ poll' = [poll EXCEPT !.current = {}, !.taken = {}]
  /\ answers' = [answers EXCEPT ![r].seen = @ + 1]
  /\ lost' = lost \cup poll.taken

PollStep(r) ==
  BeginSend(r) \/ SkipRow(r) \/ ProviderTakes(r) \/ SendSucceeds(r) \/ SendFails(r)

-----------------------------------------------------------------------------

\* The process ends, or retryDelivery or skipDelivery throws: the run is over.
PollCrash ==
  /\ Busy
  /\ poll' = IdlePoll
  /\ lost' = lost \cup poll.taken
  /\ UNCHANGED <<tables, answers>>

\* Everything that waits waits one unit less, and what is under way ages.
PassTime ==
  LET Older(t) == IF t < MaxAge THEN t + 1 ELSE t IN
  /\ row' = [r \in Rows |-> [row[r] EXCEPT
               !.wait = IF @ > 0 THEN @ - 1 ELSE 0,
               !.age = IF row[r].status = "sending" THEN Older(@) ELSE 0]]
  /\ poll' = [poll EXCEPT !.age = IF Busy THEN Older(@) ELSE 0]
  /\ UNCHANGED <<note, wants, linked, answers, lost>>

NotificationsNext ==
  \/ \E n \in Notes : RecordEvent(n) \/ WithdrawEvent(n)
  \/ SetPreference \/ LinkTelegram
  \/ ClaimDue \/ \E r \in Rows : PollStep(r)
  \/ PollCrash \/ PassTime

NotificationsSpec == NotificationsInit /\ [][NotificationsNext]_notificationVars

\* Fairness: time passes, the poller is started every 15 seconds, and every
\* request comes to an answer or to the time limit of fetch; a crash may cut a
\* run off, but not always (hence strong).
FairNotificationsSpec ==
  /\ NotificationsSpec
  /\ WF_notificationVars(PassTime)
  /\ SF_notificationVars(ClaimDue)
  /\ SF_notificationVars(\E r \in Rows : BeginSend(r) \/ SkipRow(r))
  /\ \A r \in Rows : SF_notificationVars(SendSucceeds(r) \/ SendFails(r))

-----------------------------------------------------------------------------
(* Properties.                                                              *)

\* A delivery is at least once, and no more often than it must be: a row comes
\* to at most MaxAttempts answers, although attempts are counted before the
\* answer and claims are repeated after a crash; what the provider took is sent
\* again only if the answer was lost or could not be stored; and a taken message
\* whose answer was not lost is stored as delivered, or about to be.
AnswersAreBounded ==
  \A r \in Rows :
    /\ answers[r].seen <= MaxAttempts
    /\ answers[r].taken > 1 => r \in lost
    /\ answers[r].taken = 1 /\ r \notin lost =>
         row[r].status \in {"delivered", "none"} \/ r \in poll.taken

\* Every row that is queued is settled, or removed with its notification, also
\* when crashes leave it claimed by nobody.
DeliverySettles ==
  \A r \in Rows : row[r].status \in Open ~> row[r].status \notin Open
=============================================================================
