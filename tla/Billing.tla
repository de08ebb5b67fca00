-------------------------------- MODULE Billing --------------------------------
(***************************************************************************)
(* The subscription of one account: checkouts and their invoices, the        *)
(* callback of the payment provider, and the billing runner, which reminds, *)
(* asks the provider about open renewals, and starts those that are due.     *)
(*                                                                         *)
(* Every transaction of SqliteBillingRepository is one step.  Between two    *)
(* steps of the runner, or of a checkout, the provider or the mail server    *)
(* is awaited; routes and callbacks run meanwhile, and the process may       *)
(* crash.  A run takes its time once, at its start, and lists subscriptions *)
(* that it reserves only after the charges of other accounts.               *)
(*                                                                         *)
(* The provider is external: it may lose a request or its answer, decide     *)
(* late, and call back late, often or never.  Trials, legacy tiers, quotas   *)
(* and the event log are left out.                                          *)
(***************************************************************************)
EXTENDS Naturals, Sequences, FiniteSets

CONSTANTS
  Plans,        \* the paid plans by rank
  Keys,         \* idempotency keys of the client
  Month,        \* a calendar month
  RemindBefore, \* how long before the charge the reminder is due (2 days)
  Grace,        \* how long an open renewal keeps the plan (48 hours)
  Recheck,      \* how long until an open renewal is asked about (5 minutes)
  ReminderLease,
  MaxAttempts,  \* attempts at one reminder (3 in the code)
  MaxRenewals,  \* bound on the renewals
  MaxTime,      \* bound on the clock
  NoTime        \* a time that is not set

ASSUME BillingAssumption ==
  /\ Plans \subseteq Nat /\ IsFiniteSet(Keys)
  /\ Month \in Nat \ {0} /\ RemindBefore \in Nat /\ Grace \in Nat /\ Recheck \in Nat
  /\ ReminderLease \in Nat \ {0} /\ MaxAttempts \in Nat \ {0}
  /\ MaxRenewals \in Nat /\ MaxTime \in Nat
  /\ NoTime \notin Nat /\ "renewal" \notin Keys

Times == 0..MaxTime
Ends == 0..(MaxTime + (Cardinality(Keys) + MaxRenewals) * Month)
InvoiceStatus == {"pending", "processing", "paid", "failed"}
ChargeStatus == {"none", "offered", "asked", "lost", "created", "paid", "wrong", "failed"}
ReminderStatus == {"none", "sending", "sent", "failed"}
RunnerPcs == {"idle", "mailing", "listing", "asking", "starting", "charging"}

VARIABLES
  clock,
  invoices,  \* billing_invoices, by id
  sub,       \* the row of billing_subscriptions
  reminder,  \* billing_reminders, by period end
  charge,    \* what the provider knows of each invoice
  web,       \* the invoices whose createCheckout is awaited
  runner     \* the state of runDueBillingRenewals

tables == <<invoices, sub, reminder>>
billingVars == <<clock, tables, charge, web, runner>>

Ids == DOMAIN invoices
Unresolved(i) == invoices[i].status \in {"pending", "processing"}
Renewals == {i \in Ids : invoices[i].parent # 0}

NoSub == [plan |-> 0, status |-> "none", end |-> 0, next |-> NoTime,
          auto |-> FALSE, parent |-> 0, last |-> 0]
NoDue == [plan |-> 0, parent |-> 0, end |-> NoTime]
IdleRun == [pc |-> "idle", now |-> 0, todo |-> {}, due |-> NoDue, invoice |-> 0]

BillingInit ==
  /\ clock = 0
  /\ invoices = <<>>
  /\ sub = NoSub
  /\ reminder = [e \in Ends |-> [status |-> "none", attempts |-> 0, lease |-> NoTime]]
  /\ charge = <<>>
  /\ web = {}
  /\ runner = IdleRun

-----------------------------------------------------------------------------
(* The transactions of the repository.                                      *)

\* When a checkout was created and changed is read by nobody and left out.
NewInvoice(invoice, asked) ==
  /\ invoices' = Append(invoices, invoice)
  /\ charge' = Append(charge, asked)

\* getSubscription: the plan is in force until its end, and a little longer
\* while a renewal is open.
InForce(t) ==
  /\ sub.status # "none"
  /\ \/ sub.end > t
     \/ \E i \in Renewals : /\ invoices[i].status = "processing"
                            /\ invoices[i].created + Grace >= t

\* The new status of an invoice, at time t.
Become(i, status, t) ==
  invoices' = [invoices EXCEPT ![i].status = status,
                               ![i].updated = IF i \in Renewals THEN t ELSE NoTime]

Later(s, t) == IF s > t THEN s ELSE t

\* Faulty: a renewal counts from the period it renews, however late it is paid.
PeriodBaseFromPeriod(i, t) ==
  IF invoices[i].parent # 0 THEN invoices[i].periodEnd
  ELSE IF sub.status = "none" THEN t
  ELSE Later(t, sub.end)

\* The period that a payment at time t adds begins where the renewed one, or
\* the current one, ends.
PeriodBase(i, t) ==
  IF invoices[i].parent # 0 THEN Later(t, invoices[i].periodEnd)
  ELSE IF sub.status = "none" THEN t
  ELSE Later(t, sub.end)

\* Faulty: the opt-in that a renewal invoice carries counts again.
PaidSubscriptionOptingIn(i, t) ==
  LET end == PeriodBase(i, t) + Month
      auto == invoices[i].optIn
  IN
  [plan |-> invoices[i].plan, status |-> "active", end |-> end,
   next |-> IF auto THEN end ELSE NoTime, auto |-> auto,
   parent |-> IF invoices[i].parent # 0 THEN sub.parent ELSE i, last |-> i]

\* Faulty: auto-renewal stays on when the new checkout declines it.
PaidSubscriptionStayingOn(i, t) ==
  LET isRenewal == invoices[i].parent # 0
      end == PeriodBase(i, t) + Month
      auto == sub.auto \/ (~isRenewal /\ invoices[i].optIn)
  IN
  [plan |-> invoices[i].plan, status |-> "active", end |-> end,
   next |-> IF auto THEN end ELSE NoTime, auto |-> auto,
   parent |-> IF isRenewal THEN sub.parent ELSE i, last |-> i]

\* savePaidSubscription: a renewal keeps auto-renewal and its parent as they
\* are, a checkout sets both.
PaidSubscription(i, t) ==
  LET isRenewal == invoices[i].parent # 0
      end == PeriodBase(i, t) + Month
      auto == IF isRenewal THEN sub.auto ELSE invoices[i].optIn
  IN
  [plan |-> invoices[i].plan, status |-> "active", end |-> end,
   next |-> IF auto THEN end ELSE NoTime, auto |-> auto,
   parent |-> IF isRenewal THEN sub.parent ELSE i, last |-> i]

\* Faulty: a repeated callback is applied again.
ApplySuccessfulInvoiceAgain(i, t) ==
  IF invoices[i].status # "failed"
  THEN /\ Become(i, "paid", t)
       /\ sub' = PaidSubscription(i, t)
  ELSE UNCHANGED <<invoices, sub>>

ApplySuccessfulInvoice(i, t) ==
  IF Unresolved(i)
  THEN /\ Become(i, "paid", t)
       /\ sub' = PaidSubscription(i, t)
  ELSE UNCHANGED <<invoices, sub>>

MarkRenewalFailed(i, t) ==
  IF Unresolved(i)
  THEN /\ Become(i, "failed", t)
       /\ sub' = IF sub.last # i THEN [sub EXCEPT !.status = "past_due"] ELSE sub
  ELSE UNCHANGED <<invoices, sub>>

MarkRenewalProcessing(i, t) ==
  /\ IF Unresolved(i) THEN Become(i, "processing", t) ELSE UNCHANGED invoices
  /\ UNCHANGED sub

MarkRenewalStatusChecked(i, t) ==
  /\ invoices' = IF invoices[i].status = "processing"
                 THEN [invoices EXCEPT ![i].updated = t] ELSE invoices
  /\ UNCHANGED sub

-----------------------------------------------------------------------------
(* The routes.                                                              *)

\* checkoutConflict for a key that is new.
MayBuy(plan) ==
  /\ \A i \in Ids : ~Unresolved(i)
  /\ InForce(clock) => \/ sub.status = "past_due" /\ sub.plan = plan
                       \/ plan > sub.plan

\* handleCreateCheckout up to the call of the provider.  With a known key it
\* changes nothing: it answers with the invoice, or that it is in progress.
CreateCheckout(key, plan, optIn) ==
  /\ \A i \in Ids : invoices[i].key # key
  /\ MayBuy(plan)
  /\ NewInvoice([key |-> key, plan |-> plan, optIn |-> optIn, status |-> "pending",
                 parent |-> 0, periodEnd |-> NoTime,
                 created |-> NoTime, updated |-> NoTime], "none")
  /\ web' = web \cup {Len(invoices')}
  /\ UNCHANGED <<clock, sub, reminder, runner>>

\* setCheckoutUrl, which is set exactly when the provider offers its page.
CheckoutReady(i) ==
  /\ i \in web
  /\ web' = web \ {i}
  /\ charge' = [charge EXCEPT ![i] = "offered"]
  /\ UNCHANGED <<clock, tables, runner>>

\* markCheckoutFailed.
CheckoutFails(i) ==
  /\ i \in web
  /\ web' = web \ {i}
  /\ invoices' = [invoices EXCEPT ![i].status = "failed"]
  /\ UNCHANGED <<clock, sub, reminder, charge, runner>>

\* cancelRenewal: only while the paid period lasts.
CancelRenewal ==
  /\ sub.status # "none" /\ sub.end > clock
  /\ sub.auto
  /\ sub' = [sub EXCEPT !.auto = FALSE, !.next = NoTime]
  /\ UNCHANGED <<clock, invoices, reminder, charge, web, runner>>

\* handleRobokassaResult, signed and over the right amount: once, again, late.
Callback(i) ==
  /\ charge[i] = "paid"
  /\ ApplySuccessfulInvoice(i, clock)
  /\ UNCHANGED <<clock, reminder, charge, web, runner>>

-----------------------------------------------------------------------------
(* The runner.  registerBillingRenewalScheduler never starts a second run    *)
(* while one is under way.                                                  *)

\* Faulty: the attempts are not counted.
ReminderDueAgain(t) ==
  /\ sub.status = "active" /\ sub.auto
  /\ sub.next > t /\ sub.next <= t + RemindBefore
  /\ LET r == reminder[sub.end] IN
       r.status # "sent" /\ (r.status = "sending" => r.lease <= t)

\* dueReminderRows: a charge is near, and nobody is sending the reminder.
ReminderDue(t) ==
  /\ sub.status = "active" /\ sub.auto
  /\ sub.next > t /\ sub.next <= t + RemindBefore
  /\ LET r == reminder[sub.end] IN
       /\ r.status # "sent" /\ r.attempts < MaxAttempts
       /\ r.status = "sending" => r.lease <= t

\* A run begins with claimDueRenewalReminders.
BeginRun ==
  /\ runner.pc = "idle"
  /\ \/ /\ ReminderDue(clock)
        /\ reminder' = [reminder EXCEPT
             ![sub.end] = [status |-> "sending", attempts |-> @.attempts + 1,
                           lease |-> clock + ReminderLease]]
        /\ runner' = [IdleRun EXCEPT !.pc = "mailing", !.now = clock, !.due.end = sub.end]
     \/ /\ ~ReminderDue(clock)
        /\ runner' = [IdleRun EXCEPT !.pc = "listing", !.now = clock]
        /\ UNCHANGED reminder
  /\ UNCHANGED <<clock, invoices, sub, charge, web>>

\* sendReminder has answered, or thrown: finishRenewalReminder.
FinishReminder(success) ==
  /\ runner.pc = "mailing"
  /\ reminder' = [reminder EXCEPT
       ![runner.due.end] = [@ EXCEPT !.status = IF success THEN "sent" ELSE "failed",
                                     !.lease = NoTime]]
  /\ runner' = [runner EXCEPT !.pc = "listing", !.due = NoDue]
  /\ UNCHANGED <<clock, invoices, sub, charge, web>>

\* listProcessingRenewals.
ListProcessing ==
  /\ runner.pc = "listing"
  /\ runner' = [runner EXCEPT !.pc = "asking",
       !.todo = {i \in Renewals : /\ invoices[i].status = "processing"
                                  /\ invoices[i].updated + Recheck <= runner.now}]
  /\ UNCHANGED <<clock, tables, charge, web>>

Asked(i) == runner' = [runner EXCEPT !.todo = @ \ {i}]

\* Faulty: a charge that failed is asked about for ever.
StatusAnswersHopefully(i) ==
  /\ runner.pc = "asking" /\ i \in runner.todo
  /\ IF charge[i] = "paid" THEN ApplySuccessfulInvoice(i, runner.now)
     ELSE MarkRenewalStatusChecked(i, runner.now)
  /\ Asked(i)
  /\ UNCHANGED <<clock, reminder, charge, web>>

\* reconcileProcessingRenewals: getRecurringChargeStatus answers truthfully,
\* but knows nothing of a request that was lost.
StatusAnswers(i) ==
  /\ runner.pc = "asking" /\ i \in runner.todo
  /\ \/ charge[i] = "paid" /\ ApplySuccessfulInvoice(i, runner.now)
     \/ charge[i] \in {"failed", "wrong"} /\ MarkRenewalFailed(i, runner.now)
     \/ charge[i] \notin {"paid", "failed", "wrong"} /\ MarkRenewalStatusChecked(i, runner.now)
  /\ Asked(i)
  /\ UNCHANGED <<clock, reminder, charge, web>>

\* ... or throws.
StatusThrows(i) ==
  /\ runner.pc = "asking" /\ i \in runner.todo
  /\ MarkRenewalStatusChecked(i, runner.now)
  /\ Asked(i)
  /\ UNCHANGED <<clock, reminder, charge, web>>

\* listDueSubscriptions, as long as MaxRenewals allows another one.
SubscriptionDue(t) ==
  /\ Cardinality(Renewals) < MaxRenewals
  /\ sub.status = "active" /\ sub.auto /\ sub.next <= t
  /\ \A i \in Renewals : invoices[i].periodEnd = sub.end => ~Unresolved(i)

ListDue ==
  /\ runner.pc = "asking" /\ runner.todo = {}
  /\ runner' = IF SubscriptionDue(runner.now)
               THEN [runner EXCEPT !.pc = "starting",
                       !.due = [plan |-> sub.plan, parent |-> sub.parent, end |-> sub.end]]
               ELSE IdleRun
  /\ UNCHANGED <<clock, tables, charge, web>>

\* reserveRenewal reads the subscription again and finds it as it was listed.
StillDue ==
  /\ sub.status = "active" /\ sub.auto /\ sub.next <= runner.now
  /\ [plan |-> sub.plan, parent |-> sub.parent, end |-> sub.end] = runner.due

RenewalOf(due) ==
  [key |-> "renewal", plan |-> due.plan, optIn |-> TRUE, status |-> "pending",
   parent |-> due.parent, periodEnd |-> due.end,
   created |-> runner.now, updated |-> runner.now]

\* Faulty: the subscription is as it was listed.
StartRenewalAsListed ==
  /\ runner.pc = "starting"
  /\ NewInvoice(RenewalOf(runner.due), "asked")
  /\ runner' = [runner EXCEPT !.pc = "charging", !.invoice = Len(invoices')]
  /\ UNCHANGED <<clock, sub, reminder, web>>

\* startOneRenewal: the invoice is reserved, once for a period, and the charge
\* is asked for.
StartRenewal ==
  /\ runner.pc = "starting"
  /\ StillDue
  /\ \A i \in Renewals : invoices[i].periodEnd # sub.end
  /\ NewInvoice(RenewalOf(runner.due), "asked")
  /\ runner' = [runner EXCEPT !.pc = "charging", !.invoice = Len(invoices')]
  /\ UNCHANGED <<clock, sub, reminder, web>>

\* `not_due', or `already_reserved'.
SkipRenewal ==
  /\ runner.pc = "starting"
  /\ StillDue => \E i \in Renewals : invoices[i].periodEnd = sub.end
  /\ runner' = IdleRun
  /\ UNCHANGED <<clock, tables, charge, web>>

\* createRecurringCharge answers: the provider has created the operation.
ChargeAccepted ==
  /\ runner.pc = "charging"
  /\ charge[runner.invoice] \notin {"asked", "lost"}
  /\ MarkRenewalProcessing(runner.invoice, clock)
  /\ runner' = IdleRun
  /\ UNCHANGED <<clock, reminder, charge, web>>

\* ... has refused it (the interface allows it, the gateway throws) ...
ChargeRejected ==
  /\ runner.pc = "charging"
  /\ charge[runner.invoice] = "lost"
  /\ MarkRenewalFailed(runner.invoice, clock)
  /\ runner' = IdleRun
  /\ UNCHANGED <<clock, reminder, charge, web>>

\* Faulty: an answer that does not come is a refusal.
ChargeThrowsFailing ==
  /\ runner.pc = "charging"
  /\ MarkRenewalFailed(runner.invoice, clock)
  /\ runner' = IdleRun
  /\ UNCHANGED <<clock, reminder, charge, web>>

\* ... or nothing is known: a timeout, a reset, an answer that is not OK.
ChargeThrows ==
  /\ runner.pc = "charging"
  /\ MarkRenewalProcessing(runner.invoice, clock)
  /\ runner' = IdleRun
  /\ UNCHANGED <<clock, reminder, charge, web>>

RunnerStep ==
  \/ BeginRun \/ \E success \in BOOLEAN : FinishReminder(success)
  \/ ListProcessing \/ \E i \in runner.todo : StatusAnswers(i) \/ StatusThrows(i)
  \/ ListDue \/ StartRenewal \/ SkipRenewal
  \/ ChargeAccepted \/ ChargeRejected \/ ChargeThrows

-----------------------------------------------------------------------------
(* The provider and the process.                                            *)

ProviderTurns(i, from, to) ==
  /\ charge[i] = from
  /\ charge' = [charge EXCEPT ![i] = to]
  /\ UNCHANGED <<clock, tables, web, runner>>

\* The customer pays on the page of the provider.
CustomerPays(i) == ProviderTurns(i, "offered", "paid")

\* The request for a charge arrives, early or late, or is lost or refused.
RequestArrives(i) == ProviderTurns(i, "asked", "created")
RequestIsLost(i) == ProviderTurns(i, "asked", "lost")

\* A charge is decided: `wrong' is one over another amount.
ProviderDecides(i) ==
  \E to \in {"paid", "wrong", "failed"} : ProviderTurns(i, "created", to)

BillingCrash ==
  /\ web' = {}
  /\ runner' = IdleRun
  /\ UNCHANGED <<clock, tables, charge>>

BillingTick ==
  /\ clock < MaxTime
  /\ clock' = clock + 1
  /\ UNCHANGED <<tables, charge, web, runner>>

BillingNext ==
  \/ \E key \in Keys, plan \in Plans, optIn \in BOOLEAN : CreateCheckout(key, plan, optIn)
  \/ \E i \in web : CheckoutReady(i) \/ CheckoutFails(i)
  \/ CancelRenewal
  \/ RunnerStep
  \/ \E i \in Ids : \/ Callback(i) \/ CustomerPays(i)
                    \/ RequestArrives(i) \/ RequestIsLost(i) \/ ProviderDecides(i)
  \/ BillingCrash
  \/ BillingTick

BillingSpec == BillingInit /\ [][BillingNext]_billingVars

\* Fairness: the runner is started every minute and its awaits end, a checkout
\* ends, the provider takes or refuses a request and decides a charge, and some
\* time it answers a question; a crash may cut off any of it, but not always
\* (hence strong).  Nothing is assumed of the customer and of the callbacks.
FairBillingSpec ==
  /\ BillingSpec
  /\ SF_billingVars(BeginRun) /\ SF_billingVars(ListProcessing) /\ SF_billingVars(ListDue)
  /\ SF_billingVars(\E success \in BOOLEAN : FinishReminder(success))
  /\ SF_billingVars(StartRenewal \/ SkipRenewal)
  /\ SF_billingVars(ChargeAccepted \/ ChargeRejected \/ ChargeThrows)
  /\ \A i \in 1..(Cardinality(Keys) + MaxRenewals) :
       /\ SF_billingVars(i \in Ids /\ StatusAnswers(i))
       /\ SF_billingVars(i \in web /\ (CheckoutReady(i) \/ CheckoutFails(i)))
       /\ WF_billingVars(i \in Ids /\ (RequestArrives(i) \/ RequestIsLost(i)))
       /\ WF_billingVars(i \in Ids /\ ProviderDecides(i))

-----------------------------------------------------------------------------
(* Properties.                                                              *)

InvoiceType ==
  [key : Keys \cup {"renewal"}, plan : Plans, optIn : BOOLEAN, status : InvoiceStatus,
   parent : Nat, periodEnd : Ends \cup {NoTime},
   created : Times \cup {NoTime}, updated : Times \cup {NoTime}]

\* The tables, the provider and the runner have their types; the date of the
\* next charge is the end of the period, or none without auto-renewal; and the
\* attempts at a reminder, counted before each mail, stay within their bound
\* through failures, crashes and leases that run out.
BillingTypeOK ==
  /\ clock \in Times
  /\ invoices \in Seq(InvoiceType)
  /\ sub \in [plan : Plans \cup {0}, status : {"none", "active", "past_due"}, end : Ends,
              next : Ends \cup {NoTime}, auto : BOOLEAN,
              parent : Ids \cup {0}, last : Ids \cup {0}]
  /\ sub.next = IF sub.auto THEN sub.end ELSE NoTime
  /\ reminder \in [Ends -> [status : ReminderStatus, attempts : 0..MaxAttempts,
                            lease : Nat \cup {NoTime}]]
  /\ charge \in Seq(ChargeStatus) /\ Len(charge) = Len(invoices)
  /\ web \subseteq Ids
  /\ runner \in [pc : RunnerPcs, now : Times, todo : SUBSET Ids,
                 due : [plan : Nat, parent : Nat, end : Ends \cup {NoTime}],
                 invoice : Ids \cup {0}]

\* A renewal is charged only for the subscription as it is at that moment: on,
\* at its end, at its plan, on the card that agreed to it, and once for that
\* period, although the run listed it before it awaited other charges, and the
\* candidate may have cancelled, or bought another plan, in between.
ChargesWhatIsDue ==
  [][\A i \in DOMAIN invoices' \ DOMAIN invoices : invoices'[i].parent # 0 =>
       /\ sub.auto /\ sub.status = "active" /\ sub.end <= clock
       /\ invoices'[i].plan = sub.plan /\ invoices'[i].periodEnd = sub.end
       /\ invoices'[i].parent = sub.parent
       /\ \A j \in Renewals : invoices[j].periodEnd # sub.end]_billingVars

\* Every renewal goes back to a checkout that was paid with the opt-in.
RenewalWasAgreed ==
  \A i \in Renewals : LET p == invoices[i].parent IN
    p \in Ids \ Renewals /\ invoices[p].status = "paid" /\ invoices[p].optIn

\* A cancellation holds until the candidate pays a new checkout with the opt-in:
\* no renewal that was under way switches auto-renewal on again.
CancelHolds ==
  [][sub.auto = FALSE /\ sub'.auto = TRUE =>
       \E i \in Ids \ Renewals : /\ invoices[i].optIn /\ Unresolved(i)
                                /\ invoices'[i].status = "paid"]_billingVars

\* Access is never extended for nothing: with the end of the period one
\* invoice becomes paid, whose money the provider has, and a callback that is
\* repeated, or meets the reconciliation, adds no second month.
AccessIsPaidFor ==
  [][sub'.end # sub.end =>
       \E i \in Ids : /\ Unresolved(i) /\ invoices'[i].status = "paid"
                      /\ charge[i] = "paid"]_billingVars

\* No payment shortens the access that was paid before, in whatever order
\* checkouts and late renewals are confirmed.  The confirmation of a run is
\* dated at its start, so the run must be of the same moment.
AccessNeverShrinks ==
  [][runner' = runner \/ runner.now = clock => sub'.end >= sub.end]_billingVars

\* Money that the provider has taken is never written off: a charge that is
\* paid in the end has an invoice that can still be confirmed.
MoneyIsNotWrittenOff ==
  \A i \in Ids : charge[i] = "paid" => invoices[i].status # "failed"

\* A renewal in processing whose charge exists at the provider is settled
\* although every callback is lost and the server crashes again and again.
ChargeIsSettled ==
  \A i \in 1..(Cardinality(Keys) + MaxRenewals) :
    (/\ i \in Ids /\ invoices[i].parent # 0 /\ invoices[i].status = "processing"
     /\ charge[i] \in {"created", "paid", "wrong", "failed"})
      ~> i \in Ids /\ ~Unresolved(i)

\* What the texts promise and the code does not keep (see the README).

\* "Wait for the confirmation of the current payment", which may be tried again
\* (billingRoutes.ts): a renewal does not stay open for ever.
RenewalIsResolved ==
  \A i \in 1..(Cardinality(Keys) + MaxRenewals) :
    (i \in Ids /\ invoices[i].parent # 0) ~> i \in Ids /\ ~Unresolved(i)
=============================================================================
