----------------------------- MODULE BillingProofs -----------------------------
(***************************************************************************)
(* Proofs about the subscription of Billing, for any plans, keys, times and *)
(* bounds: what is charged is due and was agreed, what was paid is neither   *)
(* written off nor counted twice, and no payment shortens the access.       *)
(***************************************************************************)
EXTENDS Billing, FiniteSetTheorems, SequenceTheorems, TLAPS

\* The constants one by one.
LEMMA BillingNumbers ==
  /\ Plans \subseteq Nat /\ IsFiniteSet(Keys) /\ Cardinality(Keys) \in Nat
  /\ Month \in Nat /\ Month > 0 /\ RemindBefore \in Nat /\ ReminderLease \in Nat
  /\ MaxAttempts \in Nat /\ MaxAttempts > 0 /\ MaxRenewals \in Nat /\ MaxTime \in Nat
  /\ NoTime \notin Nat /\ "renewal" \notin Keys
  BY BillingAssumption, FS_CardinalityType

-----------------------------------------------------------------------------
(* What is always true.                                                     *)

InvoiceRow ==
  [key : Keys \cup {"renewal"}, plan : Plans, optIn : BOOLEAN, status : InvoiceStatus,
   parent : Nat, periodEnd : Nat \cup {NoTime},
   created : Times \cup {NoTime}, updated : Times \cup {NoTime}]

SubRow ==
  [plan : Plans \cup {0}, status : {"none", "active", "past_due"}, end : Nat,
   next : Nat \cup {NoTime}, auto : BOOLEAN, parent : Nat, last : Nat]

RunnerRow ==
  [pc : RunnerPcs, now : Times, todo : SUBSET Nat,
   due : [plan : Nat, parent : Nat, end : Nat \cup {NoTime}], invoice : Nat]

Checkouts == Ids \ Renewals
PaidIds == {i \in Ids : invoices[i].status = "paid"}

\* The end of any period: each payment adds a month at most.
Reached == MaxTime + Cardinality(PaidIds) * Month

TablesInv ==
  /\ clock \in Times /\ invoices \in Seq(InvoiceRow) /\ sub \in SubRow
  /\ sub.parent \in Ids \cup {0} /\ sub.last \in Ids \cup {0}
  /\ sub.next = IF sub.auto THEN sub.end ELSE NoTime

\* A key buys once, and a period is renewed once.
CountInv ==
  /\ Cardinality(Renewals) <= MaxRenewals
  /\ \A i \in Checkouts : invoices[i].key \in Keys /\ invoices[i].periodEnd = NoTime
  /\ \A i, j \in Checkouts : invoices[i].key = invoices[j].key => i = j
  /\ \A i \in Renewals : invoices[i].periodEnd \in Nat
  /\ \A i, j \in Renewals : invoices[i].periodEnd = invoices[j].periodEnd => i = j
  /\ sub.end <= Reached
  /\ \A i \in Renewals : invoices[i].periodEnd <= Reached

\* Auto-renewal and the renewals go back to a paid checkout with the opt-in,
\* and there is a subscription as soon as anything is paid.
Agreed(p) == p \in Checkouts /\ invoices[p].status = "paid" /\ invoices[p].optIn
AgreedInv ==
  /\ sub.auto => Agreed(sub.parent)
  /\ \A i \in Renewals : Agreed(invoices[i].parent)
  /\ sub.status = "none" => sub = NoSub /\ PaidIds = {}
  /\ sub.status # "none" => sub.plan \in Plans

\* At most one checkout is open; an open renewal renews a period that is over,
\* and beside an open checkout it renews the last one.
OpenInv ==
  /\ \A i, j \in Checkouts : Unresolved(i) /\ Unresolved(j) => i = j
  /\ \A i \in Renewals : Unresolved(i) => /\ sub.end <= clock + Month
                                          /\ invoices[i].periodEnd <= clock
  /\ \A i \in Renewals, j \in Checkouts :
       Unresolved(i) /\ Unresolved(j) => invoices[i].periodEnd = sub.end

ReminderInv ==
  reminder \in [Ends -> [status : ReminderStatus, attempts : 0..MaxAttempts,
                         lease : Nat \cup {NoTime}]]

\* What has failed was not paid, and what the provider is asked for is there.
ProviderInv ==
  /\ charge \in Seq(ChargeStatus) /\ Len(charge) = Len(invoices)
  /\ \A i \in Ids : invoices[i].status = "failed" => charge[i] \in {"none", "lost", "failed", "wrong"}
  /\ web \subseteq Checkouts
  /\ \A i \in web : charge[i] = "none" /\ invoices[i].status = "pending"

RunnerInv ==
  /\ runner \in RunnerRow /\ runner.now <= clock
  /\ runner.todo \subseteq Renewals
  /\ runner.invoice \in Renewals \cup {0}
  /\ runner.pc = "charging" => runner.invoice \in Renewals
  /\ runner.pc = "starting" => Cardinality(Renewals) < MaxRenewals
  /\ runner.due.end \in Nat => runner.due.end <= Reached

BillingInv ==
  /\ TablesInv /\ CountInv /\ AgreedInv /\ OpenInv
  /\ ReminderInv /\ ProviderInv /\ RunnerInv

-----------------------------------------------------------------------------
(* Rows, sets of rows and their sizes.                                      *)

LEMMA IdsAre ==
  ASSUME invoices \in Seq(InvoiceRow)
  PROVE  /\ Len(invoices) \in Nat /\ Ids = 1 .. Len(invoices)
         /\ \A i \in Ids : invoices[i] \in InvoiceRow
         /\ IsFiniteSet(Ids) /\ 0 \notin Ids
<1>1. Len(invoices) \in Nat /\ Ids = 1 .. Len(invoices)
  BY LenProperties DEF Ids
<1>2. \A i \in Ids : invoices[i] \in InvoiceRow
  BY <1>1, ElementOfSeq
<1>3. IsFiniteSet(1 .. Len(invoices))
  BY <1>1, FS_Interval
<1>4. QED
  BY <1>1, <1>2, <1>3

LEMMA InvoiceParts ==
  ASSUME NEW x \in InvoiceRow
  PROVE  /\ x.key \in Keys \cup {"renewal"} /\ x.plan \in Plans /\ x.optIn \in BOOLEAN
         /\ x.status \in InvoiceStatus /\ x.parent \in Nat /\ x.periodEnd \in Nat \cup {NoTime}
         /\ x.created \in Times \cup {NoTime} /\ x.updated \in Times \cup {NoTime}
  BY DEF InvoiceRow

LEMMA SubParts ==
  ASSUME NEW x \in SubRow
  PROVE  /\ x.plan \in Plans \cup {0} /\ x.status \in {"none", "active", "past_due"}
         /\ x.end \in Nat /\ x.next \in Nat \cup {NoTime} /\ x.auto \in BOOLEAN
         /\ x.parent \in Nat /\ x.last \in Nat
  BY DEF SubRow

LEMMA SetsAreFinite ==
  ASSUME invoices \in Seq(InvoiceRow)
  PROVE  /\ IsFiniteSet(Renewals) /\ IsFiniteSet(Checkouts) /\ IsFiniteSet(PaidIds)
         /\ Cardinality(Renewals) \in Nat /\ Cardinality(Checkouts) \in Nat
         /\ Cardinality(PaidIds) \in Nat
<1>1. IsFiniteSet(Ids)
  BY IdsAre
<1>2. Renewals \in SUBSET Ids /\ Checkouts \in SUBSET Ids /\ PaidIds \in SUBSET Ids
  BY DEF Renewals, Checkouts, PaidIds
<1>3. QED
  BY <1>1, <1>2, FS_Subset, FS_CardinalityType

\* More payments reach further.
LEMMA MonthsGrow ==
  ASSUME NEW n \in Nat, NEW m \in Nat, n <= m
  PROVE  n * Month \in Nat /\ n * Month <= m * Month /\ (n + 1) * Month = n * Month + Month
<1>1. n * Month \in Nat /\ (n + 1) * Month = n * Month + Month
  BY BillingNumbers
<1>2. PICK d \in Nat : m = n + d
  <2>1. m - n \in Nat /\ m = n + (m - n)
    OBVIOUS
  <2>2. QED
    BY <2>1
<1>3. m * Month = n * Month + d * Month /\ d * Month \in Nat
  BY <1>2, BillingNumbers
<1>4. QED
  BY <1>1, <1>3

LEMMA ReachedIsNat ==
  ASSUME invoices \in Seq(InvoiceRow)
  PROVE  Reached \in Nat /\ Reached >= MaxTime
<1>1. Cardinality(PaidIds) * Month \in Nat
  BY SetsAreFinite, MonthsGrow
<1>2. QED
  BY <1>1, BillingNumbers DEF Reached

\* The bound of the model on the ends of the periods is wide enough: a key
\* buys once, and the renewals have their own bound.
LEMMA ReachedIsEnd ==
  ASSUME TablesInv, CountInv
  PROVE  0 .. Reached \subseteq Ends
<1>a. invoices \in Seq(InvoiceRow)
  BY DEF TablesInv
<1>1. Cardinality(Checkouts) <= Cardinality(Keys)
  <2> DEFINE f == [i \in Checkouts |-> invoices[i].key]
  <2>1. f \in Injection(Checkouts, Keys)
    BY DEF CountInv, Injection, IsInjective
  <2> HIDE DEF f
  <2>2. QED
    BY <2>1, FS_Injection, BillingNumbers
<1>2. Cardinality(PaidIds) <= Cardinality(Checkouts) + Cardinality(Renewals)
  <2>1. PaidIds \in SUBSET (Checkouts \cup Renewals) /\ Checkouts \cap Renewals = {}
    BY DEF PaidIds, Checkouts, Renewals
  <2>2. IsFiniteSet(Checkouts) /\ IsFiniteSet(Renewals) /\ Cardinality({}) = 0
    BY <1>a, SetsAreFinite, FS_EmptySet
  <2>3. /\ IsFiniteSet(Checkouts \cup Renewals)
        /\ Cardinality(Checkouts \cup Renewals)
             = Cardinality(Checkouts) + Cardinality(Renewals) - Cardinality(Checkouts \cap Renewals)
    BY <2>2, FS_Union
  <2>4. Cardinality(PaidIds) <= Cardinality(Checkouts \cup Renewals)
    BY <2>1, <2>3, FS_Subset
  <2>5. Cardinality(Checkouts \cap Renewals) = 0
    BY <2>1, <2>2
  <2>6. QED
    BY <1>a, <2>3, <2>4, <2>5, SetsAreFinite
<1>3. Cardinality(PaidIds) <= Cardinality(Keys) + MaxRenewals
  BY <1>a, <1>1, <1>2, SetsAreFinite, BillingNumbers DEF CountInv
<1>4. Cardinality(PaidIds) * Month <= (Cardinality(Keys) + MaxRenewals) * Month
  BY <1>a, <1>3, SetsAreFinite, BillingNumbers, MonthsGrow
<1>5. (Cardinality(Keys) + MaxRenewals) * Month \in Nat
  BY BillingNumbers, MonthsGrow
<1>6. Reached \in Nat /\ Reached <= MaxTime + (Cardinality(Keys) + MaxRenewals) * Month
  BY <1>a, <1>4, <1>5, ReachedIsNat, SetsAreFinite, MonthsGrow, BillingNumbers DEF Reached
<1>7. QED
  BY <1>5, <1>6, BillingNumbers DEF Ends

-----------------------------------------------------------------------------
(* What a step may do with the invoices and the subscription.               *)

SameSale(x, y) ==
  /\ y.key = x.key /\ y.plan = x.plan /\ y.optIn = x.optIn
  /\ y.parent = x.parent /\ y.periodEnd = x.periodEnd

RowsKept ==
  /\ invoices' \in Seq(InvoiceRow) /\ Len(invoices') = Len(invoices)
  /\ \A j \in Ids : SameSale(invoices[j], invoices'[j])

\* One open invoice is settled.
Settles(i, status) ==
  /\ RowsKept /\ i \in Ids /\ Unresolved(i) /\ invoices'[i].status = status
  /\ \A j \in Ids \ {i} : invoices'[j].status = invoices[j].status

Cancelled == sub.status # "none" /\ sub' = [sub EXCEPT !.auto = FALSE, !.next = NoTime]

\* Nothing is settled; an open renewal may turn to processing.
Quiet ==
  /\ RowsKept /\ clock <= clock' /\ clock' \in Times
  /\ \A j \in Ids : \/ invoices'[j].status = invoices[j].status
                    \/ j \in Renewals /\ Unresolved(j) /\ invoices'[j].status = "processing"
  /\ sub' = sub \/ Cancelled

Paying(i, t) ==
  Settles(i, "paid") /\ sub' = PaidSubscription(i, t) /\ t \in Times /\ t <= clock /\ clock' = clock

Failing(i) ==
  /\ Settles(i, "failed") /\ clock' = clock
  /\ sub' = sub \/ (i \in Renewals /\ sub' = [sub EXCEPT !.status = "past_due"])

CheckoutOf(key, plan, optIn) ==
  [key |-> key, plan |-> plan, optIn |-> optIn, status |-> "pending",
   parent |-> 0, periodEnd |-> NoTime, created |-> NoTime, updated |-> NoTime]

Buying(key, plan, optIn) ==
  /\ \A i \in Ids : invoices[i].key # key /\ ~Unresolved(i)
  /\ invoices' = Append(invoices, CheckoutOf(key, plan, optIn))
  /\ sub' = sub /\ clock' = clock

Renewing ==
  /\ StillDue /\ \A i \in Renewals : invoices[i].periodEnd # sub.end
  /\ invoices' = Append(invoices, RenewalOf(runner.due))
  /\ sub' = sub /\ clock' = clock

SalesInv == TablesInv /\ CountInv /\ AgreedInv /\ OpenInv

\* The sets of invoices stay when the rows do.
LEMMA KeptSets ==
  ASSUME invoices \in Seq(InvoiceRow), RowsKept
  PROVE  /\ Ids' = Ids /\ Renewals' = Renewals /\ Checkouts' = Checkouts
         /\ \A i \in Ids : invoices'[i] \in InvoiceRow
<1>1. Ids = 1 .. Len(invoices) /\ DOMAIN invoices' = 1 .. Len(invoices')
  BY IdsAre, LenProperties DEF RowsKept
<1>2. Ids' = Ids
  BY <1>1 DEF RowsKept, Ids
<1>3. Renewals' = Renewals
  BY <1>2 DEF RowsKept, SameSale, Renewals
<1>4. \A i \in Ids : invoices'[i] \in InvoiceRow
  BY <1>1, ElementOfSeq DEF RowsKept
<1>5. QED
  BY <1>2, <1>3, <1>4 DEF Checkouts

\* A row is written under its place.
LEMMA RowSet ==
  ASSUME invoices \in Seq(InvoiceRow), NEW i \in Ids, NEW y \in InvoiceRow,
         SameSale(invoices[i], y), invoices' = [invoices EXCEPT ![i] = y]
  PROVE  /\ RowsKept /\ invoices'[i] = y
         /\ \A j \in Ids \ {i} : invoices'[j] = invoices[j]
<1>1. Ids = 1 .. Len(invoices)
  BY IdsAre
<1>2. /\ [invoices EXCEPT ![i] = y] \in Seq(InvoiceRow)
      /\ Len([invoices EXCEPT ![i] = y]) = Len(invoices)
      /\ \A j \in 1 .. Len(invoices) :
           [invoices EXCEPT ![i] = y][j] = IF j = i THEN y ELSE invoices[j]
  BY <1>1, ExceptSeq
<1>3. QED
  BY <1>1, <1>2 DEF RowsKept, SameSale

LEMMA RowWritten ==
  ASSUME invoices \in Seq(InvoiceRow), NEW i \in Ids, NEW status \in InvoiceStatus,
         NEW t \in Times \cup {NoTime},
         \/ invoices' = [invoices EXCEPT ![i].status = status, ![i].updated = t]
         \/ invoices' = [invoices EXCEPT ![i].updated = t] /\ status = invoices[i].status
         \/ invoices' = [invoices EXCEPT ![i].status = status] /\ t = invoices[i].updated
  PROVE  /\ RowsKept /\ invoices'[i].status = status
         /\ \A j \in Ids \ {i} : invoices'[j] = invoices[j]
<1>1. PICK x : x = invoices[i]
  OBVIOUS
<1>2. x \in InvoiceRow
  BY <1>1, IdsAre
<1> DEFINE z == [key |-> x.key, plan |-> x.plan, optIn |-> x.optIn, status |-> status,
                 parent |-> x.parent, periodEnd |-> x.periodEnd,
                 created |-> x.created, updated |-> t]
<1>3. /\ [x EXCEPT !.status = status, !.updated = t] = z
      /\ status = x.status => [x EXCEPT !.updated = t] = z
      /\ t = x.updated => [x EXCEPT !.status = status] = z
  <2>1. PICK a, b, c : /\ a = [x EXCEPT !.status = status, !.updated = t]
                       /\ b = [x EXCEPT !.updated = t] /\ c = [x EXCEPT !.status = status]
    OBVIOUS
  <2>2. a = z
    BY <1>2, <2>1 DEF InvoiceRow
  <2>3. status = x.status => b = z
    BY <1>2, <2>1 DEF InvoiceRow
  <2>4. t = x.updated => c = z
    BY <1>2, <2>1 DEF InvoiceRow
  <2> HIDE DEF z
  <2>5. QED
    BY <2>1, <2>2, <2>3, <2>4
<1>4. z \in InvoiceRow /\ SameSale(x, z) /\ z.status = status
  BY <1>2, InvoiceParts DEF InvoiceRow, SameSale
<1>5. invoices' = [invoices EXCEPT ![i] = z]
  <2>1. \/ invoices' = [invoices EXCEPT ![i] = [x EXCEPT !.status = status, !.updated = t]]
        \/ invoices' = [invoices EXCEPT ![i] = [x EXCEPT !.updated = t]] /\ status = x.status
        \/ invoices' = [invoices EXCEPT ![i] = [x EXCEPT !.status = status]] /\ t = x.updated
    BY <1>1
  <2> HIDE DEF z
  <2>2. QED
    BY <1>3, <2>1
<1> HIDE DEF z
<1>6. QED
  BY <1>1, <1>4, <1>5, RowSet

\* A row is added at the end.
LEMMA RowAdded ==
  ASSUME invoices \in Seq(InvoiceRow), NEW y \in InvoiceRow, invoices' = Append(invoices, y)
  PROVE  LET n == Len(invoices) + 1 IN
         /\ invoices' \in Seq(InvoiceRow) /\ Len(invoices') = n /\ n \notin Ids /\ n \in Nat /\ n # 0
         /\ Ids' = Ids \cup {n} /\ invoices'[n] = y
         /\ \A i \in Ids : invoices'[i] = invoices[i]
<1>1. Ids = 1 .. Len(invoices) /\ Len(invoices) \in Nat
  BY IdsAre
<1>2. /\ invoices' \in Seq(InvoiceRow) /\ Len(invoices') = Len(invoices) + 1
      /\ \A i \in 1 .. Len(invoices) : invoices'[i] = invoices[i]
      /\ invoices'[Len(invoices) + 1] = y
  BY AppendProperties
<1>3. DOMAIN invoices' = 1 .. Len(invoices')
  BY <1>2, LenProperties
<1>4. QED
  BY <1>1, <1>2, <1>3 DEF Ids

-----------------------------------------------------------------------------
(* Each of these keeps the sales in order.                                  *)

LEMMA SalesParts ==
  ASSUME SalesInv
  PROVE  /\ invoices \in Seq(InvoiceRow) /\ sub \in SubRow /\ clock \in Times /\ clock \in Nat
         /\ \A i \in Ids : invoices[i] \in InvoiceRow
         /\ Reached \in Nat /\ Reached >= MaxTime /\ MaxTime \in Nat
         /\ sub.end \in Nat /\ Month \in Nat
  BY IdsAre, SubParts, ReachedIsNat, BillingNumbers DEF SalesInv, TablesInv, Times

LEMMA CancelledRow ==
  ASSUME sub \in SubRow, Cancelled
  PROVE  /\ sub' \in SubRow /\ sub'.auto = FALSE /\ sub'.next = NoTime /\ sub'.end = sub.end
         /\ sub'.plan = sub.plan /\ sub'.status = sub.status /\ sub'.parent = sub.parent
         /\ sub'.last = sub.last /\ sub.status # "none"
<1>1. sub' = [plan |-> sub.plan, status |-> sub.status, end |-> sub.end, next |-> NoTime,
              auto |-> FALSE, parent |-> sub.parent, last |-> sub.last]
  BY DEF SubRow, Cancelled
<1>2. QED
  BY <1>1, SubParts DEF SubRow, Cancelled

LEMMA QuietGood ==
  ASSUME SalesInv, Quiet
  PROVE  SalesInv' /\ Reached' = Reached
<1>a. /\ Ids' = Ids /\ Renewals' = Renewals /\ Checkouts' = Checkouts
      /\ \A j \in Ids : invoices'[j] \in InvoiceRow /\ SameSale(invoices[j], invoices'[j])
      /\ Renewals \subseteq Ids /\ Checkouts \subseteq Ids /\ Checkouts \cap Renewals = {}
  BY KeptSets, SalesParts DEF Quiet, RowsKept, Renewals, Checkouts
<1>b. \A j \in Ids : /\ Unresolved(j)' <=> Unresolved(j)
                     /\ invoices'[j].status = "paid" <=> invoices[j].status = "paid"
                     /\ j \in Checkouts => invoices'[j].status = invoices[j].status
  BY <1>a DEF Quiet, Unresolved
<1>c. /\ sub' \in SubRow /\ sub'.end = sub.end /\ sub'.plan = sub.plan
      /\ sub'.status = sub.status /\ sub'.parent = sub.parent /\ sub'.last = sub.last
      /\ \/ sub' = sub
         \/ sub'.auto = FALSE /\ sub'.next = NoTime /\ sub.status # "none"
  BY SalesParts, CancelledRow DEF Quiet
<1>d. PaidIds' = PaidIds
  BY <1>a, <1>b DEF PaidIds
<1>e. Reached' = Reached
  BY <1>d DEF Reached
<1>1. TablesInv'
  BY <1>a, <1>c DEF SalesInv, TablesInv, Quiet, RowsKept
<1>2. CountInv'
  BY <1>a, <1>c, <1>e DEF SalesInv, CountInv, SameSale
<1>3. AgreedInv'
  <2>1. ASSUME NEW p, Agreed(p) PROVE Agreed(p)'
    BY <1>a, <1>b, <2>1 DEF Agreed, SameSale
  <2>2. \A i \in Renewals : invoices'[i].parent = invoices[i].parent
    BY <1>a DEF SameSale
  <2>3. sub'.auto => sub.auto
    BY <1>c
  <2>4. QED
    BY <1>a, <1>c, <1>d, <2>1, <2>2, <2>3 DEF SalesInv, AgreedInv
<1>4. OpenInv'
  <2>1. clock <= clock' /\ clock \in Nat /\ clock' \in Nat
    BY SalesParts DEF Quiet, Times
  <2>2. \A i \in Renewals : invoices'[i].periodEnd = invoices[i].periodEnd /\ invoices[i].periodEnd \in Nat
    BY <1>a DEF SameSale, SalesInv, CountInv
  <2>3. QED
    BY <1>a, <1>b, <1>c, <2>1, <2>2, SalesParts DEF SalesInv, OpenInv
<1>5. QED
  BY <1>1, <1>2, <1>3, <1>4, <1>e DEF SalesInv

LEMMA FailingGood ==
  ASSUME SalesInv, NEW i, Failing(i)
  PROVE  SalesInv' /\ Reached' = Reached
<1>a. /\ Ids' = Ids /\ Renewals' = Renewals /\ Checkouts' = Checkouts
      /\ \A j \in Ids : invoices'[j] \in InvoiceRow /\ SameSale(invoices[j], invoices'[j])
      /\ Renewals \subseteq Ids /\ Checkouts \subseteq Ids /\ Checkouts \cap Renewals = {}
      /\ i \in Ids
  BY KeptSets, SalesParts DEF Failing, Settles, RowsKept, Renewals, Checkouts
<1>b. \A j \in Ids : /\ Unresolved(j)' => Unresolved(j)
                     /\ invoices'[j].status = "paid" <=> invoices[j].status = "paid"
  BY <1>a DEF Failing, Settles, Unresolved
<1>c. /\ sub' \in SubRow /\ sub'.end = sub.end /\ sub'.plan = sub.plan
      /\ sub'.parent = sub.parent /\ sub'.last = sub.last
      /\ sub'.auto = sub.auto /\ sub'.next = sub.next
      /\ sub' = sub \/ (i \in Renewals /\ sub'.status = "past_due")
  <2>1. CASE sub' = sub
    BY <2>1, SalesParts
  <2>2. CASE i \in Renewals /\ sub' = [sub EXCEPT !.status = "past_due"]
    <3>1. sub' = [plan |-> sub.plan, status |-> "past_due", end |-> sub.end, next |-> sub.next,
                  auto |-> sub.auto, parent |-> sub.parent, last |-> sub.last]
      BY <2>2, SalesParts DEF SubRow
    <3>2. QED
      BY <2>2, <3>1, SalesParts, SubParts DEF SubRow
  <2>3. QED
    BY <2>1, <2>2 DEF Failing
<1>d. PaidIds' = PaidIds
  BY <1>a, <1>b DEF PaidIds
<1>e. Reached' = Reached /\ clock' = clock
  BY <1>d DEF Reached, Failing
<1>1. TablesInv'
  BY <1>a, <1>c, <1>e DEF SalesInv, TablesInv, Failing, Settles, RowsKept
<1>2. CountInv'
  BY <1>a, <1>c, <1>e DEF SalesInv, CountInv, SameSale
<1>3. AgreedInv'
  <2>1. ASSUME NEW p, Agreed(p) PROVE Agreed(p)'
    BY <1>a, <1>b, <2>1 DEF Agreed, SameSale
  <2>2. \A j \in Renewals : invoices'[j].parent = invoices[j].parent
    BY <1>a DEF SameSale
  <2>3. i \in Renewals => sub.status # "none" /\ sub.plan \in Plans
    BY <1>a DEF SalesInv, AgreedInv, Agreed, PaidIds
  <2>4. QED
    BY <1>a, <1>c, <1>d, <2>1, <2>2, <2>3 DEF SalesInv, AgreedInv
<1>4. OpenInv'
  <2>1. \A j \in Renewals : invoices'[j].periodEnd = invoices[j].periodEnd
    BY <1>a DEF SameSale
  <2>2. QED
    BY <1>a, <1>b, <1>c, <1>e, <2>1 DEF SalesInv, OpenInv
<1>5. QED
  BY <1>1, <1>2, <1>3, <1>4, <1>e DEF SalesInv

\* What a payment makes of the subscription.
LEMMA PaidParts ==
  ASSUME SalesInv, NEW i \in Ids, NEW t \in Times, t <= clock, sub' = PaidSubscription(i, t)
  PROVE  /\ sub' \in SubRow /\ sub'.plan = invoices[i].plan /\ sub'.status = "active"
         /\ sub'.last = i /\ sub'.next = IF sub'.auto THEN sub'.end ELSE NoTime
         /\ sub'.end = PeriodBase(i, t) + Month
         /\ PeriodBase(i, t) \in Nat /\ t <= PeriodBase(i, t) /\ PeriodBase(i, t) <= Reached
         /\ i \in Renewals => /\ sub'.auto = sub.auto /\ sub'.parent = sub.parent
                              /\ PeriodBase(i, t) = Later(t, invoices[i].periodEnd)
         /\ i \notin Renewals => /\ sub'.auto = invoices[i].optIn /\ sub'.parent = i
                                 /\ PeriodBase(i, t) = Later(t, sub.end)
<1>a. /\ i \in Nat /\ i # 0 /\ t \in Nat /\ t <= MaxTime
      /\ invoices[i] \in InvoiceRow /\ invoices[i].plan \in Plans /\ invoices[i].optIn \in BOOLEAN
      /\ i \in Renewals <=> invoices[i].parent # 0
      /\ i \in Renewals => invoices[i].periodEnd \in Nat /\ invoices[i].periodEnd <= Reached
      /\ sub.end <= Reached /\ sub.auto \in BOOLEAN /\ sub.parent \in Nat
  BY IdsAre, SalesParts, InvoiceParts, SubParts DEF SalesInv, CountInv, Times, Renewals
<1>b. sub.status = "none" => sub.end = 0
  BY DEF SalesInv, AgreedInv, NoSub
<1>1. PICK base : base = PeriodBase(i, t)
  OBVIOUS
<1>2. /\ i \in Renewals => base = Later(t, invoices[i].periodEnd)
      /\ i \notin Renewals => base = Later(t, sub.end)
  BY <1>1, <1>a, <1>b DEF PeriodBase, Later
<1>3. base \in Nat /\ t <= base /\ base <= Reached
  BY <1>2, <1>a, SalesParts DEF Later
<1> DEFINE auto == IF i \in Renewals THEN sub.auto ELSE invoices[i].optIn
           parent == IF i \in Renewals THEN sub.parent ELSE i
           next == IF auto THEN base + Month ELSE NoTime
<1>4. sub' = [plan |-> invoices[i].plan, status |-> "active", end |-> base + Month,
              next |-> next, auto |-> auto, parent |-> parent, last |-> i]
  BY <1>1, <1>a DEF PaidSubscription
<1>5. /\ auto \in BOOLEAN /\ parent \in Nat /\ base + Month \in Nat /\ next \in Nat \cup {NoTime}
      /\ i \in Renewals => auto = sub.auto /\ parent = sub.parent
      /\ i \notin Renewals => auto = invoices[i].optIn /\ parent = i
      /\ next = IF auto THEN base + Month ELSE NoTime
  BY <1>a, <1>3, SalesParts
<1> HIDE DEF auto, parent, next
<1>6. sub' \in SubRow
  BY <1>4, <1>5, <1>a DEF SubRow
<1>7. QED
  BY <1>1, <1>2, <1>3, <1>4, <1>5, <1>6

LEMMA PayingGood ==
  ASSUME SalesInv, NEW i, NEW t, Paying(i, t)
  PROVE  SalesInv' /\ Reached' >= Reached
<1>a. /\ Ids' = Ids /\ Renewals' = Renewals /\ Checkouts' = Checkouts
      /\ \A j \in Ids : invoices'[j] \in InvoiceRow /\ SameSale(invoices[j], invoices'[j])
      /\ Renewals \subseteq Ids /\ Checkouts \subseteq Ids /\ Checkouts \cap Renewals = {}
      /\ Ids \subseteq Checkouts \cup Renewals
      /\ i \in Ids /\ t \in Times /\ t <= clock /\ clock' = clock
  BY KeptSets, SalesParts DEF Paying, Settles, RowsKept, Renewals, Checkouts
<1>b. /\ \A j \in Ids : j # i => (Unresolved(j)' <=> Unresolved(j))
      /\ \A j \in Ids : j # i => (invoices'[j].status = "paid" <=> invoices[j].status = "paid")
      /\ ~Unresolved(i)' /\ Unresolved(i)
      /\ invoices'[i].status = "paid" /\ invoices[i].status # "paid"
  BY <1>a DEF Paying, Settles, Unresolved
<1>c. sub' = PaidSubscription(i, t)
  BY DEF Paying
<1>d. /\ t \in Nat /\ clock \in Nat /\ invoices[i].plan \in Plans /\ i # 0
  BY <1>a, SalesParts, InvoiceParts, IdsAre DEF Times
<1>e. PaidIds' = PaidIds \cup {i} /\ i \notin PaidIds
  BY <1>a, <1>b DEF PaidIds
<1>f. Reached' = Reached + Month
  <2>1. IsFiniteSet(PaidIds) /\ Cardinality(PaidIds) \in Nat
    BY SalesParts, SetsAreFinite
  <2>2. Cardinality(PaidIds \cup {i}) = Cardinality(PaidIds) + 1
    BY <1>e, <2>1, FS_AddElement
  <2>3. PICK n \in Nat : n = Cardinality(PaidIds)
    BY <2>1
  <2>4. (n + 1) * Month = n * Month + Month /\ n * Month \in Nat
    BY MonthsGrow
  <2>5. Reached' = MaxTime + (n + 1) * Month /\ Reached = MaxTime + n * Month
    BY <1>e, <2>2, <2>3 DEF Reached
  <2>6. QED
    BY <2>4, <2>5, BillingNumbers
<1>g. /\ sub' \in SubRow /\ sub'.plan = invoices[i].plan /\ sub'.status = "active"
      /\ sub'.last = i /\ sub'.next = (IF sub'.auto THEN sub'.end ELSE NoTime)
      /\ sub'.end = PeriodBase(i, t) + Month
      /\ PeriodBase(i, t) \in Nat /\ PeriodBase(i, t) <= Reached
      /\ i \in Renewals => /\ sub'.auto = sub.auto /\ sub'.parent = sub.parent
                           /\ PeriodBase(i, t) = Later(t, invoices[i].periodEnd)
      /\ i \notin Renewals => /\ sub'.auto = invoices[i].optIn /\ sub'.parent = i
                              /\ PeriodBase(i, t) = Later(t, sub.end)
  BY <1>a, <1>c, PaidParts
<1>1. TablesInv'
  BY <1>a, <1>g DEF SalesInv, TablesInv, Paying, Settles, RowsKept
<1>2. CountInv'
  <2>1. /\ sub'.end <= Reached'
        /\ \A j \in Renewals : invoices[j].periodEnd \in Nat /\ invoices[j].periodEnd <= Reached'
    BY <1>f, <1>g, SalesParts DEF SalesInv, CountInv
  <2>2. QED
    BY <1>a, <2>1 DEF SalesInv, CountInv, SameSale
<1>3. AgreedInv'
  <2>1. ASSUME NEW p, Agreed(p) PROVE Agreed(p)'
    BY <1>a, <1>b, <2>1 DEF Agreed, SameSale
  <2>2. \A j \in Renewals : invoices'[j].parent = invoices[j].parent
    BY <1>a DEF SameSale
  <2>3. (sub.auto => Agreed(sub.parent))'
    <3>1. CASE i \in Renewals
      BY <1>g, <2>1, <3>1 DEF SalesInv, AgreedInv
    <3>2. CASE i \notin Renewals
      <4>1. sub'.auto => Agreed(i)'
        BY <1>a, <1>b, <1>g, <3>2 DEF Agreed, SameSale
      <4>2. sub'.parent = i
        BY <1>g, <3>2
      <4>3. QED
        BY <4>1, <4>2 DEF Agreed
    <3>3. QED
      BY <3>1, <3>2
  <2>4. QED
    BY <1>a, <1>d, <1>g, <2>1, <2>2, <2>3 DEF SalesInv, AgreedInv
<1>4. OpenInv'
  <2>1. \A j \in Renewals : invoices'[j].periodEnd = invoices[j].periodEnd /\ invoices[j].periodEnd \in Nat
    BY <1>a DEF SameSale, SalesInv, CountInv
  <2>2. ASSUME NEW j \in Renewals, Unresolved(j)' PROVE sub'.end <= clock + Month
    <3>1. CASE i \in Renewals
      <4>1. invoices[i].periodEnd <= clock /\ invoices[i].periodEnd \in Nat
        BY <1>a, <1>b, <2>1, <3>1 DEF SalesInv, OpenInv
      <4>2. PeriodBase(i, t) <= clock
        BY <1>a, <1>d, <1>g, <3>1, <4>1 DEF Later
      <4>3. QED
        BY <1>d, <1>g, <4>2, SalesParts
    <3>2. CASE i \notin Renewals
      <4>1. j # i /\ Unresolved(j) /\ i \in Checkouts
        BY <1>a, <1>b, <2>2, <3>2
      <4>2. invoices[j].periodEnd = sub.end /\ invoices[j].periodEnd <= clock
        BY <1>b, <4>1 DEF SalesInv, OpenInv
      <4>3. PeriodBase(i, t) <= clock
        BY <1>a, <1>d, <1>g, <3>2, <4>2, SalesParts DEF Later
      <4>4. QED
        BY <1>d, <1>g, <4>3, SalesParts
    <3>3. QED
      BY <3>1, <3>2
  <2>3. ASSUME NEW j \in Renewals, NEW k \in Checkouts, Unresolved(j)', Unresolved(k)' PROVE FALSE
    <3>1. j # i /\ k # i /\ Unresolved(j) /\ Unresolved(k)
      BY <1>a, <1>b, <2>3
    <3>2. CASE i \in Renewals
      <4>1. invoices[i].periodEnd = sub.end /\ invoices[j].periodEnd = sub.end
        BY <1>b, <3>1, <3>2 DEF SalesInv, OpenInv
      <4>2. QED
        BY <3>1, <3>2, <4>1 DEF SalesInv, CountInv
    <3>3. CASE i \notin Renewals
      BY <1>a, <1>b, <3>1, <3>3 DEF SalesInv, OpenInv
    <3>4. QED
      BY <3>2, <3>3
  <2>4. \A j, k \in Checkouts : Unresolved(j)' /\ Unresolved(k)' => j = k
    BY <1>a, <1>b DEF SalesInv, OpenInv
  <2>5. \A j \in Renewals : Unresolved(j)' => invoices'[j].periodEnd <= clock
    BY <1>a, <1>b, <2>1 DEF SalesInv, OpenInv
  <2>6. QED
    BY <1>a, <2>2, <2>3, <2>4, <2>5 DEF OpenInv
<1>5. QED
  BY <1>1, <1>2, <1>3, <1>4, <1>f, SalesParts DEF SalesInv

LEMMA BuyingGood ==
  ASSUME SalesInv, NEW key \in Keys, NEW plan \in Plans, NEW optIn \in BOOLEAN,
         Buying(key, plan, optIn)
  PROVE  /\ SalesInv' /\ Reached' = Reached
         /\ Renewals' = Renewals /\ Checkouts' = Checkouts \cup {Len(invoices)'}
         /\ Len(invoices)' \notin Ids
<1> DEFINE y == CheckoutOf(key, plan, optIn)
           n == Len(invoices) + 1
<1>1. /\ y \in InvoiceRow /\ y.key = key /\ y.parent = 0 /\ y.status = "pending"
      /\ y.periodEnd = NoTime
  BY DEF CheckoutOf, InvoiceRow, InvoiceStatus
<1> HIDE DEF y
<1>2. /\ invoices' \in Seq(InvoiceRow) /\ Len(invoices') = n /\ n \notin Ids /\ n \in Nat /\ n # 0
      /\ Ids' = Ids \cup {n} /\ invoices'[n] = y
      /\ \A i \in Ids : invoices'[i] = invoices[i]
  BY <1>1, RowAdded, SalesParts DEF Buying, y
<1> HIDE DEF n
<1>3. /\ Renewals' = Renewals /\ Checkouts' = Checkouts \cup {n} /\ PaidIds' = PaidIds
      /\ Renewals \subseteq Ids /\ Checkouts \subseteq Ids
  BY <1>1, <1>2 DEF Renewals, Checkouts, PaidIds
<1>4. Reached' = Reached /\ sub' = sub /\ clock' = clock
  BY <1>3 DEF Reached, Buying
<1>5. \A i \in Ids : invoices[i].key # key /\ ~Unresolved(i) /\ ~Unresolved(i)'
  BY <1>2 DEF Buying, Unresolved
<1>6. TablesInv'
  BY <1>2, <1>4 DEF SalesInv, TablesInv
<1>7. CountInv'
  BY <1>1, <1>2, <1>3, <1>4, <1>5 DEF SalesInv, CountInv
<1>8. AgreedInv'
  <2>1. ASSUME NEW p, Agreed(p) PROVE Agreed(p)'
    BY <1>2, <1>3, <2>1 DEF Agreed
  <2>2. QED
    BY <1>2, <1>3, <1>4, <2>1 DEF SalesInv, AgreedInv
<1>9. OpenInv'
  BY <1>3, <1>5 DEF OpenInv
<1>10. QED
  BY <1>2, <1>3, <1>4, <1>6, <1>7, <1>8, <1>9 DEF SalesInv

LEMMA RenewingGood ==
  ASSUME SalesInv, RunnerInv, runner.pc = "starting", Renewing
  PROVE  /\ SalesInv' /\ Reached' = Reached
         /\ Renewals' = Renewals \cup {Len(invoices)'} /\ Checkouts' = Checkouts
         /\ Len(invoices)' \notin Ids
<1> DEFINE y == RenewalOf(runner.due)
           n == Len(invoices) + 1
<1>a. /\ sub.status = "active" /\ sub.auto /\ sub.next = sub.end /\ sub.next <= runner.now
      /\ runner.due = [plan |-> sub.plan, parent |-> sub.parent, end |-> sub.end]
      /\ runner.now <= clock /\ runner.now \in Times /\ runner.now \in Nat
      /\ sub.plan \in Plans /\ Agreed(sub.parent) /\ sub.parent \in Ids /\ sub.parent \in Nat
      /\ sub.parent # 0 /\ sub.end <= clock
  <2>1. runner.now \in Times /\ runner.now <= clock
    BY DEF RunnerInv, RunnerRow
  <2>2. /\ sub.status = "active" /\ sub.auto /\ sub.next <= runner.now
        /\ runner.due = [plan |-> sub.plan, parent |-> sub.parent, end |-> sub.end]
    BY DEF Renewing, StillDue
  <2>3. sub.next = sub.end
    BY <2>2 DEF SalesInv, TablesInv
  <2>4. sub.plan \in Plans /\ Agreed(sub.parent) /\ sub.parent \in Ids
    BY <2>2 DEF SalesInv, AgreedInv, Agreed, Checkouts
  <2>5. 0 \notin Ids /\ sub.parent \in Nat
    BY IdsAre, SalesParts, SubParts
  <2>6. runner.now \in Nat /\ clock \in Nat /\ sub.end \in Nat
    BY <2>1, SalesParts DEF Times
  <2>7. sub.end <= clock
    BY <2>1, <2>2, <2>3, <2>6
  <2>8. QED
    BY <2>1, <2>2, <2>3, <2>4, <2>5, <2>6, <2>7
<1>1. /\ y \in InvoiceRow /\ y.parent = sub.parent /\ y.status = "pending" /\ y.plan = sub.plan
      /\ y.periodEnd = sub.end
  BY <1>a, SalesParts DEF RenewalOf, InvoiceRow, InvoiceStatus
<1> HIDE DEF y
<1>2. /\ invoices' \in Seq(InvoiceRow) /\ Len(invoices') = n /\ n \notin Ids /\ n \in Nat /\ n # 0
      /\ Ids' = Ids \cup {n} /\ invoices'[n] = y
      /\ \A i \in Ids : invoices'[i] = invoices[i]
  BY <1>1, RowAdded, SalesParts DEF Renewing, y
<1> HIDE DEF n
<1>3. /\ Renewals' = Renewals \cup {n} /\ Checkouts' = Checkouts /\ PaidIds' = PaidIds
      /\ Renewals \subseteq Ids /\ Checkouts \subseteq Ids /\ Checkouts \cap Renewals = {}
  BY <1>a, <1>1, <1>2 DEF Renewals, Checkouts, PaidIds
<1>4. Reached' = Reached /\ sub' = sub /\ clock' = clock
  BY <1>3 DEF Reached, Renewing
<1>5. \A i \in Ids : Unresolved(i)' <=> Unresolved(i)
  BY <1>2 DEF Unresolved
<1>6. TablesInv'
  BY <1>2, <1>4 DEF SalesInv, TablesInv
<1>7. CountInv'
  <2>1. IsFiniteSet(Renewals) /\ Cardinality(Renewals) \in Nat
    BY SalesParts, SetsAreFinite
  <2>2. Cardinality(Renewals \cup {n}) = Cardinality(Renewals) + 1
    BY <1>2, <1>3, <2>1, FS_AddElement
  <2>3. Cardinality(Renewals)' <= MaxRenewals
    BY <1>3, <2>1, <2>2, BillingNumbers DEF RunnerInv
  <2>4. \A i \in Renewals : invoices[i].periodEnd # sub.end
    BY DEF Renewing
  <2>5. /\ \A i \in Checkouts : /\ invoices[i].key \in Keys /\ invoices[i].periodEnd = NoTime
                               /\ invoices'[i] = invoices[i]
        /\ \A i, j \in Checkouts : invoices[i].key = invoices[j].key => i = j
    BY <1>2, <1>3 DEF SalesInv, CountInv
  <2>6. /\ sub.end <= Reached /\ sub.end \in Nat
        /\ \A i \in Renewals : invoices'[i].periodEnd \in Nat /\ invoices'[i].periodEnd <= Reached
    BY <1>2, <1>3, SalesParts DEF SalesInv, CountInv
  <2>7. /\ \A i \in Renewals' : invoices'[i].periodEnd \in Nat
        /\ \A i \in Renewals' : invoices'[i].periodEnd <= Reached
    BY <1>1, <1>2, <1>3, <2>6
  <2>8. ASSUME NEW i \in Renewals', NEW j \in Renewals',
               invoices'[i].periodEnd = invoices'[j].periodEnd
        PROVE  i = j
    BY <1>1, <1>2, <1>3, <2>4, <2>8 DEF SalesInv, CountInv
  <2>9. QED
    BY <1>3, <1>4, <2>3, <2>5, <2>6, <2>7, <2>8 DEF CountInv
<1>8. AgreedInv'
  <2>1. ASSUME NEW p, Agreed(p) PROVE Agreed(p)'
    BY <1>2, <1>3, <2>1 DEF Agreed
  <2>2. QED
    BY <1>a, <1>1, <1>2, <1>3, <1>4, <2>1 DEF SalesInv, AgreedInv
<1>9. OpenInv'
  <2>1. sub.end <= clock + Month
    BY <1>a, SalesParts
  <2>2. \A i, j \in Checkouts : Unresolved(i)' /\ Unresolved(j)' => i = j
    BY <1>3, <1>5 DEF SalesInv, OpenInv
  <2>3. ASSUME NEW i \in Renewals', Unresolved(i)'
        PROVE  sub.end <= clock + Month /\ invoices'[i].periodEnd <= clock
    BY <1>a, <1>1, <1>2, <1>3, <1>5, <2>1, <2>3 DEF SalesInv, OpenInv
  <2>4. ASSUME NEW i \in Renewals', NEW j \in Checkouts, Unresolved(i)', Unresolved(j)'
        PROVE  invoices'[i].periodEnd = sub.end
    BY <1>1, <1>2, <1>3, <1>5, <2>4 DEF SalesInv, OpenInv
  <2>5. QED
    BY <1>3, <1>4, <2>2, <2>3, <2>4 DEF OpenInv
<1>10. QED
  BY <1>2, <1>3, <1>4, <1>6, <1>7, <1>8, <1>9 DEF SalesInv

-----------------------------------------------------------------------------
(* The transactions are such steps.                                         *)

Unpaid == {"none", "lost", "failed", "wrong"}

\* What any step does with the sales: a payment is dated now, or at the start
\* of the run that was told of it.
SalesMove ==
  \/ Quiet
  \/ \E i \in Ids, t \in Times : /\ Paying(i, t) /\ charge[i] = "paid"
                                 /\ t = clock \/ (t = runner.now /\ runner' # runner)
  \/ \E i \in Ids : Failing(i) /\ charge[i] \in Unpaid /\ i \notin web'
  \/ /\ \E key \in Keys, plan \in Plans, optIn \in BOOLEAN : Buying(key, plan, optIn)
     /\ charge' = Append(charge, "none") /\ web' = web \cup {Len(invoices')}
  \/ /\ runner.pc = "starting" /\ Renewing /\ runner'.pc = "charging"
     /\ charge' = Append(charge, "asked") /\ web' = web

LEMMA UnchangedQuiet ==
  ASSUME SalesInv, invoices' = invoices, sub' = sub \/ Cancelled,
         clock' = clock \/ (clock < MaxTime /\ clock' = clock + 1)
  PROVE  Quiet
<1>1. RowsKept
  BY SalesParts DEF RowsKept, SameSale
<1>2. clock <= clock' /\ clock' \in Times
  BY SalesParts DEF Times
<1>3. QED
  BY <1>1, <1>2 DEF Quiet

LEMMA BecomeSettles ==
  ASSUME SalesInv, NEW i \in Ids, Unresolved(i), NEW status \in InvoiceStatus, NEW t \in Times,
         Become(i, status, t)
  PROVE  Settles(i, status)
<1> DEFINE u == IF i \in Renewals THEN t ELSE NoTime
<1>1. invoices' = [invoices EXCEPT ![i].status = status, ![i].updated = u]
  BY DEF Become
<1>2. u \in Times \cup {NoTime}
  OBVIOUS
<1> HIDE DEF u
<1>3. /\ RowsKept /\ invoices'[i].status = status
      /\ \A j \in Ids \ {i} : invoices'[j] = invoices[j]
  BY <1>1, <1>2, RowWritten, SalesParts
<1>4. QED
  BY <1>3 DEF Settles

LEMMA AppliedMove ==
  ASSUME SalesInv, NEW i \in Ids, NEW t \in Times, t <= clock, ApplySuccessfulInvoice(i, t),
         clock' = clock
  PROVE  Quiet \/ Paying(i, t)
<1>1. CASE Unresolved(i)
  BY <1>1, BecomeSettles DEF ApplySuccessfulInvoice, Paying, InvoiceStatus
<1>2. CASE ~Unresolved(i)
  BY <1>2, UnchangedQuiet DEF ApplySuccessfulInvoice
<1>3. QED
  BY <1>1, <1>2

LEMMA MarkFailedMove ==
  ASSUME SalesInv, NEW i \in Renewals, NEW t \in Times, MarkRenewalFailed(i, t), clock' = clock
  PROVE  Quiet \/ Failing(i)
<1>a. i \in Ids
  BY DEF Renewals
<1>1. CASE Unresolved(i)
  BY <1>a, <1>1, BecomeSettles DEF MarkRenewalFailed, Failing, InvoiceStatus
<1>2. CASE ~Unresolved(i)
  BY <1>2, UnchangedQuiet DEF MarkRenewalFailed
<1>3. QED
  BY <1>1, <1>2

LEMMA MarkProcessingMove ==
  ASSUME SalesInv, NEW i \in Renewals, NEW t \in Times, MarkRenewalProcessing(i, t), clock' = clock
  PROVE  Quiet
<1>a. i \in Ids /\ sub' = sub
  BY DEF Renewals, MarkRenewalProcessing
<1>1. CASE Unresolved(i)
  <2>1. Settles(i, "processing")
    BY <1>a, <1>1, BecomeSettles DEF MarkRenewalProcessing, InvoiceStatus
  <2>2. QED
    BY <1>a, <1>1, <2>1, SalesParts DEF Quiet, Settles
<1>2. CASE ~Unresolved(i)
  BY <1>a, <1>2, UnchangedQuiet DEF MarkRenewalProcessing
<1>3. QED
  BY <1>1, <1>2

LEMMA MarkCheckedMove ==
  ASSUME SalesInv, NEW i \in Ids, NEW t \in Times, MarkRenewalStatusChecked(i, t), clock' = clock
  PROVE  Quiet
<1>1. CASE invoices' = [invoices EXCEPT ![i].updated = t]
  <2>1. invoices[i].status \in InvoiceStatus
    BY SalesParts, InvoiceParts
  <2>2. PICK status : status = invoices[i].status
    OBVIOUS
  <2>3. /\ RowsKept /\ invoices'[i].status = status
        /\ \A j \in Ids \ {i} : invoices'[j] = invoices[j]
    BY <1>1, <2>1, <2>2, RowWritten, SalesParts
  <2>4. QED
    BY <2>2, <2>3, SalesParts DEF Quiet, MarkRenewalStatusChecked
<1>2. CASE invoices' = invoices
  BY <1>2, UnchangedQuiet DEF MarkRenewalStatusChecked
<1>3. QED
  BY <1>1, <1>2 DEF MarkRenewalStatusChecked

\* The checkouts that the provider is being asked for may fail.
LEMMA CheckoutFailsMove ==
  ASSUME SalesInv, ProviderInv, NEW i, CheckoutFails(i)
  PROVE  i \in Ids /\ Failing(i) /\ charge[i] = "none" /\ i \notin web'
<1>1. /\ i \in web /\ i \in Ids /\ charge[i] = "none" /\ invoices[i].status = "pending"
      /\ web' = web \ {i} /\ sub' = sub /\ clock' = clock
      /\ invoices' = [invoices EXCEPT ![i].status = "failed"]
  BY DEF CheckoutFails, ProviderInv, Checkouts
<1>2. invoices[i].updated \in Times \cup {NoTime}
  BY <1>1, SalesParts, InvoiceParts
<1>3. PICK t : t = invoices[i].updated
  OBVIOUS
<1>4. /\ RowsKept /\ invoices'[i].status = "failed"
      /\ \A j \in Ids \ {i} : invoices'[j] = invoices[j]
  BY <1>1, <1>2, <1>3, RowWritten, SalesParts DEF InvoiceStatus
<1>5. QED
  BY <1>1, <1>4 DEF Failing, Settles, Unresolved

LEMMA RunnerParts ==
  ASSUME RunnerInv
  PROVE  /\ runner \in RunnerRow /\ runner.pc \in RunnerPcs /\ runner.now \in Times
         /\ runner.todo \in SUBSET Nat /\ runner.invoice \in Nat
         /\ runner.due \in [plan : Nat, parent : Nat, end : Nat \cup {NoTime}]
         /\ runner.now <= clock
  BY DEF RunnerInv, RunnerRow

LEMMA SalesStep ==
  ASSUME BillingInv, [BillingNext]_billingVars
  PROVE  SalesMove
<1>a. SalesInv /\ ProviderInv /\ RunnerInv /\ clock \in Times /\ clock \in Nat /\ clock <= clock
  BY SalesParts DEF BillingInv, SalesInv, TablesInv, Times
<1>b. runner.now \in Times /\ runner.now <= clock /\ Renewals \subseteq Ids
  BY <1>a, RunnerParts DEF Renewals
<1>1. ASSUME invoices' = invoices, sub' = sub \/ Cancelled,
             clock' = clock \/ (clock < MaxTime /\ clock' = clock + 1)
      PROVE  SalesMove
  BY <1>a, <1>1, UnchangedQuiet DEF SalesMove
<1>2. ASSUME NEW key \in Keys, NEW plan \in Plans, NEW optIn \in BOOLEAN,
             CreateCheckout(key, plan, optIn)
      PROVE  SalesMove
  BY <1>2 DEF CreateCheckout, MayBuy, NewInvoice, Buying, CheckoutOf, SalesMove
<1>3. ASSUME NEW i \in web, CheckoutReady(i) \/ CheckoutFails(i) PROVE SalesMove
  <2>1. CASE CheckoutReady(i)
    BY <1>1, <2>1 DEF CheckoutReady, tables
  <2>2. CASE CheckoutFails(i)
    BY <1>a, <2>2, CheckoutFailsMove DEF SalesMove, Unpaid
  <2>3. QED
    BY <1>3, <2>1, <2>2
<1>4. CASE CancelRenewal
  BY <1>1, <1>4 DEF CancelRenewal, Cancelled
<1>5. ASSUME NEW i \in Ids, Callback(i) PROVE SalesMove
  BY <1>a, <1>5, AppliedMove DEF Callback, SalesMove
<1>6. ASSUME NEW i \in Ids,
             CustomerPays(i) \/ RequestArrives(i) \/ RequestIsLost(i) \/ ProviderDecides(i)
      PROVE  SalesMove
  BY <1>1, <1>6 DEF CustomerPays, RequestArrives, RequestIsLost, ProviderDecides,
                    ProviderTurns, tables
<1>7. CASE BillingCrash \/ BillingTick
  BY <1>1, <1>7 DEF BillingCrash, BillingTick, tables
<1>8. CASE RunnerStep
  <2>1. CASE BeginRun \/ (\E success \in BOOLEAN : FinishReminder(success))
             \/ ListProcessing \/ ListDue \/ SkipRenewal
    BY <1>1, <2>1 DEF BeginRun, FinishReminder, ListProcessing, ListDue, SkipRenewal, tables
  <2>2. ASSUME NEW i \in runner.todo, StatusAnswers(i) \/ StatusThrows(i) PROVE SalesMove
    <3>a. i \in Renewals /\ i \in Ids /\ clock' = clock
      BY <1>a, <1>b, <2>2 DEF RunnerInv, StatusAnswers, StatusThrows
    <3>b. runner' # runner
      BY <1>a, <2>2, RunnerParts DEF StatusAnswers, StatusThrows, Asked, RunnerRow
    <3>1. CASE charge[i] = "paid" /\ ApplySuccessfulInvoice(i, runner.now)
      BY <1>a, <1>b, <3>a, <3>b, <3>1, AppliedMove DEF SalesMove
    <3>2. CASE StatusAnswers(i) /\ charge[i] \in {"failed", "wrong"} /\ MarkRenewalFailed(i, runner.now)
      <4>1. i \notin web'
        BY <1>a, <3>2, <3>a DEF ProviderInv, StatusAnswers
      <4>2. QED
        BY <1>a, <1>b, <3>a, <3>2, <4>1, MarkFailedMove DEF SalesMove, Unpaid
    <3>3. CASE MarkRenewalStatusChecked(i, runner.now)
      BY <1>a, <1>b, <3>a, <3>3, MarkCheckedMove DEF SalesMove
    <3>4. QED
      BY <2>2, <3>1, <3>2, <3>3 DEF StatusAnswers, StatusThrows
  <2>3. CASE StartRenewal
    <3>1. runner'.pc = "charging"
      BY <1>a, <2>3, RunnerParts DEF StartRenewal, RunnerRow
    <3>2. QED
      BY <2>3, <3>1 DEF StartRenewal, NewInvoice, Renewing, SalesMove
  <2>4. CASE ChargeAccepted \/ ChargeThrows
    <3>1. /\ runner.invoice \in Renewals /\ MarkRenewalProcessing(runner.invoice, clock)
          /\ clock' = clock
      BY <1>a, <2>4 DEF ChargeAccepted, ChargeThrows, RunnerInv
    <3>2. QED
      BY <1>a, <3>1, MarkProcessingMove DEF SalesMove
  <2>5. CASE ChargeRejected
    <3>1. /\ runner.invoice \in Renewals /\ MarkRenewalFailed(runner.invoice, clock)
          /\ clock' = clock /\ charge[runner.invoice] = "lost" /\ web' = web
      BY <1>a, <2>5 DEF ChargeRejected, RunnerInv
    <3>2. runner.invoice \in Ids /\ runner.invoice \notin web'
      BY <1>a, <1>b, <3>1 DEF ProviderInv
    <3>3. QED
      BY <1>a, <3>1, <3>2, MarkFailedMove DEF SalesMove, Unpaid
  <2>6. QED
    BY <1>8, <2>1, <2>2, <2>3, <2>4, <2>5 DEF RunnerStep
<1>9. CASE UNCHANGED billingVars
  BY <1>1, <1>9 DEF billingVars, tables
<1>10. QED
  BY <1>2, <1>3, <1>4, <1>5, <1>6, <1>7, <1>8, <1>9 DEF BillingNext

\* The sales stay in order, and what is sold stays sold.
LEMMA SalesKept ==
  ASSUME SalesInv, RunnerInv, SalesMove
  PROVE  /\ SalesInv' /\ Reached <= Reached' /\ Reached' \in Nat
         /\ Ids \subseteq Ids' /\ Renewals \subseteq Renewals' /\ Checkouts \subseteq Checkouts'
         /\ runner'.pc # "charging" => Renewals' = Renewals
<1>a. Reached \in Nat
  BY SalesParts
<1>b. ASSUME RowsKept
      PROVE  Ids' = Ids /\ Renewals' = Renewals /\ Checkouts' = Checkouts
  BY <1>b, KeptSets, SalesParts
<1>c. /\ Ids = Renewals \cup Checkouts /\ Ids' = Renewals' \cup Checkouts'
  BY DEF Renewals, Checkouts
<1>d. ASSUME SalesInv' PROVE Reached' \in Nat
  <2>1. (invoices \in Seq(InvoiceRow))'
    BY <1>d DEF SalesInv, TablesInv
  <2>2. (Cardinality(PaidIds) \in Nat)'
    <3>1. DOMAIN invoices' = 1 .. Len(invoices') /\ Len(invoices') \in Nat
      BY <2>1, LenProperties
    <3>2. IsFiniteSet(1 .. Len(invoices'))
      BY <3>1, FS_Interval
    <3>3. PaidIds' \in SUBSET (1 .. Len(invoices'))
      BY <3>1 DEF PaidIds, Ids
    <3>4. QED
      BY <3>2, <3>3, FS_Subset, FS_CardinalityType
  <2>3. PICK n \in Nat : n = Cardinality(PaidIds')
    BY <2>2
  <2>4. n * Month \in Nat
    BY MonthsGrow
  <2>5. QED
    BY <2>3, <2>4, BillingNumbers DEF Reached
<1>1. CASE Quiet
  BY <1>a, <1>b, <1>1, QuietGood DEF Quiet
<1>2. ASSUME NEW i \in Ids, NEW t \in Times, Paying(i, t)
      PROVE  SalesInv' /\ Reached <= Reached' /\ RowsKept
  BY <1>a, <1>2, PayingGood DEF Paying, Settles
<1>3. ASSUME NEW i \in Ids, Failing(i) PROVE SalesInv' /\ Reached' = Reached /\ RowsKept
  BY <1>3, FailingGood DEF Failing, Settles
<1>4. ASSUME NEW key \in Keys, NEW plan \in Plans, NEW optIn \in BOOLEAN, Buying(key, plan, optIn)
      PROVE  /\ SalesInv' /\ Reached' = Reached
             /\ Renewals' = Renewals /\ Checkouts \subseteq Checkouts'
  BY <1>4, BuyingGood
<1>5. CASE runner.pc = "starting" /\ Renewing /\ runner'.pc = "charging"
  BY <1>a, <1>c, <1>5, RenewingGood
<1>6. QED
  BY <1>a, <1>b, <1>c, <1>d, <1>1, <1>2, <1>3, <1>4, <1>5 DEF SalesMove

-----------------------------------------------------------------------------
(* The reminders, the provider and the runner.                              *)

LEMMA ReminderStep ==
  ASSUME BillingInv, [BillingNext]_billingVars
  PROVE  ReminderInv'
<1>a. /\ ReminderInv /\ clock \in Nat /\ runner \in RunnerRow /\ ReminderLease \in Nat
      /\ MaxAttempts \in Nat
  BY SalesParts, BillingNumbers DEF BillingInv, SalesInv, RunnerInv
<1>1. ASSUME reminder' = reminder PROVE ReminderInv'
  BY <1>a, <1>1 DEF ReminderInv
<1>2. CASE BeginRun
  <2>1. CASE ReminderDue(clock) /\ reminder' = [reminder EXCEPT
               ![sub.end] = [status |-> "sending", attempts |-> @.attempts + 1,
                             lease |-> clock + ReminderLease]]
    <3>1. reminder[sub.end].attempts < MaxAttempts
      BY <2>1 DEF ReminderDue
    <3>2. ASSUME NEW e \in Ends
          PROVE  reminder'[e] \in [status : ReminderStatus, attempts : 0..MaxAttempts,
                                   lease : Nat \cup {NoTime}]
      <4>1. reminder[e] \in [status : ReminderStatus, attempts : 0..MaxAttempts,
                             lease : Nat \cup {NoTime}]
        BY <1>a DEF ReminderInv
      <4>2. CASE e = sub.end
        <5>1. reminder'[e] = [status |-> "sending", attempts |-> reminder[e].attempts + 1,
                              lease |-> clock + ReminderLease]
          BY <1>a, <2>1, <4>2 DEF ReminderInv
        <5>2. reminder[e].attempts + 1 \in 0 .. MaxAttempts /\ clock + ReminderLease \in Nat
          BY <1>a, <3>1, <4>1, <4>2
        <5>3. QED
          BY <5>1, <5>2 DEF ReminderStatus
      <4>3. CASE e # sub.end
        BY <1>a, <2>1, <4>1, <4>3 DEF ReminderInv
      <4>4. QED
        BY <4>2, <4>3
    <3>3. QED
      BY <1>a, <2>1, <3>2 DEF ReminderInv
  <2>2. CASE reminder' = reminder
    BY <1>1, <2>2
  <2>3. QED
    BY <1>2, <2>1, <2>2 DEF BeginRun
<1>3. ASSUME NEW success \in BOOLEAN, FinishReminder(success) PROVE ReminderInv'
  <2> DEFINE status == IF success THEN "sent" ELSE "failed"
  <2>1. reminder' = [reminder EXCEPT
          ![runner.due.end] = [@ EXCEPT !.status = status, !.lease = NoTime]]
    BY <1>3 DEF FinishReminder
  <2>2. status \in ReminderStatus
    BY DEF ReminderStatus
  <2> HIDE DEF status
  <2>3. ASSUME NEW e \in Ends
        PROVE  reminder'[e] \in [status : ReminderStatus, attempts : 0..MaxAttempts,
                                 lease : Nat \cup {NoTime}]
    <3>1. reminder[e] \in [status : ReminderStatus, attempts : 0..MaxAttempts,
                           lease : Nat \cup {NoTime}]
      BY <1>a DEF ReminderInv
    <3>2. CASE e = runner.due.end
      <4>1. reminder'[e] = [reminder[e] EXCEPT !.status = status, !.lease = NoTime]
        BY <1>a, <2>1, <3>2 DEF ReminderInv
      <4>2. PICK x, y : x = reminder[e] /\ y = [x EXCEPT !.status = status, !.lease = NoTime]
        OBVIOUS
      <4>3. y = [status |-> status, attempts |-> x.attempts, lease |-> NoTime]
        BY <3>1, <4>2
      <4>4. QED
        BY <2>2, <3>1, <4>1, <4>2, <4>3
    <3>3. CASE e # runner.due.end
      BY <1>a, <2>1, <3>1, <3>3 DEF ReminderInv
    <3>4. QED
      BY <3>2, <3>3
  <2>4. QED
    BY <1>a, <2>1, <2>3 DEF ReminderInv
<1>4. CASE /\ ~BeginRun /\ ~\E success \in BOOLEAN : FinishReminder(success)
  <2>1. reminder' = reminder
    <3>1. CASE RunnerStep
      BY <1>4, <3>1 DEF RunnerStep, ListProcessing, StatusAnswers, StatusThrows, ListDue,
                        StartRenewal, SkipRenewal, ChargeAccepted, ChargeRejected, ChargeThrows, tables
    <3>2. CASE ~RunnerStep
      BY <3>2 DEF BillingNext, CreateCheckout, CheckoutReady, CheckoutFails, CancelRenewal,
                  Callback, CustomerPays, RequestArrives, RequestIsLost, ProviderDecides,
                  ProviderTurns, BillingCrash, BillingTick, billingVars, tables
    <3>3. QED
      BY <3>1, <3>2
  <2>2. QED
    BY <1>1, <2>1
<1>5. QED
  BY <1>2, <1>3, <1>4

\* Only what is awaited or not yet decided changes at the provider.
LEMMA ChargeStep ==
  ASSUME ProviderInv, [BillingNext]_billingVars
  PROVE  \/ charge' = charge /\ web' \subseteq web
         \/ \E i \in Ids, to \in ChargeStatus :
              /\ charge' = [charge EXCEPT ![i] = to] /\ invoices' = invoices
              /\ \/ web' = web /\ charge[i] \in {"offered", "asked", "created"}
                 \/ web' = web \ {i} /\ i \in web
         \/ \E key \in Keys, plan \in Plans, optIn \in BOOLEAN : CreateCheckout(key, plan, optIn)
         \/ StartRenewal
<1>1. ASSUME NEW i \in web, CheckoutReady(i)
      PROVE  /\ charge' = [charge EXCEPT ![i] = "offered"] /\ invoices' = invoices
             /\ web' = web \ {i} /\ i \in web /\ i \in Ids /\ "offered" \in ChargeStatus
  BY <1>1 DEF CheckoutReady, tables, ProviderInv, Checkouts, ChargeStatus
<1>2. ASSUME NEW i \in Ids, CustomerPays(i) \/ RequestArrives(i) \/ RequestIsLost(i)
      PROVE  \E to \in ChargeStatus :
               /\ charge' = [charge EXCEPT ![i] = to] /\ invoices' = invoices
               /\ web' = web /\ charge[i] \in {"offered", "asked", "created"}
  BY <1>2 DEF CustomerPays, RequestArrives, RequestIsLost, ProviderTurns, tables, ChargeStatus
<1>3. ASSUME NEW i \in Ids, ProviderDecides(i)
      PROVE  \E to \in ChargeStatus :
               /\ charge' = [charge EXCEPT ![i] = to] /\ invoices' = invoices
               /\ web' = web /\ charge[i] \in {"offered", "asked", "created"}
  BY <1>3 DEF ProviderDecides, ProviderTurns, tables, ChargeStatus
<1>4. ASSUME RunnerStep
      PROVE  UNCHANGED <<charge, web>> \/ StartRenewal
  BY <1>4 DEF RunnerStep, BeginRun, FinishReminder, ListProcessing, StatusAnswers, StatusThrows,
              ListDue, SkipRenewal, ChargeAccepted, ChargeRejected,
              ChargeThrows, tables
<1>5. CASE \/ \E i \in web : CheckoutFails(i)
           \/ CancelRenewal \/ BillingCrash \/ BillingTick \/ UNCHANGED billingVars
           \/ \E i \in Ids : Callback(i)
  BY <1>5 DEF CheckoutFails, CancelRenewal, BillingCrash, BillingTick, billingVars, tables,
              Callback
<1>6. QED
  BY <1>1, <1>2, <1>3, <1>4, <1>5 DEF BillingNext

LEMMA ProviderStep ==
  ASSUME BillingInv, [BillingNext]_billingVars
  PROVE  ProviderInv'
<1>a. /\ SalesInv /\ ProviderInv /\ RunnerInv /\ SalesMove
      /\ invoices \in Seq(InvoiceRow) /\ Renewals \subseteq Ids
      /\ Ids = 1 .. Len(invoices) /\ Len(invoices) \in Nat
      /\ charge \in Seq(ChargeStatus) /\ Len(charge) = Len(invoices)
      /\ web \subseteq Ids /\ web \subseteq Checkouts /\ Checkouts \cap Renewals = {}
  BY SalesStep, SalesParts, IdsAre
     DEF BillingInv, SalesInv, ProviderInv, Renewals, Checkouts
<1>b. /\ charge # Append(charge, "none") /\ charge # Append(charge, "asked")
      /\ \A to \in {"none", "asked"} :
           /\ Append(charge, to) \in Seq(ChargeStatus)
           /\ Len(Append(charge, to)) = Len(charge) + 1
           /\ Append(charge, to)[Len(charge) + 1] = to
           /\ \A i \in 1 .. Len(charge) : Append(charge, to)[i] = charge[i]
  <2>1. \A to \in {"none", "asked"} :
           /\ Append(charge, to) \in Seq(ChargeStatus)
           /\ Len(Append(charge, to)) = Len(charge) + 1
           /\ Append(charge, to)[Len(charge) + 1] = to
           /\ \A i \in 1 .. Len(charge) : Append(charge, to)[i] = charge[i]
    BY <1>a, AppendProperties DEF ChargeStatus
  <2>2. Len(charge) # Len(charge) + 1
    BY <1>a
  <2>3. QED
    BY <2>1, <2>2
<1>1. CASE charge' = charge /\ web' \subseteq web
  <2>1. Quiet \/ (\E i \in Ids, t \in Times : Paying(i, t) /\ charge[i] = "paid")
        \/ \E i \in Ids : Failing(i) /\ charge[i] \in Unpaid /\ i \notin web'
    BY <1>a, <1>b, <1>1 DEF SalesMove
  <2>2. RowsKept
    BY <2>1 DEF Quiet, Paying, Failing, Settles
  <2>3. Ids' = Ids /\ Checkouts' = Checkouts /\ Len(invoices)' = Len(invoices)
    BY <1>a, <2>2, KeptSets DEF RowsKept
  <2>4. \A j \in Ids : invoices'[j].status = "failed" => charge[j] \in Unpaid
    BY <1>a, <2>1 DEF Quiet, Paying, Failing, Settles, ProviderInv, Unpaid
  <2>5. \A j \in web' : invoices'[j].status = "pending" /\ charge[j] = "none"
    BY <1>a, <1>1, <2>1 DEF Quiet, Paying, Failing, Settles, ProviderInv
  <2>6. QED
    BY <1>a, <1>1, <2>3, <2>4, <2>5 DEF ProviderInv, Unpaid
<1>2. CASE \E i \in Ids, to \in ChargeStatus :
              /\ charge' = [charge EXCEPT ![i] = to] /\ invoices' = invoices
              /\ \/ web' = web /\ charge[i] \in {"offered", "asked", "created"}
                 \/ web' = web \ {i} /\ i \in web
  <2>1. PICK i \in Ids, to \in ChargeStatus :
              /\ charge' = [charge EXCEPT ![i] = to] /\ invoices' = invoices
              /\ \/ web' = web /\ charge[i] \in {"offered", "asked", "created"}
                 \/ web' = web \ {i} /\ i \in web
    BY <1>2
  <2>2. /\ charge' \in Seq(ChargeStatus) /\ Len(charge') = Len(charge)
        /\ \A j \in Ids : charge'[j] = IF j = i THEN to ELSE charge[j]
    BY <1>a, <2>1, ExceptSeq
  <2>3. Ids' = Ids /\ Checkouts' = Checkouts
    BY <2>1 DEF Ids, Checkouts, Renewals
  <2>4. invoices[i].status # "failed" /\ i \notin web'
    BY <1>a, <2>1 DEF ProviderInv
  <2>5. QED
    BY <1>a, <2>1, <2>2, <2>3, <2>4 DEF ProviderInv
<1>c. ASSUME NEW to \in {"none", "asked"}, charge' = Append(charge, to),
             SalesInv', Ids' = Ids \cup {Len(invoices)'},
             Len(invoices)' = Len(invoices) + 1, web' \subseteq Checkouts',
             invoices'[Len(invoices)'].status = "pending",
             web' \subseteq web \cup {Len(invoices)'}, Len(invoices)' \in web' => to = "none",
             \A i \in Ids : invoices'[i] = invoices[i]
      PROVE  ProviderInv'
  <2>1. charge' \in Seq(ChargeStatus) /\ Len(charge') = Len(invoices)'
    BY <1>a, <1>b, <1>c
  <2>2. \A i \in Ids : charge'[i] = charge[i]
    BY <1>a, <1>b, <1>c
  <2>3. charge'[Len(invoices)'] = to
    BY <1>a, <1>b, <1>c
  <2>4. \A i \in Ids' : invoices'[i].status = "failed"
                         => charge'[i] \in {"none", "lost", "failed", "wrong"}
    BY <1>a, <1>c, <2>2, <2>3 DEF ProviderInv
  <2>5. \A i \in web' : charge'[i] = "none" /\ invoices'[i].status = "pending"
    BY <1>a, <1>c, <2>2, <2>3 DEF ProviderInv
  <2>6. QED
    BY <1>c, <2>1, <2>4, <2>5 DEF ProviderInv
<1>3. ASSUME NEW key \in Keys, NEW plan \in Plans, NEW optIn \in BOOLEAN,
             CreateCheckout(key, plan, optIn)
      PROVE  ProviderInv'
  <2>1. /\ Buying(key, plan, optIn)
        /\ charge' = Append(charge, "none") /\ web' = web \cup {Len(invoices)'}
    BY <1>3 DEF CreateCheckout, MayBuy, NewInvoice, Buying, CheckoutOf
  <2>2. SalesInv' /\ Checkouts' = Checkouts \cup {Len(invoices)'}
    BY <1>a, <2>1, BuyingGood
  <2>3. PICK y : y = CheckoutOf(key, plan, optIn)
    OBVIOUS
  <2>4. y \in InvoiceRow /\ y.status = "pending"
    BY <2>3 DEF CheckoutOf, InvoiceRow, InvoiceStatus
  <2>5. /\ Ids' = Ids \cup {Len(invoices)'} /\ Len(invoices)' = Len(invoices) + 1
        /\ invoices'[Len(invoices)'] = y
        /\ \A i \in Ids : invoices'[i] = invoices[i]
    BY <1>a, <2>1, <2>3, <2>4, RowAdded DEF Buying
  <2>6. QED
    BY <1>a, <1>c, <2>1, <2>2, <2>4, <2>5
<1>4. CASE StartRenewal
  <2>1. /\ runner.pc = "starting" /\ Renewing
        /\ charge' = Append(charge, "asked") /\ web' = web
    BY <1>4 DEF StartRenewal, NewInvoice, Renewing
  <2>2. /\ SalesInv' /\ Checkouts' = Checkouts /\ Renewals' = Renewals \cup {Len(invoices)'}
        /\ Len(invoices)' \notin Ids
    BY <1>a, <2>1, RenewingGood
  <2>3. PICK y : y = RenewalOf(runner.due)
    OBVIOUS
  <2>4. invoices' = Append(invoices, y) /\ y.status = "pending"
    BY <2>1, <2>3 DEF RenewalOf, Renewing
  <2>5. y \in InvoiceRow
    <3>1. runner.due = [plan |-> sub.plan, parent |-> sub.parent, end |-> sub.end]
          /\ sub.status = "active"
      BY <2>1 DEF Renewing, StillDue
    <3>2. sub.plan \in Plans /\ sub.parent \in Nat /\ sub.end \in Nat /\ runner.now \in Times
      BY <1>a, <3>1, SalesParts, SubParts, RunnerParts DEF SalesInv, AgreedInv
    <3>3. QED
      BY <2>3, <3>1, <3>2 DEF RenewalOf, InvoiceRow, InvoiceStatus
  <2>6. /\ Ids' = Ids \cup {Len(invoices)'} /\ Len(invoices)' = Len(invoices) + 1
        /\ invoices'[Len(invoices)'] = y
        /\ \A i \in Ids : invoices'[i] = invoices[i]
    BY <1>a, <2>4, <2>5, RowAdded
  <2>7. QED
    BY <1>a, <1>c, <2>1, <2>2, <2>4, <2>6
<1>5. QED
  BY <1>a, <1>1, <1>2, <1>3, <1>4, ChargeStep

LEMMA IdleRunGood == IdleRun \in RunnerRow /\ IdleRun.todo = {} /\ IdleRun.invoice = 0
                     /\ IdleRun.pc = "idle" /\ IdleRun.now = 0 /\ IdleRun.due.end = NoTime
  BY BillingNumbers DEF IdleRun, NoDue, RunnerRow, RunnerPcs, Times

\* A run goes on from one await to the next.
LEMMA RunnerGoes ==
  ASSUME BillingInv, [BillingNext]_billingVars
  PROVE  RunnerInv'
<1>a. /\ SalesInv /\ RunnerInv /\ SalesMove /\ runner \in RunnerRow
      /\ clock \in Times /\ clock \in Nat /\ NoTime \notin Nat
  BY SalesStep, SalesParts, BillingNumbers DEF BillingInv, SalesInv, RunnerInv
<1>b. /\ SalesInv' /\ Reached <= Reached' /\ Reached \in Nat /\ Reached' \in Nat
      /\ Renewals \subseteq Renewals'
      /\ runner'.pc # "charging" => Renewals' = Renewals
  BY <1>a, SalesKept, SalesParts
<1>c. clock' \in Nat /\ clock <= clock'
  BY <1>a DEF SalesMove, Quiet, Paying, Failing, Buying, Renewing, Times
<1>d. /\ runner.pc \in RunnerPcs /\ runner.now \in Times /\ runner.now \in Nat /\ runner.todo \in SUBSET Nat
      /\ runner.due \in [plan : Nat, parent : Nat, end : Nat \cup {NoTime}]
      /\ runner.invoice \in Nat /\ runner.now <= clock
      /\ runner.todo \subseteq Renewals /\ runner.invoice \in Renewals \cup {0}
      /\ runner.due.end \in Nat => runner.due.end <= Reached
  BY <1>a, RunnerParts DEF RunnerInv, Times
<1>e. Renewals \subseteq Nat
  BY <1>a, IdsAre, SalesParts DEF Renewals
<1>0. ASSUME NEW pc \in RunnerPcs, NEW now \in Times, NEW todo \in SUBSET Renewals,
             NEW due \in [plan : Nat, parent : Nat, end : Nat \cup {NoTime}],
             NEW invoice \in Renewals' \cup {0},
             runner' = [pc |-> pc, now |-> now, todo |-> todo, due |-> due, invoice |-> invoice],
             now <= clock, pc = "charging" => invoice # 0, invoice \in Nat,
             pc = "starting" => Cardinality(Renewals) < MaxRenewals,
             due.end \in Nat => due.end <= Reached
      PROVE  RunnerInv'
  <2>1. runner' \in RunnerRow
    BY <1>0, <1>e DEF RunnerRow
  <2>2. now <= clock' /\ (due.end \in Nat => due.end <= Reached')
    BY <1>0, <1>a, <1>b, <1>c DEF Times
  <2>3. pc = "starting" => Cardinality(Renewals)' < MaxRenewals
    BY <1>0, <1>b
  <2>4. QED
    BY <1>0, <1>b, <2>1, <2>2, <2>3 DEF RunnerInv
<1>1. CASE runner' = runner
  BY <1>a, <1>b, <1>c, <1>d, <1>1 DEF RunnerInv
<1>2. CASE runner' = IdleRun
  BY <1>2, <1>a, <1>b, <1>c, IdleRunGood DEF RunnerInv
<1>3. CASE BeginRun
  <2>1. CASE runner' = [IdleRun EXCEPT !.pc = "mailing", !.now = clock, !.due.end = sub.end]
    <3>1. runner' = [pc |-> "mailing", now |-> clock, todo |-> {},
                     due |-> [plan |-> 0, parent |-> 0, end |-> sub.end], invoice |-> 0]
      BY <2>1 DEF IdleRun, NoDue
    <3>2. sub.end \in Nat /\ sub.end <= Reached
      BY <1>a, SalesParts DEF SalesInv, CountInv
    <3>3. QED
      BY <1>0, <1>a, <3>1, <3>2 DEF RunnerPcs
  <2>2. CASE runner' = [IdleRun EXCEPT !.pc = "listing", !.now = clock]
    <3>1. runner' = [pc |-> "listing", now |-> clock, todo |-> {}, due |-> NoDue, invoice |-> 0]
      BY <2>2 DEF IdleRun
    <3>2. NoDue \in [plan : Nat, parent : Nat, end : Nat \cup {NoTime}] /\ NoDue.end \notin Nat
      BY <1>a DEF NoDue
    <3>3. QED
      BY <1>0, <1>a, <3>1, <3>2 DEF RunnerPcs
  <2>3. QED
    BY <1>3, <2>1, <2>2 DEF BeginRun
<1>4. ASSUME NEW success \in BOOLEAN, FinishReminder(success) PROVE RunnerInv'
  <2>1. runner' = [runner EXCEPT !.pc = "listing", !.due = NoDue]
    BY <1>4 DEF FinishReminder
  <2>2. runner' = [pc |-> "listing", now |-> runner.now, todo |-> runner.todo, due |-> NoDue,
                   invoice |-> runner.invoice]
    BY <1>a, <2>1 DEF RunnerRow
  <2>3. NoDue \in [plan : Nat, parent : Nat, end : Nat \cup {NoTime}] /\ NoDue.end \notin Nat
    BY <1>a DEF NoDue
  <2>4. QED
    BY <1>0, <1>b, <1>d, <2>2, <2>3 DEF RunnerPcs
<1>5. CASE ListProcessing
  <2>1. PICK todo \in SUBSET Renewals : runner' = [runner EXCEPT !.pc = "asking", !.todo = todo]
    BY <1>5 DEF ListProcessing
  <2>2. runner' = [pc |-> "asking", now |-> runner.now, todo |-> todo, due |-> runner.due,
                   invoice |-> runner.invoice]
    BY <1>a, <2>1 DEF RunnerRow
  <2>3. QED
    BY <1>0, <1>b, <1>d, <2>2 DEF RunnerPcs
<1>6. ASSUME NEW i \in runner.todo, StatusAnswers(i) \/ StatusThrows(i) PROVE RunnerInv'
  <2>1. runner' = [runner EXCEPT !.todo = @ \ {i}] /\ runner.pc = "asking"
    BY <1>6 DEF StatusAnswers, StatusThrows, Asked
  <2>2. runner' = [pc |-> "asking", now |-> runner.now, todo |-> runner.todo \ {i},
                   due |-> runner.due, invoice |-> runner.invoice]
    BY <1>a, <2>1 DEF RunnerRow
  <2>3. QED
    BY <1>0, <1>b, <1>d, <2>2 DEF RunnerPcs
<1>7. CASE ListDue
  <2>1. CASE /\ SubscriptionDue(runner.now)
             /\ runner' = [runner EXCEPT !.pc = "starting",
                  !.due = [plan |-> sub.plan, parent |-> sub.parent, end |-> sub.end]]
    <3>1. runner' = [pc |-> "starting", now |-> runner.now, todo |-> runner.todo,
                     due |-> [plan |-> sub.plan, parent |-> sub.parent, end |-> sub.end],
                     invoice |-> runner.invoice]
      BY <1>a, <2>1 DEF RunnerRow
    <3>2. /\ sub.plan \in Nat /\ sub.parent \in Nat /\ sub.end \in Nat /\ sub.end <= Reached
          /\ Cardinality(Renewals) < MaxRenewals
      BY <1>a, <2>1, SalesParts, SubParts, BillingNumbers DEF SalesInv, CountInv, SubscriptionDue
    <3>3. QED
      BY <1>0, <1>b, <1>d, <3>1, <3>2 DEF RunnerPcs
  <2>2. QED
    BY <1>2, <1>7, <2>1 DEF ListDue
<1>8. CASE StartRenewal
  <2>1. runner' = [runner EXCEPT !.pc = "charging", !.invoice = Len(invoices)']
        /\ runner.pc = "starting" /\ Renewing
    BY <1>8 DEF StartRenewal, NewInvoice, Renewing
  <2>2. runner' = [pc |-> "charging", now |-> runner.now, todo |-> runner.todo,
                   due |-> runner.due, invoice |-> Len(invoices)']
    BY <1>a, <2>1 DEF RunnerRow
  <2>3. Len(invoices)' \in Renewals'
    BY <1>a, <2>1, RenewingGood
  <2>4. Len(invoices)' \in Nat /\ Len(invoices)' # 0
    <3>1. invoices' \in Seq(InvoiceRow)
      BY <1>b DEF SalesInv, TablesInv
    <3>2. DOMAIN invoices' = 1 .. Len(invoices') /\ Len(invoices') \in Nat
      BY <3>1, LenProperties
    <3>3. QED
      BY <2>3, <3>2 DEF Renewals, Ids
  <2>5. QED
    BY <1>0, <1>d, <2>2, <2>3, <2>4 DEF RunnerPcs
<1>9. CASE SkipRenewal \/ ChargeAccepted \/ ChargeRejected \/ ChargeThrows
  BY <1>2, <1>9 DEF SkipRenewal, ChargeAccepted, ChargeRejected, ChargeThrows
<1>10. CASE RunnerStep
  BY <1>3, <1>4, <1>5, <1>6, <1>7, <1>8, <1>9, <1>10 DEF RunnerStep
<1>11. CASE ~RunnerStep
  <2>1. runner' = runner \/ runner' = IdleRun
    BY <1>11 DEF BillingNext, CreateCheckout, CheckoutReady, CheckoutFails, CancelRenewal,
                 Callback, CustomerPays, RequestArrives, RequestIsLost, ProviderDecides,
                 ProviderTurns, BillingCrash, BillingTick, billingVars
  <2>2. QED
    BY <1>1, <1>2, <2>1
<1>12. QED
  BY <1>10, <1>11

-----------------------------------------------------------------------------
(* The invariant and what it gives.                                         *)

LEMMA BillingInvInit == BillingInit => BillingInv
<1> SUFFICES ASSUME BillingInit PROVE BillingInv
  OBVIOUS
<1>1. /\ invoices = <<>> /\ invoices \in Seq(InvoiceRow) /\ Len(invoices) = 0
      /\ charge = <<>> /\ charge \in Seq(ChargeStatus) /\ Len(charge) = 0
  BY EmptySeq DEF BillingInit
<1>2. Ids = {}
  BY <1>1, LenProperties DEF Ids
<1>3. Renewals = {} /\ Checkouts = {} /\ PaidIds = {} /\ Cardinality({}) = 0
  BY <1>2, FS_EmptySet DEF Renewals, Checkouts, PaidIds
<1>4. Reached = MaxTime
  BY <1>3, BillingNumbers DEF Reached
<1>5. sub = NoSub /\ NoSub \in SubRow /\ clock = 0 /\ clock \in Times
  BY BillingNumbers DEF BillingInit, NoSub, SubRow, Times
<1>6. TablesInv
  BY <1>1, <1>5 DEF TablesInv, NoSub
<1>7. CountInv /\ AgreedInv /\ OpenInv
  BY <1>3, <1>4, <1>5, BillingNumbers DEF CountInv, AgreedInv, OpenInv, NoSub
<1>8. ReminderInv
  BY BillingNumbers DEF ReminderInv, BillingInit, ReminderStatus
<1>9. ProviderInv
  BY <1>1, <1>2 DEF ProviderInv, BillingInit
<1>10. RunnerInv
  BY <1>5, IdleRunGood, BillingNumbers DEF RunnerInv, BillingInit
<1>11. QED
  BY <1>6, <1>7, <1>8, <1>9, <1>10 DEF BillingInv

LEMMA BillingInvStep == BillingInv /\ [BillingNext]_billingVars => BillingInv'
<1> SUFFICES ASSUME BillingInv, [BillingNext]_billingVars PROVE BillingInv'
  OBVIOUS
<1>1. SalesInv'
  BY SalesStep, SalesKept DEF BillingInv, SalesInv
<1>2. QED
  BY <1>1, ReminderStep, ProviderStep, RunnerGoes DEF BillingInv, SalesInv

\* The sales, the reminders, the provider and the runner are always in order.
THEOREM BillingInvHolds == BillingSpec => []BillingInv
  BY BillingInvInit, BillingInvStep, PTL DEF BillingSpec

LEMMA BillingInvMeans ==
  BillingInv => BillingTypeOK /\ RenewalWasAgreed /\ MoneyIsNotWrittenOff
<1> SUFFICES ASSUME BillingInv PROVE BillingTypeOK /\ RenewalWasAgreed /\ MoneyIsNotWrittenOff
  OBVIOUS
<1>a. /\ TablesInv /\ CountInv /\ SalesInv /\ AgreedInv /\ ReminderInv /\ ProviderInv /\ RunnerInv
      /\ 0 .. Reached \subseteq Ends /\ Reached \in Nat
  BY ReachedIsEnd, SalesParts DEF BillingInv, SalesInv
<1>b. \A e \in Nat : e <= Reached => e \in Ends
  BY <1>a
<1>1. RenewalWasAgreed
  BY <1>a DEF AgreedInv, Agreed, Checkouts, RenewalWasAgreed
<1>2. MoneyIsNotWrittenOff
  BY <1>a DEF ProviderInv, MoneyIsNotWrittenOff
<1>3. invoices \in Seq(InvoiceType)
  <2>1. ASSUME NEW i \in Ids PROVE invoices[i] \in InvoiceType
    <3>1. invoices[i] \in InvoiceRow
      BY <1>a, SalesParts
    <3>2. invoices[i].periodEnd \in Ends \cup {NoTime}
      <4>1. CASE i \in Renewals
        BY <1>a, <1>b, <4>1 DEF CountInv
      <4>2. CASE i \notin Renewals
        BY <1>a, <4>2 DEF CountInv, Checkouts
      <4>3. QED
        BY <4>1, <4>2
    <3>3. QED
      BY <3>1, <3>2 DEF InvoiceRow, InvoiceType
  <2>2. QED
    BY <1>a, <2>1, SalesParts, IdsAre
<1>4. sub \in [plan : Plans \cup {0}, status : {"none", "active", "past_due"}, end : Ends,
               next : Ends \cup {NoTime}, auto : BOOLEAN,
               parent : Ids \cup {0}, last : Ids \cup {0}]
  <2>1. sub.end \in Ends
    BY <1>a, <1>b, SalesParts DEF CountInv
  <2>2. sub.next \in Ends \cup {NoTime} /\ sub.parent \in Ids \cup {0} /\ sub.last \in Ids \cup {0}
    BY <1>a, <2>1 DEF TablesInv
  <2>3. QED
    BY <1>a, <2>1, <2>2, SubParts DEF TablesInv, SubRow
<1>5. runner \in [pc : RunnerPcs, now : Times, todo : SUBSET Ids,
                  due : [plan : Nat, parent : Nat, end : Ends \cup {NoTime}],
                  invoice : Ids \cup {0}]
  <2>1. Renewals \subseteq Ids
    BY DEF Renewals
  <2>2. runner.todo \in SUBSET Ids /\ runner.invoice \in Ids \cup {0}
    BY <1>a, <2>1 DEF RunnerInv
  <2>3. runner.due.end \in Ends \cup {NoTime}
    BY <1>a, <1>b, RunnerParts DEF RunnerInv
  <2>4. runner.due \in [plan : Nat, parent : Nat, end : Ends \cup {NoTime}]
    BY <1>a, <2>3, RunnerParts
  <2>5. QED
    BY <1>a, <2>2, <2>4, RunnerParts DEF RunnerRow
<1>6. web \subseteq Ids /\ charge \in Seq(ChargeStatus) /\ Len(charge) = Len(invoices)
  BY <1>a DEF ProviderInv, Checkouts
<1>7. BillingTypeOK
  BY <1>a, <1>3, <1>4, <1>5, <1>6 DEF BillingTypeOK, TablesInv, ReminderInv
<1>8. QED
  BY <1>1, <1>2, <1>7

\* The tables, the provider and the runner keep their types; the date of the
\* next charge is the end of the period, and the attempts at a reminder stay
\* within their bound through failures, crashes and leases.
THEOREM BillingTypeCorrect == BillingSpec => []BillingTypeOK
  BY BillingInvHolds, BillingInvMeans, PTL

\* Every renewal goes back to a checkout that was paid with the opt-in.
THEOREM RenewalsAreAgreed == BillingSpec => []RenewalWasAgreed
  BY BillingInvHolds, BillingInvMeans, PTL

\* Money that the provider has taken is never written off.
THEOREM MoneyIsKept == BillingSpec => []MoneyIsNotWrittenOff
  BY BillingInvHolds, BillingInvMeans, PTL

-----------------------------------------------------------------------------
(* What a step may do with the subscription.                                *)

\* Only a payment opens auto-renewal or moves the end of the period.
LEMMA SubMoves ==
  ASSUME SalesInv, SalesMove
  PROVE  \/ sub'.end = sub.end /\ (sub'.auto => sub.auto)
         \/ \E i \in Ids, t \in Times :
              /\ Paying(i, t) /\ charge[i] = "paid"
              /\ t = clock \/ (t = runner.now /\ runner' # runner)
<1>1. CASE Quiet
  BY <1>1, CancelledRow, SalesParts DEF Quiet
<1>2. CASE \E i \in Ids : Failing(i)
  BY <1>2, SalesParts DEF Failing, SubRow
<1>3. CASE Renewing \/ \E key \in Keys, plan \in Plans, optIn \in BOOLEAN : Buying(key, plan, optIn)
  BY <1>3 DEF Renewing, Buying
<1>4. QED
  BY <1>1, <1>2, <1>3 DEF SalesMove

\* A renewal is charged only for the subscription as it is at that moment, and
\* once for its period.
THEOREM ChargesAreDue == BillingSpec => ChargesWhatIsDue
<1>1. ASSUME BillingInv, [BillingNext]_billingVars,
             NEW i \in DOMAIN invoices' \ DOMAIN invoices, invoices'[i].parent # 0
      PROVE  /\ sub.auto /\ sub.status = "active" /\ sub.end <= clock
             /\ invoices'[i].plan = sub.plan /\ invoices'[i].periodEnd = sub.end
             /\ invoices'[i].parent = sub.parent
             /\ \A j \in Renewals : invoices[j].periodEnd # sub.end
  <2>a. SalesInv /\ SalesMove /\ RunnerInv /\ i \in Ids' /\ i \notin Ids
    BY <1>1, SalesStep DEF BillingInv, SalesInv, Ids
  <2>1. ASSUME RowsKept PROVE FALSE
    BY <2>a, <2>1, KeptSets, SalesParts
  <2>2. ASSUME NEW key \in Keys, NEW plan \in Plans, NEW optIn \in BOOLEAN, Buying(key, plan, optIn)
        PROVE  FALSE
    <3>1. Renewals' = Renewals
      BY <2>a, <2>2, BuyingGood
    <3>2. i \in Renewals'
      BY <1>1, <2>a DEF Renewals
    <3>3. QED
      BY <2>a, <3>1, <3>2 DEF Renewals
  <2>3. Renewing /\ runner.pc = "starting"
    BY <2>a, <2>1, <2>2 DEF SalesMove, Quiet, Paying, Failing, Settles
  <2>4. /\ sub.auto /\ sub.status = "active" /\ sub.next <= runner.now
        /\ runner.due = [plan |-> sub.plan, parent |-> sub.parent, end |-> sub.end]
        /\ \A j \in Renewals : invoices[j].periodEnd # sub.end
        /\ invoices' = Append(invoices, RenewalOf(runner.due))
    BY <2>3 DEF Renewing, StillDue
  <2>5. sub.end <= clock /\ sub.plan \in Plans /\ sub.parent \in Nat /\ sub.end \in Nat
    BY <2>a, <2>4, RunnerParts, SalesParts, SubParts DEF SalesInv, TablesInv, AgreedInv, Times
  <2>6. PICK y : y = RenewalOf(runner.due)
    OBVIOUS
  <2>7. y \in InvoiceRow /\ y.plan = sub.plan /\ y.periodEnd = sub.end /\ y.parent = sub.parent
    BY <2>a, <2>4, <2>5, <2>6, RunnerParts DEF RenewalOf, InvoiceRow, InvoiceStatus
  <2>8. invoices'[i] = y
    BY <2>a, <2>4, <2>6, <2>7, RowAdded, SalesParts
  <2>9. QED
    BY <2>4, <2>5, <2>7, <2>8
<1>2. BillingInv /\ [BillingNext]_billingVars =>
        [\A i \in DOMAIN invoices' \ DOMAIN invoices : invoices'[i].parent # 0 =>
           /\ sub.auto /\ sub.status = "active" /\ sub.end <= clock
           /\ invoices'[i].plan = sub.plan /\ invoices'[i].periodEnd = sub.end
           /\ invoices'[i].parent = sub.parent
           /\ \A j \in Renewals : invoices[j].periodEnd # sub.end]_billingVars
  BY <1>1
<1>3. QED
  BY <1>2, BillingInvHolds, PTL DEF BillingSpec, ChargesWhatIsDue

\* A cancellation holds until the candidate pays a new checkout with the opt-in.
THEOREM CancellationsHold == BillingSpec => CancelHolds
<1>1. ASSUME BillingInv, [BillingNext]_billingVars,
             sub.auto = FALSE, sub'.auto = TRUE
      PROVE  \E i \in Ids \ Renewals : /\ invoices[i].optIn /\ Unresolved(i)
                                        /\ invoices'[i].status = "paid"
  <2>a. SalesInv /\ SalesMove
    BY <1>1, SalesStep DEF BillingInv, SalesInv
  <2>1. PICK i \in Ids, t \in Times : Paying(i, t)
    BY <1>1, <2>a, SubMoves
  <2>2. i \notin Renewals /\ invoices[i].optIn
    BY <1>1, <2>a, <2>1, PaidParts DEF Paying
  <2>3. QED
    BY <2>1, <2>2 DEF Paying, Settles
<1>2. BillingInv /\ [BillingNext]_billingVars =>
        [sub.auto = FALSE /\ sub'.auto = TRUE =>
           \E i \in Ids \ Renewals : /\ invoices[i].optIn /\ Unresolved(i)
                                    /\ invoices'[i].status = "paid"]_billingVars
  BY <1>1
<1>3. QED
  BY <1>2, BillingInvHolds, PTL DEF BillingSpec, CancelHolds

\* With the end of the period one invoice becomes paid, whose money the
\* provider has.
THEOREM AccessWasPaidFor == BillingSpec => AccessIsPaidFor
<1>1. ASSUME BillingInv, [BillingNext]_billingVars, sub'.end # sub.end
      PROVE  \E i \in Ids : /\ Unresolved(i) /\ invoices'[i].status = "paid"
                            /\ charge[i] = "paid"
  BY <1>1, SalesStep, SubMoves DEF BillingInv, SalesInv, Paying, Settles
<1>2. BillingInv /\ [BillingNext]_billingVars =>
        [sub'.end # sub.end =>
           \E i \in Ids : /\ Unresolved(i) /\ invoices'[i].status = "paid"
                          /\ charge[i] = "paid"]_billingVars
  BY <1>1
<1>3. QED
  BY <1>2, BillingInvHolds, PTL DEF BillingSpec, AccessIsPaidFor

\* No payment that is dated now shortens the access that was paid before.
THEOREM AccessIsKept == BillingSpec => AccessNeverShrinks
<1>1. ASSUME BillingInv, [BillingNext]_billingVars, runner' = runner \/ runner.now = clock
      PROVE  sub'.end >= sub.end
  <2>a. SalesInv /\ SalesMove /\ sub.end \in Nat /\ clock \in Nat /\ Month \in Nat
    BY <1>1, SalesStep, SalesParts DEF BillingInv, SalesInv
  <2>1. CASE sub'.end = sub.end
    BY <2>a, <2>1
  <2>2. CASE sub'.end # sub.end
    <3>1. PICK i \in Ids, t \in Times : Paying(i, t) /\ t = clock
      BY <1>1, <2>a, <2>2, SubMoves
    <3>2. /\ sub'.end = PeriodBase(i, t) + Month /\ PeriodBase(i, t) \in Nat
          /\ t <= PeriodBase(i, t)
          /\ i \notin Renewals => PeriodBase(i, t) = Later(t, sub.end)
      BY <2>a, <3>1, PaidParts DEF Paying
    <3>3. CASE i \in Renewals
      <4>1. sub.end <= clock + Month
        BY <2>a, <3>1, <3>3 DEF SalesInv, OpenInv, Paying, Settles
      <4>2. QED
        BY <2>a, <3>1, <3>2, <4>1
    <3>4. CASE i \notin Renewals
      BY <2>a, <3>1, <3>2, <3>4 DEF Later
    <3>5. QED
      BY <3>3, <3>4
  <2>3. QED
    BY <2>1, <2>2
<1>2. BillingInv /\ [BillingNext]_billingVars =>
        [runner' = runner \/ runner.now = clock => sub'.end >= sub.end]_billingVars
  BY <1>1
<1>3. QED
  BY <1>2, BillingInvHolds, PTL DEF BillingSpec, AccessNeverShrinks

=============================================================================
