---------------------------- MODULE MechanicsProofs ----------------------------
(***************************************************************************)
(* Proofs about the two queues of Mechanics, for any lanes, rows, times and *)
(* bounds: what the attempts and the waits of a row count, that no model is  *)
(* asked for a text that has been read, and that leases fence the lanes off. *)
(***************************************************************************)
EXTENDS Mechanics, TLAPS

\* The constants one by one.
LEMMA Numbers ==
  /\ Lease \in Nat /\ CallTime \in Nat /\ Lease > 0
  /\ DeferTime \in Nat /\ ChannelPause \in Nat /\ ChannelWait \in Nat
  /\ BudgetWait \in Nat /\ RetryWait \in Nat
  /\ MaxDefers \in Nat /\ MaxDefers > 0 /\ MaxAttempts \in Nat /\ MaxAttempts > 0
  /\ MaxAsks \in Nat /\ MaxStarts \in Nat
  /\ ReqOf \in [Fits -> Reqs] /\ Nobody \notin Lanes
<1>1. \A n \in {Lease, CallTime} \cup Waits : n \in Nat \ {0}
  BY MechanicsAssumption
<1>2. \A n \in {MaxDefers, MaxAttempts} : n \in Nat \ {0}
  BY MechanicsAssumption
<1>3. QED
  BY <1>1, <1>2, MechanicsAssumption DEF Waits

-----------------------------------------------------------------------------
(* What is always true of a row.                                            *)

\* A text that is queued has attempts left.
ReqGood(row) == row \in ReqRows /\ (row.status = "queued" => row.attempts < MaxAttempts)

\* The claims of a fit are its attempts: all of those of a row that waits were
\* spent, and all but the last one of a row under a lease.  A row that is still
\* to be counted has waits left.
FitGood(row, n) ==
  /\ row \in FitRows /\ n \in 0 .. MaxAttempts
  /\ row.status \in {"pending", "leased"} => row.defers < MaxDefers /\ row.error = "none"
  /\ row.error # "none" => row.status = "failed"
  /\ row.error \in {"model", "other"} => n = MaxAttempts
  /\ row.status = "pending" => Most(row.attempts, MaxAttempts) = n
  /\ row.status = "leased" => row.attempts > 0 /\ Most(row.attempts - 1, MaxAttempts) = n

LaneGood(row) == row \in LaneRows /\ (row.pc = "assessing" => row.age <= CallTime)

Jobs(jobs) == jobs \in [Reqs -> ReqRows] /\ \A r \in Reqs : ReqGood(jobs[r])

ReleaseInv ==
  /\ release \in 1 .. 1 + starts /\ starts \in 0 .. MaxStarts /\ asks \in 0 .. MaxAsks
  /\ read \in [Reqs -> 0 .. release] /\ result \in [Fits -> 0 .. release]
  /\ budget \in Nat /\ channel \in Nat

FitsInv ==
  /\ fits \in [Fits -> FitRows] /\ spent \in [Fits -> 0 .. MaxAttempts]
  /\ \A f \in Fits : FitGood(fits[f], spent[f])

LanesInv == lane \in [Lanes -> LaneRows] /\ \A l \in Lanes : LaneGood(lane[l])

HttpInv == http \in HttpRows

MechanicsInv == ReleaseInv /\ Jobs(reqs) /\ FitsInv /\ LanesInv /\ HttpInv /\ CallsAreNeeded

\* What MechanicsInv is for.
LEMMA MechanicsInvMeans ==
  MechanicsInv => MechanicsTypeOK /\ WaitsCostNothing /\ CallsAreNeeded
<1> SUFFICES ASSUME MechanicsInv PROVE MechanicsTypeOK /\ WaitsCostNothing /\ CallsAreNeeded
  OBVIOUS
<1>1. MechanicsTypeOK
  BY DEF MechanicsInv, ReleaseInv, Jobs, FitsInv, LanesInv, HttpInv, MechanicsTypeOK
<1>2. WaitsCostNothing
  BY DEF MechanicsInv, FitsInv, FitGood, WaitsCostNothing
<1>3. CallsAreNeeded
  BY DEF MechanicsInv
<1>4. QED
  BY <1>1, <1>2, <1>3

LEMMA MechanicsInvInit == MechanicsInit => MechanicsInv
<1> SUFFICES ASSUME MechanicsInit PROVE MechanicsInv
  OBVIOUS
<1>1. ReleaseInv
  BY Numbers DEF MechanicsInit, ReleaseInv
<1>2. Jobs(reqs)
  <2>1. NoReq \in ReqRows /\ [NoReq EXCEPT !.status = "completed"] \in ReqRows
    BY Numbers DEF NoReq, ReqRows, ReqStatus, Tail, Needed
  <2>2. QED
    BY <2>1 DEF MechanicsInit, Jobs, ReqGood, NoReq
<1>3. FitsInv
  <2>1. FitGood(NoFit, 0)
    BY Numbers DEF NoFit, FitGood, FitRows, FitStatus, FitErrors
  <2>2. QED
    BY <2>1, Numbers DEF MechanicsInit, FitsInv, FitGood
<1>4. LanesInv
  <2>1. LaneGood(IdleLane)
    BY Numbers DEF IdleLane, LaneGood, LaneRows, LanePlaces
  <2>2. QED
    BY <2>1 DEF MechanicsInit, LanesInv, LaneGood
<1>5. HttpInv /\ CallsAreNeeded
  BY DEF MechanicsInit, HttpInv, HttpRows, HttpPlaces, NoHttp, CallsAreNeeded, IdleLane
<1>6. QED
  BY <1>1, <1>2, <1>3, <1>4, <1>5 DEF MechanicsInv

-----------------------------------------------------------------------------
(* What a call of the model rests on.                                       *)

\* The row is under the running lease of a lane.
OwnedBy(row, l) == row.status = "leased" /\ row.owner = l /\ row.until > 0

NoRowIsGiven == \A r \in Reqs, l \in Lanes : OwnedBy(reqs'[r], l) => OwnedBy(reqs[r], l)

NoLaneBegins ==
  \A l \in Lanes : lane'[l].pc = "reading" =>
    lane'[l].req = {} \/ (lane[l].pc = "reading" /\ lane'[l].req = lane[l].req)

\* A step that gives no lane a row and lets none begin to read needs no call more.
LEMMA CallsKept ==
  ASSUME MechanicsInv, read' = read, release' = release,
         NoRowIsGiven, NoLaneBegins
  PROVE  CallsAreNeeded'
<1>1. \A l \in Lanes : lane[l].req \in SUBSET Reqs
  BY DEF MechanicsInv, LanesInv, LaneRows
<1>2. \A r \in Reqs : IsRead(r)' <=> IsRead(r)
  BY DEF IsRead
<1>3. CallsAreNeeded
  BY DEF MechanicsInv
<1>4. QED
  BY <1>1, <1>2, <1>3 DEF CallsAreNeeded, OwnedBy, NoRowIsGiven, NoLaneBegins

\* A lane that lets go of the text it had begins nothing.
LEMMA NothingBegun ==
  ASSUME MechanicsInv, NEW l \in Lanes, NEW x, x.req = {}, lane' = [lane EXCEPT ![l] = x]
  PROVE  NoLaneBegins
  BY DEF MechanicsInv, LanesInv, NoLaneBegins

-----------------------------------------------------------------------------
(* The queue of requirements.                                               *)

\* Rows as they are written by an EXCEPT of the source.
LEMMA ReqParts ==
  ASSUME NEW x \in ReqRows
  PROVE  /\ x.status \in ReqStatus /\ x.attempts \in 0 .. MaxAttempts
         /\ x.priority \in Tail .. Needed /\ x.until \in Nat /\ x.owner \in Lanes \cup {Nobody}
  BY DEF ReqRows

LEMMA QueuedAgainGood ==
  ASSUME NEW x \in ReqRows
  PROVE  ReqGood(QueuedAgain(x)) /\ QueuedAgain(x).status = "queued"
<1>1. PICK y : y = QueuedAgain(x)
  OBVIOUS
<1>2. y = [status |-> "queued", attempts |-> 0, priority |-> x.priority,
           until |-> 0, owner |-> Nobody]
  BY <1>1 DEF QueuedAgain, NoReq
<1>3. QED
  BY <1>1, <1>2, ReqParts, Numbers DEF ReqGood, ReqRows, ReqStatus

LEMMA RaisedGood ==
  ASSUME NEW x, ReqGood(x), NEW p \in Tail .. Needed
  PROVE  /\ ReqGood(Raised(x, p))
         /\ Raised(x, p).status = x.status /\ Raised(x, p).attempts = x.attempts
         /\ Raised(x, p).until = x.until /\ Raised(x, p).owner = x.owner
<1> DEFINE q == IF p > x.priority THEN p ELSE x.priority
<1>1. x \in ReqRows
  BY DEF ReqGood
<1>2. Raised(x, p) = [status |-> x.status, attempts |-> x.attempts, priority |-> q,
                      until |-> x.until, owner |-> x.owner]
  BY <1>1 DEF Raised, ReqRows
<1>3. q \in Tail .. Needed
  BY <1>1, ReqParts
<1> HIDE DEF q
<1>4. QED
  BY <1>1, <1>2, <1>3, ReqParts DEF ReqGood, ReqRows

\* The upsert leaves a row that is queued, leased or failed, and gives it to nobody.
LEMMA UpsertedGood ==
  ASSUME NEW x, ReqGood(x), NEW p \in Tail .. Needed
  PROVE  /\ ReqGood(Upserted(x, p))
         /\ Upserted(x, p).status \in {"queued", "leased", "failed"}
         /\ \A l : OwnedBy(Upserted(x, p), l) => OwnedBy(x, l)
<1>1. x \in ReqRows /\ x.status \in ReqStatus
  BY ReqParts DEF ReqGood
<1>2. CASE x.status \in {"none", "completed"}
  <2>1. Upserted(x, p) = Raised(QueuedAgain(x), p)
    BY <1>2 DEF Upserted
  <2>2. ReqGood(QueuedAgain(x)) /\ QueuedAgain(x).status = "queued"
    BY <1>1, QueuedAgainGood
  <2>3. QED
    BY <2>1, <2>2, RaisedGood DEF OwnedBy
<1>3. CASE x.status \notin {"none", "completed"}
  <2>1. Upserted(x, p) = Raised(x, p)
    BY <1>3 DEF Upserted
  <2>2. QED
    BY <1>1, <1>3, <2>1, RaisedGood DEF ReqStatus, OwnedBy
<1>4. QED
  BY <1>2, <1>3

\* What a lane asks for is queued unless it has been read, is leased already or
\* has failed.
LEMMA EnqueuedGood ==
  ASSUME Jobs(reqs), NEW r \in Reqs, NEW p \in Tail .. Needed
  PROVE  /\ ReqGood(Enqueued(r, p))
         /\ ~IsRead(r) => Enqueued(r, p).status \in {"queued", "leased", "failed"}
         /\ \A l : OwnedBy(Enqueued(r, p), l) => OwnedBy(reqs[r], l)
<1>1. ReqGood(reqs[r])
  BY DEF Jobs
<1>2. QED
  BY <1>1, UpsertedGood DEF Enqueued

\* What a lane asked for is in order and gives nobody a row.
LEMMA EnqueueKeeps ==
  ASSUME MechanicsInv, NEW r \in Reqs, read' = read, release' = release,
         reqs' = reqs \/ reqs' = [reqs EXCEPT ![r] = Enqueued(r, Needed)]
  PROVE  Jobs(reqs)' /\ NoRowIsGiven
<1>1. Jobs(reqs) /\ reqs \in [Reqs -> ReqRows]
  BY DEF MechanicsInv, Jobs
<1>2. /\ ReqGood(Enqueued(r, Needed))
      /\ \A l : OwnedBy(Enqueued(r, Needed), l) => OwnedBy(reqs[r], l)
  BY <1>1, EnqueuedGood DEF Tail, Needed
<1>3. QED
  BY <1>1, <1>2 DEF Jobs, ReqGood, NoRowIsGiven

\* One row of a queue is written.
LEMMA JobsSet ==
  ASSUME NEW jobs, Jobs(jobs), NEW r \in Reqs, NEW x, ReqGood(x)
  PROVE  Jobs([jobs EXCEPT ![r] = x])
  BY DEF Jobs, ReqGood

LEMMA SweptGood ==
  ASSUME NEW jobs, Jobs(jobs)
  PROVE  /\ Jobs(Swept(jobs))
         /\ \A r \in Reqs : \A l : OwnedBy(Swept(jobs)[r], l) => OwnedBy(jobs[r], l)
<1>1. ASSUME NEW r \in Reqs
      PROVE  /\ ReqGood(Swept(jobs)[r])
             /\ \A l : OwnedBy(Swept(jobs)[r], l) => OwnedBy(jobs[r], l)
  <2>1. jobs[r] \in ReqRows /\ ReqGood(jobs[r])
    BY DEF Jobs
  <2>2. CASE Swept(jobs)[r] = jobs[r]
    BY <2>1, <2>2
  <2>3. CASE Swept(jobs)[r] # jobs[r]
    <3>1. Swept(jobs)[r] = [jobs[r] EXCEPT !.status = "failed", !.owner = Nobody]
      BY <2>3 DEF Swept
    <3>2. Swept(jobs)[r] = [status |-> "failed", attempts |-> jobs[r].attempts,
                            priority |-> jobs[r].priority, until |-> jobs[r].until,
                            owner |-> Nobody]
      BY <2>1, <3>1 DEF ReqRows
    <3>3. QED
      BY <2>1, <3>2, ReqParts DEF ReqGood, ReqRows, ReqStatus, OwnedBy
  <2>4. QED
    BY <2>2, <2>3
<1>2. QED
  BY <1>1 DEF Jobs, Swept, ReqGood

\* A lane that looks for a text to read leaves the queue and itself in order, and
\* goes to the model only for a text that has not been read.
LEMMA ReadNextGood ==
  ASSUME MechanicsInv, NEW l \in Lanes, NEW jobs, Jobs(jobs), NEW least, NEW fresh,
         \A r \in Reqs, k \in Lanes : OwnedBy(jobs[r], k) => OwnedBy(reqs[r], k),
         NEW then \in LanePlaces, NEW fit \in SUBSET Fits,
         ReadNext(l, jobs, least, fresh, then, fit),
         read' = read, release' = release
  PROVE  Jobs(reqs)' /\ LanesInv' /\ CallsAreNeeded'
<1>a. lane \in [Lanes -> LaneRows] /\ LanesInv /\ CallsAreNeeded
  BY DEF MechanicsInv, LanesInv
<1>b. \A r \in Reqs : IsRead(r)' <=> IsRead(r)
  BY DEF IsRead
<1> DEFINE swept == Swept(jobs)
           free == Readable(swept, least)
<1>c. Jobs(swept) /\ \A r \in Reqs, k \in Lanes : OwnedBy(swept[r], k) => OwnedBy(reqs[r], k)
  BY SweptGood
<1>1. CASE /\ reqs' = swept
           /\ lane' = [lane EXCEPT ![l] =
                [IdleLane EXCEPT !.pc = IF then = "after" THEN "ready" ELSE then, !.fit = fit]]
  <2> DEFINE pc == IF then = "after" THEN "ready" ELSE then
  <2>1. pc \in LanePlaces
    BY DEF LanePlaces
  <2>2. lane'[l] = [pc |-> pc, fit |-> fit, req |-> {}, then |-> "idle", age |-> 0]
    BY <1>a, <1>1 DEF IdleLane
  <2> HIDE DEF pc
  <2>3. LaneGood(lane'[l])
    BY <2>1, <2>2, Numbers DEF LaneGood, LaneRows, LanePlaces
  <2>4. LanesInv'
    BY <1>a, <1>1, <2>3 DEF LanesInv, LaneGood
  <2>5. CallsAreNeeded'
    <3>1. \A k \in Lanes : k # l => lane'[k] = lane[k]
      BY <1>a, <1>1
    <3>2. \A r \in Reqs, k \in Lanes : OwnedBy(reqs'[r], k) => OwnedBy(reqs[r], k)
      BY <1>1, <1>c
    <3>3. lane'[l].req = {}
      BY <2>2
    <3>4. QED
      BY <3>1, <3>2, <3>3, CallsKept DEF NoLaneBegins, NoRowIsGiven
  <2>6. QED
    BY <1>1, <1>b, <1>c, <2>4, <2>5 DEF Jobs
<1>2. CASE \E r \in free :
             /\ reqs' = [swept EXCEPT ![r].status = "leased", ![r].attempts = @ + 1,
                                      ![r].until = Lease, ![r].owner = l]
             /\ lane' = [lane EXCEPT ![l] =
                  [pc |-> KnownFirst(r), fit |-> fit, req |-> {r}, then |-> then, age |-> 0]]
  <2>1. PICK r \in free :
             /\ reqs' = [swept EXCEPT ![r].status = "leased", ![r].attempts = @ + 1,
                                      ![r].until = Lease, ![r].owner = l]
             /\ lane' = [lane EXCEPT ![l] =
                  [pc |-> KnownFirst(r), fit |-> fit, req |-> {r}, then |-> then, age |-> 0]]
    BY <1>2
  <2>2. /\ r \in Reqs /\ swept[r] \in ReqRows /\ swept[r].attempts < MaxAttempts
        /\ swept[r].status \in {"queued", "leased"} /\ swept \in [Reqs -> ReqRows]
    BY <1>c, <2>1 DEF Readable, Jobs
  <2> DEFINE x == [status |-> "leased", attempts |-> swept[r].attempts + 1,
                   priority |-> swept[r].priority, until |-> Lease, owner |-> l]
  <2>3. reqs' = [swept EXCEPT ![r] = [swept[r] EXCEPT !.status = "leased", !.attempts = @ + 1,
                                                      !.until = Lease, !.owner = l]]
    BY <2>1
  <2>4. PICK y : y = [swept[r] EXCEPT !.status = "leased", !.attempts = @ + 1,
                                      !.until = Lease, !.owner = l]
    OBVIOUS
  <2>5. reqs' = [swept EXCEPT ![r] = x]
    <3>1. y = x
      BY <2>2, <2>4 DEF ReqRows
    <3>2. QED
      BY <2>3, <2>4, <3>1
  <2>6. ReqGood(x) /\ x.owner = l
    BY <2>2, ReqParts, Numbers DEF ReqGood, ReqRows, ReqStatus
  <2>7. KnownFirst(r) \in LanePlaces /\ (KnownFirst(r) = "reading" => ~IsRead(r))
        /\ KnownFirst(r) # "assessing"
    BY DEF KnownFirst, LanePlaces
  <2> HIDE DEF x, swept
  <2>8. Jobs([swept EXCEPT ![r] = x])
    BY <1>c, <2>2, <2>6, JobsSet
  <2>9. Jobs(reqs)'
    BY <1>b, <2>5, <2>8 DEF Jobs
  <2>10. lane'[l] = [pc |-> KnownFirst(r), fit |-> fit, req |-> {r}, then |-> then, age |-> 0]
    BY <1>a, <2>1
  <2>11. LaneGood(lane'[l])
    BY <2>2, <2>7, <2>10, Numbers DEF LaneGood, LaneRows
  <2>12. LanesInv'
    BY <1>a, <2>1, <2>11 DEF LanesInv, LaneGood
  <2>13. CallsAreNeeded'
    <3> SUFFICES ASSUME NEW k \in Lanes, NEW q \in lane'[k].req,
                        lane'[k].pc = "reading", OwnedBy(reqs'[q], k)
                 PROVE  ~IsRead(q)'
      BY DEF CallsAreNeeded, OwnedBy
    <3>1. q \in Reqs
      BY <2>12 DEF LanesInv, LaneRows
    <3>2. CASE k = l
      BY <1>b, <2>2, <2>7, <2>10, <3>2
    <3>3. CASE k # l
      <4>1. lane'[k] = lane[k]
        BY <1>a, <2>1, <3>3
      <4>2. q # r
        BY <2>2, <2>5, <2>6, <3>3 DEF OwnedBy
      <4>3. OwnedBy(reqs[q], k)
        BY <1>c, <2>2, <2>5, <3>1, <4>2
      <4>4. QED
        BY <1>a, <1>b, <3>1, <4>1, <4>3 DEF CallsAreNeeded, OwnedBy
    <3>4. QED
      BY <3>2, <3>3
  <2>14. QED
    BY <2>9, <2>12, <2>13
<1>3. QED
  BY <1>1, <1>2 DEF ReadNext

\* The model's answer to a reading makes a row that is in order.
LEMMA ReadRowGood ==
  ASSUME NEW r \in Reqs, reqs[r] \in ReqRows, reqs[r].status = "leased",
         NEW answer \in {"good", "invalid", "unavailable", "budget", "down"}, NEW pause \in Nat
  PROVE  /\ ReqGood(ReadRow(r, answer, pause))
         /\ ReadRow(r, answer, pause).owner = Nobody
<1> DEFINE x == reqs[r]
           last == x.attempts >= MaxAttempts
<1>a. x.attempts \in 0 .. MaxAttempts /\ x.priority \in Tail .. Needed
  BY ReqParts
<1>b. PICK y : y = ReadRow(r, answer, pause)
  OBVIOUS
<1>1. CASE answer \in {"budget", "down"}
  <2> DEFINE until == IF answer = "budget" THEN pause ELSE ChannelWait
             attempts == Less(x.attempts)
  <2>1. until \in Nat /\ attempts \in 0 .. MaxAttempts /\ attempts < MaxAttempts
    BY <1>a, Numbers DEF Less
  <2>2. y = [[x EXCEPT !.owner = Nobody, !.until = 0]
               EXCEPT !.status = "queued", !.attempts = Less(@), !.until = until]
    BY <1>b, <1>1 DEF ReadRow
  <2>3. PICK z : z = [x EXCEPT !.owner = Nobody, !.until = 0]
    OBVIOUS
  <2>4. z = [status |-> "leased", attempts |-> x.attempts, priority |-> x.priority, until |-> 0,
             owner |-> Nobody]
    BY <2>3 DEF ReqRows
  <2>5. y = [z EXCEPT !.status = "queued", !.attempts = Less(@), !.until = until]
    BY <2>2, <2>3
  <2> HIDE DEF until
  <2>6. y = [status |-> "queued", attempts |-> attempts, priority |-> x.priority, until |-> until,
             owner |-> Nobody]
    BY <2>4, <2>5
  <2>7. QED
    BY <1>a, <1>b, <2>1, <2>6 DEF ReqGood, ReqRows, ReqStatus
<1>2. CASE answer \notin {"budget", "down"}
  <2>1. PICK z : z = [x EXCEPT !.owner = Nobody, !.until = 0]
    OBVIOUS
  <2>2. z = [status |-> "leased", attempts |-> x.attempts, priority |-> x.priority, until |-> 0,
             owner |-> Nobody]
    BY <2>1 DEF ReqRows
  <2>3. \/ \E status \in {"completed", "failed"} : y = [z EXCEPT !.status = status]
        \/ ~last /\ y = [z EXCEPT !.status = "queued", !.until = RetryWait]
    BY <1>a, <1>b, <1>2, <2>1 DEF ReadRow
  <2>4. CASE \E status \in {"completed", "failed"} : y = [z EXCEPT !.status = status]
    <3>1. PICK status \in {"completed", "failed"} : y = [z EXCEPT !.status = status]
      BY <2>4
    <3>2. y = [status |-> status, attempts |-> x.attempts, priority |-> x.priority, until |-> 0,
               owner |-> Nobody]
      BY <2>2, <3>1
    <3>3. QED
      BY <1>a, <1>b, <3>2 DEF ReqGood, ReqRows, ReqStatus
  <2>5. CASE ~last /\ y = [z EXCEPT !.status = "queued", !.until = RetryWait]
    <3>1. y = [status |-> "queued", attempts |-> x.attempts, priority |-> x.priority,
               until |-> RetryWait, owner |-> Nobody]
      BY <2>2, <2>5
    <3>2. x.attempts < MaxAttempts /\ RetryWait \in Nat
      BY <1>a, <2>5, Numbers
    <3> HIDE DEF x
    <3>3. QED
      BY <1>a, <1>b, <3>1, <3>2 DEF ReqGood, ReqRows, ReqStatus
  <2>6. QED
    BY <2>3, <2>4, <2>5
<1>3. QED
  BY <1>1, <1>2

LEMMA PauseTimes ==
  ASSUME ReleaseInv, NEW answer, NEW pause \in PauseTime(answer)
  PROVE  pause \in Nat
  BY Numbers DEF ReleaseInv, PauseTime

LEMMA PausesGood ==
  ASSUME ReleaseInv, NEW answer, NEW pause \in PauseTime(answer), PauseAll(answer, pause)
  PROVE  budget' \in Nat /\ channel' \in Nat
  BY PauseTimes DEF ReleaseInv, PauseAll

LEMMA OnwardGood ==
  ASSUME LanesInv, NEW l \in Lanes, NEW done
  PROVE  LaneGood(Onward(l, done)) /\ Onward(l, done).req = {}
<1>1. lane[l].then \in LanePlaces /\ lane[l].fit \in SUBSET Fits
  BY DEF LanesInv, LaneRows
<1> DEFINE pc == IF lane[l].then = "after" /\ ~done THEN "ready" ELSE lane[l].then
<1>2. pc \in LanePlaces
  BY <1>1 DEF LanePlaces
<1>3. PICK y : y = Onward(l, done)
  OBVIOUS
<1>4. y = [pc |-> pc, fit |-> lane[l].fit, req |-> {}, then |-> "idle", age |-> 0]
  BY <1>3 DEF Onward, IdleLane
<1> HIDE DEF pc
<1>5. QED
  BY <1>1, <1>2, <1>3, <1>4, Numbers DEF LaneGood, LaneRows, LanePlaces

\* A reading gives nobody a row.
LEMMA NobodyOwns ==
  ASSUME MechanicsInv, NEW r \in Reqs, NEW x, x.owner = Nobody,
         reqs' = [reqs EXCEPT ![r] = x] \/ reqs' = reqs
  PROVE  NoRowIsGiven
<1>1. reqs \in [Reqs -> ReqRows]
  BY DEF MechanicsInv, Jobs
<1>2. QED
  BY <1>1, Numbers DEF OwnedBy, NoRowIsGiven

LEMMA AnswerReadInv ==
  ASSUME MechanicsInv, NEW l \in Lanes, NEW answer \in ReadAnswers, NEW second,
         AnswerRead(l, answer, second)
  PROVE  MechanicsInv'
<1>a. ReleaseInv /\ Jobs(reqs) /\ FitsInv /\ LanesInv /\ HttpInv /\ CallsAreNeeded
  BY DEF MechanicsInv
<1>b. reqs \in [Reqs -> ReqRows] /\ lane \in [Lanes -> LaneRows]
  BY <1>a DEF Jobs, LanesInv
<1>c. lane[l].req \in SUBSET Reqs /\ answer \in {"good", "invalid", "unavailable", "budget", "down"}
  BY <1>b, MechanicsAssumption DEF LaneRows
<1> DEFINE Held(r) == HoldsReq(l, r)
           Row(r, pause) == ReadRow(r, answer, pause)
           Done(r, pause) == Held(r) /\ Row(r, pause).status = "completed"
<1>1. PICK r \in lane[l].req, pause \in PauseTime(second) :
             /\ PauseAll(second, pause)
             /\ reqs' = IF Held(r) THEN [reqs EXCEPT ![r] = Row(r, pause)] ELSE reqs
             /\ read' = IF Done(r, pause) THEN [read EXCEPT ![r] = release] ELSE read
             /\ lane' = [lane EXCEPT ![l] = Onward(l, Done(r, pause))]
  BY DEF AnswerRead
<1>2. UNCHANGED <<fits, result, spent, http, release, asks, starts>>
  BY DEF AnswerRead, outside
<1>3. r \in Reqs /\ pause \in Nat /\ budget' \in Nat /\ channel' \in Nat
  BY <1>a, <1>c, <1>1, PauseTimes, PausesGood
<1>4. ReleaseInv'
  BY <1>a, <1>1, <1>2, <1>3 DEF ReleaseInv
<1>d. LaneGood(lane'[l]) /\ lane'[l].req = {} /\ \A k \in Lanes : k # l => lane'[k] = lane[k]
  <2>1. LaneGood(Onward(l, Done(r, pause))) /\ Onward(l, Done(r, pause)).req = {}
    BY <1>a, OnwardGood
  <2> HIDE DEF Done
  <2>2. QED
    BY <1>b, <1>1, <2>1
<1>5. LanesInv'
  BY <1>a, <1>b, <1>1, <1>d DEF LanesInv, LaneGood
<1>6. FitsInv' /\ HttpInv'
  BY <1>a, <1>2 DEF FitsInv, HttpInv
<1>e. Held(r) => ReqGood(Row(r, pause)) /\ Row(r, pause).owner = Nobody
  BY <1>b, <1>c, <1>3, ReadRowGood DEF HoldsReq
<1> HIDE DEF Row
<1>7. Jobs(reqs)'
  BY <1>a, <1>1, <1>3, <1>e, JobsSet DEF Jobs, ReqGood
<1>8. CallsAreNeeded'
  <2>1. CASE ~Held(r)
    <3>1. reqs' = reqs /\ read' = read
      BY <1>1, <2>1
    <3>2. QED
      BY <1>2, <1>d, <3>1, CallsKept DEF NoRowIsGiven, NoLaneBegins
  <2>2. CASE Held(r)
    <3>1. reqs' = [reqs EXCEPT ![r] = Row(r, pause)]
          /\ (read' = read \/ read' = [read EXCEPT ![r] = release])
      BY <1>1, <2>2
    <3> SUFFICES ASSUME NEW k \in Lanes, NEW q \in lane'[k].req,
                        lane'[k].pc = "reading", OwnedBy(reqs'[q], k)
                 PROVE  ~IsRead(q)'
      BY DEF CallsAreNeeded, OwnedBy
    <3>2. k # l /\ lane'[k] = lane[k] /\ q \in Reqs
      BY <1>b, <1>d DEF LaneRows
    <3>3. q # r
      BY <1>b, <1>3, <1>e, <2>2, <3>1, Numbers DEF OwnedBy
    <3>4. OwnedBy(reqs[q], k) /\ read'[q] = read[q]
      BY <1>b, <1>a, <3>1, <3>2, <3>3 DEF ReleaseInv
    <3>5. QED
      BY <1>a, <1>2, <3>2, <3>4 DEF CallsAreNeeded, OwnedBy, IsRead
  <2>3. QED
    BY <2>1, <2>2
<1>9. QED
  BY <1>4, <1>5, <1>6, <1>7, <1>8 DEF MechanicsInv

LEMMA ReadThrownInv ==
  ASSUME MechanicsInv, NEW l \in Lanes, NEW second, ReadThrown(l, second)
  PROVE  MechanicsInv'
<1>a. ReleaseInv /\ Jobs(reqs) /\ FitsInv /\ LanesInv /\ HttpInv
      /\ reqs \in [Reqs -> ReqRows] /\ lane \in [Lanes -> LaneRows]
  BY DEF MechanicsInv, Jobs, LanesInv
<1>b. lane[l].req \in SUBSET Reqs
  BY <1>a DEF LaneRows
<1>1. PICK r \in lane[l].req, pause \in PauseTime(second) :
             /\ PauseAll(second, pause)
             /\ \/ UNCHANGED reqs
                \/ HoldsReq(l, r) /\ reqs' = [reqs EXCEPT ![r] = ReadRow(r, "unavailable", 0)]
  BY DEF ReadThrown
<1>2. /\ lane' = [lane EXCEPT ![l] = Onward(l, FALSE)]
      /\ UNCHANGED <<read, fits, result, spent, http, release, asks, starts>>
  BY DEF ReadThrown, outside
<1>3. r \in Reqs /\ budget' \in Nat /\ channel' \in Nat
  BY <1>a, <1>b, <1>1, PausesGood
<1>4. ReleaseInv' /\ FitsInv' /\ HttpInv'
  BY <1>a, <1>2, <1>3 DEF ReleaseInv, FitsInv, HttpInv
<1>5. LaneGood(Onward(l, FALSE)) /\ Onward(l, FALSE).req = {}
  BY <1>a, OnwardGood
<1>6. LanesInv'
  BY <1>a, <1>2, <1>5 DEF LanesInv, LaneGood
<1> DEFINE x == ReadRow(r, "unavailable", 0)
<1>7. reqs' = reqs \/ (reqs' = [reqs EXCEPT ![r] = x] /\ ReqGood(x) /\ x.owner = Nobody)
  BY <1>a, <1>1, <1>3, ReadRowGood DEF HoldsReq
<1> HIDE DEF x
<1>8. Jobs(reqs)'
  BY <1>a, <1>3, <1>7, JobsSet DEF Jobs, ReqGood
<1>9. CallsAreNeeded'
  <2>1. NoRowIsGiven
    BY <1>3, <1>7, NobodyOwns DEF NoRowIsGiven
  <2>2. NoLaneBegins
    BY <1>2, <1>5, NothingBegun
  <2>3. QED
    BY <1>2, <2>1, <2>2, CallsKept
<1>10. QED
  BY <1>4, <1>6, <1>8, <1>9 DEF MechanicsInv

-----------------------------------------------------------------------------
(* The queue of fits.                                                       *)

LEMMA FitParts ==
  ASSUME NEW x \in FitRows
  PROVE  /\ x.status \in FitStatus /\ x.attempts \in 0 .. MaxAttempts + 1
         /\ x.defers \in 0 .. MaxDefers /\ x.until \in Nat
         /\ x.owner \in Lanes \cup {Nobody} /\ x.error \in FitErrors
  BY DEF FitRows

\* A row that is put back with its attempt ...
LEMMA PausedIs ==
  ASSUME NEW f \in Fits, NEW n, FitGood(fits[f], n), fits[f].status = "leased", NEW wait
  PROVE  PausedRow(f, wait)
           = [status |-> "pending", attempts |-> fits[f].attempts - 1, defers |-> fits[f].defers,
              until |-> wait, owner |-> Nobody, error |-> "none"]
<1> DEFINE x == fits[f]
<1>a. x \in FitRows /\ x.attempts \in 1 .. MaxAttempts + 1 /\ x.error = "none"
  BY FitParts DEF FitGood
<1>1. PICK z : z = Opened(f, wait)
  OBVIOUS
<1>2. z = [status |-> "pending", attempts |-> x.attempts, defers |-> x.defers, until |-> wait,
           owner |-> Nobody, error |-> "none"]
  BY <1>a, <1>1 DEF Opened, FitRows
<1>3. PICK y : y = PausedRow(f, wait)
  OBVIOUS
<1>4. y = [z EXCEPT !.attempts = Less(@)]
  BY <1>1, <1>3 DEF PausedRow
<1>5. Less(x.attempts) = x.attempts - 1
  BY <1>a DEF Less
<1> HIDE DEF x
<1>6. y = [status |-> "pending", attempts |-> x.attempts - 1, defers |-> x.defers, until |-> wait,
           owner |-> Nobody, error |-> "none"]
  BY <1>2, <1>4, <1>5
<1>7. QED
  BY <1>3, <1>6 DEF x

LEMMA PausedGood ==
  ASSUME NEW f \in Fits, NEW n, FitGood(fits[f], n), fits[f].status = "leased", NEW wait \in Nat
  PROVE  FitGood(PausedRow(f, wait), n)
<1> DEFINE x == fits[f]
<1>a. /\ x \in FitRows /\ x.attempts \in 1 .. MaxAttempts + 1 /\ x.defers \in 0 .. MaxDefers
      /\ x.defers < MaxDefers /\ n \in 0 .. MaxAttempts
      /\ Most(x.attempts - 1, MaxAttempts) = n
  BY FitParts DEF FitGood
<1>1. PICK y : y = PausedRow(f, wait)
  OBVIOUS
<1>2. y = [status |-> "pending", attempts |-> x.attempts - 1, defers |-> x.defers, until |-> wait,
           owner |-> Nobody, error |-> "none"]
  BY <1>1, PausedIs
<1> HIDE DEF x
<1>3. y \in FitRows
  BY <1>a, <1>2, Numbers DEF FitRows, FitStatus, FitErrors
<1>4. QED
  BY <1>a, <1>1, <1>2, <1>3 DEF FitGood

\* ... one that waits for its requirements, as long as it has waits left ...
LEMMA DeferredGood ==
  ASSUME NEW f \in Fits, NEW n, FitGood(fits[f], n), fits[f].status = "leased"
  PROVE  FitGood(DeferredRow(f), n)
<1> DEFINE x == fits[f]
<1>a. /\ x \in FitRows /\ x.attempts \in 1 .. MaxAttempts + 1 /\ x.defers \in 0 .. MaxDefers
      /\ x.defers < MaxDefers /\ n \in 0 .. MaxAttempts
      /\ Most(x.attempts - 1, MaxAttempts) = n
  BY FitParts DEF FitGood
<1>1. PICK w : w = [PausedRow(f, DeferTime) EXCEPT !.defers = @ + 1]
  OBVIOUS
<1>2. w = [status |-> "pending", attempts |-> x.attempts - 1, defers |-> x.defers + 1,
           until |-> DeferTime, owner |-> Nobody, error |-> "none"]
  BY <1>1, PausedIs
<1>3. PICK y : y = DeferredRow(f)
  OBVIOUS
<1>4. y = IF w.defers < MaxDefers THEN w
          ELSE [w EXCEPT !.status = "failed", !.until = 0, !.error = "wait"]
  BY <1>1, <1>3 DEF DeferredRow
<1> HIDE DEF x
<1>5. CASE w.defers < MaxDefers
  <2>1. w \in FitRows
    BY <1>a, <1>2, Numbers DEF FitRows, FitStatus, FitErrors
  <2>2. QED
    BY <1>a, <1>2, <1>3, <1>4, <1>5, <2>1 DEF FitGood
<1>6. CASE ~(w.defers < MaxDefers)
  <2>1. y = [status |-> "failed", attempts |-> x.attempts - 1, defers |-> x.defers + 1,
             until |-> 0, owner |-> Nobody, error |-> "wait"]
    BY <1>2, <1>4, <1>6
  <2>2. y \in FitRows
    BY <1>a, <2>1, Numbers DEF FitRows, FitStatus, FitErrors
  <2>3. QED
    BY <1>a, <1>3, <2>1, <2>2 DEF FitGood
<1>7. QED
  BY <1>5, <1>6

\* ... one that the model failed, with an attempt less ...
LEMMA RetriedGood ==
  ASSUME NEW f \in Fits, NEW n, FitGood(fits[f], n), fits[f].status = "leased",
         fits[f].attempts < MaxAttempts
  PROVE  FitGood(Opened(f, RetryWait), Most(n + 1, MaxAttempts))
<1> DEFINE x == fits[f]
<1>a. /\ x \in FitRows /\ x.attempts \in 1 .. MaxAttempts + 1 /\ x.defers \in 0 .. MaxDefers
      /\ x.defers < MaxDefers /\ x.error = "none" /\ n \in 0 .. MaxAttempts
      /\ Most(x.attempts - 1, MaxAttempts) = n /\ x.attempts < MaxAttempts
  BY FitParts DEF FitGood
<1>1. PICK y : y = Opened(f, RetryWait)
  OBVIOUS
<1>2. y = [status |-> "pending", attempts |-> x.attempts, defers |-> x.defers,
           until |-> RetryWait, owner |-> Nobody, error |-> "none"]
  BY <1>a, <1>1 DEF Opened, FitRows
<1> HIDE DEF x
<1>3. y \in FitRows
  BY <1>a, <1>2, Numbers DEF FitRows, FitStatus, FitErrors
<1>4. Most(n + 1, MaxAttempts) = x.attempts
  BY <1>a, Numbers DEF Most
<1>5. QED
  BY <1>a, <1>1, <1>2, <1>3, <1>4, Numbers DEF FitGood, Most

\* ... and one that is done with.
LEMMA EndedGood ==
  ASSUME NEW f \in Fits, NEW n, FitGood(fits[f], n), fits[f].status = "leased",
         NEW status \in {"completed", "failed"}, NEW error \in FitErrors,
         error # "none" => status = "failed", NEW m \in 0 .. MaxAttempts,
         error \in {"model", "other"} => m = MaxAttempts
  PROVE  FitGood(EndedRow(f, status, error), m)
<1> DEFINE x == fits[f]
<1>a. x \in FitRows /\ x.attempts \in 0 .. MaxAttempts + 1 /\ x.defers \in 0 .. MaxDefers
  BY FitParts DEF FitGood
<1>1. PICK y : y = EndedRow(f, status, error)
  OBVIOUS
<1>2. y = [status |-> status, attempts |-> x.attempts, defers |-> x.defers, until |-> 0,
           owner |-> Nobody, error |-> error]
  BY <1>a, <1>1 DEF EndedRow, FitRows
<1> HIDE DEF x
<1>3. y \in FitRows
  BY <1>a, <1>2 DEF FitRows, FitStatus
<1>4. QED
  BY <1>1, <1>2, <1>3 DEF FitGood

-----------------------------------------------------------------------------
(* The steps of a lane.                                                     *)

LEMMA FitsSet ==
  ASSUME FitsInv, NEW f \in Fits, NEW x, NEW n, FitGood(x, n),
         fits' = [fits EXCEPT ![f] = x], spent' = [spent EXCEPT ![f] = n]
  PROVE  FitsInv'
  BY DEF FitsInv, FitGood

LEMMA IdleGood == LaneGood(IdleLane) /\ IdleLane.req = {}
  BY Numbers DEF IdleLane, LaneGood, LaneRows, LanePlaces

LEMMA ClaimFitInv ==
  ASSUME MechanicsInv, NEW l \in Lanes, NEW f \in Fits, ClaimFit(l, f)
  PROVE  MechanicsInv'
<1>a. /\ ReleaseInv /\ Jobs(reqs) /\ FitsInv /\ LanesInv /\ HttpInv
      /\ lane \in [Lanes -> LaneRows] /\ fits \in [Fits -> FitRows]
      /\ spent \in [Fits -> 0 .. MaxAttempts]
  BY DEF MechanicsInv, LanesInv, FitsInv
<1> DEFINE x == fits[f]
<1>b. UNCHANGED <<reqs, read, result, http, budget, channel, release, asks, starts>>
  BY DEF ClaimFit, pauses, outside
<1>1. ReleaseInv' /\ Jobs(reqs)' /\ HttpInv'
  BY <1>a, <1>b DEF ReleaseInv, Jobs, HttpInv
<1>2. FitsInv'
  <2> DEFINE n == IF x.status = "leased" THEN Most(spent[f] + 1, MaxAttempts) ELSE spent[f]
             a == Most(x.attempts + 1, MaxAttempts + 1)
  <2>1. /\ x \in FitRows /\ FitGood(x, spent[f]) /\ x.status \in {"pending", "leased"}
        /\ spent[f] \in 0 .. MaxAttempts
    BY <1>a DEF ClaimFit, Claimable, FitsInv
  <2>2. /\ x.attempts \in 0 .. MaxAttempts + 1 /\ x.defers \in 0 .. MaxDefers
        /\ x.defers < MaxDefers /\ x.error = "none"
    BY <2>1, FitParts DEF FitGood
  <2>3. a \in 1 .. MaxAttempts + 1 /\ n \in 0 .. MaxAttempts /\ Most(a - 1, MaxAttempts) = n
    <3>1. CASE x.status = "leased"
      BY <2>1, <2>2, <3>1, Numbers DEF FitGood, Most
    <3>2. CASE x.status = "pending"
      BY <2>1, <2>2, <3>2, Numbers DEF FitGood, Most
    <3>3. QED
      BY <2>1, <3>1, <3>2
  <2>4. PICK y : y = [x EXCEPT !.status = "leased", !.owner = l, !.until = Lease,
                               !.attempts = Most(@ + 1, MaxAttempts + 1)]
    OBVIOUS
  <2>5. fits' = [fits EXCEPT ![f] = y] /\ spent' = [spent EXCEPT ![f] = n]
    BY <2>4 DEF ClaimFit
  <2>6. y = [status |-> "leased", attempts |-> a, defers |-> x.defers, until |-> Lease,
             owner |-> l, error |-> "none"]
    BY <2>1, <2>2, <2>4 DEF FitRows
  <2> HIDE DEF a, n, x
  <2>7. y \in FitRows
    BY <2>2, <2>3, <2>6, Numbers DEF FitRows, FitStatus, FitErrors
  <2>8. FitGood(y, n)
    BY <2>2, <2>3, <2>6, <2>7 DEF FitGood
  <2>9. QED
    BY <1>a, <2>5, <2>8, FitsSet
<1>3. LanesInv' /\ CallsAreNeeded'
  <2>1. PICK y : y = [IdleLane EXCEPT !.pc = "claimed", !.fit = {f}]
    OBVIOUS
  <2>2. y = [pc |-> "claimed", fit |-> {f}, req |-> {}, then |-> "idle", age |-> 0]
    BY <2>1 DEF IdleLane
  <2>3. lane' = [lane EXCEPT ![l] = y]
    BY <2>1 DEF ClaimFit
  <2>4. LaneGood(y)
    BY <2>2, Numbers DEF LaneGood, LaneRows, LanePlaces
  <2>5. NoLaneBegins /\ NoRowIsGiven
    BY <1>b, <2>2, <2>3, NothingBegun DEF NoRowIsGiven
  <2>6. QED
    BY <1>a, <1>b, <2>3, <2>4, <2>5, CallsKept DEF LanesInv, LaneGood
<1>4. QED
  BY <1>1, <1>2, <1>3 DEF MechanicsInv

LEMMA RequireInv ==
  ASSUME MechanicsInv, NEW l \in Lanes, Require(l)
  PROVE  MechanicsInv'
<1>a. /\ ReleaseInv /\ Jobs(reqs) /\ FitsInv /\ LanesInv /\ HttpInv
      /\ reqs \in [Reqs -> ReqRows] /\ lane \in [Lanes -> LaneRows]
      /\ lane[l].fit \in SUBSET Fits
  BY DEF MechanicsInv, LanesInv, Jobs, LaneRows
<1>b. UNCHANGED <<read, fits, result, spent, http, budget, channel, release, asks, starts>>
  BY DEF Require, pauses, outside
<1> DEFINE job(r) == Enqueued(r, Needed)
           jobs(r) == [reqs EXCEPT ![r] = job(r)]
           place(r) == IF IsRead(r) THEN "assessing" ELSE "waited"
<1>1. PICK f \in lane[l].fit : LET r == ReqOf[f] IN
        \/ /\ reqs' = jobs(r)
           /\ lane' = [lane EXCEPT ![l] = [IdleLane EXCEPT !.pc = place(r), !.fit = {f}]]
        \/ ReadNext(l, jobs(r), Tail, {r}, place(r), {f})
  BY DEF Require
<1> DEFINE r == ReqOf[f]
<1>c. f \in Fits /\ r \in Reqs /\ place(r) \in LanePlaces /\ {f} \in SUBSET Fits
  BY <1>a, Numbers DEF LanePlaces
<1>d. ReqGood(job(r)) /\ \A k : OwnedBy(job(r), k) => OwnedBy(reqs[r], k)
  BY <1>a, <1>c, EnqueuedGood DEF Tail, Needed
<1> HIDE DEF job, place, r
<1>e. /\ Jobs(jobs(r))
      /\ \A q \in Reqs, k \in Lanes : OwnedBy(jobs(r)[q], k) => OwnedBy(reqs[q], k)
  BY <1>a, <1>c, <1>d, JobsSet
<1> HIDE DEF jobs
<1>2. Jobs(reqs)' /\ LanesInv' /\ CallsAreNeeded'
  <2>1. CASE /\ reqs' = jobs(r)
             /\ lane' = [lane EXCEPT ![l] = [IdleLane EXCEPT !.pc = place(r), !.fit = {f}]]
    <3>1. PICK y : y = [IdleLane EXCEPT !.pc = place(r), !.fit = {f}]
      OBVIOUS
    <3>2. y = [pc |-> place(r), fit |-> {f}, req |-> {}, then |-> "idle", age |-> 0]
      BY <3>1 DEF IdleLane
    <3>3. LaneGood(y)
      BY <1>c, <3>2, Numbers DEF LaneGood, LaneRows, LanePlaces
    <3>4. LanesInv'
      BY <1>a, <2>1, <3>1, <3>3 DEF LanesInv, LaneGood
    <3>5. NoLaneBegins /\ NoRowIsGiven
      BY <1>e, <2>1, <3>1, <3>2, NothingBegun DEF NoRowIsGiven
    <3>6. QED
      BY <1>b, <1>e, <2>1, <3>4, <3>5, CallsKept DEF Jobs
  <2>2. CASE ReadNext(l, jobs(r), Tail, {r}, place(r), {f})
    BY <1>b, <1>c, <1>e, <2>2, ReadNextGood
  <2>3. QED
    BY <1>1, <2>1, <2>2 DEF r
<1>3. QED
  BY <1>a, <1>b, <1>2 DEF MechanicsInv, ReleaseInv, FitsInv, HttpInv

\* A lane that settles a row is idle again, and the row is in order.
LEMMA SettleGood ==
  ASSUME FitsInv, LanesInv, NEW l \in Lanes, NEW f \in Fits, NEW x, NEW n,
         Settle(l, f, x), HoldsFit(l, f) => FitGood(x, n),
         spent' = IF HoldsFit(l, f) THEN [spent EXCEPT ![f] = n] ELSE spent
  PROVE  FitsInv' /\ LanesInv'
<1>1. LanesInv'
  BY IdleGood DEF Settle, LanesInv, LaneGood
<1>2. FitsInv'
  <2>1. CASE HoldsFit(l, f)
    BY <2>1, FitsSet DEF Settle
  <2>2. CASE ~HoldsFit(l, f)
    BY <2>2 DEF Settle, FitsInv
  <2>3. QED
    BY <2>1, <2>2
<1>3. QED
  BY <1>1, <1>2

LEMMA SettleBegins ==
  ASSUME MechanicsInv, NEW l \in Lanes, lane' = [lane EXCEPT ![l] = IdleLane]
  PROVE  NoLaneBegins
  BY IdleGood, NothingBegun

LEMMA ResumeInv ==
  ASSUME MechanicsInv, NEW l \in Lanes, Resume(l)
  PROVE  MechanicsInv'
<1>a. LanesInv /\ lane \in [Lanes -> LaneRows] /\ lane[l] \in LaneRows
  BY DEF MechanicsInv, LanesInv
<1>1. PICK y : y = [lane[l] EXCEPT !.pc = "assessing", !.age = 0]
  OBVIOUS
<1>2. lane' = [lane EXCEPT ![l] = y]
  BY <1>1 DEF Resume
<1>3. y = [pc |-> "assessing", fit |-> lane[l].fit, req |-> lane[l].req,
           then |-> lane[l].then, age |-> 0]
  BY <1>a, <1>1 DEF LaneRows
<1>4. LaneGood(y)
  <2>1. lane[l].fit \in SUBSET Fits /\ lane[l].req \in SUBSET Reqs /\ lane[l].then \in LanePlaces
    BY <1>a DEF LaneRows
  <2>2. QED
    BY <1>3, <2>1, Numbers DEF LaneGood, LaneRows, LanePlaces
<1>5. LanesInv'
  BY <1>a, <1>2, <1>4 DEF LanesInv, LaneGood
<1>6. CallsAreNeeded'
  <2>1. NoLaneBegins
    BY <1>a, <1>2, <1>3 DEF NoLaneBegins
  <2>2. QED
    BY <2>1, CallsKept DEF Resume, queues, outside, NoRowIsGiven
<1>7. QED
  BY <1>5, <1>6 DEF MechanicsInv, Resume, queues, pauses, outside, ReleaseInv, Jobs, FitsInv, HttpInv

LEMMA WaitInv ==
  ASSUME MechanicsInv, NEW l \in Lanes, Wait(l)
  PROVE  MechanicsInv'
<1>a. /\ ReleaseInv /\ Jobs(reqs) /\ FitsInv /\ LanesInv /\ HttpInv
      /\ lane[l] \in LaneRows /\ lane[l].fit \in SUBSET Fits
      /\ \A f \in Fits : FitGood(fits[f], spent[f]) /\ spent[f] \in 0 .. MaxAttempts
  BY DEF MechanicsInv, LanesInv, FitsInv, LaneRows
<1>b. UNCHANGED <<read, result, spent, http, budget, channel, release, asks, starts>>
  BY DEF Wait, pauses, outside
<1> DEFINE job(r) == Enqueued(r, Needed)
           row(f, r) == IF job(r).status = "failed" THEN EndedRow(f, "failed", "requirements")
                        ELSE DeferredRow(f)
<1>1. PICK f \in lane[l].fit : LET r == ReqOf[f] IN
           /\ ~IsRead(r)
           /\ \/ /\ channel > 0
                 /\ Settle(l, f, PausedRow(f, ChannelWait))
                 /\ UNCHANGED reqs
              \/ /\ channel = 0
                 /\ reqs' = [reqs EXCEPT ![r] = job(r)]
                 /\ Settle(l, f, row(f, r))
  BY DEF Wait
<1> DEFINE r == ReqOf[f]
<1>c. f \in Fits /\ r \in Reqs /\ spent' = IF HoldsFit(l, f) THEN [spent EXCEPT ![f] = spent[f]] ELSE spent
  BY <1>a, <1>b, <1>1, Numbers DEF MechanicsInv, FitsInv
<1>2. Jobs(reqs)' /\ CallsAreNeeded'
  <2>1. Jobs(reqs)' /\ NoRowIsGiven
    BY <1>b, <1>c, <1>1, EnqueueKeeps
  <2>2. NoLaneBegins
    BY <1>1, SettleBegins DEF Settle
  <2>3. QED
    BY <1>b, <2>1, <2>2, CallsKept
<1>3. FitsInv' /\ LanesInv'
  <2>1. HoldsFit(l, f) => /\ FitGood(PausedRow(f, ChannelWait), spent[f])
                          /\ FitGood(DeferredRow(f), spent[f])
                          /\ FitGood(EndedRow(f, "failed", "requirements"), spent[f])
    <3> SUFFICES ASSUME HoldsFit(l, f)
                 PROVE  /\ FitGood(PausedRow(f, ChannelWait), spent[f])
                        /\ FitGood(DeferredRow(f), spent[f])
                        /\ FitGood(EndedRow(f, "failed", "requirements"), spent[f])
      OBVIOUS
    <3>1. f \in Fits /\ fits[f].status = "leased" /\ FitGood(fits[f], spent[f])
          /\ spent[f] \in 0 .. MaxAttempts
      BY <1>a, <1>c DEF HoldsFit
    <3>2. FitGood(PausedRow(f, ChannelWait), spent[f])
      BY <3>1, PausedGood, Numbers
    <3>3. FitGood(DeferredRow(f), spent[f])
      BY <3>1, DeferredGood
    <3>4. FitGood(EndedRow(f, "failed", "requirements"), spent[f])
      BY <3>1, EndedGood DEF FitErrors
    <3>5. QED
      BY <3>2, <3>3, <3>4
  <2>2. CASE Settle(l, f, PausedRow(f, ChannelWait))
    BY <1>a, <1>c, <2>1, <2>2, SettleGood
  <2>3. CASE Settle(l, f, row(f, r))
    <3>1. HoldsFit(l, f) => FitGood(row(f, r), spent[f])
      BY <2>1
    <3> HIDE DEF row
    <3>2. QED
      BY <1>a, <1>c, <3>1, <2>3, SettleGood
  <2>4. QED
    BY <1>1, <2>2, <2>3
<1>4. QED
  BY <1>a, <1>b, <1>2, <1>3 DEF MechanicsInv, ReleaseInv, HttpInv

LEMMA AnswerFitInv ==
  ASSUME MechanicsInv, NEW l \in Lanes, NEW answer \in FitAnswers, AnswerFit(l, answer)
  PROVE  MechanicsInv'
<1>a. /\ ReleaseInv /\ Jobs(reqs) /\ FitsInv /\ LanesInv /\ HttpInv
      /\ lane[l] \in LaneRows /\ lane[l].fit \in SUBSET Fits
      /\ \A f \in Fits : FitGood(fits[f], spent[f]) /\ spent[f] \in 0 .. MaxAttempts
      /\ spent \in [Fits -> 0 .. MaxAttempts]
  BY DEF MechanicsInv, LanesInv, FitsInv, LaneRows
<1>b. UNCHANGED <<reqs, read, http, release, asks, starts>>
  BY DEF AnswerFit, outside
<1>1. PICK f \in lane[l].fit, pause \in PauseTime(answer) :
       /\ Settle(l, f, AssessedRow(f, answer, pause))
       /\ PauseAll(answer, pause)
       /\ result' = IF HoldsFit(l, f) /\ answer = "good"
                    THEN [result EXCEPT ![f] = release] ELSE result
       /\ spent' = IF HoldsFit(l, f) /\ answer \in {"invalid", "unavailable"}
                   THEN [spent EXCEPT ![f] = Most(@ + 1, MaxAttempts)] ELSE spent
  BY DEF AnswerFit
<1> DEFINE n == IF answer \in {"invalid", "unavailable"} THEN Most(spent[f] + 1, MaxAttempts)
                ELSE spent[f]
<1>c. /\ f \in Fits /\ pause \in Nat /\ budget' \in Nat /\ channel' \in Nat
      /\ answer \in {"good", "invalid", "unavailable", "budget", "down", "stale"}
  BY <1>a, <1>1, PauseTimes, PausesGood, MechanicsAssumption
<1>d. spent' = IF HoldsFit(l, f) THEN [spent EXCEPT ![f] = n] ELSE spent
  BY <1>a, <1>1, <1>c
<1>2. ReleaseInv'
  <2>1. release \in 0 .. release
    BY <1>a DEF ReleaseInv
  <2>2. result' \in [Fits -> 0 .. release]
    BY <1>a, <1>1, <2>1 DEF ReleaseInv
  <2>3. QED
    BY <1>a, <1>b, <1>c, <2>2 DEF ReleaseInv
<1>3. HoldsFit(l, f) => FitGood(AssessedRow(f, answer, pause), n)
  <2> SUFFICES ASSUME HoldsFit(l, f) PROVE FitGood(AssessedRow(f, answer, pause), n)
    OBVIOUS
  <2>1. /\ fits[f].status = "leased" /\ FitGood(fits[f], spent[f])
        /\ spent[f] \in 0 .. MaxAttempts /\ fits[f].attempts \in 0 .. MaxAttempts + 1
    BY <1>a, <1>c, FitParts DEF HoldsFit, FitGood
  <2>2. CASE answer \in {"good", "stale"}
    <3>1. n = spent[f] /\ \E error \in {"none", "profile"}, status \in {"completed", "failed"} :
             /\ error # "none" => status = "failed"
             /\ AssessedRow(f, answer, pause) = EndedRow(f, status, error)
      BY <2>2 DEF AssessedRow
    <3>2. PICK error \in {"none", "profile"}, status \in {"completed", "failed"} :
             /\ error # "none" => status = "failed"
             /\ AssessedRow(f, answer, pause) = EndedRow(f, status, error)
      BY <3>1
    <3>3. error \in FitErrors /\ error \notin {"model", "other"}
      BY DEF FitErrors
    <3>4. FitGood(EndedRow(f, status, error), spent[f])
      BY <1>c, <2>1, <3>2, <3>3, EndedGood
    <3>5. QED
      BY <3>1, <3>2, <3>4
  <2>3. CASE answer = "budget"
    <3>1. n = spent[f] /\ AssessedRow(f, answer, pause) = PausedRow(f, pause)
      BY <2>3 DEF AssessedRow
    <3>2. FitGood(PausedRow(f, pause), spent[f])
      BY <1>c, <2>1, PausedGood
    <3>3. QED
      BY <3>1, <3>2
  <2>4. CASE answer = "down"
    <3>1. n = spent[f] /\ AssessedRow(f, answer, pause) = PausedRow(f, ChannelWait)
      BY <2>4 DEF AssessedRow
    <3>2. FitGood(PausedRow(f, ChannelWait), spent[f])
      BY <1>c, <2>1, PausedGood, Numbers
    <3>3. QED
      BY <3>1, <3>2
  <2>5. CASE answer \in {"invalid", "unavailable"} /\ fits[f].attempts < MaxAttempts
    <3>1. /\ n = Most(spent[f] + 1, MaxAttempts)
          /\ AssessedRow(f, answer, pause) = Opened(f, RetryWait)
      BY <2>5 DEF AssessedRow
    <3>2. FitGood(Opened(f, RetryWait), Most(spent[f] + 1, MaxAttempts))
      BY <1>c, <2>1, <2>5, RetriedGood
    <3>3. QED
      BY <3>1, <3>2
  <2>6. CASE answer \in {"invalid", "unavailable"} /\ ~(fits[f].attempts < MaxAttempts)
    <3>1. AssessedRow(f, answer, pause) = EndedRow(f, "failed", "model")
      BY <2>6 DEF AssessedRow
    <3>2. n = MaxAttempts /\ MaxAttempts \in 0 .. MaxAttempts
      BY <2>1, <2>6, Numbers DEF FitGood, Most
    <3>3. FitGood(EndedRow(f, "failed", "model"), MaxAttempts)
      BY <1>c, <2>1, <3>2, EndedGood DEF FitErrors
    <3>4. QED
      BY <3>1, <3>2, <3>3
  <2>7. QED
    BY <1>c, <2>2, <2>3, <2>4, <2>5, <2>6
<1>4. FitsInv' /\ LanesInv'
  <2> HIDE DEF n
  <2>1. QED
    BY <1>a, <1>1, <1>c, <1>d, <1>3, SettleGood
<1>5. Jobs(reqs)' /\ HttpInv'
  BY <1>a, <1>b DEF Jobs, HttpInv
<1>6. CallsAreNeeded'
  <2>1. NoLaneBegins
    BY <1>1, SettleBegins DEF Settle
  <2>2. QED
    BY <1>b, <2>1, CallsKept DEF NoRowIsGiven
<1>7. QED
  BY <1>2, <1>4, <1>5, <1>6 DEF MechanicsInv

LEMMA CaughtGood ==
  ASSUME NEW f \in Fits, NEW n, FitGood(fits[f], n), fits[f].status = "leased"
  PROVE  FitGood(CaughtRow(f), Most(n + 1, MaxAttempts))
<1>1. fits[f].attempts \in 0 .. MaxAttempts + 1 /\ n \in 0 .. MaxAttempts
  BY FitParts DEF FitGood
<1>2. CASE fits[f].attempts < MaxAttempts
  BY <1>2, RetriedGood DEF CaughtRow
<1>3. CASE ~(fits[f].attempts < MaxAttempts)
  <2>1. CaughtRow(f) = EndedRow(f, "failed", "other")
    BY <1>3 DEF CaughtRow
  <2>2. Most(n + 1, MaxAttempts) = MaxAttempts /\ MaxAttempts \in 0 .. MaxAttempts
    BY <1>1, <1>3, Numbers DEF FitGood, Most
  <2>3. FitGood(EndedRow(f, "failed", "other"), MaxAttempts)
    BY <2>2, EndedGood DEF FitErrors
  <2>4. QED
    BY <2>1, <2>2, <2>3
<1>4. QED
  BY <1>2, <1>3

LEMMA FitThrownInv ==
  ASSUME MechanicsInv, NEW l \in Lanes, NEW answer, FitThrown(l, answer)
  PROVE  MechanicsInv'
<1>a. /\ ReleaseInv /\ FitsInv /\ LanesInv /\ HttpInv /\ lane \in [Lanes -> LaneRows]
      /\ lane[l].fit \in SUBSET Fits
      /\ \A f \in Fits : FitGood(fits[f], spent[f]) /\ spent[f] \in 0 .. MaxAttempts
  BY DEF MechanicsInv, LanesInv, FitsInv, LaneRows
<1>b. UNCHANGED <<read, result, http, release, asks, starts>>
  BY DEF FitThrown, outside
<1>1. PICK f \in lane[l].fit, pause \in PauseTime(answer), written \in BOOLEAN :
        /\ lane' = [lane EXCEPT ![l] = IdleLane]
        /\ PauseAll(answer, pause)
        /\ reqs' = reqs \/ reqs' = [reqs EXCEPT ![ReqOf[f]] = Enqueued(ReqOf[f], Needed)]
        /\ fits' = IF written /\ HoldsFit(l, f) THEN [fits EXCEPT ![f] = CaughtRow(f)] ELSE fits
        /\ spent' = IF written /\ HoldsFit(l, f)
                    THEN [spent EXCEPT ![f] = Most(@ + 1, MaxAttempts)] ELSE spent
  BY DEF FitThrown
<1>c. f \in Fits /\ ReqOf[f] \in Reqs /\ budget' \in Nat /\ channel' \in Nat
  BY <1>a, <1>1, PausesGood, Numbers
<1>2. ReleaseInv' /\ HttpInv'
  BY <1>a, <1>b, <1>c DEF ReleaseInv, HttpInv
<1>3. LanesInv' /\ NoLaneBegins
  BY <1>a, <1>1, IdleGood, SettleBegins DEF LanesInv, LaneGood
<1>4. FitsInv'
  <2>1. CASE written /\ HoldsFit(l, f)
    <3>1. FitGood(CaughtRow(f), Most(spent[f] + 1, MaxAttempts))
      BY <1>a, <1>c, <2>1, CaughtGood DEF HoldsFit
    <3>2. /\ fits' = [fits EXCEPT ![f] = CaughtRow(f)]
          /\ spent' = [spent EXCEPT ![f] = Most(spent[f] + 1, MaxAttempts)]
      BY <1>1, <2>1
    <3>3. QED
      BY <1>a, <1>c, <3>1, <3>2, FitsSet
  <2>2. CASE ~(written /\ HoldsFit(l, f))
    BY <1>a, <1>1, <2>2 DEF FitsInv
  <2>3. QED
    BY <2>1, <2>2
<1>5. Jobs(reqs)' /\ NoRowIsGiven
  BY <1>b, <1>c, <1>1, EnqueueKeeps
<1>6. CallsAreNeeded'
  BY <1>b, <1>3, <1>5, CallsKept
<1>7. QED
  BY <1>2, <1>3, <1>4, <1>5, <1>6 DEF MechanicsInv

\* The beginning and the end of a step only read texts.
LEMMA ReadingInv ==
  ASSUME MechanicsInv, NEW l \in Lanes, Begin(l) \/ EndStep(l)
  PROVE  MechanicsInv'
<1>a. ReleaseInv /\ Jobs(reqs) /\ FitsInv /\ LanesInv /\ HttpInv
  BY DEF MechanicsInv
<1>b. UNCHANGED <<read, fits, result, spent, http, budget, channel, release, asks, starts>>
  BY DEF Begin, EndStep, pauses, outside
<1>1. Jobs(reqs)' /\ LanesInv' /\ CallsAreNeeded'
  <2>1. CASE ReadNext(l, reqs, Shown, {}, "after", {})
    BY <1>a, <1>b, <2>1, ReadNextGood DEF LanePlaces
  <2>2. CASE ReadNext(l, reqs, Tail, {}, "idle", {})
    BY <1>a, <1>b, <2>2, ReadNextGood DEF LanePlaces
  <2>3. CASE lane' = [lane EXCEPT ![l] = IdleLane] /\ reqs' = reqs
    <3>1. LanesInv' /\ Jobs(reqs)'
      BY <1>a, <2>3, IdleGood DEF LanesInv, LaneGood, Jobs
    <3>2. NoLaneBegins /\ NoRowIsGiven
      BY <2>3, SettleBegins DEF NoRowIsGiven
    <3>3. QED
      BY <1>b, <3>1, <3>2, CallsKept
  <2>4. QED
    BY <2>1, <2>2, <2>3 DEF Begin, EndStep
<1>2. QED
  BY <1>a, <1>b, <1>1 DEF MechanicsInv, ReleaseInv, FitsInv, HttpInv

LEMMA ClaimThrownInv ==
  ASSUME MechanicsInv, NEW l \in Lanes, ClaimThrown(l)
  PROVE  MechanicsInv'
<1>a. ReleaseInv /\ Jobs(reqs) /\ FitsInv /\ LanesInv /\ HttpInv
  BY DEF MechanicsInv
<1>b. /\ lane' = [lane EXCEPT ![l] = IdleLane]
      /\ UNCHANGED <<reqs, read, fits, result, spent, http, budget, channel, release, asks, starts>>
  BY DEF ClaimThrown, queues, pauses, outside
<1>1. LanesInv'
  BY <1>a, <1>b, IdleGood DEF LanesInv, LaneGood
<1>2. CallsAreNeeded'
  <2>1. NoLaneBegins /\ NoRowIsGiven
    BY <1>b, SettleBegins DEF NoRowIsGiven
  <2>2. QED
    BY <1>b, <2>1, CallsKept
<1>3. QED
  BY <1>a, <1>b, <1>1, <1>2 DEF MechanicsInv, ReleaseInv, Jobs, FitsInv, HttpInv

-----------------------------------------------------------------------------
(* The server's process, the clock and the restarts.                        *)

LEMMA PendingGood == FitGood(PendingFit, 0)
<1>1. PendingFit = [status |-> "pending", attempts |-> 0, defers |-> 0, until |-> 0,
                    owner |-> Nobody, error |-> "none"]
  BY DEF PendingFit, NoFit
<1>2. QED
  BY <1>1, Numbers DEF FitGood, FitRows, FitStatus, FitErrors, Most

\* The server's process moves no lane.  What it writes into the queue of
\* requirements is in order and gives nobody a row.
LEMMA HttpKeeps ==
  ASSUME MechanicsInv, UNCHANGED <<lane, read, result, budget, channel, release, starts>>,
         http' \in HttpRows, asks' \in 0 .. MaxAsks, FitsInv', Jobs(reqs)', NoRowIsGiven
  PROVE  MechanicsInv'
<1>1. CallsAreNeeded'
  BY CallsKept DEF NoLaneBegins
<1>2. QED
  BY <1>1 DEF MechanicsInv, ReleaseInv, LanesInv, HttpInv

\* A part that writes no queue.
LEMMA HttpMoves ==
  ASSUME MechanicsInv, UNCHANGED <<queues, lane, pauses, release, starts>>,
         http' \in HttpRows, asks' \in 0 .. MaxAsks
  PROVE  MechanicsInv'
<1>1. Jobs(reqs)' /\ FitsInv' /\ NoRowIsGiven
  BY DEF MechanicsInv, queues, Jobs, FitsInv, NoRowIsGiven
<1>2. QED
  BY <1>1, HttpKeeps DEF queues, pauses

LEMMA AsksRise ==
  ASSUME MechanicsInv, asks < MaxAsks, asks' = asks + 1
  PROVE  asks' \in 0 .. MaxAsks
  BY Numbers DEF MechanicsInv, ReleaseInv

LEMMA ViewInv ==
  ASSUME MechanicsInv, NEW r \in Reqs, View(r)
  PROVE  MechanicsInv'
<1>1. http' \in HttpRows /\ asks' \in 0 .. MaxAsks
  BY AsksRise DEF View, HttpRows, HttpPlaces
<1>2. QED
  BY <1>1, HttpMoves DEF View

LEMMA AskInv ==
  ASSUME MechanicsInv, NEW f \in Fits, Ask(f)
  PROVE  MechanicsInv'
<1> DEFINE r == ReqOf[f]
           x == IF reqs[r].status = "failed" THEN QueuedAgain(reqs[r]) ELSE reqs[r]
<1>a. r \in Reqs /\ Jobs(reqs) /\ reqs \in [Reqs -> ReqRows] /\ FitsInv
  BY Numbers DEF MechanicsInv, Jobs
<1>1. reqs' = [reqs EXCEPT ![r] = x]
  BY <1>a DEF Ask
<1>2. ReqGood(x) /\ \A l : OwnedBy(x, l) => OwnedBy(reqs[r], l)
  BY <1>a, QueuedAgainGood DEF Jobs, OwnedBy
<1>3. http' \in HttpRows /\ asks' \in 0 .. MaxAsks
  BY <1>a, AsksRise DEF Ask, HttpRows, HttpPlaces
<1> HIDE DEF x, r
<1>4. Jobs(reqs)' /\ NoRowIsGiven
  BY <1>a, <1>1, <1>2 DEF Jobs, ReqGood, NoRowIsGiven
<1>5. FitsInv'
  BY <1>a DEF Ask, FitsInv
<1>6. QED
  BY <1>3, <1>4, <1>5, HttpKeeps DEF Ask, pauses

LEMMA LookInv ==
  ASSUME MechanicsInv, Look
  PROVE  MechanicsInv'
<1>1. http \in HttpRows /\ asks \in 0 .. MaxAsks
  BY DEF MechanicsInv, HttpInv, ReleaseInv
<1>2. PICK pc \in {"fit", "put"} : http' = [http EXCEPT !.pc = pc]
  BY DEF Look
<1>3. http' \in HttpRows
  BY <1>1, <1>2 DEF HttpRows, HttpPlaces
<1>4. QED
  BY <1>1, <1>3, HttpMoves DEF Look, outside

LEMMA PutInv ==
  ASSUME MechanicsInv, Put
  PROVE  MechanicsInv'
<1>1. /\ http \in HttpRows /\ http.req \in SUBSET Reqs /\ asks \in 0 .. MaxAsks /\ FitsInv
      /\ Jobs(reqs) /\ reqs \in [Reqs -> ReqRows]
  BY DEF MechanicsInv, HttpInv, HttpRows, ReleaseInv, Jobs
<1>2. PICK r \in http.req, p \in {Shown, Asked} : reqs' = [reqs EXCEPT ![r] = Upserted(reqs[r], p)]
  BY <1>1 DEF Put
<1>3. /\ ReqGood(Upserted(reqs[r], p))
      /\ \A l : OwnedBy(Upserted(reqs[r], p), l) => OwnedBy(reqs[r], l)
  <2>1. r \in Reqs /\ ReqGood(reqs[r]) /\ p \in Tail .. Needed
    BY <1>1, <1>2 DEF Jobs, Tail, Asked, Shown, Needed
  <2>2. QED
    BY <2>1, UpsertedGood
<1>4. Jobs(reqs)' /\ NoRowIsGiven
  BY <1>1, <1>2, <1>3 DEF Jobs, ReqGood, NoRowIsGiven
<1>5. http' \in HttpRows
  BY <1>1 DEF Put, HttpRows, HttpPlaces, NoHttp
<1>6. FitsInv'
  BY <1>1 DEF Put, FitsInv
<1>7. QED
  BY <1>1, <1>4, <1>5, <1>6, HttpKeeps DEF Put, pauses, outside

LEMMA AskFitInv ==
  ASSUME MechanicsInv, AskFit
  PROVE  MechanicsInv'
<1>1. /\ http \in HttpRows /\ http.fit \in SUBSET Fits /\ asks \in 0 .. MaxAsks
      /\ FitsInv /\ Jobs(reqs)
  BY DEF MechanicsInv, HttpInv, HttpRows, ReleaseInv
<1>2. PICK f \in http.fit, again \in BOOLEAN :
        /\ fits' = [fits EXCEPT ![f] = IF again THEN PendingFit ELSE @]
        /\ spent' = [spent EXCEPT ![f] = IF again THEN 0 ELSE @]
  BY DEF AskFit
<1>3. FitsInv'
  <2>1. CASE again
    BY <1>1, <1>2, <2>1, PendingGood, FitsSet
  <2>2. CASE ~again
    BY <1>1, <1>2, <2>2 DEF FitsInv
  <2>3. QED
    BY <2>1, <2>2
<1>4. http' \in HttpRows /\ Jobs(reqs)' /\ NoRowIsGiven
  BY <1>1 DEF AskFit, HttpRows, HttpPlaces, NoHttp, Jobs, NoRowIsGiven
<1>5. QED
  BY <1>1, <1>3, <1>4, HttpKeeps DEF AskFit, pauses, outside

LEMMA HttpStopsInv ==
  ASSUME MechanicsInv, HttpStops
  PROVE  MechanicsInv'
<1>1. http' \in HttpRows /\ asks \in 0 .. MaxAsks
  BY DEF HttpStops, HttpRows, HttpPlaces, NoHttp, MechanicsInv, ReleaseInv
<1>2. QED
  BY <1>1, HttpMoves DEF HttpStops, outside

\* A row whose time runs.
LEMMA LaterReq ==
  ASSUME NEW x, ReqGood(x)
  PROVE  /\ ReqGood([x EXCEPT !.until = Less(@)])
         /\ \A l : OwnedBy([x EXCEPT !.until = Less(@)], l) => OwnedBy(x, l)
<1>1. PICK y : y = [x EXCEPT !.until = Less(@)]
  OBVIOUS
<1>2. y = [status |-> x.status, attempts |-> x.attempts, priority |-> x.priority,
           until |-> Less(x.until), owner |-> x.owner]
  BY <1>1 DEF ReqGood, ReqRows
<1>3. Less(x.until) \in Nat /\ (Less(x.until) > 0 => x.until > 0)
  BY ReqParts DEF ReqGood, Less
<1>4. QED
  BY <1>1, <1>2, <1>3, ReqParts DEF ReqGood, ReqRows, OwnedBy

LEMMA LaterFit ==
  ASSUME NEW x, NEW n, FitGood(x, n)
  PROVE  FitGood([x EXCEPT !.until = Less(@)], n)
<1>1. PICK y : y = [x EXCEPT !.until = Less(@)]
  OBVIOUS
<1>2. y = [status |-> x.status, attempts |-> x.attempts, defers |-> x.defers,
           until |-> Less(x.until), owner |-> x.owner, error |-> x.error]
  BY <1>1 DEF FitGood, FitRows
<1>3. Less(x.until) \in Nat
  BY FitParts DEF FitGood, Less
<1>4. y \in FitRows
  BY <1>2, <1>3, FitParts DEF FitGood, FitRows
<1>5. QED
  BY <1>1, <1>2, <1>4 DEF FitGood

LEMMA LaterLane ==
  ASSUME LanesInv, NEW l \in Lanes, InCall(l), lane[l].age < CallLimit(l)
  PROVE  LaneGood([lane[l] EXCEPT !.age = @ + 1])
<1>a. lane[l] \in LaneRows
  BY DEF LanesInv
<1>1. PICK y : y = [lane[l] EXCEPT !.age = @ + 1]
  OBVIOUS
<1>2. y = [pc |-> lane[l].pc, fit |-> lane[l].fit, req |-> lane[l].req,
           then |-> lane[l].then, age |-> lane[l].age + 1]
  BY <1>a, <1>1 DEF LaneRows
<1>3. /\ lane[l].pc \in LanePlaces /\ lane[l].fit \in SUBSET Fits /\ lane[l].req \in SUBSET Reqs
      /\ lane[l].then \in LanePlaces /\ lane[l].age \in 0 .. 2 * CallTime
  BY <1>a DEF LaneRows
<1>4. /\ lane[l].age + 1 \in 0 .. 2 * CallTime
      /\ lane[l].pc = "assessing" => lane[l].age + 1 <= CallTime
  BY <1>3, Numbers DEF InCall, CallLimit
<1>5. QED
  BY <1>1, <1>2, <1>3, <1>4 DEF LaneGood, LaneRows

LEMMA TickInv ==
  ASSUME MechanicsInv, Tick
  PROVE  MechanicsInv'
<1>a. ReleaseInv /\ Jobs(reqs) /\ FitsInv /\ LanesInv /\ HttpInv
  BY DEF MechanicsInv
<1>b. UNCHANGED <<read, result, spent, http, release, asks, starts>>
  BY DEF Tick, outside
<1>1. ReleaseInv'
  <2>1. \A n \in Nat : Less(n) \in Nat
    BY DEF Less
  <2>2. QED
    BY <1>a, <1>b, <2>1 DEF Tick, ReleaseInv
<1>2. Jobs(reqs)' /\ NoRowIsGiven
  <2>1. ASSUME NEW r \in Reqs
        PROVE  /\ ReqGood(reqs'[r]) /\ reqs'[r] \in ReqRows
               /\ \A l : OwnedBy(reqs'[r], l) => OwnedBy(reqs[r], l)
    <3>1. reqs'[r] = [reqs[r] EXCEPT !.until = Less(@)] /\ ReqGood(reqs[r])
      BY <1>a DEF Tick, Jobs
    <3>2. PICK x : x = reqs[r]
      OBVIOUS
    <3>3. QED
      BY <3>1, <3>2, LaterReq DEF ReqGood
  <2>2. reqs' \in [Reqs -> ReqRows]
    BY <2>1 DEF Tick
  <2>3. QED
    BY <2>1, <2>2 DEF Jobs, ReqGood, NoRowIsGiven
<1>3. FitsInv'
  <2>1. ASSUME NEW f \in Fits PROVE FitGood(fits'[f], spent[f]) /\ fits'[f] \in FitRows
    <3>1. fits'[f] = [fits[f] EXCEPT !.until = Less(@)] /\ FitGood(fits[f], spent[f])
      BY <1>a DEF Tick, FitsInv
    <3>2. PICK x : x = fits[f]
      OBVIOUS
    <3>3. QED
      BY <3>1, <3>2, LaterFit DEF FitGood
  <2>2. fits' \in [Fits -> FitRows]
    BY <2>1 DEF Tick
  <2>3. QED
    BY <1>a, <1>b, <2>1, <2>2 DEF FitsInv, FitGood
<1>4. LanesInv'
  <2>1. ASSUME NEW l \in Lanes PROVE LaneGood(lane'[l]) /\ lane'[l] \in LaneRows
    <3>1. CASE InCall(l)
      <4>1. lane'[l] = [lane[l] EXCEPT !.age = @ + 1] /\ lane[l].age < CallLimit(l)
        BY <3>1 DEF Tick, InCall
      <4>2. QED
        BY <1>a, <3>1, <4>1, LaterLane DEF LaneGood
    <3>2. CASE ~InCall(l)
      BY <3>2, IdleGood DEF Tick, LaneGood
    <3>3. QED
      BY <3>1, <3>2
  <2>2. lane' \in [Lanes -> LaneRows]
    BY <2>1 DEF Tick
  <2>3. QED
    BY <2>1, <2>2 DEF LanesInv, LaneGood
<1>5. NoLaneBegins
  <2> SUFFICES ASSUME NEW l \in Lanes, lane'[l].pc = "reading", lane'[l].req # {}
               PROVE  lane[l].pc = "reading" /\ lane'[l].req = lane[l].req
    BY DEF NoLaneBegins
  <2>1. CASE InCall(l)
    <3>1. lane'[l] = [lane[l] EXCEPT !.age = @ + 1] /\ lane[l] \in LaneRows
      BY <1>a, <2>1 DEF Tick, LanesInv
    <3>2. QED
      BY <3>1 DEF LaneRows
  <2>2. CASE ~InCall(l)
    BY <2>2, IdleGood DEF Tick
  <2>3. QED
    BY <2>1, <2>2
<1>6. QED
  BY <1>a, <1>b, <1>1, <1>2, <1>3, <1>4, <1>5, CallsKept DEF MechanicsInv, HttpInv

LEMMA NoReqGood == ReqGood(NoReq)
  BY Numbers DEF NoReq, ReqGood, ReqRows, ReqStatus, Tail, Needed

\* A new process keeps the rows in order, whatever rows the release has.
LEMMA StartInv ==
  ASSUME MechanicsInv, NEW jobs, Start(jobs),
         \/ jobs = reqs /\ release' = release
         \/ jobs = [r \in Reqs |-> NoReq] /\ release' = release + 1,
         http' \in {http, NoHttp}
  PROVE  MechanicsInv'
<1>a. /\ ReleaseInv /\ Jobs(reqs) /\ FitsInv /\ LanesInv /\ HttpInv
      /\ fits \in [Fits -> FitRows] /\ spent \in [Fits -> 0 .. MaxAttempts]
      /\ \A f \in Fits : FitGood(fits[f], spent[f])
  BY DEF MechanicsInv, FitsInv
<1>b. /\ starts < MaxStarts /\ starts' = starts + 1 /\ lane' = [l \in Lanes |-> IdleLane]
      /\ budget' = 0 /\ channel' = 0 /\ UNCHANGED <<read, result, asks>>
  BY DEF Start
<1>1. ReleaseInv'
  <2>1. release' \in {release, release + 1}
    OBVIOUS
  <2>2. /\ release \in Nat /\ release' \in 1 .. 1 + starts' /\ release <= release'
        /\ starts' \in 0 .. MaxStarts
    BY <1>a, <1>b, <2>1, Numbers DEF ReleaseInv
  <2>3. \A n \in 0 .. release : n \in 0 .. release'
    BY <1>a, <2>1 DEF ReleaseInv
  <2>4. read' \in [Reqs -> 0 .. release'] /\ result' \in [Fits -> 0 .. release']
    BY <1>a, <1>b, <2>3 DEF ReleaseInv
  <2>5. QED
    BY <1>a, <1>b, <2>2, <2>4 DEF ReleaseInv
<1>2. Jobs(reqs)'
  <2>1. PICK old \in SUBSET {r \in Reqs : jobs[r].status = "none" /\ read[r] > 0} :
          reqs' = [r \in Reqs |-> IF r \in old THEN QueuedAgain(NoReq) ELSE jobs[r]]
    BY DEF Start
  <2>2. \A r \in Reqs : ReqGood(jobs[r]) /\ ReqGood(QueuedAgain(NoReq))
    BY <1>a, NoReqGood, QueuedAgainGood DEF Jobs, ReqGood
  <2>3. \A r \in Reqs : ReqGood(reqs'[r])
    BY <2>1, <2>2
  <2>4. QED
    BY <2>1, <2>3 DEF Jobs, ReqGood
<1>3. FitsInv'
  <2>1. PICK vain \in SUBSET Fits :
          /\ fits' = [f \in Fits |-> IF f \in vain THEN PendingFit ELSE fits[f]]
          /\ spent' = [f \in Fits |-> IF f \in vain THEN 0 ELSE spent[f]]
    BY DEF Start
  <2>2. ASSUME NEW f \in Fits
        PROVE  FitGood(fits'[f], spent'[f]) /\ fits'[f] \in FitRows
               /\ spent'[f] \in 0 .. MaxAttempts
    BY <1>a, <2>1, PendingGood DEF FitGood
  <2>3. fits' \in [Fits -> FitRows] /\ spent' \in [Fits -> 0 .. MaxAttempts]
    BY <2>1, <2>2
  <2>4. QED
    BY <2>2, <2>3 DEF FitsInv
<1>4. LanesInv'
  BY <1>b, IdleGood DEF LanesInv, LaneGood
<1>5. HttpInv' /\ CallsAreNeeded'
  BY <1>a, <1>b, IdleGood DEF HttpInv, HttpRows, HttpPlaces, NoHttp, CallsAreNeeded
<1>6. QED
  BY <1>1, <1>2, <1>3, <1>4, <1>5 DEF MechanicsInv

-----------------------------------------------------------------------------
(* The invariant and what it gives.                                         *)

LEMMA MechanicsInvStep == MechanicsInv /\ [MechanicsNext]_mechanicsVars => MechanicsInv'
<1> SUFFICES ASSUME MechanicsInv, [MechanicsNext]_mechanicsVars PROVE MechanicsInv'
  OBVIOUS
<1>1. ASSUME NEW l \in Lanes, LaneStep(l) PROVE MechanicsInv'
  <2>1. CASE Begin(l) \/ EndStep(l)
    BY <2>1, ReadingInv
  <2>2. CASE \E answer, second \in ReadAnswers : AnswerRead(l, answer, second)
    BY <2>2, AnswerReadInv
  <2>3. CASE \E f \in Fits : ClaimFit(l, f)
    BY <2>3, ClaimFitInv
  <2>4. CASE Require(l)
    BY <2>4, RequireInv
  <2>5. CASE Resume(l)
    BY <2>5, ResumeInv
  <2>6. CASE Wait(l)
    BY <2>6, WaitInv
  <2>7. CASE \E answer \in FitAnswers : AnswerFit(l, answer)
    BY <2>7, AnswerFitInv
  <2>8. QED
    BY <1>1, <2>1, <2>2, <2>3, <2>4, <2>5, <2>6, <2>7 DEF LaneStep
<1>2. ASSUME NEW l \in Lanes, LaneThrows(l) PROVE MechanicsInv'
  BY <1>2, ClaimThrownInv, ReadThrownInv, FitThrownInv DEF LaneThrows
<1>3. CASE HttpStep
  BY <1>3, ViewInv, AskInv, LookInv, PutInv, AskFitInv DEF HttpStep
<1>4. CASE HttpStops
  BY <1>4, HttpStopsInv
<1>5. CASE Tick
  BY <1>5, TickInv
<1>6. CASE Restart
  BY <1>6, StartInv DEF Restart
<1>7. CASE Deploy
  BY <1>7, StartInv DEF Deploy
<1>8. CASE UNCHANGED mechanicsVars
  <2>1. CallsAreNeeded'
    BY <1>8, CallsKept DEF mechanicsVars, queues, outside, NoRowIsGiven, NoLaneBegins
  <2>2. QED
    BY <1>8, <2>1 DEF mechanicsVars, queues, pauses, outside, MechanicsInv, ReleaseInv, Jobs,
                      FitsInv, LanesInv, HttpInv
<1>9. QED
  BY <1>1, <1>2, <1>3, <1>4, <1>5, <1>6, <1>7, <1>8 DEF MechanicsNext

\* The rows of both queues, the lanes, the server's handler and the pauses are
\* always in order, wherever a statement throws and a lane comes between two
\* statements of the server.
THEOREM MechanicsInvHolds == MechanicsSpec => []MechanicsInv
  BY MechanicsInvInit, MechanicsInvStep, PTL DEF MechanicsSpec

\* The queues keep their types: a text is tried at most MAX_ATTEMPTS times and
\* a fit waits at most VACANCY_FIT_MAX_DEFERS times, whatever lanes, leases and
\* restarts do.
THEOREM MechanicsTypeCorrect == MechanicsSpec => []MechanicsTypeOK
  BY MechanicsInvHolds, MechanicsInvMeans, PTL

\* A pause or a wait never uses up an attempt of a fit: its attempts are failed
\* answers, thrown steps and lost leases, and a fit that fails for one of these
\* has had all of them.
THEOREM WaitsAreFree == MechanicsSpec => []WaitsCostNothing
  BY MechanicsInvHolds, MechanicsInvMeans, PTL

\* No lane whose lease runs asks a model for a text that has been read, although
\* the server's upsert may put the row of such a text back into the queue.
THEOREM ReadTextsCostNoCall == MechanicsSpec => []CallsAreNeeded
  BY MechanicsInvHolds, MechanicsInvMeans, PTL

-----------------------------------------------------------------------------
(* What a step may do with a fit.                                           *)

\* A lane that settles a row changes no other, and this one only as its holder.
LEMMA SettleHeld ==
  ASSUME FitsInv, LanesInv, NEW l \in Lanes, NEW g \in lane[l].fit, NEW x, Settle(l, g, x)
  PROVE  /\ lane'[l].pc = "idle"
         /\ \A f \in Fits : fits'[f] # fits[f] => f = g /\ HoldsFit(l, g) /\ fits'[f] = x
<1>1. lane'[l] = IdleLane
  BY DEF Settle, LanesInv
<1>2. IdleLane.pc = "idle"
  BY DEF IdleLane
<1>3. \A f \in Fits : fits'[f] # fits[f] => f = g /\ HoldsFit(l, g) /\ fits'[f] = x
  BY DEF Settle, FitsInv
<1>4. QED
  BY <1>1, <1>2, <1>3

\* An answer puts no row back to wait for its requirements.
LEMMA AssessedDefers ==
  ASSUME NEW f \in Fits, NEW n, FitGood(fits[f], n), fits[f].status = "leased",
         NEW answer, NEW pause
  PROVE  AssessedRow(f, answer, pause).defers = fits[f].defers
<1>a. fits[f] \in FitRows
  BY DEF FitGood
<1>1. ASSUME NEW wait PROVE PausedRow(f, wait).defers = fits[f].defers
  BY PausedIs
<1>2. Opened(f, RetryWait).defers = fits[f].defers
  BY <1>a DEF Opened, FitRows
<1>3. ASSUME NEW status, NEW error PROVE EndedRow(f, status, error).defers = fits[f].defers
  BY <1>a DEF EndedRow, FitRows
<1>4. \/ \E wait : AssessedRow(f, answer, pause) = PausedRow(f, wait)
      \/ AssessedRow(f, answer, pause) = Opened(f, RetryWait)
      \/ \E status, error : AssessedRow(f, answer, pause) = EndedRow(f, status, error)
  BY DEF AssessedRow
<1>5. QED
  BY <1>1, <1>2, <1>3, <1>4

\* The steps that write no fit.
FitsRest == UNCHANGED <<fits, result>>

LEMMA LaneStepFits ==
  ASSUME NEW l \in Lanes, LaneStep(l) \/ LaneThrows(l)
  PROVE  \/ FitsRest
         \/ \E f \in Fits : ClaimFit(l, f)
         \/ Wait(l)
         \/ \E answer \in FitAnswers : AnswerFit(l, answer)
         \/ \E answer \in FitAnswers : FitThrown(l, answer)
<1>1. CASE Begin(l)
  BY <1>1 DEF Begin, FitsRest
<1>2. CASE \E answer, second \in ReadAnswers : AnswerRead(l, answer, second)
  BY <1>2 DEF AnswerRead, FitsRest
<1>3. CASE Require(l)
  BY <1>3 DEF Require, FitsRest
<1>4. CASE Resume(l)
  BY <1>4 DEF Resume, FitsRest, queues
<1>5. CASE EndStep(l)
  BY <1>5 DEF EndStep, FitsRest
<1>6. CASE LaneThrows(l)
  BY <1>6 DEF LaneThrows, ClaimThrown, ReadThrown, FitsRest, queues
<1>7. QED
  BY <1>1, <1>2, <1>3, <1>4, <1>5, <1>6 DEF LaneStep

\* What a thrown step does to the fits: nothing, or it settles the row it held.
LEMMA ThrownFits ==
  ASSUME LanesInv, FitsInv, NEW l \in Lanes, NEW answer, FitThrown(l, answer)
  PROVE  /\ result' = result /\ lane'[l].pc = "idle"
         /\ \A f \in Fits : fits'[f] # fits[f] =>
              f \in lane[l].fit /\ HoldsFit(l, f) /\ fits'[f] = CaughtRow(f)
<1>1. PICK g \in lane[l].fit, written \in BOOLEAN :
        /\ lane' = [lane EXCEPT ![l] = IdleLane]
        /\ fits' = IF written /\ HoldsFit(l, g) THEN [fits EXCEPT ![g] = CaughtRow(g)] ELSE fits
  BY DEF FitThrown
<1>2. result' = result /\ IdleLane.pc = "idle"
  BY DEF FitThrown, IdleLane
<1>3. QED
  BY <1>1, <1>2 DEF LanesInv, FitsInv

\* The steps of the server's process: a row that has ended may be asked for again.
LEMMA HttpFits ==
  ASSUME FitsInv, NEW f \in Fits, HttpStep \/ HttpStops
  PROVE  /\ result' = result
         /\ fits'[f] # fits[f] =>
              fits'[f] = PendingFit /\ fits[f].status \in {"none", "failed", "completed"}
<1>1. ASSUME NEW r \in Reqs, View(r) PROVE UNCHANGED <<fits, result>>
  BY <1>1 DEF View, queues
<1>2. ASSUME NEW g \in Fits, Ask(g) PROVE UNCHANGED <<fits, result>>
  BY <1>2 DEF Ask
<1>3. CASE Look \/ Put \/ HttpStops
  BY <1>3 DEF Look, Put, HttpStops, queues
<1>4. CASE AskFit
  <2>1. PICK g \in http.fit : LET again == fits[g].status \in {"none", "failed"} \/ Lost(g)
                             IN  fits' = [fits EXCEPT ![g] = IF again THEN PendingFit ELSE @]
    BY <1>4 DEF AskFit
  <2>2. result' = result
    BY <1>4 DEF AskFit
  <2>3. QED
    BY <2>1, <2>2 DEF FitsInv, Lost
<1>5. QED
  BY <1>1, <1>2, <1>3, <1>4 DEF HttpStep

\* Where the waits of a fit grow, a row brings its requirements.
DeferOK(f) ==
  fits'[f].defers > fits[f].defers =>
    \/ reqs'[ReqOf[f]].status = "leased"
    \/ reqs'[ReqOf[f]].status = "queued" /\ reqs'[ReqOf[f]].attempts < MaxAttempts

LEMMA WaitDefers ==
  ASSUME MechanicsInv, NEW l \in Lanes, Wait(l), NEW f \in Fits
  PROVE  DeferOK(f)
<1>a. /\ Jobs(reqs) /\ FitsInv /\ LanesInv /\ lane[l].fit \in SUBSET Fits
      /\ FitGood(fits[f], spent[f]) /\ fits[f].defers \in Nat /\ reqs \in [Reqs -> ReqRows]
  BY FitParts DEF MechanicsInv, LanesInv, FitsInv, LaneRows, FitGood, Jobs
<1> DEFINE job(r) == Enqueued(r, Needed)
           row(g, r) == IF job(r).status = "failed" THEN EndedRow(g, "failed", "requirements")
                        ELSE DeferredRow(g)
<1>1. PICK g \in lane[l].fit : LET r == ReqOf[g] IN
           /\ ~IsRead(r)
           /\ \/ /\ channel > 0
                 /\ Settle(l, g, PausedRow(g, ChannelWait))
                 /\ UNCHANGED reqs
              \/ /\ channel = 0
                 /\ reqs' = [reqs EXCEPT ![r] = job(r)]
                 /\ Settle(l, g, row(g, r))
  BY DEF Wait
<1>2. CASE fits'[f] = fits[f]
  BY <1>a, <1>2 DEF DeferOK
<1>3. CASE fits'[f] # fits[f] /\ Settle(l, g, PausedRow(g, ChannelWait))
  <2>1. f = g /\ HoldsFit(l, f) /\ fits'[f] = PausedRow(f, ChannelWait)
    BY <1>a, <1>3, SettleHeld
  <2>2. fits'[f].defers = fits[f].defers
    BY <1>a, <2>1, PausedIs DEF HoldsFit
  <2>3. QED
    BY <1>a, <2>2 DEF DeferOK
<1>4. CASE /\ fits'[f] # fits[f] /\ reqs' = [reqs EXCEPT ![ReqOf[g]] = job(ReqOf[g])]
           /\ Settle(l, g, row(g, ReqOf[g]))
  <2>1. f = g /\ HoldsFit(l, f) /\ fits'[f] = row(f, ReqOf[f])
    <3> HIDE DEF row
    <3>1. QED
      BY <1>a, <1>4, SettleHeld
  <2>2. ReqOf[f] \in Reqs
    BY Numbers
  <2>3. reqs'[ReqOf[f]] = job(ReqOf[f])
    <3> HIDE DEF job
    <3>1. QED
      BY <1>a, <1>4, <2>1, <2>2
  <2>4. ReqGood(job(ReqOf[f])) /\ job(ReqOf[f]).status \in {"queued", "leased", "failed"}
    BY <1>a, <1>1, <2>1, <2>2, EnqueuedGood DEF Tail, Needed
  <2>5. CASE job(ReqOf[f]).status = "failed"
    <3>1. fits'[f].defers = fits[f].defers
      BY <1>a, <2>1, <2>5 DEF EndedRow, FitGood, FitRows
    <3>2. QED
      BY <1>a, <3>1 DEF DeferOK
  <2>6. CASE job(ReqOf[f]).status # "failed"
    BY <2>3, <2>4, <2>6 DEF DeferOK, ReqGood
  <2>7. QED
    BY <2>5, <2>6
<1>5. QED
  BY <1>1, <1>2, <1>3, <1>4

LEMMA StepDefers ==
  ASSUME MechanicsInv, [MechanicsNext]_mechanicsVars, NEW f \in Fits
  PROVE  DeferOK(f)
<1>a. /\ FitsInv /\ LanesInv /\ FitGood(fits[f], spent[f]) /\ fits[f] \in FitRows
      /\ fits[f].defers \in Nat /\ fits \in [Fits -> FitRows]
  BY FitParts DEF MechanicsInv, FitsInv, FitGood
<1>0. CASE fits'[f].defers = fits[f].defers \/ fits'[f] = PendingFit
  <2>1. PendingFit.defers = 0
    BY DEF PendingFit, NoFit
  <2>2. QED
    BY <1>a, <1>0, <2>1 DEF DeferOK
<1>1. ASSUME NEW l \in Lanes, LaneStep(l) \/ LaneThrows(l) PROVE DeferOK(f)
  <2>1. CASE FitsRest
    BY <1>0, <2>1 DEF FitsRest
  <2>2. CASE \E g \in Fits : ClaimFit(l, g)
    <3>1. PICK g \in Fits : ClaimFit(l, g)
      BY <2>2
    <3>2. CASE f # g
      BY <1>0, <1>a, <3>1, <3>2 DEF ClaimFit
    <3>3. CASE f = g
      <4>1. PICK y : y = [fits[f] EXCEPT !.status = "leased", !.owner = l, !.until = Lease,
                                         !.attempts = Most(@ + 1, MaxAttempts + 1)]
        OBVIOUS
      <4>2. fits' = [fits EXCEPT ![f] = y]
        BY <3>1, <3>3, <4>1 DEF ClaimFit
      <4>3. y.defers = fits[f].defers
        BY <1>a, <4>1 DEF FitRows
      <4>4. QED
        BY <1>0, <1>a, <4>2, <4>3
    <3>4. QED
      BY <3>2, <3>3
  <2>3. CASE Wait(l)
    BY <2>3, WaitDefers
  <2>4. CASE \E answer \in FitAnswers : AnswerFit(l, answer)
    <3>0. PICK answer \in FitAnswers : AnswerFit(l, answer)
      BY <2>4
    <3>1. PICK g \in lane[l].fit, pause \in PauseTime(answer) :
            Settle(l, g, AssessedRow(g, answer, pause))
      BY <3>0 DEF AnswerFit
    <3>2. CASE fits'[f] = fits[f]
      BY <1>0, <3>2
    <3>3. CASE fits'[f] # fits[f]
      <4>1. f = g /\ HoldsFit(l, f) /\ fits'[f] = AssessedRow(f, answer, pause)
        BY <1>a, <3>1, <3>3, SettleHeld
      <4>2. fits'[f].defers = fits[f].defers
        BY <1>a, <4>1, AssessedDefers DEF HoldsFit
      <4>3. QED
        BY <1>0, <4>2
    <3>4. QED
      BY <3>2, <3>3
  <2>5. CASE \E answer \in FitAnswers : FitThrown(l, answer)
    <3>1. fits'[f] # fits[f] => fits'[f] = CaughtRow(f)
      BY <1>a, <2>5, ThrownFits
    <3>2. CaughtRow(f).defers = fits[f].defers
      BY <1>a DEF CaughtRow, Opened, EndedRow, FitRows
    <3>3. QED
      BY <1>0, <3>1, <3>2
  <2>6. QED
    BY <1>1, <2>1, <2>2, <2>3, <2>4, <2>5, LaneStepFits
<1>2. CASE HttpStep \/ HttpStops
  BY <1>0, <1>a, <1>2, HttpFits
<1>3. CASE Tick
  <2>1. fits'[f] = [fits[f] EXCEPT !.until = Less(@)]
    BY <1>3 DEF Tick
  <2>2. fits'[f].defers = fits[f].defers
    BY <1>a, <2>1 DEF FitRows
  <2>3. QED
    BY <1>0, <2>2
<1>4. ASSUME NEW jobs, Start(jobs) PROVE DeferOK(f)
  <2>1. fits'[f] \in {fits[f], PendingFit}
    BY <1>4 DEF Start
  <2>2. QED
    BY <1>0, <2>1
<1>5. CASE UNCHANGED mechanicsVars
  BY <1>0, <1>5 DEF mechanicsVars, queues
<1>6. QED
  BY <1>1, <1>2, <1>3, <1>4, <1>5 DEF MechanicsNext, Restart, Deploy

\* A fit is put back to wait for its requirements only while their row can
\* still bring them.
THEOREM WaitsAreForWork == MechanicsSpec => WaitsForWork
<1>1. MechanicsInv /\ [MechanicsNext]_mechanicsVars =>
        [\A f \in Fits :
           fits'[f].defers > fits[f].defers =>
             LET job == reqs'[ReqOf[f]]
             IN  job.status = "leased" \/ (job.status = "queued" /\ job.attempts < MaxAttempts)]_mechanicsVars
  BY StepDefers DEF DeferOK
<1>2. QED
  BY <1>1, MechanicsInvHolds, PTL DEF MechanicsSpec, WaitsForWork

-----------------------------------------------------------------------------
(* The fence.                                                               *)

LEMMA StepFenced ==
  ASSUME MechanicsInv, [MechanicsNext]_mechanicsVars, NEW f \in Fits
  PROVE  FitFence(f)
<1>a. /\ FitsInv /\ LanesInv /\ fits[f] \in FitRows
      /\ fits \in [Fits -> FitRows] /\ result \in [Fits -> 0 .. release]
  BY DEF MechanicsInv, FitsInv, ReleaseInv
<1>0. CASE result'[f] = result[f] /\ (fits'[f] = fits[f] \/ ~UnderLease(f))
  BY <1>0 DEF FitFence
<1>1. ASSUME NEW l \in Lanes, LaneStep(l) \/ LaneThrows(l) PROVE FitFence(f)
  <2>1. CASE FitsRest
    BY <1>0, <2>1 DEF FitsRest
  <2>2. CASE \E g \in Fits : ClaimFit(l, g)
    <3>1. PICK g \in Fits : ClaimFit(l, g)
      BY <2>2
    <3>2. result' = result /\ ~UnderLease(g)
      BY <3>1 DEF ClaimFit, Claimable, UnderLease
    <3>3. f # g => fits'[f] = fits[f]
      BY <1>a, <3>1 DEF ClaimFit
    <3>4. QED
      BY <1>0, <3>2, <3>3
  <2>3. ASSUME NEW g \in lane[l].fit, NEW x, Settle(l, g, x),
               \/ result' = result
               \/ HoldsFit(l, g) /\ result' = [result EXCEPT ![g] = release]
        PROVE  FitFence(f)
    <3>1. /\ lane'[l].pc = "idle"
          /\ fits'[f] # fits[f] => f = g /\ HoldsFit(l, g)
      BY <1>a, <2>3, SettleHeld
    <3>2. result'[f] # result[f] => UnderLease(f)
      BY <1>a, <2>3 DEF HoldsFit, UnderLease
    <3>3. QED
      BY <3>1, <3>2 DEF FitFence, HoldsFit
  <2>4. CASE Wait(l)
    BY <2>3, <2>4 DEF Wait
  <2>5. CASE \E answer \in FitAnswers : AnswerFit(l, answer)
    BY <2>3, <2>5 DEF AnswerFit
  <2>6. CASE \E answer \in FitAnswers : FitThrown(l, answer)
    BY <1>a, <2>6, ThrownFits DEF FitFence, HoldsFit
  <2>7. QED
    BY <1>1, <2>1, <2>2, <2>4, <2>5, <2>6, LaneStepFits
<1>2. CASE HttpStep \/ HttpStops
  BY <1>0, <1>a, <1>2, HttpFits DEF UnderLease
<1>3. CASE Tick
  <2>1. fits'[f] = [fits[f] EXCEPT !.until = Less(@)] /\ result' = result
    BY <1>3 DEF Tick
  <2>2. Timeless(fits'[f]) = Timeless(fits[f])
    <3>1. PICK x, y : x = fits[f] /\ y = [x EXCEPT !.until = Less(@)]
      OBVIOUS
    <3>2. [y EXCEPT !.until = 0] = [x EXCEPT !.until = 0]
      BY <1>a, <3>1 DEF FitRows
    <3>3. QED
      BY <2>1, <3>1, <3>2 DEF Timeless
  <2>3. QED
    BY <2>1, <2>2 DEF FitFence
<1>4. ASSUME NEW jobs, Start(jobs) PROVE FitFence(f)
  <2>1. result' = result /\ (fits'[f] # fits[f] => fits[f].status = "failed")
    BY <1>4 DEF Start
  <2>2. QED
    BY <1>0, <2>1 DEF UnderLease
<1>5. CASE UNCHANGED mechanicsVars
  BY <1>0, <1>5 DEF mechanicsVars, queues
<1>6. QED
  BY <1>1, <1>2, <1>3, <1>4, <1>5 DEF MechanicsNext, Restart, Deploy

\* What is asked for, and what a lane claims, leaves a row whose lease runs.
LEMMA RunningIsLeft ==
  ASSUME MechanicsInv, NEW r \in Reqs, BeingRead(r), NEW jobs,
         jobs[r] = reqs[r] \/ \E p \in Tail .. Needed : jobs[r] = Upserted(reqs[r], p)
  PROVE  /\ Standing(jobs[r]) = Standing(reqs[r])
         /\ jobs[r].status = "leased" /\ jobs[r].until > 0
<1>1. ReqGood(reqs[r])
  BY DEF MechanicsInv, Jobs
<1>2. ASSUME NEW p \in Tail .. Needed PROVE Upserted(reqs[r], p) = Raised(reqs[r], p)
  BY DEF BeingRead, Upserted
<1>3. QED
  BY <1>1, <1>2, RaisedGood DEF BeingRead, Standing

LEMMA EnqueuedIs ==
  ASSUME NEW r \in Reqs, NEW s \in Reqs, Jobs(reqs)
  PROVE  LET jobs == [reqs EXCEPT ![s] = Enqueued(s, Needed)]
         IN  jobs[r] = reqs[r] \/ \E p \in Tail .. Needed : jobs[r] = Upserted(reqs[r], p)
<1>1. Needed \in Tail .. Needed
  BY DEF Tail, Needed
<1>2. QED
  BY <1>1 DEF Enqueued, Jobs

LEMMA ReadNextLeaves ==
  ASSUME MechanicsInv, NEW r \in Reqs, BeingRead(r), NEW l, NEW jobs, NEW least, NEW fresh,
         NEW then, NEW fit, ReadNext(l, jobs, least, fresh, then, fit),
         jobs[r] = reqs[r] \/ \E p \in Tail .. Needed : jobs[r] = Upserted(reqs[r], p)
  PROVE  Standing(reqs'[r]) = Standing(reqs[r])
<1>1. /\ Standing(jobs[r]) = Standing(reqs[r])
      /\ jobs[r].status = "leased" /\ jobs[r].until > 0
  BY RunningIsLeft
<1>2. jobs[r].until # 0
  <2>1. reqs[r].until \in Nat
    BY ReqParts DEF MechanicsInv, Jobs
  <2>2. \A p \in Tail .. Needed : BeingRead(r) => Upserted(reqs[r], p).until = reqs[r].until
    BY RaisedGood DEF MechanicsInv, Jobs, BeingRead, Upserted
  <2>3. QED
    BY <1>1, <2>1, <2>2
<1>3. Swept(jobs)[r] = jobs[r] /\ r \notin Readable(Swept(jobs), least)
  BY <1>2 DEF Swept, Readable
<1>4. DOMAIN Swept(jobs) = Reqs
  BY DEF Swept
<1>5. reqs'[r] = jobs[r]
  BY <1>3, <1>4 DEF ReadNext
<1>6. QED
  BY <1>1, <1>5

\* A lane settles the text it holds, and no other.
LEMMA ReadHeld ==
  ASSUME MechanicsInv, NEW l \in Lanes,
         \/ \E answer, second \in ReadAnswers : AnswerRead(l, answer, second)
         \/ \E second \in ReadAnswers : ReadThrown(l, second)
  PROVE  /\ lane'[l].req = {}
         /\ \A r \in Reqs : reqs'[r] # reqs[r] \/ read'[r] # read[r] =>
              r \in lane[l].req /\ HoldsReq(l, r)
<1>a. lane \in [Lanes -> LaneRows] /\ reqs \in [Reqs -> ReqRows]
      /\ read \in [Reqs -> 0 .. release]
  BY DEF MechanicsInv, LanesInv, Jobs, ReleaseInv
<1>b. ASSUME NEW done PROVE Onward(l, done).req = {}
  BY DEF Onward, IdleLane
<1>1. CASE \E answer, second \in ReadAnswers : AnswerRead(l, answer, second)
  <2>1. PICK answer, second \in ReadAnswers : AnswerRead(l, answer, second)
    BY <1>1
  <2>2. PICK r \in lane[l].req, pause \in PauseTime(second) :
          LET held == HoldsReq(l, r)
              row == ReadRow(r, answer, pause)
              done == held /\ row.status = "completed"
          IN  /\ reqs' = IF held THEN [reqs EXCEPT ![r] = row] ELSE reqs
              /\ read' = IF done THEN [read EXCEPT ![r] = release] ELSE read
              /\ lane' = [lane EXCEPT ![l] = Onward(l, done)]
    BY <2>1 DEF AnswerRead
  <2> DEFINE row == ReadRow(r, answer, pause)
             held == HoldsReq(l, r)
             done == held /\ row.status = "completed"
  <2>3. lane'[l].req = {}
    BY <1>a, <1>b, <2>2
  <2>4. ASSUME NEW s \in Reqs, reqs'[s] # reqs[s] \/ read'[s] # read[s]
        PROVE  s = r /\ held
    <3> HIDE DEF row, held
    <3>1. /\ reqs' = IF held THEN [reqs EXCEPT ![r] = row] ELSE reqs
          /\ read' = IF done THEN [read EXCEPT ![r] = release] ELSE read
      BY <2>2 DEF row, held
    <3>2. QED
      BY <1>a, <2>4, <3>1
  <2>5. QED
    BY <2>3, <2>4
<1>2. CASE \E second \in ReadAnswers : ReadThrown(l, second)
  <2>1. PICK r \in lane[l].req :
          \/ UNCHANGED reqs
          \/ HoldsReq(l, r) /\ reqs' = [reqs EXCEPT ![r] = ReadRow(r, "unavailable", 0)]
    BY <1>2 DEF ReadThrown
  <2>2. read' = read /\ lane' = [lane EXCEPT ![l] = Onward(l, FALSE)]
    BY <1>2 DEF ReadThrown
  <2>3. QED
    BY <1>a, <1>b, <2>1, <2>2
<1>3. QED
  BY <1>1, <1>2

LEMMA StepReadFenced ==
  ASSUME MechanicsInv, [MechanicsNext]_mechanicsVars, NEW r \in Reqs
  PROVE  ReadFence(r)
<1>a. /\ Jobs(reqs) /\ reqs \in [Reqs -> ReqRows] /\ reqs[r] \in ReqRows
      /\ ReqOf \in [Fits -> Reqs] /\ \A l \in Lanes : lane[l].fit \subseteq Fits
  BY MechanicsAssumption DEF MechanicsInv, Jobs, LanesInv, LaneRows
<1>0. CASE read' = read /\ (BeingRead(r) => Standing(reqs'[r]) = Standing(reqs[r]))
  BY <1>0 DEF ReadFence
<1>1. ASSUME NEW l \in Lanes, LaneStep(l) \/ LaneThrows(l) PROVE ReadFence(r)
  <2> DEFINE reads == \/ \E answer, second \in ReadAnswers : AnswerRead(l, answer, second)
                      \/ \E second \in ReadAnswers : ReadThrown(l, second)
             waits == Wait(l) \/ \E answer \in FitAnswers : FitThrown(l, answer)
             leaves == \/ \E f \in Fits : ClaimFit(l, f)
                       \/ Resume(l) \/ ClaimThrown(l)
                       \/ \E answer \in FitAnswers : AnswerFit(l, answer)
  <2>1. CASE reads
    BY <2>1, ReadHeld DEF ReadFence, HoldsReq, BeingRead
  <2>2. CASE Begin(l) \/ EndStep(l)
    <3>1. read' = read
      BY <2>2 DEF Begin, EndStep
    <3>2. \/ reqs' = reqs
          \/ \E least, then : ReadNext(l, reqs, least, {}, then, {})
      BY <2>2 DEF Begin, EndStep
    <3>3. QED
      BY <1>0, <3>1, <3>2, ReadNextLeaves
  <2>3. CASE Require(l)
    <3>1. PICK f \in lane[l].fit :
            LET jobs == [reqs EXCEPT ![ReqOf[f]] = Enqueued(ReqOf[f], Needed)]
            IN  \/ reqs' = jobs
                \/ \E place : ReadNext(l, jobs, Tail, {ReqOf[f]}, place, {f})
      BY <2>3 DEF Require
    <3>2. ReqOf[f] \in Reqs /\ read' = read
      BY <1>a, <2>3 DEF Require
    <3> DEFINE jobs == [reqs EXCEPT ![ReqOf[f]] = Enqueued(ReqOf[f], Needed)]
    <3>3. jobs[r] = reqs[r] \/ \E p \in Tail .. Needed : jobs[r] = Upserted(reqs[r], p)
      BY <1>a, <3>2, EnqueuedIs
    <3>4. reqs' = jobs \/ \E place : ReadNext(l, jobs, Tail, {ReqOf[f]}, place, {f})
      BY <3>1
    <3> HIDE DEF jobs
    <3>5. BeingRead(r) => Standing(reqs'[r]) = Standing(reqs[r])
      BY <3>3, <3>4, RunningIsLeft, ReadNextLeaves
    <3>6. QED
      BY <1>0, <3>2, <3>5
  <2>4. CASE waits
    <3>1. PICK f \in lane[l].fit :
            \/ reqs' = reqs
            \/ reqs' = [reqs EXCEPT ![ReqOf[f]] = Enqueued(ReqOf[f], Needed)]
      BY <2>4 DEF Wait, FitThrown
    <3>2. ReqOf[f] \in Reqs /\ read' = read
      BY <1>a, <2>4 DEF Wait, FitThrown
    <3>3. QED
      BY <1>0, <1>a, <3>1, <3>2, EnqueuedIs, RunningIsLeft
  <2>5. CASE leaves
    <3>1. UNCHANGED <<reqs, read>>
      BY <2>5 DEF ClaimFit, Resume, ClaimThrown, AnswerFit, queues
    <3>2. QED
      BY <1>0, <3>1
  <2>6. reads \/ Begin(l) \/ EndStep(l) \/ Require(l) \/ waits \/ leaves
    BY <1>1 DEF LaneStep, LaneThrows
  <2> HIDE DEF reads, waits, leaves
  <2>7. QED
    BY <2>1, <2>2, <2>3, <2>4, <2>5, <2>6
<1>2. CASE HttpStep \/ HttpStops
  <2>1. CASE \E f \in Fits : Ask(f)
    <3>1. PICK f \in Fits :
            reqs' = [reqs EXCEPT ![ReqOf[f]] =
                       IF @.status = "failed" THEN QueuedAgain(@) ELSE @]
      BY <2>1 DEF Ask
    <3>2. BeingRead(r) => reqs'[r] = reqs[r]
      BY <1>a, <3>1 DEF BeingRead
    <3>3. read' = read
      BY <2>1 DEF Ask
    <3>4. QED
      BY <1>0, <3>2, <3>3
  <2>2. CASE Put
    <3>1. PICK s \in http.req, p \in {Shown, Asked} : reqs' = [reqs EXCEPT ![s] = Upserted(@, p)]
      BY <2>2 DEF Put
    <3>2. p \in Tail .. Needed /\ read' = read
      BY <2>2 DEF Put, Tail, Needed, Shown, Asked
    <3>3. reqs'[r] = reqs[r] \/ reqs'[r] = Upserted(reqs[r], p)
      BY <1>a, <3>1
    <3>4. QED
      BY <1>0, <3>2, <3>3, RunningIsLeft
  <2>3. CASE Look \/ AskFit \/ HttpStops \/ \E s \in Reqs : View(s)
    <3>1. UNCHANGED <<reqs, read>>
      BY <2>3 DEF Look, AskFit, HttpStops, View, queues
    <3>2. QED
      BY <1>0, <3>1
  <2>4. QED
    BY <1>2, <2>1, <2>2, <2>3 DEF HttpStep
<1>3. CASE Tick
  <2>1. reqs'[r] = [reqs[r] EXCEPT !.until = Less(@)] /\ read' = read
    BY <1>3 DEF Tick
  <2>2. Standing(reqs'[r]) = Standing(reqs[r])
    BY <1>a, <2>1 DEF ReqRows, Standing
  <2>3. QED
    BY <1>0, <2>2, <2>1
<1>4. CASE Restart
  <2>1. PICK old \in SUBSET {s \in Reqs : reqs[s].status = "none" /\ read[s] > 0} :
          reqs' = [s \in Reqs |-> IF s \in old THEN QueuedAgain(NoReq) ELSE reqs[s]]
    BY <1>4 DEF Restart, Start
  <2>2. BeingRead(r) => reqs'[r] = reqs[r]
    BY <2>1 DEF BeingRead
  <2>3. read' = read
    BY <1>4 DEF Restart, Start
  <2>4. QED
    BY <1>0, <2>2, <2>3
<1>5. CASE Deploy
  <2>1. read' = read /\ release' = release + 1 /\ release \in Nat
    BY <1>5 DEF Deploy, Start, MechanicsInv, ReleaseInv
  <2>2. QED
    BY <2>1 DEF ReadFence
<1>6. CASE UNCHANGED mechanicsVars
  BY <1>0, <1>6 DEF mechanicsVars, queues
<1>7. QED
  BY <1>1, <1>2, <1>3, <1>4, <1>5, <1>6 DEF MechanicsNext

\* While the lease of a fit or of a text runs only the lane that holds it settles
\* the row, and only such a lane publishes a percent or what it read.
THEOREM LeasesFenceLanes == MechanicsSpec => FenceHolds
<1>1. MechanicsInv /\ [MechanicsNext]_mechanicsVars =>
        [(\A f \in Fits : FitFence(f)) /\ (\A r \in Reqs : ReadFence(r))]_mechanicsVars
  BY StepFenced, StepReadFenced
<1>2. QED
  BY <1>1, MechanicsInvHolds, PTL DEF MechanicsSpec, FenceHolds

=============================================================================
