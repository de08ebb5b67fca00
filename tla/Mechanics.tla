------------------------------ MODULE Mechanics ------------------------------
(***************************************************************************)
(* How a percent of fit is counted: a candidate's request puts a row into    *)
(* the queue of fits, the text of its vacancy puts one into the queue of     *)
(* requirements, and the lanes of one worker process take rows of both       *)
(* under leases, ask a model and settle the rows by its answer.              *)
(*                                                                         *)
(* A fit needs the requirements of its vacancy: it reads them itself, waits  *)
(* for another lane that does, and gives up after MaxDefers waits.  A        *)
(* refusal of the spending budget and an outage of the model channel put     *)
(* the rows back and pause all lanes, in memory only.                        *)
(*                                                                         *)
(* Every part of VacancyMechanicsRuntime.runNext between two model calls is  *)
(* a step, and each of them may throw: the two processes write one database. *)
(* The requests come from the server's process, which runs one handler at a  *)
(* time; the lanes come between its statements.  The lanes themselves share  *)
(* an event loop, and only they write what was read from a text.             *)
(*                                                                         *)
(* Times are kept as what is left of them.  A lane's name stands for its     *)
(* fencing token: a lane holds one row of each queue at a time, and a crash  *)
(* ends every lane.                                                         *)
(***************************************************************************)
EXTENDS Naturals

CONSTANTS
  Lanes,         \* the lanes of the worker
  Fits,          \* a candidate and a vacancy
  Reqs,          \* the texts of the vacancies
  ReqOf,         \* the text a fit is counted for
  ReadAnswers,   \* what reading a text may come to ...
  FitAnswers,    \* ... and what an assessment may
  Lease, CallTime,
  DeferTime, ChannelPause, ChannelWait, BudgetWait, RetryWait,
  MaxDefers, MaxAttempts,
  MaxAsks, MaxStarts,    \* bounds: requests and looks of the candidates, starts of the worker
  Nobody

Waits == {DeferTime, ChannelPause, ChannelWait, BudgetWait, RetryWait}

ASSUME MechanicsAssumption ==
  /\ ReqOf \in [Fits -> Reqs]
  /\ ReadAnswers \subseteq {"good", "invalid", "unavailable", "budget", "down"}
  /\ FitAnswers \subseteq {"good", "invalid", "unavailable", "budget", "down", "stale"}
  /\ {Lease, CallTime} \cup Waits \subseteq Nat \ {0}
  /\ {MaxDefers, MaxAttempts} \subseteq Nat \ {0}
  /\ {MaxAsks, MaxStarts} \subseteq Nat
  /\ CallTime < Lease
  /\ Nobody \notin Lanes

VARIABLES
  reqs,      \* vacancy_requirements_jobs under the keys of this release
  read,      \* the last release whose extractor read the text, 0 for none
  fits,      \* vacancy_fit_queue
  result,    \* the release whose requirements the last percent was counted for
  lane,      \* where each lane is
  http,      \* where the handler of the server's process is
  budget,    \* what is left of budgetPausedUntil ...
  channel,   \* ... and of channelPausedUntil
  release,   \* the extractor version that is deployed
  spent,     \* history: the claims of a fit that a failure or a lost lease used up
  asks, starts    \* what has happened of the bounded events

queues == <<reqs, read, fits, result, spent>>
pauses == <<budget, channel>>
outside == <<release, asks, starts>>
mechanicsVars == <<queues, lane, http, pauses, outside>>

ReqStatus == {"none", "queued", "leased", "completed", "failed"}
FitStatus == {"none", "pending", "leased", "completed", "failed"}
FitErrors == {"none", "model", "requirements", "wait", "profile", "other"}
LanePlaces ==
  {"idle", "ready", "after", "claimed", "waited", "found", "reading", "assessing"}
HttpPlaces == {"idle", "look", "put", "fit"}

\* LABEL_UPGRADE_PRIORITY, what enqueue gives, SHOWN_PAGE_PRIORITY and
\* FIT_DEPENDENCY_PRIORITY.
Tail == 0
Asked == 1
Shown == 2
Needed == 3

NoReq == [status |-> "none", attempts |-> 0, priority |-> Tail, until |-> 0, owner |-> Nobody]
NoFit == [status |-> "none", attempts |-> 0, defers |-> 0, until |-> 0,
          owner |-> Nobody, error |-> "none"]
PendingFit == [NoFit EXCEPT !.status = "pending"]
IdleLane == [pc |-> "idle", fit |-> {}, req |-> {}, then |-> "idle", age |-> 0]
NoHttp == [pc |-> "idle", fit |-> {}, req |-> {}]

\* A row that a worker of an earlier release marked as completed and whose
\* result is not there under the key of this release may be found at the start.
MechanicsInit ==
  /\ reqs \in [Reqs -> {NoReq, [NoReq EXCEPT !.status = "completed"]}]
  /\ read = [r \in Reqs |-> 0]
  /\ fits = [f \in Fits |-> NoFit]
  /\ result = [f \in Fits |-> 0]
  /\ lane = [l \in Lanes |-> IdleLane] /\ http = NoHttp
  /\ budget = 0 /\ channel = 0
  /\ release = 1
  /\ spent = [f \in Fits |-> 0]
  /\ asks = 0 /\ starts = 0

IsRead(r) == read[r] = release
Paused == budget > 0 \/ channel > 0
InCall(l) == lane[l].pc \in {"reading", "assessing"}
Most(n, m) == IF n < m THEN n ELSE m
Less(n) == IF n = 0 THEN 0 ELSE n - 1

-----------------------------------------------------------------------------
(* The queue of requirements.                                               *)

Raised(row, p) == [row EXCEPT !.priority = IF p > @ THEN p ELSE @]
QueuedAgain(row) == [NoReq EXCEPT !.status = "queued", !.priority = row.priority]

\* Faulty: a completed row without a result is left as it is.
UpsertedOnce(row, p) == Raised(IF row.status = "none" THEN QueuedAgain(row) ELSE row, p)

\* The upsert of enqueue: a completed row is run again.
Upserted(row, p) ==
  Raised(IF row.status \in {"none", "completed"} THEN QueuedAgain(row) ELSE row, p)

\* enqueue, for a lane: nobody writes a result between its look and its upsert.
Enqueued(r, p) == IF IsRead(r) THEN reqs[r] ELSE Upserted(reqs[r], p)

\* claim begins by failing the rows whose last lease ran out.
Swept(jobs) ==
  [r \in Reqs |-> IF jobs[r].status = "leased" /\ jobs[r].until = 0
                       /\ jobs[r].attempts >= MaxAttempts
                  THEN [jobs[r] EXCEPT !.status = "failed", !.owner = Nobody]
                  ELSE jobs[r]]

Readable(jobs, least) ==
  {r \in Reqs : /\ jobs[r].status \in {"queued", "leased"} /\ jobs[r].until = 0
                /\ jobs[r].attempts < MaxAttempts /\ jobs[r].priority >= least}

\* Faulty: the model is asked without a look at what is known.
AskedAnyway(r) == "reading"

\* A row that has its result, put back while another lane stored it, asks no model.
KnownFirst(r) == IF IsRead(r) THEN "found" ELSE "reading"

\* extractNextRequirements takes a row of the highest priority, the one just
\* asked for first, and asks the model; or it finds none and goes on.
ReadNext(l, jobs, least, fresh, then, fit) ==
  LET swept == Swept(jobs)
      free == Readable(swept, least)
  IN  \/ /\ free = {}
         /\ reqs' = swept
         /\ lane' = [lane EXCEPT ![l] =
              [IdleLane EXCEPT !.pc = IF then = "after" THEN "ready" ELSE then, !.fit = fit]]
      \/ \E r \in free :
           /\ \A s \in free : swept[s].priority <= swept[r].priority
           /\ r \in fresh \/ fresh \cap free = {}
           /\ reqs' = [swept EXCEPT ![r].status = "leased", ![r].attempts = @ + 1,
                                    ![r].until = Lease, ![r].owner = l]
           /\ lane' = [lane EXCEPT ![l] =
                [pc |-> KnownFirst(r), fit |-> fit, req |-> {r}, then |-> then, age |-> 0]]

\* assertLease.
HoldsReq(l, r) == reqs[r].status = "leased" /\ reqs[r].owner = l /\ reqs[r].until > 0

\* After its reading a lane goes on: a step that began with a reading that
\* came to nothing has found nothing yet.
Onward(l, done) ==
  [IdleLane EXCEPT !.pc = IF lane[l].then = "after" /\ ~done THEN "ready" ELSE lane[l].then,
                   !.fit = lane[l].fit]

\* The pause after a refusal: of the budget until the end of the day, of the
\* channel from now.  An answer that is none begins no pause.
PauseTime(answer) ==
  CASE answer = "budget" -> IF budget > 0 THEN {budget} ELSE 1 .. BudgetWait
    [] answer = "down" -> {ChannelPause}
    [] OTHER -> {0}

\* pauseForBudget, pauseForChannel: at once, whatever becomes of the row.
PauseAll(answer, pause) ==
  /\ budget' = IF answer = "budget" THEN pause ELSE budget
  /\ channel' = IF answer = "down" THEN pause ELSE channel

\* What the store makes of the row: the attempt that met a pause is given
\* back, an invalid answer is kept at the last attempt, an outage never is.
ReadRow(r, answer, pause) ==
  LET row == [reqs[r] EXCEPT !.owner = Nobody, !.until = 0]
      last == row.attempts >= MaxAttempts
  IN  CASE answer \in {"budget", "down"} ->
             [row EXCEPT !.status = "queued", !.attempts = Less(@),
                         !.until = IF answer = "budget" THEN pause ELSE ChannelWait]
        [] answer = "good" \/ (answer = "invalid" /\ last) ->
             [row EXCEPT !.status = "completed"]
        [] answer = "unavailable" /\ last -> [row EXCEPT !.status = "failed"]
        [] OTHER -> [row EXCEPT !.status = "queued", !.until = RetryWait]

\* The model answers a lane that reads, or the result was there.  When it is asked
\* again for a fuller answer and refuses, the lanes pause and the first one stands.
AnswerRead(l, answer, second) ==
  /\ \/ /\ lane[l].pc = "reading"
        /\ second = answer \/ (answer = "good" /\ second \in {"budget", "down"})
     \/ lane[l].pc = "found" /\ answer = "good" /\ second = "good"
  /\ \E r \in lane[l].req, pause \in PauseTime(second) :
       LET held == HoldsReq(l, r)
           row == ReadRow(r, answer, pause)
           done == held /\ row.status = "completed"
       IN  /\ PauseAll(second, pause)
           /\ reqs' = IF held THEN [reqs EXCEPT ![r] = row] ELSE reqs
           /\ read' = IF done THEN [read EXCEPT ![r] = release] ELSE read
           /\ lane' = [lane EXCEPT ![l] = Onward(l, done)]
  /\ UNCHANGED <<fits, result, spent, http, outside>>

\* complete, fail or pause throws: what was answered is lost, though the pause of
\* the lanes has begun.  The row is failed if that goes through, and stays leased
\* if it does not.
ReadThrown(l, second) ==
  /\ lane[l].pc = "reading" \/ (lane[l].pc = "found" /\ second = "good")
  /\ \E r \in lane[l].req, pause \in PauseTime(second) :
       /\ PauseAll(second, pause)
       /\ \/ UNCHANGED reqs
          \/ HoldsReq(l, r) /\ reqs' = [reqs EXCEPT ![r] = ReadRow(r, "unavailable", 0)]
  /\ lane' = [lane EXCEPT ![l] = Onward(l, FALSE)]
  /\ UNCHANGED <<read, fits, result, spent, http, outside>>

-----------------------------------------------------------------------------
(* The queue of fits.                                                       *)

\* Faulty: the row of a lane that died is never taken again.
ClaimableOnce == {f \in Fits : fits[f].status = "pending" /\ fits[f].until = 0}

Claimable == {f \in Fits : fits[f].status \in {"pending", "leased"} /\ fits[f].until = 0}
HasWaited(f) == fits[f].defers > 0 \/ fits[f].attempts > 0

\* Faulty: only the lane's memory says that the row is its own.
HoldsFitForever(l, f) == fits[f].status = "leased" /\ f \in lane[l].fit

\* The condition of complete, defer, pause and fail.
HoldsFit(l, f) == fits[f].status = "leased" /\ fits[f].owner = l /\ fits[f].until > 0

\* A lane settles the row it claimed, unless its lease is lost.
Settle(l, f, row) ==
  /\ fits' = IF HoldsFit(l, f) THEN [fits EXCEPT ![f] = row] ELSE fits
  /\ lane' = [lane EXCEPT ![l] = IdleLane]

Opened(f, wait) ==
  [fits[f] EXCEPT !.status = "pending", !.owner = Nobody, !.until = wait]

\* Faulty: the pause keeps the attempt.
PausedRowAtACost(f, wait) == Opened(f, wait)

PausedRow(f, wait) == [Opened(f, wait) EXCEPT !.attempts = Less(@)]

EndedRow(f, status, error) ==
  [fits[f] EXCEPT !.status = status, !.owner = Nobody, !.until = 0, !.error = error]

\* Faulty: the waits are not counted against their bound.
DeferredForever(f) == [PausedRow(f, DeferTime) EXCEPT !.defers = @ + 1]

DeferredRow(f) ==
  LET row == [PausedRow(f, DeferTime) EXCEPT !.defers = @ + 1]
  IN  IF row.defers < MaxDefers THEN row
      ELSE [row EXCEPT !.status = "failed", !.until = 0, !.error = "wait"]

\* claim: fresh rows before rows that have waited; a row whose lease ran out is
\* claimed again.
ClaimFit(l, f) ==
  /\ lane[l].pc \in {"ready", "after"} /\ ~Paused
  /\ f \in Claimable
  /\ HasWaited(f) => \A g \in Claimable : HasWaited(g)
  /\ fits' = [fits EXCEPT ![f].status = "leased", ![f].owner = l, ![f].until = Lease,
                          ![f].attempts = Most(@ + 1, MaxAttempts + 1)]
  /\ spent' = [spent EXCEPT ![f] = IF fits[f].status = "leased"
                                   THEN Most(@ + 1, MaxAttempts) ELSE @]
  /\ lane' = [lane EXCEPT ![l] = [IdleLane EXCEPT !.pc = "claimed", !.fit = {f}]]
  /\ UNCHANGED <<reqs, read, result, http, pauses, outside>>

\* Requirements that are not there are asked for, and the lane reads what is
\* first in their queue.
Require(l) ==
  /\ lane[l].pc = "claimed"
  /\ \E f \in lane[l].fit :
       LET r == ReqOf[f]
           jobs == [reqs EXCEPT ![r] = Enqueued(r, Needed)]
           place == IF IsRead(r) THEN "assessing" ELSE "waited"
       IN  IF IsRead(r) \/ jobs[r].status = "failed"
           THEN /\ reqs' = jobs
                /\ lane' = [lane EXCEPT ![l] = [IdleLane EXCEPT !.pc = place, !.fit = {f}]]
           ELSE ReadNext(l, jobs, Tail, {r}, place, {f})
  /\ UNCHANGED <<read, fits, result, spent, http, pauses, outside>>

\* The lane looks again for the requirements it needs: they are there ...
Resume(l) ==
  /\ lane[l].pc = "waited"
  /\ \A f \in lane[l].fit : IsRead(ReqOf[f])
  /\ lane' = [lane EXCEPT ![l].pc = "assessing", ![l].age = 0]
  /\ UNCHANGED <<queues, http, pauses, outside>>

\* ... or the channel is down, or they have failed, or the fit waits.
Wait(l) ==
  /\ lane[l].pc = "waited"
  /\ \E f \in lane[l].fit :
       LET r == ReqOf[f]
           job == Enqueued(r, Needed)
       IN  /\ ~IsRead(r)
           /\ \/ /\ channel > 0
                 /\ Settle(l, f, PausedRow(f, ChannelWait))
                 /\ UNCHANGED reqs
              \/ /\ channel = 0
                 /\ reqs' = [reqs EXCEPT ![r] = job]
                 /\ Settle(l, f, IF job.status = "failed"
                                 THEN EndedRow(f, "failed", "requirements")
                                 ELSE DeferredRow(f))
  /\ UNCHANGED <<read, result, spent, http, pauses, outside>>

\* What settleAssessment and settleFailure make of the row.
AssessedRow(f, answer, pause) ==
  CASE answer = "good" -> EndedRow(f, "completed", "none")
    [] answer = "budget" -> PausedRow(f, pause)
    [] answer = "down" -> PausedRow(f, ChannelWait)
    [] answer = "stale" -> EndedRow(f, "failed", "profile")
    [] answer \in {"invalid", "unavailable"} /\ fits[f].attempts < MaxAttempts ->
         Opened(f, RetryWait)
    [] OTHER -> EndedRow(f, "failed", "model")

AnswerFit(l, answer) ==
  /\ lane[l].pc = "assessing"
  /\ \E f \in lane[l].fit, pause \in PauseTime(answer) :
       /\ Settle(l, f, AssessedRow(f, answer, pause))
       /\ PauseAll(answer, pause)
       /\ result' = IF HoldsFit(l, f) /\ answer = "good"
                    THEN [result EXCEPT ![f] = release] ELSE result
       /\ spent' = IF HoldsFit(l, f) /\ answer \in {"invalid", "unavailable"}
                   THEN [spent EXCEPT ![f] = Most(@ + 1, MaxAttempts)] ELSE spent
  /\ UNCHANGED <<reqs, read, http, outside>>

\* What the catch of runNext makes of the row.
CaughtRow(f) ==
  IF fits[f].attempts < MaxAttempts THEN Opened(f, RetryWait) ELSE EndedRow(f, "failed", "other")

\* Anything after the claim throws, of the requirements, of the answer or of its
\* storing: it counts as a failed attempt, unless that cannot be written either;
\* then the row stays leased.  What was done before is done.
FitThrown(l, answer) ==
  /\ lane[l].pc = "assessing" \/ (lane[l].pc \in {"claimed", "waited"} /\ answer = "good")
  /\ \E f \in lane[l].fit, pause \in PauseTime(answer), written \in BOOLEAN :
       LET r == ReqOf[f]
           counts == written /\ HoldsFit(l, f)
       IN  /\ lane' = [lane EXCEPT ![l] = IdleLane]
           /\ PauseAll(answer, pause)
           /\ \/ UNCHANGED reqs
              \/ /\ lane[l].pc = "claimed" \/ (lane[l].pc = "waited" /\ channel = 0)
                 /\ reqs' = [reqs EXCEPT ![r] = Enqueued(r, Needed)]
           /\ fits' = IF counts THEN [fits EXCEPT ![f] = CaughtRow(f)] ELSE fits
           /\ spent' = IF counts THEN [spent EXCEPT ![f] = Most(@ + 1, MaxAttempts)] ELSE spent
  /\ UNCHANGED <<read, result, http, outside>>

-----------------------------------------------------------------------------
(* The rest of a lane's step.                                               *)

\* runNext begins with the requirements somebody looks at.  (A step that would
\* find nothing in either queue changes nothing; runVacancyMechanicsStep sleeps.)
Begin(l) ==
  /\ lane[l].pc = "idle" /\ ~Paused
  /\ Claimable # {} \/ Readable(reqs, Tail) # {} \/ Swept(reqs) # reqs
  /\ ReadNext(l, reqs, Shown, {}, "after", {})
  /\ UNCHANGED <<read, fits, result, spent, http, pauses, outside>>

\* It ends without a fit: a pause has begun, or no row is due; then the tail
\* of the requirements has its turn.
EndStep(l) ==
  /\ lane[l].pc \in {"ready", "after"}
  /\ \/ /\ Paused \/ (Claimable = {} /\ lane[l].pc = "after")
        /\ lane' = [lane EXCEPT ![l] = IdleLane]
        /\ UNCHANGED reqs
     \/ /\ ~Paused /\ Claimable = {} /\ lane[l].pc = "ready"
        /\ ReadNext(l, reqs, Tail, {}, "idle", {})
  /\ UNCHANGED <<read, fits, result, spent, http, pauses, outside>>

\* A claim throws: runVacancyMechanicsStep sleeps and the lane begins again.
ClaimThrown(l) ==
  /\ lane[l].pc \in {"ready", "after"}
  /\ lane' = [lane EXCEPT ![l] = IdleLane]
  /\ UNCHANGED <<queues, http, pauses, outside>>

LaneThrows(l) ==
  \/ ClaimThrown(l)
  \/ \E second \in ReadAnswers : ReadThrown(l, second)
  \/ \E answer \in FitAnswers : FitThrown(l, answer)

LaneStep(l) ==
  \/ Begin(l)
  \/ \E answer, second \in ReadAnswers : AnswerRead(l, answer, second)
  \/ \E f \in Fits : ClaimFit(l, f)
  \/ Require(l)
  \/ Resume(l)
  \/ Wait(l)
  \/ \E answer \in FitAnswers : AnswerFit(l, answer)
  \/ EndStep(l)

-----------------------------------------------------------------------------
(* The server's process, the clock and the restarts.                        *)

\* view: the text of a vacancy on a page is read before the others.  It looks
\* for a result, and the upsert comes later.
View(r) ==
  /\ http.pc = "idle" /\ ~IsRead(r)
  /\ asks < MaxAsks /\ asks' = asks + 1
  /\ http' = [pc |-> "put", fit |-> {}, req |-> {r}]
  /\ UNCHANGED <<queues, lane, pauses, release, starts>>

\* enqueue of the runtime, from a card, a page or the sweep: requirements that
\* have failed are tried again, ...
Ask(f) ==
  /\ http.pc = "idle"
  /\ asks < MaxAsks /\ asks' = asks + 1
  /\ http' = [pc |-> "look", fit |-> {f}, req |-> {ReqOf[f]}]
  /\ reqs' = [reqs EXCEPT ![ReqOf[f]] = IF @.status = "failed" THEN QueuedAgain(@) ELSE @]
  /\ UNCHANGED <<read, fits, result, spent, lane, pauses, release, starts>>

\* ... looked for ...
Look ==
  /\ http.pc = "look"
  /\ \E r \in http.req : http' = [http EXCEPT !.pc = IF IsRead(r) THEN "fit" ELSE "put"]
  /\ UNCHANGED <<queues, lane, pauses, outside>>

\* ... and asked for, whatever the lanes have stored since.
Put ==
  /\ http.pc = "put"
  /\ \E r \in http.req :
       reqs' = [reqs EXCEPT ![r] = Upserted(@, IF http.fit = {} THEN Shown ELSE Asked)]
  /\ http' = IF http.fit = {} THEN NoHttp ELSE [http EXCEPT !.pc = "fit"]
  /\ UNCHANGED <<read, fits, result, spent, lane, pauses, outside>>

\* lostItsResult: counted, but not for the requirements as they are now read.
Lost(f) == fits[f].status = "completed" /\ IsRead(ReqOf[f]) /\ result[f] # release

\* Then a fit that has failed is tried again, and one that lost its result is
\* counted again.
AskFit ==
  /\ http.pc = "fit"
  /\ \E f \in http.fit :
       LET again == fits[f].status \in {"none", "failed"} \/ Lost(f)
       IN  /\ fits' = [fits EXCEPT ![f] = IF again THEN PendingFit ELSE @]
           /\ spent' = [spent EXCEPT ![f] = IF again THEN 0 ELSE @]
  /\ http' = NoHttp
  /\ UNCHANGED <<reqs, read, result, lane, pauses, outside>>

HttpStep == \/ \E r \in Reqs : View(r)
            \/ \E f \in Fits : Ask(f)
            \/ Look \/ Put \/ AskFit

\* A statement throws, or the process ends.
HttpStops ==
  /\ http.pc # "idle" /\ http' = NoHttp
  /\ UNCHANGED <<queues, lane, pauses, outside>>

\* A call ends in time: reading asks the model once or twice.  What a lane does
\* between two calls takes no time, and a lane that sleeps is an idle one.
CallLimit(l) == IF lane[l].pc = "reading" THEN 2 * CallTime ELSE CallTime

Tick ==
  /\ \A l \in Lanes : \/ lane[l].pc = "idle"
                       \/ (InCall(l) /\ lane[l].age < CallLimit(l))
  /\ lane' = [l \in Lanes |-> IF InCall(l) THEN [lane[l] EXCEPT !.age = @ + 1] ELSE IdleLane]
  /\ reqs' = [r \in Reqs |-> [reqs[r] EXCEPT !.until = Less(@)]]
  /\ fits' = [f \in Fits |-> [fits[f] EXCEPT !.until = Less(@)]]
  /\ budget' = Less(budget) /\ channel' = Less(channel)
  /\ UNCHANGED <<read, result, spent, http, outside>>

\* The worker ends at any point and starts again: the leases stay and the
\* pauses are forgotten.  requeueAfterParserUpgrade opens fits that waited in
\* vain and queues texts read by an earlier release, as many of both as the
\* day's ceilings allow.
Start(jobs) ==
  /\ starts < MaxStarts /\ starts' = starts + 1
  /\ lane' = [l \in Lanes |-> IdleLane]
  /\ budget' = 0 /\ channel' = 0
  /\ \E old \in SUBSET {r \in Reqs : jobs[r].status = "none" /\ read[r] > 0} :
       reqs' = [r \in Reqs |-> IF r \in old THEN QueuedAgain(NoReq) ELSE jobs[r]]
  /\ \E vain \in SUBSET {f \in Fits : fits[f].status = "failed" /\ fits[f].error = "wait"} :
       /\ fits' = [f \in Fits |-> IF f \in vain THEN PendingFit ELSE fits[f]]
       /\ spent' = [f \in Fits |-> IF f \in vain THEN 0 ELSE spent[f]]
  /\ UNCHANGED <<read, result, asks>>

Restart == Start(reqs) /\ UNCHANGED <<release, http>>

\* A release with a new extractor: the rows of the queue have other keys, and
\* the server starts again too.
Deploy == Start([r \in Reqs |-> NoReq]) /\ release' = release + 1 /\ http' = NoHttp

MechanicsNext ==
  \/ \E l \in Lanes : LaneStep(l) \/ LaneThrows(l)
  \/ HttpStep \/ HttpStops
  \/ Tick \/ Restart \/ Deploy

MechanicsSpec == MechanicsInit /\ [][MechanicsNext]_mechanicsVars

\* A good answer for a lane that still holds its row.
ReadInTime(l) == (\A r \in lane[l].req : HoldsReq(l, r)) /\ AnswerRead(l, "good", "good")
FitInTime(l) == (\A f \in lane[l].fit : HoldsFit(l, f)) /\ AnswerFit(l, "good")

\* The lanes and the clock go on, one day no statement throws any more, and what
\* is asked again and again is once answered well and in time.  Nobody has to ask,
\* to look or to restart.
MechanicsLive ==
  /\ MechanicsSpec
  /\ WF_mechanicsVars(Tick)
  /\ \A l \in Lanes : WF_mechanicsVars(LaneStep(l))
  /\ SF_mechanicsVars(\E l \in Lanes : ReadInTime(l) \/ FitInTime(l))
  /\ <>[][\A l \in Lanes : ~LaneThrows(l)]_mechanicsVars

-----------------------------------------------------------------------------
(* Properties.                                                              *)

ReqRows == [status : ReqStatus, attempts : 0 .. MaxAttempts, priority : Tail .. Needed,
            until : Nat, owner : Lanes \cup {Nobody}]
FitRows == [status : FitStatus, attempts : 0 .. MaxAttempts + 1, defers : 0 .. MaxDefers,
            until : Nat, owner : Lanes \cup {Nobody}, error : FitErrors]
LaneRows == [pc : LanePlaces, fit : SUBSET Fits, req : SUBSET Reqs, then : LanePlaces,
             age : 0 .. 2 * CallTime]
HttpRows == [pc : HttpPlaces, fit : SUBSET Fits, req : SUBSET Reqs]

\* The queues keep their types and the two counters their bounds: a text is
\* tried at most MAX_ATTEMPTS times and a fit waits for one at most
\* VACANCY_FIT_MAX_DEFERS times, whatever lanes, leases and restarts do.
MechanicsTypeOK ==
  /\ reqs \in [Reqs -> ReqRows]
  /\ fits \in [Fits -> FitRows]
  /\ read \in [Reqs -> 0 .. release] /\ result \in [Fits -> 0 .. release]
  /\ lane \in [Lanes -> LaneRows] /\ http \in HttpRows
  /\ {budget, channel} \subseteq Nat
  /\ release \in 1 .. 1 + starts
  /\ spent \in [Fits -> 0 .. MaxAttempts]
  /\ asks \in 0 .. MaxAsks /\ starts \in 0 .. MaxStarts

\* A wait costs nothing: the attempts of a fit are the claims that lost their
\* lease, that the model failed or in which something threw, and a fit that fails
\* for one of these has had MAX_ATTEMPTS of them, however often the budget, the
\* channel or the requirements put it back in between.
WaitsCostNothing ==
  \A f \in Fits :
    /\ fits[f].status = "pending" => Most(fits[f].attempts, MaxAttempts) = spent[f]
    /\ fits[f].error \in {"model", "other"} => spent[f] = MaxAttempts

\* Nobody pays for a text that has been read: while the lease of a reading runs
\* no other lane has stored the text, and a row that the server's late upsert
\* put back after the text was stored is completed without a call.
CallsAreNeeded ==
  \A l \in Lanes : \A r \in lane[l].req :
    (/\ lane[l].pc = "reading"
     /\ reqs[r].status = "leased" /\ reqs[r].owner = l /\ reqs[r].until > 0) => ~IsRead(r)

\* A fit is put back to wait for its requirements only while their row can
\* still bring them: it is queued with attempts left, or some claim of it has
\* yet to be answered or to run out.  (A row left as completed without a
\* result made 410 fits wait in vain.)
WaitsForWork ==
  [][\A f \in Fits :
       fits'[f].defers > fits[f].defers =>
         LET job == reqs'[ReqOf[f]]
         IN  job.status = "leased" \/ (job.status = "queued" /\ job.attempts < MaxAttempts)]_mechanicsVars

Timeless(row) == [row EXCEPT !.until = 0]
UnderLease(f) == fits[f].status = "leased" /\ fits[f].until > 0

FitFence(f) ==
  /\ result'[f] # result[f] => UnderLease(f)
  /\ (UnderLease(f) /\ Timeless(fits'[f]) # Timeless(fits[f])) =>
       \E l \in Lanes : fits[f].owner = l /\ f \in lane[l].fit /\ lane'[l].pc = "idle"

BeingRead(r) == reqs[r].status = "leased" /\ reqs[r].until > 0
Standing(row) == <<row.status, row.attempts, row.owner>>

ReadFence(r) ==
  /\ read'[r] # read[r] => BeingRead(r)
  /\ (BeingRead(r) /\ Standing(reqs'[r]) # Standing(reqs[r])) =>
       \/ release' # release
       \/ \E l \in Lanes : reqs[r].owner = l /\ r \in lane[l].req /\ lane'[l].req = {}

\* While the lease of a fit or of a text runs only the lane that holds it settles
\* the row, and only such a lane publishes a percent or what it read: neither a
\* slower lane that held it before nor a request nor a restart does.  (The rows of a
\* new extractor are others.)
FenceHolds ==
  [][(\A f \in Fits : FitFence(f)) /\ (\A r \in Reqs : ReadFence(r))]_mechanicsVars

\* A fit that was asked for is counted or has failed in the end: neither a lost
\* lease nor a pause nor the wait for its requirements keeps it for ever.
PercentComes ==
  \A f \in Fits : fits[f].status \in {"pending", "leased"}
                    ~> fits[f].status \in {"completed", "failed"}

\* "A job that met the outage waits this long; its attempts stay untouched, so
\* it never turns failed" (CHANNEL_JOB_WAIT_MS).
OutageFailsNothing == \A f \in Fits : fits[f].status # "failed"

=============================================================================
