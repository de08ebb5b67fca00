----------------------------- MODULE Applications -----------------------------
(***************************************************************************)
(* What automatic applications promise the candidate, whatever is repeated, *)
(* overlaps, runs late or crashes.  An application is prepared, approved,   *)
(* and may be taken back or withdrawn at any time.  Only while it is        *)
(* approved is it committed to; a committed application is handed to the    *)
(* platform at most once, or refused.  And what the candidate is told in    *)
(* the end agrees with what has been recorded of it: `sent' is never said   *)
(* of less than a confirmed delivery, `attempted' of one that may have      *)
(* arrived, and `failed' only where a failure or a refusal is recorded.     *)
(* It does not promise that a failed application has not arrived: a run     *)
(* that broke off, or a delivery that could not be confirmed, is recorded   *)
(* as a failure too.                                                        *)
(***************************************************************************)
CONSTANT Items

VARIABLES
  told,  \* what the candidate is shown of each application
  fact   \* what has been done about it, and what is recorded of the outcome

Open == {"prepared", "approved"}
Told == Open \cup {"absent", "withdrawn", "sent", "attempted", "failed"}
Outcome == {"delivered", "attempted", "failed"}
Fact == Outcome \cup {"none", "committed", "refused", "handed"}

Init ==
  /\ told = [i \in Items |-> "absent"]
  /\ fact = [i \in Items |-> "none"]

Prepare(i) ==
  /\ told[i] = "absent"
  /\ \E status \in Open : told' = [told EXCEPT ![i] = status]
  /\ UNCHANGED fact

Approve(i) ==
  /\ told[i] = "prepared"
  /\ told' = [told EXCEPT ![i] = "approved"]
  /\ UNCHANGED fact

\* Approvals are taken back together, when the automation is disabled.
TakeBack(S) ==
  /\ \A i \in S : told[i] = "approved"
  /\ told' = [i \in Items |-> IF i \in S THEN "prepared" ELSE told[i]]
  /\ UNCHANGED fact

\* ... and a company's applications are withdrawn together.
Withdraw(S) ==
  /\ \A i \in S : told[i] \in Open
  /\ told' = [i \in Items |-> IF i \in S THEN "withdrawn" ELSE told[i]]
  /\ UNCHANGED fact

Commit(i) ==
  /\ fact[i] = "none"
  /\ told[i] = "approved"
  /\ fact' = [fact EXCEPT ![i] = "committed"]
  /\ UNCHANGED told

\* A stop or a limit intervenes before the platform is reached.
Refuse(i) ==
  /\ fact[i] = "committed"
  /\ fact' = [fact EXCEPT ![i] = "refused"]
  /\ UNCHANGED told

HandOver(i) ==
  /\ fact[i] = "committed"
  /\ fact' = [fact EXCEPT ![i] = "handed"]
  /\ UNCHANGED told

\* The outcome is put on record, as far as it is known.
Learn(i) ==
  /\ fact[i] = "handed"
  /\ \E outcome \in Outcome : fact' = [fact EXCEPT ![i] = outcome]
  /\ UNCHANGED told

\* What may be said of what is recorded: `attempted' while that is open, or when
\* another application of the candidate was under way.
MayTell(f) ==
  CASE f = "delivered" -> {"sent"}
    [] f = "failed" -> {"failed"}
    [] f = "refused" -> {"failed", "attempted"}
    [] f \in {"committed", "handed", "attempted"} -> {"attempted"}
    [] f = "none" -> {}

Tell(i) ==
  /\ told[i] \in Open
  /\ \E status \in MayTell(fact[i]) : told' = [told EXCEPT ![i] = status]
  /\ UNCHANGED fact

Next ==
  \/ \E i \in Items :
       \/ Prepare(i) \/ Approve(i)
       \/ Commit(i) \/ Refuse(i) \/ HandOver(i) \/ Learn(i)
       \/ Tell(i)
  \/ \E S \in SUBSET Items : TakeBack(S) \/ Withdraw(S)

Spec == Init /\ [][Next]_<<told, fact>>
=============================================================================
