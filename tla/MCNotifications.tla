---------------------------- MODULE MCNotifications ----------------------------
(***************************************************************************)
(* One notification over both channels, three attempts, and a claim that    *)
(* lasts longer than the first delay and as long as the second one.         *)
(***************************************************************************)
EXTENDS Notifications

CONSTANTS n1

MCNotes == {n1}
MCBackoff == [a \in 1..3 |-> IF a = 1 THEN 1 ELSE 2]
=============================================================================
