------------------------------ MODULE MCBoosts ------------------------------
(***************************************************************************)
(* Two days of four times each, the quiet hours around midnight: batches   *)
(* with resume boosts that wait, pause and overlap while the clock moves.  *)
(***************************************************************************)
EXTENDS ActionExecutor, TLC

CONSTANTS c1, c2, boost1, boost2, hh1, b1, b2

MCCallers == {c1, c2}
MCActions == {boost1, boost2, hh1}
MCBatches == {b1, b2}
MCRequests == {[batch |-> b1, acts |-> <<boost1, hh1>>],
               [batch |-> b2, acts |-> <<boost2>>]}
MCKindOf == [a \in MCActions |-> IF a = hh1 THEN "hh_apply" ELSE "hh_resume_boost"]
MCLimit == [k \in Kinds |-> 2]
NightTimes == {3, 4}
MCTracked == {}
MCScopes == {}
Symmetry == Permutations(MCCallers)
=============================================================================
