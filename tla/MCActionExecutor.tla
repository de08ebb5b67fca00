-------------------------- MODULE MCActionExecutor --------------------------
(***************************************************************************)
(* Three batches of direct actions posted by two clients: a first batch    *)
(* that goes from LinkedIn to hh.ru, a LinkedIn action on its own, and a   *)
(* batch that competes for the daily hh slot and reuses the id of the      *)
(* LinkedIn action.                                                        *)
(***************************************************************************)
EXTENDS ActionExecutor, TLC

CONSTANTS c1, c2, hh1, hh2, li1, li2, b1, b2, b3

MCCallers == {c1, c2}
MCActions == {hh1, hh2, li1, li2}
MCBatches == {b1, b2, b3}
MCRequests == {[batch |-> b1, acts |-> <<li1, hh1>>],
               [batch |-> b2, acts |-> <<li2>>],
               [batch |-> b3, acts |-> <<hh2, li2>>]}
MCKindOf == [a \in MCActions |->
               IF a \in {hh1, hh2} THEN "hh_apply" ELSE "linkedin_easy_apply"]
MCLimit == [k \in Kinds |-> IF k = "hh_apply" THEN 1 ELSE 2]
NoQuiet == {}
Symmetry == Permutations(MCCallers)
MCTracked == {hh1}
MCScopes == {"linkedin"}
=============================================================================
