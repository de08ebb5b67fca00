-------------------------------- MODULE MCLive -------------------------------
(***************************************************************************)
(* A dispatcher with one item and a client who applies by hand with a      *)
(* batch of two share the executor; nothing crashes and the sessions stay   *)
(* connected.  Every call ends, and every approval that is not taken back   *)
(* is answered.                                                             *)
(***************************************************************************)
EXTENDS AutoApply

CONSTANTS d1, c1, i1, a1, a2, b1, acme

MCDispatchers == {d1}
MCCallers == {d1, c1}
MCItems == {i1}
MCActions == {i1, a1, a2}
MCBatches == {i1, b1}
MCRequests == {[batch |-> b1, acts |-> <<a1, a2>>]}
MCKindOf == [a \in MCActions |-> IF a = a2 THEN "hh_apply" ELSE "linkedin_easy_apply"]
MCLimit == [k \in Kinds |-> 2]
MCCompanyOf == [i \in MCItems |-> acme]
MCRuleSets == {[platforms |-> Platforms, excludeStops |-> TRUE]}
MCOperations == {"enable", "disable", "add", "approve", "resume"}
MCWindow == [p \in Platforms |-> {0, 1}]
MCDailyLimit == [p \in Platforms |-> 2]
MCNone == {}
NoPause == {0}
MCModes == {"approval_required"}
MCOutcomes == {"delivered", "attempted"}
=============================================================================
