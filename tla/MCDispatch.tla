----------------------------- MODULE MCDispatch ------------------------------
(***************************************************************************)
(* Two dispatchers and one LinkedIn item over two units of time: the lease  *)
(* can run out under a slow run, the server can crash, and the candidate    *)
(* approves and removes, and stops and starts again in every way: the       *)
(* consents, the settings, the pause that ends, the emergency pause, and    *)
(* the kill switches.                                                       *)
(***************************************************************************)
EXTENDS AutoApply, TLC

CONSTANTS d1, d2, i1, acme

MCDispatchers == {d1, d2}
MCItems == {i1}
MCRequests == {}
MCKindOf == [i \in MCItems |-> "linkedin_easy_apply"]
MCLimit == [k \in Kinds |-> 2]
MCCompanyOf == [i \in MCItems |-> acme]
MCRuleSets == {[platforms |-> Platforms, excludeStops |-> TRUE]}
MCOperations == {"enable", "add", "approve", "revoke", "pause",
                 "disable", "remove", "emergency", "resume", "onBehalf", "crash"}
MCWindow == [p \in Platforms |-> 0..3]
MCDailyLimit == [p \in Platforms |-> 2]
MCNone == {}
MCScopes == {"linkedin"}
NoPause == {0}
MCModes == {"approval_required"}
Symmetry == Permutations(MCDispatchers)
=============================================================================
