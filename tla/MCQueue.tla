------------------------------ MODULE MCQueue --------------------------------
(***************************************************************************)
(* One dispatcher and two LinkedIn items of one company: the modes, the    *)
(* rules, the stop company and the letters; a window that is closed at     *)
(* first, a daily limit of one, and a break after each delivery.           *)
(***************************************************************************)
EXTENDS AutoApply, TLC

CONSTANTS d1, i1, i2, acme

MCDispatchers == {d1}
MCItems == {i1, i2}
MCRequests == {}
MCKindOf == [i \in MCItems |-> "linkedin_easy_apply"]
MCLimit == [k \in Kinds |-> 2]
MCCompanyOf == [i \in MCItems |-> acme]
MCRuleSets == {[platforms |-> {"hh"}, excludeStops |-> TRUE],
               [platforms |-> Platforms, excludeStops |-> TRUE]}
MCOperations == {"enable", "add", "edit", "approve", "remove", "consultant", "stop",
                 "import", "rules", "schedule", "card", "disconnect"}
MCWindow == [p \in Platforms |-> {1}]
MCDailyLimit == [p \in Platforms |-> 1]
MCNone == {}
MCScopes == {"linkedin"}
NoPause == {0}
MCModes == {"approval_required", "automatic"}
Symmetry == Permutations(MCItems)
MCOutcomes == {"delivered", "attempted"}
=============================================================================
