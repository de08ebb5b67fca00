----------------------------- MODULE MCRevocation ----------------------------
(***************************************************************************)
(* Two clients and two batches that share an action id, the first of two   *)
(* actions; the consent is given and revoked at any time.                  *)
(***************************************************************************)
EXTENDS ActionExecutor

CONSTANTS c1, c2, li1, li2, b1, b2

MCCallers == {c1, c2}
MCActions == {li1, li2}
MCBatches == {b1, b2}
MCRequests == {[batch |-> b1, acts |-> <<li1, li2>>],
               [batch |-> b2, acts |-> <<li2>>]}
MCKindOf == [a \in MCActions |-> "linkedin_easy_apply"]
MCLimit == [k \in Kinds |-> 2]
MCNone == {}
MCScopes == {"linkedin"}
=============================================================================
