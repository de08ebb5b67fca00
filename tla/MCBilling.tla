------------------------------- MODULE MCBilling -------------------------------
(***************************************************************************)
(* Two plans, two checkouts and two renewals over two months of two units  *)
(* of time each.                                                           *)
(***************************************************************************)
EXTENDS Billing, TLC

CONSTANTS k1, k2

MCKeys == {k1, k2}
OneKey == {k1}
MCPlans == {0, 1}
Symmetry == Permutations(MCKeys)
=============================================================================
