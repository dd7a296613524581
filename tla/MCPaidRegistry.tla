--------------------------- MODULE MCPaidRegistry ---------------------------
(***************************************************************************)
(* Finite instances of PaidRegistry for TLC.                               *)
(***************************************************************************)
EXTENDS PaidRegistry, TLC

CONSTANTS alice, bob, goblin, troll, w1, w2, w3, i1, i2

PaidSymmetry == Permutations(Workers) \cup Permutations(Invoices)

=============================================================================
