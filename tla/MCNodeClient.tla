---------------------------- MODULE MCNodeClient ----------------------------
(***************************************************************************)
(* Finite instances of NodeClient for TLC.                                 *)
(***************************************************************************)
EXTENDS NodeClient

=============================================================================
