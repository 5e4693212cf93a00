--------------------------- MODULE MCChainLedger ---------------------------
(***************************************************************************)
(* Instances of ChainLedger for TLC.                                       *)
(***************************************************************************)
EXTENDS ChainLedger, TLC

\* The allocator may give any free address.
AnyAddress == Permutations(Links)
=============================================================================
