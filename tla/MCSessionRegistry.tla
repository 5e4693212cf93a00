------------------------- MODULE MCSessionRegistry -------------------------
(***************************************************************************)
(* Instances of SessionRegistry for TLC.                                   *)
(***************************************************************************)
EXTENDS SessionRegistry, TLC

\* Hosts differ by name only.
AnyHost == Permutations(Hosts)
=============================================================================
