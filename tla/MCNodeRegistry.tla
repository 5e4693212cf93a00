--------------------------- MODULE MCNodeRegistry ---------------------------
(***************************************************************************)
(* Instances of NodeRegistry for TLC.                                      *)
(***************************************************************************)
EXTENDS NodeRegistry, TLC

\* Connections differ by name only.
AnyConnection == Permutations(Connections)
=============================================================================
