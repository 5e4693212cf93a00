----------------------------- MODULE MCShutdown -----------------------------
(***************************************************************************)
(* Instances of Shutdown, and of NodeRegistry in it, for TLC.              *)
(***************************************************************************)
EXTENDS Shutdown, TLC

\* Connections differ by name only.
AnyConnection == Permutations(Connections)
=============================================================================
