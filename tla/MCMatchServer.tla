--------------------------- MODULE MCMatchServer ---------------------------
(***************************************************************************)
(* Instances of MatchServer for TLC.                                       *)
(***************************************************************************)
EXTENDS MatchServer, TLC

\* Where everybody may create matches, players that are not Slow, do not quit,
\* poll or stray differ by name only.
AnyPlayer == Permutations(Players \ (Slow \cup Quitters \cup Pollers \cup Astray))
=============================================================================
