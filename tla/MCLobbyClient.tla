--------------------------- MODULE MCLobbyClient ---------------------------
(***************************************************************************)
(* Instances of LobbyClient for TLC.                                       *)
(***************************************************************************)
EXTENDS LobbyClient, TLC

\* Listening threads differ by name only.
AnyDaemon == Permutations(Daemons)
=============================================================================
