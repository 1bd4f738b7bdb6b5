------------------------------ MODULE MCGateway ------------------------------
(* Gateway on small instances.                                             *)
EXTENDS Gateway, TLC

\* Notifications are ordered; nothing else is.
Symmetry ==
  Permutations(Instances) \cup Permutations(Sockets) \cup Permutations(Sessions)

=============================================================================
