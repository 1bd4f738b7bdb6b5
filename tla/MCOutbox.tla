------------------------------ MODULE MCOutbox ------------------------------
(* Outbox on small instances.                                              *)
EXTENDS Outbox, TLC

\* Workers are interchangeable; event ids are not, they are ordered.
Symmetry == Permutations(Workers)

=============================================================================
