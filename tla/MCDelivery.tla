----------------------------- MODULE MCDelivery -----------------------------
(* Delivery on small instances.                                            *)
EXTENDS Delivery, TLC

\* Workers are interchangeable; event ids are not, they are ordered.
Symmetry == Permutations(Workers)

=============================================================================
