---------------------------- MODULE MCDeployment ----------------------------
(* Deployment on a small instance.                                         *)
EXTENDS Deployment

=============================================================================
