-------------------------- MODULE MCProvisioning ---------------------------
(* Instances of Provisioning for model checking.                           *)
EXTENDS Provisioning
=============================================================================
