--------------------------- MODULE MCProvisioning ---------------------------
(* Two registrations, two auth replicas, two payment replicas, one fault. *)
EXTENDS Provisioning
=============================================================================
