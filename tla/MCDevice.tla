------------------------------ MODULE MCDevice ------------------------------
(* Device on small instances. *)
EXTENDS Device

MCHooks == {"first", "start", "loop", "finish"}

=============================================================================
