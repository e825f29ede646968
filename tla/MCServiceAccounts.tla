-------------------------- MODULE MCServiceAccounts --------------------------
(* Instances of ServiceAccounts for TLC. *)
EXTENDS ServiceAccounts
==============================================================================
