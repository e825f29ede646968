------------------------------- MODULE MCMySQL -------------------------------
(* Instances of MySQLAccounts for TLC. *)
EXTENDS MySQLAccounts

CONSTANTS p1, p2, p3, p4
=============================================================================
