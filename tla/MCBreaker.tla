------------------------------ MODULE MCBreaker ------------------------------
(* Instances of MySQLBreaker for TLC: one worker per controller. *)
EXTENDS MySQLBreaker

CONSTANTS w1, w2
=============================================================================
