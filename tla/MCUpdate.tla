------------------------------- MODULE MCUpdate -------------------------------
(* A small instance of Update for TLC. *)
EXTENDS Update

CONSTANTS g1, g2, m1, m2

=============================================================================
