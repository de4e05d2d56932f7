---------------------------- MODULE MCCollection ----------------------------
(* A small instance of Collection for TLC. *)
EXTENDS Collection

CONSTANTS s1, s2, r1

=============================================================================
