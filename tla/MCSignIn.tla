------------------------------- MODULE MCSignIn -------------------------------
(***************************************************************************)
(* A small instance of SignIn for TLC.                                     *)
(***************************************************************************)
EXTENDS SignIn

CONSTANTS s1, s2, o1

=============================================================================
