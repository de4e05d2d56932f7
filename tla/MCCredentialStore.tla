-------------------------- MODULE MCCredentialStore --------------------------
(* A small instance of CredentialStore for TLC. *)
EXTENDS CredentialStore

CONSTANTS t1, t2

=============================================================================
