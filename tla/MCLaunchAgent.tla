--------------------------- MODULE MCLaunchAgent ---------------------------
(* A small instance of LaunchAgent for TLC. *)
EXTENDS LaunchAgent

CONSTANTS p1, p2, f1, f2, f3

=============================================================================
