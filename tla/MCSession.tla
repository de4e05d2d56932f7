------------------------------ MODULE MCSession ------------------------------
(***************************************************************************)
(* Small instances of Session for TLC, and the code's plausible bugs the   *)
(* properties are tested against.                                          *)
(***************************************************************************)
EXTENDS SessionProperties, TLC

CONSTANTS a, b, Alice, Bob, i1, i2, s1, s2, o1, o2

\* Two tokens of two people.
TwoHolders == a :> Alice @@ b :> Bob

Symmetric == Permutations({i1, i2}) \cup Permutations({s1, s2}) \cup Permutations({o1, o2})

=============================================================================
