---------------------------- MODULE DeviceRegister ----------------------------
(***************************************************************************)
(* What the agent promises of the device's identity, whatever the stores   *)
(* it is kept in and however often the process starts: a register that is  *)
(* written once, and that every check-in names.  After a slip of a store   *)
(* the identity may be replaced and is still never lost.                   *)
(***************************************************************************)
None    == "none"
Unknown == "unknown"

VARIABLES
    identity,   \* what a start would load
    known,      \* identities the API has check-ins of
    slipped     \* a store refused a read or a save that counted

registerVars == <<identity, known, slipped>>

Init == identity = None /\ known = {} /\ slipped = FALSE

Assign ==
    /\ identity = None
    /\ identity' \notin {None, Unknown}
    /\ UNCHANGED <<known, slipped>>

\* Under the identity, or as nobody where none could be made.
CheckIn ==
    /\ \E id \in {identity, Unknown} \ {None} : known' = known \cup {id}
    /\ UNCHANGED <<identity, slipped>>

Slip == slipped' /\ UNCHANGED <<identity, known>>

AfterSlip ==
    /\ slipped'
    /\ identity' = identity \/ identity' \notin {None, Unknown}
    /\ known \subseteq known'

Next ==
    \/ ~slipped /\ (Assign \/ CheckIn \/ Slip)
    \/ slipped /\ AfterSlip

Spec == Init /\ [][Next]_registerVars

=============================================================================
