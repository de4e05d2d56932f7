-------------------------- MODULE CredentialRegister --------------------------
(***************************************************************************)
(* What keychain.rs promises of one account, whatever stores it uses: a    *)
(* register that holds what a later start would load.  A save or a sign-   *)
(* out takes time, may be cut short anywhere, and answers for what it did. *)
(* Nothing is promised any more once two calls have overlapped.            *)
(***************************************************************************)
EXTENDS Naturals

Nothing == 0

VARIABLES
    stored,      \* what a start would load
    call,        \* the call under way: its kind, and the value of a save
    answer,      \* how the last one ended, until another begins
    overlapped,
    kept         \* a file of the last call could not be removed

registerVars == <<stored, call, answer, overlapped, kept>>

Idle == [kind |-> "idle", value |-> Nothing]

Init ==
    /\ stored \in Nat
    /\ call = Idle
    /\ answer = "none"
    /\ overlapped = FALSE
    /\ kept = FALSE

Begin(kind) ==
    /\ call = Idle
    /\ call' = [kind |-> kind, value |-> call'.value]
    /\ answer' = "none"
    /\ kept' = FALSE
    /\ UNCHANGED stored

Goes == call' = call /\ answer' = answer
Ends(with) == call' = Idle /\ answer' \in with

\* A save is seen at once or not at all: one that says it went well was seen,
\* unless the file that hides it could not be removed, and one that says it
\* failed was not.
Save ==
    /\ call.kind = "save"
    /\ \/ Goes /\ stored' \in {stored, call.value}
       \/ Ends({"keyring", "file"}) /\ stored' = call.value
       \/ Ends({"keyring"}) /\ kept' /\ UNCHANGED stored
       \/ Ends({"error", "full"}) /\ UNCHANGED stored

\* A sign-out may lay bare what the other store held, and says that it is done
\* only when nothing is left, or a file that it could not remove; when it cannot
\* tell, it says what it assumes.
Delete ==
    /\ call.kind = "delete"
    /\ \/ Goes /\ stored' \in Nat
       \/ Ends({"deleted"}) /\ stored' = Nothing
       \/ Ends({"deleted"}) /\ kept' /\ UNCHANGED stored
       \/ Ends({"refused"}) /\ stored' # Nothing /\ UNCHANGED stored
       \/ Ends({"assumed"}) /\ UNCHANGED stored

\* The process dies: what was stored stays.
Crash == Ends({"none"}) /\ UNCHANGED stored

Next ==
    \/ UNCHANGED overlapped /\ (Begin("save") \/ Begin("delete") \/ Save \/ Delete \/ Crash)
    \/ overlapped'

Spec == Init /\ [][Next]_registerVars

=============================================================================
