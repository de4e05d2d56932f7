---------------------------- MODULE WindowsPosture -----------------------------
(***************************************************************************)
(* The native checks on Windows that read one thing: the BitLocker state   *)
(* of the system drive, as Explorer's shell property gives it, and the     *)
(* password and lockout policy of local accounts, in two calls.            *)
(***************************************************************************)
EXTENDS Integers

CONSTANTS
    Unit,     \* the seconds of the unit that a policy is reported in
    Forever   \* TIMEQ_FOREVER

Protections ==
    [n \in 1..8 |-> <<"on", "off", "encrypting", "decrypting", "suspended", "locked",
                      "pendingRestart", "waitingForActivation">>[n]]

\* Text that is no number, and no text, are {}.
ParseProtection(value) ==
    {IF n \in DOMAIN Protections THEN Protections[n] ELSE "other" : n \in value}

DiskEncryptionRow(status) ==
    CASE status \in {{"on"}, {"locked"}} -> "yes"
      [] status \in {{}, {"other"}}      -> "unknown"
      [] OTHER                           -> "no"

\* `blocked` stands for every way in which PowerShell gives no property.
DiskEncryption(volume, failed) ==
    DiskEncryptionRow(ParseProtection(IF "property" \in failed THEN {} ELSE volume.value))

\* Whether what is on the drive cannot be read without a key.
Protected(volume) == volume.encrypted /\ ~volume.keyInTheClear

\* A system drive and the property that Explorer's shell has of it, as an option.
\* A drive is "on" or "locked" exactly when it needs a key: the property is taken
\* at its word, so that what is said of a drive tests the table from its numbers
\* to a verdict and nothing about BitLocker.  Of one with another number, or
\* none, nothing is known.
IsVolume(volume) ==
    /\ {volume.encrypted, volume.keyInTheClear} \subseteq BOOLEAN
    /\ volume.value \subseteq Nat /\ \A a, b \in volume.value : a = b
    /\ \A n \in volume.value \cap (1..8) : n \in {1, 6} <=> Protected(volume)

-----------------------------------------------------------------------------

\* Whole units, and null for what never ends.
PolicyUnits(seconds) == IF seconds = Forever THEN {} ELSE {seconds \div Unit}

\* Either both levels are read or nothing is.
ReadPolicy(policy, failed) == IF failed \cap {"level0", "level3"} # {} THEN {} ELSE {policy}

PolicyRow(read) ==
    IF read = {} THEN [status |-> "unknown"]
    ELSE LET p == CHOOSE q \in read : TRUE
         IN  [status   |-> "ok",
              length   |-> p.length,
              age      |-> PolicyUnits(p.age),
              lockout  |-> p.lockout,
              duration |-> PolicyUnits(p.duration)]

PasswordPolicy(policy, failed) == PolicyRow(ReadPolicy(policy, failed))

=============================================================================
