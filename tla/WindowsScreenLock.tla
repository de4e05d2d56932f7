--------------------------- MODULE WindowsScreenLock ---------------------------
(***************************************************************************)
(* The native screen-lock check on Windows: two mechanisms that may lock   *)
(* the host, each judged from settings some of which cannot be read, and   *)
(* the one row that the check-in carries.  BuiltinChecks takes the steps.  *)
(*                                                                         *)
(* A Rust Option is a set with at most one element.  A registry value is   *)
(* {} where it is not set and the set of its parsed text where it is, so   *)
(* {{}} is text that does not parse.  Reported sources and details are     *)
(* left out.                                                               *)
(***************************************************************************)
EXTENDS Integers, FiniteSetsExt

CONSTANTS
    Seconds,     \* the idle times that settings may have; 0 is "never"
    Schemes,     \* the idle times of one power source that a host may have
    Registries,  \* what the screen saver keys may hold
    Limits,      \* the machine inactivity limits, as options
    MaxFailed    \* how many reads of one check may fail

Sources  == {"ac", "dc"}
Triggers == {"standby", "hibernate", "displayOff"}
States   == {"standby", "hibernate", "modern"}
Keys     == {"policy", "user"}
Values   == {"active", "secure", "timeout", "exe"}

ASSUME ScreenLockAssumption ==
    /\ Seconds \subseteq Nat
    /\ Schemes \subseteq [Triggers -> Seconds]
    /\ Limits \subseteq {{}} \cup {{s} : s \in Seconds}
    /\ MaxFailed \in Nat
    /\ \A r \in Registries, k \in Keys :
          /\ DOMAIN r[k] = Values
          /\ UNION r[k].active \subseteq BOOLEAN /\ UNION r[k].secure \subseteq BOOLEAN
          /\ UNION r[k].timeout \subseteq Seconds /\ UNION r[k].exe \subseteq {TRUE}
          /\ \A v \in Values : \A a, b \in r[k][v] : a = b /\ \A c, d \in a : c = d

VARIABLES
    host,    \* the power settings and what the hardware offers
    limit,   \* InactivityTimeoutSecs, as an option
    keys,    \* the screen saver values under the policy key and the user's
    saver,   \* ghost: what Windows makes of them
    failed,  \* the power reads that failed in this check
    row      \* the row, once the check has run

vars == <<host, limit, keys, saver, failed, row>>

NoRow == [enabled |-> "none", delay |-> {}]

Hosts == [states : [States -> BOOLEAN], battery : BOOLEAN,
          lock : [Sources -> BOOLEAN], idle : [Sources -> Schemes]]

\* Each is one call; without the scheme none of the others is made.
Reads == {"scheme", "states", "battery"} \X {"host"}
         \cup (Triggers \cup {"lock"}) \X Sources

TypeOK ==
    /\ host \in Hosts /\ limit \in Limits /\ keys \in Registries
    /\ saver \in [active : BOOLEAN, secure : BOOLEAN, timeout : Seconds]
    /\ failed \subseteq Reads
    /\ \/ row.enabled = "yes" /\ row.delay \in {{s} : s \in Seconds \ {0}}
       \/ row.enabled = "no" /\ row.delay \in {{}} \cup {{s} : s \in Seconds}
       \/ row.enabled \in {"unknown", "none"} /\ row.delay = {}

-----------------------------------------------------------------------------
(* The screen saver.                                                       *)

\* Policy is applied value by value: the first key that sets one decides it.
FirstSet(value) ==
    UNION (IF keys.policy[value] # {} THEN keys.policy[value] ELSE keys.user[value])

NothingSet == \A k \in Keys, v \in Values : keys[k][v] = {}

\* Whether the screen saver locks, and after how long, both options.
ScreensaverVerdict ==
    LET active  == FirstSet("active")
        secure  == FirstSet("secure")
        timeout == FirstSet("timeout")
        refuses == FALSE \in active \cup secure \/ timeout = {0}
        partial == {} \in {active, secure, timeout}
    IN  [locks |-> IF NothingSet \/ refuses THEN {FALSE}
                   ELSE IF partial THEN {} ELSE {FirstSet("exe") # {}},
         delay |-> timeout]

-----------------------------------------------------------------------------
(* The power path.                                                         *)

Ok(what, of) == {<<what, of>>, <<"scheme", "host">>} \cap failed = {}
Read(what, of, value) == IF Ok(what, of) THEN {value} ELSE {}

ReadPower ==
    [states  |-> [s \in States |-> Read("states", "host", host.states[s])],
     battery |-> Read("battery", "host", host.battery),
     lock    |-> [s \in Sources |-> Read("lock", s, host.lock[s])],
     idle    |-> [s \in Sources |-> [t \in Triggers |-> Read(t, s, host.idle[s][t])]]]

\* The triggers whose state the firmware offers.  Under Modern Standby sleep
\* and a dark screen both enter low-power idle.
Candidates(power) ==
    LET offered == {s \in States : power.states[s] = {TRUE}} IN
    (IF offered \cap {"standby", "modern"} # {} THEN {"standby"} ELSE {})
    \cup (offered \cap {"hibernate"})
    \cup (IF "modern" \in offered THEN {"displayOff"} ELSE {})

Judged(power) == IF TRUE \in power.battery THEN Sources ELSE {"ac"}

Unreadable(power) ==
    \/ \E s \in States : power.states[s] = {}
    \/ /\ Candidates(power) # {}
       /\ \/ power.battery = {}
          \/ \E s \in Judged(power) :
                \/ power.lock[s] = {}
                \/ \E t \in Candidates(power) : power.idle[s][t] = {}

\* The timers of one source that ever fire.
Timers(power, s) == (UNION {power.idle[s][t] : t \in Candidates(power)}) \ {0}

StaysOpen(power, s) == power.lock[s] = {FALSE} \/ Timers(power, s) = {}

\* Bug: the better of two power sources is reported.
PowerVerdictBest(power) ==
    IF Unreadable(power) THEN [locks |-> {}, delay |-> {}]
    ELSE IF \E s \in Judged(power) : StaysOpen(power, s)
         THEN [locks |-> {FALSE}, delay |-> {}]
         ELSE [locks |-> {TRUE},
               delay |-> {Min({Min(Timers(power, s)) : s \in Judged(power)})}]

\* The soonest timer of the worst source; a source that stays open, and so a
\* host that has no low-power state, does not lock.
PowerVerdict(power) ==
    IF Unreadable(power) THEN [locks |-> {}, delay |-> {}]
    ELSE IF \E s \in Judged(power) : StaysOpen(power, s)
         THEN [locks |-> {FALSE}, delay |-> {}]
         ELSE [locks |-> {TRUE},
               delay |-> {Max({Min(Timers(power, s)) : s \in Judged(power)})}]

-----------------------------------------------------------------------------
(* The row.                                                                *)

Row(enabled, delay) == [enabled |-> enabled, delay |-> delay]

\* Bug: a mechanism that says no outranks one that could not be read.
RowOfTheReadable(screensaver, power) ==
    LET locking == {v \in {screensaver, power} : v.locks = {TRUE}} IN
    IF locking # {} THEN Row("yes", {Min(UNION {v.delay : v \in locking})})
    ELSE IF FALSE \in screensaver.locks \cup power.locks
         THEN Row("no", screensaver.delay)
         ELSE Row("unknown", {})

\* The soonest lock is reported; an unread mechanism outranks a "no"; and the
\* first "no", with its delay, is the screen saver's.
RowOf(screensaver, power) ==
    LET locking == {v \in {screensaver, power} : v.locks = {TRUE}} IN
    IF locking # {} THEN Row("yes", {Min(UNION {v.delay : v \in locking})})
    ELSE IF {} \in {screensaver.locks, power.locks}
         THEN Row("unknown", {})
         ELSE Row("no", screensaver.delay)

\* An inactivity limit locks whatever the rest says; 0 and text are no limit.
WindowsScreenlockRow ==
    IF limit \ {0} # {} THEN Row("yes", limit)
    ELSE RowOf(ScreensaverVerdict, PowerVerdict(ReadPower))

-----------------------------------------------------------------------------

\* What Windows makes of a screen saver value that is unset or does not parse is
\* not known; with no value set at all it runs no saver.
Init ==
    /\ host \in Hosts /\ limit \in Limits /\ keys \in Registries
    /\ \E active \in BOOLEAN, secure \in BOOLEAN, timeout \in Seconds :
          /\ FirstSet("active") \subseteq {active}
          /\ FirstSet("secure") \subseteq {secure}
          /\ FirstSet("timeout") \subseteq {timeout}
          /\ saver = [active |-> active, secure |-> secure, timeout |-> timeout]
    /\ failed = {} /\ row = NoRow

\* The next cycle reads everything again.
CycleEnds ==
    /\ row # NoRow
    /\ row' = NoRow /\ failed' = {}
    /\ UNCHANGED <<host, limit, keys, saver>>

-----------------------------------------------------------------------------
(* What the host does, from its settings as they are.                      *)

SaverLocks ==
    /\ ~NothingSet /\ FirstSet("exe") # {}
    /\ saver.active /\ saver.secure /\ saver.timeout > 0

\* Whether leaving the host alone in this way brings it to a low-power state.
Enters(t) ==
    CASE t = "standby"    -> host.states.standby \/ host.states.modern
      [] t = "hibernate"  -> host.states.hibernate
      [] t = "displayOff" -> host.states.modern

\* The idle times after which a host on power source s is locked.
LockTimes(s) ==
    (limit \cup (IF SaverLocks THEN {saver.timeout} ELSE {})
           \cup {host.idle[s][t] : t \in {u \in Triggers : host.lock[s] /\ Enters(u)}}) \ {0}

Powered == IF host.battery THEN Sources ELSE {"ac"}

\* A row that says "yes" says so of every power source, and no source leaves the
\* host unlocked for longer than the delay that the row gives, whatever the
\* values that could not be read are.
YesIsBounded ==
    row.enabled = "yes" =>
        \A s \in Powered : \E t \in LockTimes(s), d \in row.delay : t <= d

\* A row that says "no" is of a host that really stays unlocked on some power
\* source: a lock is never missed for a value that could not be read.
NoIsSeen == row.enabled = "no" => \E s \in Powered : LockTimes(s) = {}

=============================================================================
