---------------------------- MODULE LinuxScreenLock ----------------------------
(***************************************************************************)
(* The native screen-lock check on Linux: the desktop is told from         *)
(* XDG_CURRENT_DESKTOP, its settings are read through its own programs and *)
(* files, and one row says whether the session locks and after how long.   *)
(*                                                                         *)
(* A Rust Option is a set with at most one element.  Sources, details and  *)
(* how a value is written are left out.  A program or a file may give no   *)
(* answer.  A value that does not parse is not set, here and for the locker *)
(* that reads the same text.                                               *)
(***************************************************************************)
EXTENDS Integers, Sequences, FiniteSets

CONSTANTS
    Minute,        \* the seconds of a minute
    KdeTimeout,    \* Plasma's default, in seconds
    XfceDelay,     \* xfce4-screensaver's default idle delay, in minutes
    LightLockerLag \* light-locker's default, in seconds

OrElse(option, default) == IF option = {} THEN {default} ELSE option
Value(option) == CHOOSE v \in option : TRUE

Row(enabled, delay) == [enabled |-> enabled, delay |-> delay]

\* The first segment that names a desktop.
DesktopOf(segment) ==
    CASE segment \in {"gnome", "unity", "ubuntu"} -> {"gnome"}
      [] segment \in {"cinnamon", "x-cinnamon"}   -> {"cinnamon"}
      [] segment \in {"kde", "hyprland", "mate", "xfce"} -> {segment}
      [] OTHER -> {}

DetectDesktop(xdg) ==
    LET known == {n \in DOMAIN xdg : DesktopOf(xdg[n]) # {}} IN
    IF known = {} THEN "unknown"
    ELSE Value(DesktopOf(xdg[CHOOSE n \in known : \A k \in known : n <= k]))

Switches == {"saver", "activation", "lock", "lockOnSaver"}

OwnLockers == {"gnome", "cinnamon", "mate", "kde", "hyprland"}
Lockers    == {"xfce4-screensaver", "light-locker"}

IsOptionOf(option, S) == option \subseteq S /\ \A a, b \in option : a = b

\* What a session is: the locker that runs, what XDG_CURRENT_DESKTOP says of it
\* (each desktop names itself), and the settings that this locker has.
IsSession(session) ==
    LET s     == session.settings
        named == DetectDesktop(session.xdg)
    IN  /\ session.runs \in {"gnome", "cinnamon", "mate"} =>
              /\ named = session.runs
              /\ {s.lock, s.activation} \subseteq BOOLEAN /\ {s.idle, s.delay} \subseteq Nat
        /\ session.runs = "kde" =>
              /\ named = "kde"
              /\ \A file \in {s.user, s.system} :
                    IsOptionOf(file.autolock, BOOLEAN) /\ IsOptionOf(file.timeout, Nat)
        /\ session.runs = "hyprland" =>
              /\ named = "hyprland"
              /\ DOMAIN s.listeners \subseteq Nat
              /\ \A n \in DOMAIN s.listeners : IsOptionOf(s.listeners[n].timeout, Nat)
        /\ session.runs = "xfce4-screensaver" =>
              /\ named = "xfce" /\ s.locker = "xfce4-screensaver"
              /\ \A k \in Switches : IsOptionOf(s[k], BOOLEAN)
              /\ IsOptionOf(s.idle, Nat) /\ IsOptionOf(s.delay, Nat)
        /\ session.runs = "light-locker" =>
              /\ named = "xfce" /\ s.locker = "light-locker"
              /\ s.blank \in Nat
              /\ \A entry \in {s.user, s.system} :
                    /\ \A a, b \in entry : a = b
                    /\ \A e \in entry : e.hidden \in BOOLEAN /\ IsOptionOf(e.after, Nat)
        /\ session.runs \notin OwnLockers \cup Lockers =>
              \/ named = "unknown"
              \/ named = "xfce" /\ s.locker \notin Lockers

-----------------------------------------------------------------------------
(* GNOME, Cinnamon and MATE: gsettings, one key at a time.                 *)

\* A key that the program did not answer for is {}.
Get(settings, failed, key) == IF key \in failed THEN {} ELSE {settings[key]}

\* Bug: the time that the session is left open after it goes idle is left out.
RowOfGsettingsIdle(lock, idle, delay) ==
    IF lock = {FALSE} THEN Row("no", idle)
    ELSE IF lock = {} \/ idle = {} THEN Row("unknown", idle)
    ELSE IF idle = {0} THEN Row("no", {0}) ELSE Row("yes", idle)

\* The lock engages lock-delay after the session goes idle, and never if that
\* takes no time.  A lock-delay that is not known counts as none.
RowOfGsettings(lock, idle, delay) ==
    IF lock = {FALSE} THEN Row("no", idle)
    ELSE IF lock = {} \/ idle = {} THEN Row("unknown", idle)
    ELSE IF idle = {0} THEN Row("no", {0})
    ELSE Row("yes", {Value(idle) + Value(OrElse(delay, 0))})

\* MATE's are minutes, and its saver must also start by itself.
RowOfMate(activation, lock, idle, delay) ==
    LET seconds == {m * Minute : m \in idle} IN
    IF FALSE \in activation \cup lock THEN Row("no", seconds)
    ELSE IF {} \in {activation, lock, idle} THEN Row("unknown", seconds)
    ELSE IF idle = {0} THEN Row("no", {0})
    ELSE Row("yes", {(Value(idle) + Value(OrElse(delay, 0))) * Minute})

-----------------------------------------------------------------------------
(* KDE: two files, each with the keys that somebody set.                   *)

\* A file that cannot be read is taken for one that sets nothing.
KdeFiles(settings, failed) ==
    [file \in {"user", "system"} |->
        IF file \in failed THEN [autolock |-> {}, timeout |-> {}] ELSE settings[file]]

RowOfKde(autolock, timeout) ==
    LET after == OrElse(timeout, KdeTimeout) IN
    IF OrElse(autolock, TRUE) = {FALSE} \/ after = {0} THEN Row("no", after)
    ELSE Row("yes", after)

\* Bug: the administrator's file goes before the user's.
KdeKeyOfTheSystem(settings, key) ==
    IF settings.system[key] # {} THEN settings.system[key] ELSE settings.user[key]

\* The user's file goes before the administrator's, key by key.
KdeKey(settings, key) ==
    IF settings.user[key] # {} THEN settings.user[key] ELSE settings.system[key]

-----------------------------------------------------------------------------
(* Hyprland: the listeners of hypridle.conf, in their order; of a file that *)
(* cannot be read, none.                                                   *)

Listeners(settings, failed) == IF "user" \in failed THEN <<>> ELSE settings.listeners

\* The timeout of the first listener that runs a lock and has one.
FirstLock(listeners) ==
    LET locking == {n \in DOMAIN listeners : listeners[n].locks /\ listeners[n].timeout # {}}
    IN  IF locking = {} THEN {}
        ELSE listeners[CHOOSE n \in locking : \A k \in locking : n <= k].timeout

\* Bug: a listener that never fires counts as a lock.
RowOfAnyListener(timeout) == Row(IF timeout = {} THEN "unknown" ELSE "yes", timeout)

RowOfHyprland(timeout) ==
    CASE timeout = {}  -> Row("unknown", {})
      [] timeout = {0} -> Row("no", {0})
      [] OTHER         -> Row("yes", timeout)

-----------------------------------------------------------------------------
(* XFCE: one of two lockers.                                               *)

\* xfconf answers for a key only when it is set, and fails otherwise.
XfconfGet(settings, failed, key) == IF "xfconf" \in failed THEN {} ELSE settings[key]

RowOfXfceScreensaver(switches, idle, grace) ==
    LET after == Value(OrElse(idle, XfceDelay))
        total == (after + Value(OrElse(grace, 0))) * Minute
    IN  IF {FALSE} \in switches THEN Row("no", {total})
        ELSE IF after = 0 THEN Row("no", {0}) ELSE Row("yes", {total})

\* The user's autostart entry hides the system's; one that cannot be read is
\* taken for none.
AutostartEntry(settings, failed) ==
    LET read(file) == IF file \in failed THEN {} ELSE settings[file] IN
    IF read("user") # {} THEN read("user") ELSE read("system")

\* An entry that is hidden starts nothing.
LockAfter(entry) ==
    UNION {IF e.hidden THEN {} ELSE OrElse(e.after, LightLockerLag) : e \in entry}

RowOfLightLocker(after, blank) ==
    CASE after = {}  -> Row("no", {})
      [] after # {} /\ blank = {}  -> Row("unknown", {})
      [] after # {} /\ blank = {0} -> Row("no", {0})
      [] OTHER -> Row("yes", {Value(blank) + Value(after)})

XfceRow(settings, failed) ==
    CASE settings.locker = "xfce4-screensaver" ->
            RowOfXfceScreensaver({XfconfGet(settings, failed, k) : k \in Switches},
                                 XfconfGet(settings, failed, "idle"),
                                 XfconfGet(settings, failed, "delay"))
      [] settings.locker = "light-locker" ->
            RowOfLightLocker(LockAfter(AutostartEntry(settings, failed)),
                             Get(settings, failed, "blank"))
      [] OTHER -> Row("unknown", {})

-----------------------------------------------------------------------------

ScreenlockRow(session, failed) ==
    LET settings == session.settings
        desktop  == DetectDesktop(session.xdg)
        get(key) == Get(settings, failed, key)
    IN  CASE desktop \in {"gnome", "cinnamon"} ->
                RowOfGsettings(get("lock"), get("idle"), get("delay"))
          [] desktop = "mate" ->
                RowOfMate(get("activation"), get("lock"), get("idle"), get("delay"))
          [] desktop = "kde" ->
                LET files == KdeFiles(settings, failed) IN
                RowOfKde(KdeKey(files, "autolock"), KdeKey(files, "timeout"))
          [] desktop = "hyprland" -> RowOfHyprland(FirstLock(Listeners(settings, failed)))
          [] desktop = "xfce" -> XfceRow(settings, failed)
          [] OTHER -> Row("unknown", {})

-----------------------------------------------------------------------------
(* What the desktop that runs does with its settings, whoever reads them:  *)
(* the times, in seconds, after which a session left alone is locked.      *)

\* Whether a switch is on, and a number, when the default stands for what is
\* not set.
On(option)             == OrElse(option, TRUE) = {TRUE}
Set(option, default)   == Value(OrElse(option, default))
After(enabled, idle, more, unit) == IF enabled /\ idle > 0 THEN {(idle + more) * unit} ELSE {}

LockTimes(session) ==
    LET s == session.settings IN
    CASE session.runs \in {"gnome", "cinnamon"} -> After(s.lock, s.idle, s.delay, 1)
      [] session.runs = "mate" -> After(s.activation /\ s.lock, s.idle, s.delay, Minute)
      [] session.runs = "kde" ->
            LET timeout == IF s.user.timeout # {} THEN s.user.timeout ELSE s.system.timeout
            IN  After(\/ s.user.autolock = {TRUE}
                      \/ s.user.autolock = {} /\ On(s.system.autolock),
                      Set(timeout, KdeTimeout), 0, 1)
      [] session.runs = "hyprland" ->
            LET locking == {n \in DOMAIN s.listeners : s.listeners[n].locks}
            IN  (UNION {s.listeners[n].timeout : n \in locking}) \ {0}
      [] session.runs = "xfce4-screensaver" ->
            After(\A k \in Switches : On(s[k]), Set(s.idle, XfceDelay), Set(s.delay, 0), Minute)
      [] session.runs = "light-locker" ->
            LET entry == IF s.user # {} THEN s.user ELSE s.system IN
            UNION {After(~e.hidden, s.blank, Set(e.after, LightLockerLag), 1) : e \in entry}
      [] OTHER -> {}

=============================================================================
