---------------------------- MODULE LinuxAutoUpdate ----------------------------
(***************************************************************************)
(* The native check on Linux for whether the package manager installs      *)
(* updates by itself: APT through apt-config and a timer, DNF through its  *)
(* timers and its configuration files.  An Option is a set with at most    *)
(* one element.                                                            *)
(***************************************************************************)
EXTENDS Naturals, Sequences

\* What a host has: the switches as options, and what systemctl says of a timer.
IsManager(manager) ==
    /\ manager.kind = "apt" =>
          /\ {manager.systemctl, manager.installed} \subseteq BOOLEAN
          /\ \A a, b \in manager.enable : a = b
          /\ \A a, b \in manager.unattended : a = b
          /\ manager.timers["apt-daily-upgrade"] \in {"enabled", "disabled", "masked", "static"}
    /\ manager.kind = "dnf" => manager.systemctl \in BOOLEAN

\* `systemctl is-enabled`, {} when it is not installed or does not answer.
IsEnabled(manager, failed, timer) ==
    IF manager.systemctl /\ "systemctl" \notin failed THEN {manager.timers[timer]} ELSE {}

\* The switches are as apt-config merges them, {} where nobody set one.
AutoUpdateApt(enable, unattended, installed, timer) ==
    IF \/ ~installed \/ enable = {"0"}
       \/ unattended \in {{}, {""}, {"0"}} \/ timer \in {{"disabled"}, {"masked"}}
    THEN "no" ELSE "yes"

AutoUpdateDnf(timer, installTimer, apply) ==
    IF installTimer \/ (timer /\ apply = {TRUE}) THEN "yes" ELSE "no"

\* The first file that says either.
Apply(files) ==
    LET saying == {n \in DOMAIN files : files[n] # {}} IN
    IF saying = {} THEN {} ELSE files[CHOOSE n \in saying : \A k \in saying : n <= k]

AutoUpdate(manager, failed) ==
    LET enabled(timer) == IsEnabled(manager, failed, timer) = {"enabled"} IN
    CASE manager.kind = "apt" ->
            IF "apt-config" \in failed THEN "unknown"
            ELSE AutoUpdateApt(manager.enable, manager.unattended, manager.installed,
                               IsEnabled(manager, failed, "apt-daily-upgrade"))
      [] manager.kind = "dnf" ->
            IF ~manager.systemctl THEN "unknown"
            ELSE AutoUpdateDnf(enabled("dnf5-automatic") \/ enabled("dnf-automatic"),
                               enabled("dnf-automatic-install"), Apply(manager.files))
      [] OTHER -> "unknown"

-----------------------------------------------------------------------------
(* Whether updates really are installed: the timer that does it fires, or  *)
(* cron where there is no systemd, and what it runs may install.           *)

Fires(manager, timer) == manager.timers[timer] = "enabled"

Installs(manager) ==
    CASE manager.kind = "apt" ->
            /\ manager.installed /\ "0" \notin manager.enable
            /\ manager.unattended \ {"", "0"} # {}
            /\ manager.systemctl => manager.timers["apt-daily-upgrade"] \in {"enabled", "static"}
      [] manager.kind = "dnf" ->
            \/ Fires(manager, "dnf-automatic-install")
            \/ /\ \E t \in {"dnf5-automatic", "dnf-automatic"} : Fires(manager, t)
               /\ Apply(manager.files) = {TRUE}
      [] OTHER -> FALSE

=============================================================================
