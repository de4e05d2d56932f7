--------------------------- MODULE MCBuiltinChecks ---------------------------
(* A small instance of BuiltinChecks for TLC. *)
EXTENDS BuiltinChecks

Query(verb, words) == [verb |-> verb, words |-> words]

Item(platform, type, check, sql) ==
    [platform |-> platform, type |-> type, check |-> check, sql |-> sql]
Native(platform, check) == Item(platform, "builtin", {check}, {})

MCItems ==
    {Native(<<"posix", "windows">>, "disk_encryption"), Native(<<"linux", "windows">>, "screenlock"),
     Native(<<"ubuntu">>, "auto_update"), Native(<<"windows">>, "password_policy"),
     Native(<<>>, "auto_update"), Item(<<"any">>, "builtin", {}, {}),
     Item(<<"darwin">>, "osquery", {}, {})}
    \cup {Item(<<"all">>, "osquery", {}, {sql}) :
            sql \in {<<Query("select", {})>>, <<Query("with", {})>>, <<Query("with", {"delete"})>>,
                     <<Query("insert", {})>>, <<Query("select", {}), Query("attach", {})>>}}

-----------------------------------------------------------------------------
(* Linux storage.                                                          *)

Node(name, parent, kind, fstype, mounts) ==
    [name |-> name, parent |-> parent, kind |-> kind, fstype |-> fstype, mounts |-> mounts]

Slash == <<>>   Home == <<"home">>   Own == <<"home", "me">>

PlainDisk(mounts)  == <<Node("a", 0, "disk", "other", {}), Node("a1", 1, "part", "other", mounts)>>
LuksDisk(mounts)   == <<Node("a", 0, "disk", "other", {}), Node("a1", 1, "part", "crypto_LUKS", {}),
                        Node("c", 2, "crypt", "other", {}), Node("v", 3, "lvm", "other", mounts)>>
SplitDisk(plain, crypt) ==
    <<Node("a", 0, "disk", "other", {}), Node("a1", 1, "part", "other", plain),
      Node("a2", 1, "part", "other", {}), Node("c", 3, "crypt", "other", crypt)>>
MixedDisk == <<Node("a", 0, "disk", "other", {}), Node("v", 1, "lvm", "other", {Slash}),
               Node("b", 0, "disk", "crypto_LUKS", {}), Node("c", 3, "crypt", "other", {}),
               Node("v", 4, "lvm", "other", {Slash})>>
MixedOther == <<Node("b", 0, "disk", "crypto_LUKS", {}), Node("c", 1, "crypt", "other", {}),
                Node("v", 2, "lvm", "other", {Slash}),
                Node("a", 0, "disk", "other", {}), Node("v", 4, "lvm", "other", {Slash})>>

Other(path, fstype) == [path |-> path, fstype |-> fstype]

Trees == {PlainDisk({Slash}), LuksDisk({Slash}), LuksDisk({Slash, Home}), PlainDisk({Slash, Home}),
          SplitDisk({Slash}, {Home}), SplitDisk({Home}, {Slash}), MixedDisk, MixedOther}

\* A home directory of the root's mount, of its own, of a file server's or of a
\* data set; encrypted by itself or not; and a root that lsblk does not show.
MCStorages ==
    {s \in [tree : Trees, others : {{}, {Other(Own, "ecryptfs")}, {Other(Own, "nfs")}, {Other(Own, "zfs")}},
            home : {{}, {Own}}, fscrypt : BOOLEAN] : s.fscrypt => s.others = {} /\ s.home # {}}
    \cup {[tree |-> PlainDisk({}), others |-> {Other(Slash, "zfs")}, home |-> {Own}, fscrypt |-> FALSE]}

-----------------------------------------------------------------------------
(* Linux desktops.                                                         *)

Session(runs, xdg, settings) == [runs |-> runs, xdg |-> xdg, settings |-> settings]

GSettings == [lock : BOOLEAN, idle : 0..2, delay : 0..1, activation : BOOLEAN]
KdeFile   == [autolock : {{}, {TRUE}, {FALSE}}, timeout : {{}, {0}, {2}}]
Listener(locks, timeout) == [locks |-> locks, timeout |-> timeout]
Listeners == {<<>>, <<Listener(TRUE, {2})>>, <<Listener(FALSE, {1}), Listener(TRUE, {2})>>,
              <<Listener(TRUE, {}), Listener(TRUE, {1})>>, <<Listener(TRUE, {0}), Listener(TRUE, {2})>>,
              <<Listener(TRUE, {2}), Listener(TRUE, {1})>>, <<Listener(FALSE, {2})>>}
Option(S) == {{}} \cup {{v} : v \in S}
Switch    == Option(BOOLEAN)
Saver4    == {s \in [saver : Switch, activation : Switch, lock : Switch, lockOnSaver : Switch,
                     idle : Option(0..1), delay : Option({1}), locker : {"xfce4-screensaver"}] :
                 \E k \in Desktop!Switches : \A m \in Desktop!Switches \ {k} : s[m] \in {{}, {TRUE}}}
Entries   == Option([hidden : BOOLEAN, after : Option({1})])
Lockers   == [locker : {"light-locker"}, user : Entries, system : Entries, blank : 0..1]

MCDesktops ==
    {Session("gnome", <<"ubuntu", "gnome">>, s) : s \in GSettings}
    \cup {Session("cinnamon", <<"x-cinnamon">>, s) : s \in GSettings}
    \cup {Session("mate", <<"mate">>, s) : s \in GSettings}
    \cup {Session("kde", <<"kde">>, s) : s \in [user : KdeFile, system : KdeFile]}
    \cup {Session("hyprland", <<"hyprland">>, [listeners |-> l]) : l \in Listeners}
    \cup {Session("xfce4-screensaver", <<"xubuntu", "xfce">>, s) : s \in Saver4}
    \cup {Session("light-locker", <<"xfce">>, s) : s \in Lockers}
    \cup {Session("none", <<"xfce">>, [locker |-> "none"]), Session("sway", <<"sway">>, {}),
          Session("none", <<>>, {})}

-----------------------------------------------------------------------------
(* The other checks.                                                       *)

TimerStates == {"enabled", "disabled", "masked", "static"}
DnfTimers   == {"dnf5-automatic", "dnf-automatic", "dnf-automatic-install"}

MCManagers ==
    [kind : {"apt"}, systemctl : BOOLEAN, enable : Option({"0", "1"}), installed : BOOLEAN,
     unattended : Option({"", "0", "1"}), timers : [{"apt-daily-upgrade"} -> TimerStates]]
    \cup [kind : {"dnf"}, systemctl : BOOLEAN, timers : [DnfTimers -> {"enabled", "disabled"}],
          files : [1..2 -> Switch]]
    \cup {[kind |-> "none", systemctl |-> TRUE]}

Volume(value, encrypted, clear) == [value |-> value, encrypted |-> encrypted, keyInTheClear |-> clear]

\* A drive under way either way counts as one that is not encrypted yet.
MCVolumes ==
    {Volume({1}, TRUE, FALSE), Volume({6}, TRUE, FALSE), Volume({5}, TRUE, TRUE), Volume({8}, TRUE, TRUE),
     Volume({9}, TRUE, FALSE), Volume({}, TRUE, FALSE), Volume({}, FALSE, FALSE)}
    \cup {Volume({n}, FALSE, FALSE) : n \in {2, 3, 4, 7, 0}}

MCPolicies == [length : {0, 8}, age : {0, 1, 3, 7}, lockout : {0, 5}, duration : {0, 1, 3, 7}]

-----------------------------------------------------------------------------
(* Windows' screen lock.                                                   *)

MCSeconds == 0..2

Scheme(standby, hibernate, displayOff) ==
    [standby |-> standby, hibernate |-> hibernate, displayOff |-> displayOff]

\* Each trigger never, soonest and latest of the three somewhere.
MCSchemes == {Scheme(0, 0, 0), Scheme(1, 2, 0), Scheme(2, 0, 1), Scheme(0, 1, 2)}

Saver(active, secure, timeout, exe) ==
    [active |-> active, secure |-> secure, timeout |-> timeout, exe |-> exe]

Unset   == Saver({}, {}, {}, {})
Locking == Saver({{TRUE}}, {{TRUE}}, {{1}}, {{TRUE}})

\* What the person set: nothing, a saver that locks, one without a program, one
\* that never starts, and one whose timeout does not parse.
Preferences ==
    {Unset, Locking, Saver({{TRUE}}, {{TRUE}}, {{1}}, {}),
     Saver({{TRUE}}, {{TRUE}}, {{0}}, {{TRUE}}), Saver({{TRUE}}, {{TRUE}}, {{}}, {{TRUE}})}

\* Policies over a saver that locks: of two values, of one, and of no program.
Overrides ==
    {Saver({}, {{TRUE}}, {{2}}, {}), Saver({}, {{FALSE}}, {}, {}), Saver({}, {}, {}, {{}})}

MCRegistries ==
    {[policy |-> Unset, user |-> u] : u \in Preferences}
    \cup {[policy |-> p, user |-> Locking] : p \in Overrides}

MCLimits == {{0}, {2}}

=============================================================================
