----------------------------- MODULE BuiltinChecks -----------------------------
(***************************************************************************)
(* The native checks of every platform, from the item of the config that   *)
(* asks for one to the row that the check-in carries.  WindowsScreenLock   *)
(* has a state machine of its own, which this module extends; the others   *)
(* are functions of the host and of the sources that gave no answer.       *)
(***************************************************************************)
EXTENDS WindowsScreenLock

CONSTANTS
    Items,       \* items of the config
    Storages,    \* Linux hosts, by what each check reads
    Desktops,
    Managers,
    Volumes,     \* Windows hosts
    Policies,
    Minute, KdeTimeout, XfceDelay, LightLockerLag, Unit, Forever

VARIABLES
    os,    \* the platform the agent is built for
    item   \* the item of this cycle

checkVars == <<os, item, vars>>

Config  == INSTANCE ConfigItems
Disk    == INSTANCE LinuxDiskEncryption
Desktop == INSTANCE LinuxScreenLock
Manager == INSTANCE LinuxAutoUpdate
Windows == INSTANCE WindowsPosture

ASSUME BuiltinAssumption ==
    /\ {LightLockerLag, Forever} \subseteq Nat
    /\ {Minute, KdeTimeout, XfceDelay, Unit} \subseteq Nat \ {0}
    /\ \A i \in Items    : Config!IsItem(i)
    /\ \A s \in Storages : Disk!IsStorage(s)
    /\ \A s \in Desktops : Desktop!IsSession(s)
    /\ \A m \in Managers : Manager!IsManager(m)
    /\ \A v \in Volumes  : Windows!IsVolume(v)

\* The native checks of this platform, and what resolves the item.
Checks ==
    CASE os = "linux"   -> {"disk_encryption", "screenlock", "auto_update"}
      [] os = "windows" -> {"disk_encryption", "screenlock", "password_policy"}
      [] os = "macos"   -> {}

Resolved == Config!ParseConfigItem(item, os)
Check    == UNION {IF r.kind = "builtin" THEN {r.check} \cap Checks ELSE {} : r \in Resolved}

Runs(platform, name) == os = platform /\ Check = {name}

NoRows  == [rows |-> "none"]
Sidecar == [rows |-> "osquery"]
Skipped == [rows |-> "skipped"]

SourcesRead ==
    CASE Runs("linux", "disk_encryption")   -> {"lsblk", "mounts"}
      [] Runs("linux", "screenlock")        ->
            {"lock", "idle", "delay", "activation", "blank", "xfconf", "user", "system"}
      [] Runs("linux", "auto_update")       -> {"apt-config", "systemctl"}
      [] Runs("windows", "disk_encryption") -> {"property"}
      [] Runs("windows", "password_policy") -> {"level0", "level3"}
      [] Runs("windows", "screenlock")      -> Reads
      [] OTHER                              -> {}

\* A check that the platform does not have is answered with no rows.
RunBuiltinCheck ==
    CASE Runs("linux", "disk_encryption")   -> Disk!Summary(host, failed)
      [] Runs("linux", "screenlock")        -> Desktop!ScreenlockRow(host, failed)
      [] Runs("linux", "auto_update")       -> [enabled |-> Manager!AutoUpdate(host, failed)]
      [] Runs("windows", "disk_encryption") -> [root |-> Windows!DiskEncryption(host, failed)]
      [] Runs("windows", "password_policy") -> Windows!PasswordPolicy(host, failed)
      [] Runs("windows", "screenlock")      -> WindowsScreenlockRow
      [] OTHER                              -> NoRows

-----------------------------------------------------------------------------

HostsRead ==
    CASE Runs("linux", "disk_encryption")   -> Storages
      [] Runs("linux", "screenlock")        -> Desktops
      [] Runs("linux", "auto_update")       -> Managers
      [] Runs("windows", "disk_encryption") -> Volumes
      [] Runs("windows", "password_policy") -> Policies
      [] OTHER                              -> {"host"}

\* Windows' screen lock reads more than the others.
BuiltinInit ==
    /\ os \in {"linux", "macos", "windows"} /\ item \in Items
    /\ \/ Runs("windows", "screenlock") /\ Init
       \/ /\ ~Runs("windows", "screenlock")
          /\ host \in HostsRead /\ limit = {} /\ keys = <<>> /\ saver = <<>>
          /\ failed = {} /\ row = NoRow

\* One item of a cycle is skipped, or resolved by the sidecar or by this process,
\* whose sources may give nothing.
CollectItem ==
    /\ row = NoRow
    /\ failed' \in UNION {kSubset(n, SourcesRead) : n \in 0..MaxFailed}
    /\ UNCHANGED <<os, item, host, limit, keys, saver>>
    /\ row' = IF Resolved = {} THEN Skipped
              ELSE IF \E r \in Resolved : r.kind = "osquery" THEN Sidecar
              ELSE RunBuiltinCheck'

NextCycle == CycleEnds /\ UNCHANGED <<os, item>>

BuiltinNext == CollectItem \/ NextCycle

BuiltinSpec == BuiltinInit /\ [][BuiltinNext]_checkVars

-----------------------------------------------------------------------------

Verdicts == {"yes", "no", "unknown"}

Answered == row \notin {NoRow, NoRows, Sidecar, Skipped}

\* Every row is one that a check of this platform can give.
ChecksTypeOK ==
    /\ Runs("windows", "screenlock") => TypeOK
    /\ Answered => \E name \in Checks : Runs(os, name)
    /\ (Answered /\ Runs("linux", "disk_encryption")) =>
          /\ row.root \in Verdicts /\ row.home \in Verdicts
          /\ row.mechanisms \subseteq {"luks", "dm-crypt", "ecryptfs"}
    /\ (Answered /\ Runs("linux", "screenlock")) =>
          /\ row.enabled \in Verdicts /\ row.delay \subseteq Nat
          /\ row.enabled = "yes" => row.delay # {} /\ 0 \notin row.delay
    /\ (Answered /\ Runs("linux", "auto_update")) => row.enabled \in Verdicts
    /\ (Answered /\ Runs("windows", "disk_encryption")) => row.root \in Verdicts
    /\ (Answered /\ Runs("windows", "password_policy")) => row.status \in {"ok", "unknown"}

Given(field) == row # NoRow /\ field \in DOMAIN row
Says(field, verdict) == Given(field) /\ row[field] = verdict

\* Windows' screen lock: a "yes" is of every power source, within its delay.
WindowsYesIsBounded == Runs("windows", "screenlock") => YesIsBounded

\* Windows' screen lock: a "no" is of a host that really stays unlocked.
WindowsNoIsSeen == Runs("windows", "screenlock") => NoIsSeen

\* What the row says of a mount is said of the one it is about.  The home's is
\* known only when the mount table was read.
MountSaid(verdict) ==
    (IF Says("root", verdict) THEN {Disk!Root} ELSE {})
    \cup (IF Says("home", verdict) /\ "mounts" \notin failed THEN {Disk!HomeMount(host)} ELSE {})

\* The files of the session's settings were read.
FilesRead == failed \cap {"user", "system"} = {}

\* A "yes" of any other check is so.  Storage that is said to be encrypted is,
\* and by a mechanism that the row names, unless it is spread over encrypted and
\* plain disks; a session that is said to lock does so within the delay, unless
\* xfconf, or a file of the settings, gave nothing, which is taken for the
\* default, or the lock delay did not, which then counts as none; updates that are said to be
\* installed are, when systemctl answers; and a Windows drive that is said to be
\* encrypted has no key in the clear.
YesIsTrue ==
    /\ Runs("linux", "disk_encryption") =>
          \A path \in MountSaid("yes") :
             /\ Disk!Encrypted(host, path) \/ Disk!Mixed(host, path)
             /\ row.mechanisms # {}
    /\ (Runs("linux", "screenlock") /\ Says("enabled", "yes")
            /\ FilesRead /\ "xfconf" \notin failed) =>
          /\ Desktop!LockTimes(host) # {}
          /\ "delay" \notin failed => \E t \in Desktop!LockTimes(host), d \in row.delay : t <= d
    /\ (Runs("linux", "auto_update") /\ Says("enabled", "yes") /\ "systemctl" \notin failed) =>
          Manager!Installs(host)
    /\ (Runs("windows", "disk_encryption") /\ Says("root", "yes")) => Windows!Protected(host)

\* A lock listener of hypridle that never fires hides those after it.
HiddenListener ==
    /\ host.runs = "hyprland"
    /\ LET l == host.settings.listeners IN
       \E n, k \in DOMAIN l : n < k /\ l[n].locks /\ l[n].timeout = {0} /\ l[k].locks

\* A "no" of any other check is so, whatever gave no answer: nothing below the
\* file system encrypts storage that is said to be plain; no session that is
\* said to stay open locks, but for a listener of hypridle behind one that never
\* fires, and for files that were not read; no updates are installed, when systemctl answers; a Windows drive is
\* readable without a key; and a password policy that is said not to lock
\* accounts, or not to end passwords, does not.
NoIsTrue ==
    /\ Runs("linux", "disk_encryption") =>
          \A path \in MountSaid("no") : ~Disk!Encrypted(host, path)
    /\ (Runs("linux", "screenlock") /\ Says("enabled", "no") /\ FilesRead /\ ~HiddenListener) =>
          Desktop!LockTimes(host) = {}
    /\ (Runs("linux", "auto_update") /\ Says("enabled", "no") /\ "systemctl" \notin failed) =>
          ~Manager!Installs(host)
    /\ (Runs("windows", "disk_encryption") /\ Says("root", "no")) => ~Windows!Protected(host)
    /\ (Runs("windows", "password_policy") /\ Says("status", "ok")) =>
          /\ row.lockout = 0 => host.lockout = 0
          /\ row.age = {} <=> host.age = Forever

\* No query that the sidecar is given changes anything.
OnlyReads == row = Sidecar => \A q \in item.sql : ~Config!Writes(q)

\* Every check degrades to "unknown", never a false "no": a home directory whose
\* files are encrypted is not said to be plain.
NeverAFalseNo ==
    (Runs("linux", "disk_encryption") /\ Says("home", "no")) =>
        ~host.fscrypt /\ ~Disk!Encrypted(host, Disk!HomeMount(host))

=============================================================================
