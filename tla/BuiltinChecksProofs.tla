-------------------------- MODULE BuiltinChecksProofs --------------------------
(***************************************************************************)
(* That the native checks say what is so, for every host and whatever of   *)
(* their sources gives no answer.  The first four sections are about the   *)
(* functions from a host and what was read of it to a row, one check each; *)
(* the others are about the machine that runs them, cycle after cycle.     *)
(***************************************************************************)
EXTENDS BuiltinChecks, Sequences, WellFoundedInduction, TLAPS

\* A set of naturals that is not empty has a least.
LEMMA Least ==
    ASSUME NEW S \in SUBSET Nat, S # {}
    PROVE  \E m \in S : \A k \in S : m <= k
<1> DEFINE R == OpToRel(<, Nat)
<1>1. PICK m \in S : \A k \in S : <<k, m>> \notin R
    <2>1. IsWellFoundedOn(R, Nat)
        BY NatLessThanWellFounded
    <2> HIDE DEF R
    <2> QED
        BY <2>1, WFMin
<1>2. \A k \in S : <<k, m>> \in R <=> k < m
    BY DEF OpToRel
<1> HIDE DEF R
<1>3. \A k \in S : ~(k < m)
    BY <1>1, <1>2
<1> QED
    BY <1>3

-----------------------------------------------------------------------------
(* Updates, Windows volumes and policies, and queries.                     *)

\* A set of at most one element is empty or the singleton of what is in it.
LEMMA OneAtMost ==
    ASSUME NEW o, \A a, b \in o : a = b
    PROVE  /\ \A x \in o : o = {x}
           /\ o = {} \/ \E x \in o : o = {x}
OBVIOUS

\* APT: the verdict is one of the three, and when systemctl answers it says whether
\* updates are installed.
LEMMA AptSaid ==
    ASSUME NEW m, Manager!IsManager(m), m.kind = "apt", NEW f
    PROVE  /\ Manager!AutoUpdate(m, f) \in Verdicts
           /\ "systemctl" \notin f =>
                /\ Manager!AutoUpdate(m, f) = "yes" => Manager!Installs(m)
                /\ Manager!AutoUpdate(m, f) = "no" => ~Manager!Installs(m)
<1>1. Manager!AutoUpdate(m, f) =
        IF "apt-config" \in f THEN "unknown"
        ELSE Manager!AutoUpdateApt(m.enable, m.unattended, m.installed,
                                   Manager!IsEnabled(m, f, "apt-daily-upgrade"))
    BY Zenon DEF Manager!AutoUpdate
<1>2. Manager!Installs(m) <=>
        /\ m.installed /\ "0" \notin m.enable
        /\ m.unattended \ {"", "0"} # {}
        /\ m.systemctl => m.timers["apt-daily-upgrade"] \in {"enabled", "static"}
    BY Zenon DEF Manager!Installs
<1>3. /\ m.enable = {"0"} <=> "0" \in m.enable
      /\ m.unattended \in {{}, {""}, {"0"}} <=> m.unattended \ {"", "0"} = {}
    <2>1. (\A a, b \in m.enable : a = b) /\ \A a, b \in m.unattended : a = b
        BY DEF Manager!IsManager
    <2>2. m.enable = {"0"} <=> "0" \in m.enable
        BY <2>1, OneAtMost
    <2>3. CASE m.unattended = {}
        BY <2>2, <2>3
    <2>4. CASE \E x \in m.unattended : m.unattended = {x}
        BY <2>2, <2>4
    <2>5. m.unattended = {} \/ \E x \in m.unattended : m.unattended = {x}
        BY <2>1, OneAtMost
    <2> QED
        BY <2>3, <2>4, <2>5
<1>4. "systemctl" \notin f =>
        (Manager!IsEnabled(m, f, "apt-daily-upgrade") \in {{"disabled"}, {"masked"}}
         <=> ~(m.systemctl => m.timers["apt-daily-upgrade"] \in {"enabled", "static"}))
    BY DEF Manager!IsManager, Manager!IsEnabled
<1>5. CASE "apt-config" \in f
    BY <1>1, <1>5 DEF Verdicts
<1>6. CASE "apt-config" \notin f
    <2> DEFINE timer == Manager!IsEnabled(m, f, "apt-daily-upgrade")
    <2>1. Manager!AutoUpdate(m, f) =
            IF \/ ~m.installed \/ m.enable = {"0"}
               \/ m.unattended \in {{}, {""}, {"0"}} \/ timer \in {{"disabled"}, {"masked"}}
            THEN "no" ELSE "yes"
        BY <1>1, <1>6 DEF Manager!AutoUpdateApt
    <2>2. Manager!AutoUpdate(m, f) \in Verdicts
        BY <2>1 DEF Verdicts
    <2> HIDE DEF timer
    <2>3. "systemctl" \notin f =>
            (Manager!Installs(m) <=> Manager!AutoUpdate(m, f) = "yes")
        BY <1>2, <1>3, <1>4, <2>1 DEF timer
    <2> QED
        BY <2>1, <2>2, <2>3
<1> QED
    BY <1>5, <1>6

\* DNF: the same, through its timers and its files.
LEMMA DnfSaid ==
    ASSUME NEW m, Manager!IsManager(m), m.kind = "dnf", NEW f
    PROVE  /\ Manager!AutoUpdate(m, f) \in Verdicts
           /\ "systemctl" \notin f =>
                /\ Manager!AutoUpdate(m, f) = "yes" => Manager!Installs(m)
                /\ Manager!AutoUpdate(m, f) = "no" => ~Manager!Installs(m)
<1> DEFINE enabled(t) == Manager!IsEnabled(m, f, t) = {"enabled"}
<1>0. m.kind # "apt"
    OBVIOUS
<1>1. Manager!AutoUpdate(m, f) =
        IF ~m.systemctl THEN "unknown"
        ELSE Manager!AutoUpdateDnf(enabled("dnf5-automatic") \/ enabled("dnf-automatic"),
                                   enabled("dnf-automatic-install"), Manager!Apply(m.files))
    BY <1>0, Zenon DEF Manager!AutoUpdate
<1>2. Manager!Installs(m) <=>
        \/ Manager!Fires(m, "dnf-automatic-install")
        \/ /\ \E t \in {"dnf5-automatic", "dnf-automatic"} : Manager!Fires(m, t)
           /\ Manager!Apply(m.files) = {TRUE}
    BY <1>0, Zenon DEF Manager!Installs
<1> QED
    BY <1>1, <1>2 DEF Manager!IsManager, Manager!AutoUpdateDnf, Manager!IsEnabled,
                      Manager!Fires, Verdicts

\* The system drive of a Windows host: a "yes" and a "no" are both so, and what no
\* property or an unknown number says is "unknown".
LEMMA VolumeSaid ==
    ASSUME NEW v, Windows!IsVolume(v), NEW f
    PROVE  /\ Windows!DiskEncryption(v, f) \in Verdicts
           /\ Windows!DiskEncryption(v, f) = "yes" => Windows!Protected(v)
           /\ Windows!DiskEncryption(v, f) = "no" => ~Windows!Protected(v)
<1> DEFINE status == Windows!ParseProtection(IF "property" \in f THEN {} ELSE v.value)
<1>1. /\ status \in {{"on"}, {"locked"}} => Windows!DiskEncryption(v, f) = "yes"
      /\ status \in {{}, {"other"}} => Windows!DiskEncryption(v, f) = "unknown"
      /\ status \notin {{"on"}, {"locked"}, {}, {"other"}} => Windows!DiskEncryption(v, f) = "no"
    <2>1. status \in {{"on"}, {"locked"}} => Windows!DiskEncryption(v, f) = "yes"
        BY Zenon DEF Windows!DiskEncryption, Windows!DiskEncryptionRow
    <2>2. status \in {{}, {"other"}} => status \notin {{"on"}, {"locked"}}
        OBVIOUS
    <2>3. status \in {{}, {"other"}} => Windows!DiskEncryption(v, f) = "unknown"
        BY <2>2, Zenon DEF Windows!DiskEncryption, Windows!DiskEncryptionRow
    <2>4. status \notin {{"on"}, {"locked"}} /\ status \notin {{}, {"other"}} =>
              Windows!DiskEncryption(v, f) = "no"
        BY Zenon DEF Windows!DiskEncryption, Windows!DiskEncryptionRow
    <2> QED
        BY <2>1, <2>3, <2>4
<1>2. CASE "property" \in f \/ v.value = {}
    <2>1. status = {}
        BY <1>2 DEF Windows!ParseProtection
    <2> QED
        BY <1>1, <2>1 DEF Verdicts
<1>3. CASE ~("property" \in f \/ v.value = {})
    <2>1. PICK n \in Nat : v.value = {n}
        BY <1>3 DEF Windows!IsVolume
    <2>2. status = {IF n \in 1..8 THEN Windows!Protections[n] ELSE "other"}
        BY <1>3, <2>1 DEF Windows!Protections, Windows!ParseProtection
    <2>3. CASE n \in 1..8
        <3>1. n \in {1,6} <=> Windows!Protected(v)
            BY <2>1, <2>3 DEF Windows!IsVolume
        <3>2. n \in {1, 6} <=> status \in {{"on"}, {"locked"}}
            BY <2>2, <2>3 DEF Windows!Protections
        <3>3. status \notin {{}, {"other"}}
            BY <2>2, <2>3 DEF Windows!Protections
        <3> HIDE DEF status
        <3> QED
            BY <1>1, <3>1, <3>2, <3>3 DEF Verdicts
    <2>4. CASE n \notin 1..8
        <3>1. status = {"other"}
            BY <2>2, <2>4
        <3> QED
            BY <1>1, <3>1 DEF Verdicts
    <2> QED
        BY <2>3, <2>4
<1> QED
    BY <1>2, <1>3

\* The password policy: a row that was read has the host's lockout, and its password
\* age is null exactly when passwords never end.
LEMMA PolicySaid ==
    ASSUME NEW p, NEW f
    PROVE  LET r == Windows!PasswordPolicy(p, f) IN
           \/ r = [status |-> "unknown"]
           \/ /\ r.status = "ok" /\ r.lockout = p.lockout
              /\ r.age = {} <=> p.age = Forever
BY DEF Windows!PasswordPolicy, Windows!PolicyRow, Windows!ReadPolicy, Windows!PolicyUnits

\* A query that is let through to the sidecar changes nothing.
LEMMA ReadOnlyQueryWritesNothing ==
    ASSUME NEW i, Config!IsItem(i), NEW q \in i.sql, Config!IsReadOnlyQuery(q)
    PROVE  ~Config!Writes(q)
<1>1. DOMAIN q = 1..Len(q)
    BY DEF Config!IsItem
<1> QED
    BY <1>1 DEF Config!IsReadOnlyQuery, Config!Writes

-----------------------------------------------------------------------------
(* Linux storage.                                                          *)

\* The recursion over the tree of lsblk is what it reads as: the parent of a line is
\* a line or none, so the least set of lines that is closed under it satisfies the
\* equation, and the CHOOSE behind the recursive function has a choice.
LEMMA OnCryptIs ==
    ASSUME NEW devs, \A n \in DOMAIN devs : devs[n].parent = 0 \/ devs[n].parent \in DOMAIN devs
    PROVE  \A n \in DOMAIN devs :
             Disk!OnCrypt(devs)[n] <=>
                \/ devs[n].kind = "crypt"
                \/ devs[n].parent # 0 /\ Disk!OnCrypt(devs)[devs[n].parent]
<1> DEFINE D == DOMAIN devs
           Crypt(n) == devs[n].kind = "crypt"
           Above(S) == {n \in D : Crypt(n) \/ (devs[n].parent # 0 /\ devs[n].parent \in S)}
           L == {n \in D : \A S \in SUBSET D : Above(S) \subseteq S => n \in S}
           Is(on) == on = [n \in D |-> Crypt(n) \/ (devs[n].parent # 0 /\ on[devs[n].parent])]
           f == [n \in D |-> n \in L]
<1>1. Above(L) \subseteq L
    OBVIOUS
<1>2. L \subseteq Above(L)
    <2>1. Above(Above(L)) \subseteq Above(L)
        BY <1>1
    <2> QED
        BY <2>1
<1>3. Is(f)
    <2>1. \A n \in D : n \in L <=> Crypt(n) \/ (devs[n].parent # 0 /\ devs[n].parent \in L)
        BY <1>1, <1>2
    <2> HIDE DEF L, Crypt
    <2>2. \A n \in D : f[n] = (Crypt(n) \/ (devs[n].parent # 0 /\ f[devs[n].parent]))
        <3> TAKE n \in D
        <3>1. f \in [D -> BOOLEAN]
            OBVIOUS
        <3>2. f[n] <=> n \in L
            OBVIOUS
        <3>3. devs[n].parent # 0 => (f[devs[n].parent] <=> devs[n].parent \in L)
            OBVIOUS
        <3> HIDE DEF f
        <3>4. f[n] <=> (Crypt(n) \/ (devs[n].parent # 0 /\ f[devs[n].parent]))
            BY <2>1, <3>2, <3>3
        <3> QED
            BY <3>1, <3>4
    <2> QED
        BY <2>2
<1>4. Disk!OnCrypt(devs) = CHOOSE on : Is(on)
    BY DEF Disk!OnCrypt
<1>5. Is(Disk!OnCrypt(devs))
    <2> HIDE DEF Is, f
    <2> QED
        BY <1>3, <1>4
<1> QED
    BY <1>5

\* The tree, as it is printed.
LEMMA TreeIs ==
    ASSUME NEW s, Disk!IsStorage(s)
    PROVE  /\ DOMAIN s.tree \subseteq Nat
           /\ \A n \in DOMAIN s.tree : /\ s.tree[n].parent \in Nat /\ s.tree[n].parent < n
                                       /\ s.tree[n].parent = 0 \/ s.tree[n].parent \in DOMAIN s.tree
<1>1. DOMAIN s.tree = 1..Len(s.tree) /\ Len(s.tree) \in Nat
    BY DEF Disk!IsStorage
<1>2. \A n \in DOMAIN s.tree : s.tree[n].parent \in 0..(n - 1)
    BY DEF Disk!IsStorage
<1> QED
    BY <1>1, <1>2

\* What is on dm-crypt has a dm-crypt device in it: the least line that is on one is
\* one, for its parent is less.
LEMMA CryptSomewhere ==
    ASSUME NEW s, Disk!IsStorage(s), NEW n \in DOMAIN s.tree, Disk!OnCrypt(s.tree)[n]
    PROVE  \E k \in DOMAIN s.tree : s.tree[k].kind = "crypt"
<1> DEFINE on == Disk!OnCrypt(s.tree)
           S == {k \in DOMAIN s.tree : on[k]}
<1>1. PICK m \in S : \A k \in S : m <= k
    <2>1. S \in SUBSET Nat /\ S # {}
        BY TreeIs
    <2> HIDE DEF S
    <2> QED
        BY <2>1, Least
<1>2. /\ s.tree[m].parent \in Nat /\ s.tree[m].parent < m /\ m \in Nat
      /\ s.tree[m].parent = 0 \/ s.tree[m].parent \in DOMAIN s.tree
    BY TreeIs
<1>3. s.tree[m].kind = "crypt" \/ (s.tree[m].parent # 0 /\ on[s.tree[m].parent])
    BY TreeIs, OnCryptIs
<1>4. ~(s.tree[m].parent \in S)
    BY <1>1, <1>2
<1> QED
    BY <1>2, <1>3, <1>4

\* What is said of a mount point: a "yes" is of encrypted storage, or of some of the
\* disks that it is spread over, and a mechanism is named; a "no" is of plain storage.
LEMMA StorageSaid ==
    ASSUME NEW s, Disk!IsStorage(s), NEW f, NEW path
    PROVE  LET devs    == Disk!Devices(s, f)
               mounts  == Disk!Mounts(s, f)
               verdict == Disk!Determine(devs, mounts, path)
           IN  /\ verdict \in Verdicts
               /\ verdict = "yes" => /\ Disk!Encrypted(s, path) \/ Disk!Mixed(s, path)
                                     /\ Disk!Mechanisms(devs, mounts) # {}
               /\ verdict = "no" => ~Disk!Encrypted(s, path)
<1> DEFINE devs    == Disk!Devices(s, f)
           mounts  == Disk!Mounts(s, f)
           verdict == Disk!Determine(devs, mounts, path)
           fstypes == {m.fstype : m \in {n \in mounts : n.path = path}}
           lines   == {n \in DOMAIN devs : path \in devs[n].mounts}
           first   == CHOOSE n \in lines : \A k \in lines : n <= k
           others  == {m.fstype : m \in {n \in s.others : n.path = path}}
<1>1. verdict = IF "ecryptfs" \in fstypes THEN "yes"
                ELSE IF "zfs" \in fstypes \/ lines = {} THEN "unknown"
                ELSE IF Disk!OnCrypt(devs)[first] THEN "yes" ELSE "no"
    BY DEF Disk!Determine
<1>2. Disk!Encrypted(s, path) <=>
        IF others = {} THEN \A n \in Disk!LinesOf(s, path) : Disk!OnCrypt(s.tree)[n]
        ELSE others = {"ecryptfs"}
    BY DEF Disk!Encrypted
<1>3. /\ \A m, k \in s.others : k.path = m.path => k = m
      /\ \A m \in s.others : \A n \in DOMAIN s.tree : m.path \notin s.tree[n].mounts
    BY DEF Disk!IsStorage
<1>4. \A m \in mounts : m.fstype = "ecryptfs" => m \in s.others
    BY DEF Disk!Mounts, Disk!ProcMounts
<1>5. CASE "ecryptfs" \in fstypes
    <2>1. PICK m \in mounts : m.path = path /\ m.fstype = "ecryptfs"
        BY <1>5
    <2>2. m \in s.others
        BY <1>4, <2>1
    <2>3. others = {"ecryptfs"}
        BY <1>3, <2>1, <2>2
    <2>4. "ecryptfs" \in Disk!Mechanisms(devs, mounts)
        <3> HIDE DEF mounts, devs
        <3> QED
            BY <2>1 DEF Disk!Mechanisms
    <2> HIDE DEF fstypes, others, verdict, mounts, devs
    <2>5. Disk!Encrypted(s, path) /\ verdict = "yes"
        BY <1>1, <1>2, <1>5, <2>3
    <2> QED
        BY <2>4, <2>5 DEF Verdicts, verdict, mounts, devs
<1>6. CASE "ecryptfs" \notin fstypes /\ ("zfs" \in fstypes \/ lines = {})
    <2> HIDE DEF fstypes, lines, mounts, devs, verdict
    <2>1. verdict = "unknown"
        BY <1>1, <1>6
    <2> QED
        BY <2>1 DEF Verdicts, verdict, mounts, devs
<1>7. CASE "ecryptfs" \notin fstypes /\ "zfs" \notin fstypes /\ lines # {}
    <2>1. devs = s.tree
        BY <1>7 DEF Disk!Devices
    <2>2. first \in lines
        <3>1. lines \in SUBSET Nat
            BY <2>1, TreeIs
        <3>2. \E n \in lines : \A k \in lines : n <= k
            <4> HIDE DEF lines
            <4> QED
                BY <1>7, <3>1, Least
        <3> HIDE DEF lines
        <3> QED
            BY <3>2
    <2> HIDE DEF first, devs
    <2>3. first \in DOMAIN s.tree /\ path \in s.tree[first].mounts
        BY <2>1, <2>2
    <2>4. others = {}
        BY <1>3, <2>3
    <2>5. first \in Disk!LinesOf(s, path)
        BY <2>3 DEF Disk!LinesOf
    <2> HIDE DEF fstypes, lines, others, mounts, verdict
    <2>6. CASE Disk!OnCrypt(s.tree)[first]
        <3>1. verdict = "yes"
            BY <1>1, <1>7, <2>1, <2>6
        <3>2. Disk!Encrypted(s, path) \/ Disk!Mixed(s, path)
            BY <1>2, <2>4, <2>5, <2>6 DEF Disk!Mixed
        <3>3. PICK k \in DOMAIN devs : devs[k].kind = "crypt"
            BY <2>1, <2>3, <2>6, CryptSomewhere
        <3>4. Disk!Mechanisms(devs, mounts) # {}
            BY <3>3 DEF Disk!Mechanisms
        <3> QED
            BY <3>1, <3>2, <3>4 DEF Verdicts, verdict, mounts, devs
    <2>7. CASE ~Disk!OnCrypt(s.tree)[first]
        <3>1. verdict = "no"
            BY <1>1, <1>7, <2>1, <2>7
        <3>2. ~Disk!Encrypted(s, path)
            BY <1>2, <2>4, <2>5, <2>7
        <3> QED
            BY <3>1, <3>2 DEF Verdicts, verdict, mounts, devs
    <2> QED
        BY <2>6, <2>7
<1> QED
    BY <1>5, <1>6, <1>7

\* With the mount table read, the mount that is asked about for the home is its own.
LEMMA HomeIsAsked ==
    ASSUME NEW s, NEW f, "mounts" \notin f, s.home # {}
    PROVE  Disk!Summary(s, f).home =
               Disk!Determine(Disk!Devices(s, f), Disk!Mounts(s, f), Disk!HomeMount(s))
<1> DEFINE devs   == Disk!Devices(s, f)
           mounts == Disk!Mounts(s, f)
           points == {m.path : m \in mounts} \cup Disk!DeviceMounts(devs)
<1>1. mounts = Disk!ProcMounts(s)
    BY DEF Disk!Mounts
<1>2. Disk!DeviceMounts(devs) \subseteq Disk!DeviceMounts(s.tree)
    BY DEF Disk!Devices, Disk!DeviceMounts
<1>3. Disk!DeviceMounts(s.tree) \subseteq {m.path : m \in Disk!ProcMounts(s)}
    <2> SUFFICES ASSUME NEW p \in Disk!DeviceMounts(s.tree)
                 PROVE  \E m \in Disk!ProcMounts(s) : p = m.path
        OBVIOUS
    <2> DEFINE m == [path |-> p, fstype |-> "plain"]
    <2>1. m \in Disk!ProcMounts(s)
        BY DEF Disk!ProcMounts
    <2>2. m.path = p
        OBVIOUS
    <2> HIDE DEF m
    <2> QED
        BY <2>1, <2>2
<1>4. points = {m.path : m \in Disk!ProcMounts(s)}
    BY <1>1, <1>2, <1>3
<1> QED
    BY <1>4 DEF Disk!Summary, Disk!HomeMount

\* What encrypts is one of three.
LEMMA MechanismsAre ==
    ASSUME NEW devs, NEW mounts
    PROVE  Disk!Mechanisms(devs, mounts) \subseteq {"luks", "dm-crypt", "ecryptfs"}
BY DEF Disk!Mechanisms

-----------------------------------------------------------------------------
(* Linux sessions.                                                         *)

\* hypridle hides the listeners behind one that never fires.
Hides(s) ==
    /\ s.runs = "hyprland"
    /\ LET l == s.settings.listeners IN
       \E n, k \in DOMAIN l : n < k /\ l[n].locks /\ l[n].timeout = {0} /\ l[k].locks

\* A file of the settings was not read.
Unread(f) == f \cap {"user", "system"} # {}

\* What a row may say of the session, with the sources in f giving nothing.
RowFits(s, r, f) ==
    /\ DOMAIN r = {"enabled", "delay"}
    /\ r.enabled \in Verdicts /\ r.delay \subseteq Nat
    /\ r.enabled = "yes" =>
          /\ r.delay # {} /\ 0 \notin r.delay
          /\ ~Unread(f) /\ "xfconf" \notin f =>
                /\ Desktop!LockTimes(s) # {}
                /\ "delay" \notin f => \E t \in Desktop!LockTimes(s), d \in r.delay : t <= d
    /\ r.enabled = "no" /\ ~Unread(f) /\ ~Hides(s) => Desktop!LockTimes(s) = {}

\* An "unknown" fits any session, whatever its delay.
LEMMA UnknownFits ==
    ASSUME NEW s, NEW f, NEW D, D \subseteq Nat
    PROVE  RowFits(s, Desktop!Row("unknown", D), f)
BY DEF RowFits, Desktop!Row, Verdicts

\* A "no" fits a session that never locks.
LEMMA NoFits ==
    ASSUME NEW s, NEW f, NEW D, D \subseteq Nat,
           Unread(f) \/ Hides(s) \/ Desktop!LockTimes(s) = {}
    PROVE  RowFits(s, Desktop!Row("no", D), f)
BY DEF RowFits, Desktop!Row, Verdicts

\* A "yes" fits one that locks, in time if the delay was asked for and given.
LEMMA YesFits ==
    ASSUME NEW s, NEW f, NEW d \in Nat \ {0},
           ~Unread(f) /\ "xfconf" \notin f =>
              /\ Desktop!LockTimes(s) # {}
              /\ "delay" \notin f => \E t \in Desktop!LockTimes(s) : t <= d
    PROVE  RowFits(s, Desktop!Row("yes", {d}), f)
BY DEF RowFits, Desktop!Row, Verdicts

\* Options.
LEMMA ValueOf == ASSUME NEW x PROVE Desktop!Value({x}) = x
BY DEF Desktop!Value

\* An option, with a default for what is not set, is one value.
LEMMA OptionValue ==
    ASSUME NEW S, NEW o, Desktop!IsOptionOf(o, S), NEW d \in S
    PROVE  \E x \in S : /\ Desktop!OrElse(o, d) = {x} /\ Desktop!Value(Desktop!OrElse(o, d)) = x
                        /\ o \in {{}, {x}} /\ (o = {} => x = d)
<1>1. PICK x \in S : Desktop!OrElse(o, d) = {x} /\ o \in {{}, {x}} /\ (o = {} => x = d)
    BY DEF Desktop!IsOptionOf, Desktop!OrElse
<1> QED
    BY <1>1, ValueOf

\* Minutes, made seconds, are still not zero.
LEMMA ProductPositive == \A a, b \in Nat \ {0} : a * b \in Nat \ {0}
OBVIOUS

\* What is off, or has no idle time, never locks.
LEMMA NeverAfter ==
    ASSUME NEW enabled \in BOOLEAN, NEW idle \in Nat, NEW more, NEW unit, ~enabled \/ idle = 0
    PROVE  Desktop!After(enabled, idle, more, unit) = {}
BY DEF Desktop!After

\* GNOME and Cinnamon.
LEMMA GsettingsFits ==
    ASSUME NEW s, Desktop!IsSession(s), s.runs \in {"gnome", "cinnamon"}, NEW f
    PROVE  RowFits(s, Desktop!ScreenlockRow(s, f), f)
<1> DEFINE lock  == Desktop!Get(s.settings, f, "lock")
           idle  == Desktop!Get(s.settings, f, "idle")
           delay == Desktop!Get(s.settings, f, "delay")
<1>1. Desktop!ScreenlockRow(s, f) = Desktop!RowOfGsettings(lock, idle, delay)
    <2>1. Desktop!DetectDesktop(s.xdg) \in {"gnome", "cinnamon"}
        BY DEF Desktop!IsSession
    <2> QED
        BY <2>1, Zenon DEF Desktop!ScreenlockRow
<1>2. PICK locks \in BOOLEAN, i \in Nat, g \in Nat :
        /\ locks = s.settings.lock /\ i = s.settings.idle /\ g = s.settings.delay
    BY DEF Desktop!IsSession
<1>3. Desktop!LockTimes(s) = Desktop!After(locks, i, g, 1)
    BY <1>2, Zenon DEF Desktop!LockTimes
<1>4. /\ lock \in {{}, {locks}} /\ idle \in {{}, {i}}
      /\ delay \in {{}, {g}} /\ ("delay" \notin f => delay = {g})
    BY <1>2 DEF Desktop!Get
<1> HIDE DEF lock, idle, delay
<1>5. CASE lock = {FALSE}
    <2>1. ~locks
        BY <1>4, <1>5
    <2>2. Desktop!ScreenlockRow(s, f) = Desktop!Row("no", idle)
        BY <1>1, <1>5 DEF Desktop!RowOfGsettings
    <2>3. Desktop!LockTimes(s) = {}
        BY <1>3, <2>1, NeverAfter
    <2> QED
        BY <1>4, <2>2, <2>3, NoFits
<1>6. CASE lock # {FALSE} /\ (lock = {} \/ idle = {})
    <2>1. Desktop!ScreenlockRow(s, f) = Desktop!Row("unknown", idle)
        BY <1>1, <1>6 DEF Desktop!RowOfGsettings
    <2> QED
        BY <1>4, <2>1, UnknownFits
<1>7. CASE lock = {TRUE} /\ idle = {i}
    <2>0. locks
        BY <1>4, <1>7
    <2>1. CASE i = 0
        <3>1. Desktop!ScreenlockRow(s, f) = Desktop!Row("no", {0})
            BY <1>1, <1>7, <2>1 DEF Desktop!RowOfGsettings
        <3>2. Desktop!LockTimes(s) = {}
            BY <1>3, <2>0, <2>1, NeverAfter
        <3> QED
            BY <3>1, <3>2, NoFits
    <2>2. CASE i # 0
        <3>1. PICK d \in Nat : /\ Desktop!Value(Desktop!OrElse(delay, 0)) = d
                               /\ "delay" \notin f => d = g
            BY <1>4, ValueOf DEF Desktop!OrElse
        <3>2. Desktop!ScreenlockRow(s, f) = Desktop!Row("yes", {i + d})
            BY <1>1, <1>7, <2>2, <3>1, ValueOf DEF Desktop!RowOfGsettings
        <3>3. Desktop!LockTimes(s) = {i + g}
            BY <1>3, <2>0, <2>2 DEF Desktop!After
        <3> QED
            BY <2>2, <3>1, <3>2, <3>3, YesFits
    <2> QED
        BY <2>1, <2>2
<1> QED
    BY <1>4, <1>5, <1>6, <1>7

\* MATE, which counts in minutes and whose saver must start by itself.
LEMMA MateFits ==
    ASSUME NEW s, Desktop!IsSession(s), s.runs = "mate", NEW f
    PROVE  RowFits(s, Desktop!ScreenlockRow(s, f), f)
<1> DEFINE activation == Desktop!Get(s.settings, f, "activation")
           lock  == Desktop!Get(s.settings, f, "lock")
           idle  == Desktop!Get(s.settings, f, "idle")
           delay == Desktop!Get(s.settings, f, "delay")
           seconds == {m * Minute : m \in idle}
<1>1. Desktop!ScreenlockRow(s, f) = Desktop!RowOfMate(activation, lock, idle, delay)
    <2>1. Desktop!DetectDesktop(s.xdg) = "mate"
        BY DEF Desktop!IsSession
    <2>2. Desktop!DetectDesktop(s.xdg) \notin {"gnome", "cinnamon"}
        BY <2>1
    <2> QED
        BY <2>1, <2>2, Zenon DEF Desktop!ScreenlockRow
<1>2. PICK starts \in BOOLEAN, locks \in BOOLEAN, i \in Nat, g \in Nat :
        /\ starts = s.settings.activation /\ locks = s.settings.lock
        /\ i = s.settings.idle /\ g = s.settings.delay
    BY DEF Desktop!IsSession
<1>3. Desktop!LockTimes(s) = Desktop!After(starts /\ locks, i, g, Minute)
    <2>1. s.runs \notin {"gnome", "cinnamon"}
        OBVIOUS
    <2> QED
        BY <1>2, <2>1, Zenon DEF Desktop!LockTimes
<1>4. /\ activation \in {{}, {starts}} /\ lock \in {{}, {locks}} /\ idle \in {{}, {i}}
      /\ delay \in {{}, {g}} /\ ("delay" \notin f => delay = {g})
    BY <1>2 DEF Desktop!Get
<1>m. Minute \in Nat \ {0}
    BY BuiltinAssumption
<1>s. seconds \subseteq Nat
    BY <1>4, <1>m
<1> HIDE DEF lock, idle, delay, activation, seconds
<1>5. CASE FALSE \in activation \cup lock
    <2>1. (starts /\ locks) \in BOOLEAN /\ ~(starts /\ locks)
        BY <1>4, <1>5
    <2>2. Desktop!ScreenlockRow(s, f) = Desktop!Row("no", seconds)
        BY <1>1, <1>5 DEF Desktop!RowOfMate, seconds
    <2>3. Desktop!LockTimes(s) = {}
        BY <1>3, <2>1, NeverAfter
    <2> QED
        BY <1>s, <2>2, <2>3, NoFits
<1>6. CASE FALSE \notin activation \cup lock /\ {} \in {activation, lock, idle}
    <2>1. Desktop!ScreenlockRow(s, f) = Desktop!Row("unknown", seconds)
        BY <1>1, <1>6 DEF Desktop!RowOfMate, seconds
    <2> QED
        BY <1>s, <2>1, UnknownFits
<1>7. CASE activation = {TRUE} /\ lock = {TRUE} /\ idle = {i}
    <2>0. (starts /\ locks) \in BOOLEAN /\ (starts /\ locks)
        BY <1>4, <1>7
    <2>1. CASE i = 0
        <3>1. Desktop!ScreenlockRow(s, f) = Desktop!Row("no", {0})
            BY <1>1, <1>7, <2>1 DEF Desktop!RowOfMate
        <3>2. Desktop!LockTimes(s) = {}
            BY <1>3, <2>0, <2>1, NeverAfter
        <3> QED
            BY <3>1, <3>2, NoFits
    <2>2. CASE i # 0
        <3>1. PICK d \in Nat : /\ Desktop!Value(Desktop!OrElse(delay, 0)) = d
                               /\ "delay" \notin f => d = g
            BY <1>4, ValueOf DEF Desktop!OrElse
        <3>2. Desktop!ScreenlockRow(s, f) = Desktop!Row("yes", {(i + d) * Minute})
            BY <1>1, <1>7, <2>2, <3>1, ValueOf DEF Desktop!RowOfMate
        <3>3. Desktop!LockTimes(s) = {(i + g) * Minute}
            BY <1>3, <2>0, <2>2 DEF Desktop!After
        <3>4. (i + d) * Minute \in Nat \ {0}
            <4>1. i + d \in Nat \ {0}
                BY <2>2
            <4> QED
                BY <1>m, <4>1, ProductPositive
        <3>5. (i + g) * Minute \in Nat
            BY <1>m
        <3>6. ASSUME "delay" \notin f
              PROVE  \E t \in Desktop!LockTimes(s) : t <= (i + d) * Minute
            <4>1. (i + g) * Minute = (i + d) * Minute
                BY <3>1, <3>6
            <4>2. (i + g) * Minute <= (i + d) * Minute
                BY <3>5, <4>1
            <4> QED
                BY <3>3, <4>2
        <3>7. Desktop!LockTimes(s) # {}
            BY <3>3
        <3> QED
            BY <3>2, <3>4, <3>6, <3>7, YesFits
    <2> QED
        BY <2>1, <2>2
<1> QED
    BY <1>4, <1>5, <1>6, <1>7

\* Plasma, whose keys are in two files.
LEMMA KdeFits ==
    ASSUME NEW s, Desktop!IsSession(s), s.runs = "kde", NEW f
    PROVE  RowFits(s, Desktop!ScreenlockRow(s, f), f)
<1> DEFINE user    == s.settings.user
           system  == s.settings.system
           files   == Desktop!KdeFiles(s.settings, f)
           auto    == Desktop!KdeKey(files, "autolock")
           timeout == Desktop!KdeKey(files, "timeout")
           locks   == \/ user.autolock = {TRUE}
                      \/ user.autolock = {} /\ Desktop!On(system.autolock)
           waits   == IF user.timeout # {} THEN user.timeout ELSE system.timeout
<1>1. Desktop!ScreenlockRow(s, f) = Desktop!RowOfKde(auto, timeout)
    <2>1. Desktop!DetectDesktop(s.xdg) = "kde"
        BY DEF Desktop!IsSession
    <2>2. /\ Desktop!DetectDesktop(s.xdg) \notin {"gnome", "cinnamon"}
          /\ Desktop!DetectDesktop(s.xdg) # "mate"
        BY <2>1
    <2> QED
        BY <2>1, <2>2, Zenon DEF Desktop!ScreenlockRow
<1>2. Desktop!LockTimes(s) = Desktop!After(locks, Desktop!Set(waits, KdeTimeout), 0, 1)
    <2>1. s.runs \notin {"gnome", "cinnamon"} /\ s.runs # "mate"
        OBVIOUS
    <2> QED
        BY <2>1, Zenon DEF Desktop!LockTimes
<1>3. \A file \in {user, system} :
        Desktop!IsOptionOf(file.autolock, BOOLEAN) /\ Desktop!IsOptionOf(file.timeout, Nat)
    BY DEF Desktop!IsSession
<1>r. /\ ~Unread(f) => files.user = user /\ files.system = system
      /\ \A file \in {files.user, files.system} :
            Desktop!IsOptionOf(file.autolock, BOOLEAN) /\ Desktop!IsOptionOf(file.timeout, Nat)
    <2>1. \A name \in {"user", "system"} :
             \/ files[name] = s.settings[name]
             \/ name \in f /\ files[name] = [autolock |-> {}, timeout |-> {}]
        BY DEF Desktop!KdeFiles
    <2>2. /\ Desktop!IsOptionOf([autolock |-> {}, timeout |-> {}].autolock, BOOLEAN)
          /\ Desktop!IsOptionOf([autolock |-> {}, timeout |-> {}].timeout, Nat)
        BY DEF Desktop!IsOptionOf
    <2> HIDE DEF files
    <2>3. ~Unread(f) => files.user = user /\ files.system = system
        BY <2>1 DEF Unread
    <2>4. ASSUME NEW name \in {"user", "system"}
          PROVE  /\ Desktop!IsOptionOf(files[name].autolock, BOOLEAN)
                 /\ Desktop!IsOptionOf(files[name].timeout, Nat)
        BY <1>3, <2>1, <2>2
    <2> QED
        BY <2>3, <2>4
<1> HIDE DEF files
<1>4. PICK a \in BOOLEAN : Desktop!OrElse(auto, TRUE) = {a} /\ (~Unread(f) => a = locks)
    <2>1. auto = IF files.user.autolock # {} THEN files.user.autolock ELSE files.system.autolock
        BY DEF Desktop!KdeKey
    <2>2. \A file \in {files.user, files.system} : file.autolock \in {{}, {TRUE}, {FALSE}}
        <3>1. ASSUME NEW o, Desktop!IsOptionOf(o, BOOLEAN) PROVE o \in {{}, {TRUE}, {FALSE}}
            <4>1. o \subseteq BOOLEAN /\ \A a, b \in o : a = b
                BY <3>1 DEF Desktop!IsOptionOf
            <4>2. o = {} \/ \E x \in o : o = {x}
                BY <4>1, OneAtMost
            <4> QED
                BY <4>1, <4>2
        <3> QED
            BY <1>r, <3>1
    <2>3. auto \in {{}, {TRUE}, {FALSE}}
        BY <2>1, <2>2
    <2>4. ASSUME ~Unread(f) PROVE locks <=> auto # {FALSE}
        <3>1. /\ auto = IF user.autolock # {} THEN user.autolock ELSE system.autolock
              /\ user.autolock \in {{}, {TRUE}, {FALSE}}
              /\ system.autolock \in {{}, {TRUE}, {FALSE}}
            BY <1>r, <2>1, <2>2, <2>4
        <3>2. Desktop!On(system.autolock) <=> system.autolock # {FALSE}
            BY <3>1 DEF Desktop!On, Desktop!OrElse
        <3> QED
            BY <3>1, <3>2
    <2>5. PICK a \in BOOLEAN : Desktop!OrElse(auto, TRUE) = {a} /\ (a <=> auto # {FALSE})
        BY <2>3 DEF Desktop!OrElse
    <2> QED
        BY <2>4, <2>5
<1>5. Desktop!IsOptionOf(timeout, Nat) /\ (~Unread(f) => timeout = waits)
    BY <1>r DEF Desktop!KdeKey
<1>6. PICK t \in Nat : /\ Desktop!OrElse(timeout, KdeTimeout) = {t}
                       /\ Desktop!Value(Desktop!OrElse(timeout, KdeTimeout)) = t
    BY <1>5, OptionValue, BuiltinAssumption
<1>7. Desktop!ScreenlockRow(s, f) =
        IF ~a \/ t = 0 THEN Desktop!Row("no", {t}) ELSE Desktop!Row("yes", {t})
    BY <1>1, <1>4, <1>6 DEF Desktop!RowOfKde
<1>8. ASSUME ~Unread(f) PROVE Desktop!LockTimes(s) = IF a /\ t > 0 THEN {t} ELSE {}
    <2>0. timeout = waits /\ a = locks
        BY <1>4, <1>5, <1>8
    <2> HIDE DEF locks, waits, timeout
    <2>1. Desktop!Set(waits, KdeTimeout) = t
        BY <1>6, <2>0 DEF Desktop!Set
    <2>2. Desktop!LockTimes(s) = Desktop!After(a, t, 0, 1)
        BY <1>2, <2>0, <2>1
    <2> QED
        BY <2>2 DEF Desktop!After
<1>9. CASE ~a \/ t = 0
    BY <1>7, <1>8, <1>9, NoFits
<1>10. CASE a /\ t # 0
    <2>1. ~Unread(f) => Desktop!LockTimes(s) = {t} /\ t <= t
        BY <1>8, <1>10
    <2>2. Desktop!ScreenlockRow(s, f) = Desktop!Row("yes", {t}) /\ t \in Nat \ {0}
        BY <1>7, <1>10
    <2> QED
        BY <2>1, <2>2, YesFits
<1> QED
    BY <1>9, <1>10

\* Hyprland: the first listener that locks, if it has a timeout, is the one reported.
LEMMA HyprlandFits ==
    ASSUME NEW s, Desktop!IsSession(s), s.runs = "hyprland", NEW f
    PROVE  RowFits(s, Desktop!ScreenlockRow(s, f), f)
<1> DEFINE l == s.settings.listeners
           locking == {n \in DOMAIN l : l[n].locks /\ l[n].timeout # {}}
           first == CHOOSE n \in locking : \A k \in locking : n <= k
           timeout == Desktop!FirstLock(Desktop!Listeners(s.settings, f))
<1>1. Desktop!ScreenlockRow(s, f) = Desktop!RowOfHyprland(timeout)
    <2>1. Desktop!DetectDesktop(s.xdg) = "hyprland"
        BY DEF Desktop!IsSession
    <2>2. /\ Desktop!DetectDesktop(s.xdg) \notin {"gnome", "cinnamon"}
          /\ Desktop!DetectDesktop(s.xdg) # "mate" /\ Desktop!DetectDesktop(s.xdg) # "kde"
        BY <2>1
    <2> QED
        BY <2>1, <2>2, Zenon DEF Desktop!ScreenlockRow
<1>2. Desktop!LockTimes(s) = (UNION {l[n].timeout : n \in {k \in DOMAIN l : l[k].locks}}) \ {0}
    <2>1. s.runs \notin {"gnome", "cinnamon"} /\ s.runs # "mate" /\ s.runs # "kde"
        OBVIOUS
    <2> QED
        BY <2>1, Zenon DEF Desktop!LockTimes
<1>3. CASE locking = {} \/ "user" \in f
    <2>1. timeout = {}
        <3>1. Desktop!FirstLock(l) = {} \/ "user" \in f
            BY <1>3 DEF Desktop!FirstLock
        <3>2. Desktop!FirstLock(<<>>) = {}
            BY DEF Desktop!FirstLock
        <3> QED
            BY <3>1, <3>2 DEF Desktop!Listeners
    <2>2. Desktop!RowOfHyprland({}) = Desktop!Row("unknown", {})
        BY Zenon DEF Desktop!RowOfHyprland
    <2> QED
        BY <1>1, <2>1, <2>2, UnknownFits
<1>4. CASE locking # {} /\ "user" \notin f
    <2>1. locking \in SUBSET Nat
        BY DEF Desktop!IsSession
    <2>2. \E n \in locking : \A k \in locking : n <= k
        <3> HIDE DEF locking
        <3> QED
            BY <1>4, <2>1, Least
    <2>3. first \in locking
        <3> HIDE DEF locking
        <3> QED
            BY <2>2
    <2>4. timeout = l[first].timeout
        BY <1>4 DEF Desktop!FirstLock, Desktop!Listeners
    <2> HIDE DEF first
    <2>5. first \in DOMAIN l /\ l[first].locks /\ l[first].timeout # {}
        BY <2>3
    <2>6. PICK t \in Nat : timeout = {t}
        BY <2>4, <2>5 DEF Desktop!IsSession, Desktop!IsOptionOf
    <2>7. CASE t = 0
        <3>1. Desktop!RowOfHyprland({0}) = Desktop!Row("no", {0})
            <4>1. {0} # {}
                OBVIOUS
            <4> QED
                BY <4>1, Zenon DEF Desktop!RowOfHyprland
        <3>2. Hides(s) \/ Desktop!LockTimes(s) = {}
            <4> SUFFICES ASSUME NEW k \in DOMAIN l, l[k].locks,
                                NEW u \in l[k].timeout, u # 0
                         PROVE  Hides(s)
                BY <1>2
            <4>0. l[first].timeout = {0}
                BY <2>4, <2>6, <2>7
            <4>a. k # first
                <5> HIDE DEF l
                <5> QED
                    BY <4>0
            <4>b. l[k].timeout # {}
                OBVIOUS
            <4>1. k \in locking /\ k # first
                BY <4>a, <4>b
            <4>2. first <= k
                <5>1. \A n \in locking : first <= n
                    <6> HIDE DEF locking
                    <6> QED
                        BY <2>2 DEF first
                <5> QED
                    BY <4>1, <5>1
            <4>3. first \in Nat /\ k \in Nat
                BY <2>1, <2>3, <4>1
            <4>4. first < k
                BY <4>1, <4>2, <4>3
            <4> QED
                BY <2>4, <2>5, <2>6, <2>7, <4>4 DEF Hides
        <3> QED
            BY <1>1, <2>6, <2>7, <3>1, <3>2, NoFits
    <2>8. CASE t # 0
        <3>1. Desktop!RowOfHyprland(timeout) = Desktop!Row("yes", timeout)
            <4>1. timeout # {} /\ timeout # {0}
                BY <2>6, <2>8
            <4> QED
                BY <4>1, Zenon DEF Desktop!RowOfHyprland
        <3>2. t \in Desktop!LockTimes(s)
            BY <1>2, <2>4, <2>5, <2>6, <2>8
        <3> QED
            BY <1>1, <2>6, <2>8, <3>1, <3>2, YesFits
    <2> QED
        BY <2>7, <2>8
<1> QED
    BY <1>3, <1>4

\* A switch of xfce4-screensaver is on unless it is set to off.
LEMMA OnIs ==
    ASSUME NEW o, Desktop!IsOptionOf(o, BOOLEAN)
    PROVE  Desktop!On(o) <=> o # {FALSE}
BY DEF Desktop!On, Desktop!OrElse, Desktop!IsOptionOf

\* XFCE with xfce4-screensaver: what xfconf gives nothing for is the default.
LEMMA XfceScreensaverFits ==
    ASSUME NEW s, Desktop!IsSession(s), s.runs = "xfce4-screensaver", NEW f
    PROVE  RowFits(s, Desktop!ScreenlockRow(s, f), f)
<1> DEFINE c == s.settings
           switches == {Desktop!XfconfGet(c, f, k) : k \in Desktop!Switches}
           idle  == Desktop!XfconfGet(c, f, "idle")
           grace == Desktop!XfconfGet(c, f, "delay")
           on    == \A k \in Desktop!Switches : Desktop!On(c[k])
<1>1. Desktop!ScreenlockRow(s, f) = Desktop!RowOfXfceScreensaver(switches, idle, grace)
    <2>1. Desktop!DetectDesktop(s.xdg) = "xfce" /\ c.locker = "xfce4-screensaver"
        BY DEF Desktop!IsSession
    <2>2. /\ Desktop!DetectDesktop(s.xdg) \notin {"gnome", "cinnamon"}
          /\ Desktop!DetectDesktop(s.xdg) # "mate" /\ Desktop!DetectDesktop(s.xdg) # "kde"
          /\ Desktop!DetectDesktop(s.xdg) # "hyprland"
        BY <2>1
    <2>3. Desktop!ScreenlockRow(s, f) = Desktop!XfceRow(c, f)
        BY <2>1, <2>2, Zenon DEF Desktop!ScreenlockRow
    <2> QED
        BY <2>1, <2>3, Zenon DEF Desktop!XfceRow
<1>2. Desktop!LockTimes(s) =
        Desktop!After(on, Desktop!Set(c.idle, XfceDelay), Desktop!Set(c.delay, 0), Minute)
    <2>1. /\ s.runs \notin {"gnome", "cinnamon"} /\ s.runs # "mate"
          /\ s.runs # "kde" /\ s.runs # "hyprland"
        OBVIOUS
    <2> QED
        BY <2>1, Zenon DEF Desktop!LockTimes
<1>3. /\ \A k \in Desktop!Switches : Desktop!IsOptionOf(c[k], BOOLEAN)
      /\ Desktop!IsOptionOf(c.idle, Nat) /\ Desktop!IsOptionOf(c.delay, Nat)
    BY DEF Desktop!IsSession
<1>4. Desktop!IsOptionOf(idle, Nat) /\ Desktop!IsOptionOf(grace, Nat)
    BY <1>3 DEF Desktop!XfconfGet, Desktop!IsOptionOf
<1>5. PICK i \in Nat : /\ Desktop!OrElse(idle, XfceDelay) = {i}
                       /\ Desktop!Value(Desktop!OrElse(idle, XfceDelay)) = i
                       /\ (idle = {} => i = XfceDelay)
    BY <1>4, OptionValue, BuiltinAssumption
<1>6. PICK g \in Nat : Desktop!OrElse(grace, 0) = {g} /\ Desktop!Value(Desktop!OrElse(grace, 0)) = g
    BY <1>4, OptionValue
<1>m. Minute \in Nat \ {0} /\ XfceDelay \in Nat \ {0}
    BY BuiltinAssumption
<1>7. Desktop!ScreenlockRow(s, f) =
        IF {FALSE} \in switches THEN Desktop!Row("no", {(i + g) * Minute})
        ELSE IF i = 0 THEN Desktop!Row("no", {0}) ELSE Desktop!Row("yes", {(i + g) * Minute})
    <2> HIDE DEF switches, idle, grace
    <2> QED
        BY <1>1, <1>5, <1>6, <1>m DEF Desktop!RowOfXfceScreensaver
<1>8. CASE "xfconf" \in f
    <2>0. idle = {} /\ \A w \in switches : w = {}
        BY <1>8 DEF Desktop!XfconfGet
    <2> HIDE DEF switches, idle, grace
    <2>1. {FALSE} \notin switches /\ i # 0
        <3>1. {FALSE} # {}
            OBVIOUS
        <3>2. {FALSE} \notin switches
            BY <2>0, <3>1
        <3>3. i # 0
            BY <1>5, <1>m, <2>0
        <3> QED
            BY <3>2, <3>3
    <2>2. i + g \in Nat \ {0}
        BY <2>1
    <2>3. (i + g) * Minute \in Nat \ {0}
        BY <2>2, <1>m, ProductPositive
    <2>4. Desktop!ScreenlockRow(s, f) = Desktop!Row("yes", {(i + g) * Minute})
        BY <1>7, <2>1
    <2> QED
        BY <1>8, <2>3, <2>4, YesFits
<1>9. CASE "xfconf" \notin f
    <2>1. idle = c.idle /\ grace = c.delay /\ switches = {c[k] : k \in Desktop!Switches}
        BY <1>9 DEF Desktop!XfconfGet
    <2>2. on <=> {FALSE} \notin switches
        BY <1>3, <2>1, OnIs
    <2>3. on \in BOOLEAN
        OBVIOUS
    <2>4. Desktop!LockTimes(s) = Desktop!After(on, i, g, Minute)
        <3>1. Desktop!Set(c.idle, XfceDelay) = i /\ Desktop!Set(c.delay, 0) = g
            <4> HIDE DEF idle, grace
            <4> QED
                BY <1>5, <1>6, <2>1, Zenon DEF Desktop!Set
        <3> HIDE DEF on
        <3> QED
            BY <1>2, <3>1
    <2> HIDE DEF on, switches
    <2>5. Desktop!LockTimes(s) = IF on /\ i > 0 THEN {(i + g) * Minute} ELSE {}
        BY <2>4 DEF Desktop!After
    <2>6. (i + g) * Minute \in Nat
        BY <1>m
    <2>7. CASE ~on
        BY <1>7, <2>2, <2>5, <2>6, <2>7, NoFits
    <2>8. CASE i = 0
        BY <1>7, <2>2, <2>5, <2>6, <2>8, NoFits
    <2>9. CASE on /\ i # 0
        <3>1. i + g \in Nat \ {0}
            BY <2>9
        <3>2. (i + g) * Minute \in Nat \ {0} /\ (i + g) * Minute <= (i + g) * Minute
            BY <3>1, <1>m, ProductPositive
        <3>3. Desktop!ScreenlockRow(s, f) = Desktop!Row("yes", {(i + g) * Minute})
            BY <1>7, <2>2, <2>9
        <3>4. Desktop!LockTimes(s) = {(i + g) * Minute}
            BY <2>5, <2>9
        <3> QED
            BY <3>2, <3>3, <3>4, YesFits
    <2> QED
        BY <2>7, <2>8, <2>9
<1> QED
    BY <1>8, <1>9

\* XFCE with light-locker, whose autostart entry the user may hide.
LEMMA LightLockerFits ==
    ASSUME NEW s, Desktop!IsSession(s), s.runs = "light-locker", NEW f
    PROVE  RowFits(s, Desktop!ScreenlockRow(s, f), f)
<1> DEFINE c == s.settings
           entry == IF c.user # {} THEN c.user ELSE c.system
           read  == Desktop!AutostartEntry(c, f)
           after == Desktop!LockAfter(read)
           blank == Desktop!Get(c, f, "blank")
<1>1. Desktop!ScreenlockRow(s, f) = Desktop!RowOfLightLocker(after, blank)
    <2>1. Desktop!DetectDesktop(s.xdg) = "xfce" /\ c.locker = "light-locker"
        BY DEF Desktop!IsSession
    <2>2. /\ Desktop!DetectDesktop(s.xdg) \notin {"gnome", "cinnamon"}
          /\ Desktop!DetectDesktop(s.xdg) # "mate" /\ Desktop!DetectDesktop(s.xdg) # "kde"
          /\ Desktop!DetectDesktop(s.xdg) # "hyprland" /\ c.locker # "xfce4-screensaver"
        BY <2>1
    <2>3. Desktop!ScreenlockRow(s, f) = Desktop!XfceRow(c, f)
        BY <2>1, <2>2, Zenon DEF Desktop!ScreenlockRow
    <2> QED
        BY <2>1, <2>2, <2>3, Zenon DEF Desktop!XfceRow
<1>2. Desktop!LockTimes(s) =
        UNION {Desktop!After(~e.hidden, c.blank, Desktop!Set(e.after, LightLockerLag), 1) :
               e \in entry}
    <2>1. /\ s.runs \notin {"gnome", "cinnamon"} /\ s.runs # "mate" /\ s.runs # "kde"
          /\ s.runs # "hyprland" /\ s.runs # "xfce4-screensaver"
        OBVIOUS
    <2> QED
        BY <2>1, Zenon DEF Desktop!LockTimes
<1>3. PICK b \in Nat : b = c.blank /\ blank \in {{}, {b}}
    BY DEF Desktop!IsSession, Desktop!Get
<1>4. /\ \A x, y \in entry : x = y
      /\ \A x, y \in read : x = y
      /\ \A e \in entry \cup read : e.hidden \in BOOLEAN /\ Desktop!IsOptionOf(e.after, Nat)
    BY DEF Desktop!IsSession, Desktop!AutostartEntry
<1>5. after = UNION {IF e.hidden THEN {} ELSE Desktop!OrElse(e.after, LightLockerLag) : e \in read}
    BY Zenon DEF Desktop!LockAfter
<1>e. ~Unread(f) => read = entry
    BY DEF Unread, Desktop!AutostartEntry
<1> HIDE DEF entry, read, after, blank
<1>6. CASE \A e \in read : e.hidden
    <2>1. after = {}
        BY <1>5, <1>6
    <2>2. ASSUME ~Unread(f) PROVE Desktop!LockTimes(s) = {}
        <3>1. \A e \in entry :
                Desktop!After(~e.hidden, c.blank, Desktop!Set(e.after, LightLockerLag), 1) = {}
            BY <1>e, <1>6, <2>2 DEF Desktop!After
        <3> QED
            BY <1>2, <3>1
    <2>3. Desktop!RowOfLightLocker(after, blank) = Desktop!Row("no", {})
        BY <2>1, Zenon DEF Desktop!RowOfLightLocker
    <2> QED
        BY <1>1, <2>2, <2>3, NoFits
<1>7. ASSUME NEW e \in read, ~e.hidden
      PROVE  RowFits(s, Desktop!ScreenlockRow(s, f), f)
    <2>1. read = {e}
        BY <1>4
    <2>2. PICK a \in Nat : /\ Desktop!OrElse(e.after, LightLockerLag) = {a}
                           /\ Desktop!Value(Desktop!OrElse(e.after, LightLockerLag)) = a
        BY <1>4, OptionValue, BuiltinAssumption
    <2>3. after = {a} /\ after # {}
        BY <1>5, <1>7, <2>1, <2>2
    <2>4. ASSUME ~Unread(f) PROVE Desktop!LockTimes(s) = Desktop!After(TRUE, b, a, 1)
        <3>1. Desktop!LockTimes(s) =
                Desktop!After(~e.hidden, c.blank, Desktop!Set(e.after, LightLockerLag), 1)
            BY <1>2, <1>e, <2>1, <2>4
        <3>2. Desktop!Set(e.after, LightLockerLag) = a
            BY <2>2 DEF Desktop!Set
        <3>3. (~e.hidden) = TRUE
            BY <1>7
        <3> QED
            BY <1>3, <3>1, <3>2, <3>3
    <2>5. CASE blank = {}
        <3>1. Desktop!RowOfLightLocker(after, blank) = Desktop!Row("unknown", {})
            BY <2>3, <2>5, Zenon DEF Desktop!RowOfLightLocker
        <3> QED
            BY <1>1, <3>1, UnknownFits
    <2>6. CASE blank = {b} /\ b = 0
        <3>1. blank # {} /\ blank = {0}
            BY <2>6
        <3>2. Desktop!RowOfLightLocker(after, blank) = Desktop!Row("no", {0})
            BY <2>3, <3>1, Zenon DEF Desktop!RowOfLightLocker
        <3>3. ~Unread(f) => Desktop!LockTimes(s) = {}
            BY <2>4, <2>6 DEF Desktop!After
        <3> QED
            BY <1>1, <3>2, <3>3, NoFits
    <2>7. CASE blank = {b} /\ b # 0
        <3>1. blank # {} /\ blank # {0} /\ Desktop!Value(blank) = b /\ Desktop!Value(after) = a
            BY <2>3, <2>7, ValueOf
        <3>2. Desktop!RowOfLightLocker(after, blank) = Desktop!Row("yes", {b + a})
            BY <2>3, <3>1, Zenon DEF Desktop!RowOfLightLocker
        <3>3. ~Unread(f) => Desktop!LockTimes(s) = {b + a}
            BY <2>4, <2>7 DEF Desktop!After
        <3>4. b + a \in Nat \ {0} /\ b + a <= b + a
            BY <2>7
        <3> QED
            BY <1>1, <3>2, <3>3, <3>4, YesFits
    <2> QED
        BY <1>3, <2>5, <2>6, <2>7
<1> QED
    BY <1>6, <1>7

\* A session that nothing the check knows locks is "unknown".
LEMMA NoLockerFits ==
    ASSUME NEW s, Desktop!IsSession(s), NEW f,
           s.runs \notin Desktop!OwnLockers \cup Desktop!Lockers
    PROVE  RowFits(s, Desktop!ScreenlockRow(s, f), f)
<1>1. CASE Desktop!DetectDesktop(s.xdg) = "unknown"
    <2>1. /\ Desktop!DetectDesktop(s.xdg) \notin {"gnome", "cinnamon"}
          /\ Desktop!DetectDesktop(s.xdg) # "mate" /\ Desktop!DetectDesktop(s.xdg) # "kde"
          /\ Desktop!DetectDesktop(s.xdg) # "hyprland" /\ Desktop!DetectDesktop(s.xdg) # "xfce"
        BY <1>1
    <2>2. Desktop!ScreenlockRow(s, f) = Desktop!Row("unknown", {})
        BY <2>1, Zenon DEF Desktop!ScreenlockRow
    <2> QED
        BY <2>2, UnknownFits
<1>2. CASE Desktop!DetectDesktop(s.xdg) = "xfce" /\ s.settings.locker \notin Desktop!Lockers
    <2>1. /\ Desktop!DetectDesktop(s.xdg) \notin {"gnome", "cinnamon"}
          /\ Desktop!DetectDesktop(s.xdg) # "mate" /\ Desktop!DetectDesktop(s.xdg) # "kde"
          /\ Desktop!DetectDesktop(s.xdg) # "hyprland"
          /\ s.settings.locker # "xfce4-screensaver" /\ s.settings.locker # "light-locker"
        BY <1>2 DEF Desktop!Lockers
    <2>2. Desktop!ScreenlockRow(s, f) = Desktop!XfceRow(s.settings, f)
        BY <1>2, <2>1, Zenon DEF Desktop!ScreenlockRow
    <2>3. Desktop!XfceRow(s.settings, f) = Desktop!Row("unknown", {})
        BY <2>1, Zenon DEF Desktop!XfceRow
    <2> QED
        BY <2>2, <2>3, UnknownFits
<1> QED
    BY <1>1, <1>2 DEF Desktop!IsSession

\* Whatever locks the session and whatever gives no answer.
LEMMA SessionSaid ==
    ASSUME NEW s, Desktop!IsSession(s), NEW f
    PROVE  RowFits(s, Desktop!ScreenlockRow(s, f), f)
BY GsettingsFits, MateFits, KdeFits, HyprlandFits, XfceScreensaverFits, LightLockerFits,
   NoLockerFits
DEF Desktop!OwnLockers, Desktop!Lockers

-----------------------------------------------------------------------------
(* Windows' screen lock.                                                   *)

\* What a cycle leaves alone.
SettingsInv ==
    /\ host \in Hosts /\ limit \in Limits /\ keys \in Registries
    /\ saver \in [active : BOOLEAN, secure : BOOLEAN, timeout : Seconds]
    /\ FirstSet("active") \subseteq {saver.active}
    /\ FirstSet("secure") \subseteq {saver.secure}
    /\ FirstSet("timeout") \subseteq {saver.timeout}

\* What is said of the screen saver is what Windows does with its values, whatever it
\* makes of one that is unset.
LEMMA ScreensaverIs ==
    ASSUME SettingsInv
    PROVE  /\ ScreensaverVerdict.locks \in {{}, {TRUE}, {FALSE}}
           /\ ScreensaverVerdict.delay \in {{}, {saver.timeout}}
           /\ ScreensaverVerdict.locks = {TRUE} =>
                 SaverLocks /\ saver.timeout # 0 /\ ScreensaverVerdict.delay = {saver.timeout}
           /\ ScreensaverVerdict.locks = {FALSE} => ~SaverLocks
<1> DEFINE active  == FirstSet("active")
           secure  == FirstSet("secure")
           timeout == FirstSet("timeout")
           exe     == FirstSet("exe")
           refuses == FALSE \in active \cup secure \/ timeout = {0}
           partial == {} \in {active, secure, timeout}
<1>1. /\ ScreensaverVerdict.locks = IF NothingSet \/ refuses THEN {FALSE}
                                    ELSE IF partial THEN {} ELSE {exe # {}}
      /\ ScreensaverVerdict.delay = timeout
    BY DEF ScreensaverVerdict
<1>2. /\ saver.active \in BOOLEAN /\ saver.secure \in BOOLEAN /\ saver.timeout \in Nat
      /\ active \in {{}, {saver.active}} /\ secure \in {{}, {saver.secure}}
      /\ timeout \in {{}, {saver.timeout}}
    <2>1. /\ saver.active \in BOOLEAN /\ saver.secure \in BOOLEAN /\ saver.timeout \in Nat
          /\ active \subseteq {saver.active} /\ secure \subseteq {saver.secure}
          /\ timeout \subseteq {saver.timeout}
        BY ScreenLockAssumption DEF SettingsInv
    <2> HIDE DEF active, secure, timeout
    <2> QED
        BY <2>1
<1>n. {FALSE} # {TRUE} /\ {FALSE} # {} /\ {TRUE} # {}
    OBVIOUS
<1>3. SaverLocks <=> ~NothingSet /\ exe # {} /\ saver.active /\ saver.secure /\ saver.timeout > 0
    BY DEF SaverLocks
<1>4. CASE NothingSet
    BY <1>1, <1>2, <1>3, <1>4
<1>5. CASE ~NothingSet /\ refuses
    <2>1. ~saver.active \/ ~saver.secure \/ saver.timeout = 0
        BY <1>2, <1>5
    <2> QED
        <3>1. ScreensaverVerdict.locks = {FALSE}
            BY <1>1, <1>5
        <3>2. ~SaverLocks
            BY <1>2, <1>3, <2>1
        <3> HIDE DEF active, secure, timeout
        <3> QED
            BY <1>1, <1>2, <1>n, <3>1, <3>2
<1>6. CASE ~NothingSet /\ ~refuses /\ partial
    BY <1>1, <1>2, <1>6
<1>7. CASE ~NothingSet /\ ~refuses /\ ~partial
    <2>1. saver.active /\ saver.secure /\ saver.timeout # 0 /\ timeout = {saver.timeout}
        BY <1>2, <1>7
    <2> HIDE DEF active, secure, timeout, refuses, partial
    <2>2. CASE exe = {}
        <3>1. ScreensaverVerdict.locks = {FALSE} /\ ~SaverLocks
            BY <1>1, <1>3, <1>7, <2>2
        <3> QED
            BY <1>1, <1>2, <1>n, <3>1
    <2>3. CASE exe # {}
        <3>1. ScreensaverVerdict.locks = {TRUE} /\ SaverLocks
            <4>1. ScreensaverVerdict.locks = {TRUE}
                BY <1>1, <1>7, <2>3
            <4>2. SaverLocks
                BY <1>2, <1>3, <1>7, <2>1, <2>3
            <4> QED
                BY <4>1, <4>2
        <3> QED
            BY <1>1, <1>n, <2>1, <3>1
    <2> QED
        BY <2>2, <2>3
<1> QED
    BY <1>4, <1>5, <1>6, <1>7

\* What was read is what is so.
Faithful(power) ==
    /\ \A s \in States : power.states[s] \in {{}, {host.states[s]}}
    /\ power.battery \in {{}, {host.battery}}
    /\ \A s \in Sources : /\ power.lock[s] \in {{}, {host.lock[s]}}
                          /\ \A t \in Triggers : power.idle[s][t] \in {{}, {host.idle[s][t]}}

\* A read gives what is so, or nothing.
LEMMA ReadsAreFaithful == Faithful(ReadPower)
BY DEF Faithful, ReadPower, Read

\* What the power settings hold.
LEMMA HostIs ==
    ASSUME SettingsInv
    PROVE  /\ host.battery \in BOOLEAN
           /\ \A s \in States : host.states[s] \in BOOLEAN
           /\ \A s \in Sources : /\ host.lock[s] \in BOOLEAN
                                 /\ \A t \in Triggers : host.idle[s][t] \in Seconds
<1>1. host \in Hosts
    BY DEF SettingsInv
<1>2. \A s \in Sources : host.idle[s] \in Schemes
    BY <1>1 DEF Hosts
<1> QED
    BY <1>1, <1>2, ScreenLockAssumption DEF Hosts

\* The way each trigger takes, one by one.
LEMMA EntersIs ==
    /\ Enters("standby") <=> host.states.standby \/ host.states.modern
    /\ Enters("hibernate") <=> host.states.hibernate
    /\ Enters("displayOff") <=> host.states.modern
<1>1. Enters("standby") <=> host.states.standby \/ host.states.modern
    BY Zenon DEF Enters
<1>2. "hibernate" # "standby" /\ "displayOff" # "standby" /\ "displayOff" # "hibernate"
    OBVIOUS
<1>3. Enters("hibernate") <=> host.states.hibernate
    BY <1>2, Zenon DEF Enters
<1>4. Enters("displayOff") <=> host.states.modern
    BY <1>2, Zenon DEF Enters
<1> QED
    BY <1>1, <1>3, <1>4

\* A trigger that is looked at works on this host, and with the states read no other
\* does.
LEMMA CandidatesEnter ==
    ASSUME SettingsInv, NEW power, Faithful(power)
    PROVE  /\ \A t \in Candidates(power) : t \in Triggers /\ Enters(t)
           /\ (\A s \in States : power.states[s] # {}) =>
                \A t \in Triggers : Enters(t) => t \in Candidates(power)
<1> DEFINE offered == {s \in States : power.states[s] = {TRUE}}
<1>1. \A s \in States : /\ s \in offered => host.states[s]
                        /\ power.states[s] # {} /\ host.states[s] => s \in offered
    BY HostIs DEF Faithful
<1>2. \A t : t \in Candidates(power) <=>
        \/ t = "standby" /\ ("standby" \in offered \/ "modern" \in offered)
        \/ t = "hibernate" /\ "hibernate" \in offered
        \/ t = "displayOff" /\ "modern" \in offered
    BY DEF Candidates
<1> HIDE DEF offered
<1> QED
    BY <1>1, <1>2, EntersIs DEF States, Triggers

\* The least of a set of naturals.
LEMMA MinIs ==
    ASSUME NEW S, S \subseteq Nat, S # {}
    PROVE  Min(S) \in S /\ \A k \in S : Min(S) <= k
BY Least DEF Min

\* Of the power sources that are judged, the one that is the latest to lock.
LEMMA LatestIs ==
    ASSUME NEW power, \A s \in Judged(power) : Min(Timers(power, s)) \in Nat
    PROVE  LET latest == Max({Min(Timers(power, s)) : s \in Judged(power)})
           IN  /\ \E s \in Judged(power) : latest = Min(Timers(power, s))
               /\ \A s \in Judged(power) : Min(Timers(power, s)) <= latest
<1> DEFINE T(s) == Min(Timers(power, s))
           S == {T(s) : s \in Judged(power)}
<1>1. \E m \in S : \A k \in S : m >= k
    <2> HIDE DEF T
    <2>1. CASE TRUE \notin power.battery
        <3>1. S = {T("ac")}
            BY <2>1 DEF Judged
        <3>2. T("ac") \in Nat
            BY <2>1 DEF Judged, T
        <3> QED
            BY <3>1, <3>2
    <2>2. CASE TRUE \in power.battery
        <3>1. S = {T("ac"), T("dc")}
            BY <2>2 DEF Judged, Sources
        <3>2. T("ac") \in Nat /\ T("dc") \in Nat
            BY <2>2 DEF Judged, Sources, T
        <3>3. T("ac") >= T("dc") \/ T("dc") >= T("ac")
            BY <3>2
        <3> QED
            BY <3>1, <3>2, <3>3
    <2> QED
        BY <2>1, <2>2
<1>2. Max(S) \in S /\ \A k \in S : Max(S) >= k
    <2> HIDE DEF S
    <2> QED
        BY <1>1 DEF Max
<1>3. \A s \in Judged(power) : T(s) \in Nat
    OBVIOUS
<1> HIDE DEF T
<1>4. /\ \E s \in Judged(power) : Max(S) = T(s)
      /\ \A s \in Judged(power) : T(s) <= Max(S)
    BY <1>2, <1>3
<1> QED
    BY <1>4 DEF T

\* On power source s nothing but the screen saver and the limit locks the host.
StaysAwake(s) == \A t \in Triggers : host.lock[s] /\ Enters(t) => host.idle[s][t] = 0

\* The power sources that are judged, and with the battery read all that there are.
LEMMA JudgedArePowered ==
    ASSUME SettingsInv, NEW power, Faithful(power)
    PROVE  /\ Judged(power) \subseteq Powered /\ Powered \subseteq Sources /\ "ac" \in Judged(power)
           /\ power.battery # {} => Judged(power) = Powered
BY HostIs DEF Judged, Powered, Sources, Faithful

\* A source that is judged to stay open does.
LEMMA PowerSaysNo ==
    ASSUME SettingsInv, NEW power, Faithful(power), ~Unreadable(power),
           NEW s \in Judged(power), StaysOpen(power, s)
    PROVE  StaysAwake(s)
<1>1. s \in Sources
    BY JudgedArePowered
<1>2. CASE power.lock[s] = {FALSE}
    BY <1>1, <1>2, HostIs DEF Faithful, StaysAwake
<1>3. CASE Timers(power, s) = {}
    <2> SUFFICES ASSUME NEW t \in Triggers, Enters(t) PROVE host.idle[s][t] = 0
        BY DEF StaysAwake
    <2>1. t \in Candidates(power)
        BY CandidatesEnter DEF Unreadable
    <2>2. power.idle[s][t] = {host.idle[s][t]}
        BY <1>1, <2>1 DEF Unreadable, Faithful
    <2>3. host.idle[s][t] \in UNION {power.idle[s][u] : u \in Candidates(power)}
        BY <2>1, <2>2
    <2> QED
        BY <1>3, <2>3 DEF Timers
<1> QED
    BY <1>2, <1>3 DEF StaysOpen

\* A timer that was read is of a trigger that works on this host.
LEMMA TimersAre ==
    ASSUME SettingsInv, NEW power, Faithful(power), NEW s \in Sources, NEW m \in Timers(power, s)
    PROVE  /\ m \in Seconds \ {0}
           /\ \E t \in Triggers : Enters(t) /\ m = host.idle[s][t]
<1>1. PICK t \in Candidates(power) : m \in power.idle[s][t] /\ m # 0
    BY DEF Timers
<1>2. t \in Triggers /\ Enters(t)
    BY CandidatesEnter
<1>3. m = host.idle[s][t]
    BY <1>1, <1>2 DEF Faithful
<1> QED
    BY <1>1, <1>2, <1>3, HostIs

\* When no source stays open, each locks by the latest of their timers.
LEMMA PowerSaysYes ==
    ASSUME SettingsInv, NEW power, Faithful(power), ~Unreadable(power),
           \A s \in Judged(power) : ~StaysOpen(power, s)
    PROVE  /\ Max({Min(Timers(power, s)) : s \in Judged(power)}) \in Seconds \ {0}
           /\ \A s \in Powered : \E t \in LockTimes(s) :
                 t <= Max({Min(Timers(power, s1)) : s1 \in Judged(power)})
<1> DEFINE latest == Max({Min(Timers(power, s)) : s \in Judged(power)})
<1>1. \A s \in Judged(power) : s \in Sources /\ Timers(power, s) # {} /\ power.lock[s] # {FALSE}
    BY JudgedArePowered DEF StaysOpen
<1>2. ASSUME NEW s \in Judged(power)
      PROVE  Min(Timers(power, s)) \in Timers(power, s)
    <2>1. Timers(power, s) \subseteq Nat
        BY <1>1, TimersAre, ScreenLockAssumption
    <2> QED
        BY <1>1, <2>1, MinIs
<1>3. ASSUME NEW s \in Judged(power)
      PROVE  /\ Min(Timers(power, s)) \in Seconds \ {0}
             /\ \E t \in Triggers : Enters(t) /\ Min(Timers(power, s)) = host.idle[s][t]
    <2>1. s \in Sources /\ Min(Timers(power, s)) \in Timers(power, s)
        BY <1>1, <1>2
    <2> QED
        BY <2>1, TimersAre
<1>4. /\ \E s \in Judged(power) : latest = Min(Timers(power, s))
      /\ \A s \in Judged(power) : Min(Timers(power, s)) <= latest
    <2>1. \A s \in Judged(power) : Min(Timers(power, s)) \in Nat
        BY <1>3, ScreenLockAssumption
    <2> QED
        BY <2>1, LatestIs
<1>5. Candidates(power) # {}
    BY <1>1, JudgedArePowered DEF Timers
<1>6. Judged(power) = Powered /\ \A s \in Judged(power) : power.lock[s] # {}
    BY <1>5, JudgedArePowered DEF Unreadable
<1> HIDE DEF latest
<1>7. ASSUME NEW s \in Powered PROVE \E t \in LockTimes(s) : t <= latest
    <2>1. PICK t \in Triggers : Enters(t) /\ Min(Timers(power, s)) = host.idle[s][t]
        BY <1>3, <1>6
    <2>2. host.lock[s]
        <3>1. s \in Sources /\ power.lock[s] # {FALSE} /\ power.lock[s] # {}
            BY <1>1, <1>6
        <3>2. power.lock[s] = {host.lock[s]} /\ host.lock[s] \in BOOLEAN
            BY <3>1, HostIs DEF Faithful
        <3> QED
            BY <3>1, <3>2
    <2>3. host.idle[s][t] \in LockTimes(s)
        BY <1>3, <1>6, <2>1, <2>2 DEF LockTimes
    <2> QED
        BY <1>4, <1>6, <2>1, <2>3
<1> QED
    BY <1>3, <1>4, <1>7 DEF latest

\* Every power source locks the host within d.
LocksWithin(d) == \A s \in Powered : \E t \in LockTimes(s) : t <= d

\* The verdict of the power path, in its three cases.
LEMMA PowerIs ==
    ASSUME SettingsInv
    PROVE  LET v == PowerVerdict(ReadPower) IN
           \/ v.locks = {} /\ v.delay = {}
           \/ v.locks = {FALSE} /\ v.delay = {} /\ \E s \in Powered : StaysAwake(s)
           \/ v.locks = {TRUE} /\ \E d \in Seconds \ {0} : v.delay = {d} /\ LocksWithin(d)
<1> DEFINE power  == ReadPower
           latest == Max({Min(Timers(power, s)) : s \in Judged(power)})
           v      == PowerVerdict(power)
<1>0. Faithful(power)
    BY ReadsAreFaithful
<1>1. CASE Unreadable(power)
    BY <1>1 DEF PowerVerdict
<1>2. CASE ~Unreadable(power) /\ \E s \in Judged(power) : StaysOpen(power, s)
    <2>1. v = [locks |-> {FALSE}, delay |-> {}]
        BY <1>2 DEF PowerVerdict
    <2>2. \E s \in Powered : StaysAwake(s)
        BY <1>0, <1>2, PowerSaysNo, JudgedArePowered
    <2> HIDE DEF v, power
    <2>3. v.locks = {FALSE} /\ v.delay = {}
        BY <2>1
    <2> QED
        BY <2>2, <2>3 DEF v, power
<1>3. CASE ~Unreadable(power) /\ \A s \in Judged(power) : ~StaysOpen(power, s)
    <2>1. v = [locks |-> {TRUE}, delay |-> {latest}]
        BY <1>3 DEF PowerVerdict
    <2>2. latest \in Seconds \ {0} /\ LocksWithin(latest)
        BY <1>0, <1>3, PowerSaysYes DEF LocksWithin
    <2> HIDE DEF latest, v, power
    <2>3. v.locks = {TRUE} /\ v.delay = {latest}
        BY <2>1
    <2> QED
        BY <2>2, <2>3 DEF v, power
<1> QED
    BY <1>1, <1>2, <1>3

\* A screen saver that is said to lock does so on every power source.
LEMMA ScreensaverLocksWithin ==
    ASSUME SettingsInv, ScreensaverVerdict.locks = {TRUE}
    PROVE  /\ ScreensaverVerdict.delay = {saver.timeout}
           /\ saver.timeout \in Seconds \ {0} /\ LocksWithin(saver.timeout)
<1>1. SaverLocks /\ saver.timeout # 0 /\ ScreensaverVerdict.delay = {saver.timeout}
    BY ScreensaverIs
<1>2. saver.timeout \in Seconds
    BY DEF SettingsInv
<1>t. saver.timeout <= saver.timeout
    <2>1. saver.timeout \in Nat
        BY <1>2, ScreenLockAssumption
    <2> QED
        BY <2>1
<1>3. \A s \in Powered : saver.timeout \in LockTimes(s)
    BY <1>1 DEF LockTimes
<1> QED
    BY <1>1, <1>2, <1>3, <1>t DEF LocksWithin

\* The row: a "yes" bounds every power source, a "no" is of one that stays open.
LEMMA WindowsRowSaid ==
    ASSUME SettingsInv
    PROVE  LET r == WindowsScreenlockRow IN
           \/ r.enabled = "unknown" /\ r.delay = {}
           \/ /\ r.enabled = "no" /\ r.delay \in {{}} \cup {{s} : s \in Seconds}
              /\ \E s \in Powered : LockTimes(s) = {}
           \/ r.enabled = "yes" /\ \E d \in Seconds \ {0} : r.delay = {d} /\ LocksWithin(d)
<1>1. CASE limit \ {0} # {}
    <2>1. PICK l \in Seconds \ {0} : limit = {l}
        BY <1>1, ScreenLockAssumption DEF SettingsInv
    <2>2. WindowsScreenlockRow = Row("yes", {l})
        BY <1>1, <2>1 DEF WindowsScreenlockRow
    <2>3. \A s \in Powered : l \in LockTimes(s)
        BY <2>1 DEF LockTimes
    <2>4. l <= l
        BY ScreenLockAssumption
    <2>5. LocksWithin(l)
        BY <2>3, <2>4 DEF LocksWithin
    <2> QED
        BY <2>2, <2>5 DEF Row
<1>2. CASE limit \ {0} = {}
    <2> DEFINE ss      == ScreensaverVerdict
               pw      == PowerVerdict(ReadPower)
               locking == {v \in {ss, pw} : v.locks = {TRUE}}
               delays  == UNION {v.delay : v \in locking}
    <2>1. WindowsScreenlockRow =
             IF locking # {} THEN Row("yes", {Min(delays)})
             ELSE IF {} \in {ss.locks, pw.locks} THEN Row("unknown", {}) ELSE Row("no", ss.delay)
        BY <1>2 DEF WindowsScreenlockRow, RowOf
    <2>2. \/ pw.locks = {} /\ pw.delay = {}
          \/ pw.locks = {FALSE} /\ pw.delay = {} /\ \E s \in Powered : StaysAwake(s)
          \/ pw.locks = {TRUE} /\ \E d \in Seconds \ {0} : pw.delay = {d} /\ LocksWithin(d)
        BY PowerIs
    <2>3. /\ ss.locks \in {{}, {TRUE}, {FALSE}}
          /\ ss.delay \in {{}} \cup {{s} : s \in Seconds}
          /\ ss.locks = {TRUE} => \E d \in Seconds \ {0} : ss.delay = {d} /\ LocksWithin(d)
          /\ ss.locks = {FALSE} => ~SaverLocks
        BY ScreensaverIs, ScreensaverLocksWithin DEF SettingsInv
    <2> HIDE DEF ss, pw
    <2>4. CASE locking # {}
        <3>1. \A d \in delays : d \in Seconds \ {0} /\ LocksWithin(d)
            <4>1. \A v \in {ss, pw} : v.locks = {TRUE} =>
                     \E d \in Seconds \ {0} : v.delay = {d} /\ LocksWithin(d)
                BY <2>2, <2>3
            <4> QED
                BY <4>1
        <3>2. \A v \in locking : v.delay # {}
            BY <2>2, <2>3
        <3>3. delays # {}
            <4>1. PICK v \in locking : TRUE
                BY <2>4
            <4>2. PICK d \in v.delay : TRUE
                BY <3>2
            <4>3. d \in delays
                BY <4>1, <4>2
            <4> QED
                BY <4>3
        <3> HIDE DEF delays
        <3>4. delays \subseteq Nat
            BY <3>1, ScreenLockAssumption
        <3>5. Min(delays) \in delays
            BY <3>3, <3>4, MinIs
        <3>6. WindowsScreenlockRow = Row("yes", {Min(delays)})
            BY <2>1, <2>4
        <3> QED
            BY <3>1, <3>5, <3>6 DEF Row
    <2>5. CASE locking = {} /\ {} \in {ss.locks, pw.locks}
        <3>1. WindowsScreenlockRow = Row("unknown", {})
            BY <2>1, <2>5
        <3> QED
            BY <3>1 DEF Row
    <2>6. CASE locking = {} /\ {} \notin {ss.locks, pw.locks}
        <3>1. WindowsScreenlockRow = Row("no", ss.delay)
            BY <2>1, <2>6
        <3>2. ss.locks # {TRUE} /\ pw.locks # {TRUE}
            BY <2>6
        <3>3. ~SaverLocks
            BY <2>3, <2>6, <3>2
        <3>4. PICK s \in Powered : StaysAwake(s)
            BY <2>2, <2>6, <3>2
        <3>5. LockTimes(s) = {}
            BY <1>2, <3>3, <3>4 DEF LockTimes, StaysAwake
        <3> QED
            BY <2>3, <3>1, <3>5 DEF Row
    <2> QED
        BY <2>4, <2>5, <2>6
<1> QED
    BY <1>1, <1>2

-----------------------------------------------------------------------------
(* The machine.                                                            *)

\* The checks there are.
Natives == {<<"linux", "disk_encryption">>, <<"linux", "screenlock">>, <<"linux", "auto_update">>,
            <<"windows", "disk_encryption">>, <<"windows", "password_policy">>,
            <<"windows", "screenlock">>}

RunsOne(pair) == Runs(pair[1], pair[2])

\* One check runs at a time.
LEMMA Apart ==
    ASSUME NEW p, NEW n, NEW q, NEW m, Runs(p, n), Runs(q, m)
    PROVE  p = q /\ n = m
BY DEF Runs

\* What each of them reads and answers: first the storage of a Linux host.
LEMMA DiskRuns ==
    ASSUME Runs("linux", "disk_encryption")
    PROVE  HostsRead = Storages /\ RunBuiltinCheck = Disk!Summary(host, failed)
<1>1. /\ ~Runs("linux", "screenlock") /\ ~Runs("linux", "auto_update")
      /\ ~Runs("windows", "disk_encryption") /\ ~Runs("windows", "password_policy")
      /\ ~Runs("windows", "screenlock")
    BY Apart
<1>2. HostsRead = Storages
    BY <1>1, Zenon DEF HostsRead
<1>3. RunBuiltinCheck = Disk!Summary(host, failed)
    BY <1>1, Zenon DEF RunBuiltinCheck
<1> QED
    BY <1>2, <1>3

\* The screen lock of a Linux session.
LEMMA SessionRuns ==
    ASSUME Runs("linux", "screenlock")
    PROVE  HostsRead = Desktops /\ RunBuiltinCheck = Desktop!ScreenlockRow(host, failed)
<1>1. /\ ~Runs("linux", "disk_encryption") /\ ~Runs("linux", "auto_update")
      /\ ~Runs("windows", "disk_encryption") /\ ~Runs("windows", "password_policy")
      /\ ~Runs("windows", "screenlock")
    BY Apart
<1>2. HostsRead = Desktops
    BY <1>1, Zenon DEF HostsRead
<1>3. RunBuiltinCheck = Desktop!ScreenlockRow(host, failed)
    BY <1>1, Zenon DEF RunBuiltinCheck
<1> QED
    BY <1>2, <1>3

\* Automatic updates.
LEMMA ManagerRuns ==
    ASSUME Runs("linux", "auto_update")
    PROVE  HostsRead = Managers /\ RunBuiltinCheck = [enabled |-> Manager!AutoUpdate(host, failed)]
<1>1. /\ ~Runs("linux", "disk_encryption") /\ ~Runs("linux", "screenlock")
      /\ ~Runs("windows", "disk_encryption") /\ ~Runs("windows", "password_policy")
      /\ ~Runs("windows", "screenlock")
    BY Apart
<1>2. HostsRead = Managers
    BY <1>1, Zenon DEF HostsRead
<1>3. RunBuiltinCheck = [enabled |-> Manager!AutoUpdate(host, failed)]
    BY <1>1, Zenon DEF RunBuiltinCheck
<1> QED
    BY <1>2, <1>3

\* The system drive of a Windows host.
LEMMA VolumeRuns ==
    ASSUME Runs("windows", "disk_encryption")
    PROVE  HostsRead = Volumes /\ RunBuiltinCheck = [root |-> Windows!DiskEncryption(host, failed)]
<1>1. /\ ~Runs("linux", "disk_encryption") /\ ~Runs("linux", "screenlock")
      /\ ~Runs("linux", "auto_update") /\ ~Runs("windows", "password_policy")
      /\ ~Runs("windows", "screenlock")
    BY Apart
<1>2. HostsRead = Volumes
    BY <1>1, Zenon DEF HostsRead
<1>3. RunBuiltinCheck = [root |-> Windows!DiskEncryption(host, failed)]
    BY <1>1, Zenon DEF RunBuiltinCheck
<1> QED
    BY <1>2, <1>3

\* The password policy of a Windows host.
LEMMA PolicyRuns ==
    ASSUME Runs("windows", "password_policy")
    PROVE  HostsRead = Policies /\ RunBuiltinCheck = Windows!PasswordPolicy(host, failed)
<1>1. /\ ~Runs("linux", "disk_encryption") /\ ~Runs("linux", "screenlock")
      /\ ~Runs("linux", "auto_update") /\ ~Runs("windows", "disk_encryption")
      /\ ~Runs("windows", "screenlock")
    BY Apart
<1>2. HostsRead = Policies
    BY <1>1, Zenon DEF HostsRead
<1>3. RunBuiltinCheck = Windows!PasswordPolicy(host, failed)
    BY <1>1, Zenon DEF RunBuiltinCheck
<1> QED
    BY <1>2, <1>3

\* The screen lock of a Windows host, whose settings SettingsInv describes.
LEMMA WindowsLockRuns ==
    ASSUME Runs("windows", "screenlock")
    PROVE  SourcesRead = Reads /\ RunBuiltinCheck = WindowsScreenlockRow
<1>1. /\ ~Runs("linux", "disk_encryption") /\ ~Runs("linux", "screenlock")
      /\ ~Runs("linux", "auto_update") /\ ~Runs("windows", "disk_encryption")
      /\ ~Runs("windows", "password_policy")
    BY Apart
<1>2. SourcesRead = Reads
    BY <1>1, Zenon DEF SourcesRead
<1>3. RunBuiltinCheck = WindowsScreenlockRow
    BY <1>1, Zenon DEF RunBuiltinCheck
<1> QED
    BY <1>2, <1>3

\* An item that asks for none of them.
LEMMA NothingRuns ==
    ASSUME \A pair \in Natives : ~RunsOne(pair)
    PROVE  RunBuiltinCheck = NoRows
<1>1. /\ ~Runs("linux", "disk_encryption") /\ ~Runs("linux", "screenlock")
      /\ ~Runs("linux", "auto_update") /\ ~Runs("windows", "disk_encryption")
      /\ ~Runs("windows", "password_policy") /\ ~Runs("windows", "screenlock")
    BY DEF Natives, RunsOne
<1> QED
    BY <1>1, Zenon DEF RunBuiltinCheck

\* What this cycle answers to the item.
Answer ==
    IF Resolved = {} THEN Skipped
    ELSE IF \E r \in Resolved : r.kind = "osquery" THEN Sidecar ELSE RunBuiltinCheck

\* What a platform, an item and a host are made for is kept, and a row is the
\* answer to it with the sources that gave nothing.
CheckInv ==
    /\ item \in Items
    /\ IF Runs("windows", "screenlock") THEN SettingsInv ELSE host \in HostsRead
    /\ failed \subseteq SourcesRead
    /\ row # NoRow => row = Answer

\* The item and the platform decide what is asked and what is read.
LEMMA ResolvedStays ==
    ASSUME UNCHANGED <<os, item>>
    PROVE  Resolved' = Resolved /\ Check' = Check
<1>1. Resolved' = Resolved
    BY DEF Resolved
<1> QED
    BY <1>1 DEF Check, Checks

\* So they decide which check runs, and which sources it reads.
LEMMA AskedStays ==
    ASSUME UNCHANGED <<os, item>>
    PROVE  /\ \A p, n : Runs(p, n)' <=> Runs(p, n)
           /\ SourcesRead' = SourcesRead /\ HostsRead' = HostsRead
<1>1. os' = os /\ Check' = Check
    BY ResolvedStays
<1>2. \A p, n : Runs(p, n)' <=> Runs(p, n)
    BY <1>1 DEF Runs
<1>3. SourcesRead' = SourcesRead
    BY <1>1 DEF Runs, SourcesRead, Reads
<1>4. HostsRead' = HostsRead
    BY <1>1 DEF Runs, HostsRead
<1> QED
    BY <1>2, <1>3, <1>4

\* The answer is a function of the state.
LEMMA AnswerStays ==
    ASSUME UNCHANGED checkVars
    PROVE  Answer' = Answer
<1>1. /\ os' = os /\ item' = item /\ UNCHANGED vars
      /\ host' = host /\ failed' = failed
    BY DEF checkVars, vars
<1>2. WindowsScreenlockRow' = WindowsScreenlockRow
    BY <1>1 DEF WindowsScreenlockRow, ScreensaverVerdict, FirstSet, NothingSet,
                 ReadPower, Read, Ok, vars
<1>3. Resolved' = Resolved /\ Check' = Check
    BY <1>1, ResolvedStays
<1>4. RunBuiltinCheck' = RunBuiltinCheck
    BY <1>1, <1>2, <1>3, ZenonT(60) DEF Runs, RunBuiltinCheck, NoRows
<1> QED
    BY <1>3, <1>4 DEF Answer, Skipped, Sidecar

\* CheckInv holds at first.
LEMMA CheckInit == BuiltinInit => CheckInv
<1> SUFFICES ASSUME BuiltinInit PROVE CheckInv
    OBVIOUS
<1>1. CASE Runs("windows", "screenlock") /\ Init
    <2>1. SettingsInv
        BY <1>1 DEF Init, SettingsInv
    <2> QED
        BY <1>1, <2>1 DEF BuiltinInit, Init, CheckInv
<1>2. CASE ~Runs("windows", "screenlock") /\ host \in HostsRead /\ failed = {} /\ row = NoRow
    BY <1>2 DEF BuiltinInit, CheckInv
<1> QED
    BY <1>1, <1>2 DEF BuiltinInit

\* Every step keeps it: a collected item has the answer of the new state, the end
\* of a cycle has none, and neither changes what the answer is made from but failed.
LEMMA CheckStep == CheckInv /\ [BuiltinNext]_checkVars => CheckInv'
<1> SUFFICES ASSUME CheckInv, [BuiltinNext]_checkVars PROVE CheckInv'
    OBVIOUS
<1> USE DEF CheckInv
<1>1. UNCHANGED <<os, item, host, limit, keys, saver>>
    BY DEF BuiltinNext, CollectItem, NextCycle, CycleEnds, checkVars, vars
<1>2. /\ Runs("windows", "screenlock")' <=> Runs("windows", "screenlock")
      /\ SourcesRead' = SourcesRead /\ HostsRead' = HostsRead
    BY <1>1, AskedStays
<1>3. item' \in Items
    BY <1>1
<1>4. SettingsInv' <=> SettingsInv
    BY <1>1 DEF SettingsInv, FirstSet, Hosts
<1>5. (IF Runs("windows", "screenlock") THEN SettingsInv ELSE host \in HostsRead)'
    BY <1>1, <1>2, <1>4
<1>6. failed' \subseteq SourcesRead'
    <2>1. CASE CollectItem
        BY <1>2, <2>1 DEF CollectItem, kSubset
    <2>2. CASE NextCycle
        BY <2>2 DEF NextCycle, CycleEnds
    <2>3. CASE UNCHANGED checkVars
        BY <1>2, <2>3 DEF checkVars, vars
    <2> QED
        BY <2>1, <2>2, <2>3 DEF BuiltinNext
<1>7. (row # NoRow => row = Answer)'
    <2>1. CASE CollectItem
        <3>1. Resolved' = Resolved
            BY <1>1, ResolvedStays
        <3> QED
            BY <2>1, <3>1 DEF CollectItem, Answer, Skipped, Sidecar
    <2>2. CASE NextCycle
        BY <2>2 DEF NextCycle, CycleEnds, NoRow
    <2>3. CASE UNCHANGED checkVars
        <3>1. row' = row /\ Answer' = Answer
            BY <2>3, AnswerStays DEF checkVars, vars
        <3> QED
            BY <3>1 DEF NoRow
    <2> QED
        BY <2>1, <2>2, <2>3 DEF BuiltinNext
<1> QED
    BY <1>3, <1>5, <1>6, <1>7

\* On every platform, for every item and host.
THEOREM AnswersAreWhatWasRead == BuiltinSpec => []CheckInv
BY CheckInit, CheckStep, PTL DEF BuiltinSpec

-----------------------------------------------------------------------------
(* What the rows say.                                                      *)

\* The row of a check that runs is that check's.
LEMMA RowIsOfTheCheck ==
    ASSUME CheckInv, NEW p, NEW n, Runs(p, n), row # NoRow
    PROVE  row = RunBuiltinCheck
<1>1. n \in Check
    BY DEF Runs
<1>2. PICK r \in Resolved : r.kind = "builtin"
    BY <1>1 DEF Check
<1>3. \A q \in Resolved : q.kind = "builtin"
    BY <1>2 DEF Resolved, Config!ParseConfigItem
<1> QED
    BY <1>2, <1>3 DEF CheckInv, Answer

\* A check that this platform does not have gives no rows.
LEMMA AnsweredBySome ==
    ASSUME CheckInv, Answered
    PROVE  \E pair \in Natives : RunsOne(pair)
<1>1. row = RunBuiltinCheck
    BY DEF CheckInv, Answered, Answer
<1> QED
    BY <1>1, NothingRuns DEF Answered

\* What the constants are, as far as the checks go.
LEMMA HostsAre ==
    ASSUME CheckInv
    PROVE  /\ Runs("linux", "disk_encryption") => Disk!IsStorage(host)
           /\ Runs("linux", "screenlock") => Desktop!IsSession(host)
           /\ Runs("linux", "auto_update") => Manager!IsManager(host)
           /\ Runs("windows", "disk_encryption") => Windows!IsVolume(host)
<1>1. ASSUME NEW p, NEW n, Runs(p, n), <<p, n>> # <<"windows", "screenlock">>
      PROVE  host \in HostsRead
    <2>1. ~Runs("windows", "screenlock")
        BY <1>1, Apart
    <2> QED
        BY <2>1 DEF CheckInv
<1>2. Runs("linux", "disk_encryption") => host \in Storages
    BY <1>1, DiskRuns
<1>3. Runs("linux", "screenlock") => host \in Desktops
    BY <1>1, SessionRuns
<1>4. Runs("linux", "auto_update") => host \in Managers
    BY <1>1, ManagerRuns
<1>5. Runs("windows", "disk_encryption") => host \in Volumes
    BY <1>1, VolumeRuns
<1> QED
    BY <1>2, <1>3, <1>4, <1>5, BuiltinAssumption

\* The row of each check, once there is one: Linux storage.
LEMMA DiskRow ==
    ASSUME CheckInv, Runs("linux", "disk_encryption"), row # NoRow
    PROVE  row = Disk!Summary(host, failed)
BY RowIsOfTheCheck, DiskRuns

\* A Linux session: the row fits what runs.
LEMMA SessionRow ==
    ASSUME CheckInv, Runs("linux", "screenlock"), row # NoRow
    PROVE  row = Desktop!ScreenlockRow(host, failed) /\ RowFits(host, row, failed)
BY RowIsOfTheCheck, SessionRuns, SessionSaid, HostsAre

\* On a host whose package manager is neither, nothing is known.
LEMMA ManagerSaid ==
    ASSUME NEW m, Manager!IsManager(m), NEW f
    PROVE  /\ Manager!AutoUpdate(m, f) \in Verdicts
           /\ "systemctl" \notin f =>
                /\ Manager!AutoUpdate(m, f) = "yes" => Manager!Installs(m)
                /\ Manager!AutoUpdate(m, f) = "no" => ~Manager!Installs(m)
<1>1. CASE m.kind \notin {"apt", "dnf"}
    <2>1. m.kind # "apt" /\ m.kind # "dnf"
        BY <1>1
    <2>2. Manager!AutoUpdate(m, f) = "unknown"
        BY <2>1, Zenon DEF Manager!AutoUpdate
    <2> QED
        BY <2>2 DEF Verdicts
<1> QED
    BY <1>1, AptSaid, DnfSaid

\* A package manager.
LEMMA ManagerRow ==
    ASSUME CheckInv, Runs("linux", "auto_update"), row # NoRow
    PROVE  /\ row = [enabled |-> Manager!AutoUpdate(host, failed)]
           /\ Manager!IsManager(host)
BY RowIsOfTheCheck, ManagerRuns, HostsAre

\* A Windows drive.
LEMMA VolumeRow ==
    ASSUME CheckInv, Runs("windows", "disk_encryption"), row # NoRow
    PROVE  /\ row = [root |-> Windows!DiskEncryption(host, failed)]
           /\ Windows!IsVolume(host)
BY RowIsOfTheCheck, VolumeRuns, HostsAre

\* A Windows password policy.
LEMMA PolicyRowIs ==
    ASSUME CheckInv, Runs("windows", "password_policy"), row # NoRow
    PROVE  row = Windows!PasswordPolicy(host, failed)
BY RowIsOfTheCheck, PolicyRuns

\* Windows' screen lock: what is so of the row there is, and of none.
LEMMA WindowsRow ==
    ASSUME CheckInv, Runs("windows", "screenlock")
    PROVE  /\ SettingsInv /\ failed \subseteq Reads
           /\ \/ row.enabled \in {"unknown", "none"} /\ row.delay = {}
              \/ /\ row.enabled = "no" /\ row.delay \in {{}} \cup {{s} : s \in Seconds}
                 /\ \E s \in Powered : LockTimes(s) = {}
              \/ /\ row.enabled = "yes"
                 /\ \E d \in Seconds \ {0} : row.delay = {d} /\ LocksWithin(d)
<1>1. SettingsInv /\ failed \subseteq Reads
    BY WindowsLockRuns DEF CheckInv
<1>2. CASE row = NoRow
    BY <1>1, <1>2 DEF NoRow
<1>3. CASE row # NoRow
    <2>1. row = WindowsScreenlockRow
        BY <1>3, RowIsOfTheCheck, WindowsLockRuns
    <2> QED
        BY <1>1, <2>1, WindowsRowSaid
<1> QED
    BY <1>2, <1>3

\* No native check answers for the sidecar.
LEMMA OnlySomeAnswer ==
    ASSUME CheckInv
    PROVE  RunBuiltinCheck # Sidecar
<1>s. DOMAIN Sidecar = {"rows"} /\ Sidecar.rows = "osquery"
    BY DEF Sidecar
<1>1. CASE \A pair \in Natives : ~RunsOne(pair)
    BY <1>1, NothingRuns DEF NoRows, Sidecar
<1>2. CASE Runs("linux", "disk_encryption")
    <2>1. "root" \in DOMAIN RunBuiltinCheck
        BY <1>2, DiskRuns DEF Disk!Summary
    <2> QED
        BY <1>s, <2>1
<1>3. CASE Runs("linux", "screenlock")
    <2>1. DOMAIN RunBuiltinCheck = {"enabled", "delay"}
        BY <1>3, SessionRuns, SessionSaid, HostsAre DEF RowFits
    <2> QED
        BY <1>s, <2>1
<1>4. CASE Runs("linux", "auto_update")
    <2>1. "enabled" \in DOMAIN RunBuiltinCheck
        BY <1>4, ManagerRuns
    <2> QED
        BY <1>s, <2>1
<1>5. CASE Runs("windows", "disk_encryption")
    <2>1. "root" \in DOMAIN RunBuiltinCheck
        BY <1>5, VolumeRuns
    <2> QED
        BY <1>s, <2>1
<1>6. CASE Runs("windows", "password_policy")
    <2>1. "status" \in DOMAIN RunBuiltinCheck
        BY <1>6, PolicyRuns DEF Windows!PasswordPolicy, Windows!PolicyRow
    <2> QED
        BY <1>s, <2>1
<1>7. CASE Runs("windows", "screenlock")
    <2>1. "enabled" \in DOMAIN WindowsScreenlockRow
        BY DEF WindowsScreenlockRow, RowOf, Row
    <2> QED
        BY <1>7, <1>s, <2>1, WindowsLockRuns
<1> QED
    BY <1>1, <1>2, <1>3, <1>4, <1>5, <1>6, <1>7 DEF Natives, RunsOne

\* From CheckInv, the type of every row.
LEMMA TypesFollow == CheckInv => ChecksTypeOK
<1> SUFFICES ASSUME CheckInv PROVE ChecksTypeOK
    OBVIOUS
<1>1. Runs("windows", "screenlock") => TypeOK
    BY WindowsRow DEF TypeOK, SettingsInv
<1>2. Answered => \E name \in Checks : Runs(os, name)
    <2> SUFFICES ASSUME Answered PROVE \E name \in Checks : Runs(os, name)
        OBVIOUS
    <2>1. PICK pair \in Natives : RunsOne(pair)
        BY AnsweredBySome
    <2>2. Runs(os, pair[2]) /\ pair[2] \in Check
        BY <2>1 DEF RunsOne, Runs
    <2>3. pair[2] \in Checks
        BY <2>2 DEF Check
    <2> QED
        BY <2>2, <2>3
<1>3. (Answered /\ Runs("linux", "disk_encryption")) =>
          /\ row.root \in Verdicts /\ row.home \in Verdicts
          /\ row.mechanisms \subseteq {"luks", "dm-crypt", "ecryptfs"}
    <2> SUFFICES ASSUME Answered, Runs("linux", "disk_encryption")
                 PROVE  /\ row.root \in Verdicts /\ row.home \in Verdicts
                        /\ row.mechanisms \subseteq {"luks", "dm-crypt", "ecryptfs"}
        OBVIOUS
    <2>1. row = Disk!Summary(host, failed)
        BY DiskRow DEF Answered
    <2>2. \A path : Disk!Determine(Disk!Devices(host, failed), Disk!Mounts(host, failed), path)
                       \in Verdicts
        BY StorageSaid, HostsAre
    <2>3. row.root \in Verdicts /\ row.home \in Verdicts
        BY <2>1, <2>2 DEF Disk!Summary, Verdicts
    <2>4. row.mechanisms = Disk!Mechanisms(Disk!Devices(host, failed), Disk!Mounts(host, failed))
        BY <2>1 DEF Disk!Summary
    <2> QED
        BY <2>3, <2>4, MechanismsAre
<1>4. (Answered /\ Runs("linux", "screenlock")) =>
          /\ row.enabled \in Verdicts /\ row.delay \subseteq Nat
          /\ row.enabled = "yes" => row.delay # {} /\ 0 \notin row.delay
    BY SessionRow DEF Answered, RowFits
<1>5. (Answered /\ Runs("linux", "auto_update")) => row.enabled \in Verdicts
    BY ManagerRow, ManagerSaid DEF Answered
<1>6. (Answered /\ Runs("windows", "disk_encryption")) => row.root \in Verdicts
    BY VolumeRow, VolumeSaid DEF Answered
<1>7. (Answered /\ Runs("windows", "password_policy")) => row.status \in {"ok", "unknown"}
    BY PolicyRowIs, PolicySaid DEF Answered
<1> QED
    BY <1>1, <1>2, <1>3, <1>4, <1>5, <1>6, <1>7 DEF ChecksTypeOK

\* From CheckInv, both verdicts of Windows' screen lock.
LEMMA WindowsFollows == CheckInv => WindowsYesIsBounded /\ WindowsNoIsSeen
<1> SUFFICES ASSUME CheckInv, Runs("windows", "screenlock") PROVE YesIsBounded /\ NoIsSeen
    BY DEF WindowsYesIsBounded, WindowsNoIsSeen
<1>1. YesIsBounded
    <2> SUFFICES ASSUME row.enabled = "yes", NEW s \in Powered
                 PROVE  \E t \in LockTimes(s), d \in row.delay : t <= d
        BY DEF YesIsBounded
    <2>1. PICK d \in Seconds \ {0} : row.delay = {d} /\ LocksWithin(d)
        BY WindowsRow
    <2> QED
        BY <2>1 DEF LocksWithin
<1>2. NoIsSeen
    BY WindowsRow DEF NoIsSeen
<1> QED
    BY <1>1, <1>2

\* What is said of the mounts of a Linux host.
LEMMA MountsSaid ==
    ASSUME CheckInv, Runs("linux", "disk_encryption"), NEW verdict \in {"yes", "no"},
           NEW path \in MountSaid(verdict)
    PROVE  /\ row = Disk!Summary(host, failed)
           /\ Disk!Determine(Disk!Devices(host, failed), Disk!Mounts(host, failed), path) = verdict
<1>1. row = Disk!Summary(host, failed)
    BY DiskRow DEF MountSaid, Says, Given
<1>2. CASE Says("root", verdict) /\ path = Disk!Root
    BY <1>1, <1>2 DEF Says, Disk!Summary
<1>3. CASE Says("home", verdict) /\ "mounts" \notin failed /\ path = Disk!HomeMount(host)
    <2>1. row.home = verdict
        BY <1>3 DEF Says
    <2>2. host.home # {}
        BY <1>1, <2>1 DEF Disk!Summary
    <2> QED
        BY <1>1, <1>3, <2>1, <2>2, HomeIsAsked
<1> QED
    BY <1>1, <1>2, <1>3 DEF MountSaid

\* From CheckInv, the "yes" of every other check.
LEMMA YesFollows == CheckInv => YesIsTrue
<1> SUFFICES ASSUME CheckInv PROVE YesIsTrue
    OBVIOUS
<1>1. Runs("linux", "disk_encryption") =>
          \A path \in MountSaid("yes") :
             /\ Disk!Encrypted(host, path) \/ Disk!Mixed(host, path)
             /\ row.mechanisms # {}
    <2> SUFFICES ASSUME Runs("linux", "disk_encryption"), NEW path \in MountSaid("yes")
                 PROVE  /\ Disk!Encrypted(host, path) \/ Disk!Mixed(host, path)
                        /\ row.mechanisms # {}
        OBVIOUS
    <2>1. /\ row = Disk!Summary(host, failed)
          /\ Disk!Determine(Disk!Devices(host, failed), Disk!Mounts(host, failed), path) = "yes"
        BY MountsSaid
    <2>2. row.mechanisms = Disk!Mechanisms(Disk!Devices(host, failed), Disk!Mounts(host, failed))
        BY <2>1 DEF Disk!Summary
    <2> QED
        BY <2>1, <2>2, StorageSaid, HostsAre
<1>2. (Runs("linux", "screenlock") /\ Says("enabled", "yes")
          /\ FilesRead /\ "xfconf" \notin failed) =>
          /\ Desktop!LockTimes(host) # {}
          /\ "delay" \notin failed => \E t \in Desktop!LockTimes(host), d \in row.delay : t <= d
    BY SessionRow DEF Says, Given, RowFits, FilesRead, Unread
<1>3. (Runs("linux", "auto_update") /\ Says("enabled", "yes") /\ "systemctl" \notin failed) =>
          Manager!Installs(host)
    BY ManagerRow, ManagerSaid DEF Says, Given
<1>4. (Runs("windows", "disk_encryption") /\ Says("root", "yes")) => Windows!Protected(host)
    BY VolumeRow, VolumeSaid DEF Says, Given
<1> QED
    BY <1>1, <1>2, <1>3, <1>4 DEF YesIsTrue

\* From CheckInv, the "no" of every other check.
LEMMA NoFollows == CheckInv => NoIsTrue
<1> SUFFICES ASSUME CheckInv PROVE NoIsTrue
    OBVIOUS
<1>1. Runs("linux", "disk_encryption") =>
          \A path \in MountSaid("no") : ~Disk!Encrypted(host, path)
    <2> SUFFICES ASSUME Runs("linux", "disk_encryption"), NEW path \in MountSaid("no")
                 PROVE  ~Disk!Encrypted(host, path)
        OBVIOUS
    <2>1. Disk!Determine(Disk!Devices(host, failed), Disk!Mounts(host, failed), path) = "no"
        BY MountsSaid
    <2> QED
        BY <2>1, StorageSaid, HostsAre
<1>2. (Runs("linux", "screenlock") /\ Says("enabled", "no") /\ FilesRead /\ ~HiddenListener) =>
          Desktop!LockTimes(host) = {}
    BY SessionRow DEF Says, Given, RowFits, Hides, HiddenListener, FilesRead, Unread
<1>3. (Runs("linux", "auto_update") /\ Says("enabled", "no") /\ "systemctl" \notin failed) =>
          ~Manager!Installs(host)
    BY ManagerRow, ManagerSaid DEF Says, Given
<1>4. (Runs("windows", "disk_encryption") /\ Says("root", "no")) => ~Windows!Protected(host)
    BY VolumeRow, VolumeSaid DEF Says, Given
<1>5. (Runs("windows", "password_policy") /\ Says("status", "ok")) =>
          /\ row.lockout = 0 => host.lockout = 0
          /\ row.age = {} <=> host.age = Forever
    BY PolicyRowIs, PolicySaid DEF Says, Given
<1> QED
    BY <1>1, <1>2, <1>3, <1>4, <1>5 DEF NoIsTrue

\* From CheckInv, what the sidecar is given: one query, which was let through.
LEMMA OnlyReadsFollows == CheckInv => OnlyReads
<1> SUFFICES ASSUME CheckInv, row = Sidecar, NEW q \in item.sql PROVE ~Config!Writes(q)
    BY DEF OnlyReads
<1>1. row = Answer
    BY DEF CheckInv, Sidecar, NoRow
<1>2. PICK r \in Resolved : r.kind = "osquery"
    BY <1>1, OnlySomeAnswer DEF Answer, Skipped, Sidecar
<1>3. Config!IsItem(item)
    BY BuiltinAssumption DEF CheckInv
<1>4. (CHOOSE p \in item.sql : TRUE) = q
    BY <1>3 DEF Config!IsItem
<1>5. Config!IsReadOnlyQuery(q)
    <2>1. item.sql # {}
        OBVIOUS
    <2> DEFINE natives == {[kind |-> "builtin", check |-> c] : c \in item.check}
    <2>2. Resolved = IF ~Config!PlatformMatches(item.platform, os) THEN {}
                     ELSE IF item.type = "builtin" THEN natives
                     ELSE IF Config!IsReadOnlyQuery(q)
                          THEN {[kind |-> "osquery", sql |-> q]} ELSE {}
        BY <1>4, <2>1, Zenon DEF Resolved, Config!ParseConfigItem
    <2>3. r \notin natives
        BY <1>2
    <2> HIDE DEF natives
    <2> QED
        BY <1>2, <2>2, <2>3
<1> QED
    BY <1>3, <1>5, ReadOnlyQueryWritesNothing

-----------------------------------------------------------------------------
(* On every platform, for every item and host, in every cycle.             *)

\* Every row is one that a check of this platform can give.
THEOREM ChecksTypeCorrect == BuiltinSpec => []ChecksTypeOK
BY AnswersAreWhatWasRead, TypesFollow, PTL

\* A "yes" of Windows' screen lock bounds every power source.
THEOREM WindowsYesHolds == BuiltinSpec => []WindowsYesIsBounded
<1>1. CheckInv => WindowsYesIsBounded
    BY WindowsFollows
<1> QED
    BY AnswersAreWhatWasRead, <1>1, PTL

\* A "no" of it is of a host that stays unlocked on some power source.
THEOREM WindowsNoHolds == BuiltinSpec => []WindowsNoIsSeen
<1>1. CheckInv => WindowsNoIsSeen
    BY WindowsFollows
<1> QED
    BY AnswersAreWhatWasRead, <1>1, PTL

\* A "yes" of any other check is so.
THEOREM YesHolds == BuiltinSpec => []YesIsTrue
BY AnswersAreWhatWasRead, YesFollows, PTL

\* A "no" of any other check is so, whatever gave no answer.
THEOREM NoHolds == BuiltinSpec => []NoIsTrue
BY AnswersAreWhatWasRead, NoFollows, PTL

\* No query that the sidecar is given changes anything.
THEOREM SidecarOnlyReads == BuiltinSpec => []OnlyReads
BY AnswersAreWhatWasRead, OnlyReadsFollows, PTL

=============================================================================
