------------------------------ MODULE SelfUpdate ------------------------------
(***************************************************************************)
(* The update loop of every platform, and the install and relaunch of the  *)
(* Linux AppImage and of Windows.  MacUpdate has the install on macOS.     *)
(*                                                                         *)
(* The schedule compares the system's clock with the time of the last      *)
(* check, so only their difference is kept.  A tick is one poll.           *)
(*                                                                         *)
(* A build is "old", "new", "bad" (not the bytes the release names) or     *)
(* "torn".  What a power loss leaves of the AppImage depends on what was   *)
(* synced: the bytes of the file, and the directory entry that names it.   *)
(***************************************************************************)
EXTENDS Integers

CONSTANTS
    Period,  \* polls in the period of a check: 72 in the code
    Cap      \* polls of the old pid before the relaunch: 150 in the code

VARIABLES
    platform,  \* "appimage"; "package", a deb or rpm; "windows"
    elapsed,   \* the clock less last: -1 if the clock is behind it
    age,       \* ghost: true time since last, or since the clock was set back or
               \* caught up with last
    polled,    \* the tick that passed last has been looked at
    task,      \* run_update_check: where it is, and the release it works on
    staged,    \* the staged file
    synced,    \* its bytes are on the disk, and not in the page cache only
    target,    \* the file that is started as the agent
    durable,   \* what target is once power is lost: the possibilities
    agent,     \* the process: "up", "exiting" or "down", and its build
    helper,    \* what the agent started to come after it, and its polls
    mishaps    \* ghost: "power"; "cap", the old agent outlived the cap;
               \* "job", the agent's job ended the installer

schedule == <<elapsed, age, polled>>
files    == <<staged, synced, target, durable>>
procs    == <<agent, helper, mishaps>>
vars     == <<platform, schedule, task, files, procs>>

\* The clock's lead counts no further than this.
FarPast == 2 * Period

\* No check has been made by this process.
Never == FarPast + 1

Builds   == {"old", "new"}
Contents == Builds \cup {"bad", "torn"}

Downloads == {"right", "wrong", "unchecked", "none"}

Steps == {"check", "download", "create", "write", "sync", "rename", "syncDir",
          "relaunch", "readBack", "spawn", "spawnPlain"}

TypeOK ==
    /\ platform \in {"appimage", "package", "windows"}
    /\ elapsed \in -1..Never
    /\ age \in 0..FarPast
    /\ polled \in BOOLEAN
    /\ task \in [pc : {"waiting"} \cup Steps, bytes : {"none", "new", "bad"}]
    /\ staged \in Contents \cup {"none"}
    /\ synced \in BOOLEAN
    /\ target \in Contents
    /\ durable \subseteq Contents
    /\ agent \in [pc : {"up", "exiting", "down"}, runs : Builds \cup {"none"}]
    /\ helper \in [pc : {"none", "polling", "installing"}, polls : 0..Cap, bound : BOOLEAN]
    /\ mishaps \subseteq {"power", "cap", "job"}

Idle     == [pc |-> "waiting", bytes |-> "none"]
NoHelper == [pc |-> "none", polls |-> 0, bound |-> FALSE]

At(pc)   == agent.pc = "up" /\ task.pc = pc
Goto(pc) == task' = [task EXCEPT !.pc = pc]
GiveUp   == task' = Idle

FreshSchedule ==
    /\ elapsed' = Never
    /\ age' = 0
    /\ polled' = FALSE

Init ==
    /\ platform \in {"appimage", "package", "windows"}
    /\ elapsed = Never
    /\ age = 0
    /\ polled = FALSE
    /\ task = Idle
    /\ staged = "none"
    /\ synced = FALSE
    /\ target = "old"
    /\ durable = {"old"}
    /\ agent = [pc |-> "up", runs |-> "old"]
    /\ helper = NoHelper
    /\ mishaps = {}

-----------------------------------------------------------------------------
(* The schedule.                                                           *)

AtMost(n, bound) == IF n < bound THEN n ELSE bound

\* k polls' worth of time passes.  A clock that is behind may catch up.
Pass(k) ==
    \/ elapsed = Never /\ UNCHANGED <<elapsed, age>>
    \/ /\ elapsed \in 0..FarPast
       /\ elapsed' = AtMost(elapsed + k, FarPast)
       /\ age' = AtMost(age + k, FarPast)
    \/ /\ elapsed = -1
       /\ elapsed' = -1
       /\ age' = AtMost(age + k, FarPast)
    \/ /\ elapsed = -1
       /\ elapsed' \in 0..(k - 1)
       /\ age' = elapsed'

\* The interval ticks.  A tick during a check is looked at after it.
Tick ==
    /\ agent.pc = "up"
    /\ task.pc = "waiting" => polled
    /\ Pass(1)
    /\ polled' = FALSE
    /\ UNCHANGED <<platform, task, files, procs>>

\* The host is suspended: its clock goes on, the interval does not.
Suspend ==
    /\ agent.pc = "up"
    /\ \E k \in 1..Period : Pass(k)
    /\ UNCHANGED <<platform, polled, task, files, procs>>

\* Somebody, or NTP, sets the clock.
SetClock ==
    /\ agent.pc = "up"
    /\ elapsed # Never
    /\ elapsed' \in -1..FarPast
    /\ age' = IF elapsed' < elapsed \/ (elapsed < 0 /\ elapsed' >= 0) THEN 0 ELSE age
    /\ UNCHANGED <<platform, polled, task, files, procs>>

\* Bug: a clock that is behind the last check is not due.
CheckDueAhead == elapsed >= Period

\* duration_since fails for a last check that is in the future.
CheckDue == elapsed >= Period \/ elapsed = -1

\* last is set before the check is made.
PollDue ==
    /\ At("waiting")
    /\ ~polled
    /\ CheckDue
    /\ elapsed' = 0
    /\ age' = 0
    /\ polled' = TRUE
    /\ Goto("check")
    /\ UNCHANGED <<platform, files, procs>>

PollNotDue ==
    /\ At("waiting")
    /\ ~polled
    /\ ~CheckDue
    /\ polled' = TRUE
    /\ UNCHANGED <<platform, elapsed, age, task, files, procs>>

-----------------------------------------------------------------------------
(* The check and the download.                                             *)

\* The release is newer and has an asset for this platform and architecture.
\* A deb or rpm is left to its package manager.
CheckOffers ==
    /\ At("check")
    /\ platform # "package"
    /\ agent.runs = "old"
    /\ Goto("download")
    /\ UNCHANGED <<platform, schedule, files, procs>>

\* No answer, an answer that does not parse, no newer build, or none for this
\* host.
NothingOffered ==
    /\ At("check")
    /\ GiveUp
    /\ UNCHANGED <<platform, schedule, files, procs>>

\* The bytes match the release's checksum, or do not, or there is none to
\* check them by, or the transfer fails.
Download ==
    /\ At("download")
    /\ \E got \in Downloads :
          task' = IF got = "right" THEN [pc |-> "create", bytes |-> "new"] ELSE Idle
    /\ UNCHANGED <<platform, schedule, files, procs>>

-----------------------------------------------------------------------------
(* The install.  Both platforms write a staged file first: the AppImage    *)
(* under its pid beside the target, Windows under a fixed name.            *)

\* A leftover of that name is removed, and the file is created.
Create ==
    /\ At("create")
    /\ \/ staged' = "torn" /\ Goto("write")
       \/ staged' \in {staged, "none"} /\ GiveUp
    /\ synced' = FALSE
    /\ UNCHANGED <<platform, schedule, target, durable, procs>>

\* All the bytes are written, or the write fails and the file is removed.  The
\* code allows for a disk that keeps fewer bytes than it took on Windows only.
Write ==
    /\ At("write")
    /\ \/ /\ staged' = task.bytes
          /\ Goto("sync")
       \/ /\ platform = "windows"
          /\ staged' = "torn"
          /\ Goto("sync")
       \/ staged' = "none" /\ GiveUp
    /\ UNCHANGED <<platform, schedule, synced, target, durable, procs>>

\* Bug: the bytes are left in the page cache.
SyncNothing ==
    /\ At("sync")
    /\ \/ Goto(IF platform = "windows" THEN "readBack" ELSE "rename") /\ UNCHANGED staged
       \/ staged' = "none" /\ GiveUp
    /\ UNCHANGED <<platform, schedule, synced, target, durable, procs>>

\* The file is synced, and made executable on Linux; or that fails.
Sync ==
    /\ At("sync")
    /\ \/ /\ Goto(IF platform = "windows" THEN "readBack" ELSE "rename")
          /\ synced' = TRUE
          /\ UNCHANGED staged
       \/ staged' = "none" /\ GiveUp /\ UNCHANGED synced
    /\ UNCHANGED <<platform, schedule, target, durable, procs>>

\* The rename is atomic, and cached until the directory is synced: which name
\* the disk has is open until then, and what it has under the new one is torn
\* if the bytes were not written before.
Rename ==
    /\ At("rename")
    /\ \/ /\ target' = staged
          /\ durable' = durable \cup {staged} \cup (IF synced THEN {} ELSE {"torn"})
          /\ staged' = "none"
          /\ synced' = FALSE
          /\ Goto("syncDir")
       \/ staged' = "none" /\ GiveUp /\ UNCHANGED <<synced, target, durable>>
    /\ UNCHANGED <<platform, schedule, procs>>

\* The result of the sync is ignored.
SyncDir ==
    /\ At("syncDir")
    /\ durable' \in {durable, {target}}
    /\ Goto("relaunch")
    /\ UNCHANGED <<platform, schedule, staged, synced, target, procs>>

\* The staged installer is read again and compared with the checksum.
ReadBack ==
    /\ At("readBack")
    /\ \/ staged = "new" /\ Goto("spawn") /\ UNCHANGED staged
       \/ staged' = "none" /\ GiveUp
       \/ GiveUp /\ UNCHANGED staged
    /\ UNCHANGED <<platform, schedule, synced, target, durable, procs>>

-----------------------------------------------------------------------------
(* The relaunch.                                                           *)

\* The shell that waits for this pid is started, and the agent exits; if it
\* is not, the old agent goes on and the update is a success all the same.
Relaunch ==
    /\ At("relaunch")
    /\ GiveUp
    /\ \/ /\ helper' = [NoHelper EXCEPT !.pc = "polling"]
          /\ agent' = [agent EXCEPT !.pc = "exiting"]
       \/ UNCHANGED <<helper, agent>>
    /\ UNCHANGED <<platform, schedule, files, mishaps>>

\* The installer is started outside the agent's job.
Spawn ==
    /\ At("spawn")
    /\ \/ /\ helper' = [NoHelper EXCEPT !.pc = "installing"]
          /\ agent' = [agent EXCEPT !.pc = "exiting"]
          /\ GiveUp
       \/ Goto("spawnPlain") /\ UNCHANGED <<helper, agent>>
    /\ UNCHANGED <<platform, schedule, files, mishaps>>

\* The job refused: the installer is started within it, if there is one; or
\* not at all, and the old agent goes on.
SpawnPlain ==
    /\ At("spawnPlain")
    /\ GiveUp
    /\ \/ /\ \E b \in BOOLEAN :
                helper' = [NoHelper EXCEPT !.pc = "installing", !.bound = b]
          /\ agent' = [agent EXCEPT !.pc = "exiting"]
       \/ UNCHANGED <<helper, agent>>
    /\ UNCHANGED <<platform, schedule, files, mishaps>>

\* The process is gone, and with it what its job holds.
Exits ==
    /\ agent.pc = "exiting"
    /\ agent' = [pc |-> "down", runs |-> "none"]
    /\ helper' = IF helper.bound THEN NoHelper ELSE helper
    /\ mishaps' = IF helper.bound THEN mishaps \cup {"job"} ELSE mishaps
    /\ UNCHANGED <<platform, schedule, task, files>>

\* Bug: one poll more than the cap.
PollPidOnceMore ==
    /\ helper.pc = "polling"
    /\ agent.pc = "exiting"
    /\ helper.polls <= Cap
    /\ helper' = [helper EXCEPT !.polls = @ + 1]
    /\ UNCHANGED <<platform, schedule, task, files, agent, mishaps>>

\* kill -0 finds the old pid.
PollPid ==
    /\ helper.pc = "polling"
    /\ agent.pc = "exiting"
    /\ helper.polls < Cap
    /\ helper' = [helper EXCEPT !.polls = @ + 1]
    /\ UNCHANGED <<platform, schedule, task, files, agent, mishaps>>

StartAgent ==
    /\ agent' = IF target \in Builds THEN [pc |-> "up", runs |-> target] ELSE agent
    /\ task' = Idle
    /\ FreshSchedule

\* The old pid is gone: the new agent finds the name free.
ExecTarget ==
    /\ helper.pc = "polling"
    /\ agent.pc = "down"
    /\ StartAgent
    /\ helper' = NoHelper
    /\ UNCHANGED <<platform, files, mishaps>>

\* Bug: the shell sleeps for a fixed time, whether the old pid is gone or not.
ExecAfterSleep ==
    /\ helper.pc = "polling"
    /\ agent.pc = "exiting"
    /\ helper' = NoHelper
    /\ UNCHANGED <<platform, schedule, task, files, agent, mishaps>>

\* The old pid outlives the cap: the new process finds the name taken,
\* forwards to the old one and exits.
ExecAnyway ==
    /\ helper.pc = "polling"
    /\ agent.pc = "exiting"
    /\ helper.polls = Cap
    /\ helper' = NoHelper
    /\ mishaps' = mishaps \cup {"cap"}
    /\ UNCHANGED <<platform, schedule, task, files, agent>>

\* The installer stops an agent that is still there, replaces the program and
\* starts it; what it does in between is its own.
InstallerRuns ==
    /\ helper.pc = "installing"
    /\ ~helper.bound
    /\ target' = staged
    /\ durable' = {staged}
    /\ agent' = [pc |-> "up", runs |-> staged]
    /\ task' = Idle
    /\ FreshSchedule
    /\ helper' = NoHelper
    /\ UNCHANGED <<platform, staged, synced, mishaps>>

\* The autostart entry, or the person.
Login ==
    /\ agent.pc = "down"
    /\ helper.pc = "none"
    /\ target \in Builds
    /\ StartAgent
    /\ UNCHANGED <<platform, files, helper, mishaps>>

\* Everything that is not on the disk is gone.
PowerLoss ==
    /\ agent' = [pc |-> "down", runs |-> "none"]
    /\ task' = Idle
    /\ helper' = NoHelper
    /\ target' \in durable
    /\ durable' = {target'}
    /\ staged' \in {staged, "torn", "none"}
    /\ synced' = FALSE
    /\ mishaps' = mishaps \cup {"power"}
    /\ UNCHANGED <<platform, schedule>>

-----------------------------------------------------------------------------

Install ==
    \/ Create \/ Write \/ Sync \/ Rename \/ SyncDir \/ ReadBack
    \/ Relaunch \/ Spawn \/ SpawnPlain

Replace == Exits \/ PollPid \/ ExecTarget \/ ExecAnyway \/ InstallerRuns

Next ==
    \/ Tick \/ Suspend \/ SetClock \/ PollDue \/ PollNotDue
    \/ CheckOffers \/ NothingOffered \/ Download
    \/ Install \/ Replace \/ Login \/ PowerLoss

Spec == Init /\ [][Next]_vars

\* A process that exits is gone in the end, and what it left to replace it
\* goes on.  Nobody has to log in, and no check has to be made.
Fairness ==
    /\ WF_vars(Exits)
    /\ WF_vars(PollPid \/ ExecTarget \/ ExecAnyway)
    /\ WF_vars(InstallerRuns)

FairSpec == Spec /\ Fairness

-----------------------------------------------------------------------------

\* What is started as the agent is a whole build with the release's checksum,
\* wherever the power is lost, and so is an installer that is run.
OnlyChecked ==
    /\ target \in Builds
    /\ helper.pc = "installing" => staged = "new"

\* A poll passes over a check only within a period of the last one, of the
\* clock's last step back, or of the clock's catching up with the last check:
\* suspended time counts, and a clock that was put back does not put it off
\* until it has caught up.
NeverPutOff == [][PollNotDue => age < Period]_vars

\* After an agent exits for an update, an agent runs: unless the power was
\* lost, the old process outlived the cap, or its job held the installer.
AgentAfterUpdate ==
    agent.pc = "exiting" ~> (agent.pc = "up" \/ mishaps # {})

=============================================================================
