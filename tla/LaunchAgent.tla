------------------------------ MODULE LaunchAgent ------------------------------
(***************************************************************************)
(* How macOS comes to run an agent and keeps one: the launchd job, which   *)
(* every agent installs when it starts and the package's postinstall       *)
(* script through the --install-agent seam, composed with the claim of     *)
(* SingleInstance.  Nothing keeps two installs apart.                      *)
(*                                                                         *)
(* The job runs `open -W`, which starts the agent as a process of its own: *)
(* bootout and kickstart -k end that wrapper and never an agent.           *)
(***************************************************************************)
EXTENDS SingleInstance

CONSTANTS
    Package,     \* the postinstall script
    MaxMishaps   \* bound on the starts, kills, removals, failures and packages

ASSUME LaunchAssumption == Package \notin Procs /\ MaxMishaps \in Nat

VARIABLES
    plist,    \* what the file holds: nothing, part of a text, or a build's text
    job,      \* the text that launchd has loaded, "none" if it has no job
    enabled,  \* the label is not disabled in launchd's database
    task,     \* the install of each process and of the script
    doomed,   \* the processes that the script has signalled
    slips,    \* ghost: installs cut short, or commands refused, since the last login
    mishaps

launchVars == <<plist, job, enabled, task, doomed, slips, mishaps>>
allVars    == <<vars, launchVars>>

Actors == Procs \cup {Package}

\* Every build that runs here writes the same text.
Current == "current"

NoTask == [pc |-> "none", reload |-> FALSE]

\* Whoever logged in last had the job that the file and the label gave.
Loadable == IF plist = "torn" \/ ~enabled THEN "none" ELSE plist

LaunchInit ==
    /\ Init
    /\ plist \in {"none", "old", Current} /\ enabled \in BOOLEAN /\ job = Loadable
    /\ task = [a \in Actors |-> NoTask]
    /\ doomed = {} /\ slips = {} /\ mishaps = 0

At(a, pc)   == task[a].pc = pc
Goto(a, pc) == task' = [task EXCEPT ![a].pc = pc]

\* The script goes on after its seam has ended, however it did.
Ended(a) == IF a = Package THEN "enableAgain" ELSE "none"
End(a)   == task' = [task EXCEPT ![a] = [pc |-> Ended(a), reload |-> FALSE]]

Slip(what) == slips' = slips \cup {what}
Mishap     == mishaps < MaxMishaps /\ mishaps' = mishaps + 1

-----------------------------------------------------------------------------
(* install_launch_agent                                                    *)

\* An equal file is not loaded again unless launchd has no job.
Compare(a) ==
    /\ At(a, "compare")
    /\ task' = [task EXCEPT ![a] = [pc |-> IF plist = Current THEN "print" ELSE "truncate",
                                    reload |-> plist # Current]]
    /\ UNCHANGED <<vars, doomed, plist, job, enabled, slips, mishaps>>

PrintJob(a) ==
    /\ At(a, "print")
    /\ IF job # "none" THEN End(a) ELSE Goto(a, "truncate")
    /\ UNCHANGED <<vars, doomed, plist, job, enabled, slips, mishaps>>

\* fs::write empties the file and then fills it.
Truncate(a) ==
    /\ At(a, "truncate")
    /\ plist' = "torn"
    /\ Goto(a, "fill")
    /\ UNCHANGED <<vars, doomed, job, enabled, slips, mishaps>>

Fill(a) ==
    /\ At(a, "fill")
    /\ plist' = Current
    /\ Goto(a, IF task[a].reload THEN "bootout" ELSE "enable")
    /\ UNCHANGED <<vars, doomed, job, enabled, slips, mishaps>>

\* Bug: the label is enabled after the job was to be loaded.
BootoutThenBootstrap(a) ==
    /\ At(a, "bootout")
    /\ job' = "none"
    /\ Goto(a, "bootstrap")
    /\ UNCHANGED <<vars, doomed, plist, enabled, slips, mishaps>>

Bootout(a) ==
    /\ At(a, "bootout")
    /\ job' = "none"
    /\ Goto(a, "enable")
    /\ UNCHANGED <<vars, doomed, plist, enabled, slips, mishaps>>

\* Bug: the label is left as an earlier bootout or disable left it.
EnableNothing(a) ==
    /\ At(a, "enable")
    /\ Goto(a, "bootstrap")
    /\ UNCHANGED <<vars, doomed, plist, job, enabled, slips, mishaps>>

Enable(a) ==
    /\ At(a, "enable")
    /\ enabled' = TRUE
    /\ Goto(a, "bootstrap")
    /\ UNCHANGED <<vars, doomed, plist, job, slips, mishaps>>

\* A job that is loaded stays, and the call may or may not count as a success;
\* the script's own user change makes it fail.  What follows a success is a
\* kickstart, which LaunchdStarts has.
Bootstrap(a) ==
    /\ At(a, "bootstrap")
    /\ job' \in IF job # "none" THEN {job}
               ELSE IF a = Package THEN {"none", Loadable} ELSE {Loadable}
    /\ End(a)
    /\ UNCHANGED <<vars, doomed, plist, enabled, slips, mishaps>>

\* A directory, a file or a spawn of launchctl fails, and the install with it;
\* or launchd refuses the job.
InstallFails(a) ==
    /\ task[a].pc \in {"compare", "print", "truncate", "fill", "bootstrap"}
    /\ Mishap /\ Slip("refused")
    /\ End(a)
    /\ UNCHANGED <<vars, doomed, plist, job, enabled>>

\* Where the commands whose results are dropped are followed by what.
After == [bootout |-> "enable", enable |-> "bootstrap",
          enableAgain |-> "bootstrapAgain", bootstrapAgain |-> "ensure", ensure |-> "none"]

\* One of them fails, which nobody notices, and the install or the script goes on.
CommandFails(a) ==
    /\ task[a].pc \in DOMAIN After
    /\ Mishap /\ Slip("refused")
    /\ Goto(a, After[task[a].pc])
    /\ UNCHANGED <<vars, doomed, plist, job, enabled>>

InstallStep(a) ==
    \/ Compare(a) \/ PrintJob(a) \/ Truncate(a) \/ Fill(a)
    \/ Bootout(a) \/ Enable(a) \/ Bootstrap(a)

-----------------------------------------------------------------------------
(* postinstall                                                             *)

Alive == {p \in Procs : proc[p].pc \in Claiming \cup Running}

\* The package has put the app in place; the script signals who runs it.
PackageInstalls ==
    /\ At(Package, "none") /\ Mishap
    /\ doomed' = Alive
    /\ Goto(Package, "stop")
    /\ UNCHANGED <<vars, plist, job, enabled, slips>>

\* What is lost with a process: an install that is under way.
Interrupted(p) ==
    /\ task' = [task EXCEPT ![p] = NoTask]
    /\ slips' = IF task[p] = NoTask THEN slips ELSE slips \cup {"killed"}

PackageStops(p) ==
    /\ p \in doomed
    /\ IF p \in Alive THEN Kill(p) /\ Interrupted(p) ELSE UNCHANGED <<vars, task, slips>>
    /\ doomed' = doomed \ {p}
    /\ UNCHANGED <<plist, job, enabled, mishaps>>

\* Somebody runs the app when the wait is over, launchd's new one perhaps.
PackageInsists ==
    /\ At(Package, "stop") /\ doomed = {} /\ Alive # {}
    /\ doomed' = Alive
    /\ Goto(Package, "insist")
    /\ UNCHANGED <<vars, plist, job, enabled, slips, mishaps>>

PackageStopped ==
    /\ doomed = {}
    /\ At(Package, "insist") \/ (At(Package, "stop") /\ Alive = {})
    /\ Goto(Package, "compare")
    /\ UNCHANGED <<vars, plist, job, enabled, doomed, slips, mishaps>>

EnableAgain ==
    /\ At(Package, "enableAgain")
    /\ enabled' = TRUE
    /\ Goto(Package, "bootstrapAgain")
    /\ UNCHANGED <<vars, doomed, plist, job, slips, mishaps>>

BootstrapAgain ==
    /\ At(Package, "bootstrapAgain")
    /\ job' = IF job # "none" THEN job ELSE Loadable
    /\ Goto(Package, "ensure")
    /\ UNCHANGED <<vars, doomed, plist, enabled, slips, mishaps>>

\* ensure_agent_running: an agent that is there, or a start of the app.
EnsureRunning ==
    /\ At(Package, "ensure")
    /\ IF Alive # {} THEN UNCHANGED vars ELSE \E p \in Procs : Start(p)
    /\ Goto(Package, "none")
    /\ UNCHANGED <<doomed, plist, job, enabled, slips, mishaps>>

PackageStep ==
    \/ \E p \in Procs : PackageStops(p)
    \/ PackageInsists \/ PackageStopped \/ EnableAgain \/ BootstrapAgain \/ EnsureRunning

-----------------------------------------------------------------------------
(* Starts and ends of agents.                                              *)

\* RunAtLoad, KeepAlive and kickstart: `open` starts the app if it is not there.
LaunchdStarts ==
    /\ job # "none"
    /\ Alive = {} /\ \E p \in Procs : Start(p)
    /\ UNCHANGED launchVars

\* Somebody starts the binary, or an update starts its successor.
Opened(p) == Mishap /\ Start(p) /\ UNCHANGED <<plist, job, enabled, task, doomed, slips>>

\* An agent that holds the login, or runs without a lock, installs the job.
Claims(p) ==
    /\ ClaimStep(p)
    /\ IF proc'[p].pc = "unguarded" THEN Mishap ELSE UNCHANGED mishaps
    /\ task' = IF proc'[p].pc \in Running THEN [task EXCEPT ![p].pc = "compare"] ELSE task
    /\ UNCHANGED <<doomed, plist, job, enabled, slips>>

Killed(p) ==
    /\ Mishap
    /\ Kill(p) /\ Interrupted(p)
    /\ UNCHANGED <<doomed, plist, job, enabled>>

Disturbed == RemoveLockFile /\ Mishap /\ UNCHANGED <<doomed, plist, job, enabled, task, slips>>

Others(p) == Reap(p) /\ UNCHANGED launchVars

\* 400 ms.
Time == Tick /\ UNCHANGED launchVars

\* With no agent and no job the Mac reports nothing until the next login, which
\* loads what is installed.
Login ==
    /\ \A p \in Procs : proc[p].pc = "off"
    /\ At(Package, "none") /\ job = "none" /\ Loadable # "none"
    /\ job' = Loadable /\ slips' = {}
    /\ UNCHANGED <<vars, doomed, plist, enabled, task, mishaps>>

LaunchNext ==
    \/ \E a \in Actors : InstallStep(a) \/ InstallFails(a) \/ CommandFails(a)
    \/ PackageInstalls \/ PackageStep
    \/ LaunchdStarts \/ Login \/ Disturbed \/ Time
    \/ \E p \in Procs : Opened(p) \/ Claims(p) \/ Killed(p) \/ Others(p)

LaunchSpec == LaunchInit /\ [][LaunchNext /\ Undisturbed]_allVars

\* Processes run, launchctl answers, the kernel reaps, time passes, launchd keeps
\* its job alive, and a person whose Mac is silent logs in again.
Fairness ==
    /\ \A p \in Procs : WF_allVars(Claims(p)) /\ WF_allVars(Others(p))
    /\ \A a \in Actors : WF_allVars(InstallStep(a))
    /\ WF_allVars(PackageStep) /\ WF_allVars(LaunchdStarts)
    /\ WF_allVars(Login) /\ WF_allVars(Time)

FairSpec == LaunchSpec /\ Fairness

-----------------------------------------------------------------------------

\* When no install is under way and none was cut short or refused since the
\* login, then an agent that is there has left launchd the job of its build, and
\* enabled, whoever else was installing it at the same time.
JobInstalled ==
    (slips = {} /\ (\A a \in Actors : task[a] = NoTask)
       /\ (\E p \in Procs : proc[p].pc \in Running)) =>
        plist = Current /\ job = Current /\ enabled

\* However processes met over the lock and installs over the job, and wherever
\* they were killed, a Mac that an agent has run on ends up with one once the
\* mishaps stop, and keeps it; unless an install that was cut short or refused
\* has left nothing that a login loads.
AgentInTheEnd ==
    <>(\E p \in Procs : proc[p].pc \in Running) =>
        \/ <>[](\E p \in Procs : proc[p].pc \in Running)
        \/ <>[](slips # {} /\ Loadable = "none")

=============================================================================
