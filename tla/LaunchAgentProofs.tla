--------------------------- MODULE LaunchAgentProofs ---------------------------
(***************************************************************************)
(* Mutual exclusion of the agents of one login, for any number of          *)
(* processes, inodes and attempts, and the backoff that outlasts the dead. *)
(* Launchd, the package and the installs of the job take no step of a      *)
(* claim that SingleInstance does not have: what is proved of the claim    *)
(* holds of the Mac that LaunchAgent describes.  And installs that         *)
(* interleave leave the job installed, and never a Mac that has run an     *)
(* agent without a way to another.                                         *)
(***************************************************************************)
EXTENDS LaunchAgent, TLAPS

-----------------------------------------------------------------------------
(* The claim, in SingleInstance.                                           *)

\* A process that has locked its file and has not been reaped holds the lock.
HoldsItsLock ==
    \A p \in Procs : proc[p].pc \in {"check", "agent"} => lock[proc[p].fd] = p

\* An agent's file is the one a later claim would open.
AgentOnPath ==
    \A p \in Procs : proc[p].pc = "agent" => proc[p].fd = path

\* From flock on a process has a file open.
HasFile ==
    \A p \in Procs : proc[p].pc \in {"flock", "check", "agent"} => proc[p].fd \in Inodes

IInv == TypeOK /\ HasFile /\ HoldsItsLock /\ AgentOnPath

USE DEF Claiming, Running, Off, Enter, Ends

LEMMA InitInv == Init => IInv
BY InstanceAssumption DEF Init, IInv, TypeOK, HasFile, HoldsItsLock, AgentOnPath, ClockBound

\* Every step keeps every variable in its type.
LEMMA TypeStep == TypeOK /\ HasFile /\ [Next]_vars => TypeOK'
<1> SUFFICES ASSUME TypeOK, HasFile, [Next]_vars PROVE TypeOK'
    OBVIOUS
<1> USE InstanceAssumption DEF TypeOK, HasFile, ClockBound
<1>1. ASSUME NEW p \in Procs, Start(p) PROVE TypeOK'
    BY <1>1 DEF Start
<1>2. ASSUME NEW p \in Procs, Open(p) PROVE TypeOK'
    <2>1. path' \in Inodes
        BY <1>2 DEF Open, Fresh
    <2>2. proc' = [proc EXCEPT ![p] = [@ EXCEPT !.pc = "flock", !.fd = path']]
        BY <1>2 DEF Open
    <2>3. [proc[p] EXCEPT !.pc = "flock", !.fd = path'] \in
             [pc : {"off", "dying"} \cup Claiming \cup Running,
              fd : Inodes \cup {NoFile}, tried : 0..(Attempts - 1)]
        BY <2>1 DEF Claiming
    <2> QED
        BY <1>2, <2>1, <2>2, <2>3 DEF Open
<1>3. ASSUME NEW p \in Procs, Flock(p) PROVE TypeOK'
    BY <1>3 DEF Flock
<1>4. ASSUME NEW p \in Procs, Retry(p), UNCHANGED path,
             lock' = lock \/ lock' = Released(p)
      PROVE TypeOK'
    BY <1>4 DEF Retry, Released
<1>5. ASSUME NEW p \in Procs, FlockBusy(p) PROVE TypeOK'
    BY <1>4, <1>5 DEF FlockBusy
<1>6. ASSUME NEW p \in Procs, BecomesAgent(p) PROVE TypeOK'
    BY <1>6 DEF BecomesAgent
<1>7. ASSUME NEW p \in Procs, LockedAnOrphan(p) PROVE TypeOK'
    BY <1>4, <1>7 DEF LockedAnOrphan
<1>8. ASSUME NEW p \in Procs, Unavailable(p) PROVE TypeOK'
    BY <1>8 DEF Unavailable, Released
<1>9. ASSUME NEW p \in Procs, Kill(p) PROVE TypeOK'
    BY <1>9 DEF Kill
<1>10. ASSUME NEW p \in Procs, Reap(p) PROVE TypeOK'
    BY <1>10 DEF Reap, Released
<1>11. CASE RemoveLockFile
    BY <1>11 DEF RemoveLockFile
<1>12. CASE Tick
    BY <1>12 DEF Tick
<1>13. CASE UNCHANGED vars
    BY <1>13 DEF vars
<1> QED
    BY <1>1, <1>2, <1>3, <1>5, <1>6, <1>7, <1>8, <1>9, <1>10, <1>11, <1>12, <1>13
    DEF Next, ClaimStep

\* An attempt that failed leaves the process asleep or gone, and the others alone.
LEMMA Retried ==
    ASSUME TypeOK, NEW p \in Procs, Retry(p)
    PROVE  /\ \A q \in Procs \ {p} : proc'[q] = proc[q]
           /\ proc'[p].pc \in {"sleep", "off"}
<1>1. proc \in [Procs -> [pc : {"off", "dying"} \cup Claiming \cup Running,
                         fd : Inodes \cup {NoFile}, tried : 0..(Attempts - 1)]]
    BY DEF TypeOK
<1>2. ASSUME NEW st, proc' = [proc EXCEPT ![p] = st]
      PROVE  proc'[p] = st /\ \A q \in Procs \ {p} : proc'[q] = proc[q]
    BY <1>1, <1>2
<1>3. CASE proc[p].tried + 1 < Attempts
    <2>1. proc' = [proc EXCEPT ![p] =
                      [pc |-> "sleep", fd |-> NoFile, tried |-> proc[p].tried + 1]]
        BY <1>3 DEF Retry
    <2> QED
        BY <1>2, <2>1
<1>4. CASE ~(proc[p].tried + 1 < Attempts)
    <2>1. proc' = [proc EXCEPT ![p] = [pc |-> "off", fd |-> NoFile, tried |-> 0]]
        BY <1>4 DEF Retry
    <2> QED
        BY <1>2, <2>1
<1> QED
    BY <1>3, <1>4

\* The invariant is kept while the file is left alone under a running agent.
\* The step that needs all of it is Open: it makes a new file only where there
\* is none, and then no agent runs.
LEMMA Step == IInv /\ [Next /\ Undisturbed]_vars => IInv'
<1> SUFFICES ASSUME IInv, [Next /\ Undisturbed]_vars PROVE IInv'
    OBVIOUS
<1>t. TypeOK'
    BY TypeStep DEF IInv
<1> USE InstanceAssumption DEF IInv, TypeOK, HasFile, HoldsItsLock, AgentOnPath
<1>1. ASSUME NEW p \in Procs, Start(p) PROVE IInv'
    BY <1>1, <1>t DEF Start
<1>2. ASSUME NEW p \in Procs, Open(p) PROVE IInv'
    <2>1. path' \in Inodes
        BY <1>2 DEF Open, Fresh
    <2>2. \A q \in Procs : proc[q].pc = "agent" => path' = path
        BY <1>2 DEF Open
    <2> QED
        BY <1>2, <1>t, <2>1, <2>2 DEF Open
<1>3. ASSUME NEW p \in Procs, Flock(p) PROVE IInv'
    BY <1>3, <1>t DEF Flock
<1>4. ASSUME NEW p \in Procs, FlockBusy(p) PROVE IInv'
    <2>1. /\ \A q \in Procs \ {p} : proc'[q] = proc[q]
          /\ proc'[p].pc \in {"sleep", "off"}
        BY <1>4, Retried DEF FlockBusy
    <2>2. UNCHANGED <<path, lock>>
        BY <1>4 DEF FlockBusy
    <2>3. HasFile' /\ AgentOnPath'
        BY <2>1, <2>2
    <2>4. HoldsItsLock'
        BY <2>1, <2>2
    <2> QED
        BY <1>t, <2>3, <2>4
<1>5. ASSUME NEW p \in Procs, BecomesAgent(p) PROVE IInv'
    BY <1>5, <1>t DEF BecomesAgent
<1>6. ASSUME NEW p \in Procs, LockedAnOrphan(p) PROVE IInv'
    <2>1. HoldsItsLock'
        <3>1. CASE proc[p].tried + 1 < Attempts
            BY <1>6, <3>1 DEF LockedAnOrphan, Retry, Released
        <3>2. CASE ~(proc[p].tried + 1 < Attempts)
            BY <1>6, <3>2 DEF LockedAnOrphan, Retry, Released
        <3> QED
            BY <3>1, <3>2
    <2>2. HasFile' /\ AgentOnPath'
        <3>1. /\ \A q \in Procs \ {p} : proc'[q] = proc[q]
              /\ proc'[p].pc \in {"sleep", "off"}
            BY <1>6, Retried DEF LockedAnOrphan
        <3>2. UNCHANGED path
            BY <1>6 DEF LockedAnOrphan
        <3> QED
            BY <3>1, <3>2
    <2> QED
        BY <1>t, <2>1, <2>2
<1>7. ASSUME NEW p \in Procs, Unavailable(p) PROVE IInv'
    BY <1>7, <1>t DEF Unavailable, Released
<1>8. ASSUME NEW p \in Procs, Kill(p) PROVE IInv'
    BY <1>8, <1>t DEF Kill
<1>9. ASSUME NEW p \in Procs, Reap(p) PROVE IInv'
    BY <1>9, <1>t DEF Reap, Released
<1>10. CASE RemoveLockFile /\ Undisturbed
    BY <1>10, <1>t DEF RemoveLockFile, Undisturbed
<1>11. CASE Tick
    BY <1>11, <1>t DEF Tick
<1>12. CASE UNCHANGED vars
    BY <1>12, <1>t DEF vars
<1> QED
    BY <1>1, <1>2, <1>3, <1>4, <1>5, <1>6, <1>7, <1>8, <1>9, <1>10, <1>11, <1>12
    DEF Next, ClaimStep

\* The login never has two guarded agents, for any number of processes and of
\* attempts, as long as nobody removes the lock file under a running one: two
\* agents would hold the lock of the one file the path names.
THEOREM MutualExclusion == UndisturbedSpec => []OneAgent
<1>1. IInv => OneAgent
    BY DEF IInv, HoldsItsLock, AgentOnPath, OneAgent
<1> QED
    BY <1>1, InitInv, Step, PTL DEF UndisturbedSpec

\* From flock to the end of an agent no step takes its file from it.
LEMMA FileStep == TypeOK /\ HasFile /\ [Next]_vars => HasFile'
<1> SUFFICES ASSUME TypeOK, HasFile, [Next]_vars PROVE HasFile'
    OBVIOUS
<1> USE InstanceAssumption DEF TypeOK, HasFile
<1>1. ASSUME NEW p \in Procs, ClaimStep(p) PROVE HasFile'
    <2>1. CASE Open(p)
        BY <2>1 DEF Open, Fresh
    <2>2. CASE Flock(p) \/ BecomesAgent(p)
        <3>1. /\ \A q \in Procs \ {p} : proc'[q] = proc[q]
              /\ proc'[p].fd = proc[p].fd
            BY <2>2 DEF Flock, BecomesAgent
        <3>2. proc[p].fd \in Inodes
            BY <2>2 DEF Flock, BecomesAgent
        <3> QED
            BY <3>1, <3>2
    <2>3. CASE FlockBusy(p) \/ LockedAnOrphan(p)
        BY <2>3 DEF FlockBusy, LockedAnOrphan, Retry
    <2>4. CASE Unavailable(p)
        BY <2>4 DEF Unavailable
    <2> QED
        BY <1>1, <2>1, <2>2, <2>3, <2>4 DEF ClaimStep
<1>2. ASSUME NEW p \in Procs, Start(p) \/ Kill(p) \/ Reap(p) PROVE HasFile'
    BY <1>2 DEF Start, Kill, Reap
<1>3. CASE RemoveLockFile \/ Tick \/ UNCHANGED vars
    BY <1>3 DEF RemoveLockFile, Tick, vars
<1> QED
    BY <1>1, <1>2, <1>3 DEF Next

\* Every variable keeps its type, whatever is removed and whoever is killed.
THEOREM TypeCorrect == Spec => []TypeOK
<1>1. Init => TypeOK /\ HasFile
    BY InitInv DEF IInv
<1> QED
    BY <1>1, FileStep, TypeStep, PTL DEF Spec

-----------------------------------------------------------------------------
\* The backoff.  Every attempt but the first was slept for, and the kernel is
\* never late: a claim at its last attempt is older than any death that is still
\* being cleaned up.
Patient ==
    \A p \in Procs :
        /\ proc[p].pc \in {"open", "flock", "check"} => proc[p].tried <= clock[p]
        /\ proc[p].pc = "sleep" => proc[p].tried <= clock[p] + 1
        /\ proc[p].pc = "dying" => clock[p] <= ReleaseWithin

\* No step makes a claim younger than its attempts, or a death older than the
\* kernel lets it get.
LEMMA StaysPatient == TypeOK /\ Patient /\ [Next]_vars => Patient'
<1> SUFFICES ASSUME TypeOK, Patient, [Next]_vars PROVE Patient'
    OBVIOUS
<1> USE InstanceAssumption DEF TypeOK, Patient
<1>1. ASSUME NEW p \in Procs, Start(p) \/ Kill(p) \/ Reap(p) PROVE Patient'
    BY <1>1 DEF Start, Kill, Reap
<1>2. ASSUME NEW p \in Procs, Open(p) PROVE Patient'
    BY <1>2 DEF Open
<1>3. ASSUME NEW p \in Procs, Flock(p) \/ BecomesAgent(p) \/ Unavailable(p) PROVE Patient'
    BY <1>3 DEF Flock, BecomesAgent, Unavailable
<1>4. ASSUME NEW p \in Procs, FlockBusy(p) \/ LockedAnOrphan(p) PROVE Patient'
    BY <1>4 DEF FlockBusy, LockedAnOrphan, Retry
<1>5. CASE Tick
    BY <1>5 DEF Tick, ClockBound
<1>6. CASE RemoveLockFile \/ UNCHANGED vars
    BY <1>6 DEF RemoveLockFile, vars
<1> QED
    BY <1>1, <1>2, <1>3, <1>4, <1>5, <1>6 DEF Next, ClaimStep

\* A claim never concedes to a process that was dead before the claim began,
\* for any number of attempts whose backoffs outlast the kernel.
THEOREM OutlastsTheDead ==
    ASSUME ReleaseWithin + 1 < Attempts
    PROVE  Spec => NeverConcedesToTheDead
<1> DEFINE Outlasts(p) ==
        /\ proc[p].pc = "flock"
        /\ proc'[p].pc = "off"
        /\ proc[lock[proc[p].fd]].pc = "dying"
        => clock[lock[proc[p].fd]] < clock[p]
<1>1. Init => TypeOK /\ HasFile /\ Patient
    BY InitInv DEF IInv, Init, Patient
<1>2. TypeOK /\ HasFile /\ Patient /\ [Next]_vars => [\A p \in Procs : Outlasts(p)]_vars
    <2> SUFFICES ASSUME TypeOK, HasFile, Patient, Next, NEW p \in Procs,
                        proc[p].pc = "flock", proc'[p].pc = "off",
                        proc[lock[proc[p].fd]].pc = "dying"
                 PROVE  clock[lock[proc[p].fd]] < clock[p]
        OBVIOUS
    <2>1. FlockBusy(p) /\ proc[p].tried + 1 >= Attempts
        <3> USE InstanceAssumption DEF TypeOK
        <3>1. ASSUME NEW q \in Procs, Start(q) \/ Kill(q) \/ Reap(q) PROVE FALSE
            BY <3>1 DEF Start, Kill, Reap
        <3>2. ASSUME NEW q \in Procs, Open(q) \/ Flock(q) PROVE FALSE
            BY <3>2 DEF Open, Flock
        <3>3. ASSUME NEW q \in Procs, BecomesAgent(q) \/ Unavailable(q) PROVE FALSE
            BY <3>3 DEF BecomesAgent, Unavailable
        <3>4. ASSUME NEW q \in Procs, LockedAnOrphan(q) PROVE FALSE
            BY <3>4 DEF LockedAnOrphan, Retry
        <3>5. ASSUME NEW q \in Procs, FlockBusy(q)
              PROVE FlockBusy(p) /\ proc[p].tried + 1 >= Attempts
            BY <3>5 DEF FlockBusy, Retry
        <3>6. ~(RemoveLockFile \/ Tick)
            BY DEF RemoveLockFile, Tick
        <3> QED
            BY <3>1, <3>2, <3>3, <3>4, <3>5, <3>6 DEF Next, ClaimStep
    <2>2. clock[p] >= Attempts - 1
        BY <2>1, InstanceAssumption DEF TypeOK, Patient
    <2>3. lock[proc[p].fd] \in Procs
        BY <2>1 DEF FlockBusy, TypeOK, HasFile
    <2>4. clock[lock[proc[p].fd]] <= ReleaseWithin
        BY <2>3 DEF Patient
    <2> QED
        BY <2>2, <2>3, <2>4, InstanceAssumption DEF TypeOK
<1> QED
    BY <1>1, <1>2, TypeStep, FileStep, StaysPatient, PTL DEF Spec, NeverConcedesToTheDead

-----------------------------------------------------------------------------
(* The claim on a Mac with launchd, the package and the installs.          *)

\* The job of every login holds the text of some build.
JobTyped ==
    /\ plist \in {"none", "old", "torn", Current}
    /\ job \in {"none", "old", Current}
    /\ enabled \in BOOLEAN

LEMMA InstallLeavesTheClaim ==
    ASSUME NEW a \in Actors, InstallStep(a) \/ InstallFails(a) \/ CommandFails(a)
    PROVE  UNCHANGED vars
BY DEF InstallStep, InstallFails, CommandFails, Compare, PrintJob, Truncate, Fill,
       Bootout, Enable, Bootstrap, vars

LEMMA PackageStepIsOfTheClaim == PackageInstalls \/ PackageStep => [Next]_vars
<1>1. ASSUME NEW p \in Procs, PackageStops(p) PROVE [Next]_vars
    BY <1>1 DEF PackageStops, Next
<1>2. ASSUME EnsureRunning PROVE [Next]_vars
    BY <1>2 DEF EnsureRunning, Next
<1>3. ASSUME PackageInstalls \/ PackageInsists \/ PackageStopped \/ EnableAgain \/ BootstrapAgain
      PROVE  [Next]_vars
    BY <1>3 DEF PackageInstalls, PackageInsists, PackageStopped, EnableAgain, BootstrapAgain, vars
<1> QED
    BY <1>1, <1>2, <1>3 DEF PackageStep

LEMMA StepIsOfTheClaim == [LaunchNext /\ Undisturbed]_allVars => [Next /\ Undisturbed]_vars
<1> SUFFICES ASSUME [LaunchNext /\ Undisturbed]_allVars PROVE [Next /\ Undisturbed]_vars
    OBVIOUS
<1>1. ASSUME NEW a \in Actors, InstallStep(a) \/ InstallFails(a) \/ CommandFails(a)
      PROVE  [Next]_vars
    BY <1>1, InstallLeavesTheClaim
<1>2. ASSUME PackageInstalls \/ PackageStep PROVE [Next]_vars
    BY <1>2, PackageStepIsOfTheClaim
<1>3. ASSUME LaunchdStarts \/ Disturbed \/ Time PROVE [Next]_vars
    BY <1>3 DEF LaunchdStarts, Disturbed, Time, Next
<1>4. ASSUME Login PROVE UNCHANGED vars
    BY <1>4 DEF Login
<1>5. ASSUME NEW p \in Procs, Opened(p) \/ Claims(p) \/ Killed(p) \/ Others(p) PROVE [Next]_vars
    BY <1>5 DEF Opened, Claims, Killed, Others, Next
<1>6. CASE LaunchNext /\ Undisturbed
    BY <1>1, <1>2, <1>3, <1>4, <1>5, <1>6 DEF LaunchNext
<1>7. CASE UNCHANGED allVars
    BY <1>7 DEF allVars
<1> QED
    BY <1>6, <1>7

\* LaunchAgent implements SingleInstance, whose lock file is left alone under a
\* running agent.
THEOREM ImplementsClaim == LaunchSpec => UndisturbedSpec
<1>1. LaunchInit => Init
    BY DEF LaunchInit
<1> QED
    BY <1>1, StepIsOfTheClaim, PTL DEF LaunchSpec, UndisturbedSpec

\* Whatever launchd, the package and people start and stop, and whichever
\* installs interleave, one login never has two agents that hold its lock.
THEOREM OneAgentPerLogin == LaunchSpec => []OneAgent
BY ImplementsClaim, MutualExclusion, PTL

\* What every install writes, loads and enables keeps its type.
THEOREM JobTypeCorrect == LaunchSpec => []JobTyped
<1>1. LaunchInit => JobTyped
    BY DEF LaunchInit, JobTyped, Loadable
<1>2. JobTyped /\ [LaunchNext /\ Undisturbed]_allVars => JobTyped'
    <2> SUFFICES ASSUME JobTyped, [LaunchNext /\ Undisturbed]_allVars PROVE JobTyped'
        OBVIOUS
    <2> USE DEF JobTyped, Loadable
    <2>1. ASSUME NEW a \in Actors, InstallStep(a) \/ InstallFails(a) \/ CommandFails(a)
          PROVE  JobTyped'
        BY <2>1 DEF InstallStep, InstallFails, CommandFails, Compare, PrintJob, Truncate, Fill,
                    Bootout, Enable, Bootstrap
    <2>2. ASSUME PackageInstalls \/ PackageStep PROVE JobTyped'
        BY <2>2 DEF PackageInstalls, PackageStep, PackageStops, PackageInsists, PackageStopped,
                    EnableAgain, BootstrapAgain, EnsureRunning
    <2>3. ASSUME LaunchdStarts \/ Login \/ Disturbed \/ Time PROVE JobTyped'
        BY <2>3 DEF LaunchdStarts, Login, Disturbed, Time, launchVars
    <2>4. ASSUME NEW p \in Procs, Opened(p) \/ Claims(p) \/ Killed(p) \/ Others(p) PROVE JobTyped'
        BY <2>4 DEF Opened, Claims, Killed, Others, launchVars
    <2>5. CASE UNCHANGED allVars
        BY <2>5 DEF allVars, launchVars
    <2> QED
        BY <2>1, <2>2, <2>3, <2>4, <2>5 DEF LaunchNext
<1> QED
    BY <1>1, <1>2, PTL DEF LaunchSpec

-----------------------------------------------------------------------------
(* The job is installed.  What a settled Mac has follows from what is still *)
(* to be done on one that is not: as long as no install was cut short or    *)
(* refused, whatever is missing is ahead of somebody's install.             *)

Pcs == {"none", "compare", "print", "truncate", "fill", "bootout", "enable", "bootstrap",
        "stop", "insist", "enableAgain", "bootstrapAgain", "ensure"}

TaskTyped == task \in [Actors -> [pc : Pcs, reload : BOOLEAN]]

Up == {p \in Procs : proc[p].pc \in Running}

SomeAt(pcs) == \E a \in Actors : task[a].pc \in pcs

\* Only an agent installs, and a job that is loaded is enabled, as is one that is
\* about to be, unless a command was refused.
Ordered ==
    /\ \A p \in Procs : p \notin Up => task[p] = NoTask
    /\ job # "none" => enabled
    /\ slips = {} /\ SomeAt({"bootstrap", "bootstrapAgain"}) => enabled

\* Past its comparison an install has found the file written, or is about to.
Written ==
    \A a \in Actors :
        /\ task[a].pc \in {"print", "fill", "bootout", "enable", "bootstrap"}
             => plist \in {"torn", Current}
        /\ task[a].pc = "truncate" => plist \in {"torn", Current} \/ task[a].reload
        /\ slips = {} /\ task[a].pc \in {"enableAgain", "bootstrapAgain"}
             => plist \in {"torn", Current}

Ahead ==
    slips = {} =>
        /\ plist = "torn" => SomeAt({"fill"})
        /\ Up # {} /\ plist # Current => SomeAt({"compare", "truncate", "fill"})
        /\ job = "old" /\ plist # "old" =>
              \E a \in Actors : task[a].reload /\ task[a].pc \in {"fill", "bootout"}
        /\ Up # {} /\ job = "none" =>
              SomeAt({"compare", "print", "truncate", "fill", "bootout", "enable", "bootstrap",
                      "enableAgain", "bootstrapAgain"})

LaunchInv == JobTyped /\ TaskTyped /\ Ordered /\ Written /\ Ahead

LEMMA InitLaunchInv == LaunchInit => LaunchInv
<1> SUFFICES ASSUME LaunchInit PROVE LaunchInv
  OBVIOUS
<1>1. \A a \in Actors : task[a] = NoTask
  BY DEF LaunchInit
<1>2. Up = {}
  BY DEF LaunchInit, Init, Off, Up, Running
<1>3. JobTyped /\ TaskTyped
  BY DEF LaunchInit, JobTyped, TaskTyped, Loadable, NoTask, Pcs
<1>4. Ordered
  BY <1>1, <1>2 DEF LaunchInit, Ordered, Actors, SomeAt, NoTask, Loadable
<1>5. Written
  BY <1>1 DEF Written, NoTask
<1>6. Ahead
  BY <1>2 DEF LaunchInit, Ahead, Loadable, Current
<1> QED
  BY <1>3, <1>4, <1>5, <1>6 DEF LaunchInv

\* What leaves the installs and the set of running agents alone.
LEMMA ElsewhereInv ==
    ASSUME LaunchInv, UNCHANGED <<plist, job, enabled, task, slips>>, Up' = Up
    PROVE  LaunchInv'
BY DEF LaunchInv, JobTyped, TaskTyped, Ordered, Written, Ahead, SomeAt

\* Once an install was cut short, nothing is said to be ahead.
LEMMA SlippedInv ==
    ASSUME LaunchInv, UNCHANGED <<plist, job, enabled>>, slips' # {}, TaskTyped',
           \A a \in Actors : task'[a] = task[a] \/ task'[a] = NoTask
                               \/ task'[a].pc = "enableAgain",
           \A p \in Procs : p \notin Up' => task'[p] = NoTask
    PROVE  LaunchInv'
<1>1. Ordered' /\ Written'
  BY DEF LaunchInv, Ordered, Written, SomeAt, NoTask, Actors
<1> QED
  BY <1>1 DEF LaunchInv, JobTyped, Ahead

-----------------------------------------------------------------------------
(* The steps of an install.                                                *)

LEMMA EndTyped ==
    ASSUME LaunchInv, NEW a \in Actors, End(a)
    PROVE  /\ TaskTyped'
           /\ task'[a].pc = Ended(a)
           /\ \A b \in Actors \ {a} : task'[b] = task[b]
           /\ a # Package => task'[a] = NoTask
BY DEF LaunchInv, TaskTyped, End, Ended, Pcs, NoTask

LEMMA GotoTyped ==
    ASSUME LaunchInv, NEW a \in Actors, NEW pc \in Pcs, Goto(a, pc)
    PROVE  /\ TaskTyped'
           /\ task'[a].pc = pc
           /\ task'[a].reload = task[a].reload
           /\ \A b \in Actors \ {a} : task'[b] = task[b]
BY DEF LaunchInv, TaskTyped, Goto

\* Whoever is in an install is an agent that runs, or the package.
LEMMA InstallerIsUp ==
    ASSUME LaunchInv, NEW a \in Actors, task[a].pc # "none"
    PROVE  a \in Up \/ a = Package
BY DEF LaunchInv, Ordered, NoTask, Actors, Up

LEMMA InstallStepInv ==
    ASSUME LaunchInv, NEW a \in Actors, InstallStep(a)
    PROVE  LaunchInv'
<1> USE DEF LaunchInv
<1>u. Up' = Up /\ slips' = slips
  BY DEF InstallStep, Compare, PrintJob, Truncate, Fill, Bootout, Enable, Bootstrap, vars, Up
<1>m. \A p \in Procs : p \notin Up => p # a
  <2>1. task[a].pc # "none"
    BY DEF InstallStep, Compare, PrintJob, Truncate, Fill, Bootout, Enable, Bootstrap, At
  <2> QED
    BY <2>1, InstallerIsUp, LaunchAssumption
<1>1. CASE Compare(a)
  <2>1. TaskTyped' /\ JobTyped'
    BY <1>1 DEF Compare, TaskTyped, JobTyped, Pcs
  <2>2. /\ task'[a].pc = IF plist = Current THEN "print" ELSE "truncate"
        /\ task'[a].reload = (plist # Current)
        /\ \A b \in Actors \ {a} : task'[b] = task[b]
    BY <1>1 DEF Compare, TaskTyped
  <2>3. UNCHANGED <<plist, job, enabled>> /\ task[a].pc = "compare"
    BY <1>1 DEF Compare, At
  <2>4. Ordered'
    BY <2>2, <2>3, <1>u, <1>m DEF Ordered, SomeAt, NoTask, Actors
  <2>5. Written'
    BY <2>2, <2>3, <1>u DEF Written
  <2>6. Ahead'
    BY <2>2, <2>3, <1>u DEF Ahead, SomeAt
  <2> QED
    BY <2>1, <2>4, <2>5, <2>6
<1>2. CASE PrintJob(a)
  <2>1. UNCHANGED <<plist, job, enabled>> /\ task[a].pc = "print"
    BY <1>2 DEF PrintJob, At
  <2>2. plist \in {"torn", Current}
    BY <2>1 DEF Written
  <2>3. CASE job # "none"
    <3>1. End(a)
      BY <1>2, <2>3 DEF PrintJob
    <3>2. /\ TaskTyped' /\ task'[a].pc \in {"none", "enableAgain"}
          /\ \A b \in Actors \ {a} : task'[b] = task[b]
          /\ a # Package => task'[a] = NoTask
      BY <3>1, EndTyped DEF Ended
    <3>3. Ordered'
      BY <3>2, <2>1, <1>u, LaunchAssumption DEF Ordered, SomeAt, Actors
    <3>4. Written'
      BY <3>2, <2>1, <2>2, <1>u DEF Written
    <3>5. Ahead'
      BY <3>2, <2>1, <2>3, <1>u DEF Ahead, SomeAt
    <3> QED
      BY <3>2, <3>3, <3>4, <3>5, <2>1 DEF JobTyped
  <2>4. CASE job = "none"
    <3>1. Goto(a, "truncate")
      BY <1>2, <2>4 DEF PrintJob
    <3>2. /\ TaskTyped' /\ task'[a].pc = "truncate"
          /\ \A b \in Actors \ {a} : task'[b] = task[b]
      BY <3>1, GotoTyped DEF Pcs
    <3>3. Ordered'
      BY <3>2, <2>1, <1>u, <1>m DEF Ordered, SomeAt, Actors
    <3>4. Written'
      BY <3>2, <2>1, <2>2, <1>u DEF Written
    <3>5. Ahead'
      BY <3>2, <2>1, <2>4, <1>u DEF Ahead, SomeAt
    <3> QED
      BY <3>2, <3>3, <3>4, <3>5, <2>1 DEF JobTyped
  <2> QED
    BY <2>3, <2>4
<1>3. CASE Truncate(a)
  <2>1. UNCHANGED <<job, enabled>> /\ task[a].pc = "truncate" /\ plist' = "torn"
    BY <1>3 DEF Truncate, At
  <2>2. /\ TaskTyped' /\ task'[a].pc = "fill" /\ task'[a].reload = task[a].reload
        /\ \A b \in Actors \ {a} : task'[b] = task[b]
    BY <1>3, GotoTyped DEF Truncate, Pcs
  <2>3. Ordered'
    BY <2>1, <2>2, <1>u, <1>m DEF Ordered, SomeAt, Actors
  <2>4. Written'
    BY <2>1, <2>2, <1>u DEF Written
  <2>5. SomeAt({"fill"})'
    BY <2>2 DEF SomeAt
  <2>6. slips = {} /\ job = "old" =>
          \E b \in Actors : task'[b].reload /\ task'[b].pc \in {"fill", "bootout"}
    <3>1. CASE plist = "old"
      BY <3>1, <2>1, <2>2 DEF Written, Current
    <3>2. CASE plist # "old"
      BY <3>2, <2>1, <2>2 DEF Ahead
    <3> QED
      BY <3>1, <3>2
  <2>7. Ahead'
    BY <2>1, <2>5, <2>6, <1>u DEF Ahead, SomeAt
  <2> QED
    BY <2>1, <2>2, <2>3, <2>4, <2>7 DEF JobTyped
<1>4. CASE Fill(a)
  <2> DEFINE pc == IF task[a].reload THEN "bootout" ELSE "enable"
  <2>1. UNCHANGED <<job, enabled>> /\ task[a].pc = "fill" /\ plist' = Current
    BY <1>4 DEF Fill, At
  <2>2. pc \in Pcs /\ Goto(a, pc)
    BY <1>4 DEF Fill, Pcs
  <2>3. /\ TaskTyped' /\ task'[a].pc = pc /\ task'[a].reload = task[a].reload
        /\ \A b \in Actors \ {a} : task'[b] = task[b]
    BY <2>2, GotoTyped
  <2>4. Ordered'
    BY <2>1, <2>3, <1>u, <1>m DEF Ordered, SomeAt, Actors
  <2>5. Written'
    BY <2>1, <2>3, <1>u DEF Written
  <2>6. slips = {} /\ job = "old" =>
          \E b \in Actors : task'[b].reload /\ task'[b].pc \in {"fill", "bootout"}
    <3>1. plist # "old"
      BY <2>1 DEF Written, Current
    <3> QED
      BY <3>1, <2>3 DEF Ahead
  <2>7. Ahead'
    BY <2>1, <2>3, <2>6, <1>u DEF Ahead, SomeAt, Current
  <2> QED
    BY <2>1, <2>3, <2>4, <2>5, <2>7 DEF JobTyped
<1>5. CASE Bootout(a)
  <2>1. UNCHANGED <<plist, enabled>> /\ task[a].pc = "bootout" /\ job' = "none"
    BY <1>5 DEF Bootout, At
  <2>2. /\ TaskTyped' /\ task'[a].pc = "enable"
        /\ \A b \in Actors \ {a} : task'[b] = task[b]
    BY <1>5, GotoTyped DEF Bootout, Pcs
  <2>3. Ordered'
    BY <2>1, <2>2, <1>u, <1>m DEF Ordered, SomeAt, Actors
  <2>4. Written'
    BY <2>1, <2>2, <1>u DEF Written
  <2>5. Ahead'
    BY <2>1, <2>2, <1>u DEF Ahead, SomeAt
  <2> QED
    BY <2>1, <2>2, <2>3, <2>4, <2>5 DEF JobTyped
<1>6. CASE Enable(a)
  <2>1. UNCHANGED <<plist, job>> /\ task[a].pc = "enable" /\ enabled' = TRUE
    BY <1>6 DEF Enable, At
  <2>2. /\ TaskTyped' /\ task'[a].pc = "bootstrap"
        /\ \A b \in Actors \ {a} : task'[b] = task[b]
    BY <1>6, GotoTyped DEF Enable, Pcs
  <2>3. Ordered'
    BY <2>1, <2>2, <1>u, <1>m DEF Ordered, SomeAt, Actors
  <2>4. Written'
    BY <2>1, <2>2, <1>u DEF Written
  <2>5. Ahead'
    BY <2>1, <2>2, <1>u DEF Ahead, SomeAt
  <2> QED
    BY <2>1, <2>2, <2>3, <2>4, <2>5 DEF JobTyped
<1>7. CASE Bootstrap(a)
  <2>1. UNCHANGED <<plist, enabled>> /\ task[a].pc = "bootstrap"
    BY <1>7 DEF Bootstrap, At
  <2>2. /\ TaskTyped' /\ task'[a].pc = Ended(a)
        /\ \A b \in Actors \ {a} : task'[b] = task[b]
        /\ a # Package => task'[a] = NoTask
    BY <1>7, EndTyped DEF Bootstrap
  <2>3. (slips = {} => enabled) /\ plist \in {"torn", Current}
    BY <2>1 DEF Ordered, SomeAt, Written
  <2>4. /\ job # "none" => job' = job
        /\ job = "none" => job' \in {"none", Current}
        /\ slips = {} /\ job' = "none" => plist = "torn" \/ a = Package
        /\ job' # "none" => enabled
    BY <1>7, <2>3 DEF Bootstrap, Loadable, Current, Ordered
  <2>5. Ordered'
    BY <2>1, <2>2, <2>3, <2>4, <1>u, LaunchAssumption DEF Ordered, SomeAt, Actors
  <2>6. Written'
    BY <2>1, <2>2, <2>3, <1>u DEF Written, Ended
  <2>7. Ahead'
    BY <2>1, <2>2, <2>4, <1>u DEF Ahead, SomeAt, Ended, Current
  <2> QED
    BY <2>1, <2>2, <2>4, <2>5, <2>6, <2>7 DEF JobTyped
<1> QED
  BY <1>1, <1>2, <1>3, <1>4, <1>5, <1>6, <1>7 DEF InstallStep

LEMMA InstallFailsInv ==
    ASSUME LaunchInv, NEW a \in Actors, InstallFails(a)
    PROVE  LaunchInv'
<1>1. End(a) /\ slips' # {} /\ UNCHANGED <<vars, plist, job, enabled>> /\ task[a].pc # "none"
  BY DEF InstallFails, Slip
<1>2. /\ TaskTyped' /\ task'[a].pc = Ended(a)
      /\ \A b \in Actors \ {a} : task'[b] = task[b]
      /\ a # Package => task'[a] = NoTask
  BY <1>1, EndTyped
<1>3. Up' = Up
  BY <1>1 DEF vars, Up
<1>4. \A b \in Actors : task'[b] = task[b] \/ task'[b] = NoTask \/ task'[b].pc = "enableAgain"
  BY <1>2 DEF Ended
<1>5. \A p \in Procs : p \notin Up' => task'[p] = NoTask
  BY <1>2, <1>3, LaunchAssumption DEF LaunchInv, Ordered, Actors
<1> QED
  BY <1>1, <1>2, <1>4, <1>5, SlippedInv

\* A command that is refused leaves everything as it was, and its install goes on.
LEMMA CommandFailsInv ==
    ASSUME LaunchInv, NEW a \in Actors, CommandFails(a)
    PROVE  LaunchInv'
<1> DEFINE pc == After[task[a].pc]
<1>1. /\ task[a].pc \in {"bootout", "enable", "enableAgain", "bootstrapAgain", "ensure"}
      /\ Goto(a, pc) /\ slips' # {} /\ UNCHANGED <<vars, plist, job, enabled>>
  BY DEF CommandFails, Slip, After
<1>2. /\ pc \in Pcs \ {"print", "truncate", "fill", "bootout"}
      /\ pc \in {"enable", "bootstrap"} => task[a].pc \in {"bootout", "enable"}
  BY <1>1 DEF After, Pcs
<1> HIDE DEF pc
<1>3. /\ TaskTyped' /\ task'[a].pc = pc
      /\ \A b \in Actors \ {a} : task'[b] = task[b]
  BY <1>1, <1>2, GotoTyped
<1>4. Up' = Up
  BY <1>1 DEF vars, Up
<1>5. \A p \in Procs : p \notin Up => p # a
  BY <1>1, InstallerIsUp, LaunchAssumption
<1>6. Ordered'
  BY <1>1, <1>3, <1>4, <1>5 DEF LaunchInv, Ordered, Actors
<1>7. Written'
  BY <1>1, <1>2, <1>3 DEF LaunchInv, Written
<1> QED
  BY <1>1, <1>3, <1>6, <1>7 DEF LaunchInv, JobTyped, Ahead

-----------------------------------------------------------------------------
(* What happens to the processes, and the package.                         *)

LEMMA KilledInv ==
    ASSUME LaunchInv, TypeOK, NEW p \in Procs, Kill(p), Interrupted(p),
           UNCHANGED <<plist, job, enabled>>
    PROVE  LaunchInv'
<1>1. /\ \A q \in Procs \ {p} : proc'[q] = proc[q]
      /\ proc'[p].pc \notin Running
  BY DEF Kill, Enter, TypeOK, Running
<1>2. Up' = Up \ {p}
  BY <1>1 DEF Up
<1>3. TaskTyped' /\ (\A a \in Actors \ {p} : task'[a] = task[a]) /\ task'[p] = NoTask
  BY DEF LaunchInv, TaskTyped, Interrupted, NoTask, Pcs, Actors
<1>4. \A q \in Procs : q \notin Up' => task'[q] = NoTask
  BY <1>2, <1>3 DEF LaunchInv, Ordered, Actors
<1>5. CASE task[p] = NoTask
  <2>1. task' = task /\ slips' = slips
    BY <1>3, <1>5 DEF Interrupted, LaunchInv, TaskTyped
  <2>2. Ordered' /\ Written'
    BY <1>4, <2>1 DEF LaunchInv, Ordered, Written, SomeAt
  <2>3. Ahead'
    BY <1>2, <2>1 DEF LaunchInv, Ahead, SomeAt
  <2> QED
    BY <1>3, <2>2, <2>3 DEF LaunchInv, JobTyped
<1>6. CASE task[p] # NoTask
  <2>1. slips' # {}
    BY <1>6 DEF Interrupted
  <2>2. \A a \in Actors : task'[a] = task[a] \/ task'[a] = NoTask
    BY <1>3
  <2> QED
    BY <1>3, <1>4, <2>1, <2>2, SlippedInv
<1> QED
  BY <1>5, <1>6

\* A process that is started is not an agent yet.
LEMMA StartedIsNotUp ==
    ASSUME TypeOK, NEW p \in Procs, Start(p)
    PROVE  Up' = Up
<1>1. /\ \A q \in Procs \ {p} : proc'[q] = proc[q]
      /\ proc[p].pc \notin Running /\ proc'[p].pc \notin Running
  BY DEF Start, Enter, Off, TypeOK, Running
<1> QED
  BY <1>1 DEF Up

LEMMA ReapedIsNotUp ==
    ASSUME TypeOK, NEW p \in Procs, Reap(p)
    PROVE  Up' = Up
<1>1. /\ \A q \in Procs \ {p} : proc'[q] = proc[q]
      /\ proc[p].pc \notin Running /\ proc'[p].pc \notin Running
  BY DEF Reap, Ends, Enter, Off, TypeOK, Running
<1> QED
  BY <1>1 DEF Up

LEMMA ClaimMoves ==
    ASSUME TypeOK, NEW p \in Procs, ClaimStep(p)
    PROVE  /\ \A q \in Procs \ {p} : proc'[q] = proc[q]
           /\ p \notin Up
<1>1. CASE Open(p)
  BY <1>1 DEF Open, Running, TypeOK, Up
<1>2. CASE Flock(p) \/ BecomesAgent(p)
  BY <1>2 DEF Flock, BecomesAgent, Enter, Running, TypeOK, Up
<1>3. CASE FlockBusy(p) \/ LockedAnOrphan(p)
  BY <1>3 DEF FlockBusy, LockedAnOrphan, Retry, Ends, Enter, Running, TypeOK, Up
<1>4. CASE Unavailable(p)
  BY <1>4 DEF Unavailable, Enter, Running, TypeOK, Up
<1> QED
  BY <1>1, <1>2, <1>3, <1>4 DEF ClaimStep

LEMMA ClaimsInv ==
    ASSUME LaunchInv, TypeOK, NEW p \in Procs, Claims(p)
    PROVE  LaunchInv'
<1>1. /\ \A q \in Procs \ {p} : proc'[q] = proc[q]
      /\ p \notin Up
  BY ClaimMoves DEF Claims
<1>2. task[p] = NoTask /\ UNCHANGED <<plist, job, enabled, slips>>
  BY <1>1 DEF LaunchInv, Ordered, Claims
<1>3. CASE proc'[p].pc \notin Running
  <2>1. Up' = Up
    BY <1>1, <1>3 DEF Up
  <2>2. task' = task
    BY <1>3 DEF Claims
  <2> QED
    BY <1>2, <2>1, <2>2, ElsewhereInv
<1>4. CASE proc'[p].pc \in Running
  <2>1. Goto(p, "compare") /\ p \in Actors
    BY <1>4 DEF Claims, Goto, Actors
  <2>2. /\ TaskTyped' /\ task'[p].pc = "compare"
        /\ \A b \in Actors \ {p} : task'[b] = task[b]
    BY <2>1, GotoTyped DEF Pcs
  <2>3. Up' = Up \cup {p}
    BY <1>1, <1>4 DEF Up
  <2>4. Ordered'
    BY <1>2, <2>1, <2>2, <2>3 DEF LaunchInv, Ordered, SomeAt, Actors
  <2>5. Written'
    BY <1>2, <2>2 DEF LaunchInv, Written
  <2>6. Ahead'
    BY <1>2, <2>1, <2>2 DEF LaunchInv, Ahead, SomeAt, NoTask
  <2> QED
    BY <1>2, <2>2, <2>4, <2>5, <2>6 DEF LaunchInv, JobTyped
<1> QED
  BY <1>3, <1>4

\* The script's steps outside of its install, the stops apart.
LEMMA PackageGoes ==
    ASSUME LaunchInv, NEW pc \in Pcs, Goto(Package, pc), Up' = Up, slips' = slips,
           plist' = plist,
           task[Package].pc \in {"none", "stop", "insist", "enableAgain", "bootstrapAgain", "ensure"},
           pc \in {"none", "stop", "insist", "compare", "bootstrapAgain", "ensure"},
           pc = "bootstrapAgain" <=> task[Package].pc = "enableAgain",
           enabled' = (enabled \/ task[Package].pc = "enableAgain"),
           IF task[Package].pc = "bootstrapAgain" /\ job = "none" THEN job' = Loadable ELSE job' = job
    PROVE  LaunchInv'
<1> USE DEF LaunchInv
<1>0. Package \in Actors
  BY DEF Actors
<1>1. /\ TaskTyped' /\ task'[Package].pc = pc
      /\ \A b \in Actors \ {Package} : task'[b] = task[b]
  BY <1>0, GotoTyped
<1>2. JobTyped'
  BY DEF JobTyped, Loadable
<1>3. Ordered'
  BY <1>0, <1>1, LaunchAssumption DEF Ordered, SomeAt, Actors, Loadable, JobTyped
<1>4. Written'
  BY <1>0, <1>1 DEF Written
<1>5. CASE task[Package].pc = "bootstrapAgain"
  <2>1. slips = {} => enabled
    BY <1>0, <1>5 DEF Ordered, SomeAt
  <2>2. slips = {} => plist \in {"torn", Current}
    BY <1>0, <1>5 DEF Written
  <2>3. slips = {} /\ job' = "none" => plist = "torn"
    BY <1>5, <2>1, <2>2 DEF Loadable, Current
  <2>4. slips = {} /\ job' = "old" => job = "old"
    BY <1>5, <2>1, <2>2 DEF Loadable, Current
  <2> QED
    BY <1>0, <1>1, <1>2, <1>3, <1>4, <1>5, <2>3, <2>4 DEF Ahead, SomeAt
<1>6. CASE task[Package].pc # "bootstrapAgain"
  <2>1. Ahead'
    BY <1>0, <1>1, <1>6 DEF Ahead, SomeAt
  <2> QED
    BY <1>1, <1>2, <1>3, <1>4, <2>1
<1> QED
  BY <1>5, <1>6

LEMMA PackageInv ==
    ASSUME LaunchInv, TypeOK, PackageInstalls \/ PackageStep
    PROVE  LaunchInv'
<1>1. CASE PackageInstalls
  BY <1>1, PackageGoes DEF PackageInstalls, At, Pcs, vars, Up, LaunchInv, JobTyped
<1>2. ASSUME NEW p \in Procs, PackageStops(p) PROVE LaunchInv'
  <2>1. CASE p \in Alive
    BY <1>2, <2>1, KilledInv DEF PackageStops
  <2>2. CASE p \notin Alive
    BY <1>2, <2>2, ElsewhereInv DEF PackageStops, vars, Up
  <2> QED
    BY <2>1, <2>2
<1>3. CASE PackageInsists \/ PackageStopped
  BY <1>3, PackageGoes DEF PackageInsists, PackageStopped, At, Pcs, vars, Up, LaunchInv, JobTyped
<1>4. CASE EnableAgain
  BY <1>4, PackageGoes DEF EnableAgain, At, Pcs, vars, Up, LaunchInv, JobTyped
<1>5. CASE BootstrapAgain
  BY <1>5, PackageGoes DEF BootstrapAgain, At, Pcs, vars, Up, LaunchInv, JobTyped
<1>6. CASE EnsureRunning
  <2>1. Up' = Up
    BY <1>6, StartedIsNotUp DEF EnsureRunning, vars, Up
  <2> QED
    BY <1>6, <2>1, PackageGoes DEF EnsureRunning, At, Pcs, LaunchInv, JobTyped
<1> QED
  BY <1>1, <1>2, <1>3, <1>4, <1>5, <1>6 DEF PackageStep

\* Whoever is left without an agent has no install under way but the package's.
LEMMA LoginInv ==
    ASSUME LaunchInv, Login
    PROVE  LaunchInv'
<1>1. /\ Up = {} /\ Up' = {} /\ task' = task /\ plist' = plist /\ enabled' = enabled
      /\ task[Package].pc = "none" /\ job' = plist /\ plist # "torn" /\ enabled
  BY DEF Login, vars, Up, Running, At, Loadable
<1>2. \A a \in Actors : task[a].pc = "none"
  BY <1>1 DEF LaunchInv, Ordered, Actors, NoTask
<1>3. JobTyped' /\ TaskTyped'
  BY <1>1 DEF LaunchInv, JobTyped, TaskTyped
<1>4. Ordered' /\ Written'
  BY <1>1, <1>2 DEF LaunchInv, Ordered, Written, SomeAt
<1>5. Ahead'
  BY <1>1 DEF Ahead, SomeAt
<1> QED
  BY <1>3, <1>4, <1>5 DEF LaunchInv

LEMMA LaunchNextInv == LaunchInv /\ TypeOK /\ [LaunchNext /\ Undisturbed]_allVars => LaunchInv'
<1> SUFFICES ASSUME LaunchInv, TypeOK, [LaunchNext /\ Undisturbed]_allVars PROVE LaunchInv'
  OBVIOUS
<1>1. ASSUME NEW a \in Actors, InstallStep(a) \/ InstallFails(a) \/ CommandFails(a)
      PROVE  LaunchInv'
  BY <1>1, InstallStepInv, InstallFailsInv, CommandFailsInv
<1>2. CASE PackageInstalls \/ PackageStep
  BY <1>2, PackageInv
<1>3. CASE LaunchdStarts
  <2>1. Up' = Up
    BY <1>3, StartedIsNotUp DEF LaunchdStarts
  <2> QED
    BY <1>3, <2>1, ElsewhereInv DEF LaunchdStarts, launchVars
<1>4. CASE Login
  BY <1>4, LoginInv
<1>5. CASE Disturbed
  BY <1>5, ElsewhereInv DEF Disturbed, RemoveLockFile, Up
<1>6. CASE Time
  <2>1. Up' = Up
    BY <1>6 DEF Time, Tick, Up, Running, TypeOK
  <2> QED
    BY <1>6, <2>1, ElsewhereInv DEF Time, launchVars
<1>7. ASSUME NEW p \in Procs, Opened(p) PROVE LaunchInv'
  BY <1>7, StartedIsNotUp, ElsewhereInv DEF Opened
<1>8. ASSUME NEW p \in Procs, Claims(p) PROVE LaunchInv'
  BY <1>8, ClaimsInv
<1>9. ASSUME NEW p \in Procs, Killed(p) PROVE LaunchInv'
  BY <1>9, KilledInv DEF Killed
<1>10. ASSUME NEW p \in Procs, Others(p) PROVE LaunchInv'
  BY <1>10, ReapedIsNotUp, ElsewhereInv DEF Others, launchVars
<1>11. CASE UNCHANGED allVars
  BY <1>11, ElsewhereInv DEF allVars, vars, launchVars, Up
<1> QED
  BY <1>1, <1>2, <1>3, <1>4, <1>5, <1>6, <1>7, <1>8, <1>9, <1>10, <1>11 DEF LaunchNext

\* The claim's variables keep their types on a Mac that installs jobs.
THEOREM ClaimTypeCorrect == LaunchSpec => []TypeOK
<1>1. UndisturbedSpec => Spec
  BY PTL DEF UndisturbedSpec, Spec
<1> QED
  BY <1>1, ImplementsClaim, TypeCorrect, PTL

\* With more attempts than the kernel takes ticks, no claim on such a Mac ends by
\* conceding to a process that was dead before the claim began.
THEOREM LaunchOutlastsTheDead ==
    ASSUME ReleaseWithin + 1 < Attempts
    PROVE  LaunchSpec => NeverConcedesToTheDead
<1>1. UndisturbedSpec => Spec
  BY PTL DEF UndisturbedSpec, Spec
<1> QED
  BY <1>1, ImplementsClaim, OutlastsTheDead, PTL

\* However many agents, and the package, install the job at once, and whatever
\* was there before: when the last of them is done, none having been cut short or
\* refused, launchd has the job of the build that runs, and it is enabled.
THEOREM InstallsEndInstalled == LaunchSpec => []JobInstalled
<1>1. LaunchInv => JobInstalled
  <2> SUFFICES ASSUME LaunchInv, slips = {}, \A a \in Actors : task[a] = NoTask,
                      \E p \in Procs : proc[p].pc \in Running
               PROVE  plist = Current /\ job = Current /\ enabled
    BY DEF JobInstalled
  <2>1. Up # {}
    BY DEF Up
  <2>2. \A a \in Actors : task[a].pc = "none"
    BY DEF NoTask
  <2>3. plist = Current /\ job # "none"
    BY <2>1, <2>2 DEF LaunchInv, Ahead, SomeAt
  <2>4. job # "old"
    BY <2>2, <2>3 DEF LaunchInv, Ahead, Current
  <2> QED
    BY <2>3, <2>4 DEF LaunchInv, JobTyped, Ordered
<1> QED
  BY <1>1, ClaimTypeCorrect, InitLaunchInv, LaunchNextInv, PTL DEF LaunchSpec
-----------------------------------------------------------------------------
(* A Mac that has run an agent can come back to one, which is what          *)
(* AgentInTheEnd rests on.                                                  *)

Installing == {"compare", "print", "truncate", "fill", "bootout", "enable", "bootstrap"}

\* The next login loads a job, or somebody is about to leave one, or an install
\* was cut short or refused.
CanReturn == Loadable # "none" \/ SomeAt(Installing) \/ slips # {}

UpCanReturn == Up # {} => CanReturn

\* A file that is torn behind an install's back is another's to fill.
LEMMA EndReturns ==
    ASSUME LaunchInv, NEW a \in Actors, task[a].pc \in {"print", "bootstrap"}, enabled,
           End(a), UNCHANGED <<plist, enabled, slips>>
    PROVE  CanReturn'
<1>1. plist \in {"torn", Current}
  BY DEF LaunchInv, Written
<1>2. \A b \in Actors \ {a} : task'[b] = task[b]
  BY EndTyped
<1>3. CASE plist = Current
  BY <1>3 DEF CanReturn, Loadable, Current
<1>4. CASE plist = "torn" /\ slips = {}
  <2>1. PICK b \in Actors : task[b].pc = "fill"
    BY <1>4 DEF LaunchInv, Ahead, SomeAt
  <2>2. task'[b].pc = "fill"
    BY <1>2, <2>1
  <2> QED
    BY <2>2 DEF CanReturn, SomeAt, Installing
<1> QED
  BY <1>1, <1>3, <1>4 DEF CanReturn

LEMMA InstallReturns ==
    ASSUME LaunchInv, NEW a \in Actors, InstallStep(a)
    PROVE  CanReturn'
<1>1. ASSUME NEW pc \in Installing, Goto(a, pc) PROVE CanReturn'
  <2>1. task'[a].pc = pc
    BY <1>1, GotoTyped DEF Installing, Pcs
  <2> QED
    BY <2>1 DEF CanReturn, SomeAt
<1>2. CASE Compare(a)
  <2>1. task'[a].pc = IF plist = Current THEN "print" ELSE "truncate"
    BY <1>2 DEF Compare, LaunchInv, TaskTyped
  <2> QED
    BY <2>1 DEF CanReturn, SomeAt, Installing
<1>3. CASE PrintJob(a)
  <2>1. CASE job = "none"
    BY <1>1, <1>3, <2>1 DEF PrintJob, Installing
  <2>2. CASE job # "none"
    <3>1. enabled
      BY <2>2 DEF LaunchInv, Ordered
    <3>2. End(a) /\ task[a].pc = "print" /\ UNCHANGED <<plist, enabled, slips>>
      BY <1>3, <2>2 DEF PrintJob, At
    <3> QED
      BY <3>1, <3>2, EndReturns
  <2> QED
    BY <2>1, <2>2
<1>4. CASE Truncate(a)
  BY <1>1, <1>4 DEF Truncate, Installing
<1>5. CASE Fill(a)
  BY <1>1, <1>5 DEF Fill, Installing
<1>6. CASE Bootout(a) \/ Enable(a)
  BY <1>1, <1>6 DEF Bootout, Enable, Installing
<1>7. CASE Bootstrap(a)
  <2>1. task[a].pc = "bootstrap" /\ End(a) /\ UNCHANGED <<plist, enabled, slips>>
    BY <1>7 DEF Bootstrap, At
  <2>2. CASE slips = {}
    <3>1. enabled
      BY <2>1, <2>2 DEF LaunchInv, Ordered, SomeAt
    <3> QED
      BY <2>1, <3>1, EndReturns
  <2>3. CASE slips # {}
    BY <2>1, <2>3 DEF CanReturn
  <2> QED
    BY <2>2, <2>3
<1> QED
  BY <1>2, <1>3, <1>4, <1>5, <1>6, <1>7 DEF InstallStep

\* The steps that take nobody out of an install and nothing from the disk.
LEMMA KeepsReturn ==
    ASSUME CanReturn, UNCHANGED plist, enabled => enabled', slips' = slips,
           \A a \in Actors : task[a].pc \in Installing => task'[a] = task[a]
    PROVE  CanReturn'
<1>1. CASE Loadable # "none"
  BY <1>1 DEF CanReturn, Loadable
<1>2. CASE SomeAt(Installing)
  <2>1. PICK a \in Actors : task[a].pc \in Installing
    BY <1>2 DEF SomeAt
  <2>2. task'[a].pc \in Installing
    BY <2>1
  <2> QED
    BY <2>2 DEF CanReturn, SomeAt
<1> QED
  BY <1>1, <1>2 DEF CanReturn

LEMMA InterruptedReturns ==
    ASSUME CanReturn, LaunchInv, NEW p \in Procs, Interrupted(p), UNCHANGED <<plist, enabled>>
    PROVE  CanReturn'
<1>1. CASE task[p] = NoTask
  <2>1. slips' = slips /\ \A a \in Actors : task'[a] = task[a]
    BY <1>1 DEF Interrupted, LaunchInv, TaskTyped, Actors
  <2> QED
    BY <2>1, KeepsReturn
<1>2. CASE task[p] # NoTask
  BY <1>2 DEF Interrupted, CanReturn
<1> QED
  BY <1>1, <1>2

LEMMA PackageReturns ==
    ASSUME CanReturn, LaunchInv, PackageInstalls \/ PackageStep
    PROVE  CanReturn'
<1>0. Package \in Actors
  BY DEF Actors
<1>1. ASSUME NEW p \in Procs, PackageStops(p) PROVE CanReturn'
  <2>1. CASE p \in Alive
    BY <1>1, <2>1, InterruptedReturns DEF PackageStops
  <2>2. CASE p \notin Alive
    BY <1>1, <2>2, KeepsReturn DEF PackageStops
  <2> QED
    BY <2>1, <2>2
<1>2. ASSUME NEW pc, Goto(Package, pc), task[Package].pc \notin Installing,
             UNCHANGED plist, enabled => enabled', slips' = slips
      PROVE  CanReturn'
  <2>1. \A a \in Actors : task[a].pc \in Installing => task'[a] = task[a]
    BY <1>0, <1>2 DEF Goto, LaunchInv, TaskTyped
  <2> QED
    BY <1>2, <2>1, KeepsReturn
<1>3. CASE PackageInstalls \/ PackageInsists \/ PackageStopped
  BY <1>2, <1>3 DEF PackageInstalls, PackageInsists, PackageStopped, At, Installing
<1>4. CASE EnableAgain \/ BootstrapAgain
  BY <1>2, <1>4 DEF EnableAgain, BootstrapAgain, At, Installing
<1>5. CASE EnsureRunning
  BY <1>2, <1>5 DEF EnsureRunning, At, Installing
<1> QED
  BY <1>1, <1>3, <1>4, <1>5 DEF PackageStep

LEMMA ClaimReturns ==
    ASSUME LaunchInv, NEW p \in Procs, Claims(p), TypeOK
    PROVE  (CanReturn => CanReturn') /\ (proc'[p].pc \in Running => CanReturn')
<1>1. UNCHANGED <<plist, enabled, slips>>
  BY DEF Claims
<1>2. CASE proc'[p].pc \in Running
  <2>1. Goto(p, "compare") /\ p \in Actors
    BY <1>2 DEF Claims, Goto, Actors
  <2>2. task'[p].pc = "compare"
    BY <2>1, GotoTyped DEF Pcs
  <2> QED
    BY <2>1, <2>2 DEF CanReturn, SomeAt, Installing
<1>3. CASE proc'[p].pc \notin Running
  <2>1. task' = task
    BY <1>3 DEF Claims
  <2> QED
    BY <1>1, <1>3, <2>1, KeepsReturn
<1> QED
  BY <1>2, <1>3

\* What can return goes on being able to.
LEMMA ReturnStep ==
    ASSUME CanReturn, LaunchInv, TypeOK, [LaunchNext /\ Undisturbed]_allVars
    PROVE  CanReturn'
<1>1. ASSUME NEW a \in Actors, InstallStep(a) \/ InstallFails(a) \/ CommandFails(a)
      PROVE  CanReturn'
  <2>1. CASE InstallFails(a) \/ CommandFails(a)
    BY <2>1 DEF InstallFails, CommandFails, Slip, CanReturn
  <2> QED
    BY <1>1, <2>1, InstallReturns
<1>2. CASE PackageInstalls \/ PackageStep
  BY <1>2, PackageReturns
<1>3. CASE LaunchdStarts \/ Time \/ Disturbed
  BY <1>3, KeepsReturn DEF LaunchdStarts, Time, Disturbed, launchVars
<1>4. CASE Login
  BY <1>4 DEF Login, CanReturn, Loadable
<1>5. ASSUME NEW p \in Procs, Opened(p) \/ Others(p) PROVE CanReturn'
  BY <1>5, KeepsReturn DEF Opened, Others, launchVars
<1>6. ASSUME NEW p \in Procs, Claims(p) PROVE CanReturn'
  BY <1>6, ClaimReturns
<1>7. ASSUME NEW p \in Procs, Killed(p) PROVE CanReturn'
  BY <1>7, InterruptedReturns DEF Killed
<1>8. CASE UNCHANGED allVars
  BY <1>8, KeepsReturn DEF allVars, launchVars
<1> QED
  BY <1>1, <1>2, <1>3, <1>4, <1>5, <1>6, <1>7, <1>8 DEF LaunchNext

\* Only a claim makes an agent.
LEMMA UpStep ==
    ASSUME LaunchInv, TypeOK, [LaunchNext /\ Undisturbed]_allVars, Up = {}, Up' # {}
    PROVE  CanReturn'
<1> SUFFICES ASSUME Up' # Up, Up' # {} PROVE CanReturn'
  OBVIOUS
<1>1. ASSUME NEW a \in Actors, InstallStep(a) \/ InstallFails(a) \/ CommandFails(a)
      PROVE  FALSE
  <2>1. UNCHANGED proc
    BY <1>1, InstallLeavesTheClaim DEF vars
  <2> QED
    BY <2>1 DEF Up
<1>2. ASSUME NEW p \in Procs, Kill(p) PROVE FALSE
  <2>1. \A q \in Procs \ {p} : proc'[q] = proc[q]
    BY <1>2 DEF Kill, Enter, TypeOK
  <2>2. proc'[p].pc \notin Running
    BY <1>2 DEF Kill, Enter, TypeOK, Running
  <2>3. Up' \subseteq Up
    BY <2>1, <2>2 DEF Up
  <2> QED
    BY <2>3
<1>3. CASE PackageInstalls \/ PackageInsists \/ PackageStopped \/ EnableAgain \/ BootstrapAgain
  BY <1>3 DEF PackageInstalls, PackageInsists, PackageStopped, EnableAgain, BootstrapAgain,
              vars, Up
<1>4. ASSUME NEW p \in Procs, PackageStops(p) PROVE FALSE
  BY <1>2, <1>4 DEF PackageStops, vars, Up
<1>5. CASE EnsureRunning \/ LaunchdStarts
  BY <1>5, StartedIsNotUp DEF EnsureRunning, LaunchdStarts, vars, Up
<1>6. CASE Login \/ Disturbed \/ UNCHANGED allVars
  BY <1>6 DEF Login, Disturbed, RemoveLockFile, allVars, vars, Up
<1>7. CASE Time
  BY <1>7 DEF Time, Tick, Up, Running, TypeOK
<1>8. ASSUME NEW p \in Procs, Opened(p) \/ Others(p) \/ Killed(p) PROVE FALSE
  BY <1>2, <1>8, StartedIsNotUp, ReapedIsNotUp DEF Opened, Others, Killed
<1>9. ASSUME NEW p \in Procs, Claims(p) PROVE CanReturn'
  <2>1. \A q \in Procs \ {p} : proc'[q] = proc[q]
    BY <1>9, ClaimMoves DEF Claims
  <2>2. proc'[p].pc \in Running
    BY <1>9, <2>1, ClaimMoves DEF Up, Claims
  <2> QED
    BY <1>9, <2>2, ClaimReturns
<1> QED
  BY <1>1, <1>2, <1>3, <1>4, <1>5, <1>6, <1>7, <1>8, <1>9 DEF LaunchNext, PackageStep

\* From the first agent on, and through every kill, package and login, the next
\* login has a job to load or somebody is at work on it, unless an install was
\* cut short or refused; and what can return stays so.
THEOREM AgentsCanReturn ==
    LaunchSpec => []UpCanReturn /\ [][CanReturn => CanReturn']_allVars
<1>1. LaunchInit => UpCanReturn
  BY DEF LaunchInit, Init, Off, Up, Running, UpCanReturn
<1>2. UpCanReturn /\ LaunchInv /\ TypeOK /\ [LaunchNext /\ Undisturbed]_allVars => UpCanReturn'
  BY ReturnStep, UpStep DEF UpCanReturn
<1>3. LaunchInv /\ TypeOK /\ [LaunchNext /\ Undisturbed]_allVars
        => [CanReturn => CanReturn']_allVars
  BY ReturnStep
<1>4. LaunchSpec => [](LaunchInv /\ TypeOK)
  BY ClaimTypeCorrect, InitLaunchInv, LaunchNextInv, PTL DEF LaunchSpec
<1>5. LaunchSpec => []UpCanReturn
  BY <1>1, <1>2, <1>4, PTL DEF LaunchSpec
<1>6. LaunchSpec => [][CanReturn => CanReturn']_allVars
  BY <1>3, <1>4, PTL DEF LaunchSpec
<1> QED
  BY <1>5, <1>6

=============================================================================
