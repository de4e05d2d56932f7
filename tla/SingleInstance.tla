--------------------------- MODULE SingleInstance ---------------------------
(***************************************************************************)
(* One agent per login on macOS: the flock claim of single_instance.rs and *)
(* what claim_this_login does with its answer.                             *)
(*                                                                         *)
(* flock locks an inode and the claim names a path, so the two are apart   *)
(* here: a lock per inode, and the inode the path resolves to.  A killed   *)
(* process keeps its lock until the kernel reaps it.  A tick of the clock  *)
(* is one backoff (400 ms).  LaunchAgent says who starts and kills them.   *)
(***************************************************************************)
EXTENDS Naturals

CONSTANTS
    Procs,          \* processes that may be started for this login
    Inodes,
    NoProc, NoFile,
    Attempts,       \* attempts of a claim: 5 in the code
    ReleaseWithin   \* ticks within which the kernel reaps a killed process

ASSUME InstanceAssumption ==
    /\ NoProc \notin Procs
    /\ NoFile \notin Inodes
    /\ Attempts \in Nat \ {0}
    /\ ReleaseWithin \in Nat

VARIABLES
    path,     \* the inode the lock file's name resolves to
    lock,     \* who holds the lock of each inode
    proc,     \* each process: where it is, its open inode, attempts made
    clock     \* ticks since a claim began, or since a process was killed; or 0

vars == <<path, lock, proc, clock>>

Claiming == {"open", "flock", "check", "sleep"}
Running  == {"agent", "unguarded"}

\* The clock of a process counts no further than this.
ClockBound == Attempts + ReleaseWithin

TypeOK ==
    /\ path \in Inodes \cup {NoFile}
    /\ lock \in [Inodes -> Procs \cup {NoProc}]
    /\ proc \in [Procs -> [pc : {"off", "dying"} \cup Claiming \cup Running,
                           fd : Inodes \cup {NoFile}, tried : 0..(Attempts - 1)]]
    /\ clock \in [Procs -> 0..ClockBound]

Off == [pc |-> "off", fd |-> NoFile, tried |-> 0]

Init ==
    /\ path \in Inodes \cup {NoFile}
    /\ lock = [i \in Inodes |-> NoProc]
    /\ proc = [p \in Procs |-> Off]
    /\ clock = [p \in Procs |-> 0]

\* An inode is reused once no name and no open file refers to it.
Fresh == {i \in Inodes : i # path /\ \A p \in Procs : proc[p].fd # i}

-----------------------------------------------------------------------------

Enter(p, state) ==
    /\ proc' = [proc EXCEPT ![p] = state]
    /\ clock' = [clock EXCEPT ![p] = 0]

Ends(p) == Enter(p, Off)

\* launchd, the installer, the user or a relaunching update starts a process.
Start(p) ==
    /\ proc[p].pc = "off"
    /\ Enter(p, [Off EXCEPT !.pc = "open"])
    /\ UNCHANGED <<path, lock>>

\* open(O_CREAT): the file the path names, or a new one.
Open(p) ==
    /\ proc[p].pc = "open"
    /\ path' \in IF path = NoFile THEN Fresh ELSE {path}
    /\ proc' = [proc EXCEPT ![p].pc = "flock", ![p].fd = path']
    /\ UNCHANGED <<lock, clock>>

Flock(p) ==
    /\ proc[p].pc = "flock"
    /\ lock[proc[p].fd] = NoProc
    /\ lock' = [lock EXCEPT ![proc[p].fd] = p]
    /\ proc' = [proc EXCEPT ![p].pc = "check"]
    /\ UNCHANGED <<path, clock>>

Released(p) == [i \in Inodes |-> IF lock[i] = p THEN NoProc ELSE lock[i]]

\* Bug: the attempts follow one another without the backoff.
RetryAtOnce(p) ==
    IF proc[p].tried + 1 < Attempts
    THEN /\ proc' = [proc EXCEPT ![p] = [pc |-> "open", fd |-> NoFile, tried |-> @.tried + 1]]
         /\ UNCHANGED clock
    ELSE Ends(p)

\* Bug: one attempt too many.
RetryOnceMore(p) ==
    IF proc[p].tried < Attempts
    THEN /\ proc' = [proc EXCEPT ![p] = [pc |-> "sleep", fd |-> NoFile, tried |-> @.tried + 1]]
         /\ UNCHANGED clock
    ELSE Ends(p)

\* The attempt failed: sleep and try again, or concede and exit.
Retry(p) ==
    IF proc[p].tried + 1 < Attempts
    THEN /\ proc' = [proc EXCEPT ![p] = [pc |-> "sleep", fd |-> NoFile, tried |-> @.tried + 1]]
         /\ UNCHANGED clock
    ELSE Ends(p)

\* EWOULDBLOCK.
FlockBusy(p) ==
    /\ proc[p].pc = "flock"
    /\ lock[proc[p].fd] # NoProc
    /\ Retry(p)
    /\ UNCHANGED <<path, lock>>

\* Bug: the inode is not checked.
BecomesAgentUnchecked(p) ==
    /\ proc[p].pc = "check"
    /\ Enter(p, [pc |-> "agent", fd |-> proc[p].fd, tried |-> 0])
    /\ UNCHANGED <<path, lock>>

\* same_inode: the lock held is the one the path names.  The lock is parked
\* in AGENT_LOCK for the life of the process.
BecomesAgent(p) ==
    /\ proc[p].pc = "check"
    /\ proc[p].fd = path
    /\ Enter(p, [pc |-> "agent", fd |-> proc[p].fd, tried |-> 0])
    /\ UNCHANGED <<path, lock>>

\* The file was replaced or removed since it was opened: the lock is dropped.
LockedAnOrphan(p) ==
    /\ proc[p].pc = "check"
    /\ proc[p].fd # path
    /\ lock' = Released(p)
    /\ Retry(p)
    /\ UNCHANGED path

\* No data directory, or the directory, open, flock or stat fails: the agent
\* runs without a lock.
Unavailable(p) ==
    /\ proc[p].pc \in {"open", "flock", "check"}
    /\ lock' = Released(p)
    /\ Enter(p, [Off EXCEPT !.pc = "unguarded"])
    /\ UNCHANGED path

-----------------------------------------------------------------------------
(* What happens to the processes and to the file.                          *)

\* The installer, an update, a quit or a crash ends a process.
Kill(p) ==
    /\ proc[p].pc \in Claiming \cup Running
    /\ Enter(p, [pc |-> "dying", fd |-> proc[p].fd, tried |-> 0])
    /\ UNCHANGED <<path, lock>>

\* The kernel closes what a dead process had open.
Reap(p) ==
    /\ proc[p].pc = "dying"
    /\ Ends(p)
    /\ lock' = Released(p)
    /\ UNCHANGED path

\* Somebody deletes the agent's data directory.
RemoveLockFile ==
    /\ path # NoFile
    /\ path' = NoFile
    /\ UNCHANGED <<lock, proc, clock>>

\* 400 ms pass: sleepers wake.  The kernel is never later than ReleaseWithin.
Tick ==
    /\ \A p \in Procs : proc[p].pc = "dying" => clock[p] < ReleaseWithin
    /\ clock' = [p \in Procs |->
                   IF proc[p].pc \in Claiming \cup {"dying"} /\ clock[p] < ClockBound
                     THEN clock[p] + 1 ELSE clock[p]]
    /\ proc' = [p \in Procs |->
                  IF proc[p].pc = "sleep" THEN [proc[p] EXCEPT !.pc = "open"]
                                          ELSE proc[p]]
    /\ UNCHANGED <<path, lock>>

ClaimStep(p) ==
    \/ Open(p) \/ Flock(p) \/ FlockBusy(p) \/ BecomesAgent(p)
    \/ LockedAnOrphan(p) \/ Unavailable(p)

Next ==
    \/ \E p \in Procs : Start(p) \/ ClaimStep(p) \/ Kill(p) \/ Reap(p)
    \/ RemoveLockFile
    \/ Tick

Spec == Init /\ [][Next]_vars

\* The lock file is not removed under a running agent: the case the code
\* names as the one no file lock can prevent.
Undisturbed == \A p \in Procs : proc[p].pc = "agent" => path' = path

UndisturbedSpec == Init /\ [][Next /\ Undisturbed]_vars

-----------------------------------------------------------------------------

\* Two processes never both hold the claim, whatever the order in which
\* several open, lock and check the file, are killed, reaped and replaced,
\* and whenever the file is removed while no agent runs.
OneAgent ==
    \A p, q \in Procs : proc[p].pc = "agent" /\ proc[q].pc = "agent" => p = q

\* A claim that concedes on a held lock does not concede to a process that
\* was dead before the claim began: the backoff outlasts the kernel.
NeverConcedesToTheDead ==
    [][\A p \in Procs :
          /\ proc[p].pc = "flock"
          /\ proc'[p].pc = "off"
          /\ proc[lock[proc[p].fd]].pc = "dying"
          => clock[lock[proc[p].fd]] < clock[p]]_vars

=============================================================================
