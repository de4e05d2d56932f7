-------------------------------- MODULE Update --------------------------------
(***************************************************************************)
(* The self-update on every platform.  An agent is built for one: on macOS *)
(* it takes the steps of MacUpdate, elsewhere those of SelfUpdate.  The    *)
(* schedule is the same on all of them, and SelfUpdate has it.             *)
(***************************************************************************)
EXTENDS MacUpdate, Integers

CONSTANTS Period, Cap

ASSUME UpdateAssumption ==
    /\ Period \in Nat \ {0}
    /\ Cap \in Nat \ {0}

VARIABLES
    macOS,  \* the agent was built for macOS
    \* SelfUpdate's:
    platform, elapsed, age, polled, task, stagedFile, synced, target, durable,
    process, helper, accidents

selfVars == <<platform, elapsed, age, polled, task, stagedFile, synced, target,
              durable, process, helper, accidents>>

Self == INSTANCE SelfUpdate
            WITH staged <- stagedFile, agent <- process, mishaps <- accidents

UpdateInit ==
    /\ Init
    /\ Self!Init
    /\ macOS \in BOOLEAN
    /\ macOS => platform = "package"

UpdateNext ==
    /\ UNCHANGED macOS
    /\ \/ macOS /\ Next /\ UNCHANGED selfVars
       \/ ~macOS /\ Self!Next /\ UNCHANGED vars

UpdateSpec ==
    /\ UpdateInit
    /\ [][UpdateNext]_<<macOS, selfVars, vars>>
    /\ \A g \in Agents : WF_vars(macOS /\ InstallStep(g))
    /\ Self!Fairness

-----------------------------------------------------------------------------
(* SelfUpdate's properties, of the agents it is about.                     *)

\* Every variable of SelfUpdate has its type.
SelfTypeOK == Self!TypeOK

\* An agent off macOS, and an installer it runs, is a whole and checked build.
OnlyChecked == Self!OnlyChecked

\* The clock does not put a check off.
NeverPutOff == Self!NeverPutOff

\* An update is followed by an agent.
AgentAfterUpdate == Self!AgentAfterUpdate

=============================================================================
