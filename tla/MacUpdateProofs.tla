--------------------------- MODULE MacUpdateProofs ---------------------------
(***************************************************************************)
(* What the update keeps, for any number of agents: the types, a whole and *)
(* signed install, a whole copy of the app somewhere, and somebody to put  *)
(* an absent one back.                                                     *)
(***************************************************************************)
EXTENDS MacUpdate, TLAPS

\* A copy that passed the signature check is still there to be swapped in.
VerifiedIsStaged ==
    \A g \in Agents : agent[g].pc \in {"aside", "swap"} => staged[g] = "new"

\* Only whole builds are ever moved aside.
AsideIsWhole == \A g \in Agents : backup[g] \in Builds \cup {"none"}

\* An install is done only in the steps that follow it.
DoneLate == \A g \in Agents : agent[g].done => agent[g].pc \in {"detach", "relaunch"}

\* g keeps the app it moved aside: it has yet to fill the place or put the app
\* back, or could do neither, and checks no more for offers.
Holds(g) ==
    /\ agent[g].pc \in {"swap", "rollBack", "unstage", "detach", "idle"}
    /\ ~agent[g].done
    /\ backup[g] \in Builds

\* Where the install is missing, an agent that moved it aside still has it, or
\* a dead one left a whole copy.
KeptSomewhere ==
    \/ installed \in Builds
    \/ litter \cap Builds # {}
    \/ \E g \in Agents : Holds(g)

FilesInv == TypeOK /\ OnlyVerified /\ VerifiedIsStaged /\ AsideIsWhole

USE DEF At, files

-----------------------------------------------------------------------------

LEMMA AgentType ==
    ASSUME NEW pc \in {"off", "idle"} \cup Updating, NEW build \in Builds \cup {"none"}
    PROVE  Agent(pc, build) \in AgentStates
BY MountAssumption DEF Agent, AgentStates

LEMMA OffType == Off \in AgentStates
BY AgentType DEF Off

\* An agent that moves on, or goes idle, stays in its type.
LEMMA MoveType ==
    ASSUME TypeOK, NEW g \in Agents,
           \/ \E pc \in Updating : Goto(g, pc)
           \/ GoIdle(g)
           \/ agent' = [agent EXCEPT ![g] = Off]
    PROVE  agent' \in [Agents -> AgentStates]
<1>1. ASSUME NEW pc \in Updating, Goto(g, pc) PROVE agent' \in [Agents -> AgentStates]
    <2>1. agent \in [Agents -> AgentStates]
        BY DEF TypeOK
    <2>2. [agent[g] EXCEPT !.pc = pc] \in AgentStates
        BY <2>1 DEF AgentStates
    <2> QED
        BY <1>1, <2>1, <2>2 DEF Goto
<1>2. CASE GoIdle(g)
    <2>1. Agent("idle", agent[g].runs) \in AgentStates
        BY AgentType DEF TypeOK, AgentStates
    <2> QED
        BY <1>2, <2>1 DEF GoIdle, TypeOK
<1>3. CASE agent' = [agent EXCEPT ![g] = Off]
    BY <1>3, OffType DEF TypeOK
<1> QED
    BY <1>1, <1>2, <1>3

\* The copies of one agent change, and those of the others stay.
LEMMA CopyType ==
    ASSUME NEW f, NEW h, NEW T, NEW g \in Agents, NEW v \in T, f \in [Agents -> T],
           h = [f EXCEPT ![g] = v]
    PROVE  h \in [Agents -> T]
OBVIOUS

LEMMA VolumesType ==
    ASSUME TypeOK, NEW g \in Agents, NEW m \in Mounts, MountsAt(agent[g].image, m)
    PROVE  volumes' \in [Mounts -> {"none", "new", "bad"}]
BY DEF MountsAt, TypeOK, AgentStates

LEMMA InitType == Init => TypeOK
BY OffType DEF Init, TypeOK, Maybe, Bundles, Builds

\* Every step keeps every variable in its type.
LEMMA TypeStep == TypeOK /\ [Next]_vars => TypeOK'
<1> SUFFICES ASSUME TypeOK, [Next]_vars PROVE TypeOK'
    OBVIOUS
<1>0. "none" \in Maybe /\ "new" \in Maybe /\ "bad" \in Maybe /\ "torn" \in Maybe
      /\ Builds \subseteq Maybe
    BY DEF Maybe, Bundles, Builds
<1>a. agent \in [Agents -> AgentStates]
    BY DEF TypeOK
<1>1. ASSUME NEW g \in Agents, Launch(g) PROVE TypeOK'
    <2>1. Agent("idle", installed) \in AgentStates
        BY <1>1, AgentType DEF Launch
    <2> QED
        BY <1>1, <2>1 DEF Launch, TypeOK
<1>2. ASSUME NEW g \in Agents, FetchStep(g) PROVE TypeOK'
    <2>1. CASE CheckOffers(g)
        <3>1. Goto(g, "download") /\ "download" \in Updating
            BY <2>1 DEF CheckOffers, Updating
        <3> QED
            BY <2>1, <3>1, MoveType DEF CheckOffers, TypeOK
    <2>2. CASE Download(g)
        <3>1. PICK b \in {"new", "bad"} :
                 agent' = [agent EXCEPT ![g].pc = "attach", ![g].image = b]
            BY <2>2 DEF Download
        <3>2. agent' \in [Agents -> AgentStates]
            <4>1. [agent[g] EXCEPT !.pc = "attach", !.image = b] \in AgentStates
                BY <1>a DEF AgentStates, Updating
            <4> QED
                BY <3>1, <4>1, <1>a
        <3> QED
            BY <2>2, <3>2 DEF Download, TypeOK
    <2>3. CASE DownloadFails(g)
        BY <2>3, MoveType DEF DownloadFails, TypeOK
    <2>4. CASE Attach(g)
        <3>1. PICK m \in Mounts :
                 /\ MountsAt(agent[g].image, m)
                 /\ agent' = [agent EXCEPT ![g].pc = "clear", ![g].mount = m]
            BY <2>4 DEF Attach
        <3>2. agent' \in [Agents -> AgentStates]
            <4>1. [agent[g] EXCEPT !.pc = "clear", !.mount = m] \in AgentStates
                BY <1>a DEF AgentStates, Updating
            <4> QED
                BY <3>1, <4>1, <1>a
        <3>3. volumes' \in [Mounts -> {"none", "new", "bad"}]
            BY <3>1, VolumesType
        <3> QED
            BY <2>4, <3>2, <3>3 DEF Attach, TypeOK
    <2>5. CASE AttachFails(g)
        <3>1. volumes' \in [Mounts -> {"none", "new", "bad"}]
            BY <2>5, VolumesType DEF AttachFails, TypeOK
        <3>2. agent' \in [Agents -> AgentStates]
            BY <2>5, MoveType DEF AttachFails
        <3> QED
            BY <2>5, <3>1, <3>2 DEF AttachFails, TypeOK
    <2> QED
        BY <1>2, <2>1, <2>2, <2>3, <2>4, <2>5 DEF FetchStep
<1>3. ASSUME NEW g \in Agents, InstallStep(g) PROVE TypeOK'
    <2>0. \/ \E pc \in Updating : Goto(g, pc)
          \/ GoIdle(g)
          \/ DropOld(g)
          \/ Relaunch(g)
        BY <1>3 DEF InstallStep, ClearLeftovers, BeginCopy, EndCopy, Verify, MoveAside,
           MoveAsideFails, SwapIn, SwapFails, RollBack, RollBackFails, Unstage, Detach,
           Updating
    <2>1. agent' \in [Agents -> AgentStates]
        <3>1. CASE DropOld(g)
            <4>1. [agent[g] EXCEPT !.pc = "detach", !.done = TRUE] \in AgentStates
                BY <1>a DEF AgentStates, Updating
            <4> QED
                BY <3>1, <4>1, <1>a DEF DropOld
        <3>2. CASE Relaunch(g)
            BY <3>2, MoveType DEF Relaunch
        <3> QED
            BY <2>0, <3>1, <3>2, MoveType
    <2>2. /\ installed' \in Maybe
          /\ staged' \in [Agents -> Maybe]
          /\ backup' \in [Agents -> Maybe]
        <3>1. volumes[agent[g].mount] \in Maybe
            BY <1>0 DEF TypeOK, AgentStates
        <3> QED
            BY <1>0, <1>3, <3>1 DEF InstallStep, ClearLeftovers, BeginCopy, EndCopy, Verify,
               MoveAside, MoveAsideFails, SwapIn, SwapFails, RollBack, RollBackFails,
               Unstage, DropOld,
               Detach, Relaunch, TypeOK
    <2>3. litter' \subseteq Bundles
        <3>1. {staged[g], backup[g]} \subseteq Maybe
            BY DEF TypeOK
        <3> QED
            BY <1>3, <3>1 DEF InstallStep, ClearLeftovers, BeginCopy, EndCopy, Verify,
               MoveAside, MoveAsideFails, SwapIn, SwapFails, RollBack, RollBackFails,
               Unstage, DropOld,
               Detach, Relaunch, TypeOK, Maybe
    <2>4. volumes' \in [Mounts -> {"none", "new", "bad"}] /\ mishaps' \subseteq {"death", "stuck"}
        BY <1>3 DEF InstallStep, ClearLeftovers, BeginCopy, EndCopy, Verify,
           MoveAside, MoveAsideFails, SwapIn, SwapFails, RollBack, RollBackFails,
           Unstage, DropOld,
           Detach, Relaunch, TypeOK
    <2> QED
        BY <2>1, <2>2, <2>3, <2>4 DEF TypeOK
<1>4. ASSUME NEW g \in Agents, Crash(g) PROVE TypeOK'
    <2>1. {staged[g], backup[g]} \subseteq Maybe
        BY DEF TypeOK
    <2>2. mishaps' \subseteq {"death", "stuck"}
        BY <1>4 DEF Crash, TypeOK
    <2>3. litter' \subseteq Bundles
        BY <1>4, <2>1 DEF Crash, TypeOK, Maybe
    <2>4. agent' \in [Agents -> AgentStates]
        BY <1>4, MoveType DEF Crash
    <2> QED
        BY <1>0, <1>4, <2>2, <2>3, <2>4 DEF Crash, TypeOK
<1>5. CASE UNCHANGED vars
    BY <1>5 DEF vars, TypeOK
<1> QED
    BY <1>1, <1>2, <1>3, <1>4, <1>5 DEF Next

\* Every variable keeps its type.
THEOREM TypeCorrect == Spec => []TypeOK
BY InitType, TypeStep, PTL DEF Spec

-----------------------------------------------------------------------------

\* Where an agent stands after a step of its own, and that the others stay.
LEMMA Moves ==
    ASSUME TypeOK, NEW g \in Agents, NEW pc, Goto(g, pc)
    PROVE  /\ agent'[g].pc = pc /\ agent'[g].done = agent[g].done
           /\ agent'[g].image = agent[g].image /\ agent'[g].mount = agent[g].mount
           /\ \A h \in Agents \ {g} : agent'[h] = agent[h]
BY DEF Goto, TypeOK, AgentStates

LEMMA Stops ==
    ASSUME TypeOK, NEW g \in Agents, GoIdle(g) \/ agent' = [agent EXCEPT ![g] = Off]
    PROVE  /\ agent'[g].pc \in {"off", "idle"} /\ ~agent'[g].done
           /\ GoIdle(g) => agent'[g].pc = "idle"
           /\ \A h \in Agents \ {g} : agent'[h] = agent[h]
BY DEF GoIdle, Off, Agent, TypeOK

\* A step of one agent leaves the others and their copies alone.
OthersStay(g) ==
    \A h \in Agents \ {g} :
        agent'[h] = agent[h] /\ staged'[h] = staged[h] /\ backup'[h] = backup[h]

\* What a step of g has to show of g, for the copies to stay sound.
LEMMA FilesFrame ==
    ASSUME FilesInv, NEW g \in Agents, TypeOK', OthersStay(g),
           installed' \in Builds \cup {"none"},
           backup'[g] \in Builds \cup {"none"},
           agent'[g].pc \in {"aside", "swap"} => staged'[g] = "new"
    PROVE  FilesInv'
BY DEF FilesInv, OnlyVerified, VerifiedIsStaged, AsideIsWhole, OthersStay

\* Verify lets only a whole, signed copy through, and nothing touches it until
\* it is swapped in.
LEMMA FilesStep == FilesInv /\ [Next]_vars => FilesInv'
<1> SUFFICES ASSUME FilesInv, [Next]_vars PROVE FilesInv'
    OBVIOUS
<1>t. TypeOK /\ TypeOK'
    BY TypeStep DEF FilesInv
<1>i. installed \in Builds \cup {"none"}
    BY DEF FilesInv, OnlyVerified
<1>b. \A g \in Agents : backup[g] \in Builds \cup {"none"}
    BY DEF FilesInv, AsideIsWhole
<1>v. \A g \in Agents : agent[g].pc \in {"aside", "swap"} => staged[g] = "new"
    BY DEF FilesInv, VerifiedIsStaged
<1>1. ASSUME NEW g \in Agents, Launch(g) PROVE FilesInv'
    <2>1. agent'[g].pc = "idle" /\ OthersStay(g)
        BY <1>1, <1>t DEF Launch, Agent, TypeOK, OthersStay
    <2> QED
        BY <1>1, <1>t, <1>i, <1>b, <2>1, FilesFrame DEF Launch
<1>2. ASSUME NEW g \in Agents, FetchStep(g) PROVE FilesInv'
    <2>1. UNCHANGED <<installed, staged, backup>>
        BY <1>2 DEF FetchStep, CheckOffers, Download, DownloadFails, Attach, AttachFails
    <2>2. \/ Goto(g, "download") \/ Attach(g) \/ GoIdle(g) \/ Download(g)
        BY <1>2 DEF FetchStep, CheckOffers, DownloadFails, Attach, AttachFails
    <2>3. /\ agent'[g].pc \notin {"aside", "swap"}
          /\ \A h \in Agents \ {g} : agent'[h] = agent[h]
        <3>1. CASE Download(g)
            BY <3>1, <1>t DEF Download, TypeOK, AgentStates
        <3>2. CASE Goto(g, "download")
            BY <3>2, <1>t, Moves
        <3>3. CASE Attach(g)
            BY <3>3, <1>t DEF Attach, TypeOK, AgentStates
        <3>4. CASE GoIdle(g)
            BY <3>4, <1>t, Stops
        <3> QED
            BY <2>2, <3>1, <3>2, <3>3, <3>4
    <2>4. OthersStay(g)
        BY <2>1, <2>3 DEF OthersStay
    <2> QED
        BY <1>t, <1>i, <1>b, <2>1, <2>3, <2>4, FilesFrame
<1>3. ASSUME NEW g \in Agents, InstallStep(g) PROVE FilesInv'
    <2>1. CASE ClearLeftovers(g)
        <3>1. Goto(g, "copy") \/ Goto(g, "detach")
            BY <2>1 DEF ClearLeftovers
        <3>2. agent'[g].pc \in {"copy", "detach"} /\ OthersStay(g)
            BY <2>1, <3>1, <1>t, Moves DEF ClearLeftovers, TypeOK, OthersStay
        <3>3. backup'[g] \in {backup[g], "none"}
            BY <2>1, <1>t DEF ClearLeftovers, TypeOK
        <3> QED
            BY <2>1, <1>t, <1>i, <1>b, <3>2, <3>3, FilesFrame DEF ClearLeftovers
    <2>2. CASE BeginCopy(g)
        <3>1. Goto(g, "copying") \/ Goto(g, "detach")
            BY <2>2 DEF BeginCopy
        <3>2. agent'[g].pc \in {"copying", "detach"} /\ OthersStay(g)
            BY <2>2, <3>1, <1>t, Moves DEF BeginCopy, TypeOK, OthersStay
        <3> QED
            BY <2>2, <1>t, <1>i, <1>b, <3>2, FilesFrame DEF BeginCopy
    <2>3. CASE EndCopy(g)
        <3>1. Goto(g, "verify") \/ Goto(g, "unstage")
            BY <2>3 DEF EndCopy
        <3>2. agent'[g].pc \in {"verify", "unstage"} /\ OthersStay(g)
            BY <2>3, <3>1, <1>t, Moves DEF EndCopy, TypeOK, OthersStay
        <3> QED
            BY <2>3, <1>t, <1>i, <1>b, <3>2, FilesFrame DEF EndCopy
    <2>4. CASE Verify(g)
        <3>1. /\ agent'[g].pc = "aside" => staged[g] = "new"
              /\ agent'[g].pc \in {"aside", "unstage"}
              /\ OthersStay(g)
            BY <2>4, <1>t, Moves DEF Verify, OthersStay
        <3> QED
            BY <2>4, <1>t, <1>i, <1>b, <3>1, FilesFrame DEF Verify
    <2>5. CASE MoveAside(g)
        <3>1. agent'[g].pc = "swap" /\ OthersStay(g) /\ staged[g] = "new"
            BY <2>5, <1>t, <1>v, Moves DEF MoveAside, TypeOK, OthersStay
        <3>2. backup'[g] \in {backup[g], installed}
            BY <2>5, <1>t DEF MoveAside, TypeOK
        <3> QED
            BY <2>5, <1>t, <1>i, <1>b, <3>1, <3>2, FilesFrame DEF MoveAside
    <2>6. CASE MoveAsideFails(g)
        <3>1. agent'[g].pc = "detach" /\ OthersStay(g)
            BY <2>6, <1>t, Moves DEF MoveAsideFails, OthersStay
        <3> QED
            BY <2>6, <1>t, <1>i, <1>b, <3>1, FilesFrame DEF MoveAsideFails
    <2>7. CASE SwapIn(g)
        <3>1. agent'[g].pc = "dropOld" /\ OthersStay(g)
            BY <2>7, <1>t, Moves DEF SwapIn, TypeOK, OthersStay
        <3>2. installed' = "new"
            BY <2>7, <1>v DEF SwapIn
        <3> QED
            BY <2>7, <1>t, <1>b, <3>1, <3>2, FilesFrame DEF SwapIn, Builds
    <2>8. CASE SwapFails(g)
        <3>1. agent'[g].pc \in {"unstage", "rollBack"} /\ OthersStay(g)
            BY <2>8, <1>t, Moves DEF SwapFails, OthersStay
        <3> QED
            BY <2>8, <1>t, <1>i, <1>b, <3>1, FilesFrame DEF SwapFails
    <2>9. CASE RollBack(g)
        <3>1. agent'[g].pc = "unstage" /\ OthersStay(g)
            BY <2>9, <1>t, Moves DEF RollBack, TypeOK, OthersStay
        <3>2. installed' \in {installed, backup[g]} /\ backup'[g] \in {backup[g], "none"}
            BY <2>9, <1>t DEF RollBack, TypeOK
        <3> QED
            BY <1>t, <1>i, <1>b, <3>1, <3>2, FilesFrame
    <2>14. CASE RollBackFails(g)
        <3>1. agent'[g].pc = "unstage" /\ OthersStay(g)
            BY <2>14, <1>t, Moves DEF RollBackFails, OthersStay
        <3> QED
            BY <2>14, <1>t, <1>i, <1>b, <3>1, FilesFrame DEF RollBackFails
    <2>10. CASE Unstage(g)
        <3>1. agent'[g].pc = "detach" /\ OthersStay(g)
            BY <2>10, <1>t, Moves DEF Unstage, TypeOK, OthersStay
        <3> QED
            BY <2>10, <1>t, <1>i, <1>b, <3>1, FilesFrame DEF Unstage
    <2>11. CASE DropOld(g)
        <3>1. agent'[g].pc = "detach" /\ OthersStay(g) /\ backup'[g] = "none"
            BY <2>11, <1>t DEF DropOld, TypeOK, AgentStates, OthersStay
        <3> QED
            BY <2>11, <1>t, <1>i, <3>1, FilesFrame DEF DropOld
    <2>12. CASE Detach(g)
        <3>1. Goto(g, "relaunch") \/ GoIdle(g)
            BY <2>12 DEF Detach
        <3>2. agent'[g].pc \in {"relaunch", "off", "idle"} /\ OthersStay(g)
            BY <2>12, <3>1, <1>t, Moves, Stops DEF Detach, OthersStay
        <3> QED
            BY <2>12, <1>t, <1>i, <1>b, <3>2, FilesFrame DEF Detach
    <2>13. CASE Relaunch(g)
        <3>1. agent'[g].pc \in {"off", "idle"} /\ OthersStay(g) /\ backup'[g] = "none"
            <4>1. agent'[g].pc \in {"off", "idle"} /\ \A h \in Agents \ {g} : agent'[h] = agent[h]
                BY <2>13, <1>t, Stops DEF Relaunch
            <4>2. /\ backup'[g] = "none"
                  /\ \A h \in Agents \ {g} : staged'[h] = staged[h] /\ backup'[h] = backup[h]
                BY <2>13, <1>t DEF Relaunch, TypeOK
            <4> QED
                BY <4>1, <4>2 DEF OthersStay
        <3> QED
            BY <2>13, <1>t, <1>i, <3>1, FilesFrame DEF Relaunch
    <2> QED
        BY <1>3, <2>1, <2>2, <2>3, <2>4, <2>5, <2>6, <2>7, <2>8, <2>9, <2>10,
           <2>11, <2>12, <2>13, <2>14 DEF InstallStep
<1>4. ASSUME NEW g \in Agents, Crash(g) PROVE FilesInv'
    <2>1. agent'[g].pc \in {"off", "idle"} /\ OthersStay(g) /\ backup'[g] = "none"
        BY <1>4, <1>t, Stops DEF Crash, TypeOK, OthersStay
    <2> QED
        BY <1>4, <1>t, <1>i, <2>1, FilesFrame DEF Crash
<1>5. CASE UNCHANGED vars
    BY <1>5, <1>t DEF vars, FilesInv, OnlyVerified, VerifiedIsStaged, AsideIsWhole
<1> QED
    BY <1>1, <1>2, <1>3, <1>4, <1>5 DEF Next

LEMMA InitFiles == Init => FilesInv
<1> SUFFICES ASSUME Init PROVE FilesInv
    OBVIOUS
<1>1. TypeOK
    BY InitType
<1>2. \A g \in Agents : agent[g].pc = "off" /\ backup[g] = "none"
    BY DEF Init, Off, Agent
<1>3. installed \in Builds
    BY DEF Init, Builds
<1> QED
    BY <1>1, <1>2, <1>3 DEF FilesInv, OnlyVerified, VerifiedIsStaged, AsideIsWhole

\* What is installed is always a whole build with Klaay's signature, or absent:
\* a torn or an unsigned copy never gets there.
THEOREM InstallsOnlyVerified == Spec => []OnlyVerified
<1>1. FilesInv => OnlyVerified
    BY DEF FilesInv
<1> QED
    BY <1>1, InitFiles, FilesStep, PTL DEF Spec

-----------------------------------------------------------------------------
(* The old app goes only once the new one is in.                           *)

\* Each step is a step of one agent.
LEMMA OneAtATime ==
    ASSUME TypeOK, NEW g \in Agents, Launch(g) \/ FetchStep(g) \/ InstallStep(g) \/ Crash(g)
    PROVE  OthersStay(g)
<1>1. \/ \E pc \in Updating : Goto(g, pc)
      \/ GoIdle(g) \/ agent' = [agent EXCEPT ![g] = Off]
      \/ Launch(g) \/ Download(g) \/ Attach(g) \/ DropOld(g)
    BY DEF FetchStep, InstallStep, CheckOffers, DownloadFails, Attach, AttachFails,
       ClearLeftovers, BeginCopy, EndCopy, Verify, MoveAside, MoveAsideFails, SwapIn,
       SwapFails, RollBack, RollBackFails, Unstage, Detach, Relaunch, Crash, Updating
<1>2. \A h \in Agents \ {g} : agent'[h] = agent[h]
    <2>1. CASE \E pc \in Updating : Goto(g, pc)
        BY <2>1, Moves
    <2>2. CASE GoIdle(g) \/ agent' = [agent EXCEPT ![g] = Off]
        BY <2>2, Stops
    <2>3. CASE Launch(g)
        BY <2>3 DEF Launch, TypeOK
    <2>4. CASE Download(g)
        BY <2>4 DEF Download, TypeOK
    <2>5. CASE DropOld(g)
        BY <2>5 DEF DropOld, TypeOK
    <2>6. CASE Attach(g)
        BY <2>6 DEF Attach, TypeOK
    <2> QED
        BY <1>1, <2>1, <2>2, <2>3, <2>4, <2>5, <2>6
<1>3. \A h \in Agents \ {g} : staged'[h] = staged[h] /\ backup'[h] = backup[h]
    BY DEF TypeOK, Launch, FetchStep, InstallStep, CheckOffers, Download, DownloadFails,
       Attach, AttachFails, ClearLeftovers, BeginCopy, EndCopy, Verify, MoveAside,
       MoveAsideFails, SwapIn, SwapFails, RollBack, RollBackFails, Unstage, DropOld,
       Detach, Relaunch, Crash
<1> QED
    BY <1>2, <1>3 DEF OthersStay

LEMMA DoneStep == TypeOK /\ DoneLate /\ [Next]_vars => DoneLate'
<1> SUFFICES ASSUME TypeOK, DoneLate, [Next]_vars PROVE DoneLate'
    OBVIOUS
<1>f. ASSUME NEW g \in Agents, OthersStay(g), agent'[g].done => agent'[g].pc \in {"detach", "relaunch"}
      PROVE  DoneLate'
    BY <1>f DEF DoneLate, OthersStay
<1>1. ASSUME NEW g \in Agents, Launch(g) \/ FetchStep(g) \/ InstallStep(g) \/ Crash(g)
      PROVE  DoneLate'
    <2>o. OthersStay(g)
        BY <1>1, OneAtATime
    <2>1. CASE Launch(g)
        <3>1. ~agent'[g].done
            BY <2>1 DEF Launch, Agent, TypeOK
        <3> QED
            BY <2>o, <3>1, <1>f
    <2>2. CASE Download(g)
        <3>1. agent'[g].done = agent[g].done
            BY <2>2 DEF Download, TypeOK, AgentStates
        <3> QED
            BY <2>2, <2>o, <3>1, <1>f DEF DoneLate, Download
    <2>8. CASE Attach(g)
        <3>1. agent'[g].done = agent[g].done
            BY <2>8 DEF Attach, TypeOK, AgentStates
        <3> QED
            BY <2>8, <2>o, <3>1, <1>f DEF DoneLate, Attach
    <2>3. CASE DropOld(g)
        <3>1. agent'[g].pc = "detach"
            BY <2>3 DEF DropOld, TypeOK, AgentStates
        <3> QED
            BY <2>o, <3>1, <1>f
    <2>4. CASE GoIdle(g) \/ agent' = [agent EXCEPT ![g] = Off]
        BY <2>4, <2>o, <1>f, Stops
    <2>5. CASE Detach(g) /\ Goto(g, "relaunch")
        <3>1. agent'[g].pc = "relaunch"
            BY <2>5, Moves
        <3> QED
            BY <2>o, <3>1, <1>f
    <2>6. CASE At(g, "idle") /\ Goto(g, "download")
        BY <2>6, <2>o, <1>f, Moves DEF DoneLate
    <2>7. CASE /\ agent[g].pc \in Updating \ {"detach", "relaunch"}
               /\ \E pc \in Updating : Goto(g, pc)
        <3>1. ~agent'[g].done
            BY <2>7, Moves DEF DoneLate
        <3> QED
            BY <2>o, <3>1, <1>f
    <2> QED
        BY <1>1, <2>1, <2>2, <2>3, <2>4, <2>5, <2>6, <2>7, <2>8 DEF FetchStep, InstallStep,
           CheckOffers, DownloadFails, Attach, AttachFails, ClearLeftovers, BeginCopy,
           EndCopy, Verify, MoveAside, MoveAsideFails, SwapIn, SwapFails, RollBack,
           RollBackFails, Unstage, Detach, Relaunch, Crash, Updating
<1>2. CASE UNCHANGED vars
    BY <1>2 DEF vars, DoneLate
<1> QED
    BY <1>1, <1>2 DEF Next

KeptInv == FilesInv /\ DoneLate /\ KeptSomewhere

\* A step of g that leaves the place empty must not lose the last hold on the app.
LEMMA KeptFrame ==
    ASSUME KeptSomewhere, NEW g \in Agents, OthersStay(g), litter \subseteq litter',
           installed' \in Builds \/ installed' = installed,
           installed \notin Builds /\ Holds(g) => KeptSomewhere'
    PROVE  KeptSomewhere'
BY DEF KeptSomewhere, OthersStay, Holds

LEMMA HoldOn ==
    ASSUME TypeOK, NEW g \in Agents, Holds(g), NEW pc \in {"rollBack", "unstage", "detach"},
           Goto(g, pc) \/ GoIdle(g), backup'[g] = backup[g]
    PROVE  KeptSomewhere'
<1>1. /\ agent'[g].pc \in {"rollBack", "unstage", "detach", "idle"}
      /\ ~agent'[g].done
    BY Moves, Stops DEF Holds
<1> QED
    BY <1>1 DEF Holds, KeptSomewhere

LEMMA KeptStep == KeptInv /\ [Next]_vars => KeptSomewhere'
<1> SUFFICES ASSUME KeptInv, [Next]_vars PROVE KeptSomewhere'
    OBVIOUS
<1>t. TypeOK /\ installed \in Builds \cup {"none"} /\ KeptSomewhere
    BY DEF KeptInv, FilesInv, OnlyVerified
<1>1. ASSUME NEW g \in Agents, Launch(g) \/ FetchStep(g) PROVE KeptSomewhere'
    <2>1. installed' = installed /\ litter' = litter
        BY <1>1 DEF Launch, FetchStep, CheckOffers, Download, DownloadFails, Attach,
           AttachFails
    \* It is off, or checks where there is an install, or is past its check.
    <2>2. ~(installed \notin Builds /\ Holds(g))
        BY <1>1, <1>t DEF Launch, FetchStep, CheckOffers, Download, DownloadFails, Attach,
           AttachFails, Holds
    <2> QED
        BY <1>t, <1>1, <2>1, <2>2, OneAtATime, KeptFrame
<1>2. ASSUME NEW g \in Agents, InstallStep(g) PROVE KeptSomewhere'
    <2>o. OthersStay(g)
        BY <1>t, <1>2, OneAtATime
    <2>1. CASE MoveAside(g)
        <3>1. CASE installed = "none"
            <4>1. ~Holds(g) /\ installed' = installed /\ litter' = litter
                BY <2>1, <3>1 DEF MoveAside, Holds
            <4> QED
                BY <1>t, <2>o, <4>1, KeptFrame
        <3>2. CASE installed # "none"
            <4>1. backup'[g] \in Builds /\ agent'[g].pc = "swap"
                BY <2>1, <3>2, <1>t, Moves DEF MoveAside, TypeOK
            <4>2. ~agent'[g].done
                BY <2>1, <1>t, Moves DEF MoveAside, KeptInv, DoneLate
            <4> QED
                BY <4>1, <4>2 DEF KeptSomewhere, Holds
        <3> QED
            BY <3>1, <3>2
    <2>2. CASE SwapIn(g)
        BY <2>2 DEF SwapIn, KeptInv, FilesInv, VerifiedIsStaged, KeptSomewhere, Builds
    <2>3. CASE SwapFails(g)
        <3>1. Holds(g) => Goto(g, "rollBack") /\ backup' = backup
            BY <2>3 DEF SwapFails, Holds, Builds
        <3>2. Holds(g) => KeptSomewhere'
            BY <3>1, <1>t, HoldOn
        <3> QED
            BY <1>t, <2>3, <2>o, <3>2, KeptFrame DEF SwapFails
    <2>4. CASE RollBack(g)
        <3>1. Holds(g) => installed' \in Builds
            BY <2>4, <1>t DEF RollBack, Holds
        <3>2. installed' \in Builds \/ installed' = installed
            BY <2>4, <1>t DEF RollBack, KeptInv, FilesInv, AsideIsWhole
        <3> QED
            BY <1>t, <2>4, <2>o, <3>1, <3>2, KeptFrame DEF RollBack, KeptSomewhere
    <2>5. CASE RollBackFails(g)
        <3>1. Holds(g) => KeptSomewhere'
            BY <2>5, <1>t, HoldOn DEF RollBackFails
        <3> QED
            BY <1>t, <2>5, <2>o, <3>1, KeptFrame DEF RollBackFails
    <2>6. CASE Unstage(g)
        <3>1. Holds(g) => KeptSomewhere'
            BY <2>6, <1>t, HoldOn DEF Unstage
        <3> QED
            BY <1>t, <2>6, <2>o, <3>1, KeptFrame DEF Unstage
    <2>7. CASE Detach(g)
        <3>1. Holds(g) => GoIdle(g) /\ backup' = backup
            BY <2>7 DEF Detach, Holds
        <3>2. Holds(g) => KeptSomewhere'
            BY <3>1, <1>t, HoldOn
        <3> QED
            BY <1>t, <2>7, <2>o, <3>2, KeptFrame DEF Detach
    <2>8. CASE \/ ClearLeftovers(g) \/ BeginCopy(g) \/ EndCopy(g) \/ Verify(g)
               \/ MoveAsideFails(g) \/ DropOld(g) \/ Relaunch(g)
        <3>1. ~Holds(g) /\ installed' = installed /\ litter \subseteq litter'
            BY <2>8 DEF ClearLeftovers, BeginCopy, EndCopy, Verify, MoveAsideFails,
               DropOld, Relaunch, Holds
        <3> QED
            BY <1>t, <2>o, <3>1, KeptFrame
    <2> QED
        BY <1>2, <2>1, <2>2, <2>3, <2>4, <2>5, <2>6, <2>7, <2>8 DEF InstallStep
<1>3. ASSUME NEW g \in Agents, Crash(g) PROVE KeptSomewhere'
    <2>1. Holds(g) => backup[g] \in litter' \cap Builds
        BY <1>3 DEF Crash, Holds, Builds
    <2>2. installed' = installed /\ litter \subseteq litter'
        BY <1>3 DEF Crash
    <2>3. OthersStay(g)
        BY <1>t, <1>3, OneAtATime
    <2> QED
        BY <1>t, <2>1, <2>2, <2>3, KeptFrame DEF KeptSomewhere
<1>4. CASE UNCHANGED vars
    BY <1>4, <1>t DEF vars, KeptSomewhere, Holds
<1> QED
    BY <1>1, <1>2, <1>3, <1>4 DEF Next

\* However many agents update at once, and wherever they fail or die, a whole
\* build is in place or beside it.
THEOREM AppIsNeverLost == Spec => []NeverLost
<1>1. Init => KeptInv
    BY InitFiles DEF Init, KeptInv, DoneLate, KeptSomewhere, Builds, Off, Agent
<1>2. KeptInv /\ [Next]_vars => KeptInv'
    BY FilesStep, DoneStep, KeptStep DEF KeptInv, FilesInv
<1>3. KeptInv => NeverLost
    BY DEF KeptInv, KeptSomewhere, NeverLost, Holds
<1> QED
    BY <1>1, <1>2, <1>3, PTL DEF Spec

-----------------------------------------------------------------------------
(* The volumes.                                                            *)

Attached == Updating \ {"download", "attach", "relaunch"}

\* g works from the volume of the image it downloaded, and copies from there.
OwnSource(g) ==
    /\ agent[g].pc \in Attached \cup {"attach"} => agent[g].image \in {"new", "bad"}
    /\ agent[g].pc \in Attached => volumes[agent[g].mount] = agent[g].image
    /\ agent[g].pc = "copying" => staged[g] = "torn"
    /\ agent[g].pc = "verify" => staged[g] \in {agent[g].image, "torn"}

\* No two agents work from one mount point.
MountsApart ==
    \A g, h \in Agents : g # h /\ {agent[g].pc, agent[h].pc} \subseteq Attached
                         => agent[g].mount # agent[h].mount

SourceInv == (\A g \in Agents : OwnSource(g)) /\ MountsApart

\* A step of g changes no volume but its own and a free mount point's, and works
\* from one of these.
LEMMA SourceFrame ==
    ASSUME TypeOK, SourceInv, NEW g \in Agents, OthersStay(g), OwnSource(g)',
           \A m \in Mounts : \/ volumes'[m] = volumes[m] \/ m \in Free
                             \/ agent[g].pc \in Attached /\ m = agent[g].mount,
           agent'[g].pc \in Attached =>
               \/ agent'[g].mount \in Free
               \/ agent[g].pc \in Attached /\ agent'[g].mount = agent[g].mount
    PROVE  SourceInv'
<1>1. ASSUME NEW h \in Agents \ {g}
      PROVE  /\ OwnSource(h)'
             /\ {agent'[g].pc, agent'[h].pc} \subseteq Attached
                    => agent'[g].mount # agent'[h].mount
    <2>1. agent'[h] = agent[h] /\ staged'[h] = staged[h] /\ agent[h].mount \in Mounts
        BY DEF OthersStay, TypeOK, AgentStates
    <2>2. agent[h].pc \in Attached => agent[h].mount \notin Free
        BY DEF SourceInv, OwnSource, Free
    <2>3. agent[h].pc \in Attached /\ agent[g].pc \in Attached
              => agent[g].mount # agent[h].mount
        BY DEF SourceInv, MountsApart
    <2>4. agent[h].pc \in Attached => volumes'[agent[h].mount] = volumes[agent[h].mount]
        BY <2>1, <2>2, <2>3
    <2> QED
        BY <2>1, <2>2, <2>3, <2>4 DEF SourceInv, OwnSource
<1>2. ASSUME NEW h \in Agents, NEW i \in Agents, h # i,
             {agent'[h].pc, agent'[i].pc} \subseteq Attached
      PROVE  agent'[h].mount # agent'[i].mount
    <2>1. CASE h = g
        BY <1>1, <1>2, <2>1
    <2>2. CASE i = g
        BY <1>1, <1>2, <2>2
    <2>3. CASE h # g /\ i # g
        BY <1>2, <2>3 DEF OthersStay, SourceInv, MountsApart
    <2> QED
        BY <2>1, <2>2, <2>3
<1> QED
    BY <1>1, <1>2 DEF SourceInv, MountsApart

LEMMA SourceStep == TypeOK /\ SourceInv /\ [Next]_vars => SourceInv'
<1> SUFFICES ASSUME TypeOK, SourceInv, [Next]_vars PROVE SourceInv'
    OBVIOUS
<1>1. ASSUME NEW g \in Agents, Launch(g) \/ FetchStep(g) \/ InstallStep(g) \/ Crash(g)
      PROVE  SourceInv'
    <2>o. OthersStay(g)
        BY <1>1, OneAtATime
    <2>s. OwnSource(g) /\ agent[g].mount \in Mounts /\ staged \in [Agents -> Maybe]
        BY DEF SourceInv, TypeOK, AgentStates
    <2>a. {"off", "idle", "download", "attach", "relaunch"} \cap Attached = {}
        BY DEF Attached, Updating
    \* A step that leaves the volumes and where g works.
    <2>f. ASSUME UNCHANGED volumes, OwnSource(g)',
                 agent'[g].pc \in Attached =>
                     agent[g].pc \in Attached /\ agent'[g].mount = agent[g].mount
          PROVE  SourceInv'
        BY <2>o, <2>f, SourceFrame
    <2>1. CASE UNCHANGED volumes /\ agent'[g].pc \in {"off", "idle", "download"}
        <3>1. OwnSource(g)'
            BY <2>1, <2>a DEF OwnSource
        <3> QED
            BY <2>1, <2>a, <2>f, <3>1
    <2>2. CASE Download(g)
        <3>1. agent'[g].pc = "attach" /\ agent'[g].image \in {"new", "bad"}
            BY <2>2 DEF Download, TypeOK, AgentStates
        <3>2. OwnSource(g)' /\ UNCHANGED volumes
            BY <2>2, <2>a, <3>1 DEF OwnSource, Download
        <3> QED
            BY <2>a, <2>f, <3>1, <3>2
    <2>3. CASE Attach(g)
        <3>1. PICK m \in Mounts :
                 /\ MountsAt(agent[g].image, m)
                 /\ agent' = [agent EXCEPT ![g].pc = "clear", ![g].mount = m]
            BY <2>3 DEF Attach
        <3>2. /\ agent'[g].pc = "clear" /\ agent'[g].mount = m
              /\ agent'[g].image = agent[g].image
            BY <3>1 DEF TypeOK, AgentStates
        <3>3. /\ m \in Free /\ volumes'[m] = agent[g].image
              /\ \A n \in Mounts : volumes'[n] = volumes[n] \/ n = m
            BY <3>1 DEF MountsAt, TypeOK
        <3>4. OwnSource(g)'
            BY <2>3, <2>s, <3>2, <3>3 DEF OwnSource, Attach
        <3> QED
            BY <2>o, <3>2, <3>3, <3>4, SourceFrame
    <2>4. CASE AttachFails(g)
        <3>1. agent'[g].pc = "idle"
            BY <2>4, Stops DEF AttachFails
        <3>2. OwnSource(g)'
            BY <2>a, <3>1 DEF OwnSource
        <3>3. \A m \in Mounts : volumes'[m] = volumes[m] \/ m \in Free
            BY <2>4 DEF AttachFails, MountsAt, TypeOK
        <3> QED
            BY <2>a, <2>o, <3>1, <3>2, <3>3, SourceFrame
    <2>5. CASE Detach(g)
        <3>1. Goto(g, "relaunch") \/ GoIdle(g)
            BY <2>5 DEF Detach
        <3>2. agent'[g].pc \in {"relaunch", "off", "idle"}
            BY <3>1, Moves, Stops
        <3>3. OwnSource(g)'
            BY <2>a, <3>2 DEF OwnSource
        <3>4. \A m \in Mounts : volumes'[m] = volumes[m] \/ m = agent[g].mount
            BY <2>5 DEF Detach, TypeOK
        <3>5. agent[g].pc \in Attached
            BY <2>5 DEF Detach, Attached, Updating
        <3> QED
            BY <2>a, <2>o, <3>2, <3>3, <3>4, <3>5, SourceFrame
    <2>6. CASE BeginCopy(g)
        <3>1. Goto(g, "copying") \/ Goto(g, "detach")
            BY <2>6 DEF BeginCopy
        <3>2. /\ agent'[g].pc \in {"copying", "detach"}
              /\ agent'[g].pc = "copying" => staged'[g] = "torn"
            BY <2>6, <3>1, <2>s, Moves DEF BeginCopy
        <3>3. agent'[g].image = agent[g].image /\ agent'[g].mount = agent[g].mount
            BY <3>1, Moves
        <3>4. agent[g].pc \in Attached
            BY <2>6 DEF BeginCopy, Attached, Updating
        <3>5. OwnSource(g)' /\ UNCHANGED volumes
            BY <2>6, <2>s, <3>2, <3>3, <3>4 DEF OwnSource, BeginCopy
        <3> QED
            BY <2>f, <3>3, <3>4, <3>5
    <2>7. CASE EndCopy(g)
        <3>1. Goto(g, "verify") \/ Goto(g, "unstage")
            BY <2>7 DEF EndCopy
        <3>2. agent[g].pc = "copying" /\ agent[g].pc \in Attached
            BY <2>7 DEF EndCopy, Attached, Updating
        <3>3. agent'[g].pc = "verify" => staged'[g] \in {agent[g].image, "torn"}
            BY <2>7, <3>2, <2>s, Moves DEF EndCopy, OwnSource
        <3>4. /\ agent'[g].pc \in {"verify", "unstage"}
              /\ agent'[g].image = agent[g].image /\ agent'[g].mount = agent[g].mount
            BY <3>1, Moves
        <3>5. OwnSource(g)' /\ UNCHANGED volumes
            BY <2>7, <2>s, <3>2, <3>3, <3>4 DEF OwnSource, EndCopy
        <3> QED
            BY <2>f, <3>2, <3>4, <3>5
    <2>8. CASE DropOld(g)
        <3>1. /\ agent'[g].pc = "detach" /\ agent[g].pc \in Attached
              /\ agent'[g].image = agent[g].image /\ agent'[g].mount = agent[g].mount
            BY <2>8 DEF DropOld, TypeOK, AgentStates, Attached, Updating
        <3>2. OwnSource(g)' /\ UNCHANGED volumes
            BY <2>8, <2>s, <3>1 DEF OwnSource, DropOld
        <3> QED
            BY <2>f, <3>1, <3>2
    <2>9. CASE \/ ClearLeftovers(g) \/ Verify(g) \/ MoveAside(g) \/ MoveAsideFails(g)
               \/ SwapIn(g) \/ SwapFails(g) \/ RollBack(g) \/ RollBackFails(g) \/ Unstage(g)
        <3>1. agent[g].pc \in Attached /\ UNCHANGED volumes
            BY <2>9 DEF ClearLeftovers, Verify, MoveAside, MoveAsideFails, SwapIn, SwapFails,
               RollBack, RollBackFails, Unstage, Attached, Updating
        <3>2. PICK pc \in Attached \ {"copying", "verify"} : Goto(g, pc)
            BY <2>9 DEF ClearLeftovers, Verify, MoveAside, MoveAsideFails, SwapIn, SwapFails,
               RollBack, RollBackFails, Unstage, Attached, Updating
        <3>3. /\ agent'[g].pc \in Attached \ {"copying", "verify"}
              /\ agent'[g].image = agent[g].image /\ agent'[g].mount = agent[g].mount
            BY <3>2, Moves
        <3>4. OwnSource(g)'
            BY <2>s, <3>1, <3>3 DEF OwnSource
        <3> QED
            BY <2>f, <3>1, <3>3, <3>4
    <2>10. CASE Launch(g) \/ CheckOffers(g) \/ DownloadFails(g) \/ Relaunch(g) \/ Crash(g)
        <3>1. UNCHANGED volumes
            BY <2>10 DEF Launch, CheckOffers, DownloadFails, Relaunch, Crash
        <3>2. CASE Launch(g)
            BY <3>1, <3>2, <2>1 DEF Launch, Agent, TypeOK
        <3>3. CASE CheckOffers(g)
            BY <3>1, <3>3, <2>1, Moves DEF CheckOffers
        <3>4. CASE DownloadFails(g) \/ Relaunch(g) \/ Crash(g)
            BY <3>1, <3>4, <2>1, Stops DEF DownloadFails, Relaunch, Crash
        <3> QED
            BY <2>10, <3>2, <3>3, <3>4
    <2> QED
        BY <1>1, <2>2, <2>3, <2>4, <2>5, <2>6, <2>7, <2>8, <2>9, <2>10 DEF FetchStep, InstallStep
<1>2. CASE UNCHANGED vars
    BY <1>2 DEF vars, SourceInv, OwnSource, MountsApart
<1> QED
    BY <1>1, <1>2 DEF Next

\* Whatever images are left attached, an agent verifies a copy of the image it
\* downloaded, or a torn one: no other agent's, and no earlier one's.
THEOREM CopiesOwnImage == Spec => []CopiesItsOwnImage
<1>1. Init => SourceInv
    <2> SUFFICES ASSUME Init PROVE SourceInv
        OBVIOUS
    <2>1. \A g \in Agents : agent[g].pc = "off"
        BY DEF Init, Off, Agent
    <2> QED
        BY <2>1 DEF SourceInv, OwnSource, MountsApart, Attached, Updating
<1>2. SourceInv => CopiesItsOwnImage
    BY DEF SourceInv, OwnSource, CopiesItsOwnImage
<1> QED
    BY <1>1, <1>2, InitType, TypeStep, SourceStep, PTL DEF Spec

-----------------------------------------------------------------------------
(* An absent app is being put back, which BackUnlessMishap rests on.       *)

\* g has the app aside, and is about to fill its place or to put it back.
PutsBack(g) == agent[g].pc \in {"swap", "rollBack"} /\ backup[g] \in Builds

AbsentIsHeld == mishaps = {} /\ Absent => \E g \in Agents : PutsBack(g)

\* A step of g must not leave the place empty and let go of the app.
LEMMA HeldFrame ==
    ASSUME AbsentIsHeld, NEW g \in Agents, OthersStay(g), mishaps \subseteq mishaps',
           installed' \in Builds \/ installed' = installed,
           installed = "none" /\ mishaps = {} /\ PutsBack(g) => AbsentIsHeld'
    PROVE  AbsentIsHeld'
<1> SUFFICES ASSUME mishaps' = {}, installed' = "none" PROVE \E h \in Agents : PutsBack(h)'
    BY DEF AbsentIsHeld, Absent
<1>1. installed = "none" /\ mishaps = {}
    BY DEF Builds
<1>2. PICK h \in Agents : PutsBack(h)
    BY <1>1 DEF AbsentIsHeld, Absent
<1>3. CASE h = g
    BY <1>1, <1>2, <1>3 DEF AbsentIsHeld, Absent
<1>4. CASE h # g
    BY <1>2, <1>4 DEF OthersStay, PutsBack
<1> QED
    BY <1>3, <1>4

LEMMA HeldStep == FilesInv /\ AbsentIsHeld /\ [Next]_vars => AbsentIsHeld'
<1> SUFFICES ASSUME FilesInv, AbsentIsHeld, [Next]_vars PROVE AbsentIsHeld'
    OBVIOUS
<1>t. TypeOK /\ installed \in Builds \cup {"none"}
    BY DEF FilesInv, OnlyVerified
<1>1. ASSUME NEW g \in Agents, Launch(g) \/ FetchStep(g) \/ InstallStep(g) \/ Crash(g)
      PROVE  AbsentIsHeld'
    <2>o. OthersStay(g)
        BY <1>t, <1>1, OneAtATime
    <2>1. CASE Crash(g)
        <3>1. PutsBack(g) => mishaps' # {}
            BY <2>1 DEF Crash, PutsBack, Updating
        <3>2. PutsBack(g) => AbsentIsHeld'
            BY <3>1 DEF AbsentIsHeld
        <3>3. mishaps \subseteq mishaps' /\ installed' = installed
            BY <2>1 DEF Crash
        <3> QED
            BY <2>o, <3>2, <3>3, HeldFrame
    <2>2. CASE MoveAside(g)
        <3>1. CASE installed = "none"
            <4>1. ~PutsBack(g) /\ installed' = installed /\ mishaps' = mishaps
                BY <2>2, <3>1 DEF MoveAside, PutsBack
            <4> QED
                BY <2>o, <4>1, HeldFrame
        <3>2. CASE installed # "none"
            <4>1. backup'[g] \in Builds /\ agent'[g].pc = "swap"
                BY <2>2, <3>2, <1>t, Moves DEF MoveAside, TypeOK, Updating
            <4> QED
                BY <4>1 DEF AbsentIsHeld, PutsBack
        <3> QED
            BY <3>1, <3>2
    <2>3. CASE SwapIn(g)
        BY <2>3 DEF SwapIn, FilesInv, VerifiedIsStaged, AbsentIsHeld, Absent
    <2>4. CASE SwapFails(g)
        <3>1. PutsBack(g) => Goto(g, "rollBack") /\ backup' = backup
            BY <2>4 DEF SwapFails, PutsBack, Builds
        <3>2. PutsBack(g) => PutsBack(g)'
            BY <3>1, <1>t, Moves DEF PutsBack, Updating
        <3>3. installed' = installed /\ mishaps' = mishaps
            BY <2>4 DEF SwapFails
        <3> QED
            BY <2>o, <3>2, <3>3, HeldFrame DEF AbsentIsHeld
    <2>5. CASE RollBack(g)
        <3>1. installed = "none" /\ PutsBack(g) => installed' \in Builds
            BY <2>5 DEF RollBack, PutsBack
        <3>2. installed' \in Builds => AbsentIsHeld'
            BY DEF AbsentIsHeld, Absent, Builds
        <3>3. backup[g] = "none" /\ installed = "none" => installed' = installed
            BY <2>5 DEF RollBack
        <3>4. installed' \in Builds \/ installed' = installed
            BY <2>5, <3>3 DEF RollBack, FilesInv, AsideIsWhole
        <3> QED
            BY <2>5, <2>o, <3>1, <3>2, <3>4, HeldFrame DEF RollBack
    <2>6. CASE RollBackFails(g)
        BY <2>6 DEF RollBackFails, AbsentIsHeld
    <2>7. CASE Launch(g) \/ FetchStep(g)
        <3>1. ~PutsBack(g) /\ installed' = installed /\ mishaps' = mishaps
            BY <2>7 DEF Launch, FetchStep, CheckOffers, Download, DownloadFails, Attach,
               AttachFails, PutsBack
        <3> QED
            BY <2>o, <3>1, HeldFrame
    <2>8. CASE \/ ClearLeftovers(g) \/ BeginCopy(g) \/ EndCopy(g) \/ Verify(g)
               \/ MoveAsideFails(g) \/ Unstage(g) \/ DropOld(g) \/ Detach(g) \/ Relaunch(g)
        <3>1. ~PutsBack(g) /\ installed' = installed /\ mishaps' = mishaps
            BY <2>8 DEF ClearLeftovers, BeginCopy, EndCopy, Verify, MoveAsideFails, Unstage,
               DropOld, Detach, Relaunch, PutsBack
        <3> QED
            BY <2>o, <3>1, HeldFrame
    <2> QED
        BY <1>1, <2>1, <2>2, <2>3, <2>4, <2>5, <2>6, <2>7, <2>8 DEF InstallStep
<1>2. CASE UNCHANGED vars
    BY <1>2 DEF vars, AbsentIsHeld, Absent, PutsBack
<1> QED
    BY <1>1, <1>2 DEF Next

\* However many agents swap at once and however a swap fails, until one dies in
\* an update or a rollback is refused, an absent app has an agent that holds it
\* and has yet to swap the new build in or to put the old one back.
THEOREM AbsentAppIsHeld == Spec => []AbsentIsHeld
<1>1. Init => AbsentIsHeld
    BY DEF Init, AbsentIsHeld, Absent
<1>2. FilesInv /\ AbsentIsHeld /\ [Next]_vars => AbsentIsHeld'
    BY HeldStep
<1> QED
    BY <1>1, <1>2, InitFiles, FilesStep, PTL DEF Spec

=============================================================================
