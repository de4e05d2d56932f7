------------------------------ MODULE MacUpdate ------------------------------
(***************************************************************************)
(* The self-update on macOS: from run_update_check to the relaunch, with   *)
(* every file operation of stage_verify_and_swap a step of its own, so     *)
(* that an agent may die between any two of them.                          *)
(*                                                                         *)
(* A bundle is "old", "new", "bad" (a release without Klaay's signature)   *)
(* or "torn" (half copied).  The copies an agent keeps beside the install  *)
(* carry its pid in their name: an agent that starts later has another pid *)
(* and does not see them, so they end up in litter.                        *)
(***************************************************************************)

CONSTANTS
    Agents,    \* agents that may run at once: one, or more if unguarded
    Mounts,    \* places under /Volumes: a bound on the images attached at once
    MountName  \* the first of them, /Volumes/KlaayGuard

ASSUME MountAssumption == MountName \in Mounts

VARIABLES
    installed,  \* /Applications/KlaayGuard.app
    staged,     \* .KlaayGuard.app.new-<pid>, per agent
    backup,     \* .KlaayGuard.app.old-<pid>, per agent
    volumes,    \* the image attached at each mount point
    agent,      \* where each agent is, the build it runs, the image it downloaded
                \* and, from its attach to its detach, the mount point it works from
    litter,     \* copies left under the pids of dead agents
    mishaps     \* ghost: "death", of an agent in the middle of an update;
                \* "stuck", a rollback that the file system refused

files == <<installed, staged, backup, litter>>
vars  == <<installed, staged, backup, volumes, agent, litter, mishaps>>

Builds  == {"old", "new"}
Bundles == Builds \cup {"bad", "torn"}
Maybe   == Bundles \cup {"none"}

Updating == {"download", "attach", "clear", "copy", "copying", "verify", "aside",
             "swap", "rollBack", "unstage", "dropOld", "detach", "relaunch"}

AgentStates == [pc : {"off", "idle"} \cup Updating, runs : Builds \cup {"none"},
                image : {"none", "new", "bad"}, mount : Mounts,
                done : BOOLEAN]

TypeOK ==
    /\ installed \in Maybe
    /\ staged \in [Agents -> Maybe]
    /\ backup \in [Agents -> Maybe]
    /\ volumes \in [Mounts -> {"none", "new", "bad"}]
    /\ agent \in [Agents -> AgentStates]
    /\ litter \subseteq Bundles
    /\ mishaps \subseteq {"death", "stuck"}

Agent(pc, build) ==
    [pc |-> pc, runs |-> build, image |-> "none", mount |-> MountName, done |-> FALSE]
Off == Agent("off", "none")

Init ==
    /\ installed = "old"
    /\ staged = [g \in Agents |-> "none"]
    /\ backup = [g \in Agents |-> "none"]
    /\ volumes = [m \in Mounts |-> "none"]
    /\ agent = [g \in Agents |-> Off]
    /\ litter = {}
    /\ mishaps = {}

At(g, pc)   == agent[g].pc = pc
Goto(g, pc) == agent' = [agent EXCEPT ![g].pc = pc]
GoIdle(g)   == agent' = [agent EXCEPT ![g] = Agent("idle", @.runs)]

-----------------------------------------------------------------------------
(* Up to the mounted image.                                                *)

\* launchd, or the restart after an update: what is installed is started.
Launch(g) ==
    /\ At(g, "off")
    /\ installed \in Builds
    /\ agent' = [agent EXCEPT ![g] = Agent("idle", installed)]
    /\ UNCHANGED <<files, volumes, mishaps>>

\* The check is made only while the app is installed; a newer build is
\* offered to an old one.
CheckOffers(g) ==
    /\ At(g, "idle")
    /\ installed # "none"
    /\ agent[g].runs = "old"
    /\ Goto(g, "download")
    /\ UNCHANGED <<files, volumes, mishaps>>

\* Bug: the transfer's early end is taken for its end.
DownloadCutShort(g) ==
    /\ At(g, "download")
    /\ \E b \in {"new", "torn"} :
          agent' = [agent EXCEPT ![g].pc = "attach", ![g].image = b]
    /\ UNCHANGED <<files, volumes, mishaps>>

\* The checksum is optional on macOS: the image may hold anything.
Download(g) ==
    /\ At(g, "download")
    /\ \E b \in {"new", "bad"} :
          agent' = [agent EXCEPT ![g].pc = "attach", ![g].image = b]
    /\ UNCHANGED <<files, volumes, mishaps>>

\* The download, its checksum, the access to /Applications or the temporary
\* file fails.
DownloadFails(g) ==
    /\ At(g, "download")
    /\ GoIdle(g)
    /\ UNCHANGED <<files, volumes, mishaps>>

Free == {m \in Mounts : volumes[m] = "none"}

\* hdiutil mounts the image under its name, or under a numbered one where an
\* earlier volume has the name.
MountsAt(image, m) ==
    /\ m \in Free
    /\ MountName \in Free => m = MountName
    /\ volumes' = [volumes EXCEPT ![m] = image]

\* Bug: the mount point is cut at its first space, "/Volumes/KlaayGuard 1" too.
AttachCutAtSpace(g) ==
    /\ At(g, "attach")
    /\ \E m \in Mounts : MountsAt(agent[g].image, m)
    /\ agent' = [agent EXCEPT ![g].pc = "clear", ![g].mount = MountName]
    /\ UNCHANGED <<files, mishaps>>

\* The mount point is read from hdiutil's output.
Attach(g) ==
    /\ At(g, "attach")
    /\ \E m \in Mounts :
          /\ MountsAt(agent[g].image, m)
          /\ agent' = [agent EXCEPT ![g].pc = "clear", ![g].mount = m]
    /\ UNCHANGED <<files, mishaps>>

\* hdiutil fails; or it mounts the volume, its output names no mount point, and
\* the volume is left.
AttachFails(g) ==
    /\ At(g, "attach")
    /\ UNCHANGED volumes \/ \E m \in Mounts : MountsAt(agent[g].image, m)
    /\ GoIdle(g)
    /\ UNCHANGED <<files, mishaps>>

-----------------------------------------------------------------------------
(* stage_verify_and_swap.                                                  *)

\* Leftovers under this pid go; the image must hold an app.
ClearLeftovers(g) ==
    /\ At(g, "clear")
    /\ \/ /\ staged' = [staged EXCEPT ![g] = "none"]
          /\ backup' = [backup EXCEPT ![g] = "none"]
          /\ Goto(g, "copy")
       \/ Goto(g, "detach") /\ UNCHANGED <<staged, backup>>
    /\ UNCHANGED <<installed, volumes, litter, mishaps>>

\* ditto starts to write the copy, or is not started.
BeginCopy(g) ==
    /\ At(g, "copy")
    /\ \/ /\ staged' = [staged EXCEPT ![g] = "torn"]
          /\ Goto(g, "copying")
       \/ Goto(g, "detach") /\ UNCHANGED staged
    /\ UNCHANGED <<installed, backup, volumes, litter, mishaps>>

\* ditto reports success, whole or not, or reports a failure, as it does when
\* there is nothing to copy.
EndCopy(g) ==
    /\ At(g, "copying")
    /\ \/ /\ volumes[agent[g].mount] # "none"
          /\ staged' \in {staged, [staged EXCEPT ![g] = volumes[agent[g].mount]]}
          /\ Goto(g, "verify")
       \/ Goto(g, "unstage") /\ UNCHANGED staged
    /\ UNCHANGED <<installed, backup, volumes, litter, mishaps>>

\* Bug: the mounted source is verified, not the staged copy.
VerifySource(g) ==
    /\ At(g, "verify")
    /\ Goto(g, IF volumes[agent[g].mount] = "new" THEN "aside" ELSE "unstage")
    /\ UNCHANGED <<files, volumes, mishaps>>

\* codesign and spctl on the staged copy.
Verify(g) ==
    /\ At(g, "verify")
    /\ Goto(g, IF staged[g] = "new" THEN "aside" ELSE "unstage")
    /\ UNCHANGED <<files, volumes, mishaps>>

\* Bug: the install is deleted, not moved aside.
DeleteInstalled(g) ==
    /\ At(g, "aside")
    /\ installed' = "none"
    /\ Goto(g, "swap")
    /\ UNCHANGED <<staged, backup, volumes, litter, mishaps>>

MoveAside(g) ==
    /\ At(g, "aside")
    /\ backup' = IF installed = "none" THEN backup
                                       ELSE [backup EXCEPT ![g] = installed]
    /\ installed' = "none"
    /\ Goto(g, "swap")
    /\ UNCHANGED <<staged, volumes, litter, mishaps>>

\* The early return keeps the staged copy.
MoveAsideFails(g) ==
    /\ At(g, "aside")
    /\ Goto(g, "detach")
    /\ UNCHANGED <<files, volumes, mishaps>>

\* A directory is not renamed over one that has files in it.
SwapIn(g) ==
    /\ At(g, "swap")
    /\ installed = "none"
    /\ installed' = staged[g]
    /\ staged' = [staged EXCEPT ![g] = "none"]
    /\ Goto(g, "dropOld")
    /\ UNCHANGED <<backup, volumes, litter, mishaps>>

\* Bug: a failed swap ends the update, without the rollback.
NoRollBack(g) ==
    /\ At(g, "swap")
    /\ Goto(g, "unstage")
    /\ UNCHANGED <<files, volumes, mishaps>>

\* The rename fails, over an install another agent put there or otherwise.
SwapFails(g) ==
    /\ At(g, "swap")
    /\ Goto(g, IF backup[g] = "none" THEN "unstage" ELSE "rollBack")
    /\ UNCHANGED <<files, volumes, mishaps>>

\* The old app goes back, unless another agent has put one there since.
RollBack(g) ==
    /\ At(g, "rollBack")
    /\ \/ /\ installed = "none"
          /\ installed' = backup[g]
          /\ backup' = [backup EXCEPT ![g] = "none"]
       \/ installed # "none" /\ UNCHANGED <<installed, backup>>
    /\ Goto(g, "unstage")
    /\ UNCHANGED <<staged, volumes, litter, mishaps>>

\* The rename back fails as well, which the code ignores.
RollBackFails(g) ==
    /\ At(g, "rollBack")
    /\ installed = "none"
    /\ mishaps' = mishaps \cup {"stuck"}
    /\ Goto(g, "unstage")
    /\ UNCHANGED <<files, volumes>>

Unstage(g) ==
    /\ At(g, "unstage")
    /\ staged' = [staged EXCEPT ![g] = "none"]
    /\ Goto(g, "detach")
    /\ UNCHANGED <<installed, backup, volumes, litter, mishaps>>

DropOld(g) ==
    /\ At(g, "dropOld")
    /\ backup' = [backup EXCEPT ![g] = "none"]
    /\ agent' = [agent EXCEPT ![g].pc = "detach", ![g].done = TRUE]
    /\ UNCHANGED <<installed, staged, volumes, litter, mishaps>>

-----------------------------------------------------------------------------
(* After the install, whether it succeeded or not.                         *)

\* detach_dmg, by force if need be; a volume that stays even so is not missed.
Detach(g) ==
    /\ At(g, "detach")
    /\ UNCHANGED volumes \/ volumes' = [volumes EXCEPT ![agent[g].mount] = "none"]
    /\ IF agent[g].done THEN Goto(g, "relaunch") ELSE GoIdle(g)
    /\ UNCHANGED <<files, mishaps>>

\* The agent exits; launchd, or its own restart, starts what is installed.
Relaunch(g) ==
    /\ At(g, "relaunch")
    /\ agent' = [agent EXCEPT ![g] = Off]
    /\ litter' = litter \cup ({staged[g], backup[g]} \ {"none"})
    /\ staged' = [staged EXCEPT ![g] = "none"]
    /\ backup' = [backup EXCEPT ![g] = "none"]
    /\ UNCHANGED <<installed, volumes, mishaps>>

\* The agent's process ends, killed or by a fault of its own, and what it has
\* written or attached stays.  (A loss of power is not this: the staged copy is
\* never synced.)
Crash(g) ==
    /\ ~At(g, "off")
    /\ agent' = [agent EXCEPT ![g] = Off]
    /\ litter' = litter \cup ({staged[g], backup[g]} \ {"none"})
    /\ staged' = [staged EXCEPT ![g] = "none"]
    /\ backup' = [backup EXCEPT ![g] = "none"]
    /\ mishaps' = IF agent[g].pc \in Updating THEN mishaps \cup {"death"} ELSE mishaps
    /\ UNCHANGED <<installed, volumes>>

InstallStep(g) ==
    \/ ClearLeftovers(g) \/ BeginCopy(g) \/ EndCopy(g) \/ Verify(g)
    \/ MoveAside(g) \/ MoveAsideFails(g) \/ SwapIn(g) \/ SwapFails(g)
    \/ RollBack(g) \/ RollBackFails(g) \/ Unstage(g) \/ DropOld(g) \/ Detach(g) \/ Relaunch(g)

FetchStep(g) ==
    \/ CheckOffers(g) \/ Download(g) \/ DownloadFails(g)
    \/ Attach(g) \/ AttachFails(g)

Next == \E g \in Agents : Launch(g) \/ FetchStep(g) \/ InstallStep(g) \/ Crash(g)

Spec == Init /\ [][Next]_vars

\* A running agent goes on with its install; nothing is assumed of the check,
\* the download, or a start.
FairSpec == Spec /\ \A g \in Agents : WF_vars(InstallStep(g))

-----------------------------------------------------------------------------

\* What is installed is a whole build with Klaay's signature, whatever the
\* image held, however the copy ended, and wherever an agent died.
OnlyVerified == installed \in Builds \cup {"none"}

\* However many agents update at once, fail and die, a whole build is left in
\* place or beside it: the old app goes only once the new one is in.
NeverLost ==
    \/ installed \in Builds
    \/ litter \cap Builds # {}
    \/ \E g \in Agents : {staged[g], backup[g]} \cap Builds # {}

\* What is about to be verified is a copy of the image this agent downloaded, or
\* a torn one, though images of dead agents, or that would not detach, or whose
\* mount point was not understood, are still attached under the same name.
CopiesItsOwnImage ==
    \A g \in Agents : At(g, "verify") => staged[g] \in {agent[g].image, "torn"}

Absent == installed = "none"

\* While no agent dies in an update and a rollback is not refused, an absent
\* app is soon back, though two agents swap at once and a swap fails.
BackUnlessMishap == [](mishaps = {}) => (Absent ~> ~Absent)

=============================================================================
