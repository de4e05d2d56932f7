----------------------------- MODULE UpdateProofs -----------------------------
(***************************************************************************)
(* Proofs about Update: off macOS, an agent and an installer are whole and *)
(* checked builds wherever the power is lost, and the clock puts no check  *)
(* off; on macOS, the theorems of MacUpdateProofs hold of the composition. *)
(* An agent that leaves for an update has left something to follow it.     *)
(***************************************************************************)
EXTENDS Update, MacUpdateProofs

\* A step of the composition is one of its parts', and a stutter of the other.
LEMMA StepOfAPart ==
    ASSUME [UpdateNext]_<<macOS, selfVars, vars>>
    PROVE  [Self!Next]_(Self!vars) /\ [Next]_vars
BY DEF UpdateNext, selfVars, Self!vars, Self!schedule, Self!files, Self!procs

USE DEF Self!Builds, Self!Contents, Self!Steps, Self!schedule, Self!files, Self!procs,
        Self!FarPast, Self!Never

-----------------------------------------------------------------------------
(* The files.  Bytes that went past the checksum are the release's; a file *)
(* that was synced holds them; an installer runs only after it was read    *)
(* back, and while it runs nothing else touches it.                        *)

Checked ==
    /\ target \in Self!Builds
    /\ durable \subseteq Self!Builds
    /\ task.pc \in {"create", "write", "sync", "rename", "readBack", "spawn", "spawnPlain"}
         => task.bytes = "new"
    /\ task.pc = "sync" /\ platform # "windows" => stagedFile = "new"
    /\ task.pc \in {"rename", "spawn", "spawnPlain"} => stagedFile = "new"
    /\ task.pc = "rename" => synced
    /\ helper.pc # "none" => process.pc # "up"
    /\ helper.pc = "installing" => stagedFile = "new"

TaskType   == [pc : {"waiting"} \cup Self!Steps, bytes : {"none", "new", "bad"}]
HelperType == [pc : {"none", "polling", "installing"}, polls : 0..Cap, bound : BOOLEAN]

LEMMA TaskIdle == Self!Idle \in TaskType /\ Self!Idle.pc = "waiting"
BY DEF TaskType, Self!Idle

LEMMA HelperNone == Self!NoHelper \in HelperType /\ Self!NoHelper.pc = "none"
<1>1. Self!NoHelper \in HelperType
  BY UpdateAssumption DEF HelperType, Self!NoHelper
<1>2. Self!NoHelper.pc = "none"
  BY DEF Self!NoHelper
<1> QED
  BY <1>1, <1>2

LEMMA HelperStarts ==
    ASSUME NEW pc \in {"none", "polling", "installing"}
    PROVE  /\ [Self!NoHelper EXCEPT !.pc = pc] \in HelperType
           /\ [Self!NoHelper EXCEPT !.pc = pc].pc = pc
<1>1. [Self!NoHelper EXCEPT !.pc = pc] \in HelperType
  BY HelperNone DEF HelperType
<1>2. [Self!NoHelper EXCEPT !.pc = pc].pc = pc
  BY HelperNone DEF HelperType
<1> QED
  BY <1>1, <1>2

LEMMA HelperStartsBound ==
    ASSUME NEW pc \in {"none", "polling", "installing"}, NEW b \in BOOLEAN
    PROVE  /\ [Self!NoHelper EXCEPT !.pc = pc, !.bound = b] \in HelperType
           /\ [Self!NoHelper EXCEPT !.pc = pc, !.bound = b].pc = pc
<1>1. [Self!NoHelper EXCEPT !.pc = pc, !.bound = b] \in HelperType
  BY HelperNone DEF HelperType
<1>2. [Self!NoHelper EXCEPT !.pc = pc, !.bound = b].pc = pc
  BY HelperNone DEF HelperType
<1> QED
  BY <1>1, <1>2

LEMMA FreshTyped ==
    ASSUME Self!FreshSchedule
    PROVE  elapsed' \in -1..Self!Never /\ age' \in 0..Self!FarPast /\ polled' \in BOOLEAN
<1>1. elapsed' \in -1..Self!Never
  BY UpdateAssumption DEF Self!FreshSchedule
<1>2. age' \in 0..Self!FarPast
  BY UpdateAssumption DEF Self!FreshSchedule
<1> QED
  BY <1>1, <1>2 DEF Self!FreshSchedule

LEMMA InitSelf == Self!Init => Self!TypeOK /\ Checked
<1> SUFFICES ASSUME Self!Init PROVE Self!TypeOK /\ Checked
  OBVIOUS
<1>1. elapsed \in -1..Self!Never /\ age \in 0..Self!FarPast
  BY UpdateAssumption DEF Self!Init
<1>2. task \in TaskType /\ helper \in HelperType /\ task.pc = "waiting" /\ helper.pc = "none"
  BY TaskIdle, HelperNone DEF Self!Init
<1> QED
  BY <1>1, <1>2 DEF Self!Init, Self!TypeOK, Checked, TaskType, HelperType

\* Where the schedule may take the clock and the age.
LEMMA PassTyped ==
    ASSUME elapsed \in -1..Self!Never, age \in 0..Self!FarPast, NEW k \in 1..Period, Self!Pass(k)
    PROVE  elapsed' \in -1..Self!Never /\ age' \in 0..Self!FarPast
<1> USE UpdateAssumption DEF Self!AtMost
<1>1. CASE elapsed = Self!Never /\ UNCHANGED <<elapsed, age>>
  BY <1>1
<1>2. CASE elapsed \in 0..Self!FarPast /\ elapsed' = Self!AtMost(elapsed + k, Self!FarPast)
             /\ age' = Self!AtMost(age + k, Self!FarPast)
  BY <1>2
<1>3. CASE elapsed' = -1 /\ age' = Self!AtMost(age + k, Self!FarPast)
  BY <1>3
<1>4. CASE elapsed' \in 0..(k - 1) /\ age' = elapsed'
  BY <1>4
<1> QED
  BY <1>1, <1>2, <1>3, <1>4 DEF Self!Pass

LEMMA NextSelfTyped ==
    ASSUME Self!TypeOK, Checked, [Self!Next]_(Self!vars)
    PROVE  Self!TypeOK'
<1> USE DEF Self!TypeOK, TaskType, HelperType
<1>0. /\ \A pc \in Self!Steps : Self!Goto(pc) => task' \in TaskType
      /\ Self!GiveUp => task' \in TaskType
  <2>1. ASSUME NEW pc \in Self!Steps, Self!Goto(pc) PROVE task' \in TaskType
    BY <2>1 DEF Self!Goto
  <2> QED
    BY <2>1, TaskIdle DEF Self!GiveUp
<1>1. CASE Self!Tick
  <2>1. 1 \in 1..Period /\ Self!Pass(1)
    BY <1>1, UpdateAssumption DEF Self!Tick
  <2>2. elapsed' \in -1..Self!Never /\ age' \in 0..Self!FarPast
    BY <2>1, PassTyped
  <2>3. polled' = FALSE /\ UNCHANGED <<platform, task, Self!files, Self!procs>>
    BY <1>1 DEF Self!Tick
  <2>4. polled' \in BOOLEAN
    BY <2>3
  <2>5. UNCHANGED <<platform, task, Self!files, process, helper, accidents>>
    BY <2>3
  <2> QED
    BY <2>2, <2>4, <2>5
<1>2. CASE Self!Suspend
  <2>1. elapsed' \in -1..Self!Never /\ age' \in 0..Self!FarPast
    BY <1>2, PassTyped DEF Self!Suspend
  <2> QED
    BY <1>2, <2>1 DEF Self!Suspend
<1>3. CASE Self!SetClock
  BY <1>3, UpdateAssumption DEF Self!SetClock
<1>4. CASE Self!PollDue
  BY <1>4, UpdateAssumption DEF Self!PollDue, Self!Goto
<1>5. CASE Self!PollNotDue
  BY <1>5 DEF Self!PollNotDue
<1>6. CASE Self!CheckOffers
  BY <1>6 DEF Self!CheckOffers, Self!Goto
<1>7. CASE Self!NothingOffered
  BY <1>7, TaskIdle DEF Self!NothingOffered, Self!GiveUp
<1>8. CASE Self!Download
  BY <1>8, TaskIdle DEF Self!Download
<1>9. CASE Self!Create
  <2>1. task' \in TaskType
    BY <1>0, <1>9 DEF Self!Create
  <2>2. stagedFile' \in Self!Contents \cup {"none"} /\ synced' \in BOOLEAN
    BY <1>9 DEF Self!Create
  <2> QED
    BY <1>9, <2>1, <2>2 DEF Self!Create
<1>10. CASE Self!Write
  BY <1>10, TaskIdle DEF Self!Write, Self!Goto, Self!GiveUp
<1>11. CASE Self!Sync
  <2>1. (IF platform = "windows" THEN "readBack" ELSE "rename") \in Self!Steps
    OBVIOUS
  <2>2. task' \in TaskType
    BY <1>0, <1>11, <2>1 DEF Self!Sync
  <2>3. stagedFile' \in Self!Contents \cup {"none"} /\ synced' \in BOOLEAN
    BY <1>11 DEF Self!Sync
  <2> QED
    BY <1>11, <2>2, <2>3 DEF Self!Sync
<1>12. CASE Self!Rename
  <2>1. stagedFile = "new"
    BY <1>12 DEF Self!Rename, Self!At, Checked
  <2> QED
    BY <1>12, <2>1, TaskIdle DEF Self!Rename, Self!At, Checked, Self!Goto, Self!GiveUp
<1>13. CASE Self!SyncDir
  BY <1>13 DEF Self!SyncDir, Self!Goto
<1>14. CASE Self!ReadBack
  BY <1>14, TaskIdle DEF Self!ReadBack, Self!Goto, Self!GiveUp
<1>15. CASE Self!Relaunch
  BY <1>15, TaskIdle, HelperStarts DEF Self!Relaunch, Self!GiveUp
<1>16. CASE Self!Spawn
  BY <1>16, TaskIdle, HelperStarts DEF Self!Spawn, Self!Goto, Self!GiveUp
<1>17. CASE Self!SpawnPlain
  <2>1. task' \in TaskType
    BY <1>17, TaskIdle DEF Self!SpawnPlain, Self!GiveUp
  <2>2. CASE UNCHANGED <<helper, process>>
    BY <1>17, <2>1, <2>2 DEF Self!SpawnPlain
  <2>3. ASSUME NEW b \in BOOLEAN,
               helper' = [Self!NoHelper EXCEPT !.pc = "installing", !.bound = b],
               process' = [process EXCEPT !.pc = "exiting"]
        PROVE  Self!TypeOK'
    <3>1. helper' \in HelperType
      BY <2>3, HelperStartsBound
    <3>2. process' \in [pc : {"up", "exiting", "down"}, runs : Self!Builds \cup {"none"}]
      BY <2>3
    <3>3. UNCHANGED <<platform, elapsed, age, polled, Self!files, accidents>>
      BY <1>17 DEF Self!SpawnPlain
    <3> QED
      BY <2>1, <3>1, <3>2, <3>3
  <2> QED
    BY <1>17, <2>2, <2>3 DEF Self!SpawnPlain
<1>18. CASE Self!Exits
  BY <1>18, HelperNone DEF Self!Exits
<1>19. CASE Self!PollPid
  <2>1. helper.polls + 1 \in 0..Cap
    BY <1>19, UpdateAssumption DEF Self!PollPid
  <2> QED
    BY <1>19, <2>1 DEF Self!PollPid
<1>20. CASE Self!ExecTarget
  BY <1>20, TaskIdle, HelperNone, FreshTyped DEF Self!ExecTarget, Self!StartAgent
<1>21. CASE Self!ExecAnyway
  BY <1>21, HelperNone DEF Self!ExecAnyway
<1>22. CASE Self!InstallerRuns
  <2>1. stagedFile = "new"
    BY <1>22 DEF Self!InstallerRuns, Checked
  <2> QED
    BY <1>22, <2>1, TaskIdle, HelperNone, FreshTyped DEF Self!InstallerRuns
<1>23. CASE Self!Login
  BY <1>23, TaskIdle, HelperNone, FreshTyped DEF Self!Login, Self!StartAgent
<1>24. CASE Self!PowerLoss
  BY <1>24, TaskIdle, HelperNone DEF Self!PowerLoss
<1>25. CASE UNCHANGED Self!vars
  BY <1>25 DEF Self!vars
<1> QED
  BY <1>1, <1>2, <1>3, <1>4, <1>5, <1>6, <1>7, <1>8, <1>9, <1>10, <1>11, <1>12, <1>13, <1>14,
     <1>15, <1>16, <1>17, <1>18, <1>19, <1>20, <1>21, <1>22, <1>23, <1>24, <1>25
     DEF Self!Next, Self!Install, Self!Replace

LEMMA NextChecked ==
    ASSUME Self!TypeOK, Checked, [Self!Next]_(Self!vars)
    PROVE  Checked'
<1> USE DEF Checked
<1>0. task \in TaskType /\ helper \in HelperType
  BY DEF Self!TypeOK, TaskType, HelperType
<1>1. ASSUME UNCHANGED <<platform, task, stagedFile, synced, target, durable, process, helper>>
      PROVE  Checked'
  BY <1>1
<1>2. CASE Self!Tick \/ Self!Suspend \/ Self!SetClock \/ Self!PollNotDue \/ UNCHANGED Self!vars
  BY <1>1, <1>2 DEF Self!Tick, Self!Suspend, Self!SetClock, Self!PollNotDue, Self!vars
<1>3. ASSUME NEW pc \in Self!Steps, Self!Goto(pc)
      PROVE  task'.pc = pc /\ task'.bytes = task.bytes
  BY <1>0, <1>3 DEF Self!Goto, TaskType
<1>4. ASSUME Self!GiveUp PROVE task'.pc = "waiting"
  BY <1>4, TaskIdle DEF Self!GiveUp
<1>5. CASE Self!PollDue
  <2>1. task'.pc = "check"
    BY <1>5, <1>3 DEF Self!PollDue
  <2> QED
    BY <1>5, <2>1 DEF Self!PollDue
<1>6. CASE Self!CheckOffers
  <2>1. task'.pc = "download"
    BY <1>6, <1>3 DEF Self!CheckOffers
  <2> QED
    BY <1>6, <2>1 DEF Self!CheckOffers
<1>7. CASE Self!NothingOffered
  BY <1>4, <1>7 DEF Self!NothingOffered
<1>8. CASE Self!Download
  <2>1. (task'.pc = "create" /\ task'.bytes = "new") \/ task'.pc = "waiting"
    BY <1>8, TaskIdle DEF Self!Download
  <2> QED
    BY <1>8, <2>1 DEF Self!Download
<1>9. ASSUME Self!At(task.pc) PROVE helper.pc = "none"
  BY <1>9, <1>0 DEF Self!At, HelperType
<1>10. CASE Self!Create
  <2>1. helper.pc = "none" /\ task.bytes = "new"
    BY <1>10, <1>9 DEF Self!Create, Self!At
  <2>2. (task'.pc = "write" /\ task'.bytes = "new") \/ task'.pc = "waiting"
    BY <1>3, <1>4, <1>10, <2>1 DEF Self!Create
  <2> QED
    BY <1>10, <2>1, <2>2 DEF Self!Create
<1>11. CASE Self!Write
  <2>1. helper.pc = "none" /\ task.bytes = "new"
    BY <1>11, <1>9 DEF Self!Write, Self!At
  <2>2. \/ /\ task'.pc = "sync" /\ task'.bytes = "new"
           /\ platform # "windows" => stagedFile' = "new"
        \/ task'.pc = "waiting"
    BY <1>3, <1>4, <1>11, <2>1 DEF Self!Write
  <2> QED
    BY <1>11, <2>1, <2>2 DEF Self!Write
<1>12. CASE Self!Sync
  <2>1. helper.pc = "none" /\ task.bytes = "new" /\ task.pc = "sync"
    BY <1>12, <1>9 DEF Self!Sync, Self!At
  <2>2. \/ /\ task'.pc = IF platform = "windows" THEN "readBack" ELSE "rename"
           /\ task'.bytes = "new"
           /\ stagedFile' = stagedFile
           /\ synced'
        \/ task'.pc = "waiting"
    <3>1. CASE Self!GiveUp
      BY <1>4, <3>1
    <3>2. CASE Self!Goto(IF platform = "windows" THEN "readBack" ELSE "rename")
               /\ UNCHANGED stagedFile
               /\ synced' = TRUE
      <4>1. (IF platform = "windows" THEN "readBack" ELSE "rename") \in Self!Steps
        OBVIOUS
      <4> QED
        BY <1>3, <2>1, <3>2, <4>1
    <3> QED
      BY <1>12, <3>1, <3>2 DEF Self!Sync
  <2> QED
    BY <1>12, <2>1, <2>2 DEF Self!Sync
<1>13. CASE Self!Rename
  <2>1. helper.pc = "none" /\ stagedFile = "new" /\ synced
    BY <1>13, <1>9 DEF Self!Rename, Self!At
  <2>2. task'.pc \in {"syncDir", "waiting"}
    BY <1>3, <1>4, <1>13 DEF Self!Rename
  <2> QED
    BY <1>13, <2>1, <2>2 DEF Self!Rename
<1>14. CASE Self!SyncDir
  <2>1. task'.pc = "relaunch"
    BY <1>3, <1>14 DEF Self!SyncDir
  <2> QED
    BY <1>14, <2>1 DEF Self!SyncDir
<1>15. CASE Self!ReadBack
  <2>1. helper.pc = "none" /\ task.bytes = "new"
    BY <1>15, <1>9 DEF Self!ReadBack, Self!At
  <2>2. \/ task'.pc = "spawn" /\ task'.bytes = "new" /\ stagedFile' = "new"
        \/ task'.pc = "waiting"
    BY <1>3, <1>4, <1>15, <2>1 DEF Self!ReadBack
  <2> QED
    BY <1>15, <2>1, <2>2 DEF Self!ReadBack
<1>16. CASE Self!Relaunch
  <2>1. task'.pc = "waiting" /\ helper.pc = "none"
    BY <1>4, <1>9, <1>16 DEF Self!Relaunch, Self!At
  <2>2. \/ helper'.pc = "polling" /\ process'.pc = "exiting"
        \/ UNCHANGED <<helper, process>>
    BY <1>16, TaskIdle, HelperStarts DEF Self!Relaunch, Self!TypeOK
  <2> QED
    BY <1>16, <2>1, <2>2 DEF Self!Relaunch
<1>17. CASE Self!Spawn
  <2>1. helper.pc = "none" /\ task.bytes = "new" /\ stagedFile = "new"
    BY <1>9, <1>17 DEF Self!Spawn, Self!At
  <2>2. \/ helper'.pc = "installing" /\ process'.pc = "exiting" /\ task'.pc = "waiting"
        \/ task'.pc = "spawnPlain" /\ task'.bytes = "new" /\ UNCHANGED <<helper, process>>
    BY <1>3, <1>4, <1>17, <2>1, TaskIdle, HelperStarts DEF Self!Spawn, Self!TypeOK
  <2> QED
    BY <1>17, <2>1, <2>2 DEF Self!Spawn
<1>18. CASE Self!SpawnPlain
  <2>1. helper.pc = "none" /\ stagedFile = "new" /\ task'.pc = "waiting"
    BY <1>4, <1>9, <1>18 DEF Self!SpawnPlain, Self!At
  <2>2. \/ helper'.pc = "installing" /\ process'.pc = "exiting"
        \/ UNCHANGED <<helper, process>>
    <3>1. ASSUME NEW b \in BOOLEAN,
                 helper' = [Self!NoHelper EXCEPT !.pc = "installing", !.bound = b],
                 process' = [process EXCEPT !.pc = "exiting"]
          PROVE  helper'.pc = "installing" /\ process'.pc = "exiting"
      BY <3>1, HelperStartsBound DEF Self!TypeOK
    <3> QED
      BY <1>18, <3>1 DEF Self!SpawnPlain
  <2> QED
    BY <1>18, <2>1, <2>2 DEF Self!SpawnPlain
<1>19. CASE Self!Exits
  <2>1. helper' = helper \/ helper'.pc = "none"
    BY <1>19, HelperNone DEF Self!Exits
  <2> QED
    BY <1>19, <2>1 DEF Self!Exits
<1>20. CASE Self!PollPid
  <2>1. helper'.pc = helper.pc
    BY <1>0, <1>20 DEF Self!PollPid, HelperType
  <2> QED
    BY <1>20, <2>1 DEF Self!PollPid
<1>21. CASE Self!ExecTarget \/ Self!Login
  <2>1. task'.pc = "waiting" /\ helper'.pc = "none"
    BY <1>21, TaskIdle, HelperNone DEF Self!ExecTarget, Self!Login, Self!StartAgent
  <2> QED
    BY <1>21, <2>1 DEF Self!ExecTarget, Self!Login
<1>22. CASE Self!ExecAnyway
  <2>1. helper'.pc = "none"
    BY <1>22, HelperNone DEF Self!ExecAnyway
  <2> QED
    BY <1>22, <2>1 DEF Self!ExecAnyway
<1>23. CASE Self!InstallerRuns
  <2>1. task'.pc = "waiting" /\ helper'.pc = "none" /\ stagedFile = "new"
    BY <1>23, TaskIdle, HelperNone DEF Self!InstallerRuns
  <2> QED
    BY <1>23, <2>1 DEF Self!InstallerRuns
<1>24. CASE Self!PowerLoss
  <2>1. task'.pc = "waiting" /\ helper'.pc = "none"
    BY <1>24, TaskIdle, HelperNone DEF Self!PowerLoss
  <2> QED
    BY <1>24, <2>1 DEF Self!PowerLoss
<1> QED
  BY <1>2, <1>5, <1>6, <1>7, <1>8, <1>10, <1>11, <1>12, <1>13, <1>14, <1>15, <1>16, <1>17,
     <1>18, <1>19, <1>20, <1>21, <1>22, <1>23, <1>24
     DEF Self!Next, Self!Install, Self!Replace

-----------------------------------------------------------------------------
(* The schedule: the clock is never further ahead of the last check, when  *)
(* it is ahead of it at all, than as much time as has really passed.       *)

ClockTells == elapsed \in 0..Self!FarPast => age <= elapsed

LEMMA PassTells ==
    ASSUME Self!TypeOK, ClockTells, NEW k \in 1..Period, Self!Pass(k)
    PROVE  ClockTells'
<1> USE UpdateAssumption DEF ClockTells, Self!AtMost
<1>0. elapsed \in -1..Self!Never /\ age \in 0..Self!FarPast
  BY DEF Self!TypeOK
<1>1. CASE elapsed = Self!Never /\ UNCHANGED <<elapsed, age>>
  BY <1>1
<1>2. CASE elapsed \in 0..Self!FarPast /\ elapsed' = Self!AtMost(elapsed + k, Self!FarPast)
             /\ age' = Self!AtMost(age + k, Self!FarPast)
  BY <1>0, <1>2
<1>3. CASE elapsed' = -1
  BY <1>3
<1>4. CASE elapsed' \in 0..(k - 1) /\ age' = elapsed'
  BY <1>4
<1> QED
  BY <1>1, <1>2, <1>3, <1>4 DEF Self!Pass

LEMMA NextTells ==
    ASSUME Self!TypeOK, ClockTells, [Self!Next]_(Self!vars)
    PROVE  ClockTells'
<1>1. CASE Self!Tick
  <2>1. 1 \in 1..Period /\ Self!Pass(1)
    BY <1>1, UpdateAssumption DEF Self!Tick
  <2> QED
    BY <2>1, PassTells
<1>2. CASE Self!Suspend
  BY <1>2, PassTells DEF Self!Suspend
<1>3. CASE Self!SetClock
  <2>1. elapsed \in -1..Self!Never /\ age \in 0..Self!FarPast /\ elapsed # Self!Never
    BY <1>3 DEF Self!TypeOK, Self!SetClock
  <2>2. elapsed' \in -1..Self!FarPast
          /\ age' = IF elapsed' < elapsed \/ (elapsed < 0 /\ elapsed' >= 0) THEN 0 ELSE age
    BY <1>3 DEF Self!SetClock
  <2> QED
    BY <2>1, <2>2, UpdateAssumption DEF ClockTells
<1>4. CASE elapsed' = 0 /\ age' = 0
  BY <1>4 DEF ClockTells
<1>5. CASE Self!FreshSchedule
  BY <1>5, UpdateAssumption DEF Self!FreshSchedule, ClockTells
<1>6. CASE UNCHANGED <<elapsed, age>>
  BY <1>6 DEF ClockTells
<1> QED
  BY <1>1, <1>2, <1>3, <1>4, <1>5, <1>6
     DEF Self!Next, Self!Install, Self!Replace, Self!vars, Self!PollDue, Self!PollNotDue,
         Self!CheckOffers, Self!NothingOffered, Self!Download, Self!Create, Self!Write,
         Self!Sync, Self!Rename, Self!SyncDir, Self!ReadBack, Self!Relaunch, Self!Spawn,
         Self!SpawnPlain, Self!Exits, Self!PollPid, Self!ExecTarget, Self!ExecAnyway,
         Self!InstallerRuns, Self!Login, Self!StartAgent, Self!PowerLoss

\* A clock that tells, and no check is due: less than a period has passed.
LEMMA NotDueIsRecent ==
    ASSUME Self!TypeOK, ClockTells, Self!PollNotDue
    PROVE  age < Period
<1>1. elapsed \in -1..Self!Never /\ ~(elapsed >= Period \/ elapsed = -1)
  BY DEF Self!TypeOK, Self!PollNotDue, Self!CheckDue
<1>2. elapsed \in 0..Self!FarPast /\ elapsed < Period /\ age \in 0..Self!FarPast
  BY <1>1, UpdateAssumption DEF Self!TypeOK
<1> QED
  BY <1>2, UpdateAssumption DEF ClockTells

-----------------------------------------------------------------------------

SelfInv == Self!TypeOK /\ Checked /\ ClockTells

LEMMA InitSelfInv == UpdateInit => SelfInv
<1>1. Self!Init => ClockTells
  BY UpdateAssumption DEF Self!Init, ClockTells
<1> QED
  BY <1>1, InitSelf DEF UpdateInit, SelfInv

LEMMA NextSelfInv == SelfInv /\ [UpdateNext]_<<macOS, selfVars, vars>> => SelfInv'
BY StepOfAPart, NextSelfTyped, NextChecked, NextTells DEF SelfInv

LEMMA SelfInvariant == UpdateSpec => []SelfInv
BY InitSelfInv, NextSelfInv, PTL DEF UpdateSpec

\* Every variable of the update loop has its type.
THEOREM SelfTypeCorrect == UpdateSpec => []SelfTypeOK
<1>1. SelfInv => SelfTypeOK
  BY DEF SelfInv, SelfTypeOK
<1> QED
  BY <1>1, SelfInvariant, PTL

\* Wherever the power is lost and whatever the release's server sends, what is
\* started as the agent off macOS, and an installer it runs, has the checksum.
THEOREM OnlyCheckedRuns == UpdateSpec => []OnlyChecked
<1>1. SelfInv => OnlyChecked
  BY DEF SelfInv, Checked, OnlyChecked, Self!OnlyChecked
<1> QED
  BY <1>1, SelfInvariant, PTL

\* However the clock is set and the host suspended, a poll passes over a check
\* only within a period of the last one, or of the clock's last turn.
THEOREM ClockPutsNoCheckOff == UpdateSpec => NeverPutOff
<1>1. SelfInv /\ [UpdateNext]_<<macOS, selfVars, vars>>
        => [Self!PollNotDue => age < Period]_(Self!vars)
  BY NotDueIsRecent DEF SelfInv
<1> QED
  BY <1>1, SelfInvariant, PTL DEF UpdateSpec, NeverPutOff, Self!NeverPutOff

-----------------------------------------------------------------------------

\* On macOS the installed app survives, and only a verified one is installed,
\* in the composition as in MacUpdate alone.
THEOREM MacUpdateHolds ==
    UpdateSpec => [](OnlyVerified /\ NeverLost /\ CopiesItsOwnImage /\ AbsentIsHeld)
<1>1. UpdateInit => Init
  BY DEF UpdateInit
<1>2. [UpdateNext]_<<macOS, selfVars, vars>> => [Next]_vars
  BY StepOfAPart
<1>3. UpdateSpec => Spec
  BY <1>1, <1>2, PTL DEF UpdateSpec, Spec
<1> QED
  BY <1>3, InstallsOnlyVerified, AppIsNeverLost, CopiesOwnImage, AbsentAppIsHeld, PTL

-----------------------------------------------------------------------------
(* An agent that exits for an update is followed, which AgentAfterUpdate   *)
(* rests on.                                                               *)

\* While there was no accident, an agent that is not up has left something that
\* will start the next, and that outlives it.
Followed ==
    accidents = {} /\ process.pc # "up" =>
        /\ helper.pc # "none"
        /\ process.pc = "down" => ~helper.bound

LEMMA NextFollowed ==
    ASSUME Self!TypeOK, Checked, Followed, [Self!Next]_(Self!vars)
    PROVE  Followed'
<1> USE DEF Followed
<1>0. /\ task \in TaskType /\ helper \in HelperType
      /\ process \in [pc : {"up", "exiting", "down"}, runs : Self!Builds \cup {"none"}]
  BY DEF Self!TypeOK, TaskType, HelperType
<1>1. CASE UNCHANGED <<process, helper, accidents>>
  BY <1>1
<1>2. ASSUME process'.pc = "up" PROVE Followed'
  BY <1>2
<1>3. ASSUME accidents' # {} PROVE Followed'
  BY <1>3
<1>4. ASSUME process'.pc = "exiting", helper'.pc # "none" PROVE Followed'
  BY <1>4
<1>5. CASE Self!Relaunch
  <2>1. CASE /\ helper' = [Self!NoHelper EXCEPT !.pc = "polling"]
             /\ process' = [process EXCEPT !.pc = "exiting"]
    BY <2>1, <1>0, <1>4, HelperStarts
  <2> QED
    BY <1>1, <1>5, <2>1 DEF Self!Relaunch
<1>6. CASE Self!Spawn
  <2>1. CASE /\ helper' = [Self!NoHelper EXCEPT !.pc = "installing"]
             /\ process' = [process EXCEPT !.pc = "exiting"]
    BY <2>1, <1>0, <1>4, HelperStarts
  <2> QED
    BY <1>1, <1>6, <2>1 DEF Self!Spawn
<1>7. CASE Self!SpawnPlain
  <2>1. ASSUME NEW b \in BOOLEAN,
               helper' = [Self!NoHelper EXCEPT !.pc = "installing", !.bound = b],
               process' = [process EXCEPT !.pc = "exiting"]
        PROVE  Followed'
    BY <2>1, <1>0, <1>4, HelperStartsBound
  <2> QED
    BY <1>1, <1>7, <2>1 DEF Self!SpawnPlain
<1>8. CASE Self!Exits
  <2>1. CASE helper.bound
    BY <1>8, <2>1, <1>3 DEF Self!Exits
  <2>2. CASE ~helper.bound
    <3>1. helper' = helper /\ accidents' = accidents /\ process.pc # "up"
      BY <1>8, <2>2 DEF Self!Exits
    <3> QED
      BY <3>1, <2>2
  <2> QED
    BY <2>1, <2>2
<1>9. CASE Self!PollPid
  <2>1. /\ helper'.pc = helper.pc /\ helper.pc = "polling"
        /\ process' = process /\ process.pc = "exiting"
    BY <1>0, <1>9 DEF Self!PollPid, HelperType
  <2> QED
    BY <2>1
<1>10. CASE Self!ExecTarget \/ Self!Login
  <2>1. process' = [pc |-> "up", runs |-> target]
    BY <1>10 DEF Self!ExecTarget, Self!Login, Self!StartAgent, Checked
  <2> QED
    BY <2>1, <1>2
<1>11. CASE Self!ExecAnyway \/ Self!PowerLoss
  BY <1>11, <1>3 DEF Self!ExecAnyway, Self!PowerLoss
<1>12. CASE Self!InstallerRuns
  <2>1. process' = [pc |-> "up", runs |-> stagedFile]
    BY <1>12 DEF Self!InstallerRuns
  <2> QED
    BY <2>1, <1>2
<1> QED
  BY <1>1, <1>5, <1>6, <1>7, <1>8, <1>9, <1>10, <1>11, <1>12
     DEF Self!Next, Self!Install, Self!Replace, Self!vars, Self!Tick, Self!Suspend,
         Self!SetClock, Self!PollDue, Self!PollNotDue, Self!CheckOffers, Self!NothingOffered,
         Self!Download, Self!Create, Self!Write, Self!Sync, Self!Rename, Self!SyncDir,
         Self!ReadBack

\* Until the power is lost, the old process outlives the cap or its job ends the
\* installer, an agent that exits or is gone has a shell or an installer after it.
THEOREM UpdateIsFollowed == UpdateSpec => []Followed
<1>1. UpdateInit => Followed
  BY DEF UpdateInit, Self!Init, Followed
<1>2. SelfInv /\ Followed /\ [UpdateNext]_<<macOS, selfVars, vars>> => Followed'
  BY StepOfAPart, NextFollowed DEF SelfInv
<1> QED
  BY <1>1, <1>2, SelfInvariant, PTL DEF UpdateSpec

=============================================================================
