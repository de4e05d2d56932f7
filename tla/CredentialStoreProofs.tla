----------------------- MODULE CredentialStoreProofs -----------------------
(***************************************************************************)
(* Proofs about CredentialStore: its types, that calls that do not overlap *)
(* keep the fallback file whole and never fail over leftovers, and that    *)
(* the two stores then implement one register.                             *)
(***************************************************************************)
EXTENDS CredentialStore, TLAPS

LEMMA InitTyped == Init => TypeOK
<1>1. 1 \in Values /\ 1 \in 0..MaxSaves
  BY StoreAssumption DEF Values
<1>2. ASSUME Init PROVE op \in [Tasks -> [pc : {"idle"} \cup DeletePcs, value : {Nothing}]]
  BY <1>2 DEF Init, Idle, At
<1> QED
  BY <1>1, <1>2 DEF Init, TypeOK, Entries

\* What a save's temporary file may be renamed to, or left as.
LEMMA NextTyped == TypeOK /\ [Next]_vars => TypeOK'
<1> SUFFICES ASSUME TypeOK, [Next]_vars PROVE TypeOK'
  OBVIOUS
<1> USE DEF TypeOK, Entries, storeVars, Unlinked, Refused
<1>1. ASSUME NEW t \in Tasks, SaveStep(t) PROVE TypeOK'
  <2>1. CASE BeginSave(t)
    <3>1. begun + 1 \in Values /\ begun + 1 \in 0..MaxSaves
      BY <2>1, StoreAssumption DEF BeginSave, Values
    <3> QED
      BY <2>1, <3>1 DEF BeginSave, Begins, At, SavePcs
  <2>2. CASE KeyringSet(t)
    BY <2>2 DEF KeyringSet, Step, SavePcs, DeletePcs
  <2>3. CASE KeyringSetFails(t)
    BY <2>3 DEF KeyringSetFails, Step, SavePcs, DeletePcs
  <2>4. CASE UnlinkFallback(t)
    BY <2>4 DEF UnlinkFallback, Ends, Idle, At
  <2>5. CASE ClearTmp(t)
    BY <2>5 DEF ClearTmp, Step, SavePcs, DeletePcs
  <2>6. CASE CreateTmp(t)
    BY <2>6 DEF CreateTmp, Step, SavePcs, DeletePcs
  <2>7. CASE CreateFails(t)
    BY <2>7 DEF CreateFails, Ends, Idle, At
  <2>8. CASE WriteTmp(t)
    <3>1. op[t].value \in Values
      BY <2>8 DEF WriteTmp, SavePcs, DeletePcs
    <3> QED
      BY <2>8, <3>1 DEF WriteTmp, Step, SavePcs, DeletePcs
  <2>9. CASE WriteFails(t)
    BY <2>9 DEF WriteFails, Ends, Idle, At
  <2>10. CASE RenameTmp(t)
    BY <2>10 DEF RenameTmp, Ends, Idle, At
  <2>11. CASE RenameFails(t)
    BY <2>11 DEF RenameFails, Ends, Idle, At
  <2> QED
    BY <1>1, <2>1, <2>2, <2>3, <2>4, <2>5, <2>6, <2>7, <2>8, <2>9, <2>10, <2>11 DEF SaveStep
<1>2. ASSUME NEW t \in Tasks, DeleteStep(t) PROVE TypeOK'
  <2>1. CASE BeginDelete(t)
    BY <2>1 DEF BeginDelete, Begins, At, DeletePcs, Nothing
  <2>2. CASE DeleteFile(t)
    BY <2>2 DEF DeleteFile, Step, SavePcs, DeletePcs
  <2>3. CASE DeleteEntry(t)
    BY <2>3 DEF DeleteEntry, Ends, Idle, At
  <2>4. CASE DeleteEntryFails(t)
    BY <2>4 DEF DeleteEntryFails, Step, SavePcs, DeletePcs
  <2>5. CASE CheckRefusal(t)
    BY <2>5 DEF CheckRefusal, Ends, Idle, At
  <2> QED
    BY <1>2, <2>1, <2>2, <2>3, <2>4, <2>5 DEF DeleteStep
<1>3. CASE KeyringTurns
  BY <1>3 DEF KeyringTurns
<1>4. CASE Crash
  BY <1>4 DEF Crash, Left, Idle, At
<1>5. CASE UNCHANGED vars
  BY <1>5 DEF vars
<1> QED
  BY <1>1, <1>2, <1>3, <1>4, <1>5 DEF Next

\* Every store entry, every call and every answer has its type.
THEOREM TypeCorrect == Spec => []TypeOK
BY InitTyped, NextTyped, PTL DEF Spec

-----------------------------------------------------------------------------
(* While no two calls have overlapped, one call at most is under way, and  *)
(* what each of its steps relies on is what its earlier steps did.         *)

OneCall == \A t, u \in Tasks : op[t] # Idle /\ op[u] # Idle => t = u

Progress ==
    \A t \in Tasks :
        /\ op[t].pc = "unlink" => keyring = op[t].value
        /\ op[t].pc = "create" => tmp = Nothing \/ kept
        /\ op[t].pc = "write" => tmp = t
        /\ op[t].pc = "rename" => tmp = op[t].value
        /\ op[t].pc \in {"deleteKeyring", "check"} => file = Nothing \/ kept

AloneInv ==
    ~overlapped => /\ OneCall
                   /\ Progress
                   /\ file \in {Nothing} \cup Values
                   /\ outcome = "error" => kept

LEMMA InitAlone == Init => AloneInv
<1> SUFFICES ASSUME Init PROVE AloneInv
  OBVIOUS
<1>1. 1 \in Values
  BY StoreAssumption DEF Values
<1>2. \A t \in Tasks : op[t] = Idle
  BY DEF Init
<1>3. OneCall
  BY <1>2 DEF OneCall
<1>4. Progress
  <2>1. ASSUME NEW t \in Tasks PROVE op[t].pc = "idle"
    <3>1. op[t] = Idle
      BY <1>2
    <3> QED
      BY <3>1 DEF Idle, At
  <2> QED
    BY <2>1 DEF Progress
<1>5. file \in {Nothing, 1} /\ outcome = "none"
  BY DEF Init
<1> QED
  BY <1>1, <1>3, <1>4, <1>5 DEF AloneInv

\* A call in progress is the only one; every other task is idle.
LEMMA OthersIdle ==
    ASSUME TypeOK, OneCall, NEW t \in Tasks, op[t].pc # "idle"
    PROVE  \A u \in Tasks \ {t} : op[u] = Idle
BY DEF OneCall, Idle, At

\* Nothing, Empty and the values are no tasks, and no value is Nothing.
LEMMA EntriesApart ==
    /\ \A t \in Tasks : t # Nothing /\ t # Empty /\ t \notin Values
    /\ \A v \in Values : v # Nothing /\ v # Empty /\ v \in Nat
BY StoreAssumption DEF Values, Nothing

\* A save's step keeps the invariant: the temporary file is created where
\* there is none, is the saver's own, and is renamed whole.
LEMMA SaveAlone ==
    ASSUME TypeOK, AloneInv, NEW t \in Tasks, SaveStep(t)
    PROVE  AloneInv'
<1> SUFFICES ASSUME ~overlapped'
             PROVE  (OneCall /\ Progress /\ file \in {Nothing} \cup Values
                       /\ (outcome = "error" => kept))'
  BY DEF AloneInv
<1> USE DEF storeVars, Unlinked, Refused
<1>0. ~overlapped
  BY DEF SaveStep, BeginSave, Begins, KeyringSet, KeyringSetFails, UnlinkFallback, ClearTmp,
         CreateTmp, CreateFails, WriteTmp, WriteFails, RenameTmp, RenameFails
<1>a. OneCall /\ Progress /\ file \in {Nothing} \cup Values /\ (outcome = "error" => kept)
  BY <1>0 DEF AloneInv
<1>b. op[t] \in [pc : {"idle"} \cup DeletePcs, value : {Nothing}] \cup [pc : SavePcs, value : Values]
  BY DEF TypeOK
<1>1. CASE BeginSave(t)
  <2>1. \A u \in Tasks \ {t} : op[u] = Idle /\ op'[u] = Idle
    BY <1>1 DEF BeginSave, Begins, TypeOK
  <2>2. op'[t] = At("set", begun + 1)
    BY <1>1 DEF BeginSave, TypeOK
  <2>3. OneCall'
    BY <2>1 DEF OneCall
  <2>4. Progress'
    BY <2>1, <2>2 DEF Progress, Idle, At
  <2> QED
    BY <1>1, <1>a, <2>3, <2>4 DEF BeginSave, Begins
<1>2. ASSUME op[t].pc # "idle" PROVE \A u \in Tasks \ {t} : op[u] = Idle
  BY <1>2, <1>a, OthersIdle
<1>3. ASSUME op[t].pc # "idle", \A u \in Tasks \ {t} : op'[u] = op[u] PROVE OneCall'
  BY <1>2, <1>3 DEF OneCall
<1>4. CASE KeyringSet(t)
  <2>1. op' = [op EXCEPT ![t].pc = "unlink"] /\ op[t].pc = "set"
    BY <1>4 DEF KeyringSet, Step
  <2>2. op'[t].pc = "unlink" /\ op'[t].value = op[t].value
    BY <2>1, <1>b DEF TypeOK
  <2>3. \A u \in Tasks \ {t} : op'[u] = op[u] /\ op[u] = Idle
    BY <2>1, <1>2 DEF TypeOK
  <2>4. Progress'
    BY <1>4, <2>2, <2>3 DEF Progress, KeyringSet, Idle, At
  <2> QED
    BY <1>4, <1>3, <1>a, <2>1, <2>3, <2>4 DEF KeyringSet
<1>5. CASE KeyringSetFails(t)
  <2>1. op' = [op EXCEPT ![t].pc = "clearTmp"] /\ op[t].pc = "set"
    BY <1>5 DEF KeyringSetFails, Step
  <2>2. op'[t].pc = "clearTmp"
    BY <2>1, <1>b DEF TypeOK
  <2>3. \A u \in Tasks \ {t} : op'[u] = op[u] /\ op[u] = Idle
    BY <2>1, <1>2 DEF TypeOK
  <2>4. Progress'
    BY <1>5, <2>2, <2>3 DEF Progress, Idle, At
  <2> QED
    BY <1>5, <1>3, <1>a, <2>1, <2>3, <2>4 DEF KeyringSetFails
<1>6. ASSUME op[t].pc # "idle", op' = [op EXCEPT ![t] = Idle] PROVE OneCall' /\ Progress'
  <2>1. \A u \in Tasks : op'[u] = Idle
    BY <1>6, <1>2 DEF TypeOK
  <2> QED
    BY <2>1 DEF OneCall, Progress, Idle, At
<1>7. CASE UnlinkFallback(t)
  BY <1>7, <1>6, <1>a DEF UnlinkFallback, Ends
<1>8. CASE ClearTmp(t)
  <2>1. op' = [op EXCEPT ![t].pc = "create"] /\ op[t].pc = "clearTmp"
    BY <1>8 DEF ClearTmp, Step
  <2>2. op'[t].pc = "create"
    BY <2>1, <1>b DEF TypeOK
  <2>3. \A u \in Tasks \ {t} : op'[u] = op[u] /\ op[u] = Idle
    BY <2>1, <1>2 DEF TypeOK
  <2>4. Progress'
    BY <1>8, <2>2, <2>3 DEF Progress, ClearTmp, Idle, At
  <2> QED
    BY <1>8, <1>3, <1>a, <2>1, <2>3, <2>4 DEF ClearTmp
<1>9. CASE CreateTmp(t)
  <2>1. op' = [op EXCEPT ![t].pc = "write"] /\ op[t].pc = "create"
    BY <1>9 DEF CreateTmp, Step
  <2>2. op'[t].pc = "write"
    BY <2>1, <1>b DEF TypeOK
  <2>3. \A u \in Tasks \ {t} : op'[u] = op[u] /\ op[u] = Idle
    BY <2>1, <1>2 DEF TypeOK
  <2>4. Progress'
    BY <1>9, <2>2, <2>3 DEF Progress, CreateTmp, Idle, At
  <2> QED
    BY <1>9, <1>3, <1>a, <2>1, <2>3, <2>4 DEF CreateTmp
<1>10. CASE CreateFails(t)
  BY <1>10, <1>6, <1>a DEF CreateFails, Progress, Ends
<1>11. CASE WriteTmp(t)
  <2>1. op' = [op EXCEPT ![t].pc = "rename"] /\ op[t].pc = "write"
    BY <1>11 DEF WriteTmp, Step
  <2>2. op'[t].pc = "rename" /\ op'[t].value = op[t].value
    BY <2>1, <1>b DEF TypeOK
  <2>3. \A u \in Tasks \ {t} : op'[u] = op[u] /\ op[u] = Idle
    BY <2>1, <1>2 DEF TypeOK
  <2>4. tmp' = op[t].value /\ file' = file
    BY <1>11, <1>a, <2>1, EntriesApart DEF WriteTmp, Progress
  <2>5. Progress'
    BY <2>4, <2>2, <2>3 DEF Progress, Idle, At
  <2> QED
    BY <1>11, <1>3, <1>a, <2>1, <2>3, <2>4, <2>5 DEF WriteTmp
<1>12. CASE WriteFails(t)
  <2>1. file' = file
    BY <1>12, <1>a, EntriesApart DEF WriteFails
  <2> QED
    BY <1>12, <1>6, <1>a, <2>1 DEF WriteFails, Ends
<1>13. CASE RenameTmp(t)
  <2>1. file' \in Values
    BY <1>13, <1>a, <1>b DEF RenameTmp, Progress, SavePcs, DeletePcs
  <2> QED
    BY <1>13, <1>6, <2>1 DEF RenameTmp, Ends
<1>14. CASE RenameFails(t)
  <2>1. tmp # Nothing
    BY <1>14, <1>a, <1>b, EntriesApart DEF RenameFails, Progress, SavePcs, DeletePcs
  <2> QED
    BY <1>14, <1>6, <1>a, <2>1 DEF RenameFails, Ends
<1> QED
  BY <1>1, <1>4, <1>5, <1>7, <1>8, <1>9, <1>10, <1>11, <1>12, <1>13, <1>14 DEF SaveStep

\* A sign-out's step does: the keyring is asked only when the file is gone.
LEMMA DeleteAlone ==
    ASSUME TypeOK, AloneInv, NEW t \in Tasks, DeleteStep(t)
    PROVE  AloneInv'
<1> SUFFICES ASSUME ~overlapped'
             PROVE  (OneCall /\ Progress /\ file \in {Nothing} \cup Values
                       /\ (outcome = "error" => kept))'
  BY DEF AloneInv
<1> USE DEF storeVars, Unlinked, Refused
<1>0. ~overlapped
  BY DEF DeleteStep, BeginDelete, Begins, DeleteFile, DeleteEntry, DeleteEntryFails, CheckRefusal
<1>a. OneCall /\ Progress /\ file \in {Nothing} \cup Values /\ (outcome = "error" => kept)
  BY <1>0 DEF AloneInv
<1>b. op[t] \in [pc : {"idle"} \cup DeletePcs, value : {Nothing}] \cup [pc : SavePcs, value : Values]
  BY DEF TypeOK
<1>1. CASE BeginDelete(t)
  <2>1. \A u \in Tasks \ {t} : op[u] = Idle /\ op'[u] = Idle
    BY <1>1 DEF BeginDelete, Begins, TypeOK
  <2>2. op'[t] = At("deleteFile", Nothing)
    BY <1>1 DEF BeginDelete, TypeOK
  <2>3. OneCall'
    BY <2>1 DEF OneCall
  <2>4. Progress'
    BY <2>1, <2>2 DEF Progress, Idle, At
  <2> QED
    BY <1>1, <1>a, <2>3, <2>4 DEF BeginDelete, Begins
<1>2. ASSUME op[t].pc # "idle" PROVE \A u \in Tasks \ {t} : op[u] = Idle
  BY <1>2, <1>a, OthersIdle
<1>3. ASSUME op[t].pc # "idle", \A u \in Tasks \ {t} : op'[u] = op[u] PROVE OneCall'
  BY <1>2, <1>3 DEF OneCall
<1>4. CASE DeleteFile(t)
  <2>1. op' = [op EXCEPT ![t].pc = "deleteKeyring"] /\ op[t].pc = "deleteFile"
    BY <1>4 DEF DeleteFile, Step
  <2>2. op'[t].pc = "deleteKeyring"
    BY <2>1, <1>b DEF TypeOK
  <2>3. \A u \in Tasks \ {t} : op'[u] = op[u] /\ op[u] = Idle
    BY <2>1, <1>2 DEF TypeOK
  <2>4. Progress'
    BY <1>4, <2>2, <2>3 DEF Progress, DeleteFile, Idle, At
  <2> QED
    BY <1>4, <1>3, <1>a, <2>1, <2>3, <2>4 DEF DeleteFile
<1>5. CASE DeleteEntryFails(t)
  <2>1. op' = [op EXCEPT ![t].pc = "check"] /\ op[t].pc = "deleteKeyring"
    BY <1>5 DEF DeleteEntryFails, Step
  <2>2. op'[t].pc = "check" /\ (file = Nothing \/ kept)
    BY <2>1, <1>a, <1>b DEF TypeOK, Progress
  <2>3. \A u \in Tasks \ {t} : op'[u] = op[u] /\ op[u] = Idle
    BY <2>1, <1>2 DEF TypeOK
  <2>4. Progress'
    BY <1>5, <2>2, <2>3 DEF Progress, DeleteEntryFails, Idle, At
  <2> QED
    BY <1>5, <1>3, <1>a, <2>1, <2>3, <2>4 DEF DeleteEntryFails
<1>6. ASSUME op[t].pc # "idle", op' = [op EXCEPT ![t] = Idle] PROVE OneCall' /\ Progress'
  <2>1. \A u \in Tasks : op'[u] = Idle
    BY <1>6, <1>2 DEF TypeOK
  <2> QED
    BY <2>1 DEF OneCall, Progress, Idle, At
<1>7. CASE DeleteEntry(t)
  BY <1>7, <1>6, <1>a DEF DeleteEntry, Ends
<1>8. CASE CheckRefusal(t)
  BY <1>8, <1>6, <1>a DEF CheckRefusal, Ends
<1> QED
  BY <1>1, <1>4, <1>5, <1>7, <1>8 DEF DeleteStep

LEMMA NextAlone == TypeOK /\ AloneInv /\ [Next]_vars => AloneInv'
<1> SUFFICES ASSUME TypeOK, AloneInv, [Next]_vars PROVE AloneInv'
  OBVIOUS
<1>1. CASE KeyringTurns
  BY <1>1 DEF KeyringTurns, AloneInv, OneCall, Progress
<1>2. CASE Crash
  <2>1. \A t \in Tasks : op'[t] = Idle
    BY <1>2 DEF Crash
  <2>2. OneCall' /\ Progress'
    BY <2>1 DEF OneCall, Progress, Idle, At
  <2> QED
    BY <1>2, <2>2, EntriesApart DEF Crash, AloneInv, Left
<1>3. CASE UNCHANGED vars
  BY <1>3 DEF vars, AloneInv, OneCall, Progress
<1> QED
  BY <1>1, <1>2, <1>3, SaveAlone, DeleteAlone DEF Next

LEMMA Invariants == Spec => [](TypeOK /\ AloneInv)
BY InitTyped, NextTyped, InitAlone, NextAlone, PTL DEF Spec

\* While no two calls overlap, the fallback file is whole wherever the process
\* dies: file_save_at writes beside it and renames.
THEOREM FileWhole == Spec => []AloneFileWhole
<1>1. AloneInv => AloneFileWhole
  BY DEF AloneInv, AloneFileWhole
<1> QED
  BY <1>1, Invariants, PTL

\* While no two calls overlap, no save fails over a leftover of an earlier one
\* that can be unlinked.
THEOREM SaveNeverBlocked == Spec => []AloneSaveSucceeds
<1>1. AloneInv => AloneSaveSucceeds
  BY DEF AloneInv, AloneSaveSucceeds
<1> QED
  BY <1>1, Invariants, PTL

-----------------------------------------------------------------------------
(* The two stores implement one register.  A step of a call that is alone  *)
(* is a step of the register's; once two have overlapped, any step is.     *)

LEMMA IdleCall ==
    ASSUME NEW ops, \A u \in Tasks : ops[u] = Idle
    PROVE  CallOf(ops) = Register!Idle
BY DEF CallOf, Register!Idle, Nothing, Register!Nothing

LEMMA OneCallIs ==
    ASSUME NEW ops, NEW t \in Tasks, ops[t] # Idle, \A u \in Tasks \ {t} : ops[u] = Idle
    PROVE  CallOf(ops) = [kind |-> IF ops[t].pc \in SavePcs THEN "save" ELSE "delete",
                          value |-> ops[t].value]
<1>1. {u \in Tasks : ops[u] # Idle} = {t}
  OBVIOUS
<1>2. (CHOOSE u \in {t} : TRUE) = t
  OBVIOUS
<1> QED
  BY <1>1, <1>2 DEF CallOf

LEMMA InitRegister == Init => Register!Init
<1> SUFFICES ASSUME Init PROVE Register!Init
  OBVIOUS
<1>1. CallOf(op) = Register!Idle
  BY IdleCall DEF Init
<1>2. Load \in Nat /\ outcome = "none" /\ overlapped = FALSE /\ kept = FALSE
  BY DEF Init, Load, Nothing
<1> QED
  BY <1>1, <1>2 DEF Register!Init

\* A call that goes on or ends, seen by the register.
LEMMA CallGoesOn ==
    ASSUME TypeOK, OneCall, NEW t \in Tasks, NEW pcs \in {SavePcs, DeletePcs}, NEW pc \in pcs,
           op[t].pc \in pcs, Step(t, pc)
    PROVE  /\ CallOf(op') = CallOf(op)
           /\ CallOf(op) = [kind |-> IF pcs = SavePcs THEN "save" ELSE "delete",
                            value |-> op[t].value]
<1> USE DEF SavePcs, DeletePcs
<1>1. op[t].pc # "idle" /\ op[t] # Idle
  BY DEF Idle, At
<1>2. \A u \in Tasks \ {t} : op[u] = Idle
  BY <1>1, OthersIdle
<1>3. op'[t].pc = pc /\ op'[t].value = op[t].value /\ op'[t] # Idle
  <2>1. op'[t] = [op[t] EXCEPT !.pc = pc]
    BY DEF Step, TypeOK
  <2>2. op[t] \in [pc : {"idle"} \cup DeletePcs, value : {Nothing}] \cup [pc : SavePcs, value : Values]
    BY DEF TypeOK
  <2>3. op'[t].pc = pc /\ op'[t].value = op[t].value
    BY <2>1, <2>2
  <2> QED
    BY <2>3 DEF Idle, At
<1>4. \A u \in Tasks \ {t} : op'[u] = Idle
  BY <1>2 DEF Step, TypeOK
<1>5. (op[t].pc \in SavePcs) = (pcs = SavePcs) /\ (pc \in SavePcs) = (pcs = SavePcs)
  OBVIOUS
<1>6. CallOf(op) = [kind |-> IF op[t].pc \in SavePcs THEN "save" ELSE "delete",
                    value |-> op[t].value]
  BY <1>1, <1>2, OneCallIs
<1>7. CallOf(op') = [kind |-> IF op'[t].pc \in SavePcs THEN "save" ELSE "delete",
                     value |-> op'[t].value]
  BY <1>3, <1>4, OneCallIs
<1> QED
  BY <1>3, <1>5, <1>6, <1>7

LEMMA CallEnds ==
    ASSUME TypeOK, OneCall, NEW t \in Tasks, NEW pcs \in {SavePcs, DeletePcs},
           op[t].pc \in pcs, NEW how, Ends(t, how)
    PROVE  /\ CallOf(op') = Register!Idle
           /\ CallOf(op) = [kind |-> IF pcs = SavePcs THEN "save" ELSE "delete",
                            value |-> op[t].value]
<1>1. op[t].pc # "idle" /\ op[t] # Idle
  BY DEF Idle, At, SavePcs, DeletePcs
<1>2. \A u \in Tasks \ {t} : op[u] = Idle
  BY <1>1, OthersIdle
<1>3. \A u \in Tasks : op'[u] = Idle
  BY <1>2 DEF Ends, TypeOK
<1>4. (op[t].pc \in SavePcs) = (pcs = SavePcs)
  BY DEF SavePcs, DeletePcs
<1> QED
  BY <1>1, <1>2, <1>3, <1>4, OneCallIs, IdleCall

LEMMA CallBegins ==
    ASSUME TypeOK, NEW t \in Tasks, NEW pc \in SavePcs \cup DeletePcs, NEW v, Begins(t),
           op[t].pc = "idle", op' = [op EXCEPT ![t] = At(pc, v)], ~overlapped'
    PROVE  /\ CallOf(op) = Register!Idle
           /\ CallOf(op') = [kind |-> IF pc \in SavePcs THEN "save" ELSE "delete", value |-> v]
<1>1. \A u \in Tasks \ {t} : op[u] = Idle
  BY DEF Begins
<1>2. op[t] = Idle
  <2>1. op[t] \in [pc : {"idle"}, value : {Nothing}]
    BY DEF TypeOK, SavePcs
  <2> QED
    BY <2>1 DEF Idle, At
<1>3. op'[t] = At(pc, v) /\ \A u \in Tasks \ {t} : op'[u] = Idle
  BY <1>1 DEF TypeOK
<1>4. op'[t].pc = pc /\ op'[t].value = v /\ op'[t] # Idle
  BY <1>3 DEF At, Idle, SavePcs, DeletePcs
<1> QED
  BY <1>1, <1>2, <1>3, <1>4, OneCallIs, IdleCall

\* A step of a save, or of a sign-out, that is alone.
LEMMA SaveRegister ==
    ASSUME TypeOK, AloneInv, NEW t \in Tasks, SaveStep(t), ~overlapped'
    PROVE  Register!Begin("save") \/ Register!Save
<1> USE DEF storeVars, Unlinked, Refused
<1>0. ~overlapped
  BY DEF SaveStep, BeginSave, Begins, KeyringSet, KeyringSetFails, UnlinkFallback, ClearTmp,
         CreateTmp, CreateFails, WriteTmp, WriteFails, RenameTmp, RenameFails
<1>a. OneCall /\ Progress /\ file \in {Nothing} \cup Values /\ (outcome = "error" => kept)
  BY <1>0 DEF AloneInv
<1>1. CASE BeginSave(t)
  <2>1. op' = [op EXCEPT ![t] = At("set", begun + 1)] /\ Begins(t) /\ op[t].pc = "idle"
    BY <1>1 DEF BeginSave
  <2>2. CallOf(op) = Register!Idle /\ CallOf(op') = [kind |-> "save", value |-> begun + 1]
    BY <2>1, CallBegins DEF SavePcs
  <2>3. UNCHANGED Load
    BY <1>1 DEF BeginSave, Load
  <2>4. CallOf(op)' = [kind |-> "save", value |-> begun + 1]
    BY <2>2
  <2>5. CallOf(op)' = [kind |-> "save", value |-> CallOf(op)'.value]
    BY <2>4
  <2> QED
    BY <2>1, <2>2, <2>3, <2>5 DEF Begins, Register!Begin
<1> DEFINE SaveGoes == /\ CallOf(op').kind = "save" /\ CallOf(op') = CallOf(op)
                       /\ CallOf(op).value = op[t].value /\ outcome' = outcome
           SaveEnds(how) == /\ CallOf(op).kind = "save" /\ CallOf(op') = Register!Idle
                            /\ CallOf(op).value = op[t].value /\ outcome' = how
<1>2. ASSUME NEW pc \in SavePcs, op[t].pc \in SavePcs, Step(t, pc), outcome' = outcome
      PROVE  SaveGoes
  BY <1>2, <1>a, CallGoesOn, SavePcs \in {SavePcs, DeletePcs}
<1>3. ASSUME NEW how, op[t].pc \in SavePcs, Ends(t, how)
      PROVE  SaveEnds(how)
  <2>1. outcome' = how
    BY <1>3 DEF Ends
  <2> QED
    BY <1>3, <1>a, <2>1, CallEnds, SavePcs \in {SavePcs, DeletePcs}
<1>4. ASSUME SaveGoes, Load' = Load \/ Load' = op[t].value PROVE Register!Save
  BY <1>4 DEF Register!Save, Register!Goes
<1>5. CASE KeyringSet(t)
  <2>1. Load' = Load \/ Load' = op[t].value
    BY <1>5 DEF KeyringSet, Load
  <2> QED
    BY <1>5, <1>2, <1>4, <2>1 DEF KeyringSet, SavePcs
<1>6. CASE KeyringSetFails(t)
  BY <1>6, <1>2, <1>4 DEF KeyringSetFails, SavePcs, Load
<1>7. CASE UnlinkFallback(t)
  <2>1. SaveEnds("keyring")
    BY <1>7, <1>3 DEF UnlinkFallback, SavePcs
  <2>2. CASE Unlinked(file)
    <3>1. Load' = op[t].value
      BY <1>7, <1>a, <2>2, EntriesApart DEF UnlinkFallback, Load, Progress, Holds
    <3> QED
      BY <2>1, <3>1 DEF Register!Save, Register!Ends
  <2>3. CASE Refused(file)
    <3>1. Load' = Load /\ kept'
      BY <1>7, <2>3 DEF UnlinkFallback, Load
    <3> QED
      BY <2>1, <3>1 DEF Register!Save, Register!Ends
  <2> QED
    BY <1>7, <2>2, <2>3 DEF UnlinkFallback
<1>8. CASE ClearTmp(t)
  BY <1>8, <1>2, <1>4 DEF ClearTmp, SavePcs, Load
<1>9. CASE CreateTmp(t)
  BY <1>9, <1>2, <1>4 DEF CreateTmp, SavePcs, Load
<1>10. CASE CreateFails(t)
  <2>1. \E how \in {"error", "full"} : SaveEnds(how)
    BY <1>10, <1>3 DEF CreateFails, SavePcs
  <2> QED
    BY <1>10, <2>1 DEF CreateFails, Load, Register!Save, Register!Ends
<1>11. CASE WriteTmp(t)
  <2>1. file' = file
    BY <1>11, <1>a, EntriesApart DEF WriteTmp
  <2> QED
    BY <1>11, <1>2, <1>4, <2>1 DEF WriteTmp, SavePcs, Load
<1>12. CASE WriteFails(t)
  <2>1. file' = file
    BY <1>12, <1>a, EntriesApart DEF WriteFails
  <2>2. SaveEnds("full")
    BY <1>12, <1>3 DEF WriteFails, SavePcs
  <2> QED
    BY <1>12, <2>1, <2>2 DEF WriteFails, Load, Register!Save, Register!Ends
<1>13. CASE RenameTmp(t)
  <2>1. op[t].value \in Values
    BY <1>13 DEF RenameTmp, TypeOK, SavePcs, DeletePcs
  <2>2. Load' = op[t].value
    BY <1>13, <1>a, <2>1 DEF RenameTmp, Load, Progress, Holds
  <2>3. SaveEnds("file")
    BY <1>13, <1>3 DEF RenameTmp, SavePcs
  <2> QED
    BY <2>2, <2>3 DEF Register!Save, Register!Ends
<1>14. CASE RenameFails(t)
  <2>1. \E how \in {"error", "full"} : SaveEnds(how)
    BY <1>14, <1>3 DEF RenameFails, SavePcs
  <2> QED
    BY <1>14, <2>1 DEF RenameFails, Load, Register!Save, Register!Ends
<1> QED
  BY <1>1, <1>5, <1>6, <1>7, <1>8, <1>9, <1>10, <1>11, <1>12, <1>13, <1>14 DEF SaveStep

LEMMA DeleteRegister ==
    ASSUME TypeOK, AloneInv, NEW t \in Tasks, DeleteStep(t), ~overlapped'
    PROVE  Register!Begin("delete") \/ Register!Delete
<1> USE DEF storeVars, Unlinked, Refused
<1>0. ~overlapped
  BY DEF DeleteStep, BeginDelete, Begins, DeleteFile, DeleteEntry, DeleteEntryFails, CheckRefusal
<1>a. OneCall /\ Progress /\ file \in {Nothing} \cup Values /\ keyring \in {Nothing} \cup Values
  BY <1>0 DEF AloneInv, TypeOK
<1>1. CASE BeginDelete(t)
  <2>1. op' = [op EXCEPT ![t] = At("deleteFile", Nothing)] /\ Begins(t) /\ op[t].pc = "idle"
    BY <1>1 DEF BeginDelete
  <2>2. CallOf(op) = Register!Idle /\ CallOf(op') = [kind |-> "delete", value |-> Nothing]
    BY <2>1, CallBegins DEF SavePcs, DeletePcs
  <2>3. UNCHANGED Load
    BY <1>1 DEF BeginDelete, Load
  <2>4. CallOf(op)' = [kind |-> "delete", value |-> Nothing]
    BY <2>2
  <2>5. CallOf(op)' = [kind |-> "delete", value |-> CallOf(op)'.value]
    BY <2>4
  <2> QED
    BY <2>1, <2>2, <2>3, <2>5 DEF Begins, Register!Begin
<1>b. SavePcs # DeletePcs
  BY DEF SavePcs, DeletePcs
<1> DEFINE DeleteGoes == /\ CallOf(op).kind = "delete" /\ CallOf(op') = CallOf(op)
                         /\ outcome' = outcome
           DeleteEnds(how) == /\ CallOf(op).kind = "delete" /\ CallOf(op') = Register!Idle
                              /\ outcome' = how
<1>2. ASSUME NEW pc \in DeletePcs, op[t].pc \in DeletePcs, Step(t, pc), outcome' = outcome
      PROVE  DeleteGoes
  BY <1>2, <1>a, <1>b, CallGoesOn, DeletePcs \in {SavePcs, DeletePcs}
<1>3. ASSUME NEW how, op[t].pc \in DeletePcs, Ends(t, how)
      PROVE  DeleteEnds(how)
  <2>1. outcome' = how
    BY <1>3 DEF Ends
  <2> QED
    BY <1>3, <1>a, <1>b, <2>1, CallEnds, DeletePcs \in {SavePcs, DeletePcs}
<1>4. CASE DeleteFile(t)
  <2>1. DeleteGoes
    BY <1>4, <1>2 DEF DeleteFile, DeletePcs
  <2>2. Load' \in Nat
    BY <1>4, <1>a, EntriesApart DEF DeleteFile, Load, Holds, Nothing
  <2> QED
    BY <2>1, <2>2 DEF Register!Delete, Register!Goes
<1>5. CASE DeleteEntry(t)
  <2>1. DeleteEnds("deleted")
    BY <1>5, <1>3 DEF DeleteEntry, DeletePcs
  <2>2. CASE file = Nothing
    <3>1. Load' = Register!Nothing
      BY <1>5, <2>2, EntriesApart DEF DeleteEntry, Load, Holds, Nothing, Register!Nothing
    <3> QED
      BY <2>1, <3>1 DEF Register!Delete, Register!Ends
  <2>3. CASE file # Nothing
    <3>1. Load' = Load /\ kept'
      BY <1>5, <1>a, <2>3 DEF DeleteEntry, Load, Holds, Progress
    <3> QED
      BY <2>1, <3>1 DEF Register!Delete, Register!Ends
  <2> QED
    BY <2>2, <2>3
<1>6. CASE DeleteEntryFails(t)
  <2>1. DeleteGoes
    BY <1>6, <1>2 DEF DeleteEntryFails, DeletePcs
  <2>2. Load' \in Nat
    BY <1>6, <1>a, EntriesApart DEF DeleteEntryFails, Load, Holds, Nothing
  <2> QED
    BY <2>1, <2>2 DEF Register!Delete, Register!Goes
<1>7. CASE CheckRefusal(t)
  <2>1. Load' = Load /\ kept' = kept /\ (file = Nothing \/ kept)
    BY <1>7, <1>a DEF CheckRefusal, Load, Progress
  <2>2. CASE usable /\ keyring # Nothing /\ Ends(t, "refused")
    <3>1. Load' # Register!Nothing
      BY <1>a, <2>1, <2>2, EntriesApart DEF Load, Holds, Nothing, Register!Nothing
    <3> QED
      BY <1>7, <1>3, <2>1, <2>2, <3>1
      DEF CheckRefusal, DeletePcs, Register!Delete, Register!Ends
  <2>3. CASE usable /\ keyring = Nothing /\ Ends(t, "deleted")
    <3>1. DeleteEnds("deleted")
      BY <1>7, <1>3, <2>3 DEF CheckRefusal, DeletePcs
    <3>2. CASE file = Nothing
      <4>1. Load' = Register!Nothing
        BY <2>1, <2>3, <3>2, EntriesApart DEF Load, Holds, Nothing, Register!Nothing
      <4> QED
        BY <3>1, <4>1 DEF Register!Delete, Register!Ends
    <3> QED
      BY <2>1, <3>1, <3>2 DEF Register!Delete, Register!Ends
  <2>4. CASE ~usable /\ Ends(t, "assumed")
    BY <1>7, <1>3, <2>1, <2>4 DEF CheckRefusal, DeletePcs, Register!Delete, Register!Ends
  <2> QED
    BY <1>7, <2>2, <2>3, <2>4 DEF CheckRefusal
<1> QED
  BY <1>1, <1>4, <1>5, <1>6, <1>7 DEF DeleteStep

LEMMA StepOfRegister ==
    ASSUME TypeOK, AloneInv, [Next]_vars
    PROVE  [Register!Next]_Register!registerVars
<1>1. CASE UNCHANGED vars
  BY <1>1 DEF vars, storeVars, Register!registerVars, Load
<1>2. CASE overlapped'
  BY <1>2 DEF Register!Next
<1>3. CASE KeyringTurns
  BY <1>3 DEF KeyringTurns, Register!registerVars, Load
<1>4. CASE Crash /\ ~overlapped'
  <2>1. CallOf(op') = Register!Idle
    BY <1>4, IdleCall DEF Crash
  <2>2. file' = file
    BY <1>4, EntriesApart DEF Crash, Left, AloneInv
  <2> QED
    BY <1>4, <2>1, <2>2 DEF Crash, Load, Register!Next, Register!Crash, Register!Ends
<1>5. ASSUME NEW t \in Tasks, SaveStep(t) \/ DeleteStep(t), ~overlapped'
      PROVE  Register!Next
  <2>1. UNCHANGED overlapped
    BY <1>5 DEF SaveStep, BeginSave, Begins, KeyringSet, KeyringSetFails, UnlinkFallback,
                ClearTmp, CreateTmp, CreateFails, WriteTmp, WriteFails, RenameTmp,
                RenameFails, DeleteStep, BeginDelete, DeleteFile, DeleteEntry,
                DeleteEntryFails, CheckRefusal, TypeOK
  <2> QED
    BY <1>5, <2>1, SaveRegister, DeleteRegister DEF Register!Next
<1> QED
  BY <1>1, <1>2, <1>3, <1>4, <1>5 DEF Next

\* While no two calls overlap, the keyring and the fallback file are one
\* register to whoever saves, signs out and starts again; a success reported
\* over a file that could not be unlinked is the one answer that is not so.
THEOREM StoresAreOneRegister == Spec => ImplementsRegister
BY InitRegister, StepOfRegister, Invariants, PTL DEF Spec, ImplementsRegister, Register!Spec

=============================================================================
