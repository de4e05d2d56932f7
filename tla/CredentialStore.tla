--------------------------- MODULE CredentialStore ---------------------------
(***************************************************************************)
(* One account of keychain.rs: the OS keyring, and the fallback file used  *)
(* while the keyring cannot be written.  An action is one keyring or file  *)
(* system call; the process may die between any two of them.               *)
(*                                                                         *)
(* Values are numbered in the order their saves began: 1 is the oldest.    *)
(* An entry of the directory is Nothing, a whole value, or the task that   *)
(* has created the file and not written it yet (the entry follows the      *)
(* open file, wherever it is renamed to); Empty is such a file left by a   *)
(* crash or a full disk.  CredentialRegister says what the calls promise.  *)
(***************************************************************************)
EXTENDS Naturals

CONSTANTS
    Tasks,      \* blocking-pool threads that may be in a store call
    MaxSaves,   \* bound on the saves of one behaviour
    Empty

Nothing == 0
Values  == 1..MaxSaves

ASSUME StoreAssumption ==
    /\ MaxSaves \in Nat \ {0}
    /\ Empty \notin Nat
    /\ Tasks \cap (Nat \cup {Empty}) = {}

VARIABLES
    keyring,   \* the keyring entry
    usable,    \* whether the keyring answers: unlocked, and its daemon runs
    file,      \* the fallback file
    tmp,       \* the file being prepared beside it, one path for all tasks
    op,        \* the call each task is in
    begun,     \* saves begun
    outcome,   \* ghost: how the last call ended, until another begins
    overlapped, \* ghost: two calls were under way at once
    kept       \* ghost: an unlink of the last call was refused

storeVars == <<keyring, usable, file, tmp>>
vars == <<keyring, usable, file, tmp, op, begun, outcome, overlapped, kept>>

Entries == {Nothing, Empty} \cup Values \cup Tasks

At(pc, v) == [pc |-> pc, value |-> v]
Idle == At("idle", Nothing)

SavePcs   == {"set", "unlink", "clearTmp", "create", "write", "rename"}
DeletePcs == {"deleteFile", "deleteKeyring", "check"}

TypeOK ==
    /\ keyring \in {Nothing} \cup Values
    /\ usable \in BOOLEAN
    /\ file \in Entries
    /\ tmp \in Entries
    /\ op \in [Tasks -> [pc : {"idle"} \cup DeletePcs, value : {Nothing}]
                          \cup [pc : SavePcs, value : Values]]
    /\ begun \in 0..MaxSaves
    /\ outcome \in {"none", "keyring", "file", "error", "full",
                   "deleted", "assumed", "refused"}
    /\ overlapped \in BOOLEAN
    /\ kept \in BOOLEAN

\* What an earlier process may have left: each store empty or with value 1.
Init ==
    /\ begun = 1
    /\ keyring \in {Nothing, 1}
    /\ file \in {Nothing, 1}
    /\ tmp \in {Nothing, Empty}
    /\ usable \in BOOLEAN
    /\ op = [t \in Tasks |-> Idle]
    /\ outcome = "none"
    /\ overlapped = FALSE
    /\ kept = FALSE

Holds(entry) == entry \in Values

\* Bug: the keyring is read first.
LoadKeyringFirst ==
    IF keyring # Nothing THEN keyring ELSE IF Holds(file) THEN file ELSE Nothing

\* load(), where the keyring answers: the file first, and an empty file reads
\* as none.
Load == IF Holds(file) THEN file ELSE keyring

-----------------------------------------------------------------------------

Step(t, pc) == op' = [op EXCEPT ![t].pc = pc]

\* Bug: the call's end keeps the value it was saving.
EndsKeepingValue(t, how) ==
    /\ op' = [op EXCEPT ![t].pc = "idle"]
    /\ outcome' = how

Ends(t, how) ==
    /\ op' = [op EXCEPT ![t] = Idle]
    /\ outcome' = how

Begins(t) ==
    /\ outcome' = "none"
    /\ kept' = FALSE
    /\ overlapped' = (overlapped \/ \E u \in Tasks \ {t} : op[u] # Idle)

\* remove_file, whose failure every caller ignores: either the entry is gone
\* or the unlink was refused and it is still there.
Unlinked(entry) == entry' = Nothing /\ UNCHANGED kept
Refused(entry)  == entry # Nothing /\ UNCHANGED entry /\ kept' = TRUE

(* save_token and save_device_identity.                                    *)

BeginSave(t) ==
    /\ op[t].pc = "idle"
    /\ begun < MaxSaves
    /\ begun' = begun + 1
    /\ op' = [op EXCEPT ![t] = At("set", begun + 1)]
    /\ Begins(t)
    /\ UNCHANGED storeVars

KeyringSet(t) ==
    /\ op[t].pc = "set"
    /\ usable
    /\ keyring' = op[t].value
    /\ Step(t, "unlink")
    /\ UNCHANGED <<usable, file, tmp, begun, overlapped, outcome, kept>>

KeyringSetFails(t) ==
    /\ op[t].pc = "set"
    /\ ~usable
    /\ Step(t, "clearTmp")
    /\ UNCHANGED <<storeVars, begun, overlapped, outcome, kept>>

\* The keyring works: the fallback copy goes, or is not missed.
UnlinkFallback(t) ==
    /\ op[t].pc = "unlink"
    /\ Unlinked(file) \/ Refused(file)
    /\ Ends(t, "keyring")
    /\ UNCHANGED <<keyring, usable, tmp, begun, overlapped>>

\* Bug: the file a crash left is not cleared.
KeepTmp(t) ==
    /\ op[t].pc = "clearTmp"
    /\ Step(t, "create")
    /\ UNCHANGED <<storeVars, begun, overlapped, outcome, kept>>

ClearTmp(t) ==
    /\ op[t].pc = "clearTmp"
    /\ Unlinked(tmp) \/ Refused(tmp)
    /\ Step(t, "create")
    /\ UNCHANGED <<keyring, usable, file, begun, overlapped, outcome>>

\* Bug: the token is written in place, without a temporary file.
CreateInPlace(t) ==
    /\ op[t].pc = "create"
    /\ file' = t
    /\ tmp' = t
    /\ Step(t, "write")
    /\ UNCHANGED <<keyring, usable, begun, overlapped, outcome, kept>>

\* create_new: a path that exists is an error.
CreateTmp(t) ==
    /\ op[t].pc = "create"
    /\ tmp = Nothing
    /\ tmp' = t
    /\ Step(t, "write")
    /\ UNCHANGED <<keyring, usable, file, begun, overlapped, outcome, kept>>

\* Something is at the path, or the disk refuses.
CreateFails(t) ==
    /\ op[t].pc = "create"
    /\ Ends(t, IF tmp # Nothing THEN "error" ELSE "full")
    /\ UNCHANGED <<storeVars, begun, overlapped, kept>>

\* write_all and sync_all, through the open file.
WriteTmp(t) ==
    /\ op[t].pc = "write"
    /\ tmp' = IF tmp = t THEN op[t].value ELSE tmp
    /\ file' = IF file = t THEN op[t].value ELSE file
    /\ Step(t, "rename")
    /\ UNCHANGED <<keyring, usable, begun, overlapped, outcome, kept>>

\* The disk is full: what was created stays, unwritten.
WriteFails(t) ==
    /\ op[t].pc = "write"
    /\ tmp' = IF tmp = t THEN Empty ELSE tmp
    /\ file' = IF file = t THEN Empty ELSE file
    /\ Ends(t, "full")
    /\ UNCHANGED <<keyring, usable, begun, overlapped, kept>>

RenameTmp(t) ==
    /\ op[t].pc = "rename"
    /\ tmp # Nothing
    /\ file' = tmp
    /\ tmp' = Nothing
    /\ Ends(t, "file")
    /\ UNCHANGED <<keyring, usable, begun, overlapped, kept>>

\* Another save has taken the file away, or the disk refuses.
RenameFails(t) ==
    /\ op[t].pc = "rename"
    /\ Ends(t, IF tmp = Nothing THEN "error" ELSE "full")
    /\ UNCHANGED <<storeVars, begun, overlapped, kept>>

-----------------------------------------------------------------------------
(* delete_token: an explicit sign-out.                                     *)

BeginDelete(t) ==
    /\ op[t].pc = "idle"
    /\ op' = [op EXCEPT ![t] = At("deleteFile", Nothing)]
    /\ Begins(t)
    /\ UNCHANGED <<storeVars, begun>>

DeleteFile(t) ==
    /\ op[t].pc = "deleteFile"
    /\ Unlinked(file) \/ Refused(file)
    /\ Step(t, "deleteKeyring")
    /\ UNCHANGED <<keyring, usable, tmp, begun, overlapped, outcome>>

DeleteEntry(t) ==
    /\ op[t].pc = "deleteKeyring"
    /\ usable
    /\ keyring' = Nothing
    /\ Ends(t, "deleted")
    /\ UNCHANGED <<usable, file, tmp, begun, overlapped, kept>>

DeleteEntryFails(t) ==
    /\ op[t].pc = "deleteKeyring"
    /\ ~usable
    /\ Step(t, "check")
    /\ UNCHANGED <<storeVars, begun, overlapped, outcome, kept>>

\* The delete was refused: an error only if the token can be read back.
CheckRefusal(t) ==
    /\ op[t].pc = "check"
    /\ \/ usable /\ keyring # Nothing /\ Ends(t, "refused")
       \/ usable /\ keyring = Nothing /\ Ends(t, "deleted")
       \/ ~usable /\ Ends(t, "assumed")
    /\ UNCHANGED <<storeVars, begun, overlapped, kept>>

-----------------------------------------------------------------------------

\* The keyring is locked or unlocked, its daemon started or stopped.
KeyringTurns ==
    /\ usable' = ~usable
    /\ UNCHANGED <<keyring, file, tmp, op, begun, overlapped, outcome, kept>>

Left(entry) == IF entry \in Tasks THEN Empty ELSE entry

\* The process dies in the middle of whatever it was doing.
Crash ==
    /\ op' = [t \in Tasks |-> Idle]
    /\ outcome' = "none"
    /\ kept' = FALSE
    /\ tmp' = Left(tmp)
    /\ file' = Left(file)
    /\ UNCHANGED <<keyring, usable, begun, overlapped>>

SaveStep(t) ==
    \/ BeginSave(t) \/ KeyringSet(t) \/ KeyringSetFails(t) \/ UnlinkFallback(t)
    \/ ClearTmp(t) \/ CreateTmp(t) \/ CreateFails(t) \/ WriteTmp(t)
    \/ WriteFails(t) \/ RenameTmp(t) \/ RenameFails(t)

DeleteStep(t) ==
    \/ BeginDelete(t) \/ DeleteFile(t) \/ DeleteEntry(t)
    \/ DeleteEntryFails(t) \/ CheckRefusal(t)

Next ==
    \/ \E t \in Tasks : SaveStep(t) \/ DeleteStep(t)
    \/ KeyringTurns
    \/ Crash

Spec == Init /\ [][Next]_vars

-----------------------------------------------------------------------------

\* While no two calls overlap, and wherever the process dies, the fallback
\* file is whole: file_save_at writes beside it and renames, so that a crash
\* cannot leave a half-written token.
AloneFileWhole == ~overlapped => file \in {Nothing} \cup Values

\* While no two calls overlap, no save fails over what an earlier one left,
\* a crash in the middle of it included, unless the leftover cannot be unlinked.
AloneSaveSucceeds == ~overlapped /\ ~kept => outcome # "error"

\* The call under way, for the register: only one while none overlap.
CallOf(ops) ==
    LET busy == {t \in Tasks : ops[t] # Idle} IN
    IF busy = {} THEN [kind |-> "idle", value |-> Nothing]
    ELSE LET t == CHOOSE u \in busy : TRUE IN
         [kind |-> IF ops[t].pc \in SavePcs THEN "save" ELSE "delete", value |-> ops[t].value]

Register == INSTANCE CredentialRegister
                WITH stored <- Load, call <- CallOf(op), answer <- outcome

\* While no two calls overlap, the two stores are one register: what a start
\* would load changes only to the value being saved, at one moment of the save,
\* or in a sign-out; every answer is true of both stores, but for the success
\* reported over a fallback file that could not be unlinked (keychain.rs:157);
\* and neither a crash nor the keyring's comings and goings change what was
\* saved.
ImplementsRegister == Register!Spec

\* A sign-out that reported success left nothing to load: sign_out promises
\* that a store that refuses is reported, and delete_token reports success
\* when the keyring answered neither the delete nor the read.  (Where the file
\* could not be unlinked it reports success as well; that is set aside here.)
SuccessLeavesNothing ==
    outcome \in {"deleted", "assumed"} /\ ~kept => Load = Nothing

=============================================================================
