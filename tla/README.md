# KlaayGuard in TLA+

KlaayGuard is an agent that runs in a person's login session, checks the security
posture of the computer every 15 minutes and reports it to the Klaay API. It is one
process with several asynchronous tasks, a little shared state, two credential
stores, a lock file, and an updater that replaces the program while it runs. The code
is `src/src-tauri/src/`: `lib.rs` (nearly everything), `keychain.rs`,
`single_instance.rs`, `sign_in.rs`.

This directory holds TLA+ models of it, TLC configurations that check them on
small instances, and proofs, checked by TLAPS, of what holds for every instance.
Run a model with `tlc -config X.cfg M` and a proof with `tlapm MProofs.tla`.
`PROJECT.json` maps every definition to the lines it models, lists the hazards with
the properties that cover them, and gives for each property a plausible bug
(a definition commented "Bug:") that violates it.

## Inventory

| Component | State | Operations | What makes it correct |
|---|---|---|---|
| Session (`AppState`, lib.rs 40-99, 2423-2747, 4195-4415, 5362-5410) | token, holder's name, `token_acquired` permit, tray | sign-in, adoption, sign-out, startup load, `/me` inquiry, 401 | the name shown is the token's holder's; the store holds the session in use; a new session is acted on at once |
| Credential store (keychain.rs) | keyring entry, fallback file, its temporary file | load, save, delete | both stores are one register; a reported success is true |
| Sign-in listener (sign_in.rs), nudge (2772), fallback window (3096) | loopback socket, blocking pool, debounce time, window | start, accept, claim, nudge, close | few browsers unasked, a way back in, jobs that get a thread |
| Single instance (single_instance.rs, lib.rs 5437-5483) | lock file, flock, claim | open, lock, compare inodes, back off | one agent per login, and one in the end |
| LaunchAgent (3681-3813), macOS postinstall | plist, launchd's job, enabled flag | compare, print, write, bootout, enable, bootstrap | the job launchd has is the installed one, whoever installs it |
| Update check and schedule (4428-4636, 5315-5357) | time of the last check | poll, compare | checked when due, whatever the clock does |
| macOS update (4637-5310) | installed app, staged and backup copies, mounted image | download, attach, copy, verify, two renames, detach, relaunch | only signed whole builds get installed; the app is never lost |
| AppImage update (4762), Windows update (4886) | staged file, live file, helper process | write, sync, rename or run, relaunch | what starts is checked and whole; an agent runs afterwards |
| Collection cycle (3355-3622) | the cycle's token, rung of the ladder, rows | config request, checks, check-in, retries | cycles end, go on, and stop using a refused token |
| Device identity (2848-2948, 3282-3350) | identity in memory, keyring and file | load, derive, save | one device stays one device |
| Config items (136-258) | none | platform, type, read-only test | nothing that writes is handed to osquery |
| Compliance checks: Linux disk encryption (456-734), screen lock (749-1395), updates (290-451); Windows disk encryption (1409-1585), password policy (1602-1728), screen lock (1730-2376) | none | read, parse, judge | nothing is claimed that is not so of the host |
| Autostart on Linux and Windows (3154-3270), process entry, logging, build | - | - | - |

How they interact: all tasks share `AppState` behind one `RwLock` per field, so what
concerns two fields is two critical sections. Sign-in and the startup load wake the
loop through a `Notify` permit. The loop calls the API, ends the session on 401 or
403, asks `/me` for a missing name, and nudges the person to sign in. Listeners and
store calls share tokio's blocking pool. Session and identity are both kept by the
credential store. The updater ends the process; launchd, a shell or an installer
starts the next, which has to win the lock.

What is hard: session changes that overlap between their two writes, answers about a
token that has since gone, a keyring that blocks on a prompt, is locked, or fails in
the middle of a save; a crash or a power loss between any two file operations; two
agents, or an agent and a package script, where one was assumed; a clock that goes
backwards; sign-ins nobody comes back to; retries, and a sign-out in the middle of a
retry ladder; settings and sources that cannot be read.

## Modules

One module per component, with `MC*` modules that only give it small constants, and
`*Proofs` modules that extend it. Three modules compose others: **LaunchAgent** takes
the steps of SingleInstance, **Update** those of MacUpdate and SelfUpdate, and
**BuiltinChecks** those of all the checks. Otherwise each module takes its neighbour
as a whole (Session has the store as a register that may fail, SignIn has the session
as held or not, Collection has it as "the token it finds"), and the neighbour's own
module opens it up.

**Session** has one action per lock section or network answer. `auth_token`,
`user_label` and `token_acquired` are the fields of `AppState`; `signIn`, `signOut`,
`inquiry`, `startup` and `loop` are the program counters of the tasks, each with the
token it carries. `AdoptToken`/`AdoptLabel` and `SignOutToken`/`SignOutLabel` are the
two writes of `adopt_session` and `clear_session`. `menu` is whether the person may be shown
"Sign out": `RefreshTray` turns it on wherever a token is read, and no later reading
turns it off, because the menu that was made of one reaches the screen some time later.
The name that the menu shows, read under a lock of its own, is display. **SessionProperties** has the
properties, the schedule that the two about names hold under, and the fairness.

**CredentialStore** has one action per keyring or file system call. Values are
numbered by age. A directory entry may be an open file of a task, so that a rename
moves what is still being written. `usable` is whether the keyring answers. Writes of
the file and the creation of the temporary file may fail, and so may an unlink, which
the code ignores (`Refused`, keychain.rs:157): the call reports success, and the ghost
`kept` records that it left a file.
**CredentialRegister** is the abstract specification: one value, one call at a time,
and answers that say what became of it; a save or a delete that was `kept` from removing
its file answers success and may have changed nothing. CredentialStore implements it
(`ImplementsRegister`) with `stored <- Load`, what a start would load: the file if
there is one, else the keyring. It promises nothing once two calls have overlapped,
because the code does not keep them apart.

**SignIn** has a caller of `notify_signin_needed` at each of its lock sections, with
the age of the `now` it took; ages stand for times, so that only differences are kept.
A sign-in is a task that waits in `queue` for one of `PoolSize` threads, for its
listener and again for its save; a sign-out waits there too. `trayless` and `window`
are the Linux desktop without a tray and its fallback window. The ghosts are `opened`,
the ages of the latest nudges that started a sign-in unasked, and `excuse`, why no
window is there: the person closed it, or its build failed, which the code only logs.
A session that ends a debounce period or more after the last nudge voids the excuse. The
browser itself follows when `sign_in::start` has had its answer (lib.rs:4199-4224), for
which it waits without a deadline, so sign-ins are counted where they are started.

**SingleInstance** keeps inodes apart from the path, because `flock` locks one and
the claim names the other. `Kill` and `Reap` are apart, because a killed process
holds its lock until the kernel is done with it; `clock` measures that against the
backoff.

**LaunchAgent** adds launchd (`job`, `enabled`), the plist, and an install at any of
its calls for every agent and for the package's script, which stops the agents,
installs, enables and bootstraps once more and makes sure an agent runs. `fs::write`
is two actions, because another's bootstrap may read the file in between. Since the
job runs `open -W`, bootout and `kickstart -k` end a wrapper and no agent. The results of
`launchctl bootout` and `enable`, and of the script's commands, are ignored:
`CommandFails` goes on without the effect. `slips` remembers installs that were cut short
and commands that were refused since the last login.

**MacUpdate** has one action per file operation of `replace_application` and
`stage_verify_and_swap`, each of which may fail, and `Crash` between any two. Copies
named after a dead agent's pid become `litter`. `volumes` is what is attached under
/Volumes: an image whose agent died, that would not detach even by force, or whose mount
point was not understood stays, and the next is mounted under a numbered name. Removals of
directories succeed in the model; in the code a failed one is ignored and leaves what a
crash there leaves. `Crash` is the death of the process: nothing is synced on macOS
(5101-5130), so what a power loss leaves is up to the file system and is not modelled.

**SelfUpdate** has the update loop (`elapsed`, the clock less the time of the last
check, and the ghost `age`, true time), and the install and relaunch of an AppImage
and of Windows. `durable` is what a power loss may leave of the live file: a rename
that is not synced, or, where the bytes were not `synced` before it, a torn file. `helper` is the shell that waits for the
old pid, or the installer, inside or outside the agent's job. **Update** lets an agent
be a macOS one or another.

**Collection** has `run_cycle` with every answer it tells apart, `send_with_retry` as
`RetryLater` and `DelayEnds`, and `get_device_identity_internal` over the two stores.
`up` is whether the API answers as it should; while it is not, any answer may come, a
lost answer to a check-in that arrived included. What checks find is abstracted to
whether they give rows. **DeviceRegister** is what the identity's two stores and the
memory of each process amount to: written once and named by every check-in, and once a
store has slipped (`slipped <- slips # {}`, `identity <- Stored`) replaced at worst.

**ConfigItems**, **LinuxDiskEncryption**, **LinuxScreenLock**, **LinuxAutoUpdate**,
**WindowsPosture** and **WindowsScreenLock** are the checks as operators. Each has a
description of a host, the code's function from what the host's sources say to a row,
`failed` being the sources that gave nothing, and a second definition, independent of
the first, of what the host does (`Encrypted`, `LockTimes`, `Installs`, `Protected`).
An `Option` is a set with at most one element. A file or a command's output is the
values it holds, not its text; a value that does not parse is not set, for the check and for
the program that reads the same text. **BuiltinChecks** takes an item of the config to its
row on any platform, and its properties compare the row with the host. Units that the
code multiplies by are constants (`Minute`, `Unit`), so that a factor forgotten or
applied twice shows.

## Runs

| Run | Instance | What it shows |
|---|---|---|
| `session_names` | 2 sign-ins, 1 sign-out, 1 inquiry, 2 tokens of 2 people, one revocable, a store that may fail | With the sign-ins' two writes apart from other changes, a settled session names its holder or nobody, and no session names nobody. |
| `session_live` | 1 sign-in, 1 inquiry, fair tasks, no schedule | No wake-up is lost; a blip of `/me` does not cost a session its name for good. |
| `session_label_of_another` (violation) | 1 sign-in, no schedule | The startup load overwrites a session just signed in to, and leaves its name. |
| `session_sign_out_undone` (violation) | 1 sign-in, 1 sign-out, a store that works, no 401, no schedule | The save of a sign-in lands after the delete of a later sign-out, and the token is stored. |
| `credential_store` | 2 tasks, values 1 to 3 | While calls do not overlap, wherever the process dies and however the keyring comes and goes: the file is whole, no save is blocked but by a file that cannot be removed, and the two stores are one register, calls that could not remove a file named apart. |
| `credential_sign_out` (violation) | 1 task | A locked keyring makes a sign-out report success and keep the token. |
| `launch_agent` | 2 processes, 2 inodes, 3 attempts, the package, 2 mishaps | One agent, no concession to the dead, launchd has the installed job unless a command failed, and an agent in the end unless a failed install left nothing to load. |
| `update` | 2 macOS agents, 2 names under /Volumes; an AppImage or Windows agent, period 3, cap 2 | Only checked, whole builds run; an agent copies from the image it mounted; the app is never lost; the clock puts no check off; an agent after an update. |
| `collection` | 2 sessions, 1 random identity, no machine id | One device stays one; a refused token is dropped; cycles end; check-ins go on. |
| `sign_in` | 2 sign-ins, 1 sign-out, 1 thread, debounce of 3 ticks | At most four sign-ins started unasked in a period; a way back in; no job starves while a thread is free of abandoned sign-ins. |
| `builtin_checks` | 12 items, all desktops, 8 trees of disks, 7 idle and registry settings of Windows and more, at most one failed source | Every row is so of the host, with the exceptions below; no query writes. |
| `disk_encryption_no` (violation) | the same, nothing fails | A home encrypted by fscrypt is reported as not encrypted. |

The bounds. Two tokens of two people are needed for a wrong name, and two sign-ins, a
sign-out and an inquiry for every pair of session changes to overlap with a late
answer between them; sign-ins return to idle, so behaviours are not bounded by the
number of tasks. Three values (`MaxSaves`) give a file older and newer than the
keyring with a save in between. Two processes and two inodes give a process on a
replaced file and one on the new file; `Attempts` is 3 instead of 5 with
`ReleaseWithin` 1, so the ladder is still longer than the kernel's delay.
`MaxMishaps` bounds starts by hand, kills, removals, refusals and packages, so that
they stop; with two, a package meets a kill or a refusal, or two agents are killed in
their installs. Two agents update at once, one more than the lock allows. A period of
3 polls has a poll that is early, one that is due and one that is late; two polls of
the old pid come before the cap, and on it. One abandoned sign-in fills a pool of
one, where every other job would starve. A debounce of three ticks is the least in which
the startup's nudge can write its older time over the loop's newer one while that still
counts; with two ticks TLC finds at most three such sign-ins in a period, with three it finds
the fourth. Times in the checks are 0 to 3:
"never", the soonest, and later ones; the settings have each trigger as the soonest and the
latest, each switch on, off and unset, and each source failing alone. `Retries` is 2,
the code's own. The proofs are for any number.

Deadlock is checked in every run but `update`: there a macOS agent without an
installed app to start has nothing left to do.

Exceptions that the properties of `builtin_checks` name, each a place where the code
trusts a source: a device with several parents, some encrypted, is judged by the first
(`Mixed`); the home's mount is known only if the mount table was read; xfconf's
silence is read as its default; a file of settings that cannot be read, or is not UTF-8,
counts as one that sets nothing; a lock delay that cannot be read counts as none;
systemctl's silence counts as "not enabled"; hypridle's first lock listener decides, even
one that never fires in front of another. Without these exceptions TLC finds each of them.

### Fairness

- Session: a woken task is polled, a request ends because every client has a deadline
  (`http_client`), the store answers. Users, restarts and the interval are not
  assumed; `NamedInTheEnd` adds, in the property, that the interval ticks and that the
  API goes on answering.
- SignIn: threads are given to waiting jobs, a read ends by its timeout, requests and
  store calls end. The two requests of `sign_in.rs` use a client without a deadline,
  so that they end is an assumption. Nobody has to come back from the browser: Accept
  has no fairness, and `JobsRun` says under which condition that does no harm.
- LaunchAgent: processes run, `launchctl` answers, the kernel reaps, time passes,
  launchd keeps its job alive (`KeepAlive`), and a person whose Mac has neither agent
  nor job logs in again. Nobody has to install a package.
- Update: an agent that has begun to install goes on, an exiting process goes, and
  what it left to replace it goes on. Checks, downloads, starts and logins are not
  assumed.
- Collection: the loop goes on: requests end within 60 s, delays end, the interval
  ticks and osquery exits. The last is an assumption the code does not enforce: the
  sidecar is awaited without a deadline.

## What is proved

All of it for any values of the constants that meet the `ASSUME`s, without bounds on
tasks, agents, processes, sessions or restarts. Each proof finds an inductive
invariant, shows that `Init` implies it, that every step keeps it, and that it implies
the property; TLC checked each property first, and the parts are named in the proof module.

- **SessionProofs.** `TypeCorrect`. `SignedOutNamesNobody` and `SignedInNamesHolder`
  rest on `NamesInv`: nobody is named before the startup load is over, an adoption
  between its two writes carries its own token's label, and whatever name is shown
  fits the token, or some task is between its writes. The last has to be said of every
  state and not only of settled ones, which is why the property alone is not
  inductive. `PermitIsNeverLost` holds under every
  interleaving: from the write of a token on, a notification, its permit, the loop's
  first look or a tick stands between the session and a cycle, and no step takes the
  last of them away but the beginning of that cycle or the end of the session.
- **CredentialStoreProofs.** `TypeCorrect`, `FileWhole` and `SaveNeverBlocked` rest on
  `AloneInv`: while no two calls have overlapped, one call at most is under way, and
  what each of its steps relies on is what its earlier steps did (`Progress`: the value is
  in the keyring before the file is unlinked, the temporary file is this save's when it
  is written and renamed, the file is gone, or was `kept`, before the keyring entry is deleted).
  `StoresAreOneRegister` is the refinement: from there every step of
  CredentialStore is a step of the register or a stutter, and once calls have overlapped
  any step is one.
- **LaunchAgentProofs**, first of the claim alone. `TypeCorrect`, and
  `MutualExclusion` while nobody removes the file under a running agent: an agent holds the lock of the inode its
  descriptor is open on, and the path resolves to that inode. Two agents would hold
  one lock. `OutlastsTheDead` (`NeverConcedesToTheDead`) holds for any number of
  attempts above `ReleaseWithin + 1`: by `Patient`, a claim at its last attempt has
  slept once for every attempt before it, so it is older than the kernel ever is late. The
  code's five attempts allow a kernel late by up to three backoffs.
  Then of LaunchAgent. `ImplementsClaim`: every step of LaunchAgent is a step of
  SingleInstance's `UndisturbedSpec` or leaves its variables alone, so that
  `OneAgentPerLogin` follows from `MutualExclusion` however launchd, the package and
  people start the app, and `LaunchOutlastsTheDead` from `OutlastsTheDead`.
  `InstallsEndInstalled` (`JobInstalled`) is about installs that
  interleave. Its invariant `LaunchInv` says what is still ahead: while no install was
  cut short and no command refused, a torn plist is about to be filled by somebody, a plist that is
  not this build's is in front of somebody's comparison or write, an old job whose plist
  is gone is in front of somebody's bootout, and with an agent but no job somebody is on
  the way to a bootstrap. `Written` and `Ordered` are what each install's earlier steps
  did for its later ones. When nobody is in an install, nothing is ahead, and all is there.
  `AgentsCanReturn` (`CanReturn`) rests on it too: an install that ends
  leaves a file that a login loads, or one that another install has torn and is about to
  fill.
- **MacUpdateProofs.** `InstallsOnlyVerified`: what is staged past the verification is
  a whole signed build and what was moved aside was installed. `AppIsNeverLost`: some
  agent or the litter holds a whole build whenever the place is empty, and an agent
  drops the old app only after its own swap went through. `CopiesOwnImage`: while an
  agent is attached its mount point holds the image that it downloaded, what it has copied
  is of that image, and no two agents are attached at one mount point.
  `AbsentAppIsHeld`:
  until an agent dies in an update or a rollback is refused, an empty place has an agent
  that holds the app it moved aside, and is at its swap or its rollback.
- **UpdateProofs.** `SelfTypeCorrect`; `OnlyCheckedRuns` rests on `Checked`: bytes past
  the checksum are the release's, a file holds them, and is synced, before it is renamed, all that a power loss may
  leave of the live file are whole builds, and while an installer runs nothing else
  touches it. `ClockPutsNoCheckOff` rests on `ClockTells`: a clock that is not behind the
  last check shows at least the time that has passed since then or since it was last put back. `MacUpdateHolds`
  carries the theorems of MacUpdateProofs over to the composition. `UpdateIsFollowed`:
  until the power is lost, the cap is reached or a job ends its installer, an agent that
  exits or is gone has a shell or an installer to come after it, and one that outlives it.
- **SignInProofs.** `TypeCorrect`, the queue's jobs being those of waiting tasks;
  `WayBackStays`: a signed-out agent without a window or an excuse has a caller that will
  open one. `Pending` says who: a caller past the debounce, or one still in front of it
  that will find the last nudge a period old. `Provided` strengthens it to sessions: without
  a tray there is a window, an excuse, a pending caller, or a session held while the last
  nudge is a period old, so that the nudge at its end is not dropped.
  `NudgesStayBounded` (`NudgesBounded`) holds for any debounce and rests on `FewNudges`: wherever the loop
  is in its nudge, so many of the latest such sign-ins are at least as old as the time that
  it compares with. The loop alone opens one in a period; one more may come of a nudge
  that the startup is still on, and one of the time that it writes over the loop's,
  but the startup has one nudge in the life of a process. `QueueIsServedInOrder`: a job
  that waits for a thread of the pool is in the queue (`WaitsInQueue`), keeps its place
  until a thread is taken and gains one with it (`MovesUp`), and the pool never runs more
  jobs than it has threads (`PoolKept`).
- **CollectionProofs.** `TypeCorrect` needs that a delay is begun only where the
  ladder has one left. `RefusedIsDropped`: neither the session in memory nor the
  cycle's token was ever seen refused. `DeviceStaysOne`: the identity in memory is the
  stored one, a new one is made only where none is stored, and what a check-in is about
  to carry is the stored one. From the same invariant `StoresAreOneDevice` is the
  refinement: a save is an assignment, because it finds nothing stored while no store has
  slipped; an arrival is a check-in; the rest stutters or slips. `CyclesAreFinite`: every
  step of the loop in a cycle ends it or lowers `StepsLeft`, which counts the ladder's
  attempts and never exceeds sixteen, and the world around it cannot raise that.
  `AcceptedCycleArrives`: a cycle begins on its way (`OnTrack`, the native check is still to
  make or its row to send), and while the API accepts its token no step of the loop but
  the check-in's last takes it off or leaves `StepsLeft` as it was.
- **BuiltinChecksProofs.** `ChecksTypeCorrect`, `WindowsYesHolds`, `WindowsNoHolds`,
  `YesHolds`, `NoHolds` and `SidecarOnlyReads`: what the rows say is so of every host that
  the `Is*` operators describe, for every item, with any sources giving nothing, in every
  cycle. The state machine is the small part: `CheckInv` says that a row is the answer to the item
  with the sources that failed, and that a cycle leaves the item and the host alone. The
  rest are lemmas on the checks' functions, one per package manager, locker, mechanism and source, that
  compare what is computed from the reads with what is so of the host (`RowFits` for a
  session, `Faithful` for what was read of Windows' power settings). A device on dm-crypt
  is a recursion over the tree of lsblk: `OnCryptIs` shows that a function satisfies its
  equation, by the least set of lines closed under it, and `CryptSomewhere` finds the dm-crypt
  device by taking the least line that is on one, for which the library's
  well-foundedness of `<` is enough and no induction is needed.

What the `ASSUME` of BuiltinChecks leaves out of the hosts: mounts stacked on one path,
more than four of the states that systemctl has for APT's timer, a desktop that names
itself as another in `XDG_CURRENT_DESKTOP`, and a BitLocker state that is wrong about the
drive.

Only model-checked: the liveness properties (`CollectsAtOnce`, `NamedInTheEnd`,
`JobsRun`, `AgentInTheEnd`, `AgentAfterUpdate`, `BackUnlessMishap`, `EveryCycleEnds`,
`ChecksInForever`), which are out of the proof system's reach, and what the violation
runs refute. Of seven of them the proofs have the part that is about single steps, and
leave to TLC that the steps still to come are enabled and taken: `PermitIsNeverLost`
for `CollectsAtOnce`, `CyclesAreFinite` for `EveryCycleEnds`, `AcceptedCycleArrives` for
`ChecksInForever`, `QueueIsServedInOrder` for `JobsRun`, `AgentsCanReturn` for
`AgentInTheEnd`, `UpdateIsFollowed` for `AgentAfterUpdate` and `AbsentAppIsHeld` for
`BackUnlessMishap`. `NamedInTheEnd` has none: an answer without a name may take a name away
again, and what brings it back is fairness alone. These seven facts and the refinement of
`StoresAreOneDevice` were tried with TLC on instances of their modules before
they were proved; no run repeats them.

## Disagreements between code and comments

The four violation runs; `PROJECT.json` quotes the lines. (1) "The two always move
together" (lib.rs:60): the startup load moves the token alone. (2) "if the store
refuses [...] that is reported" (lib.rs:4375): a locked keyring refuses both calls and
is reported as success. (3) "never a false "no"" (lib.rs:458): a file system that
encrypts by itself, on a device that lsblk shows, is reported as plain. (4) A sign-out
deletes the stored token "so the next start does not reuse it" (lib.rs:4373): an earlier
sign-in's save (2626), on its way through the blocking pool, may land after the delete, and
every call has succeeded.

Known, without a run of their own:

- Two sign-ins' saves may land in the other order than their adoptions, and the store then
  has the older session. The code gives no order to them, and no property is stated of it.
- "An explicit sign out must leave no token behind" (keychain.rs:212), and "a present file
  always holds the newest value" (197): an unlink that fails at :157 is ignored, so a
  sign-out may report success and leave the file, and a save may leave an older file in
  front of the keyring. `ImplementsRegister` names these calls apart.
- "a failed update never leaks a `/Volumes/KlaayGuard` mount" (lib.rs:5050) and "ALWAYS
  detach the volume" (5198): where hdiutil's output names no mount point (5189-5194) nothing
  detaches it, and a refused forced detach (5065-5067) is ignored. `CopiesItsOwnImage` shows
  that the volumes left do no harm to a later update.
- "Without a tray the user has no way back to sign-in after a token expires, so open the
  window here, when it is needed" (lib.rs:2790): not within the debounce period of the last
  nudge, where the person has closed the window since or its build failed. `WayBack` excepts that.
- "Every path degrades to "unknown", never a false "no"" (lib.rs:458) is said of one check;
  the screen-lock check says "no" or "yes" of KDE and light-locker from the defaults where
  their files cannot be read (1273, 1373), as under Runs.
- "The app is only ever absent for one metadata rename" (lib.rs:5078): unless the
  agent dies between the two renames. `BackUnlessMishap` excepts that death.
- `LISTEN_TIMEOUT` is "how long the listener waits for the browser before giving up"
  (sign_in.rs:27): it bounds the read of an accepted connection, and the accept at
  :105 waits for good. `JobsRun` is stated of a pool that such sign-ins do not fill.
- `decide_device_identity`: "every later run must reuse the stored value"
  (lib.rs:2931): an identity in a keyring that did not answer is derived again and
  saved to the file, which from then on is read first. `KnownIsKept` is stated of
  stores that answered, and the ghost `slips` records where they did not.

## Not modelled, and why

- Linux and Windows autostart: one file or registry value written whole at start; there
  is no second step to be interrupted.
- Process entry, Sentry, logging, icons and the tray's texts: no state that another part reads.
- The comparison of version strings, the placeholder serials and other pure string
  functions, which the repository's tests cover.
- The Linux and NSIS installer scripts, the build and the release. The macOS
  postinstall script is part of LaunchAgent.
- Third-party code: the Tauri single-instance plugin, the keyring library, osquery,
  launchd, the NSIS installer and the desktops are modelled from what the code expects
  of them, where they are modelled at all, and are marked external in `PROJECT.json`.
