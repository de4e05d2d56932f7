-------------------------------- MODULE SignIn --------------------------------
(***************************************************************************)
(* How a signed-out agent gets its person to sign in: the nudge and its    *)
(* debounce (notify_signin_needed), the fallback window of a Linux desktop *)
(* without a tray, and the loopback sign-in of sign_in.rs, whose listener, *)
(* like the credential store's calls, runs on a thread of tokio's blocking *)
(* pool.  Session has what a sign-in does to the session; here the session *)
(* is only held or not.                                                    *)
(*                                                                         *)
(* Times are ages in ticks.  A tick is a part of the debounce period.      *)
(***************************************************************************)
EXTENDS Naturals, Sequences, FiniteSets

CONSTANTS
    SignIns,    \* sign-ins that may be under way at once
    SignOuts,   \* sign-outs that may be under way at once
    PoolSize,   \* threads of the blocking pool: 512 in tokio
    Debounce    \* ticks of the debounce period

ASSUME SignInAssumption ==
    /\ SignIns \cap SignOuts = {}
    /\ IsFiniteSet(SignIns) /\ IsFiniteSet(SignOuts)
    /\ PoolSize \in Nat \ {0}
    /\ Debounce \in Nat \ {0}

VARIABLES
    held,      \* AppState.auth_token is Some
    lastAge,   \* age of AppState.last_focus_at; FarPast if it is older or None
    caller,    \* notify_signin_needed, per caller: where it is, the age of its now
    task,      \* each sign-in and sign-out: where it is, what its browser sent
    queue,     \* jobs that wait for a thread, in order
    trayless,  \* no tray was built, or nothing on the desktop shows one
    window,    \* the fallback window is open
    excuse,    \* ghost: why no window is open, though a nudge would have opened one
    opened     \* ghost: ages of the latest nudges that started a sign-in

vars == <<held, lastAge, caller, task, queue, trayless, window, excuse, opened>>

Callers == {"startup", "loop"}
Tasks   == SignIns \cup SignOuts

\* Older than any period that is measured.
FarPast == 2 * Debounce - 1

\* The nudges that are remembered, latest first: one more than a period may
\* hold.  The age of one that is a period old or never was is Debounce.
MaxOpened == 5

CallerStates == {"load", "idle", "check", "debounce", "record", "open"}

\* The callers that have taken the time and not yet started a sign-in.
Nudging == {c \in Callers : caller[c].pc \in {"debounce", "record", "open"}}

SignInStates ==
    [pc : {"idle", "starting", "listenQueued", "accepting", "claiming", "saveQueued", "saving"},
     sent : {"nothing"}]
      \cup [pc : {"reading"}, sent : {"code", "noCode", "silence"}]

SignOutStates == [pc : {"idle", "clearQueued", "clearing"}, sent : {"nothing"}]

TypeOK ==
    /\ held \in BOOLEAN
    /\ lastAge \in 0..FarPast
    /\ caller \in [Callers -> [pc : CallerStates, now : 0..(Debounce - 1)]]
    /\ task \in [Tasks -> SignInStates \cup SignOutStates]
    /\ \A s \in SignIns : task[s] \in SignInStates
    /\ \A o \in SignOuts : task[o] \in SignOutStates
    /\ queue \in Seq(Tasks)
    /\ trayless \in BOOLEAN
    /\ window \in BOOLEAN
    /\ excuse \in {"none", "closed", "failed"}
    /\ opened \in [1..MaxOpened -> 0..Debounce]

At(t, pc)         == task[t].pc = pc
State(pc, sent)   == [pc |-> pc, sent |-> sent]
Goto(t, pc)       == task' = [task EXCEPT ![t] = State(pc, "nothing")]
CallerAt(c, pc)   == caller[c].pc = pc
CallerGoto(c, pc) ==
    caller' = [caller EXCEPT ![c] = [pc |-> pc, now |-> IF pc = "idle" THEN 0 ELSE @.now]]

\* The tasks that hold a thread of the pool.
OnThread == {t \in Tasks : task[t].pc \in {"accepting", "reading", "saving", "clearing"}}

session == <<held>>
nudging == <<lastAge, caller, excuse, opened>>
desktop == <<trayless, window>>

\* A process that has just been set up.  Without any tray the window is open
\* before the stored token is read; with one that nobody shows, it is not.
Init ==
    /\ held = FALSE
    /\ lastAge = FarPast
    /\ caller = [c \in Callers |-> [pc |-> IF c = "startup" THEN "load" ELSE "idle",
                                    now |-> 0]]
    /\ task = [t \in Tasks |-> State("idle", "nothing")]
    /\ queue = <<>>
    /\ trayless \in BOOLEAN
    /\ window \in {FALSE, trayless}
    /\ excuse = "none"
    /\ opened = [n \in 1..MaxOpened |-> Debounce]

-----------------------------------------------------------------------------
(* What calls for a nudge, and the nudge.                                  *)

\* startup_blocking_work: the stored token is taken up, or there is none.
StartupLoads ==
    /\ CallerAt("startup", "load")
    /\ \/ held' = TRUE /\ CallerGoto("startup", "idle")
       \/ UNCHANGED held /\ CallerGoto("startup", "check")
    /\ UNCHANGED <<lastAge, task, queue, desktop, excuse, opened>>

\* A 401 or 403: the session ends in memory, and the loop nudges.  Where the
\* last nudge is a period old, this one owes the person a window.
ApiRefuses ==
    /\ CallerAt("loop", "idle")
    /\ held
    /\ held' = FALSE
    /\ CallerGoto("loop", "check")
    /\ excuse' = IF lastAge >= Debounce THEN "none" ELSE excuse
    /\ UNCHANGED <<lastAge, task, queue, desktop, opened>>

\* A no-op with a token; otherwise the time is taken.
CheckToken(c) ==
    /\ CallerAt(c, "check")
    /\ caller' = [caller EXCEPT ![c] = [pc |-> IF held THEN "idle" ELSE "debounce",
                                        now |-> 0]]
    /\ UNCHANGED <<session, lastAge, task, queue, desktop, excuse, opened>>

\* now.duration_since(prev), which is zero if prev is the later one.
SinceLast(c) == IF lastAge > caller[c].now THEN lastAge - caller[c].now ELSE 0

\* Bug: the debounce counts from the last nudge that was dropped, too.
DebounceFromDropped(c) ==
    /\ CallerAt(c, "debounce")
    /\ CallerGoto(c, IF SinceLast(c) >= Debounce THEN "record" ELSE "idle")
    /\ lastAge' = caller[c].now
    /\ UNCHANGED <<session, task, queue, desktop, excuse, opened>>

\* The read lock: a nudge was recorded within the period, and this one is
\* dropped for good, its window with it, or it goes on.
CheckDebounce(c) ==
    /\ CallerAt(c, "debounce")
    /\ CallerGoto(c, IF SinceLast(c) >= Debounce THEN "record" ELSE "idle")
    /\ UNCHANGED <<session, lastAge, task, queue, desktop, excuse, opened>>

\* Bug: the time of the nudge is not recorded.
RecordNothing(c) ==
    /\ CallerAt(c, "record")
    /\ CallerGoto(c, "open")
    /\ UNCHANGED <<session, lastAge, task, queue, desktop, excuse, opened>>

\* The write lock, taken apart from the read: the time recorded may be older
\* than one another caller has recorded since.
Record(c) ==
    /\ CallerAt(c, "record")
    /\ lastAge' = caller[c].now
    /\ CallerGoto(c, "open")
    /\ UNCHANGED <<session, task, queue, desktop, excuse, opened>>

\* open_sign_in spawns a sign-in; where no slot is left in the model, it is
\* one that could not be started.  The browser follows once the server has
\* answered the sign-in's request, so a slow server may bunch two of them.
OpenBrowser ==
    \/ \E s \in SignIns : At(s, "idle") /\ Goto(s, "starting")
    \/ (\A s \in SignIns : ~At(s, "idle")) /\ UNCHANGED task

CountOpened ==
    opened' = [n \in 1..MaxOpened |-> IF n = 1 THEN 0 ELSE opened[n - 1]]

\* Where no tray was built or none is shown, the window: fallback_window_needed,
\* signed out.  Only one can carry the label.  A build that fails is logged.
OpenWindow ==
    \/ ~trayless /\ UNCHANGED <<window, excuse>>
    \/ trayless /\ window' = TRUE /\ excuse' = "none"
    \/ trayless /\ ~window /\ excuse' = "failed" /\ UNCHANGED window

\* The browser, and the window.
Nudge(c) ==
    /\ CallerAt(c, "open")
    /\ OpenBrowser
    /\ CountOpened
    /\ OpenWindow
    /\ CallerGoto(c, "idle")
    /\ UNCHANGED <<session, lastAge, queue, trayless>>

\* The exit that the last window's close asks for is vetoed: the agent goes on.
CloseWindow ==
    /\ window
    /\ window' = FALSE
    /\ excuse' = "closed"
    /\ UNCHANGED <<session, lastAge, caller, task, queue, trayless, opened>>

-----------------------------------------------------------------------------
(* The loopback sign-in.                                                   *)

\* The tray's item, or the window's button.
ClickSignIn(s) ==
    /\ ~trayless \/ window
    /\ At(s, "idle")
    /\ Goto(s, "starting")
    /\ UNCHANGED <<session, nudging, queue, desktop>>

\* A port is bound, the request is registered with the server, and its link
\* goes to the clipboard, a notification and the browser: a new window, else a
\* tab, else the opener plugin.  All of that may fail unnoticed, and the
\* listener waits for a thread all the same.
StartSucceeds(s) ==
    /\ At(s, "starting")
    /\ Goto(s, "listenQueued")
    /\ queue' = Append(queue, s)
    /\ UNCHANGED <<session, nudging, desktop>>

\* No port, no randomness, no server, or a reply that names no request.
StartFails(s) ==
    /\ At(s, "starting")
    /\ Goto(s, "idle")
    /\ UNCHANGED <<session, nudging, queue, desktop>>

\* The pool starts the job that has waited longest.
TakeThread ==
    /\ queue # <<>>
    /\ Cardinality(OnThread) < PoolSize
    /\ LET t == Head(queue) IN
          task' = [task EXCEPT ![t].pc =
                      CASE @ = "listenQueued" -> "accepting"
                        [] @ = "saveQueued"   -> "saving"
                        [] @ = "clearQueued"  -> "clearing"]
    /\ queue' = Tail(queue)
    /\ UNCHANGED <<session, nudging, desktop>>

\* wait_for_code accepts one connection, from the browser that was shown the
\* link or from anything else that finds the port; it has no deadline.
Accept(s) ==
    /\ At(s, "accepting")
    /\ \E sent \in {"code", "noCode", "silence"} :
          task' = [task EXCEPT ![s] = State("reading", sent)]
    /\ UNCHANGED <<session, nudging, queue, desktop>>

\* Bug: the accepted stream has no read timeout.
ReadWithoutTimeout(s) ==
    /\ At(s, "reading")
    /\ task[s].sent # "silence"
    /\ Goto(s, IF task[s].sent = "code" THEN "claiming" ELSE "idle")
    /\ UNCHANGED <<session, nudging, queue, desktop>>

\* Bug: a request without a code is kept while the next is waited for.
ReadOn(s) ==
    /\ At(s, "reading")
    /\ task' = [task EXCEPT ![s].pc =
                   IF task[s].sent = "code" THEN "claiming" ELSE "accepting"]
    /\ UNCHANGED <<session, nudging, queue, desktop>>

\* The request line is read, or the read timeout passes; the listener and its
\* thread are given back.
Read(s) ==
    /\ At(s, "reading")
    /\ Goto(s, IF task[s].sent = "code" THEN "claiming" ELSE "idle")
    /\ UNCHANGED <<session, nudging, queue, desktop>>

\* The server refuses the claim, or the API rejects the token it gave.
ClaimFails(s) ==
    /\ At(s, "claiming")
    /\ Goto(s, "idle")
    /\ UNCHANGED <<session, nudging, queue, desktop>>

\* claim, then adopt_token: the token is taken up and its save waits for a
\* thread.
Adopt(s) ==
    /\ At(s, "claiming")
    /\ held' = TRUE
    /\ Goto(s, "saveQueued")
    /\ queue' = Append(queue, s)
    /\ UNCHANGED <<nudging, desktop>>

Saved(s) ==
    /\ At(s, "saving")
    /\ Goto(s, "idle")
    /\ UNCHANGED <<session, nudging, queue, desktop>>

\* handle_sign_out_click, from the tray of a signed-in agent.
ClickSignOut(o) ==
    /\ held
    /\ ~trayless
    /\ At(o, "idle")
    /\ Goto(o, "clearQueued")
    /\ queue' = Append(queue, o)
    /\ UNCHANGED <<session, nudging, desktop>>

SignedOut(o) ==
    /\ At(o, "clearing")
    /\ held' = FALSE
    /\ Goto(o, "idle")
    /\ UNCHANGED <<nudging, queue, desktop>>

\* Time passes.  No caller is held up between its now and its browser for a
\* whole debounce period.
Tick ==
    /\ \A c \in Nudging : caller[c].now < Debounce - 1
    /\ lastAge' = IF lastAge < FarPast THEN lastAge + 1 ELSE FarPast
    /\ caller' = [c \in Callers |->
                    IF c \in Nudging THEN [caller[c] EXCEPT !.now = @ + 1] ELSE caller[c]]
    /\ opened' = [n \in 1..MaxOpened |->
                    IF opened[n] < Debounce THEN opened[n] + 1 ELSE Debounce]
    /\ UNCHANGED <<session, task, queue, desktop, excuse>>

-----------------------------------------------------------------------------

NudgeStep(c) ==
    CheckToken(c) \/ CheckDebounce(c) \/ Record(c) \/ Nudge(c)

SignInStep(s) ==
    \/ ClickSignIn(s) \/ StartSucceeds(s) \/ StartFails(s) \/ Accept(s)
    \/ Read(s) \/ ClaimFails(s) \/ Adopt(s) \/ Saved(s)

Next ==
    \/ StartupLoads \/ ApiRefuses \/ CloseWindow \/ TakeThread \/ Tick
    \/ \E c \in Callers : NudgeStep(c)
    \/ \E s \in SignIns : SignInStep(s)
    \/ \E o \in SignOuts : ClickSignOut(o) \/ SignedOut(o)

Spec == Init /\ [][Next]_vars

\* The program's own steps, network calls and calls of the credential store
\* included, end.  Nobody has to come back from the browser.
Fairness ==
    /\ WF_vars(TakeThread)
    /\ \A s \in SignIns :
          WF_vars(StartSucceeds(s) \/ StartFails(s) \/ Read(s) \/ ClaimFails(s)
                    \/ Adopt(s) \/ Saved(s))
    /\ \A o \in SignOuts : WF_vars(SignedOut(o))

FairSpec == Spec /\ Fairness

-----------------------------------------------------------------------------
(* Safety.                                                                 *)

\* Within one debounce period at most four sign-ins are started unasked, each of
\* which opens a browser: by the startup's nudge, by two of the loop's, the first
\* of which was slow, and by a third where the startup wrote an older time over
\* the second's.
NudgesBounded == opened[MaxOpened] = Debounce

\* On a desktop without a tray, an agent that is signed out and has done what it
\* does about it shows the window, though the debounce may have dropped the last
\* nudge: unless its build failed, or the person closed it and the session has
\* not ended since, or has ended again within the debounce period.
WayBack ==
    /\ trayless
    /\ ~held
    /\ \A c \in Callers : CallerAt(c, "idle")
    => window \/ excuse # "none"

-----------------------------------------------------------------------------
(* Liveness.                                                               *)

Accepting == {s \in SignIns : At(s, "accepting")}

\* While the sign-ins nobody comes back to leave one thread of the pool, every
\* job that waits for a thread gets one: a claimed token is saved, a sign-out
\* happens, a new sign-in listens.
JobsRun ==
    []<>(Cardinality(Accepting) < PoolSize) =>
        \A t \in Tasks :
            []<>(task[t].pc \notin {"listenQueued", "saveQueued", "clearQueued"})

=============================================================================
