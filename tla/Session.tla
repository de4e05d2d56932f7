------------------------------- MODULE Session -------------------------------
(***************************************************************************)
(* The agent's session: the in-memory token and the name the tray shows    *)
(* (AppState in lib.rs), the stored token behind them, and every task that *)
(* touches them: sign-ins, sign-outs, the startup load, /me inquiries and  *)
(* the collection loop.                                                    *)
(*                                                                         *)
(* Each RwLock section of AppState is one clone, take or assignment, so    *)
(* one action is one critical section.  Network calls are a pair of states *)
(* with anything in between.  The credential store is one register here;   *)
(* CredentialStore opens it up.                                            *)
(***************************************************************************)
CONSTANTS
    Tokens,        \* tokens the API mints
    NoToken,
    People,        \* what /me answers as the holder's name
    NoName,
    HolderOf,      \* the person each token was minted for
    Revocable,     \* tokens the API may answer with 401 or 403
    StoreMayFail,  \* whether credential store calls may fail
    SignIns,       \* sign-in tasks that may be in flight at once
    SignOuts,      \* sign-out tasks that may be in flight at once
    Inquiries      \* /me inquiries that may be in flight at once

ASSUME SessionAssumption ==
    /\ NoToken \notin Tokens
    /\ NoName \notin People
    /\ HolderOf \in [Tokens -> People]
    /\ Revocable \subseteq Tokens
    /\ StoreMayFail \in BOOLEAN

VARIABLES
    auth_token,      \* AppState.auth_token
    user_label,      \* AppState.user_label
    token_acquired,  \* the permit of AppState.token_acquired
    stored,          \* the token a restart would find
    signIn,          \* open_sign_in + adopt_token, per task
    signOut,         \* sign_out_with, per task
    startup,         \* startup_blocking_work
    inquiry,         \* refresh_identity, per task
    loop,            \* spawn_background_loop + run_cycle
    due,             \* the interval's tick is ready
    menu             \* the tray menu may show "Sign out"

vars == <<auth_token, user_label, token_acquired, stored, signIn, signOut,
          startup, inquiry, loop, due, menu>>

MaybeToken == Tokens \cup {NoToken}
MaybeName  == People \cup {NoName}

\* What /me may answer for t: its holder, or nobody it could name.
LabelsFor(t) == {NoName, HolderOf[t]}

Task(pc, t)         == [pc |-> pc, token |-> t]
SignInTask(pc, t, l) == [pc |-> pc, token |-> t, label |-> l]

SignInIdle  == SignInTask("idle", NoToken, NoName)
InquiryIdle == Task("idle", NoToken)

SignInStates ==
    [pc : {"idle", "browser"}, token : {NoToken}, label : {NoName}]
      \cup [pc : {"asking", "notify", "save"}, token : Tokens, label : {NoName}]
      \cup [pc : {"label"}, token : Tokens, label : MaybeName]

SignOutStates == {"idle", "token", "label", "delete"}

StartupStates ==
    [pc : {"load", "notify", "refresh", "done"}, token : {NoToken}]
      \cup [pc : {"take"}, token : Tokens]

InquiryStates ==
    [pc : {"idle", "spawned"}, token : {NoToken}] \cup [pc : {"asking"}, token : Tokens]

LoopStates ==
    [pc : {"wait", "select", "cycle", "clearLabel"}, token : {NoToken}]
      \cup [pc : {"config", "post", "clearToken"}, token : Tokens]

TypeOK ==
    /\ auth_token \in MaybeToken
    /\ user_label \in MaybeName
    /\ token_acquired \in BOOLEAN
    /\ stored \in MaybeToken
    /\ signIn \in [SignIns -> SignInStates]
    /\ signOut \in [SignOuts -> SignOutStates]
    /\ startup \in StartupStates
    /\ inquiry \in [Inquiries -> InquiryStates]
    /\ loop \in LoopStates
    /\ due \in BOOLEAN
    /\ menu \in BOOLEAN

NoSignIns  == [s \in SignIns |-> SignInIdle]
NoSignOuts == [o \in SignOuts |-> "idle"]
NoInquiries == [i \in Inquiries |-> InquiryIdle]

\* A process that has just started; the stored token is whatever an earlier
\* one left.
Init ==
    /\ stored \in MaybeToken
    /\ auth_token = NoToken
    /\ user_label = NoName
    /\ token_acquired = FALSE
    /\ signIn = NoSignIns
    /\ signOut = NoSignOuts
    /\ startup = Task("load", NoToken)
    /\ inquiry = NoInquiries
    /\ loop = Task("wait", NoToken)
    /\ due = FALSE
    /\ menu = FALSE

-----------------------------------------------------------------------------
(* Sign-in: a click on "Sign in", or the nudge of a signed-out agent.      *)

\* The tray shows "Sign in" while it was last drawn signed out, the nudge
\* (notify_signin_needed) opens the flow while no token is held, and the Linux
\* fallback window offers it at any time: no guard on the session is left.
OpenSignIn(s) ==
    /\ signIn[s].pc = "idle"
    /\ signIn' = [signIn EXCEPT ![s] = SignInTask("browser", NoToken, NoName)]
    /\ UNCHANGED <<auth_token, user_label, token_acquired, stored, signOut,
                   startup, inquiry, loop, due, menu>>

\* The request could not be registered, the browser never came back, or the
\* claim was refused.
SignInAbandoned(s) ==
    /\ signIn[s].pc = "browser"
    /\ signIn' = [signIn EXCEPT ![s] = SignInIdle]
    /\ UNCHANGED <<auth_token, user_label, token_acquired, stored, signOut,
                   startup, inquiry, loop, due, menu>>

\* claim() returned a token; adopt_token asks /me about it.
TokenClaimed(s) ==
    /\ signIn[s].pc = "browser"
    /\ \E t \in Tokens :
          signIn' = [signIn EXCEPT ![s] = SignInTask("asking", t, NoName)]
    /\ UNCHANGED <<auth_token, user_label, token_acquired, stored, signOut,
                   startup, inquiry, loop, due, menu>>

\* /me rejects the new token: it is dropped and nothing else changes.
SignInRejected(s) ==
    /\ signIn[s].pc = "asking"
    /\ signIn[s].token \in Revocable
    /\ signIn' = [signIn EXCEPT ![s] = SignInIdle]
    /\ UNCHANGED <<auth_token, user_label, token_acquired, stored, signOut,
                   startup, inquiry, loop, due, menu>>

\* adopt_session, first write.  /me accepted with a label, accepted without
\* one, or gave no conclusive answer (no label either).
AdoptToken(s) ==
    /\ signIn[s].pc = "asking"
    /\ auth_token' = signIn[s].token
    /\ \E l \in LabelsFor(signIn[s].token) :
          signIn' = [signIn EXCEPT ![s] = SignInTask("label", signIn[s].token, l)]
    /\ UNCHANGED <<user_label, token_acquired, stored, signOut, startup,
                   inquiry, loop, due, menu>>

\* Bug: an answer without a name leaves the last holder's name in place.
AdoptLabelIfNamed(s) ==
    /\ signIn[s].pc = "label"
    /\ user_label' = IF signIn[s].label = NoName THEN user_label ELSE signIn[s].label
    /\ signIn' = [signIn EXCEPT ![s] = SignInTask("notify", signIn[s].token, NoName)]
    /\ UNCHANGED <<auth_token, token_acquired, stored, signOut, startup,
                   inquiry, loop, due, menu>>

\* adopt_session, second write.
AdoptLabel(s) ==
    /\ signIn[s].pc = "label"
    /\ user_label' = signIn[s].label
    /\ signIn' = [signIn EXCEPT ![s] = SignInTask("notify", signIn[s].token, NoName)]
    /\ UNCHANGED <<auth_token, token_acquired, stored, signOut, startup,
                   inquiry, loop, due, menu>>

\* Bug: notify_waiters(), which leaves no permit for a loop in mid-cycle.
NotifyWaiters(s) ==
    /\ signIn[s].pc = "notify"
    /\ token_acquired' = (token_acquired \/ loop.pc = "select")
    /\ signIn' = [signIn EXCEPT ![s] = SignInTask("save", signIn[s].token, NoName)]
    /\ UNCHANGED <<auth_token, user_label, stored, signOut, startup, inquiry,
                   loop, due, menu>>

\* token_acquired.notify_one(): the permit is kept if the loop is not waiting.
NotifyAdopted(s) ==
    /\ signIn[s].pc = "notify"
    /\ token_acquired' = TRUE
    /\ signIn' = [signIn EXCEPT ![s] = SignInTask("save", signIn[s].token, NoName)]
    /\ UNCHANGED <<auth_token, user_label, stored, signOut, startup, inquiry,
                   loop, due, menu>>

\* keychain::save_token on the blocking pool.
SaveToken(s) ==
    /\ signIn[s].pc = "save"
    /\ \/ stored' = signIn[s].token
       \/ StoreMayFail /\ UNCHANGED stored
    /\ signIn' = [signIn EXCEPT ![s] = SignInIdle]
    /\ UNCHANGED <<auth_token, user_label, token_acquired, signOut, startup,
                   inquiry, loop, due, menu>>

-----------------------------------------------------------------------------
(* Sign-out: a click on "Sign out", which the menu shows for a held token.  *)

ClickSignOut(o) ==
    /\ signOut[o] = "idle"
    /\ menu
    /\ signOut' = [signOut EXCEPT ![o] = "token"]
    /\ UNCHANGED <<auth_token, user_label, token_acquired, stored, signIn,
                   startup, inquiry, loop, due, menu>>

\* clear_session, first write.
SignOutToken(o) ==
    /\ signOut[o] = "token"
    /\ auth_token' = NoToken
    /\ signOut' = [signOut EXCEPT ![o] = "label"]
    /\ UNCHANGED <<user_label, token_acquired, stored, signIn, startup,
                   inquiry, loop, due, menu>>

\* clear_session, second write.
SignOutLabel(o) ==
    /\ signOut[o] = "label"
    /\ user_label' = NoName
    /\ signOut' = [signOut EXCEPT ![o] = "delete"]
    /\ UNCHANGED <<auth_token, token_acquired, stored, signIn, startup,
                   inquiry, loop, due, menu>>

\* keychain::delete_token.  The refresh_tray after it reads what the clock may
\* read as well.
DeleteStored(o) ==
    /\ signOut[o] = "delete"
    /\ \/ stored' = NoToken
       \/ StoreMayFail /\ UNCHANGED stored
    /\ signOut' = [signOut EXCEPT ![o] = "idle"]
    /\ UNCHANGED <<auth_token, user_label, token_acquired, signIn, startup,
                   inquiry, loop, due, menu>>

-----------------------------------------------------------------------------
(* Startup: load the stored token off the main thread and take it up.      *)

LoadToken ==
    /\ startup.pc = "load"
    /\ \/ /\ stored # NoToken
          /\ startup' = Task("take", stored)
       \/ /\ stored = NoToken \/ StoreMayFail
          /\ startup' = Task("done", NoToken)
    /\ UNCHANGED <<auth_token, user_label, token_acquired, stored, signIn,
                   signOut, inquiry, loop, due, menu>>

\* The token alone is written; the label is left as it is.
TakeLoadedToken ==
    /\ startup.pc = "take"
    /\ auth_token' = startup.token
    /\ startup' = Task("notify", NoToken)
    /\ UNCHANGED <<user_label, token_acquired, stored, signIn, signOut,
                   inquiry, loop, due, menu>>

NotifyLoaded ==
    /\ startup.pc = "notify"
    /\ token_acquired' = TRUE
    /\ startup' = Task("refresh", NoToken)
    /\ UNCHANGED <<auth_token, user_label, stored, signIn, signOut, inquiry,
                   loop, due, menu>>

Spawn(i) ==
    /\ inquiry[i].pc = "idle"
    /\ inquiry' = [inquiry EXCEPT ![i] = Task("spawned", NoToken)]

\* refresh_identity: a start with a stored token asks whose it is.
RefreshLoaded ==
    /\ startup.pc = "refresh"
    /\ \E i \in Inquiries : Spawn(i)
    /\ startup' = Task("done", NoToken)
    /\ UNCHANGED <<auth_token, user_label, token_acquired, stored, signIn,
                   signOut, loop, due, menu>>

-----------------------------------------------------------------------------
(* Inquiries: refresh_identity, then name_holder_of on the answer.         *)

ReadHeldToken(i) ==
    /\ inquiry[i].pc = "spawned"
    /\ inquiry' = [inquiry EXCEPT ![i] =
                      IF auth_token = NoToken THEN InquiryIdle
                                              ELSE Task("asking", auth_token)]
    /\ UNCHANGED <<auth_token, user_label, token_acquired, stored, signIn,
                   signOut, startup, loop, due, menu>>

\* name_holder_of holds the token guard across the label write, so no token
\* write falls between its comparison and its write: one step.
NameHolder(i) ==
    /\ inquiry[i].pc = "asking"
    /\ auth_token = inquiry[i].token
    /\ user_label' \in LabelsFor(inquiry[i].token)
    /\ inquiry' = [inquiry EXCEPT ![i] = InquiryIdle]
    /\ UNCHANGED <<auth_token, token_acquired, stored, signIn, signOut,
                   startup, loop, due, menu>>

\* Bug: name_holder_of without its comparison.
LateAnswerNames(i) ==
    /\ inquiry[i].pc = "asking"
    /\ user_label' \in LabelsFor(inquiry[i].token)
    /\ inquiry' = [inquiry EXCEPT ![i] = InquiryIdle]
    /\ UNCHANGED <<auth_token, token_acquired, stored, signIn, signOut,
                   startup, loop, due, menu>>

\* The session the answer describes has ended.
AnswerTooLate(i) ==
    /\ inquiry[i].pc = "asking"
    /\ auth_token # inquiry[i].token
    /\ inquiry' = [inquiry EXCEPT ![i] = InquiryIdle]
    /\ UNCHANGED <<auth_token, user_label, token_acquired, stored, signIn,
                   signOut, startup, loop, due, menu>>

\* Rejected or Unknown: refresh_identity does nothing with either.
InquiryFails(i) ==
    /\ inquiry[i].pc = "asking"
    /\ inquiry' = [inquiry EXCEPT ![i] = InquiryIdle]
    /\ UNCHANGED <<auth_token, user_label, token_acquired, stored, signIn,
                   signOut, startup, loop, due, menu>>

-----------------------------------------------------------------------------
(* The collection loop.  Retries inside a request are steps that change    *)
(* nothing here; Collection has the ladder.                                *)

LoopAt(pc, t) ==
    /\ loop' = Task(pc, t)
    /\ UNCHANGED <<auth_token, user_label, token_acquired, stored, signIn,
                   signOut, startup, inquiry, due, menu>>

\* The three-second poll finds the first token; the interval is created and
\* its first tick is immediate.
FirstTokenSeen ==
    /\ loop.pc = "wait"
    /\ auth_token # NoToken
    /\ loop' = Task("select", NoToken)
    /\ due' = TRUE
    /\ UNCHANGED <<auth_token, user_label, token_acquired, stored, signIn,
                   signOut, startup, inquiry, menu>>

\* The period elapses.  Missed ticks are skipped: at most one is ready.
PeriodElapses ==
    /\ loop.pc # "wait"
    /\ ~due
    /\ due' = TRUE
    /\ UNCHANGED <<auth_token, user_label, token_acquired, stored, signIn,
                   signOut, startup, inquiry, loop, menu>>

WakeOnTick ==
    /\ loop.pc = "select"
    /\ due
    /\ due' = FALSE
    /\ loop' = Task("cycle", NoToken)
    /\ UNCHANGED <<auth_token, user_label, token_acquired, stored, signIn,
                   signOut, startup, inquiry, menu>>

\* notified() takes the permit; interval.reset() starts the period again.
WakeOnToken ==
    /\ loop.pc = "select"
    /\ token_acquired
    /\ token_acquired' = FALSE
    /\ due' = FALSE
    /\ loop' = Task("cycle", NoToken)
    /\ UNCHANGED <<auth_token, user_label, stored, signIn, signOut, startup,
                   inquiry, menu>>

\* Bug: run_cycle without its early return.
BeginCycleAnyway == loop.pc = "cycle" /\ LoopAt("config", auth_token)

BeginCycle == loop.pc = "cycle" /\ auth_token # NoToken /\ LoopAt("config", auth_token)

SkipCycle == loop.pc = "cycle" /\ auth_token = NoToken /\ LoopAt("select", NoToken)

\* Bug: no name_unnamed_holder.
ConfigAcceptedUnasked ==
    /\ loop.pc = "config"
    /\ LoopAt("post", loop.token)

\* The config request succeeded: name_unnamed_holder, then collect and post.
ConfigAccepted ==
    /\ loop.pc = "config"
    /\ loop' = Task("post", loop.token)
    /\ \/ user_label # NoName /\ UNCHANGED inquiry
       \/ user_label = NoName /\ \E i \in Inquiries : Spawn(i)
    /\ UNCHANGED <<auth_token, user_label, token_acquired, stored, signIn,
                   signOut, startup, due, menu>>

\* The config request failed other than by 401 or 403.
ConfigFails == loop.pc = "config" /\ LoopAt("select", NoToken)

\* An empty or unreadable config, nothing to send, or any answer to the POST
\* but 401 and 403.
CycleEnds == loop.pc = "post" /\ LoopAt("select", NoToken)

\* 401 or 403 to either request: invalidate_auth.
Refused ==
    /\ loop.pc \in {"config", "post"}
    /\ loop.token \in Revocable
    /\ LoopAt("clearToken", loop.token)

\* clear_session, first write: whatever token is held, not only loop.token.
InvalidateToken ==
    /\ loop.pc = "clearToken"
    /\ auth_token' = NoToken
    /\ loop' = Task("clearLabel", NoToken)
    /\ UNCHANGED <<user_label, token_acquired, stored, signIn, signOut,
                   startup, inquiry, due, menu>>

\* clear_session, second write.  The nudge that follows is OpenSignIn.
InvalidateLabel ==
    /\ loop.pc = "clearLabel"
    /\ user_label' = NoName
    /\ loop' = Task("select", NoToken)
    /\ UNCHANGED <<auth_token, token_acquired, stored, signIn, signOut,
                   startup, inquiry, due, menu>>

-----------------------------------------------------------------------------

\* The tray clock: refresh_tray reads the token and hands the menu it makes of
\* it to the main thread, which shows it some time later.  So from a reading
\* that found a token on the person may be shown "Sign out", whatever later
\* readings found; the name, read under a lock of its own, is display only.
RefreshTray ==
    /\ auth_token # NoToken
    /\ menu' = TRUE
    /\ UNCHANGED <<auth_token, user_label, token_acquired, stored, signIn,
                   signOut, startup, inquiry, loop, due>>

\* The process ends (quit, update, crash) and is started again.  Tasks in
\* flight are lost; only the credential store survives.
Restart ==
    /\ auth_token' = NoToken
    /\ user_label' = NoName
    /\ token_acquired' = FALSE
    /\ signIn' = NoSignIns
    /\ signOut' = NoSignOuts
    /\ startup' = Task("load", NoToken)
    /\ inquiry' = NoInquiries
    /\ loop' = Task("wait", NoToken)
    /\ due' = FALSE
    /\ menu' = FALSE
    /\ UNCHANGED stored

SignInStep(s) ==
    \/ OpenSignIn(s)  \/ SignInAbandoned(s) \/ TokenClaimed(s)
    \/ SignInRejected(s) \/ AdoptToken(s) \/ AdoptLabel(s)
    \/ NotifyAdopted(s) \/ SaveToken(s)

SignOutStep(o) ==
    ClickSignOut(o) \/ SignOutToken(o) \/ SignOutLabel(o) \/ DeleteStored(o)

StartupStep == LoadToken \/ TakeLoadedToken \/ NotifyLoaded \/ RefreshLoaded

InquiryStep(i) ==
    ReadHeldToken(i) \/ NameHolder(i) \/ AnswerTooLate(i) \/ InquiryFails(i)

LoopStep ==
    \/ FirstTokenSeen \/ PeriodElapses \/ WakeOnTick \/ WakeOnToken
    \/ BeginCycle \/ SkipCycle \/ ConfigAccepted \/ ConfigFails \/ CycleEnds
    \/ Refused \/ InvalidateToken \/ InvalidateLabel

Next ==
    \/ \E s \in SignIns : SignInStep(s)
    \/ \E o \in SignOuts : SignOutStep(o)
    \/ \E i \in Inquiries : InquiryStep(i)
    \/ StartupStep
    \/ LoopStep
    \/ RefreshTray
    \/ Restart

Spec == Init /\ [][Next]_vars

=============================================================================
