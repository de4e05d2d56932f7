-------------------------- MODULE SessionProperties --------------------------
(***************************************************************************)
(* What the session promises.  The safety properties are about what is     *)
(* left once concurrent changes of the session have settled.  What the     *)
(* tray names holds while the two writes of a sign-in keep apart from      *)
(* those of the other changes (WritesApartSpec) and not under Spec:        *)
(* adopt_session and clear_session take two locks in turn, and nothing     *)
(* orders one task after another.  What the store keeps is stated of Spec. *)
(***************************************************************************)
EXTENDS Session

Loaded == startup.pc \notin {"load", "take"}

\* Some task has done the first of the two writes of a session change.
BetweenWrites ==
    \/ \E s \in SignIns : signIn[s].pc = "label"
    \/ \E o \in SignOuts : signOut[o] = "label"
    \/ loop.pc = "clearLabel"

\* Some task has changed the session and not yet the store behind it.
Adopting(s) == signIn[s].pc \in {"label", "notify", "save"}
Clearing(o) == signOut[o] \in {"label", "delete"}
Changing ==
    \/ \E s \in SignIns : Adopting(s)
    \/ \E o \in SignOuts : Clearing(o)
    \/ loop.pc = "clearLabel"

-----------------------------------------------------------------------------
(* The schedule under which the tray's names hold.                         *)

\* The two writes of a sign-in fall into those of no other session change,
\* and follow the startup load.  Sign-outs and 401s may overlap freely.
WritesApart ==
    \A s \in SignIns : signIn[s].pc = "label" =>
        /\ Loaded
        /\ \A r \in SignIns : signIn[r].pc = "label" => r = s
        /\ \A o \in SignOuts : signOut[o] # "label"
        /\ loop.pc # "clearLabel"

WritesApartSpec == Init /\ [][Next /\ WritesApart']_vars

-----------------------------------------------------------------------------
(* Safety.                                                                 *)

\* Once every session change has done both its writes, a signed-out agent
\* names nobody: clear_session against name_holder_of and adopt_session.
NamelessWhenSignedOut ==
    ~BetweenWrites /\ auth_token = NoToken => user_label = NoName

\* Once every session change has done both its writes, a signed-in agent
\* names the holder of the token it reports with, or nobody.
NamedByItsToken ==
    ~BetweenWrites /\ auth_token # NoToken => user_label \in LabelsFor(auth_token)

\* lib.rs:4373: a sign-out that is over, with no other change under way, leaves
\* nothing for the next start to sign in with.  Stated where no store fails and
\* the API revokes nothing: a 401 leaves the stored token on purpose.
NothingLeftBehind ==
    ~Changing /\ Loaded /\ auth_token = NoToken => stored = NoToken

\* A 401 ends the session of the token it was an answer to, or none: the
\* token in memory may have changed since the cycle read it.
EndsOnlyRefused ==
    [][loop.pc = "clearToken" /\ loop'.pc = "clearLabel"
         => auth_token \in {loop.token, NoToken}]_vars

-----------------------------------------------------------------------------
(* Liveness.                                                               *)

\* Tasks run and requests end: tokio polls a woken task, every request has a
\* deadline (http_client), the store answers.  Nothing is assumed of users,
\* of restarts, or of the interval.
Fairness ==
    /\ \A s \in SignIns :
          WF_vars(AdoptLabel(s) \/ NotifyAdopted(s) \/ SaveToken(s))
    /\ WF_vars(StartupStep)
    /\ \A i \in Inquiries : WF_vars(InquiryStep(i))
    /\ WF_vars(FirstTokenSeen)
    /\ WF_vars(WakeOnTick \/ WakeOnToken)
    /\ WF_vars(BeginCycle \/ SkipCycle)
    /\ WF_vars(ConfigAccepted \/ ConfigFails \/ CycleEnds \/ Refused)
    /\ WF_vars(InvalidateToken \/ InvalidateLabel)

FairSpec == Spec /\ Fairness

\* A session taken up is collected for without waiting for the interval,
\* unless it is over first: the permit is never lost, even when the token
\* arrives in the middle of another session's cycle.
CollectsAtOnce ==
    \A t \in Tokens :
        (\/ \E s \in SignIns : signIn[s].pc = "label" /\ signIn[s].token = t
                               /\ auth_token = t
         \/ startup.pc = "notify" /\ auth_token = t)
        ~> (auth_token # t \/ (loop.pc = "config" /\ loop.token = t))

\* The periods go on elapsing, config requests go on succeeding, and /me goes
\* on naming the holder it is asked about.
NamingFairness ==
    /\ WF_vars(PeriodElapses)
    /\ SF_vars(ConfigAccepted)
    /\ \A i \in Inquiries : SF_vars(NameHolder(i) /\ user_label' # NoName)

\* A blip at /me costs a session its name only until a later cycle: where the
\* API goes on answering, an unnamed session is named in the end, or is over.
NamedInTheEnd ==
    NamingFairness =>
        \A t \in Tokens : auth_token = t ~> (auth_token # t \/ user_label # NoName)

=============================================================================
