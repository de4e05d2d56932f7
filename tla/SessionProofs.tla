---------------------------- MODULE SessionProofs ----------------------------
(***************************************************************************)
(* Proofs about Session for any tokens, people and numbers of tasks: type  *)
(* correctness and, under every interleaving, that a session is owed a     *)
(* cycle until one begins with it; and what the tray names, under the      *)
(* schedule that SessionProperties states for it.                          *)
(***************************************************************************)
EXTENDS SessionProperties, TLAPS

-----------------------------------------------------------------------------
(* Reading and writing the record of one task.                             *)

\* What a sign-in record holds at each point of its run.
LEMMA SignInType ==
    ASSUME NEW r \in SignInStates
    PROVE  /\ r.pc \in {"idle", "browser", "asking", "label", "notify", "save"}
           /\ r.pc \in {"asking", "label", "notify", "save"} => r.token \in Tokens
           /\ r.label \in MaybeName
  BY DEF SignInStates, MaybeName

\* The records the sign-in actions write are sign-in records.
LEMMA SignInTyped ==
    /\ SignInIdle \in SignInStates
    /\ SignInTask("browser", NoToken, NoName) \in SignInStates
    /\ \A t \in Tokens :
          /\ SignInTask("asking", t, NoName) \in SignInStates
          /\ SignInTask("notify", t, NoName) \in SignInStates
          /\ SignInTask("save", t, NoName) \in SignInStates
          /\ \A l \in MaybeName : SignInTask("label", t, l) \in SignInStates
  BY DEF SignInStates, SignInTask, SignInIdle

\* The records of the startup thread, the inquiries and the loop.
LEMMA TaskTyped ==
    /\ \A p \in {"load", "notify", "refresh", "done"} : Task(p, NoToken) \in StartupStates
    /\ \A t \in Tokens : Task("take", t) \in StartupStates
    /\ InquiryIdle \in InquiryStates
    /\ Task("spawned", NoToken) \in InquiryStates
    /\ \A t \in Tokens : Task("asking", t) \in InquiryStates
    /\ \A p \in {"wait", "select", "cycle", "clearLabel"} : Task(p, NoToken) \in LoopStates
    /\ \A t \in Tokens, p \in {"config", "post", "clearToken"} : Task(p, t) \in LoopStates
  BY DEF StartupStates, InquiryStates, LoopStates, Task, InquiryIdle

\* A startup, inquiry or loop record that carries a token carries a real one.
LEMMA TaskType ==
    /\ \A r \in StartupStates : r.pc = "take" => r.token \in Tokens
    /\ \A r \in InquiryStates : r.pc = "asking" => r.token \in Tokens
    /\ \A r \in LoopStates : r.pc \in {"config", "post", "clearToken"} => r.token \in Tokens
  BY DEF StartupStates, InquiryStates, LoopStates

\* What /me may answer is a name or none.
LEMMA LabelsTyped == \A t \in Tokens : LabelsFor(t) \subseteq MaybeName
  BY SessionAssumption DEF LabelsFor, MaybeName

-----------------------------------------------------------------------------
(* Type correctness.                                                       *)

LEMMA TypeInit == Init => TypeOK
  BY SignInTyped, TaskTyped
  DEF Init, TypeOK, MaybeToken, MaybeName, SignOutStates, NoSignIns, NoSignOuts,
      NoInquiries

LEMMA TypeSignIn ==
    ASSUME TypeOK, NEW s \in SignIns, SignInStep(s)
    PROVE  TypeOK'
  <1> USE DEF TypeOK
  <1>r. signIn[s] \in SignInStates
    OBVIOUS
  <1>t. /\ signIn[s].pc \in {"asking", "label", "notify", "save"} => signIn[s].token \in Tokens
        /\ signIn[s].label \in MaybeName
    BY <1>r, SignInType
  <1>1. CASE OpenSignIn(s)
    BY <1>1, SignInTyped DEF OpenSignIn
  <1>2. CASE SignInAbandoned(s)
    BY <1>2, SignInTyped DEF SignInAbandoned
  <1>3. CASE TokenClaimed(s)
    BY <1>3, SignInTyped DEF TokenClaimed
  <1>4. CASE SignInRejected(s)
    BY <1>4, SignInTyped DEF SignInRejected
  <1>5. CASE AdoptToken(s)
    <2>1. signIn[s].token \in Tokens
      BY <1>5, <1>t DEF AdoptToken
    <2>2. PICK l \in LabelsFor(signIn[s].token) :
             signIn' = [signIn EXCEPT ![s] = SignInTask("label", signIn[s].token, l)]
      BY <1>5 DEF AdoptToken
    <2>3. SignInTask("label", signIn[s].token, l) \in SignInStates
      BY <2>1, <2>2, SignInTyped, LabelsTyped
    <2>4. signIn' \in [SignIns -> SignInStates]
      BY <2>2, <2>3
    <2> QED
      BY <1>5, <2>1, <2>4 DEF AdoptToken, MaybeToken
  <1>6. CASE AdoptLabel(s)
    BY <1>6, <1>t, SignInTyped DEF AdoptLabel
  <1>7. CASE NotifyAdopted(s)
    BY <1>7, <1>t, SignInTyped DEF NotifyAdopted
  <1>8. CASE SaveToken(s)
    BY <1>8, <1>t, SignInTyped DEF SaveToken, MaybeToken
  <1> QED
    BY <1>1, <1>2, <1>3, <1>4, <1>5, <1>6, <1>7, <1>8 DEF SignInStep

LEMMA TypeSignOut ==
    ASSUME TypeOK, NEW o \in SignOuts, SignOutStep(o)
    PROVE  TypeOK'
  BY DEF TypeOK, SignOutStep, ClickSignOut, SignOutToken, SignOutLabel,
         DeleteStored, SignOutStates, MaybeToken, MaybeName

LEMMA TypeStartup ==
    ASSUME TypeOK, StartupStep
    PROVE  TypeOK'
  <1> USE TaskTyped, TaskType DEF TypeOK
  <1>1. CASE LoadToken
    BY <1>1 DEF LoadToken, MaybeToken
  <1>2. CASE TakeLoadedToken
    BY <1>2 DEF TakeLoadedToken, MaybeToken
  <1>3. CASE NotifyLoaded
    BY <1>3 DEF NotifyLoaded
  <1>4. CASE RefreshLoaded
    BY <1>4 DEF RefreshLoaded, Spawn
  <1> QED
    BY <1>1, <1>2, <1>3, <1>4 DEF StartupStep

LEMMA TypeInquiry ==
    ASSUME TypeOK, NEW i \in Inquiries, InquiryStep(i)
    PROVE  TypeOK'
  <1> USE TaskTyped, TaskType DEF TypeOK
  <1>1. CASE ReadHeldToken(i)
    BY <1>1 DEF ReadHeldToken, MaybeToken
  <1>2. CASE NameHolder(i)
    <2>1. inquiry[i].token \in Tokens
      BY <1>2 DEF NameHolder
    <2>2. user_label' \in MaybeName
      BY <1>2, <2>1, LabelsTyped DEF NameHolder
    <2> QED
      BY <1>2, <2>2 DEF NameHolder
  <1>3. CASE AnswerTooLate(i)
    BY <1>3 DEF AnswerTooLate
  <1>4. CASE InquiryFails(i)
    BY <1>4 DEF InquiryFails
  <1> QED
    BY <1>1, <1>2, <1>3, <1>4 DEF InquiryStep

LEMMA TypeLoop ==
    ASSUME TypeOK, LoopStep
    PROVE  TypeOK'
  <1> USE TaskTyped, TaskType DEF TypeOK
  <1>1. CASE FirstTokenSeen
    BY <1>1 DEF FirstTokenSeen
  <1>2. CASE PeriodElapses
    BY <1>2 DEF PeriodElapses
  <1>3. CASE WakeOnTick
    BY <1>3 DEF WakeOnTick
  <1>4. CASE WakeOnToken
    BY <1>4 DEF WakeOnToken
  <1>5. CASE BeginCycle
    BY <1>5 DEF BeginCycle, LoopAt, MaybeToken
  <1>6. CASE SkipCycle
    BY <1>6 DEF SkipCycle, LoopAt
  <1>7. CASE ConfigAccepted
    <2>1. inquiry' \in [Inquiries -> InquiryStates]
      BY <1>7 DEF ConfigAccepted, Spawn
    <2> QED
      BY <1>7, <2>1 DEF ConfigAccepted
  <1>8. CASE ConfigFails
    BY <1>8 DEF ConfigFails, LoopAt
  <1>9. CASE CycleEnds
    BY <1>9 DEF CycleEnds, LoopAt
  <1>10. CASE Refused
    BY <1>10 DEF Refused, LoopAt
  <1>11. CASE InvalidateToken
    BY <1>11 DEF InvalidateToken, MaybeToken
  <1>12. CASE InvalidateLabel
    BY <1>12 DEF InvalidateLabel, MaybeName
  <1> QED
    BY <1>1, <1>2, <1>3, <1>4, <1>5, <1>6, <1>7, <1>8, <1>9, <1>10, <1>11, <1>12
    DEF LoopStep

LEMMA TypeRestart == ASSUME TypeOK, Restart PROVE TypeOK'
  BY SignInTyped, TaskTyped
  DEF Restart, TypeOK, MaybeToken, MaybeName, SignOutStates, NoSignIns,
      NoSignOuts, NoInquiries

LEMMA TypeNext == TypeOK /\ [Next]_vars => TypeOK'
  <1> SUFFICES ASSUME TypeOK, [Next]_vars
               PROVE  TypeOK'
    OBVIOUS
  <1>1. CASE RefreshTray
    BY <1>1 DEF RefreshTray, TypeOK
  <1>2. CASE UNCHANGED vars
    BY <1>2 DEF vars, TypeOK
  <1> QED
    BY <1>1, <1>2, TypeSignIn, TypeSignOut, TypeStartup, TypeInquiry, TypeLoop,
       TypeRestart DEF Next

\* Every interleaving of the agent's tasks keeps the session's state well
\* formed; in particular a cycle always carries a token.
THEOREM TypeCorrect == Spec => []TypeOK
  BY TypeInit, TypeNext, PTL DEF Spec

-----------------------------------------------------------------------------
(* The name the tray shows, while the two writes of a sign-in keep apart   *)
(* from those of other session changes.                                    *)

\* Before the stored token is taken up, nobody is signed in or named.
NobodyUntilLoaded == ~Loaded => auth_token = NoToken /\ user_label = NoName

\* A sign-in between its writes: its token is the one in memory, and the
\* label it is about to write fits it.
AdoptionFits ==
    \A s \in SignIns : signIn[s].pc = "label" =>
        /\ auth_token = signIn[s].token
        /\ signIn[s].label \in LabelsFor(signIn[s].token)

\* Unless a sign-in is between its writes, the label fits the token; a label
\* may outlive its token only until the second write of a clear_session.
NameFits ==
    (\A s \in SignIns : signIn[s].pc # "label") =>
        /\ auth_token # NoToken => user_label \in LabelsFor(auth_token)
        /\ auth_token = NoToken => \/ user_label = NoName
                                  \/ (\E o \in SignOuts : signOut[o] = "label")
                                  \/ loop.pc = "clearLabel"

NamesInv == TypeOK /\ NobodyUntilLoaded /\ AdoptionFits /\ NameFits

LEMMA NamesInit == Init => NamesInv /\ WritesApart
  <1> SUFFICES ASSUME Init PROVE NamesInv /\ WritesApart
    OBVIOUS
  <1>1. \A s \in SignIns : signIn[s].pc = "idle"
    BY DEF Init, NoSignIns, SignInIdle, SignInTask
  <1> QED
    BY <1>1, TypeInit
    DEF Init, NamesInv, WritesApart, NobodyUntilLoaded, AdoptionFits, NameFits

\* Sign-ins: the two writes of adopt_session.
LEMMA NamesSignIn ==
    ASSUME NamesInv, WritesApart, WritesApart', TypeOK',
           NEW s \in SignIns, SignInStep(s)
    PROVE  NamesInv'
  <1> USE DEF NamesInv
  <1>r. /\ \A x \in SignIns : signIn[x] \in SignInStates
        /\ \A x \in SignIns : signIn'[x] \in SignInStates
    BY DEF TypeOK
  <1>1. CASE AdoptToken(s)
    <2>1. PICK l \in LabelsFor(signIn[s].token) :
             signIn' = [signIn EXCEPT ![s] = SignInTask("label", signIn[s].token, l)]
      BY <1>1 DEF AdoptToken
    <2>2. /\ signIn'[s].pc = "label"
          /\ signIn'[s].token = signIn[s].token
          /\ signIn'[s].label = l
      BY <2>1 DEF SignInTask, TypeOK
    <2>3. Loaded' /\ \A x \in SignIns : signIn'[x].pc = "label" => x = s
      BY <2>2 DEF WritesApart
    <2>4. auth_token' = signIn'[s].token
      BY <1>1, <2>2 DEF AdoptToken
    <2>5. AdoptionFits'
      BY <2>1, <2>2, <2>3, <2>4 DEF AdoptionFits, LabelsFor
    <2> QED
      BY <2>2, <2>3, <2>5 DEF NobodyUntilLoaded, NameFits
  <1>2. CASE AdoptLabel(s)
    <2>1. /\ signIn[s].pc = "label" /\ Loaded
          /\ \A x \in SignIns : signIn[x].pc = "label" => x = s
      BY <1>2 DEF AdoptLabel, WritesApart
    <2>2. /\ \A x \in SignIns : signIn'[x].pc # "label"
          /\ signIn[s].token \in Tokens
      BY <1>2, <1>r, <2>1, SignInType DEF AdoptLabel, SignInTask, TypeOK
    <2>3. auth_token' = signIn[s].token /\ user_label' \in LabelsFor(auth_token')
      BY <1>2, <2>1 DEF AdoptLabel, AdoptionFits
    <2>4. auth_token' # NoToken
      BY <2>2, <2>3, SessionAssumption
    <2> QED
      BY <1>2, <2>1, <2>2, <2>3, <2>4
      DEF AdoptLabel, NobodyUntilLoaded, AdoptionFits, NameFits, Loaded
  <1>3. CASE \/ OpenSignIn(s) \/ SignInAbandoned(s) \/ TokenClaimed(s)
             \/ SignInRejected(s) \/ NotifyAdopted(s) \/ SaveToken(s)
    <2>1. /\ signIn[s].pc # "label" /\ signIn'[s].pc # "label"
          /\ \A x \in SignIns : x # s => signIn'[x] = signIn[x]
      BY <1>3 DEF OpenSignIn, SignInAbandoned, TokenClaimed, SignInRejected,
                  NotifyAdopted, SaveToken, SignInTask, SignInIdle, TypeOK
    <2>2. UNCHANGED <<auth_token, user_label, signOut, startup, loop>>
      BY <1>3 DEF OpenSignIn, SignInAbandoned, TokenClaimed, SignInRejected,
                  NotifyAdopted, SaveToken
    <2>3. NobodyUntilLoaded'
      BY <2>2 DEF NobodyUntilLoaded, Loaded
    <2>4. AdoptionFits'
      BY <2>1, <2>2 DEF AdoptionFits
    <2>5. NameFits'
      BY <2>1, <2>2 DEF NameFits
    <2> QED
      BY <2>3, <2>4, <2>5
  <1> QED
    BY <1>1, <1>2, <1>3 DEF SignInStep

\* Sign-outs: the two writes of clear_session.
LEMMA NamesSignOut ==
    ASSUME NamesInv, WritesApart, WritesApart', TypeOK',
           NEW o \in SignOuts, SignOutStep(o)
    PROVE  NamesInv'
  <1> USE DEF NamesInv
  <1>1. CASE ClickSignOut(o) \/ DeleteStored(o)
    BY <1>1 DEF ClickSignOut, DeleteStored, NobodyUntilLoaded, AdoptionFits,
                NameFits, Loaded, TypeOK
  <1>2. CASE SignOutToken(o)
    <2>1. signOut'[o] = "label" /\ auth_token' = NoToken
      BY <1>2 DEF SignOutToken, TypeOK
    <2>2. \A s \in SignIns : signIn'[s].pc # "label"
      BY <2>1 DEF WritesApart
    <2> QED
      BY <1>2, <2>1, <2>2
      DEF SignOutToken, NobodyUntilLoaded, AdoptionFits, NameFits, Loaded
  <1>3. CASE SignOutLabel(o)
    BY <1>3 DEF SignOutLabel, NobodyUntilLoaded, AdoptionFits, NameFits, Loaded,
                LabelsFor
  <1> QED
    BY <1>1, <1>2, <1>3 DEF SignOutStep

\* Startup: the token alone is written, over a session that does not exist.
LEMMA NamesStartup ==
    ASSUME NamesInv, WritesApart, WritesApart', TypeOK', StartupStep
    PROVE  NamesInv'
  <1> USE DEF NamesInv
  <1>1. CASE TakeLoadedToken
    <2>1. ~Loaded /\ user_label' = NoName
      BY <1>1 DEF TakeLoadedToken, Loaded, NobodyUntilLoaded
    <2>2. \A s \in SignIns : signIn'[s].pc # "label"
      BY <1>1, <2>1 DEF TakeLoadedToken, WritesApart
    <2>3. Loaded'
      BY <1>1 DEF TakeLoadedToken, Loaded, Task
    <2> QED
      BY <2>1, <2>2, <2>3 DEF NobodyUntilLoaded, AdoptionFits, NameFits, LabelsFor
  <1>2. CASE LoadToken
    BY <1>2 DEF LoadToken, Loaded, NobodyUntilLoaded, AdoptionFits, NameFits
  <1>3. CASE NotifyLoaded \/ RefreshLoaded
    BY <1>3 DEF NotifyLoaded, RefreshLoaded, Loaded, NobodyUntilLoaded,
                AdoptionFits, NameFits, Task
  <1> QED
    BY <1>1, <1>2, <1>3 DEF StartupStep

\* Inquiries: an answer is written only for the token still held.
LEMMA NamesInquiry ==
    ASSUME NamesInv, TypeOK', NEW i \in Inquiries, InquiryStep(i)
    PROVE  NamesInv'
  <1> USE DEF NamesInv
  <1>1. CASE NameHolder(i)
    <2>1. inquiry[i].token \in Tokens
      BY <1>1, TaskType DEF NameHolder, TypeOK
    <2>2. auth_token' # NoToken /\ user_label' \in LabelsFor(auth_token')
      BY <1>1, <2>1, SessionAssumption DEF NameHolder
    <2> QED
      BY <1>1, <2>2 DEF NameHolder, NobodyUntilLoaded, AdoptionFits, NameFits, Loaded
  <1>2. CASE ReadHeldToken(i) \/ AnswerTooLate(i) \/ InquiryFails(i)
    BY <1>2 DEF ReadHeldToken, AnswerTooLate, InquiryFails, NobodyUntilLoaded,
                AdoptionFits, NameFits, Loaded
  <1> QED
    BY <1>1, <1>2 DEF InquiryStep

\* The loop: only invalidate_auth touches the session.
LEMMA NamesLoop ==
    ASSUME NamesInv, WritesApart, WritesApart', TypeOK', LoopStep
    PROVE  NamesInv'
  <1> USE DEF NamesInv
  <1>1. CASE InvalidateToken
    <2>1. loop'.pc = "clearLabel" /\ auth_token' = NoToken
      BY <1>1 DEF InvalidateToken, Task
    <2>2. \A s \in SignIns : signIn'[s].pc # "label"
      BY <2>1 DEF WritesApart
    <2> QED
      BY <1>1, <2>1, <2>2
      DEF InvalidateToken, NobodyUntilLoaded, AdoptionFits, NameFits, Loaded
  <1>2. CASE InvalidateLabel
    BY <1>2 DEF InvalidateLabel, NobodyUntilLoaded, AdoptionFits, NameFits,
                Loaded, LabelsFor
  <1>3. CASE \/ FirstTokenSeen \/ PeriodElapses \/ WakeOnTick \/ WakeOnToken
             \/ BeginCycle \/ SkipCycle \/ ConfigAccepted \/ ConfigFails
             \/ CycleEnds \/ Refused
    <2>1. UNCHANGED <<auth_token, user_label, signIn, signOut, startup>>
      BY <1>3 DEF FirstTokenSeen, PeriodElapses, WakeOnTick, WakeOnToken,
                  BeginCycle, SkipCycle, ConfigAccepted, ConfigFails, CycleEnds,
                  Refused, LoopAt
    <2>2. loop.pc = "clearLabel" => loop'.pc = "clearLabel"
      BY <1>3 DEF FirstTokenSeen, PeriodElapses, WakeOnTick, WakeOnToken,
                  BeginCycle, SkipCycle, ConfigAccepted, ConfigFails, CycleEnds,
                  Refused
    <2> QED
      BY <2>1, <2>2 DEF NobodyUntilLoaded, AdoptionFits, NameFits, Loaded
  <1> QED
    BY <1>1, <1>2, <1>3 DEF LoopStep

LEMMA NamesNext ==
    NamesInv /\ WritesApart /\ [Next /\ WritesApart']_vars => NamesInv' /\ WritesApart'
  <1> SUFFICES ASSUME NamesInv, WritesApart, [Next /\ WritesApart']_vars
               PROVE  NamesInv' /\ WritesApart'
    OBVIOUS
  <1>1. CASE UNCHANGED vars
    BY <1>1, TypeNext DEF vars, NamesInv, TypeOK, WritesApart, NobodyUntilLoaded,
                AdoptionFits, NameFits, Loaded
  <1>2. CASE Next /\ WritesApart'
    <2>1. TypeOK'
      BY <1>2, TypeNext DEF NamesInv
    <2>2. CASE RefreshTray
      BY <1>2, <2>1, <2>2 DEF RefreshTray, NamesInv, NobodyUntilLoaded, AdoptionFits,
                        NameFits, Loaded
    <2>3. CASE Restart
      <3>1. \A s \in SignIns : signIn'[s].pc = "idle"
        BY <2>3 DEF Restart, NoSignIns, SignInIdle, SignInTask
      <3> QED
        BY <1>2, <2>1, <2>3, <3>1
        DEF Restart, NamesInv, NobodyUntilLoaded, AdoptionFits, NameFits
    <2> QED
      BY <1>2, <2>1, <2>2, <2>3, NamesSignIn, NamesSignOut, NamesStartup,
         NamesInquiry, NamesLoop DEF Next
  <1> QED
    BY <1>1, <1>2

\* While the two writes of each sign-in keep apart from those of other session
\* changes, a signed-out agent names nobody, whatever /me inquiries are in
\* flight and however sign-outs and 401s overlap.
THEOREM SignedOutNamesNobody == WritesApartSpec => []NamelessWhenSignedOut
  <1>1. NamesInv => NamelessWhenSignedOut
    BY DEF NamesInv, NameFits, NamelessWhenSignedOut, BetweenWrites
  <1> QED
    BY <1>1, NamesInit, NamesNext, PTL DEF WritesApartSpec

\* Under the same schedule a signed-in agent names the holder of the token it
\* reports with, or nobody.
THEOREM SignedInNamesHolder == WritesApartSpec => []NamedByItsToken
  <1>1. NamesInv => NamedByItsToken
    BY DEF NamesInv, NameFits, NamedByItsToken, BetweenWrites
  <1> QED
    BY <1>1, NamesInit, NamesNext, PTL DEF WritesApartSpec

-----------------------------------------------------------------------------
(* A session that is taken up stays owed a cycle until one begins with it, *)
(* which CollectsAtOnce rests on.                                          *)

\* t is held, and what will begin a cycle is on its way: a notification that is
\* still to come, its permit, the loop's first look, or a tick.
Owed(t) ==
    /\ auth_token = t
    /\ \/ \E s \in SignIns : signIn[s].pc \in {"label", "notify"}
       \/ startup.pc = "notify"
       \/ token_acquired
       \/ loop.pc \in {"wait", "cycle"}
       \/ loop.pc = "select" /\ due

Collects(t) == loop.pc = "config" /\ loop.token = t

\* A session is owed a cycle from its token's write on.
StaysOwed(t) ==
    auth_token' = t /\ (auth_token # t \/ Owed(t)) => Owed(t)' \/ Collects(t)'

\* A sign-in writes its token and owes a notification until it has left a permit.
LEMMA OwedSignIn ==
    ASSUME TypeOK, NEW s \in SignIns, SignInStep(s), NEW t \in Tokens
    PROVE  StaysOwed(t)
  <1> USE DEF StaysOwed, Owed
  <1>r. signIn \in [SignIns -> SignInStates] /\ token_acquired \in BOOLEAN
    BY DEF TypeOK
  <1>1. CASE AdoptToken(s)
    <2>1. PICK l : signIn' = [signIn EXCEPT ![s] = SignInTask("label", signIn[s].token, l)]
      BY <1>1 DEF AdoptToken
    <2>2. signIn'[s].pc = "label"
      BY <2>1, <1>r DEF SignInTask
    <2> QED
      BY <2>2
  <1>2. CASE AdoptLabel(s)
    <2>1. signIn'[s].pc = "notify"
      BY <1>2, <1>r DEF AdoptLabel, SignInTask
    <2> QED
      BY <2>1
  <1>3. CASE NotifyAdopted(s)
    BY <1>3 DEF NotifyAdopted
  <1>4. CASE \/ OpenSignIn(s) \/ SignInAbandoned(s) \/ TokenClaimed(s) \/ SignInRejected(s)
             \/ SaveToken(s)
    <2>1. /\ signIn[s].pc \notin {"label", "notify"}
          /\ \A r \in SignIns \ {s} : signIn'[r] = signIn[r]
          /\ UNCHANGED <<auth_token, token_acquired, startup, loop, due>>
      BY <1>4, <1>r DEF OpenSignIn, SignInAbandoned, TokenClaimed, SignInRejected, SaveToken
    <2>2. \A r \in SignIns : signIn[r].pc \in {"label", "notify"}
                               => signIn'[r].pc \in {"label", "notify"}
      BY <2>1
    <2> QED
      BY <2>1, <2>2
  <1> QED
    BY <1>1, <1>2, <1>3, <1>4 DEF SignInStep

\* The loop spends a permit or a tick only on a cycle, and a cycle that finds a
\* token begins with it.
LEMMA OwedLoop ==
    ASSUME LoopStep, NEW t \in Tokens
    PROVE  StaysOwed(t)
  <1> USE DEF StaysOwed, Owed
  <1>1. CASE FirstTokenSeen
    BY <1>1 DEF FirstTokenSeen, Task
  <1>2. CASE WakeOnTick \/ WakeOnToken
    BY <1>2 DEF WakeOnTick, WakeOnToken, Task
  <1>3. CASE BeginCycle
    BY <1>3 DEF BeginCycle, LoopAt, Task, Collects
  <1>4. CASE SkipCycle
    BY <1>4, SessionAssumption DEF SkipCycle, LoopAt
  <1>5. CASE InvalidateToken
    BY <1>5, SessionAssumption DEF InvalidateToken
  <1>6. CASE PeriodElapses
    BY <1>6 DEF PeriodElapses
  <1>7. CASE ConfigAccepted \/ ConfigFails \/ CycleEnds \/ Refused \/ InvalidateLabel
    <2>1. /\ loop.pc \notin {"wait", "cycle", "select"}
          /\ UNCHANGED <<auth_token, token_acquired, signIn, startup>>
      BY <1>7 DEF ConfigAccepted, ConfigFails, CycleEnds, Refused, InvalidateLabel, LoopAt
    <2> QED
      BY <2>1
  <1> QED
    BY <1>1, <1>2, <1>3, <1>4, <1>5, <1>6, <1>7 DEF LoopStep

LEMMA OwedNext ==
    ASSUME TypeOK, [Next]_vars, NEW t \in Tokens
    PROVE  StaysOwed(t)
  <1> USE DEF StaysOwed, Owed
  <1>1. CASE \E s \in SignIns : SignInStep(s)
    BY <1>1, OwedSignIn
  <1>2. CASE LoopStep
    BY <1>2, OwedLoop
  <1>3. CASE StartupStep
    <2>1. CASE TakeLoadedToken
      BY <2>1 DEF TakeLoadedToken, Task
    <2>2. CASE NotifyLoaded
      BY <2>2 DEF NotifyLoaded
    <2>3. CASE LoadToken \/ RefreshLoaded
      <3>1. /\ startup.pc # "notify"
            /\ UNCHANGED <<auth_token, token_acquired, signIn, loop, due>>
        BY <2>3 DEF LoadToken, RefreshLoaded
      <3> QED
        BY <3>1
    <2> QED
      BY <1>3, <2>1, <2>2, <2>3 DEF StartupStep
  <1>4. CASE \E o \in SignOuts : SignOutStep(o)
    <2>1. /\ auth_token' \in {auth_token, NoToken}
          /\ UNCHANGED <<token_acquired, signIn, startup, loop, due>>
      BY <1>4 DEF SignOutStep, ClickSignOut, SignOutToken, SignOutLabel, DeleteStored
    <2> QED
      BY <2>1, SessionAssumption
  <1>5. CASE \E i \in Inquiries : InquiryStep(i)
    <2>1. UNCHANGED <<auth_token, token_acquired, signIn, startup, loop, due>>
      BY <1>5 DEF InquiryStep, ReadHeldToken, NameHolder, AnswerTooLate, InquiryFails
    <2> QED
      BY <2>1
  <1>6. CASE RefreshTray \/ UNCHANGED vars
    <2>1. UNCHANGED <<auth_token, token_acquired, signIn, startup, loop, due>>
      BY <1>6 DEF RefreshTray, vars
    <2> QED
      BY <2>1
  <1>7. CASE Restart
    BY <1>7, SessionAssumption DEF Restart
  <1> QED
    BY <1>1, <1>2, <1>3, <1>4, <1>5, <1>6, <1>7 DEF Next

\* The permit is never lost: whoever signs in or out and whenever, a session in
\* memory is owed a cycle from its token's write until a cycle begins with it.
THEOREM PermitIsNeverLost == Spec => [][\A t \in Tokens : StaysOwed(t)]_vars
  <1>1. TypeOK /\ [Next]_vars => [\A t \in Tokens : StaysOwed(t)]_vars
    BY OwedNext
  <1> QED
    BY <1>1, TypeCorrect, PTL DEF Spec

=============================================================================
