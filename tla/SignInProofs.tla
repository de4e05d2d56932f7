----------------------------- MODULE SignInProofs -----------------------------
(***************************************************************************)
(* Proofs about SignIn: its types, with the fact that a job waits for a    *)
(* thread at most once; that an agent without a tray is never left signed  *)
(* out without a window of its own doing; how many sign-ins start unasked; *)
(* and that the jobs of the pool are served in their order.                *)
(***************************************************************************)
EXTENDS SignIn, FiniteSetTheorems, TLAPS

Queued == {"listenQueued", "saveQueued", "clearQueued"}

\* The jobs in the queue are those that wait for a thread, each once.
QueueOK ==
    /\ \A i \in 1..Len(queue) : task[queue[i]].pc \in Queued
    /\ \A i, j \in 1..Len(queue) : i # j => queue[i] # queue[j]

TaskOK ==
    /\ task \in [Tasks -> SignInStates \cup SignOutStates]
    /\ \A s \in SignIns : task[s] \in SignInStates
    /\ \A o \in SignOuts : task[o] \in SignOutStates

CallerOK == caller \in [Callers -> [pc : CallerStates, now : 0..(Debounce - 1)]]

RestOK ==
    /\ held \in BOOLEAN
    /\ lastAge \in 0..FarPast
    /\ trayless \in BOOLEAN
    /\ window \in BOOLEAN
    /\ excuse \in {"none", "closed", "failed"}
    /\ opened \in [1..MaxOpened -> 0..Debounce]

Inv == TaskOK /\ queue \in Seq(Tasks) /\ QueueOK /\ CallerOK /\ RestOK

LEMMA InvTyped == Inv => TypeOK
BY DEF Inv, TaskOK, CallerOK, RestOK, TypeOK

LEMMA Apart ==
    /\ \A s \in SignIns : s \in Tasks /\ s \notin SignOuts
    /\ \A o \in SignOuts : o \in Tasks /\ o \notin SignIns
BY SignInAssumption DEF Tasks

LEMMA InitInv == Init => Inv
<1> SUFFICES ASSUME Init PROVE Inv
  OBVIOUS
<1>1. State("idle", "nothing") \in SignInStates /\ State("idle", "nothing") \in SignOutStates
  BY DEF State, SignInStates, SignOutStates
<1>2. TaskOK
  BY <1>1 DEF Init, TaskOK, Tasks
<1>3. queue \in Seq(Tasks) /\ QueueOK
  BY DEF Init, QueueOK
<1>4. CallerOK
  <2>1. 0 \in 0..(Debounce - 1)
    BY SignInAssumption
  <2> QED
    BY <2>1 DEF Init, CallerOK, CallerStates
<1>5. lastAge \in 0..FarPast
  BY SignInAssumption DEF Init, FarPast
<1>6. opened \in [1..MaxOpened -> 0..Debounce]
  BY SignInAssumption DEF Init
<1> QED
  BY <1>2, <1>3, <1>4, <1>5, <1>6 DEF Init, Inv, RestOK

-----------------------------------------------------------------------------
(* The tasks and their queue.                                              *)

LEMMA TaskUpdated ==
    ASSUME TaskOK, NEW t \in Tasks, NEW st, t \in SignIns => st \in SignInStates,
           t \in SignOuts => st \in SignOutStates, task' = [task EXCEPT ![t] = st]
    PROVE  TaskOK'
<1>1. st \in SignInStates \cup SignOutStates
  BY DEF Tasks
<1>2. task' \in [Tasks -> SignInStates \cup SignOutStates]
  BY <1>1 DEF TaskOK
<1>3. task'[t] = st /\ \A u \in Tasks \ {t} : task'[u] = task[u]
  BY DEF TaskOK
<1>4. \A s \in SignIns : task'[s] \in SignInStates
  BY <1>3 DEF TaskOK, Tasks
<1>5. \A o \in SignOuts : task'[o] \in SignOutStates
  BY <1>3 DEF TaskOK, Tasks
<1> QED
  BY <1>2, <1>4, <1>5 DEF TaskOK

\* A task that takes a step of its own outside the queue.
LEMMA SignInMoves ==
    ASSUME Inv, NEW s \in SignIns, NEW st \in SignInStates, task[s].pc \notin Queued,
           task' = [task EXCEPT ![s] = st], UNCHANGED queue
    PROVE  (TaskOK /\ queue \in Seq(Tasks) /\ QueueOK)'
<1>0. s \in Tasks /\ s \notin SignOuts /\ TaskOK
  BY Apart DEF Inv
<1>1. TaskOK'
  BY <1>0, TaskUpdated
<1>2. \A i \in 1..Len(queue) : queue[i] # s /\ queue[i] \in Tasks
  BY DEF Inv, QueueOK
<1>3. QueueOK'
  BY <1>2 DEF Inv, QueueOK, TaskOK
<1> QED
  BY <1>1, <1>3 DEF Inv

LEMMA SignOutMoves ==
    ASSUME Inv, NEW o \in SignOuts, NEW st \in SignOutStates, task[o].pc \notin Queued,
           task' = [task EXCEPT ![o] = st], UNCHANGED queue
    PROVE  (TaskOK /\ queue \in Seq(Tasks) /\ QueueOK)'
<1>0. o \in Tasks /\ o \notin SignIns /\ TaskOK
  BY Apart DEF Inv
<1>1. TaskOK'
  BY <1>0, TaskUpdated
<1>2. \A i \in 1..Len(queue) : queue[i] # o /\ queue[i] \in Tasks
  BY DEF Inv, QueueOK
<1>3. QueueOK'
  BY <1>2 DEF Inv, QueueOK, TaskOK
<1> QED
  BY <1>1, <1>3 DEF Inv

\* A job that was in no queue is appended to one.
LEMMA JobQueued ==
    ASSUME Inv, NEW t \in Tasks, NEW st, st.pc \in Queued, task[t].pc \notin Queued,
           task' = [task EXCEPT ![t] = st], queue' = Append(queue, t)
    PROVE  (queue \in Seq(Tasks) /\ QueueOK)'
<1>1. queue \in Seq(Tasks) /\ Len(queue) \in Nat
  BY DEF Inv
<1>2. queue' \in Seq(Tasks) /\ Len(queue') = Len(queue) + 1
  BY <1>1
<1>3. \A i \in 1..Len(queue) : queue'[i] = queue[i] /\ queue[i] \in Tasks /\ queue[i] # t
  BY <1>1 DEF Inv, QueueOK
<1>4. queue'[Len(queue) + 1] = t
  BY <1>1
<1>5. \A i \in 1..Len(queue') : i \in 1..Len(queue) \/ i = Len(queue) + 1
  BY <1>1, <1>2
<1>6. task'[t] = st /\ \A u \in Tasks \ {t} : task'[u] = task[u]
  BY DEF Inv, TaskOK
<1>7. \A i \in 1..Len(queue') : task'[queue'[i]].pc \in Queued
  BY <1>3, <1>4, <1>5, <1>6 DEF Inv, QueueOK
<1>8. \A i, j \in 1..Len(queue') : i # j => queue'[i] # queue'[j]
  BY <1>3, <1>4, <1>5 DEF Inv, QueueOK
<1> QED
  BY <1>2, <1>7, <1>8 DEF QueueOK

LEMMA ThreadTaken ==
    ASSUME Inv, TakeThread
    PROVE  (TaskOK /\ queue \in Seq(Tasks) /\ QueueOK)'
<1> DEFINE t == Head(queue)
           now == CASE task[t].pc = "listenQueued" -> "accepting"
                    [] task[t].pc = "saveQueued"   -> "saving"
                    [] task[t].pc = "clearQueued"  -> "clearing"
<1>1. queue \in Seq(Tasks) /\ queue # <<>> /\ queue' = Tail(queue) /\ Len(queue) \in Nat \ {0}
  BY DEF Inv, TakeThread
<1>2. t = queue[1] /\ t \in Tasks /\ task[t].pc \in Queued
  BY <1>1 DEF Inv, QueueOK
<1>3. task' = [task EXCEPT ![t].pc = now]
  BY DEF TakeThread
<1>4. TaskOK'
  <2> HIDE DEF t, now
  <2>3. task' = [task EXCEPT ![t] = [task[t] EXCEPT !.pc = now]]
    BY <1>3
  <2>1. CASE t \in SignIns
    <3>1. task[t] \in SignInStates /\ task[t].sent = "nothing"
            /\ task[t].pc \in {"listenQueued", "saveQueued"}
      BY <1>2, <2>1 DEF Inv, TaskOK, SignInStates, Queued
    <3>2. now \in {"accepting", "saving"}
      BY <3>1 DEF now
    <3>3. [task[t] EXCEPT !.pc = now] \in SignInStates
      BY <3>1, <3>2 DEF SignInStates
    <3> QED
      BY <1>2, <2>1, <2>3, <3>3, Apart, TaskUpdated DEF Inv
  <2>2. CASE t \in SignOuts
    <3>1. task[t] \in SignOutStates /\ task[t].pc = "clearQueued"
      BY <1>2, <2>2 DEF Inv, TaskOK, SignOutStates, Queued
    <3>2. now = "clearing"
      BY <3>1 DEF now
    <3>3. [task[t] EXCEPT !.pc = now] \in SignOutStates
      BY <3>1, <3>2 DEF SignOutStates
    <3> QED
      BY <1>2, <2>2, <2>3, <3>3, Apart, TaskUpdated DEF Inv
  <2> QED
    BY <1>2, <2>1, <2>2 DEF Tasks
<1>5. queue' \in Seq(Tasks) /\ Len(queue') = Len(queue) - 1
  BY <1>1
<1>6. \A i \in 1..Len(queue') : queue'[i] = queue[i + 1] /\ i + 1 \in 1..Len(queue)
  BY <1>1, <1>5
<1>7. \A i \in 1..Len(queue') : queue'[i] # t /\ queue'[i] \in Tasks
  BY <1>1, <1>2, <1>6 DEF Inv, QueueOK
<1>8. \A u \in Tasks \ {t} : task'[u] = task[u]
  BY <1>3 DEF Inv, TaskOK
<1>9. \A i \in 1..Len(queue') : task'[queue'[i]].pc \in Queued
  BY <1>6, <1>7, <1>8 DEF Inv, QueueOK
<1>10. \A i, j \in 1..Len(queue') : i # j => queue'[i] # queue'[j]
  BY <1>1, <1>5, <1>6 DEF Inv, QueueOK
<1> QED
  BY <1>4, <1>5, <1>9, <1>10 DEF QueueOK

-----------------------------------------------------------------------------
(* The steps.                                                              *)

LEMMA SignInStepInv ==
    ASSUME Inv, NEW s \in SignIns, SignInStep(s)
    PROVE  Inv'
<1>0. task[s] \in SignInStates /\ s \in Tasks /\ s \notin SignOuts
  BY Apart DEF Inv, TaskOK
<1>1. CallerOK' /\ RestOK'
  <2>1. UNCHANGED <<lastAge, caller, excuse, opened, trayless, window>>
    BY DEF SignInStep, ClickSignIn, StartSucceeds, StartFails, Accept, Read, ClaimFails, Adopt,
           Saved, nudging, desktop
  <2>2. UNCHANGED held \/ held' = TRUE
    BY DEF SignInStep, ClickSignIn, StartSucceeds, StartFails, Accept, Read, ClaimFails, Adopt,
           Saved, session
  <2>3. CallerOK'
    BY <2>1 DEF Inv, CallerOK
  <2> QED
    BY <2>1, <2>2, <2>3 DEF Inv, RestOK
<1>2. ASSUME NEW st \in SignInStates, task[s].pc \notin Queued, task' = [task EXCEPT ![s] = st],
             UNCHANGED queue
      PROVE  Inv'
  BY <1>1, <1>2, SignInMoves DEF Inv
<1>3. \A pc \in {"idle", "starting", "claiming"} : State(pc, "nothing") \in SignInStates
  BY DEF State, SignInStates
<1>4. CASE ClickSignIn(s) \/ StartFails(s) \/ Read(s) \/ ClaimFails(s) \/ Saved(s)
  <2>1. \E pc \in {"idle", "starting", "claiming"} : Goto(s, pc)
    BY <1>4 DEF ClickSignIn, StartFails, Read, ClaimFails, Saved
  <2>2. task[s].pc \notin Queued /\ UNCHANGED queue
    BY <1>4 DEF ClickSignIn, StartFails, Read, ClaimFails, Saved, At, Queued
  <2> QED
    BY <1>2, <1>3, <2>1, <2>2 DEF Goto
<1>5. CASE StartSucceeds(s) \/ Adopt(s)
  <2>1. PICK pc \in {"listenQueued", "saveQueued"} :
            task' = [task EXCEPT ![s] = State(pc, "nothing")]
    BY <1>5 DEF StartSucceeds, Adopt, Goto
  <2>2. State(pc, "nothing") \in SignInStates /\ State(pc, "nothing").pc \in Queued
    BY DEF State, SignInStates, Queued
  <2>3. task[s].pc \notin Queued /\ queue' = Append(queue, s)
    BY <1>5 DEF StartSucceeds, Adopt, At, Queued
  <2>4. TaskOK'
    BY <1>0, <2>1, <2>2, TaskUpdated DEF Inv
  <2>5. queue' \in Seq(Tasks) /\ QueueOK'
    BY <1>0, <2>1, <2>2, <2>3, JobQueued
  <2> QED
    BY <1>1, <2>4, <2>5 DEF Inv
<1>6. CASE Accept(s)
  <2>1. PICK sent \in {"code", "noCode", "silence"} :
            task' = [task EXCEPT ![s] = State("reading", sent)]
    BY <1>6 DEF Accept
  <2>2. State("reading", sent) \in SignInStates
    BY DEF State, SignInStates
  <2>3. task[s].pc \notin Queued /\ UNCHANGED queue
    BY <1>6 DEF Accept, At, Queued
  <2> QED
    BY <1>2, <2>1, <2>2, <2>3
<1> QED
  BY <1>4, <1>5, <1>6 DEF SignInStep

LEMMA SignOutStepInv ==
    ASSUME Inv, NEW o \in SignOuts, ClickSignOut(o) \/ SignedOut(o)
    PROVE  Inv'
<1>0. task[o] \in SignOutStates /\ o \in Tasks /\ o \notin SignIns
  BY Apart DEF Inv, TaskOK
<1>1. CallerOK' /\ RestOK'
  <2>1. UNCHANGED <<lastAge, caller, excuse, opened, trayless, window>>
    BY DEF ClickSignOut, SignedOut, nudging, desktop
  <2>2. UNCHANGED held \/ held' = FALSE
    BY DEF ClickSignOut, SignedOut, session
  <2>3. CallerOK'
    BY <2>1 DEF Inv, CallerOK
  <2> QED
    BY <2>1, <2>2, <2>3 DEF Inv, RestOK
<1>2. State("clearQueued", "nothing") \in SignOutStates
        /\ State("clearQueued", "nothing").pc \in Queued
        /\ State("idle", "nothing") \in SignOutStates
  BY DEF State, SignOutStates, Queued
<1>3. CASE ClickSignOut(o)
  <2>1. task' = [task EXCEPT ![o] = State("clearQueued", "nothing")]
    BY <1>3 DEF ClickSignOut, Goto
  <2>2. task[o].pc \notin Queued /\ queue' = Append(queue, o)
    BY <1>3 DEF ClickSignOut, At, Queued
  <2>3. TaskOK'
    BY <1>0, <1>2, <2>1, TaskUpdated DEF Inv
  <2>4. queue' \in Seq(Tasks) /\ QueueOK'
    BY <1>0, <1>2, <2>1, <2>2, JobQueued
  <2> QED
    BY <1>1, <2>3, <2>4 DEF Inv
<1>4. CASE SignedOut(o)
  <2>1. task' = [task EXCEPT ![o] = State("idle", "nothing")] /\ UNCHANGED queue
    BY <1>4 DEF SignedOut, Goto
  <2>2. task[o].pc \notin Queued
    BY <1>4 DEF SignedOut, At, Queued
  <2> QED
    BY <1>1, <1>2, <2>1, <2>2, SignOutMoves DEF Inv
<1> QED
  BY <1>3, <1>4

\* A caller of the nudge moves on.
LEMMA CallerMoves ==
    ASSUME CallerOK, NEW c \in Callers, NEW pc \in CallerStates, CallerGoto(c, pc)
    PROVE  CallerOK'
<1>1. 0 \in 0..(Debounce - 1) /\ caller[c].now \in 0..(Debounce - 1)
  BY SignInAssumption DEF CallerOK
<1> DEFINE st == [pc |-> pc, now |-> IF pc = "idle" THEN 0 ELSE caller[c].now]
<1>2. st \in [pc : CallerStates, now : 0..(Debounce - 1)]
  BY <1>1
<1>3. caller' = [caller EXCEPT ![c] = st]
  BY DEF CallerGoto
<1> HIDE DEF st
<1> QED
  BY <1>2, <1>3 DEF CallerOK

LEMMA NudgeStepInv ==
    ASSUME Inv, NEW c \in Callers, NudgeStep(c)
    PROVE  Inv'
<1> USE DEF session, desktop
<1>0. 0 \in 0..(Debounce - 1)
  BY SignInAssumption
<1>1. CASE CheckToken(c)
  <2> DEFINE st == [pc |-> IF held THEN "idle" ELSE "debounce", now |-> 0]
  <2>1. st \in [pc : CallerStates, now : 0..(Debounce - 1)]
    BY <1>0 DEF CallerStates
  <2>2. caller' = [caller EXCEPT ![c] = st]
    BY <1>1 DEF CheckToken
  <2> HIDE DEF st
  <2>3. CallerOK'
    BY <2>1, <2>2 DEF CallerOK, Inv
  <2> QED
    BY <1>1, <2>3 DEF CheckToken, Inv, TaskOK, QueueOK, RestOK
<1>2. CASE CheckDebounce(c)
  <2>1. CallerOK'
    BY <1>2, CallerMoves DEF CheckDebounce, Inv, CallerStates
  <2> QED
    BY <1>2, <2>1 DEF CheckDebounce, Inv, TaskOK, QueueOK, RestOK
<1>3. CASE Record(c)
  <2>1. CallerOK'
    BY <1>3, CallerMoves DEF Record, Inv, CallerStates
  <2>2. lastAge' \in 0..FarPast
    BY <1>3, SignInAssumption DEF Record, Inv, CallerOK, FarPast
  <2> QED
    BY <1>3, <2>1, <2>2 DEF Record, Inv, TaskOK, QueueOK, RestOK
<1>4. CASE Nudge(c)
  <2>1. CallerOK'
    BY <1>4, CallerMoves DEF Nudge, Inv, CallerStates
  <2>2. opened' \in [1..MaxOpened -> 0..Debounce]
    <3>1. \A n \in 1..MaxOpened : (IF n = 1 THEN 0 ELSE opened[n - 1]) \in 0..Debounce
      BY SignInAssumption DEF Inv, RestOK, MaxOpened
    <3> QED
      BY <1>4, <3>1 DEF Nudge, CountOpened
  <2>3. window' \in BOOLEAN /\ excuse' \in {"none", "closed", "failed"}
    BY <1>4 DEF Nudge, OpenWindow, Inv, RestOK
  <2>4. RestOK'
    BY <1>4, <2>2, <2>3 DEF Nudge, Inv, RestOK
  <2>5. (TaskOK /\ queue \in Seq(Tasks) /\ QueueOK)'
    <3>1. UNCHANGED queue
      BY <1>4 DEF Nudge
    <3>2. CASE UNCHANGED task
      BY <3>1, <3>2 DEF Inv, TaskOK, QueueOK
    <3>3. ASSUME NEW s \in SignIns, At(s, "idle"), Goto(s, "starting")
          PROVE  (TaskOK /\ queue \in Seq(Tasks) /\ QueueOK)'
      <4>1. State("starting", "nothing") \in SignInStates
        BY DEF State, SignInStates
      <4> QED
        BY <3>1, <3>3, <4>1, SignInMoves DEF Goto, At, Queued
    <3> QED
      BY <1>4, <3>2, <3>3 DEF Nudge, OpenBrowser
  <2> QED
    BY <2>1, <2>4, <2>5 DEF Inv
<1> QED
  BY <1>1, <1>2, <1>3, <1>4 DEF NudgeStep

LEMMA TickInv == Inv /\ Tick => Inv'
<1> SUFFICES ASSUME Inv, Tick PROVE Inv'
  OBVIOUS
<1>1. \A c \in Callers :
        (IF c \in Nudging THEN [caller[c] EXCEPT !.now = @ + 1] ELSE caller[c])
          \in [pc : CallerStates, now : 0..(Debounce - 1)]
  <2> TAKE c \in Callers
  <2>1. caller[c] \in [pc : CallerStates, now : 0..(Debounce - 1)]
    BY DEF Inv, CallerOK
  <2>2. CASE c \in Nudging
    <3>1. caller[c].now + 1 \in 0..(Debounce - 1)
      BY <2>1, <2>2, SignInAssumption DEF Tick
    <3> QED
      BY <2>1, <2>2, <3>1
  <2> QED
    BY <2>1, <2>2
<1>2. CallerOK'
  BY <1>1 DEF Tick, CallerOK
<1>3. lastAge' \in 0..FarPast
  BY SignInAssumption DEF Tick, Inv, RestOK, FarPast
<1>4. \A n \in 1..MaxOpened :
        (IF opened[n] < Debounce THEN opened[n] + 1 ELSE Debounce) \in 0..Debounce
  BY SignInAssumption DEF Inv, RestOK
<1>5. opened' \in [1..MaxOpened -> 0..Debounce]
  BY <1>4 DEF Tick
<1> QED
  BY <1>2, <1>3, <1>5 DEF Tick, Inv, TaskOK, QueueOK, RestOK, session, desktop

LEMMA NextInv == Inv /\ [Next]_vars => Inv'
<1> SUFFICES ASSUME Inv, [Next]_vars PROVE Inv'
  OBVIOUS
<1> USE DEF session, nudging, desktop
<1>0. "startup" \in Callers /\ "loop" \in Callers
  BY DEF Callers
<1>1. CASE StartupLoads
  <2>1. CallerOK'
    BY <1>0, <1>1, CallerMoves DEF StartupLoads, Inv, CallerStates
  <2>2. held' \in BOOLEAN
    BY <1>1 DEF StartupLoads, Inv, RestOK
  <2> QED
    BY <1>1, <2>1, <2>2 DEF StartupLoads, Inv, TaskOK, QueueOK, RestOK
<1>2. CASE ApiRefuses
  <2>1. CallerOK'
    BY <1>0, <1>2, CallerMoves DEF ApiRefuses, Inv, CallerStates
  <2> QED
    BY <1>2, <2>1 DEF ApiRefuses, Inv, TaskOK, QueueOK, RestOK
<1>3. CASE CloseWindow
  BY <1>3 DEF CloseWindow, Inv, TaskOK, QueueOK, RestOK, CallerOK
<1>4. CASE TakeThread
  <2>1. CallerOK' /\ RestOK'
    BY <1>4 DEF TakeThread, Inv, CallerOK, RestOK
  <2> QED
    BY <1>4, <2>1, ThreadTaken DEF Inv
<1>5. CASE UNCHANGED vars
  BY <1>5 DEF vars, Inv, TaskOK, QueueOK, RestOK, CallerOK
<1> QED
  BY <1>1, <1>2, <1>3, <1>4, <1>5, TickInv, NudgeStepInv, SignInStepInv, SignOutStepInv DEF Next

LEMMA Invariant == Spec => []Inv
BY InitInv, NextInv, PTL DEF Spec

\* Every variable has its type; no job waits for a thread twice.
THEOREM TypeCorrect == Spec => []TypeOK
BY Invariant, InvTyped, PTL

-----------------------------------------------------------------------------
(* The way back in.  Without a tray nobody can sign out, and only a refused *)
(* token ends a session.  Where no window is open and nobody is to blame, a *)
(* period has passed since the last nudge: so the next is not dropped.      *)

NoSignOut == trayless => \A o \in SignOuts : task[o].pc = "idle"

\* c will go on to its window, if nobody signs in before.
Pending(c) ==
    \/ caller[c].pc \in {"record", "open"}
    \/ caller[c].pc \in {"load", "check"} /\ lastAge >= Debounce
    \/ caller[c].pc = "debounce" /\ lastAge >= Debounce + caller[c].now

\* There is a window, or an excuse, or somebody about to open one, or a session
\* whose end will have one opened.
Provided ==
    trayless => \/ window \/ excuse # "none"
                \/ held /\ lastAge >= Debounce
                \/ \E c \in Callers : Pending(c)

BackInv == NoSignOut /\ Provided

LEMMA InitBack == Init => BackInv
<1> SUFFICES ASSUME Init PROVE BackInv
  OBVIOUS
<1>1. NoSignOut
  BY DEF Init, NoSignOut, State, Tasks
<1>2. lastAge >= Debounce
  BY SignInAssumption DEF Init, FarPast
<1>3. caller["startup"].pc = "load" /\ "startup" \in Callers
  BY DEF Init, Callers
<1> QED
  BY <1>1, <1>2, <1>3 DEF BackInv, Provided, Pending

LEMMA NoSignOutStep == Inv /\ NoSignOut /\ [Next]_vars => NoSignOut'
<1> SUFFICES ASSUME Inv, NoSignOut, [Next]_vars, trayless', NEW o \in SignOuts
             PROVE  task'[o].pc = "idle"
  BY DEF NoSignOut
<1> USE DEF session, nudging, desktop
<1>1. trayless
  BY DEF Next, vars, StartupLoads, ApiRefuses, CloseWindow, TakeThread, Tick, NudgeStep, CheckToken,
         CheckDebounce, Record, Nudge, SignInStep, ClickSignIn, StartSucceeds, StartFails, Accept,
         Read, ClaimFails, Adopt, Saved, ClickSignOut, SignedOut
<1>2. task[o].pc = "idle" /\ o \in Tasks
  BY <1>1, Apart DEF NoSignOut
<1>3. CASE TakeThread
  <2>1. Head(queue) = queue[1] /\ 1 \in 1..Len(queue)
    BY <1>3 DEF TakeThread, Inv
  <2>2. Head(queue) # o
    BY <1>2, <2>1 DEF Inv, QueueOK, Queued
  <2>3. task'[o] = task[o]
    BY <1>2, <1>3, <2>2 DEF TakeThread, Inv, TaskOK
  <2> QED
    BY <1>2, <2>3
<1>4. ASSUME NEW s \in SignIns, SignInStep(s) PROVE task'[o].pc = "idle"
  <2>1. s # o
    BY Apart
  <2>2. task'[o] = task[o]
    BY <1>2, <1>4, <2>1 DEF SignInStep, ClickSignIn, StartSucceeds, StartFails, Accept, Read,
       ClaimFails, Adopt, Saved, Goto, Inv, TaskOK
  <2> QED
    BY <1>2, <2>2
<1>5. ASSUME NEW c \in Callers, Nudge(c) PROVE task'[o].pc = "idle"
  <2>1. task'[o] = task[o]
    BY <1>2, <1>5, Apart DEF Nudge, OpenBrowser, Goto, Inv, TaskOK
  <2> QED
    BY <1>2, <2>1
<1>6. ASSUME NEW u \in SignOuts, ClickSignOut(u) \/ SignedOut(u) PROVE FALSE
  BY <1>1, <1>6 DEF ClickSignOut, SignedOut, At, NoSignOut
<1>7. CASE UNCHANGED task
  BY <1>2, <1>7
<1> QED
  BY <1>3, <1>4, <1>5, <1>6, <1>7
     DEF Next, vars, NudgeStep, StartupLoads, ApiRefuses, CloseWindow, Tick, CheckToken,
         CheckDebounce, Record

\* Where a caller of the nudge goes to, it is.
LEMMA CallerIsThere ==
    ASSUME CallerOK, NEW c \in Callers, NEW pc, CallerGoto(c, pc)
    PROVE  caller'[c].pc = pc
BY DEF CallerOK, CallerGoto

LEMMA OtherCallers ==
    ASSUME CallerOK, NEW c \in Callers, NEW pc, CallerGoto(c, pc)
    PROVE  \A d \in Callers \ {c} : caller'[d] = caller[d]
BY DEF CallerOK, CallerGoto

\* A step that leaves the window, the callers and the time of the last nudge.
LEMMA ProvidedFrame ==
    ASSUME Provided, held => held', UNCHANGED <<lastAge, caller, trayless, window, excuse>>
    PROVE  Provided'
BY DEF Provided, Pending

LEMMA ProvidedStep == Inv /\ NoSignOut /\ Provided /\ [Next]_vars => Provided'
<1> SUFFICES ASSUME Inv, NoSignOut, Provided, [Next]_vars, trayless' PROVE Provided'
  BY DEF Provided
<1> USE DEF session, nudging, desktop
<1>0. /\ Callers = {"startup", "loop"} /\ CallerOK
      /\ Debounce \in Nat \ {0} /\ lastAge \in 0..FarPast /\ held \in BOOLEAN
  BY SignInAssumption DEF Callers, Inv, RestOK
<1>1. CASE StartupLoads
  <2>1. caller["startup"].pc = "load"
    BY <1>1 DEF StartupLoads, CallerAt
  <2>2. \/ held' = TRUE
        \/ held' = held /\ caller'["startup"].pc = "check"
    BY <1>0, <1>1, CallerIsThere DEF StartupLoads
  <2>3. caller'["loop"] = caller["loop"]
    BY <1>0, <1>1, OtherCallers DEF StartupLoads
  <2>4. UNCHANGED <<lastAge, window, excuse, trayless>>
    BY <1>1 DEF StartupLoads
  <2> QED
    BY <1>0, <2>1, <2>2, <2>3, <2>4 DEF Provided, Pending
<1>2. CASE ApiRefuses
  <2>1. caller["loop"].pc = "idle" /\ caller'["loop"].pc = "check"
    BY <1>0, <1>2, CallerIsThere DEF ApiRefuses, CallerAt
  <2>2. caller'["startup"] = caller["startup"]
    BY <1>0, <1>2, OtherCallers DEF ApiRefuses
  <2>3. UNCHANGED <<lastAge, window, trayless>>
    BY <1>2 DEF ApiRefuses
  <2>4. CASE lastAge >= Debounce
    BY <1>0, <2>1, <2>3, <2>4 DEF Provided, Pending
  <2>5. CASE ~(lastAge >= Debounce)
    <3>1. excuse' = excuse
      BY <1>2, <2>5 DEF ApiRefuses
    <3> QED
      BY <1>0, <2>1, <2>2, <2>3, <2>5, <3>1 DEF Provided, Pending
  <2> QED
    BY <2>4, <2>5
<1>3. CASE CloseWindow
  BY <1>3 DEF CloseWindow, Provided
<1>4. ASSUME NEW c \in Callers, NudgeStep(c) PROVE Provided'
  <2>1. CASE CheckToken(c)
    <3>1. /\ caller[c].pc = "check"
          /\ caller'[c] = [pc |-> IF held THEN "idle" ELSE "debounce", now |-> 0]
          /\ \A d \in Callers \ {c} : caller'[d] = caller[d]
          /\ UNCHANGED <<held, lastAge, window, excuse, trayless>>
      BY <1>0, <2>1 DEF CheckToken, CallerAt, CallerOK
    <3>2. CASE held /\ lastAge >= Debounce
      BY <3>1, <3>2 DEF Provided
    <3>3. CASE ~held /\ lastAge >= Debounce
      BY <1>0, <3>1, <3>3 DEF Provided, Pending
    <3>4. CASE ~(lastAge >= Debounce)
      BY <3>1, <3>4 DEF Provided, Pending
    <3> QED
      BY <1>0, <3>2, <3>3, <3>4
  <2>2. CASE CheckDebounce(c)
    <3>1. /\ caller[c].pc = "debounce" /\ caller[c].now \in 0..(Debounce - 1)
          /\ \A d \in Callers \ {c} : caller'[d] = caller[d]
          /\ UNCHANGED <<held, lastAge, window, excuse, trayless>>
      BY <1>0, <2>2, OtherCallers DEF CheckDebounce, CallerAt, CallerOK
    <3>2. CASE SinceLast(c) >= Debounce
      <4>1. caller'[c].pc = "record"
        BY <1>0, <2>2, <3>2, CallerIsThere DEF CheckDebounce
      <4> QED
        BY <4>1 DEF Provided, Pending
    <3>3. CASE ~(SinceLast(c) >= Debounce)
      <4>1. ~(lastAge >= Debounce + caller[c].now)
        BY <1>0, <3>1, <3>3, SignInAssumption DEF SinceLast, FarPast
      <4> QED
        BY <3>1, <4>1 DEF Provided, Pending
    <3> QED
      BY <3>2, <3>3
  <2>3. CASE Record(c)
    <3>1. caller'[c].pc = "open"
      BY <1>0, <2>3, CallerIsThere DEF Record
    <3> QED
      BY <3>1 DEF Provided, Pending
  <2>4. CASE Nudge(c)
    BY <2>4 DEF Nudge, OpenWindow, Provided
  <2> QED
    BY <1>4, <2>1, <2>2, <2>3, <2>4 DEF NudgeStep
<1>5. ASSUME NEW s \in SignIns, SignInStep(s) PROVE Provided'
  <2>1. UNCHANGED <<lastAge, caller, excuse, opened, trayless, window>>
    BY <1>5 DEF SignInStep, ClickSignIn, StartSucceeds, StartFails, Accept, Read, ClaimFails,
                Adopt, Saved
  <2>2. held => held'
    BY <1>5 DEF SignInStep, ClickSignIn, StartSucceeds, StartFails, Accept, Read, ClaimFails,
                Adopt, Saved
  <2> QED
    BY <2>1, <2>2, ProvidedFrame
<1>6. ASSUME NEW o \in SignOuts, ClickSignOut(o) \/ SignedOut(o) PROVE FALSE
  BY <1>6 DEF ClickSignOut, SignedOut, At, NoSignOut
<1>7. CASE Tick
  <2>1. \A c \in Callers :
           /\ caller[c].pc = caller'[c].pc
           /\ caller[c].now \in 0..(Debounce - 1)
           /\ caller[c].pc = "debounce" => /\ caller'[c].now = caller[c].now + 1
                                           /\ caller[c].now < Debounce - 1
    BY <1>0, <1>7 DEF Tick, CallerOK, Nudging
  <2>2. UNCHANGED <<held, trayless, window, excuse>>
    BY <1>7 DEF Tick
  <2>3. lastAge' = IF lastAge < FarPast THEN lastAge + 1 ELSE FarPast
    BY <1>7 DEF Tick
  <2>4. lastAge >= Debounce => lastAge' >= Debounce
    BY <1>0, <2>3 DEF FarPast
  <2>5. \A c \in Callers : Pending(c) => Pending(c)'
    <3>1. ASSUME NEW c \in Callers, caller[c].pc = "debounce",
                 lastAge >= Debounce + caller[c].now
          PROVE  lastAge' >= Debounce + caller'[c].now
      BY <1>0, <2>1, <2>3, <3>1 DEF FarPast
    <3> QED
      BY <2>1, <2>4, <3>1 DEF Pending
  <2> QED
    BY <2>2, <2>4, <2>5 DEF Provided
<1>8. CASE TakeThread \/ UNCHANGED vars
  <2>1. UNCHANGED <<held, lastAge, caller, trayless, window, excuse>>
    BY <1>8 DEF TakeThread, vars
  <2> QED
    BY <2>1, ProvidedFrame
<1> QED
  BY <1>1, <1>2, <1>3, <1>4, <1>5, <1>6, <1>7, <1>8 DEF Next

LEMMA ProvidedIsBack == Provided => WayBack
BY DEF Provided, Pending, WayBack, CallerAt

\* On a desktop without a tray, a signed-out agent that has come to rest shows the
\* window, whatever the debounce dropped, unless its build failed or the person
\* closed it after the last nudge that could open it.
THEOREM WayBackStays == Spec => []WayBack
<1>1. Inv /\ BackInv /\ [Next]_vars => BackInv'
  BY NoSignOutStep, ProvidedStep DEF BackInv
<1>2. BackInv => WayBack
  BY ProvidedIsBack DEF BackInv
<1> QED
  BY <1>1, <1>2, InitInv, NextInv, InitBack, PTL DEF Spec

-----------------------------------------------------------------------------
(* The nudges of a period.  The loop takes its time after its last nudge,   *)
(* and goes on only if the time that is recorded is a period older.  So of  *)
(* what was opened before the recorded time nothing counts by the next      *)
(* nudge, unless the startup has recorded an older time meanwhile.  That    *)
(* happens once: from then on two nudges more are allowed for.              *)

\* The nth latest nudge is at least this old, or out of the period.
OldAs(n, age) == opened[n] >= age \/ opened[n] = Debounce

\* The startup has recorded its time, or the loop a newer one, and no browser of
\* the startup's is open yet: no time that old lets the loop go on.
Overwritten == CallerAt("startup", "open") /\ lastAge <= caller["startup"].now

\* The startup's nudge and the one it lets through.
Allowed == IF CallerAt("startup", "idle") THEN 2 ELSE 0

FewNudges ==
    /\ \A n \in 1..4 : opened[n] <= opened[n + 1]
    /\ caller["loop"].pc # "load"
    /\ caller["loop"].pc \in {"idle", "check", "debounce"} =>
          /\ opened[3 + Allowed] = Debounce
          /\ OldAs(2 + Allowed, lastAge) \/ Overwritten
    /\ caller["loop"].pc \in {"debounce", "record"} => OldAs(1 + Allowed, caller["loop"].now)
    /\ caller["loop"].pc \in {"record", "open"} => opened[2 + Allowed] = Debounce
    /\ caller["loop"].pc = "open" => OldAs(1 + Allowed, lastAge) \/ Overwritten

LEMMA InitFew == Init => FewNudges
BY SignInAssumption
   DEF Init, FewNudges, OldAs, Allowed, CallerAt, Callers, MaxOpened, FarPast

\* What the steps of a nudge have in common.
LEMMA NudgeTypes ==
    ASSUME Inv
    PROVE  /\ caller \in [Callers -> [pc : CallerStates, now : 0..(Debounce - 1)]]
           /\ "startup" \in Callers /\ "loop" \in Callers
           /\ \A c \in Callers : c \in {"startup", "loop"}
           /\ lastAge \in Nat
           /\ opened \in [1..5 -> 0..Debounce]
           /\ Debounce \in Nat \ {0}
BY SignInAssumption DEF Inv, CallerOK, RestOK, Callers, MaxOpened, FarPast

\* The steps of the startup's nudge.
LEMMA StartupFew ==
    ASSUME Inv, FewNudges, StartupLoads \/ NudgeStep("startup")
    PROVE  FewNudges'
<1> USE NudgeTypes DEF FewNudges, OldAs, Overwritten, Allowed, CallerAt, CallerGoto
<1>1. CASE StartupLoads
  BY <1>1 DEF StartupLoads
<1>2. CASE CheckToken("startup")
  BY <1>2 DEF CheckToken
<1>3. CASE CheckDebounce("startup")
  BY <1>3 DEF CheckDebounce
<1>4. CASE Record("startup")
  BY <1>4 DEF Record
<1>5. CASE Nudge("startup")
  BY <1>5 DEF Nudge, CountOpened, MaxOpened
<1> QED
  BY <1>1, <1>2, <1>3, <1>4, <1>5 DEF NudgeStep

\* The steps of the loop's nudge.
LEMMA LoopFew ==
    ASSUME Inv, FewNudges, ApiRefuses \/ NudgeStep("loop")
    PROVE  FewNudges'
<1> USE NudgeTypes DEF FewNudges, OldAs, Overwritten, Allowed, CallerAt, CallerGoto
<1>1. CASE ApiRefuses
  BY <1>1 DEF ApiRefuses
<1>2. CASE CheckToken("loop")
  BY <1>2 DEF CheckToken
<1>3. CASE CheckDebounce("loop")
  BY <1>3 DEF CheckDebounce, SinceLast
<1>4. CASE Record("loop")
  BY <1>4 DEF Record
<1>5. CASE Nudge("loop")
  BY <1>5 DEF Nudge, CountOpened, MaxOpened
<1> QED
  BY <1>1, <1>2, <1>3, <1>4, <1>5 DEF NudgeStep

\* Everything ages together.
LEMMA TickFew == Inv /\ FewNudges /\ Tick => FewNudges'
<1> SUFFICES ASSUME Inv, FewNudges, Tick PROVE FewNudges'
  OBVIOUS
<1>a. lastAge' = IF lastAge < FarPast THEN lastAge + 1 ELSE FarPast
  BY DEF Tick
<1>b. lastAge \in Nat /\ FarPast \in Nat
  BY NudgeTypes, SignInAssumption DEF FarPast
<1>2. lastAge' \in Nat /\ lastAge' <= lastAge + 1
  BY <1>a, <1>b
<1> USE NudgeTypes
<1>1. \A n \in 1..5 : opened'[n] = IF opened[n] < Debounce THEN opened[n] + 1 ELSE Debounce
  BY DEF Tick, MaxOpened
<1>3. \A c \in Callers : caller'[c].pc = caller[c].pc
  BY DEF Tick
<1>4. \A c \in Callers : caller[c].pc \in {"debounce", "record", "open"} =>
          caller'[c].now = caller[c].now + 1
  BY DEF Tick, Nudging
<1>5. Allowed' = Allowed /\ Allowed \in {0, 2}
  BY <1>3 DEF Allowed, CallerAt
<1>6. Overwritten => Overwritten'
  BY <1>2, <1>3, <1>4 DEF Overwritten, CallerAt
<1>7. \A n \in 1..5 : OldAs(n, lastAge) => OldAs(n, lastAge)'
  BY <1>1, <1>2 DEF OldAs
<1>8. \A n \in 1..5 : opened[n] = Debounce => opened'[n] = Debounce
  BY <1>1
<1> QED
  BY <1>1, <1>3, <1>4, <1>5, <1>6, <1>7, <1>8 DEF FewNudges, OldAs

LEMMA NextFew == Inv /\ FewNudges /\ [Next]_vars => FewNudges'
<1> SUFFICES ASSUME Inv, FewNudges, [Next]_vars PROVE FewNudges'
  OBVIOUS
<1>1. CASE UNCHANGED <<lastAge, caller, opened>>
  BY <1>1 DEF FewNudges, OldAs, Overwritten, Allowed, CallerAt
<1>2. ASSUME NEW s \in SignIns, SignInStep(s) PROVE UNCHANGED <<lastAge, caller, opened>>
  BY <1>2 DEF SignInStep, ClickSignIn, StartSucceeds, StartFails, Accept, Read, ClaimFails,
              Adopt, Saved, nudging
<1>3. ASSUME NEW o \in SignOuts, ClickSignOut(o) \/ SignedOut(o)
      PROVE  UNCHANGED <<lastAge, caller, opened>>
  BY <1>3 DEF ClickSignOut, SignedOut, nudging
<1>4. CASE CloseWindow \/ TakeThread \/ UNCHANGED vars
  BY <1>1, <1>4 DEF CloseWindow, TakeThread, vars, nudging
<1>5. ASSUME NEW c \in Callers, NudgeStep(c) PROVE FewNudges'
  BY <1>5, NudgeTypes, StartupFew, LoopFew
<1> QED
  BY <1>1, <1>2, <1>3, <1>4, <1>5, StartupFew, LoopFew, TickFew DEF Next

\* However short the ticks, however the callers' steps interleave, and however
\* often sessions end, no period has more than four sign-ins started unasked.
THEOREM NudgesStayBounded == Spec => []NudgesBounded
<1>1. Inv /\ FewNudges => NudgesBounded
  BY NudgeTypes DEF FewNudges, OldAs, Allowed, NudgesBounded, MaxOpened, CallerStates
<1> QED
  BY <1>1, InitInv, NextInv, InitFew, NextFew, PTL DEF Spec
-----------------------------------------------------------------------------
(* The pool and its queue, which is what JobsRun rests on.                  *)

\* A job that waits for a thread is in the queue.
WaitsInQueue ==
    \A t \in Tasks : task[t].pc \in Queued => \E k \in 1..Len(queue) : queue[k] = t

PoolKept == Cardinality(OnThread) <= PoolSize

WaitsAt(t, k) == k \in 1..Len(queue) /\ queue[k] = t

\* Whatever else happens, a job keeps its place until a thread is taken, and
\* then it has the thread or is one place nearer to one.
MovesUp ==
    \A t \in Tasks : \A k \in 1..Len(queue) : WaitsAt(t, k) =>
        \/ WaitsAt(t, k)' /\ ~TakeThread
        \/ TakeThread /\ k = 1 /\ t \in OnThread'
        \/ TakeThread /\ k > 1 /\ WaitsAt(t, k - 1)'

Threads == {"accepting", "reading", "saving", "clearing"}

Others(t) == \A u \in Tasks \ {t} : task'[u] = task[u]

\* A task goes on outside the queue, on its thread or on none.
Works(t) ==
    /\ task[t].pc \notin Queued /\ task'[t].pc \notin Queued
    /\ task'[t].pc \in Threads => task[t].pc \in Threads
    /\ Others(t) /\ UNCHANGED queue

Joins(t) ==
    /\ task[t].pc \notin Queued /\ task'[t].pc \in Queued
    /\ Others(t) /\ queue' = Append(queue, t)

\* A task that is set to a state is in it, and the others are where they were.
LEMMA TaskSet ==
    ASSUME TaskOK, NEW t \in Tasks, NEW st, task' = [task EXCEPT ![t] = st]
    PROVE  task'[t] = st /\ Others(t)
BY DEF TaskOK, Others

LEMMA GoneTo ==
    ASSUME TaskOK, NEW t \in Tasks, NEW pc, Goto(t, pc)
    PROVE  task'[t].pc = pc /\ Others(t)
<1>1. task' = [task EXCEPT ![t] = State(pc, "nothing")]
  BY DEF Goto
<1>2. State(pc, "nothing").pc = pc
  BY DEF State
<1>3. task'[t] = State(pc, "nothing") /\ Others(t)
  BY <1>1, TaskSet
<1> QED
  BY <1>2, <1>3

LEMMA SignInMove ==
    ASSUME Inv, NEW s \in SignIns, SignInStep(s)
    PROVE  Works(s) \/ Joins(s)
<1>0. s \in Tasks /\ TaskOK
  BY Apart DEF Inv
<1>1. CASE ClickSignIn(s) \/ StartFails(s) \/ Read(s) \/ ClaimFails(s) \/ Saved(s)
  <2>1. PICK pc \in {"idle", "starting", "claiming"} : Goto(s, pc)
    BY <1>1 DEF ClickSignIn, StartFails, Read, ClaimFails, Saved
  <2>2. task'[s].pc = pc /\ Others(s)
    BY <1>0, <2>1, GoneTo
  <2>3. task[s].pc \notin Queued /\ UNCHANGED queue
    BY <1>1 DEF ClickSignIn, StartFails, Read, ClaimFails, Saved, At, Queued
  <2> QED
    BY <2>2, <2>3 DEF Works, Queued, Threads
<1>2. CASE StartSucceeds(s) \/ Adopt(s)
  <2>1. PICK pc \in {"listenQueued", "saveQueued"} : Goto(s, pc)
    BY <1>2 DEF StartSucceeds, Adopt
  <2>2. task'[s].pc = pc /\ Others(s)
    BY <1>0, <2>1, GoneTo
  <2>3. task[s].pc \notin Queued /\ queue' = Append(queue, s)
    BY <1>2 DEF StartSucceeds, Adopt, At, Queued
  <2> QED
    BY <2>2, <2>3 DEF Joins, Queued
<1>3. CASE Accept(s)
  <2>1. PICK sent \in {"code", "noCode", "silence"} :
            task' = [task EXCEPT ![s] = State("reading", sent)]
    BY <1>3 DEF Accept
  <2>2. task'[s] = State("reading", sent) /\ Others(s)
    BY <1>0, <2>1, TaskSet
  <2>3. task[s].pc = "accepting" /\ task'[s].pc = "reading" /\ UNCHANGED queue
    BY <1>3, <2>2 DEF Accept, At, State
  <2> QED
    BY <2>2, <2>3 DEF Works, Queued, Threads
<1> QED
  BY <1>1, <1>2, <1>3 DEF SignInStep

LEMMA SignOutMove ==
    ASSUME Inv, NEW o \in SignOuts, ClickSignOut(o) \/ SignedOut(o)
    PROVE  Works(o) \/ Joins(o)
<1>0. o \in Tasks /\ TaskOK
  BY Apart DEF Inv
<1>1. CASE ClickSignOut(o)
  <2>1. task'[o].pc = "clearQueued" /\ Others(o)
    BY <1>0, <1>1, GoneTo DEF ClickSignOut
  <2> QED
    BY <1>1, <2>1 DEF ClickSignOut, At, Joins, Queued
<1>2. CASE SignedOut(o)
  <2>1. task'[o].pc = "idle" /\ Others(o)
    BY <1>0, <1>2, GoneTo DEF SignedOut
  <2> QED
    BY <1>2, <2>1 DEF SignedOut, At, Works, Queued, Threads
<1> QED
  BY <1>1, <1>2

LEMMA NudgeMove ==
    ASSUME Inv, NEW c \in Callers, NudgeStep(c)
    PROVE  UNCHANGED <<task, queue>> \/ \E s \in SignIns : Works(s)
<1>1. CASE Nudge(c)
  <2>1. ASSUME NEW s \in SignIns, At(s, "idle"), Goto(s, "starting") PROVE Works(s)
    <3>1. s \in Tasks /\ TaskOK
      BY Apart DEF Inv
    <3>2. task'[s].pc = "starting" /\ Others(s)
      BY <2>1, <3>1, GoneTo
    <3> QED
      BY <1>1, <2>1, <3>2 DEF Nudge, At, Works, Queued, Threads
  <2> QED
    BY <1>1, <2>1 DEF Nudge, OpenBrowser
<1>2. CASE CheckToken(c) \/ CheckDebounce(c) \/ Record(c)
  BY <1>2 DEF CheckToken, CheckDebounce, Record
<1> QED
  BY <1>1, <1>2 DEF NudgeStep

\* What a step does to the tasks and their queue.
LEMMA TaskMove ==
    ASSUME Inv, [Next]_vars
    PROVE  \/ UNCHANGED <<task, queue>> /\ ~TakeThread
           \/ \E t \in Tasks : Works(t) \/ Joins(t)
           \/ TakeThread
<1>1. CASE StartupLoads \/ ApiRefuses \/ CloseWindow \/ Tick \/ UNCHANGED vars
  BY <1>1 DEF StartupLoads, ApiRefuses, CloseWindow, Tick, vars
<1> QED
  BY <1>1, SignInMove, SignOutMove, NudgeMove, Apart DEF Next

\* The first of the queue, and no other, is given a thread.
LEMMA ThreadMove ==
    ASSUME Inv, TakeThread
    PROVE  /\ Len(queue) \in Nat \ {0} /\ Len(queue') = Len(queue) - 1
           /\ queue[1] \in Tasks /\ Others(queue[1])
           /\ \A k \in 1..Len(queue') : queue'[k] = queue[k + 1]
           /\ task[queue[1]].pc \in Queued
           /\ task'[queue[1]].pc \in Threads
<1> DEFINE t == Head(queue)
           now == CASE task[t].pc = "listenQueued" -> "accepting"
                    [] task[t].pc = "saveQueued"   -> "saving"
                    [] task[t].pc = "clearQueued"  -> "clearing"
<1>1. queue \in Seq(Tasks) /\ queue # <<>> /\ queue' = Tail(queue) /\ Len(queue) \in Nat \ {0}
  BY DEF Inv, TakeThread
<1>2. t = queue[1] /\ t \in Tasks /\ task[t].pc \in Queued
  BY <1>1 DEF Inv, QueueOK
<1>3. task' = [task EXCEPT ![t].pc = now]
  BY DEF TakeThread
<1>4. Len(queue') = Len(queue) - 1 /\ \A k \in 1..Len(queue') : queue'[k] = queue[k + 1]
  BY <1>1
<1>5. now \in Threads
  BY <1>2 DEF Queued, Threads
<1> HIDE DEF t, now
<1>6. Others(t)
  BY <1>2, <1>3 DEF Others, Inv, TaskOK
<1>7. task'[t] = [task[t] EXCEPT !.pc = now]
  BY <1>2, <1>3 DEF Inv, TaskOK
<1>8. task[t] \in SignInStates \cup SignOutStates
  BY <1>2 DEF Inv, TaskOK
<1>9. task'[t].pc = now
  BY <1>7, <1>8 DEF SignInStates, SignOutStates
<1> QED
  BY <1>1, <1>2, <1>4, <1>5, <1>6, <1>9

LEMMA InitQueue == Init => WaitsInQueue /\ PoolKept
<1> SUFFICES ASSUME Init PROVE WaitsInQueue /\ PoolKept
  OBVIOUS
<1>1. \A t \in Tasks : task[t].pc = "idle"
  BY DEF Init, State
<1>2. OnThread = {}
  BY <1>1 DEF OnThread
<1>3. Cardinality(OnThread) = 0
  BY <1>2, FS_EmptySet
<1> QED
  BY <1>1, <1>3, SignInAssumption DEF WaitsInQueue, PoolKept, Queued

LEMMA NextWaits == Inv /\ WaitsInQueue /\ [Next]_vars => WaitsInQueue'
<1> SUFFICES ASSUME Inv, WaitsInQueue, [Next]_vars,
                    NEW u \in Tasks, task'[u].pc \in Queued
             PROVE  \E k \in 1..Len(queue') : queue'[k] = u
  BY DEF WaitsInQueue
<1>q. queue \in Seq(Tasks) /\ Len(queue) \in Nat
  BY DEF Inv
<1>1. CASE UNCHANGED <<task, queue>>
  BY <1>1 DEF WaitsInQueue
<1>2. ASSUME NEW t \in Tasks, Works(t) PROVE \E k \in 1..Len(queue') : queue'[k] = u
  <2>1. u # t /\ task[u].pc \in Queued /\ queue' = queue
    BY <1>2 DEF Works, Others
  <2> QED
    BY <2>1 DEF WaitsInQueue
<1>3. ASSUME NEW t \in Tasks, Joins(t) PROVE \E k \in 1..Len(queue') : queue'[k] = u
  <2>1. queue' = Append(queue, t) /\ Others(t)
    BY <1>3 DEF Joins
  <2>2. Len(queue') = Len(queue) + 1 /\ queue'[Len(queue) + 1] = t
    BY <1>q, <2>1
  <2>3. \A k \in 1..Len(queue) : queue'[k] = queue[k] /\ k \in 1..Len(queue')
    BY <1>q, <2>1, <2>2
  <2>4. CASE u = t
    BY <1>q, <2>2, <2>4
  <2>5. CASE u # t
    <3>1. PICK k \in 1..Len(queue) : queue[k] = u
      BY <2>1, <2>5 DEF Others, WaitsInQueue
    <3> QED
      BY <2>3, <3>1
  <2> QED
    BY <2>4, <2>5
<1>4. CASE TakeThread
  <2>1. u # queue[1]
    BY <1>4, ThreadMove DEF Queued, Threads
  <2>2. task[u].pc \in Queued
    BY <1>4, <2>1, ThreadMove DEF Others
  <2>3. PICK k \in 1..Len(queue) : queue[k] = u
    BY <2>2 DEF WaitsInQueue
  <2>4. k - 1 \in 1..Len(queue')
    BY <1>q, <1>4, <2>1, <2>3, ThreadMove
  <2>5. queue'[k - 1] = u
    BY <1>4, <2>3, <2>4, ThreadMove
  <2> QED
    BY <2>4, <2>5
<1> QED
  BY <1>1, <1>2, <1>3, <1>4, TaskMove

LEMMA NextPool == Inv /\ PoolKept /\ [Next]_vars => PoolKept'
<1> SUFFICES ASSUME Inv, PoolKept, [Next]_vars PROVE PoolKept'
  OBVIOUS
<1>f. IsFiniteSet(Tasks)
  BY SignInAssumption, FS_Union DEF Tasks
<1>t. IsFiniteSet(OnThread) /\ Cardinality(OnThread) \in Nat
  BY <1>f, FS_Subset, FS_CardinalityType DEF OnThread
<1>1. ASSUME OnThread' \subseteq OnThread PROVE PoolKept'
  <2>1. IsFiniteSet(OnThread') /\ Cardinality(OnThread') <= Cardinality(OnThread)
    BY <1>t, <1>1, FS_Subset
  <2>2. Cardinality(OnThread') \in Nat
    BY <2>1, FS_CardinalityType
  <2> QED
    BY <1>t, <2>1, <2>2, SignInAssumption DEF PoolKept
<1>2. CASE UNCHANGED <<task, queue>>
  BY <1>1, <1>2 DEF OnThread
<1>3. ASSUME NEW t \in Tasks, Works(t) \/ Joins(t) PROVE PoolKept'
  <2>1. task'[t].pc \in Threads => task[t].pc \in Threads
    BY <1>3 DEF Works, Joins, Queued, Threads
  <2>2. \A u \in Tasks \ {t} : task'[u] = task[u]
    BY <1>3 DEF Works, Joins, Others
  <2>3. OnThread' \subseteq OnThread
    BY <2>1, <2>2 DEF OnThread, Threads
  <2> QED
    BY <1>1, <2>3
<1>4. CASE TakeThread
  <2>1. OnThread' \subseteq OnThread \cup {queue[1]}
    BY <1>4, ThreadMove DEF OnThread, Others
  <2>2. IsFiniteSet(OnThread \cup {queue[1]})
    BY <1>t, FS_AddElement
  <2>3. Cardinality(OnThread \cup {queue[1]}) <= Cardinality(OnThread) + 1
    BY <1>t, FS_AddElement
  <2>4. Cardinality(OnThread') <= Cardinality(OnThread \cup {queue[1]})
    BY <2>1, <2>2, FS_Subset
  <2>5. /\ Cardinality(OnThread') \in Nat
        /\ Cardinality(OnThread \cup {queue[1]}) \in Nat
    <3>1. IsFiniteSet(OnThread')
      BY <2>1, <2>2, FS_Subset
    <3> QED
      BY <2>2, <3>1, FS_CardinalityType
  <2>6. Cardinality(OnThread) < PoolSize
    BY <1>4 DEF TakeThread
  <2> QED
    BY <1>t, <2>3, <2>4, <2>5, <2>6, SignInAssumption DEF PoolKept
<1> QED
  BY <1>2, <1>3, <1>4, TaskMove

LEMMA MovesUpStep == Inv /\ [Next]_vars => MovesUp
<1> SUFFICES ASSUME Inv, [Next]_vars, NEW t \in Tasks, NEW k \in 1..Len(queue), queue[k] = t
             PROVE  \/ WaitsAt(t, k)' /\ ~TakeThread
                    \/ TakeThread /\ k = 1 /\ t \in OnThread'
                    \/ TakeThread /\ k > 1 /\ WaitsAt(t, k - 1)'
  BY DEF MovesUp, WaitsAt
<1>q. queue \in Seq(Tasks) /\ Len(queue) \in Nat
  BY DEF Inv
<1>1. CASE TakeThread
  <2>1. CASE k = 1
    <3>1. task'[t].pc \in Threads
      BY <1>1, <2>1, ThreadMove
    <3> QED
      BY <1>1, <2>1, <3>1 DEF OnThread, Threads
  <2>2. CASE k # 1
    <3>1. k > 1 /\ k - 1 \in 1..Len(queue')
      BY <1>1, <1>q, <2>2, ThreadMove
    <3>2. queue'[k - 1] = t
      BY <1>1, <3>1, ThreadMove
    <3> QED
      BY <1>1, <3>1, <3>2 DEF WaitsAt
  <2> QED
    BY <2>1, <2>2
<1>2. CASE ~TakeThread
  <2>1. queue' = queue \/ \E u \in Tasks : queue' = Append(queue, u)
    BY <1>2, TaskMove DEF Works, Joins
  <2>2. k \in 1..Len(queue') /\ queue'[k] = queue[k]
    BY <1>q, <2>1
  <2> QED
    BY <1>2, <2>2 DEF WaitsAt
<1> QED
  BY <1>1, <1>2

\* No job that waits for a thread is forgotten, none is overtaken, and the pool
\* never runs more than it has threads: for a pool of any size and any tasks.
THEOREM QueueIsServedInOrder ==
    Spec => [](WaitsInQueue /\ PoolKept) /\ [][MovesUp]_vars
<1>1. Inv /\ [Next]_vars => [MovesUp]_vars
  BY MovesUpStep
<1>2. Spec => [](WaitsInQueue /\ PoolKept)
  BY InitInv, NextInv, InitQueue, NextWaits, NextPool, PTL DEF Spec
<1>3. Spec => [][MovesUp]_vars
  BY <1>1, InitInv, NextInv, PTL DEF Spec
<1> QED
  BY <1>2, <1>3, PTL

=============================================================================
