--------------------------- MODULE CollectionProofs ---------------------------
(***************************************************************************)
(* What the loop keeps, for any sessions and any host: its types, that a   *)
(* refused token is dropped, that a device stays one device, whose stores  *)
(* implement DeviceRegister, and that a cycle is finite and arrives.       *)
(***************************************************************************)
EXTENDS Collection, TLAPS

InCycle == loop.pc \notin {"noTokenYet", "ready"}

\* A delay is only begun while the ladder has one left.
LadderLeft == loop.pc \in {"configWait", "postWait"} => loop.attempt < Retries

\* A cycle has its token, and an identity from when it is made or found.
HasToken == InCycle => loop.token \in Sessions
HasId ==
    /\ loop.pc = "save" => loop.id \in Identities \ {Unknown}
    /\ loop.pc \in {"rows", "post", "postWait", "sent"} => loop.id \in Identities

TypeInv == TypeOK /\ LadderLeft /\ HasToken /\ HasId

\* Neither the session in memory nor the cycle's has been refused.
TokenInv == token \notin refused /\ loop.token \notin refused

\* An identity in memory is the stored one.
CachedIsStored == cached # None => Stored = cached

\* A new identity is made only where none is stored.
DerivesFirst ==
    loop.pc \in {"derive", "save"} =>
        cached = None /\ (slips = {} => Stored = None)

\* What a check-in is about to carry is the stored identity.
CarriesStored ==
    loop.pc \in {"rows", "post", "postWait", "sent"} =>
        (slips = {} /\ loop.id # Unknown => Stored = loop.id)

IdentityInv == CachedIsStored /\ DerivesFirst /\ CarriesStored /\ KnownIsKept

Cycle == [pc : Pcs, token : Sessions \cup {NoToken}, attempt : 0..Retries,
          asked : SUBSET Checks, rows : SUBSET Checks, id : Identities \cup {None}]

USE DEF At, RowsOf, Derivable

-----------------------------------------------------------------------------

LEMMA NoneIsNoIdentity == None \notin Identities
BY CollectionAssumption DEF Identities, None, Unknown

LEMMA RestType == \A pc \in Pcs : AtRest(pc) \in Cycle
BY DEF AtRest, Cycle, Retries

LEMMA Begun ==
    BeginCycle => loop' = [pc |-> "config", token |-> token, attempt |-> 0, asked |-> {},
                           rows |-> {}, id |-> None]
BY DEF BeginCycle, AtRest

\* The steps that only move the loop keep the record in its type.
LEMMA LoopType ==
    ASSUME TypeOK, LadderLeft, LoopStep
    PROVE  loop' \in Cycle
<1>t. loop \in Cycle
    BY DEF TypeOK, Cycle
<1>a. \A pc \in Pcs : [loop EXCEPT !.pc = pc] \in Cycle
    BY <1>t DEF Cycle
<1>e. AtRest("ready") \in Cycle
    BY RestType DEF Pcs
<1>1. CASE Requests
    <2>1. CASE FirstToken \/ PostAccepted
        BY <2>1, <1>a DEF FirstToken, PostAccepted, Goto, Pcs
    <2>2. CASE BeginCycle
        BY <2>2, Begun DEF Cycle, TypeOK, Pcs, Retries
    <2>3. CASE ConfigAccepted
        <3>1. PICK asked \in SUBSET Checks :
                 loop' = [loop EXCEPT !.pc = "collect", !.attempt = 0, !.asked = asked]
            BY <2>3 DEF ConfigAccepted
        <3>2. asked \in SUBSET Checks /\ 0 \in 0..Retries /\ "collect" \in Pcs
            BY DEF Retries, Pcs
        <3> QED
            BY <3>1, <3>2, <1>t DEF Cycle
    <2>4. CASE ConfigRefused \/ PostRefused \/ ConfigUseless \/ CycleEnds
        BY <2>4, <1>e DEF ConfigRefused, PostRefused, ConfigUseless, CycleEnds,
           InvalidateAuth, EndCycle
    <2>5. CASE ConfigFails \/ PostFails
        BY <2>5, <1>e, <1>a DEF ConfigFails, PostFails, RetryLater, EndCycle, Goto, Pcs
    <2>6. CASE DelayEnds("configWait", "config")
        <3>1. loop.attempt + 1 \in 0..Retries
            BY <2>6, <1>t DEF DelayEnds, LadderLeft, Cycle, Retries
        <3> QED
            BY <2>6, <1>t, <3>1 DEF DelayEnds, Cycle, Pcs
    <2>7. CASE DelayEnds("postWait", "post")
        <3>1. loop.attempt + 1 \in 0..Retries
            BY <2>7, <1>t DEF DelayEnds, LadderLeft, Cycle, Retries
        <3> QED
            BY <2>7, <1>t, <3>1 DEF DelayEnds, Cycle, Pcs
    <2>8. CASE CountRows
        BY <2>8, <1>t, <1>e DEF CountRows, EndCycle, Cycle, Pcs
    <2> QED
        BY <1>1, <2>1, <2>2, <2>3, <2>4, <2>5, <2>6, <2>7, <2>8 DEF Requests
<1>2. CASE Collect
    <2>1. PICK rows \in RowsOf(loop.asked) :
             loop' = [loop EXCEPT !.pc = "load", !.asked = {}, !.rows = rows]
        BY <1>2 DEF Collect
    <2>2. rows \in SUBSET Checks /\ {} \in SUBSET Checks /\ "load" \in Pcs
        BY <1>t DEF Cycle, Pcs
    <2> QED
        BY <1>t, <2>1, <2>2 DEF Cycle
<1>3. CASE Identify
    <2>1. ASSUME NEW id \in Identities \cup {None}, UseIdentity(id) PROVE loop' \in Cycle
        BY <2>1, <1>t DEF UseIdentity, Cycle, Pcs
    <2>2. {cached, Stored, loop.id, Unknown} \subseteq Identities \cup {None}
        BY <1>t DEF TypeOK, Stored, Cycle, Identities
    <2>3. CASE \E id \in {cached, Stored, loop.id, Unknown} : UseIdentity(id)
        BY <2>1, <2>2, <2>3
    <2>4. CASE Goto("derive")
        BY <2>4, <1>a DEF Goto, Pcs
    <2>5. CASE DeriveIdentity
        BY <2>5, <1>t DEF DeriveIdentity, Cycle, Pcs
    <2> QED
        BY <1>3, <2>3, <2>4, <2>5 DEF Identify, IdentityCached, IdentityStored,
           IdentityUnread, DeriveFails, SaveIdentity, SaveIdentityFails
<1> QED
    BY <1>1, <1>2, <1>3 DEF LoopStep

\* Where a step leaves the loop, and with which token and identity.
Keeps(pc) == loop'.pc = pc /\ loop'.token = loop.token

LEMMA Moves ==
    ASSUME loop \in Cycle
    PROVE  /\ \A pc : Goto(pc) => Keeps(pc) /\ loop'.id = loop.id
           /\ \A id : UseIdentity(id) => Keeps("rows") /\ loop'.id = id
           /\ EndCycle => loop'.pc = "ready" /\ loop'.token = NoToken
           /\ BeginCycle => loop'.pc = "config" /\ loop'.token = token
           /\ ConfigAccepted => Keeps("collect")
           /\ Collect => Keeps("load")
           /\ \A wait, send : DelayEnds(wait, send) => Keeps(send) /\ loop'.id = loop.id
           /\ CountRows => EndCycle \/ (Keeps("post") /\ loop'.id = loop.id)
           /\ DeriveIdentity => Keeps("save") /\ loop'.id \in Identities \ {Unknown}
<1>1. \A pc : Goto(pc) => Keeps(pc) /\ loop'.id = loop.id
    BY DEF Goto, Keeps, Cycle
<1>2. \A id : UseIdentity(id) => Keeps("rows") /\ loop'.id = id
    BY DEF UseIdentity, Keeps, Cycle
<1>3. EndCycle => loop'.pc = "ready" /\ loop'.token = NoToken
    BY DEF EndCycle, AtRest
<1>4. BeginCycle => loop'.pc = "config" /\ loop'.token = token
    BY Begun
<1>5. ConfigAccepted => Keeps("collect")
    BY DEF ConfigAccepted, Keeps, Cycle
<1>6. Collect => Keeps("load")
    BY DEF Collect, Keeps, Cycle
<1>7. \A wait, send : DelayEnds(wait, send) => Keeps(send) /\ loop'.id = loop.id
    BY DEF DelayEnds, Keeps, Cycle
<1>8. CountRows => EndCycle \/ (Keeps("post") /\ loop'.id = loop.id)
    BY DEF CountRows, Keeps, Cycle
<1>9. DeriveIdentity => Keeps("save") /\ loop'.id \in Identities \ {Unknown}
    BY DEF DeriveIdentity, Keeps, Cycle
<1> QED
    BY <1>1, <1>2, <1>3, <1>4, <1>5, <1>6, <1>7, <1>8, <1>9

\* Where a step that may not fail leaves the loop.
LEMMA LadderStep == TypeOK /\ LadderLeft /\ [Next]_vars => LadderLeft'
<1> SUFFICES ASSUME TypeOK, LadderLeft, [Next]_vars PROVE LadderLeft'
    OBVIOUS
<1>l. loop \in Cycle
    BY DEF TypeOK, Cycle
<1>1. CASE ConfigFails \/ PostFails
    BY <1>1, <1>l DEF ConfigFails, PostFails, RetryLater, EndCycle, AtRest, Goto,
       LadderLeft, Cycle
<1>2. CASE Requests /\ ~(ConfigFails \/ PostFails)
    <2>1. loop'.pc \notin {"configWait", "postWait"}
        BY <1>2, <1>l, Moves DEF Requests, FirstToken, ConfigRefused, ConfigUseless,
           InvalidateAuth, PostAccepted, PostRefused, CycleEnds, Keeps
    <2> QED
        BY <2>1 DEF LadderLeft
<1>3. CASE Collect \/ Identify
    <2>1. loop'.pc \notin {"configWait", "postWait"}
        BY <1>3, <1>l, Moves DEF Identify, IdentityCached, IdentityStored, IdentityUnread,
           DeriveFails, SaveIdentity, SaveIdentityFails, Keeps
    <2> QED
        BY <2>1 DEF LadderLeft
<1>4. CASE World \/ UNCHANGED vars
    BY <1>4 DEF World, TakeSession, SignOut, Restart, KeyringTurns, ServerTurns, Revoke,
       AtRest, vars, LadderLeft
<1> QED
    BY <1>1, <1>2, <1>3, <1>4 DEF Next, LoopStep

\* A cycle goes on with its token, ends, or begins with the session it finds.
LEMMA CycleToken ==
    ASSUME TypeOK, [Next]_vars
    PROVE  \/ loop'.pc \in {"noTokenYet", "ready"}
           \/ loop'.token = loop.token /\ InCycle
           \/ loop'.token = token /\ BeginCycle
<1>l. loop \in Cycle
    BY DEF TypeOK, Cycle
<1>1. CASE Requests
    BY <1>1, <1>l, Moves DEF Requests, FirstToken, ConfigAccepted, ConfigRefused,
       ConfigUseless, ConfigFails, DelayEnds, CountRows, InvalidateAuth, PostAccepted,
       PostRefused, PostFails, CycleEnds, RetryLater, InCycle, Keeps
<1>2. CASE Collect \/ Identify
    BY <1>2, <1>l, Moves DEF Collect, Identify, IdentityCached, IdentityStored,
       IdentityUnread, DeriveIdentity, DeriveFails, SaveIdentity, SaveIdentityFails,
       InCycle, Keeps
<1>3. CASE World \/ UNCHANGED vars
    BY <1>3 DEF World, TakeSession, SignOut, Restart, KeyringTurns, ServerTurns, Revoke,
       AtRest, vars, InCycle
<1> QED
    BY <1>1, <1>2, <1>3 DEF Next, LoopStep

LEMMA TokenStep == TypeOK /\ HasToken /\ [Next]_vars => HasToken'
<1> SUFFICES ASSUME TypeOK, HasToken, [Next]_vars PROVE HasToken'
    OBVIOUS
<1>1. BeginCycle => token \in Sessions
    BY DEF BeginCycle, TypeOK
<1> QED
    BY <1>1, CycleToken DEF HasToken, InCycle

LEMMA IdStep == TypeOK /\ HasId /\ [Next]_vars => HasId'
<1> SUFFICES ASSUME TypeOK, HasId, [Next]_vars PROVE HasId'
    OBVIOUS
<1>l. loop \in Cycle
    BY DEF TypeOK, Cycle
<1>1. CASE Requests
    <2>1. CASE \/ PostAccepted \/ PostFails \/ CountRows \/ DelayEnds("postWait", "post")
        <3>1. loop'.pc \in {"ready", "post", "postWait", "sent"}
              /\ (loop'.pc = "ready" \/ loop'.id = loop.id)
            BY <2>1, <1>l, Moves DEF PostAccepted, PostFails, CountRows, RetryLater, Keeps
        <3>2. loop.pc \in {"rows", "post", "postWait"}
            BY <2>1 DEF PostAccepted, PostFails, CountRows, DelayEnds
        <3> QED
            BY <3>1, <3>2 DEF HasId
    <2>2. CASE ~(PostAccepted \/ PostFails \/ CountRows \/ DelayEnds("postWait", "post"))
        <3>1. loop'.pc \in {"ready", "config", "configWait", "collect"}
            BY <1>1, <2>2, <1>l, Moves DEF Requests, FirstToken, ConfigRefused, ConfigUseless,
               ConfigFails, InvalidateAuth, PostRefused, CycleEnds, RetryLater, Keeps
        <3> QED
            BY <3>1 DEF HasId
    <2> QED
        BY <2>1, <2>2
<1>2. CASE Collect \/ Identify
    <2>1. cached \in Identities \cup {None} /\ Stored \in Identities \cup {None}
          /\ Unknown \in Identities
        BY DEF TypeOK, Stored, Identities
    <2> QED
        BY <1>2, <1>l, <2>1, Moves DEF Collect, Identify, IdentityCached, IdentityStored,
           IdentityUnread, DeriveFails, SaveIdentity, SaveIdentityFails, HasId, Keeps
<1>3. CASE World \/ UNCHANGED vars
    BY <1>3 DEF World, TakeSession, SignOut, Restart, KeyringTurns, ServerTurns, Revoke,
       AtRest, vars, HasId
<1> QED
    BY <1>1, <1>2, <1>3 DEF Next, LoopStep

\* Every step keeps every variable in its type.
LEMMA TypeStep == TypeInv /\ [Next]_vars => TypeInv'
<1> SUFFICES ASSUME TypeInv, [Next]_vars PROVE TypeOK'
    BY LadderStep, TokenStep, IdStep DEF TypeInv
<1>t. TypeOK /\ LadderLeft /\ HasToken /\ HasId
    BY DEF TypeInv
<1>l. loop \in Cycle
    BY <1>t DEF TypeOK, Cycle
<1>f. ASSUME loop' \in Cycle, UNCHANGED <<usable, up, revoked>>, token' \in {token, NoToken},
             refused' \subseteq Sessions, known' \subseteq Identities,
             {cached', keyring', file'} \subseteq (Identities \ {Unknown}) \cup {None},
             slips' \subseteq {"unread", "unsaved"}
      PROVE  TypeOK'
    BY <1>t, <1>f DEF TypeOK, Cycle
<1>1. CASE Requests \/ Collect
    <2>1. loop' \in Cycle
        BY <1>t, <1>1, LoopType DEF LoopStep
    <2>2. UNCHANGED <<usable, up, revoked, cached, keyring, file, slips>>
          /\ token' \in {token, NoToken}
        BY <1>1 DEF Requests, Collect, FirstToken, BeginCycle, ConfigAccepted, ConfigRefused,
           ConfigUseless, ConfigFails, DelayEnds, CountRows, InvalidateAuth, PostAccepted,
           PostRefused, PostFails, CycleEnds, identity, world, ghosts
    <2>3. refused' \in {refused, refused \cup {loop.token}}
          /\ (refused' = refused \/ loop.token \in Sessions)
        BY <1>1, <1>t DEF Requests, Collect, FirstToken, BeginCycle, ConfigAccepted,
           ConfigRefused, ConfigUseless, ConfigFails, DelayEnds, CountRows, InvalidateAuth,
           PostAccepted, PostRefused, PostFails, CycleEnds, ghosts, HasToken, InCycle
    <2>4. known' = known \/ (known' = known \cup {loop.id} /\ loop.id \in Identities)
        BY <1>1, <1>t DEF Requests, Collect, FirstToken, BeginCycle, ConfigAccepted,
           ConfigRefused, ConfigUseless, ConfigFails, DelayEnds, CountRows, InvalidateAuth,
           PostAccepted, PostRefused, PostFails, CycleEnds, ghosts, Arrives, HasId
    <2> QED
        BY <1>t, <2>1, <2>2, <2>3, <2>4, <1>f DEF TypeOK
<1>2. CASE Identify
    <2>1. loop' \in Cycle
        BY <1>t, <1>2, LoopType DEF LoopStep
    <2>2. UNCHANGED <<usable, up, revoked, token, refused, known>>
        BY <1>2 DEF Identify, IdentityCached, IdentityStored, IdentityUnread, DeriveIdentity,
           DeriveFails, SaveIdentity, SaveIdentityFails, world, ghosts
    <2>3. {cached', keyring', file'} \subseteq {cached, keyring, file, None, loop.id}
          /\ (loop.pc = "save" \/ {cached', keyring', file'} \subseteq {cached, keyring, file})
        BY <1>2 DEF Identify, IdentityCached, IdentityStored, IdentityUnread, DeriveIdentity,
           DeriveFails, SaveIdentity, SaveIdentityFails, identity, Stored
    <2>4. slips' \subseteq slips \cup {"unread", "unsaved"}
        BY <1>2 DEF Identify, IdentityCached, IdentityStored, IdentityUnread, DeriveIdentity,
           DeriveFails, SaveIdentity, SaveIdentityFails, ghosts
    <2>5. {cached', keyring', file'} \subseteq (Identities \ {Unknown}) \cup {None}
        BY <1>t, <2>3 DEF TypeOK, HasId
    <2> QED
        BY <1>t, <2>1, <2>2, <2>4, <2>5, <1>f DEF TypeOK
<1>3. CASE World
    <2>1. loop' = loop \/ loop' = AtRest("noTokenYet")
        BY <1>3 DEF World, TakeSession, SignOut, Restart, KeyringTurns, ServerTurns, Revoke
    <2>2. loop' \in Cycle
        BY <1>l, <2>1, RestType DEF Pcs
    <2>3. token' \in Sessions \cup {NoToken} /\ revoked' \subseteq Sessions
          /\ usable' \in BOOLEAN /\ up' \in BOOLEAN /\ refused' \subseteq Sessions
          /\ UNCHANGED <<keyring, file, known, slips>> /\ cached' \in {cached, None}
        BY <1>3, <1>t DEF World, TakeSession, SignOut, Restart, KeyringTurns, ServerTurns,
           Revoke, TypeOK, identity, world, ghosts
    <2> QED
        BY <1>t, <2>2, <2>3 DEF TypeOK, Cycle
<1>4. CASE UNCHANGED vars
    BY <1>4, <1>t DEF vars, identity, world, ghosts, TypeOK
<1> QED
    BY <1>1, <1>2, <1>3, <1>4 DEF Next, LoopStep

LEMMA InitType == Init => TypeInv
<1> SUFFICES ASSUME Init PROVE TypeInv
    OBVIOUS
<1>1. loop.pc = "noTokenYet"
    BY DEF Init, AtRest
<1>2. TypeOK
    BY RestType DEF Init, TypeOK, Cycle, Pcs
<1> QED
    BY <1>1, <1>2 DEF TypeInv, LadderLeft, HasToken, HasId, InCycle

\* Every variable keeps its type.
THEOREM TypeCorrect == Spec => []TypeOK
<1>1. TypeInv => TypeOK
    BY DEF TypeInv
<1> QED
    BY <1>1, InitType, TypeStep, PTL DEF Spec

-----------------------------------------------------------------------------
(* Refused tokens.                                                         *)

LEMMA TokenRefusal == TypeInv /\ TokenInv /\ [Next]_vars => TokenInv'
<1> SUFFICES ASSUME TypeInv, TokenInv, [Next]_vars PROVE TokenInv'
    OBVIOUS
<1>t. TypeOK /\ HasToken
    BY DEF TypeInv
<1>l. loop \in Cycle
    BY <1>t DEF TypeOK, Cycle
<1>n. NoToken \notin refused'
    <2>1. TypeOK'
        BY TypeStep DEF TypeInv
    <2> QED
        BY <2>1, CollectionAssumption DEF TypeOK
<1>1. CASE ConfigRefused \/ PostRefused
    BY <1>1, <1>n, <1>l, Moves DEF ConfigRefused, PostRefused, InvalidateAuth, TokenInv
<1>2. CASE Restart
    BY <1>2, <1>n DEF Restart, AtRest, TokenInv
<1>3. CASE TakeSession
    BY <1>3 DEF TakeSession, TokenInv, ghosts
<1>4. CASE ~(ConfigRefused \/ PostRefused \/ Restart \/ TakeSession)
    <2>1. refused' = refused /\ token' \in {token, NoToken}
        BY <1>4 DEF Next, LoopStep, World, Requests, Identify, FirstToken, BeginCycle,
           ConfigAccepted, ConfigUseless, ConfigFails, DelayEnds, CountRows, PostAccepted,
           PostFails, CycleEnds, Collect, IdentityCached, IdentityStored, IdentityUnread,
           DeriveIdentity, DeriveFails, SaveIdentity, SaveIdentityFails, SignOut,
           KeyringTurns, ServerTurns, Revoke, vars, ghosts
    <2>2. loop'.token \in {loop.token, token, NoToken}
        <3>1. CASE Requests
            BY <3>1, <1>4, <1>l, Moves DEF Requests, FirstToken, ConfigAccepted,
               ConfigUseless, ConfigFails, DelayEnds, CountRows, PostAccepted, PostFails,
               CycleEnds, RetryLater, Keeps
        <3>2. CASE Collect \/ Identify
            BY <3>2, <1>l, Moves DEF Identify, IdentityCached, IdentityStored,
               IdentityUnread, DeriveFails, SaveIdentity, SaveIdentityFails, Keeps
        <3>3. CASE World \/ UNCHANGED vars
            BY <3>3, <1>4 DEF World, SignOut, KeyringTurns, ServerTurns, Revoke, vars
        <3> QED
            BY <3>1, <3>2, <3>3 DEF Next, LoopStep
    <2> QED
        BY <1>n, <2>1, <2>2 DEF TokenInv
<1> QED
    BY <1>1, <1>2, <1>3, <1>4

\* Nothing more is sent with a token seen refused, whichever request was refused
\* and whoever signed in or out meanwhile.
THEOREM RefusedIsDropped == Spec => []RefusedNotReused
<1>1. Init => TokenInv
    BY CollectionAssumption DEF Init, TokenInv, AtRest
<1>2. TokenInv => RefusedNotReused
    BY DEF TokenInv, RefusedNotReused
<1> QED
    BY <1>1, <1>2, InitType, TypeStep, TokenRefusal, PTL DEF Spec

-----------------------------------------------------------------------------
(* The device identity.                                                    *)

\* The steps that leave the stores and the ghosts about them alone.
LEMMA StoresStay ==
    ASSUME TypeInv, IdentityInv, UNCHANGED <<keyring, file, slips>>,
           cached' \in {cached, None},
           loop'.pc \in {"derive", "save"} => loop.pc = loop'.pc \/ loop.pc = "derive",
           loop'.pc \in {"rows", "post", "postWait", "sent"} =>
               loop.pc \in {"rows", "post", "postWait", "sent"} /\ loop'.id = loop.id,
           known' = known \/ (known' = known \cup {loop.id} /\ loop.pc = "post")
    PROVE  IdentityInv'
<1>1. Stored' = Stored
    BY DEF Stored
<1>2. CachedIsStored' /\ CarriesStored'
    BY <1>1 DEF IdentityInv, CachedIsStored, CarriesStored
<1>3. DerivesFirst'
    BY <1>1 DEF IdentityInv, DerivesFirst
<1>4. KnownIsKept'
    BY <1>1 DEF IdentityInv, CarriesStored, KnownIsKept
<1> QED
    BY <1>2, <1>3, <1>4 DEF IdentityInv

LEMMA IdentityStep == TypeInv /\ IdentityInv /\ [Next]_vars => IdentityInv'
<1> SUFFICES ASSUME TypeInv, IdentityInv, [Next]_vars PROVE IdentityInv'
    OBVIOUS
<1>t. TypeOK /\ HasId /\ loop \in Cycle
    BY DEF TypeInv, TypeOK, Cycle
<1>i. CachedIsStored /\ DerivesFirst /\ CarriesStored /\ KnownIsKept
    BY DEF IdentityInv
<1>1. CASE Requests \/ Collect
    <2>1. UNCHANGED <<keyring, file, slips, cached>>
          /\ (known' = known \/ (known' = known \cup {loop.id} /\ loop.pc = "post"))
        BY <1>1 DEF Requests, Collect, FirstToken, BeginCycle, ConfigAccepted, ConfigRefused,
           ConfigUseless, ConfigFails, DelayEnds, CountRows, InvalidateAuth, PostAccepted,
           PostRefused, PostFails, CycleEnds, Arrives, identity, ghosts
    <2>2. loop'.pc \notin {"derive", "save", "rows"}
        BY <1>1, <1>t, Moves DEF Requests, FirstToken, ConfigRefused, ConfigUseless,
           ConfigFails, InvalidateAuth, PostAccepted, PostRefused, PostFails, CycleEnds,
           RetryLater, Keeps
    <2>3. loop'.pc \in {"post", "postWait", "sent"} =>
              loop.pc \in {"rows", "post", "postWait"} /\ loop'.id = loop.id
        BY <1>1, <1>t, Moves DEF Requests, FirstToken, ConfigRefused, ConfigUseless,
           ConfigFails, InvalidateAuth, PostAccepted, PostRefused, PostFails, CycleEnds,
           CountRows, DelayEnds, RetryLater, Keeps
    <2> QED
        BY <2>1, <2>2, <2>3, StoresStay
<1>2. CASE Identify
    <2>1. CASE IdentityCached
        BY <2>1, <1>i, <1>t, Moves DEF IdentityCached, identity, ghosts, Keeps, IdentityInv,
           CachedIsStored, DerivesFirst, CarriesStored, KnownIsKept, Stored
    <2>2. CASE IdentityStored
        <3>1. UNCHANGED <<keyring, file, slips, known>> /\ Stored' = Stored
            BY <2>2 DEF IdentityStored, ghosts, Stored
        <3>2. CASE Stored # None
            <4>1. cached' = Stored /\ loop'.pc = "rows" /\ loop'.id = Stored
                BY <2>2, <3>2, <1>t, Moves DEF IdentityStored, Keeps
            <4> QED
                BY <4>1, <3>1, <1>i DEF IdentityInv, CachedIsStored, DerivesFirst,
                   CarriesStored, KnownIsKept
        <3>3. CASE Stored = None
            <4>1. cached' = None /\ loop'.pc = "derive"
                BY <2>2, <3>3, <1>t, Moves DEF IdentityStored, Keeps
            <4> QED
                BY <4>1, <3>1, <3>3, <1>i DEF IdentityInv, CachedIsStored, DerivesFirst,
                   CarriesStored, KnownIsKept
        <3> QED
            BY <3>2, <3>3
    <2>3. CASE IdentityUnread
        <3>1. UNCHANGED <<cached, keyring, file, known>> /\ cached = None
              /\ loop'.pc = "derive" /\ Stored' = Stored
            BY <2>3, <1>t, Moves DEF IdentityUnread, identity, Keeps, Stored
        <3>2. slips' = {} => slips = {} /\ Stored = None
            BY <2>3 DEF IdentityUnread, Stored
        <3> QED
            BY <3>1, <3>2, <1>i DEF IdentityInv, CachedIsStored, DerivesFirst, CarriesStored,
               KnownIsKept
    <2>4. CASE DeriveIdentity
        BY <2>4, <1>t, Moves, StoresStay DEF DeriveIdentity, identity, ghosts, Keeps
    <2>5. CASE DeriveFails
        <3>1. UNCHANGED <<cached, keyring, file, known, slips>> /\ Stored' = Stored
              /\ loop'.pc = "rows" /\ loop'.id = Unknown
            BY <2>5, <1>t, Moves DEF DeriveFails, identity, ghosts, Keeps, Stored
        <3> QED
            BY <3>1, <1>i DEF IdentityInv, CachedIsStored, DerivesFirst, CarriesStored,
               KnownIsKept
    <2>6. CASE SaveIdentity
        <3>1. loop.id # None
            BY <2>6, <1>t, NoneIsNoIdentity DEF SaveIdentity, HasId
        <3>2. Stored' = loop.id /\ cached' = loop.id /\ UNCHANGED <<known, slips>>
            BY <2>6, <3>1 DEF SaveIdentity, Stored, ghosts
        <3>3. loop'.pc = "rows" /\ loop'.id = loop.id
            BY <2>6, <1>t, Moves DEF SaveIdentity, Keeps
        <3>4. slips = {} => known \ {Unknown} = {}
            <4>1. slips = {} => \A id \in known \ {Unknown} : id = None
                BY <2>6, <1>i DEF SaveIdentity, DerivesFirst, KnownIsKept
            <4> QED
                BY <4>1, <1>t, NoneIsNoIdentity DEF TypeOK
        <3> QED
            BY <3>1, <3>2, <3>3, <3>4 DEF IdentityInv, CachedIsStored, DerivesFirst,
               CarriesStored, KnownIsKept
    <2>7. CASE SaveIdentityFails
        <3>1. UNCHANGED <<cached, keyring, file>> /\ Stored' = Stored /\ slips' # {}
              /\ loop'.pc = "rows"
            BY <2>7, <1>t, Moves DEF SaveIdentityFails, identity, Keeps, Stored
        <3> QED
            BY <3>1, <1>i DEF IdentityInv, CachedIsStored, DerivesFirst, CarriesStored,
               KnownIsKept
    <2> QED
        BY <1>2, <2>1, <2>2, <2>3, <2>4, <2>5, <2>6, <2>7 DEF Identify
<1>3. CASE World
    <2>1. UNCHANGED <<keyring, file, slips, known>> /\ cached' \in {cached, None}
        BY <1>3 DEF World, TakeSession, SignOut, Restart, KeyringTurns, ServerTurns, Revoke,
           identity, ghosts
    <2>2. loop' = loop \/ loop'.pc = "noTokenYet"
        BY <1>3 DEF World, TakeSession, SignOut, Restart, KeyringTurns, ServerTurns, Revoke,
           AtRest
    <2> QED
        BY <2>1, <2>2, StoresStay
<1>4. CASE UNCHANGED vars
    BY <1>4, StoresStay DEF vars, identity, ghosts
<1> QED
    BY <1>1, <1>2, <1>3, <1>4 DEF Next, LoopStep

\* While both stores answer, every check-in the API has, of this process or of one
\* before it, names the identity that the next load gives.
THEOREM DeviceStaysOne == Spec => []KnownIsKept
<1>1. Init => IdentityInv
    BY DEF Init, AtRest, IdentityInv, CachedIsStored, DerivesFirst, CarriesStored,
       KnownIsKept
<1>2. IdentityInv => KnownIsKept
    BY DEF IdentityInv
<1> QED
    BY <1>1, <1>2, InitType, TypeStep, IdentityStep, PTL DEF Spec

-----------------------------------------------------------------------------
(* A cycle is finite, which is what EveryCycleEnds rests on.               *)

\* How many steps of the loop a cycle has yet to take, at most.
StepsLeft ==
    LET ladder == 2 * (Retries - loop.attempt)
    IN  CASE loop.pc = "config"     -> 12 + ladder
          [] loop.pc = "configWait" -> 11 + ladder
          [] loop.pc = "collect"    -> 11
          [] loop.pc = "load"       -> 10
          [] loop.pc = "derive"     -> 9
          [] loop.pc = "save"       -> 8
          [] loop.pc = "rows"       -> 7
          [] loop.pc = "post"       -> 2 + ladder
          [] loop.pc = "postWait"   -> 1 + ladder
          [] loop.pc = "sent"       -> 1
          [] OTHER                  -> 0

\* A step of the loop brings its cycle nearer to the end or ends it, and the
\* world, however often it turns, leaves the cycle where it is or ends it.
CountsDown ==
    InCycle => \/ ~InCycle'
               \/ LoopStep /\ StepsLeft' < StepsLeft
               \/ ~LoopStep /\ UNCHANGED loop

LEMMA StepsLeftBound == TypeOK => StepsLeft \in 0..16
<1> SUFFICES ASSUME TypeOK PROVE StepsLeft \in 0..16
    OBVIOUS
<1>1. loop.attempt \in 0..2 /\ loop.pc \in Pcs
    BY DEF TypeOK, Retries
<1> QED
    BY <1>1 DEF StepsLeft, Retries, Pcs

LEMMA CountsDownStep == TypeInv /\ [Next]_vars => CountsDown
<1> SUFFICES ASSUME TypeInv, [Next]_vars, InCycle PROVE CountsDown
    BY DEF CountsDown
<1>l. loop \in Cycle /\ loop.attempt \in 0..2
    BY DEF TypeInv, TypeOK, Cycle, Retries
<1>2. ASSUME LoopStep PROVE ~InCycle' \/ StepsLeft' < StepsLeft
    <2>1. CASE loop'.pc \in {"ready", "noTokenYet"}
        BY <2>1 DEF InCycle
    <2>2. CASE ConfigAccepted
        <3>1. loop.pc = "config" /\ loop'.pc = "collect"
            BY <2>2, <1>l, Moves DEF ConfigAccepted, Keeps
        <3> QED
            BY <3>1, <1>l DEF StepsLeft, Retries
    <2>3. CASE ConfigFails \/ PostFails
        <3>1. CASE EndCycle
            BY <3>1, <2>1, <1>l, Moves
        <3>2. CASE loop.attempt < Retries /\ loop.pc = "config" /\ Goto("configWait")
            <4>1. loop'.pc = "configWait" /\ loop'.attempt = loop.attempt
                BY <3>2, <1>l DEF Goto, Cycle
            <4> QED
                BY <3>2, <4>1, <1>l DEF StepsLeft, Retries
        <3>3. CASE loop.attempt < Retries /\ loop.pc = "post" /\ Goto("postWait")
            <4>1. loop'.pc = "postWait" /\ loop'.attempt = loop.attempt
                BY <3>3, <1>l DEF Goto, Cycle
            <4> QED
                BY <3>3, <4>1, <1>l DEF StepsLeft, Retries
        <3> QED
            BY <2>3, <3>1, <3>2, <3>3 DEF ConfigFails, PostFails, RetryLater
    <2>4. CASE DelayEnds("configWait", "config")
        <3>1. loop.pc = "configWait" /\ loop'.pc = "config" /\ loop'.attempt = loop.attempt + 1
            BY <2>4, <1>l DEF DelayEnds, Cycle
        <3> QED
            BY <3>1, <1>l DEF StepsLeft, Retries
    <2>5. CASE DelayEnds("postWait", "post")
        <3>1. loop.pc = "postWait" /\ loop'.pc = "post" /\ loop'.attempt = loop.attempt + 1
            BY <2>5, <1>l DEF DelayEnds, Cycle
        <3> QED
            BY <3>1, <1>l DEF StepsLeft, Retries
    <2>6. CASE CountRows
        <3>1. CASE EndCycle
            BY <3>1, <2>1, <1>l, Moves
        <3>2. CASE ~EndCycle
            <4>1. loop.pc = "rows" /\ loop'.pc = "post" /\ loop'.attempt = loop.attempt
                BY <2>6, <3>2, <1>l DEF CountRows, Cycle
            <4> QED
                BY <4>1, <1>l DEF StepsLeft, Retries
        <3> QED
            BY <3>1, <3>2
    <2>7. CASE PostAccepted
        <3>1. loop.pc = "post" /\ loop'.pc = "sent"
            BY <2>7, <1>l, Moves DEF PostAccepted, Keeps
        <3> QED
            BY <3>1, <1>l DEF StepsLeft, Retries
    <2>8. CASE ConfigRefused \/ ConfigUseless \/ PostRefused \/ CycleEnds
        BY <2>8, <2>1, <1>l, Moves DEF ConfigRefused, ConfigUseless, PostRefused, CycleEnds,
           InvalidateAuth
    <2>9. CASE Collect
        <3>1. loop.pc = "collect" /\ loop'.pc = "load"
            BY <2>9, <1>l, Moves DEF Collect, Keeps
        <3> QED
            BY <3>1 DEF StepsLeft
    <2>10. CASE Identify
        <3>1. \/ loop.pc \in {"load", "derive", "save"} /\ loop'.pc = "rows"
              \/ loop.pc = "load" /\ loop'.pc = "derive"
              \/ loop.pc = "derive" /\ loop'.pc = "save"
            BY <2>10, <1>l, Moves DEF Identify, IdentityCached, IdentityStored, IdentityUnread,
               DeriveIdentity, DeriveFails, SaveIdentity, SaveIdentityFails, Keeps
        <3> QED
            BY <3>1 DEF StepsLeft
    <2>11. ~FirstToken /\ ~BeginCycle
        BY DEF FirstToken, BeginCycle, InCycle
    <2> QED
        BY <1>2, <2>2, <2>3, <2>4, <2>5, <2>6, <2>7, <2>8, <2>9, <2>10, <2>11
           DEF LoopStep, Requests
<1>3. CASE World \/ UNCHANGED vars
    <2>1. UNCHANGED loop \/ ~InCycle'
        BY <1>3 DEF World, TakeSession, SignOut, Restart, KeyringTurns, ServerTurns, Revoke,
           AtRest, vars, InCycle
    <2> QED
        BY <2>1, <1>2 DEF CountsDown
<1> QED
    BY <1>2, <1>3 DEF Next, CountsDown

\* However the API answers and whatever the stores do, a cycle takes at most
\* sixteen steps of the loop, both ladders included.
THEOREM CyclesAreFinite == Spec => [](StepsLeft \in 0..16) /\ [][CountsDown]_vars
<1>1. TypeInv => StepsLeft \in 0..16
    BY StepsLeftBound DEF TypeInv
<1>2. TypeInv /\ [Next]_vars => [CountsDown]_vars
    BY CountsDownStep
<1> QED
    BY <1>1, <1>2, InitType, TypeStep, PTL DEF Spec
-----------------------------------------------------------------------------
(* The stores as one register, written once.                               *)

Device == INSTANCE DeviceRegister WITH identity <- Stored, slipped <- slips # {}

\* What the stores hold, if anything, was made from a source.
StoredType == Stored = None \/ Stored \notin {None, Unknown}

\* The steps that leave the stores and what the API knows alone.
LEMMA QuietStep ==
    ASSUME UNCHANGED <<keyring, file, known>>, slips \subseteq slips'
    PROVE  [Device!Next]_Device!registerVars
<1>1. Stored' = Stored
    BY DEF Stored
<1>2. CASE slips = {} /\ slips' = {}
    BY <1>1, <1>2 DEF Device!registerVars
<1>3. CASE slips = {} /\ slips' # {}
    BY <1>1, <1>3 DEF Device!Next, Device!Slip
<1>4. CASE slips # {}
    <2>1. slips' # {}
        BY <1>4
    <2> QED
        BY <1>1, <1>4, <2>1 DEF Device!Next, Device!AfterSlip
<1> QED
    BY <1>2, <1>3, <1>4

\* A check-in that arrives names what is stored, or nobody.
LEMMA ArrivalOfRegister ==
    ASSUME TypeInv, IdentityInv, loop.pc = "post",
           UNCHANGED <<keyring, file, slips>>, Arrives
    PROVE  [Device!Next]_Device!registerVars
<1>1. Stored' = Stored
    BY DEF Stored
<1>2. loop.id # None
    BY NoneIsNoIdentity DEF TypeInv, HasId
<1>3. CASE slips = {}
    <2>1. loop.id \in {Stored, Unknown} \ {Device!None}
        BY <1>2, <1>3 DEF IdentityInv, CarriesStored, Device!None, None
    <2>2. known' = known \cup {loop.id}
        BY DEF Arrives
    <2>3. Device!CheckIn
        BY <1>1, <2>1, <2>2 DEF Device!CheckIn, Unknown, Device!Unknown
    <2> QED
        BY <1>3, <2>3 DEF Device!Next
<1>4. CASE slips # {}
    <2>1. known \subseteq known'
        BY DEF Arrives
    <2> QED
        BY <1>1, <1>4, <2>1 DEF Device!Next, Device!AfterSlip
<1> QED
    BY <1>3, <1>4

\* An identity is saved where none is stored, unless a store has slipped.
LEMMA SaveOfRegister ==
    ASSUME TypeInv, IdentityInv, SaveIdentity
    PROVE  [Device!Next]_Device!registerVars
<1>1. loop.id \in Identities \ {Unknown}
    BY DEF TypeInv, HasId, SaveIdentity
<1>2. loop.id \notin {Device!None, Device!Unknown}
    BY <1>1, NoneIsNoIdentity DEF None, Unknown, Device!None, Device!Unknown
<1>3. Stored' = loop.id
    BY <1>2 DEF SaveIdentity, Stored, None, Device!None
<1>4. UNCHANGED <<known, slips>>
    BY DEF SaveIdentity, ghosts
<1>5. CASE slips = {}
    <2>1. Stored = Device!None
        BY <1>5 DEF SaveIdentity, IdentityInv, DerivesFirst, None, Device!None
    <2>2. Device!Assign
        BY <1>2, <1>3, <1>4, <2>1 DEF Device!Assign
    <2> QED
        BY <1>5, <2>2 DEF Device!Next
<1>6. CASE slips # {}
    BY <1>2, <1>3, <1>4, <1>6 DEF Device!Next, Device!AfterSlip
<1> QED
    BY <1>5, <1>6

LEMMA StepOfRegister ==
    ASSUME TypeInv, IdentityInv, [Next]_vars
    PROVE  [Device!Next]_Device!registerVars
<1>1. CASE Requests
    <2>1. UNCHANGED <<keyring, file, slips>>
        BY <1>1 DEF Requests, FirstToken, BeginCycle, ConfigAccepted, ConfigRefused,
           ConfigUseless, ConfigFails, DelayEnds, CountRows, PostAccepted, PostRefused,
           PostFails, CycleEnds, identity, ghosts
    <2>2. UNCHANGED known \/ (Arrives /\ loop.pc = "post")
        BY <1>1 DEF Requests, FirstToken, BeginCycle, ConfigAccepted, ConfigRefused,
           ConfigUseless, ConfigFails, DelayEnds, CountRows, PostAccepted, PostRefused,
           PostFails, CycleEnds, ghosts
    <2> QED
        BY <2>1, <2>2, QuietStep, ArrivalOfRegister
<1>2. CASE Collect \/ World \/ UNCHANGED vars
    <2>1. UNCHANGED <<keyring, file, known, slips>>
        BY <1>2 DEF Collect, World, TakeSession, SignOut, Restart, KeyringTurns, ServerTurns,
           Revoke, vars, identity, ghosts
    <2> QED
        BY <2>1, QuietStep
<1>3. CASE Identify /\ ~SaveIdentity
    <2>1. UNCHANGED <<keyring, file, known>>
        BY <1>3 DEF Identify, IdentityCached, IdentityStored, IdentityUnread, DeriveIdentity,
           DeriveFails, SaveIdentityFails, identity, ghosts
    <2>2. slips \subseteq slips'
        BY <1>3 DEF Identify, IdentityCached, IdentityStored, IdentityUnread, DeriveIdentity,
           DeriveFails, SaveIdentityFails, ghosts
    <2> QED
        BY <2>1, <2>2, QuietStep
<1> QED
    BY <1>1, <1>2, <1>3, SaveOfRegister DEF Next, LoopStep

\* The keyring, the fallback file and the memory of any number of processes are
\* one register of the device: written once, named by every check-in, and, once a
\* store has slipped, replaced at worst and never lost.
THEOREM StoresAreOneDevice == Spec => Device!Spec
<1>1. Init => IdentityInv
    BY DEF Init, AtRest, IdentityInv, CachedIsStored, DerivesFirst, CarriesStored,
       KnownIsKept
<1>2. Init => Device!Init
    BY DEF Init, Device!Init, Stored, None, Device!None
<1>3. TypeInv /\ IdentityInv /\ [Next]_vars => [Device!Next]_Device!registerVars
    BY StepOfRegister
<1> QED
    BY <1>1, <1>2, <1>3, InitType, TypeStep, IdentityStep, PTL DEF Spec, Device!Spec

-----------------------------------------------------------------------------
(* A cycle that the API would accept reaches it: what ChecksInForever      *)
(* rests on.                                                               *)

\* The cycle still has the native check to make, or its row to send.
OnTrack ==
    /\ InCycle
    /\ loop.pc = "collect" => "native" \in loop.asked
    /\ loop.pc \in {"load", "derive", "save", "rows"} => "native" \in loop.rows

\* The API is as it should be and accepts the cycle's token.
Accepts == up /\ loop.token \notin revoked

\* A cycle begins on track.  While the API accepts its token, every step of the
\* loop but the last keeps it on track and brings it nearer to the check-in, and
\* the world leaves it where it is, short of the end of the process.
StaysOnTrack ==
    /\ BeginCycle => OnTrack' /\ loop'.token = token
    /\ OnTrack /\ loop.pc # "sent" /\ Accepts /\ LoopStep => OnTrack' /\ StepsLeft' < StepsLeft
    /\ ~LoopStep => UNCHANGED loop \/ loop'.pc = "noTokenYet"

LEMMA StaysOnTrackStep == TypeInv /\ [Next]_vars => StaysOnTrack
<1> SUFFICES ASSUME TypeInv, [Next]_vars PROVE StaysOnTrack
    OBVIOUS
<1>l. loop \in Cycle
    BY DEF TypeInv, TypeOK, Cycle
<1>1. BeginCycle => OnTrack' /\ loop'.token = token
    BY Begun DEF OnTrack, InCycle
<1>2. ~LoopStep => UNCHANGED loop \/ loop'.pc = "noTokenYet"
    BY DEF Next, World, TakeSession, SignOut, Restart, KeyringTurns, ServerTurns, Revoke,
       AtRest, vars
<1>3. ASSUME OnTrack, loop.pc # "sent", Accepts, LoopStep PROVE OnTrack'
    <2>1. CASE ConfigAccepted
        <3>1. PICK asked \in SUBSET Checks :
                 /\ up => "native" \in asked
                 /\ loop' = [loop EXCEPT !.pc = "collect", !.attempt = 0, !.asked = asked]
            BY <2>1 DEF ConfigAccepted
        <3>2. loop'.pc = "collect" /\ loop'.asked = asked
            BY <3>1, <1>l DEF Cycle
        <3> QED
            BY <1>3, <3>1, <3>2 DEF OnTrack, InCycle, Accepts
    <2>2. ~ConfigRefused /\ ~PostRefused /\ ~ConfigUseless /\ ~ConfigFails /\ ~PostFails
        BY <1>3 DEF Accepts, ConfigRefused, PostRefused, ConfigUseless, ConfigFails,
           PostFails, MayRefuse, MayFail
    <2>3. ~FirstToken /\ ~BeginCycle /\ ~CycleEnds
        BY <1>3 DEF FirstToken, BeginCycle, CycleEnds, OnTrack, InCycle
    <2>4. CASE DelayEnds("configWait", "config") \/ DelayEnds("postWait", "post")
               \/ PostAccepted
        <3>1. loop'.pc \in {"config", "post", "sent"}
            BY <2>4, <1>l, Moves DEF PostAccepted, Keeps
        <3> QED
            BY <3>1 DEF OnTrack, InCycle
    <2>5. CASE CountRows
        <3>1. loop.rows # {}
            BY <2>5, <1>3 DEF CountRows, OnTrack
        <3>2. loop'.pc = "post"
            BY <2>5, <3>1, <1>l DEF CountRows, Cycle
        <3> QED
            BY <3>2 DEF OnTrack, InCycle
    <2>6. CASE Collect
        <3>1. PICK rows \in RowsOf(loop.asked) :
                 loop' = [loop EXCEPT !.pc = "load", !.asked = {}, !.rows = rows]
            BY <2>6 DEF Collect
        <3>2. loop'.pc = "load" /\ loop'.rows = rows
            BY <3>1, <1>l DEF Cycle
        <3>3. "native" \in rows
            BY <2>6, <1>3, <3>1 DEF Collect, OnTrack
        <3> QED
            BY <3>2, <3>3 DEF OnTrack, InCycle
    <2>7. CASE Identify
        <3>1. loop.pc \in {"load", "derive", "save"}
            BY <2>7 DEF Identify, IdentityCached, IdentityStored, IdentityUnread,
               DeriveIdentity, DeriveFails, SaveIdentity, SaveIdentityFails
        <3>2. loop'.pc \in {"derive", "save", "rows"}
            BY <2>7, <1>l, Moves DEF Identify, IdentityCached, IdentityStored, IdentityUnread,
               DeriveIdentity, DeriveFails, SaveIdentity, SaveIdentityFails, Keeps
        <3>3. \A id : UseIdentity(id) => loop'.rows = loop.rows
            BY <1>l DEF UseIdentity, Cycle
        <3>4. \A pc : Goto(pc) => loop'.rows = loop.rows
            BY <1>l DEF Goto, Cycle
        <3>5. DeriveIdentity => loop'.rows = loop.rows
            BY <1>l DEF DeriveIdentity, Cycle
        <3>6. loop'.rows = loop.rows
            BY <2>7, <3>3, <3>4, <3>5 DEF Identify, IdentityCached, IdentityStored,
               IdentityUnread, DeriveFails, SaveIdentity, SaveIdentityFails
        <3> QED
            BY <1>3, <3>1, <3>2, <3>6 DEF OnTrack, InCycle
    <2> QED
        BY <1>3, <2>1, <2>2, <2>3, <2>4, <2>5, <2>6, <2>7 DEF LoopStep, Requests
<1>4. ASSUME OnTrack, loop.pc # "sent", Accepts, LoopStep PROVE StepsLeft' < StepsLeft
    <2>1. OnTrack'
        BY <1>3, <1>4
    <2> QED
        BY <1>4, <2>1, CountsDownStep DEF CountsDown, OnTrack
<1> QED
    BY <1>1, <1>2, <1>3, <1>4 DEF StaysOnTrack

\* Neither an osquery that does not start nor an identity that cannot be kept
\* takes a cycle off its way: while the API accepts its token, it arrives.
THEOREM AcceptedCycleArrives == Spec => [][StaysOnTrack]_vars
<1>1. TypeInv /\ [Next]_vars => [StaysOnTrack]_vars
    BY StaysOnTrackStep
<1> QED
    BY <1>1, InitType, TypeStep, PTL DEF Spec

=============================================================================
