------------------------------ MODULE Collection ------------------------------
(***************************************************************************)
(* The background collection loop: run_cycle with its two requests and     *)
(* their retry ladder, the native and osquery checks between them, and the *)
(* device identity a check-in carries.                                     *)
(*                                                                         *)
(* Session has the sharing of the token between tasks; here the session is *)
(* what the loop finds when it looks.  The identity's two stores are taken *)
(* whole: CredentialStore has their system calls.                          *)
(***************************************************************************)
EXTENDS Naturals, FiniteSets

CONSTANTS
    Sessions,      \* tokens, of one sign-in each
    Randoms,       \* identities a host with no other source may draw
    HasMachineId   \* whether the host has a machine id (Linux)

Retries == 2  \* the delays of 60 and 120 s

NoToken == "no token"
None    == "none"
Unknown == "unknown"

ASSUME CollectionAssumption ==
    /\ NoToken \notin Sessions
    /\ Randoms \cap {"serial", "machine", None, Unknown} = {}
    /\ HasMachineId \in BOOLEAN

VARIABLES
    token,     \* the session in memory
    loop,      \* the cycle: where it is, its token, attempts, checks, rows and
               \* identity, each kept until it is used
    cached,    \* the identity in memory
    keyring,   \* the identity in the OS keyring
    file,      \* the identity in the fallback file
    usable,    \* whether the keyring answers
    up,        \* whether the API answers as it should
    revoked,   \* tokens the API no longer accepts
    refused,   \* ghost: tokens that this process has seen refused
    known,     \* ghost: identities the API has check-ins of
    slips      \* ghost: "unread", a stored identity the keyring would not give;
               \* "unsaved", an identity neither store would take

identity == <<cached, keyring, file>>
world    == <<usable, up, revoked>>
ghosts   == <<refused, known, slips>>
vars     == <<token, loop, identity, world, ghosts>>

Identities == {"serial", Unknown} \cup (IF HasMachineId THEN {"machine"} ELSE Randoms)
Checks     == {"native", "osquery"}
Pcs        == {"noTokenYet", "ready", "config", "configWait", "collect", "load",
               "derive", "save", "rows", "post", "postWait", "sent"}

TypeOK ==
    /\ token \in Sessions \cup {NoToken}
    /\ loop \in [pc : Pcs, token : Sessions \cup {NoToken}, attempt : 0..Retries,
                 asked : SUBSET Checks, rows : SUBSET Checks, id : Identities \cup {None}]
    /\ {cached, keyring, file} \subseteq (Identities \ {Unknown}) \cup {None}
    /\ usable \in BOOLEAN /\ up \in BOOLEAN
    /\ revoked \subseteq Sessions /\ refused \subseteq Sessions
    /\ known \subseteq Identities
    /\ slips \subseteq {"unread", "unsaved"}

AtRest(pc) == [pc |-> pc, token |-> NoToken, attempt |-> 0, asked |-> {}, rows |-> {}, id |-> None]

Init ==
    /\ token = NoToken
    /\ loop = AtRest("noTokenYet")
    /\ cached = None /\ keyring = None /\ file = None
    /\ usable \in BOOLEAN /\ up \in BOOLEAN
    /\ revoked = {} /\ refused = {} /\ known = {} /\ slips = {}

At(pc)   == loop.pc = pc
Goto(pc) == loop' = [loop EXCEPT !.pc = pc]
EndCycle == loop' = AtRest("ready")

-----------------------------------------------------------------------------
(* The session, seen from the loop.                                        *)

\* A sign-in, or the stored token at start, which may be revoked by now.
TakeSession ==
    /\ token = NoToken
    /\ \E t \in Sessions \ refused :
          /\ token' = t
          /\ revoked' \in {revoked, revoked \ {t}}
    /\ UNCHANGED <<loop, identity, usable, up, ghosts>>

SignOut ==
    /\ token # NoToken
    /\ token' = NoToken
    /\ UNCHANGED <<loop, identity, world, ghosts>>

\* Whichever token is held goes: the code does not compare it with the cycle's.
InvalidateAuth ==
    /\ token' = NoToken
    /\ refused' = refused \cup {loop.token}
    /\ EndCycle

-----------------------------------------------------------------------------
(* The loop and its requests.                                              *)

FirstToken ==
    /\ At("noTokenYet") /\ token # NoToken
    /\ Goto("ready")
    /\ UNCHANGED <<token, identity, world, ghosts>>

\* A tick, or a new token; without a session the cycle is over at once.
BeginCycle ==
    /\ At("ready") /\ token # NoToken
    /\ loop' = [AtRest("config") EXCEPT !.token = token]
    /\ UNCHANGED <<token, identity, world, ghosts>>

\* Whether the API as it should be accepts the cycle's token; when it is not as
\* it should be, any answer may come.
MayAccept == up => loop.token \notin revoked
MayRefuse == up => loop.token \in revoked
MayFail   == ~up

\* Config names the checks, a native one if the API is as it should be; one that
\* this platform does not have is as none.
ConfigAccepted ==
    /\ At("config") /\ MayAccept
    /\ \E asked \in SUBSET Checks :
          /\ up => "native" \in asked
          /\ loop' = [loop EXCEPT !.pc = "collect", !.attempt = 0, !.asked = asked]
    /\ UNCHANGED <<token, identity, world, ghosts>>

ConfigRefused ==
    /\ At("config") /\ MayRefuse
    /\ InvalidateAuth
    /\ UNCHANGED <<identity, world, known, slips>>

\* Another status, a body that is not JSON, or no checks.
ConfigUseless ==
    /\ At("config") /\ MayFail
    /\ EndCycle
    /\ UNCHANGED <<token, identity, world, ghosts>>

\* Bug: one delay more than the ladder has.
LadderTooLong(wait) ==
    IF loop.attempt <= Retries THEN Goto(wait) ELSE EndCycle

\* 429, 5xx or a network error, within the ladder or at its end.
RetryLater(wait) ==
    IF loop.attempt < Retries THEN Goto(wait) ELSE EndCycle

ConfigFails ==
    /\ At("config") /\ MayFail
    /\ RetryLater("configWait")
    /\ UNCHANGED <<token, identity, world, ghosts>>

\* Bug: the attempt is not counted.
DelayUncounted(wait, send) ==
    /\ At(wait)
    /\ Goto(send)
    /\ UNCHANGED <<token, identity, world, ghosts>>

DelayEnds(wait, send) ==
    /\ At(wait)
    /\ loop' = [loop EXCEPT !.pc = send, !.attempt = @ + 1]
    /\ UNCHANGED <<token, identity, world, ghosts>>

\* osquery may not start, or fail or answer no row in every query.
RowsOf(asked) == {asked, asked \ {"osquery"}}

\* Bug: an osquery that does not start ends the cycle.
CollectAll ==
    /\ At("collect")
    /\ \/ loop' = [loop EXCEPT !.pc = "load", !.asked = {}, !.rows = loop.asked]
       \/ "osquery" \in loop.asked /\ EndCycle
    /\ UNCHANGED <<token, identity, world, ghosts>>

\* Native checks first; osquery comes after them and leaves their rows alone.
Collect ==
    /\ At("collect")
    /\ \E rows \in RowsOf(loop.asked) :
          loop' = [loop EXCEPT !.pc = "load", !.asked = {}, !.rows = rows]
    /\ UNCHANGED <<token, identity, world, ghosts>>

-----------------------------------------------------------------------------
(* The device identity.                                                    *)

\* What a readable store would give.
Stored == IF file # None THEN file ELSE keyring

UseIdentity(id) ==
    /\ loop' = [loop EXCEPT !.pc = "rows", !.id = id]

IdentityCached ==
    /\ At("load") /\ cached # None
    /\ UseIdentity(cached)
    /\ UNCHANGED <<token, identity, world, ghosts>>

IdentityStored ==
    /\ At("load") /\ cached = None
    /\ file # None \/ usable
    /\ IF Stored # None THEN cached' = Stored /\ UseIdentity(Stored)
                        ELSE Goto("derive") /\ UNCHANGED cached
    /\ UNCHANGED <<token, keyring, file, world, ghosts>>

\* The keyring's error is reported, and the identity made anew.
IdentityUnread ==
    /\ At("load") /\ cached = None
    /\ file = None /\ ~usable
    /\ slips' = IF keyring # None THEN slips \cup {"unread"} ELSE slips
    /\ Goto("derive")
    /\ UNCHANGED <<token, identity, world, refused, known>>

\* The serial if osquery gives a real one, else the machine id's hash, else a
\* random identity.
Derivable == Identities \ {Unknown}

DeriveIdentity ==
    /\ At("derive")
    /\ \E id \in Derivable : loop' = [loop EXCEPT !.pc = "save", !.id = id]
    /\ UNCHANGED <<token, identity, world, ghosts>>

\* No random bytes: the check-in goes out as "unknown".
DeriveFails ==
    /\ At("derive") /\ ~HasMachineId
    /\ UseIdentity(Unknown)
    /\ UNCHANGED <<token, identity, world, ghosts>>

\* Bug: a random identity is used and not stored.
SaveTrustedOnly ==
    /\ At("save")
    /\ UseIdentity(loop.id)
    /\ cached' = loop.id
    /\ IF loop.id \in Randoms THEN UNCHANGED <<keyring, file>>
                              ELSE keyring' = loop.id /\ file' = None
    /\ UNCHANGED <<token, world, ghosts>>

\* The keyring takes it and the file goes, or the file takes it; it is cached
\* only once stored.
SaveIdentity ==
    /\ At("save")
    /\ UseIdentity(loop.id)
    /\ cached' = loop.id
    /\ IF usable THEN keyring' = loop.id /\ file' = None
                 ELSE file' = loop.id /\ UNCHANGED keyring
    /\ UNCHANGED <<token, world, ghosts>>

\* Neither store takes it: it is used this once.
SaveIdentityFails ==
    /\ At("save") /\ ~usable
    /\ UseIdentity(loop.id)
    /\ slips' = slips \cup {"unsaved"}
    /\ UNCHANGED <<token, identity, world, refused, known>>

-----------------------------------------------------------------------------
(* The check-in.                                                           *)

CountRows ==
    /\ At("rows")
    /\ IF loop.rows = {} THEN EndCycle
       ELSE loop' = [loop EXCEPT !.pc = "post", !.rows = {}]
    /\ UNCHANGED <<token, identity, world, ghosts>>

Arrives == known' = known \cup {loop.id}

PostAccepted ==
    /\ At("post") /\ MayAccept
    /\ Arrives
    /\ Goto("sent")
    /\ UNCHANGED <<token, identity, world, refused, slips>>

\* Bug: the refusal of the post is an error like any other.
PostRefusalIgnored ==
    /\ At("post") /\ MayRefuse
    /\ refused' = refused \cup {loop.token}
    /\ EndCycle
    /\ UNCHANGED <<token, identity, world, known, slips>>

PostRefused ==
    /\ At("post") /\ MayRefuse
    /\ InvalidateAuth
    /\ UNCHANGED <<identity, world, known, slips>>

\* The answer is an error, or none comes; the rows may have arrived.
PostFails ==
    /\ At("post") /\ MayFail
    /\ Arrives \/ UNCHANGED known
    /\ RetryLater("postWait") \/ EndCycle
    /\ UNCHANGED <<token, identity, world, refused, slips>>

CycleEnds ==
    /\ At("sent")
    /\ EndCycle
    /\ UNCHANGED <<token, identity, world, ghosts>>

-----------------------------------------------------------------------------
(* The world.                                                              *)

Restart ==
    /\ token' = NoToken
    /\ loop' = AtRest("noTokenYet")
    /\ cached' = None
    /\ refused' = {}
    /\ UNCHANGED <<keyring, file, world, known, slips>>

KeyringTurns ==
    /\ usable' = ~usable
    /\ UNCHANGED <<token, loop, identity, up, revoked, ghosts>>

ServerTurns ==
    /\ up' = ~up
    /\ UNCHANGED <<token, loop, identity, usable, revoked, ghosts>>

Revoke ==
    /\ \E t \in Sessions \ revoked : revoked' = revoked \cup {t}
    /\ UNCHANGED <<token, loop, identity, usable, up, ghosts>>

Requests ==
    \/ FirstToken \/ BeginCycle \/ ConfigAccepted \/ ConfigRefused \/ ConfigUseless
    \/ ConfigFails \/ DelayEnds("configWait", "config") \/ DelayEnds("postWait", "post")
    \/ CountRows \/ PostAccepted \/ PostRefused \/ PostFails \/ CycleEnds

Identify ==
    \/ IdentityCached \/ IdentityStored \/ IdentityUnread \/ DeriveIdentity
    \/ DeriveFails \/ SaveIdentity \/ SaveIdentityFails

LoopStep == Requests \/ Collect \/ Identify
World == TakeSession \/ SignOut \/ Restart \/ KeyringTurns \/ ServerTurns \/ Revoke

Next == LoopStep \/ World

Spec == Init /\ [][Next]_vars

\* A request ends within its deadline, a delay ends, osquery exits and the
\* interval ticks; nothing is assumed of the rest.
FairSpec == Spec /\ WF_vars(LoopStep)

-----------------------------------------------------------------------------

\* While the stores can be read and written, every check-in the API has names
\* the identity that a restart would load, so the device stays one device.
KnownIsKept ==
    slips = {} => \A id \in known \ {Unknown} : Stored = id

\* The agent sends nothing more with a token it has seen refused.
RefusedNotReused ==
    loop.pc \in {"config", "configWait", "collect", "post", "postWait"}
        => loop.token \notin refused

\* A cycle is over in the end, however the API answers and whoever signs out:
\* the ladder is finite.
EveryCycleEnds == loop.pc = "config" ~> loop.pc \in {"ready", "noTokenYet"}

\* With a session the API accepts, check-ins keep coming, though osquery may
\* never start and the identity may never be saved.
ChecksInForever ==
    <>[](up /\ token # NoToken /\ token \notin revoked) => []<>(loop.pc = "sent")

=============================================================================
