------------------------------- MODULE Pairing -------------------------------
(***************************************************************************)
(* Pairing over IP: pair setup, pair verify and the administration of      *)
(* pairings (HAPPairingPairSetup.c, HAPPairingPairVerify.c,                *)
(* HAPPairingPairings.c), the security session they establish              *)
(* (HAPSession.c), and the connections that carry them                     *)
(* (HAPIPAccessoryServer.c); the accessory's long-term key, LTSK, a        *)
(* factory reset, and a crash at any of its steps (HAPAccessoryServer.c,    *)
(* HomeKitMain.c).                                                         *)
(*                                                                         *)
(* A request is written to the procedure and its response read in one step *)
(* of the run loop. Only the steps that store and then clean up pairings   *)
(* are split, because a crash may come between the two. A message is what  *)
(* the procedures tell apart of it: keys, proofs and signatures are right  *)
(* or wrong. A controller keeps to the protocol once its session is        *)
(* verified: it encrypts what it sends.                                    *)
(***************************************************************************)
EXTENDS Integers

CONSTANTS
    Session,       \* the sessions of the IP server's storage
    Controller,    \* identifiers of controllers
    MaxPairings,   \* server->maxPairings
    MaxTries,      \* unsuccessful attempts at pair setup, 100
    None,          \* no session, no pairing, no key
    LastAdminStays \* whether controllers keep the last admin an admin

ASSUME PairingAssumption ==
    /\ MaxPairings \in Nat \ {0}
    /\ MaxTries \in Nat \ {0}
    /\ None \notin Session /\ None \notin Controller
    /\ LastAdminStays \in BOOLEAN

Key == 0 .. MaxPairings - 1

VARIABLES
    up,            \* the server, see TypeOK
    session,       \* the sessions
    owner,         \* pairSetup.sessionThatIsCurrentlyPairing
    transient,     \* the procedure's flags ask for a transient session
    expired,       \* the procedure is older than its timeout
    busy,          \* the session whose request is to clean up, or None
    adds,          \* ... and whether the request adds a pairing
    paired,        \* the store's Pairings: who is stored under a key
    admin,         \* ... and the keys of those with the admin permission
    attempts,      \* the store's number of unsuccessful attempts
    ltsk,          \* the store has a long-term key
    orphans        \* the keys of pairings made with one that is gone

volatile == <<session, owner, transient, expired, busy, adds>>
identity == <<ltsk, orphans>>
store == <<paired, admin, attempts, identity>>
vars == <<up, volatile, store>>

(* A session as HandlePendingTCPStream and CloseSession leave it. *)
Fresh(c) ==
    [conn |-> c, secured |-> FALSE, active |-> FALSE, split |-> FALSE,
     key |-> None, setup |-> 0, verify |-> 0]

Init ==
    /\ up = "down"
    /\ session = [s \in Session |-> Fresh("closed")]
    /\ owner = None
    /\ transient = FALSE
    /\ expired = FALSE
    /\ busy = None
    /\ adds = FALSE
    /\ paired = [k \in Key |-> None]
    /\ admin = {}
    /\ attempts = 0
    /\ ltsk = FALSE
    /\ orphans = {}

-----------------------------------------------------------------------------

IsPaired == \E k \in Key : paired[k] # None

(* HAPSessionIsTransient *)
IsTransient(x) == x.active /\ x.split

(* HAPSessionIsSecured, with the pairings p. *)
IsSecured(x, p) ==
    x.active /\ (x.split \/ (x.key \in Key /\ p[x.key] # None))

Closed(f, S) == [t \in Session |-> IF t \in S THEN Fresh("closed") ELSE f[t]]

(* handle_pairing_data closes the sessions whose pairing is gone, but those *)
(* that write their response.                                              *)
LostPairing(f, s, p) ==
    {t \in Session \ {s} : /\ f[t].conn = "Reading"
                           /\ f[t].secured
                           /\ ~IsSecured(f[t], p)}

(* The response to a pairing request: the session writes. *)
Respond(f, s, p) ==
    LET g == [f EXCEPT ![s].conn = "Writing"]
    IN  session' = Closed(g, LostPairing(g, s, p))

(* handle_input takes note of a session that became secure; what cannot be  *)
(* read of one that lost its pairing ends it.                              *)
Request(s) ==
    /\ up = "running"
    /\ busy = None
    /\ session[s].conn = "Reading"
    /\ session[s].active => IsSecured(session[s], paired)

Unsecured(s) == Request(s) /\ ~session[s].active

Secured(s) == Request(s) /\ session[s].active /\ ~session[s].split

setupVars == <<owner, transient, expired>>
busyVars == <<busy, adds>>

-----------------------------------------------------------------------------
(* Pair setup. Every request to it first closes the sessions of others that *)
(* are transient.                                                          *)

Others(s) == {t \in Session \ {s} : IsTransient(session[t])}

OwnerSeen(s) == IF owner \in Others(s) THEN None ELSE owner

(* A procedure that is over its time gives way to one that starts. *)
GivesWay(s) ==
    /\ session[s].setup = 0
    /\ ~IsPaired
    /\ OwnerSeen(s) \notin {None, s}
    /\ expired

(* Whether s owns the procedure once HandleWrite looked for an owner. *)
Claims(s) == ~IsPaired /\ (OwnerSeen(s) \in {None, s} \/ GivesWay(s))

(* A mutation forgets the session that owned the procedure.                *)
SetupStatesOfOne(s, n) ==
    [t \in Session |->
        CASE t = s -> [session[s] EXCEPT !.setup = n]
          [] t \in Others(s) -> Fresh("closed")
          [] OTHER -> session[t]]

(* The sessions when the procedure of s is at n, and that of an owner who   *)
(* gave way is reset.                                                      *)
SetupStates(s, n) ==
    [t \in Session |->
        CASE t = s -> [session[s] EXCEPT !.setup = n]
          [] t \in Others(s) -> Fresh("closed")
          [] t = owner /\ GivesWay(s) -> [session[t] EXCEPT !.setup = 0]
          [] OTHER -> session[t]]

OwnerAfterReset(s) ==
    IF GivesWay(s) \/ OwnerSeen(s) = s THEN None ELSE OwnerSeen(s)

(* A mutation does not look at the attempts.                               *)
SetupStartUncounted(s, split) ==
    /\ Unsecured(s)
    /\ session[s].setup = 0 \/ owner = s
    /\ LET goes == Claims(s)
       IN  /\ Respond(SetupStates(s, IF goes THEN 2 ELSE 0), s, paired)
           /\ owner' = IF goes THEN s ELSE OwnerAfterReset(s)
           /\ transient' = IF goes THEN split
                           ELSE transient /\ owner' # None
           /\ expired' = (expired /\ ~goes /\ owner' # None)
    /\ UNCHANGED <<up, busyVars, store>>

(* M1 and M2: a state-1 message restarts the owner's own procedure. *)
SetupStart(s, split) ==
    /\ Unsecured(s)
    /\ session[s].setup = 0 \/ owner = s
    /\ LET goes == Claims(s) /\ attempts < MaxTries
       IN  /\ Respond(SetupStates(s, IF goes THEN 2 ELSE 0), s, paired)
           /\ owner' = IF goes THEN s ELSE OwnerAfterReset(s)
           /\ transient' = IF goes THEN split
                           ELSE transient /\ owner' # None
           /\ expired' = (expired /\ ~goes /\ owner' # None)
    /\ UNCHANGED <<up, busyVars, store>>

(* The end of the procedure of s, however it comes. *)
SetupEnds(s) ==
    /\ owner' = OwnerAfterReset(s)
    /\ transient' = (transient /\ owner' # None)
    /\ expired' = (expired /\ owner' # None)
    /\ UNCHANGED <<up, busyVars>>

(* A message that is malformed, or not the next one: the session's and, when *)
(* it owns it, the server's state are reset.                               *)
SetupRejected(s) ==
    /\ Unsecured(s)
    /\ session' = [SetupStates(s, 0) EXCEPT ![s].conn = "Writing"]
    /\ SetupEnds(s)
    /\ UNCHANGED store

(* M3 with a wrong proof, which is counted, or with a key that is refused   *)
(* before the proof is looked at.                                          *)
SetupProofFails(s, counted) ==
    /\ Unsecured(s)
    /\ session[s].setup = 2
    /\ attempts' = IF counted THEN attempts + 1 ELSE attempts
    /\ Respond(SetupStates(s, 0), s, paired)
    /\ SetupEnds(s)
    /\ UNCHANGED <<paired, admin, identity>>

(* M3 with the right proof and M4. A procedure that was asked to starts a   *)
(* transient session and is over; one for which the response cannot be made *)
(* is over too.                                                            *)
SetupProofHolds(s, answered) ==
    /\ Unsecured(s)
    /\ session[s].setup = 2
    /\ attempts' = 0
    /\ IF ~answered
       THEN /\ session' = [SetupStates(s, 0) EXCEPT ![s].conn = "Writing"]
            /\ SetupEnds(s)
       ELSE IF transient
       THEN /\ Respond([SetupStates(s, 0) EXCEPT ![s].active = TRUE,
                                                 ![s].split = TRUE,
                                                 ![s].key = None],
                       s, paired)
            /\ SetupEnds(s)
       ELSE /\ Respond(SetupStates(s, 4), s, paired)
            /\ UNCHANGED <<up, setupVars, busyVars>>
    /\ UNCHANGED <<paired, admin, identity>>

(* M5 and M6: the controller becomes the first pairing and an admin. *)
SetupExchange(s, c) ==
    /\ Unsecured(s)
    /\ session[s].setup = 4
    /\ paired' = [paired EXCEPT ![0] = c]
    /\ admin' = admin \cup {0}
    /\ Respond(SetupStates(s, 0), s, paired')
    /\ SetupEnds(s)
    /\ UNCHANGED <<attempts, identity>>

(* M5 with a wrong tag or signature. *)
SetupExchangeFails(s) ==
    /\ Unsecured(s)
    /\ session[s].setup = 4
    /\ Respond(SetupStates(s, 0), s, paired)
    /\ SetupEnds(s)
    /\ UNCHANGED store

-----------------------------------------------------------------------------
(* Pair verify.                                                            *)

VerifyStart(s) ==
    /\ Unsecured(s)
    /\ Respond([session EXCEPT ![s].verify = 2], s, paired)
    /\ UNCHANGED <<up, setupVars, busyVars, store>>

(* M3 and M4 of a controller that is paired: the session starts. *)
VerifyFinish(s, c) ==
    /\ Unsecured(s)
    /\ session[s].verify = 2
    /\ \E k \in Key :
          /\ paired[k] = c
          /\ Respond([session EXCEPT ![s].verify = 0,
                                     ![s].active = TRUE,
                                     ![s].split = FALSE,
                                     ![s].key = k], s, paired)
    /\ UNCHANGED <<up, setupVars, busyVars, store>>

(* A controller that is not, a wrong signature, or a wrong message. *)
VerifyFails(s) ==
    /\ Unsecured(s)
    /\ Respond([session EXCEPT ![s].verify = 0], s, paired)
    /\ UNCHANGED <<up, setupVars, busyVars, store>>

-----------------------------------------------------------------------------
(* Pairings: add, remove, and any request that changes nothing.            *)

Administers(s) == Secured(s) /\ session[s].key \in admin

(* HAPAccessoryServerCleanupPairings: without an admin there is no pairing. *)
Cleanup ==
    IF admin # {} THEN UNCHANGED <<paired, admin>>
    ELSE paired' = [k \in Key |-> None] /\ admin' = {}

WithoutPermission(k, isAdmin) == admin \ {k}    \* a mutation

WithPermission(k, isAdmin) == IF isAdmin THEN admin \cup {k} ELSE admin \ {k}

(* AddPairing of a controller that is stored updates its permissions. *)
UpdatePairing(s, c, isAdmin) ==
    /\ Administers(s)
    /\ \E k \in Key :
          /\ paired[k] = c
          /\ LastAdminStays => isAdmin \/ admin # {k}
          /\ admin' = WithPermission(k, isAdmin)
    /\ busy' = s
    /\ adds' = TRUE
    /\ session' = [session EXCEPT ![s].secured = TRUE]
    /\ UNCHANGED <<up, setupVars, paired, attempts, identity>>

IsFirstFree(k) ==
    /\ paired[k] = None
    /\ \A j \in Key : j < k => paired[j] # None

(* AddPairing of another takes the first free key. *)
AddPairing(s, c, isAdmin) ==
    /\ Administers(s)
    /\ \A k \in Key : paired[k] # c
    /\ \E k \in Key :
          /\ IsFirstFree(k)
          /\ paired' = [paired EXCEPT ![k] = c]
          /\ admin' = WithPermission(k, isAdmin)
    /\ Respond([session EXCEPT ![s].secured = TRUE], s, paired')
    /\ UNCHANGED <<up, setupVars, busyVars, attempts, identity>>

RemovePairing(s, c) ==
    /\ Administers(s)
    /\ \E k \in Key :
          /\ paired[k] = c
          /\ paired' = [paired EXCEPT ![k] = None]
          /\ admin' = admin \ {k}
    /\ busy' = s
    /\ adds' = FALSE
    /\ session' = [session EXCEPT ![s].secured = TRUE]
    /\ UNCHANGED <<up, setupVars, attempts, identity>>

(* The cleanup and the response. AddPairing is answered only after another  *)
(* look at the session's own pairing; when it is gone, the error is none    *)
(* of those HAPSessionHandlePairingsRead asserts.                          *)
FinishPairings ==
    /\ up = "running"
    /\ busy # None
    /\ Cleanup
    /\ IF adds /\ paired'[session[busy].key] = None
       THEN up' = "aborted" /\ UNCHANGED session
       ELSE up' = up /\ Respond(session, busy, paired')
    /\ busy' = None
    /\ adds' = FALSE
    /\ UNCHANGED <<setupVars, attempts, identity>>

(* A list of pairings, a request that is refused, and all that is not about *)
(* pairings.                                                               *)
OtherRequest(s) ==
    /\ Request(s)
    /\ session' = [session EXCEPT ![s].conn = "Writing",
                                  ![s].secured = @ \/ session[s].active]
    /\ UNCHANGED <<up, setupVars, busyVars, store>>

-----------------------------------------------------------------------------
(* Connections, time, and the program.                                     *)

Accept(s) ==
    /\ up = "running" /\ busy = None
    /\ session[s].conn = "closed"
    /\ session' = [session EXCEPT ![s] = Fresh("Reading")]
    /\ UNCHANGED <<up, setupVars, busyVars, store>>

(* CloseSession. *)
Close(s) ==
    /\ session' = Closed(session, {s})
    /\ owner' = IF owner = s THEN None ELSE owner
    /\ transient' = (transient /\ owner' # None)
    /\ expired' = (expired /\ owner' # None)

(* The peer closes it, sends what cannot be read, or is silent for too long. *)
CloseSession(s) ==
    /\ up = "running" /\ busy = None
    /\ session[s].conn # "closed"
    /\ Close(s)
    /\ UNCHANGED <<up, busyVars, store>>

(* A mutation goes on reading from a session that lost its pairing.        *)
WriteOutboundDataOnly(s) ==
    /\ up = "running" /\ busy = None
    /\ session[s].conn = "Writing"
    /\ session' = [session EXCEPT ![s].conn = "Reading"]
    /\ UNCHANGED <<up, setupVars, busyVars, store>>

(* WriteOutboundData has written the response, and closes a session that    *)
(* was secure and is not any more.                                         *)
WriteOutboundData(s) ==
    /\ up = "running" /\ busy = None
    /\ session[s].conn = "Writing"
    /\ IF session[s].secured /\ ~IsSecured(session[s], paired)
       THEN Close(s)
       ELSE /\ session' = [session EXCEPT ![s].conn = "Reading"]
            /\ UNCHANGED setupVars
    /\ UNCHANGED <<up, busyVars, store>>

Expire ==
    /\ up = "running" /\ busy = None
    /\ owner # None
    /\ ~expired
    /\ expired' = TRUE
    /\ UNCHANGED <<up, session, owner, transient, busyVars, store>>

(* What is not in the store is gone. *)
Ends(next) ==
    /\ up' = next
    /\ session' = [s \in Session |-> Fresh("closed")]
    /\ owner' = None
    /\ transient' = FALSE
    /\ expired' = FALSE
    /\ busy' = None
    /\ adds' = FALSE

(* A crash, or the end of the program. *)
Crash ==
    /\ up \in {"starting", "running", "resetting"}
    /\ Ends("down")
    /\ UNCHANGED store

(* A mutation starts with the pairings as they are.                        *)
StartAtOnce ==
    /\ up = "down"
    /\ ltsk
    /\ up' = "running"
    /\ UNCHANGED <<volatile, store>>

(* HAPAccessoryServerStart with the stored long-term key. *)
Start ==
    /\ up = "down"
    /\ ltsk
    /\ up' = "running"
    /\ Cleanup
    /\ UNCHANGED <<volatile, attempts, identity>>

(* Without one, HAPAccessoryServerLoadLTSK first purges the pairings. *)
StartWithoutKey ==
    /\ up = "down"
    /\ ~ltsk
    /\ up' = "starting"
    /\ UNCHANGED <<volatile, store>>

(* A mutation generates a key for the pairings there are.                  *)
GenerateKeyAtOnce ==
    /\ up = "starting"
    /\ ltsk' = TRUE
    /\ up' = "running"
    /\ UNCHANGED <<volatile, paired, admin, attempts, orphans>>

GenerateKey ==
    /\ up = "starting"
    /\ ~IsPaired
    /\ ltsk' = TRUE
    /\ up' = "running"
    /\ UNCHANGED <<volatile, paired, admin, attempts, orphans>>

(* HandleUpdatedState, once the server has stopped for a factory reset. *)
FactoryReset ==
    /\ up = "running" /\ busy = None
    /\ Ends("resetting")
    /\ UNCHANGED store

(* HAPPlatformKeyValueStorePurgeDomain removes a domain's files one by one, *)
(* in any order: those of the configuration first ...                      *)
PurgeKey ==
    /\ up = "resetting"
    /\ ltsk
    /\ ltsk' = FALSE
    /\ orphans' = {k \in Key : paired[k] # None}
    /\ UNCHANGED <<up, volatile, paired, admin, attempts>>

PurgeAttempts ==
    /\ up = "resetting"
    /\ attempts' = 0
    /\ UNCHANGED <<up, volatile, paired, admin, identity>>

(* ... and then the pairings. *)
PurgePairing(k) ==
    /\ up = "starting" \/ (up = "resetting" /\ ~ltsk /\ attempts = 0)
    /\ paired[k] # None
    /\ paired' = [paired EXCEPT ![k] = None]
    /\ admin' = admin \ {k}
    /\ orphans' = orphans \ {k}
    /\ UNCHANGED <<up, volatile, attempts, ltsk>>

(* The run loop is stopped and the server released. *)
ResetDone ==
    /\ up = "resetting"
    /\ ~ltsk /\ attempts = 0 /\ ~IsPaired
    /\ up' = "down"
    /\ UNCHANGED <<volatile, store>>

-----------------------------------------------------------------------------

PairSetup(s) ==
    \/ \E split \in BOOLEAN : SetupStart(s, split)
    \/ SetupRejected(s)
    \/ \E counted \in BOOLEAN : SetupProofFails(s, counted)
    \/ \E answered \in BOOLEAN : SetupProofHolds(s, answered)
    \/ \E c \in Controller : SetupExchange(s, c)
    \/ SetupExchangeFails(s)

PairVerify(s) ==
    \/ VerifyStart(s)
    \/ \E c \in Controller : VerifyFinish(s, c)
    \/ VerifyFails(s)

Pairings(s) ==
    \E c \in Controller :
        \/ \E isAdmin \in BOOLEAN :
              UpdatePairing(s, c, isAdmin) \/ AddPairing(s, c, isAdmin)
        \/ RemovePairing(s, c)

Next ==
    \/ \E s \in Session :
          \/ PairSetup(s)
          \/ PairVerify(s)
          \/ Pairings(s)
          \/ OtherRequest(s)
          \/ Accept(s)
          \/ CloseSession(s)
          \/ WriteOutboundData(s)
    \/ FinishPairings
    \/ Expire
    \/ Crash
    \/ Start \/ StartWithoutKey \/ GenerateKey
    \/ FactoryReset \/ PurgeKey \/ PurgeAttempts \/ ResetDone
    \/ \E k \in Key : PurgePairing(k)

Spec == Init /\ [][Next]_vars

(* The run loop goes on, and a socket takes what is written to it or fails. *)
(* The loop gets to a socket that is ready although other requests, which   *)
(* keep it busy for a moment, come in between.                             *)
FairSpec ==
    /\ Spec
    /\ WF_vars(FinishPairings)
    /\ \A s \in Session : SF_vars(WriteOutboundData(s))

-----------------------------------------------------------------------------

SessionState ==
    [conn : {"closed", "Reading", "Writing"}, secured : BOOLEAN,
     active : BOOLEAN, split : BOOLEAN, key : Key \cup {None},
     setup : {0, 2, 4}, verify : {0, 2}]

(* Every variable has its type. A session is verified with a key, and the   *)
(* attempts at pair setup stay within the 100 that are allowed, and so     *)
(* within the byte that is stored, whoever makes them, on whatever         *)
(* sessions, and after a restart.                                          *)
TypeOK ==
    /\ up \in {"down", "starting", "running", "resetting", "aborted"}
    /\ session \in [Session -> SessionState]
    /\ owner \in Session \cup {None}
    /\ transient \in BOOLEAN
    /\ expired \in BOOLEAN
    /\ busy \in Session \cup {None}
    /\ adds \in BOOLEAN
    /\ paired \in [Key -> Controller \cup {None}]
    /\ admin \subseteq Key
    /\ attempts \in 0 .. MaxTries
    /\ ltsk \in BOOLEAN
    /\ orphans \subseteq Key

(* Pair setup is past its first message on the session that owns the        *)
(* procedure only, and this session is open and the accessory not paired:  *)
(* whatever takes the procedure over or away resets both sides of it.      *)
OneSetup ==
    /\ \A s \in Session : session[s].setup # 0 => owner = s
    /\ owner # None =>
          session[owner].conn # "closed" /\ ~IsPaired

(* HAPSession.c asserts that no session is transient once the accessory is  *)
(* paired: pair setup closed those of others before it could succeed.      *)
NoTransientWhenPaired ==
    IsPaired => \A s \in Session : ~IsTransient(session[s])

(* HAPIPAccessoryServer.c asserts that a session which waits for requests   *)
(* and was secure still is: those whose pairing was removed were closed.   *)
StaysSecured ==
    busy = None =>
        \A s \in Session : session[s].conn = "Reading" /\ session[s].secured
                              => IsSecured(session[s], paired)

(* While it serves requests the accessory is unpaired or has an admin, even *)
(* when it crashed between the removal of the last admin and the cleanup.  *)
AdminUnlessUnpaired ==
    up = "running" /\ busy = None => (IsPaired <=> admin # {})

(* While it serves requests, the pairings are with the long-term key that   *)
(* is stored, even when a factory reset crashed between its purges: a       *)
(* controller would otherwise be paired with an accessory it cannot verify. *)
PairedWithThisKey ==
    up = "running" => ltsk /\ orphans = {}

(* A controller is paired under one key. *)
PairedOnce ==
    \A k, l \in Key : paired[k] = paired[l] /\ paired[k] # None => k = l

(* Who may be pairing, administering, or connected when. *)
SetupInv ==
    /\ \A s \in Session : session[s].setup # 0 => attempts < MaxTries
    /\ busy # None => owner = None /\ up = "running"
    /\ up \notin {"running", "aborted"} =>
          owner = None /\ \A s \in Session : session[s] = Fresh("closed")

(* An update leaves an admin, and its own controller paired. *)
UpdateInv ==
    LastAdminStays =>
        /\ up # "aborted"
        /\ busy # None /\ adds =>
              admin # {} /\ paired[session[busy].key] # None

(* What the keys of sessions, admins and orphans are keys of. *)
KeyInv ==
    /\ \A s \in Session :
          session[s].active /\ ~session[s].split => session[s].key \in Key
    /\ \A k \in admin \cup orphans : paired[k] # None
    /\ ltsk => orphans = {}

(* What the handlers assert of each other's results holds. *)
NeverAborts == up # "aborted"

(* The assertions of the handlers hold, on their sessions and on each       *)
(* other's results.                                                        *)
AssertionsHold == NeverAborts /\ NoTransientWhenPaired /\ StaysSecured

(* The inductive invariant: a session need not stay secured in an accessory *)
(* that aborted.                                                           *)
IndInv ==
    /\ TypeOK /\ OneSetup /\ SetupInv /\ UpdateInv /\ KeyInv
    /\ NoTransientWhenPaired /\ (up = "aborted" \/ StaysSecured)
    /\ AdminUnlessUnpaired /\ PairedOnce /\ PairedWithThisKey

(* The stored pairings make sense together. *)
PairingsSound == AdminUnlessUnpaired /\ PairedOnce

(* A session whose pairing was removed is closed, if the key is not used    *)
(* for another pairing first.                                              *)
LostPairingCloses ==
    \A s \in Session :
        LET lost == session[s].secured /\ ~IsSecured(session[s], paired)
        IN  lost /\ up = "running" ~> ~lost \/ up = "aborted"
=============================================================================
