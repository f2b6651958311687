---------------------------- MODULE PairingProofs ----------------------------
(***************************************************************************)
(* Proofs about pairing, for any sessions, controllers, number of pairings  *)
(* and tries: pair setup is one session's, the stored pairings make sense   *)
(* together and belong to the long-term key, and what the handlers assert   *)
(* holds as long as controllers keep the last admin an admin.              *)
(***************************************************************************)
EXTENDS Pairing, TLAPS

--------------------------------------------------------------------------------
(* A session that may be served, when the pairings are p: it was verified   *)
(* with a key, and waits for requests only if it is as secure as it was.    *)
Good(x, p) ==
    /\ x \in SessionState
    /\ x.active /\ ~x.split => x.key \in Key
    /\ (\E k \in Key : p[k] # None) => ~IsTransient(x)
    /\ x.conn = "Reading" /\ x.secured => IsSecured(x, p)

\* A session that was just accepted or closed may be served.
LEMMA FreshGood ==
    ASSUME NEW c \in {"closed", "Reading", "Writing"}, NEW p
    PROVE  Good(Fresh(c), p)
  BY DEF Good, Fresh, SessionState, IsTransient

\* While requests are served every session is good.
LEMMA AllGood ==
    ASSUME IndInv, up = "running", busy = None
    PROVE  \A t \in Session : Good(session[t], paired)
<1> SUFFICES ASSUME NEW t \in Session PROVE Good(session[t], paired)
  OBVIOUS
<1>1. session[t] \in SessionState
  BY DEF IndInv, TypeOK
<1>2. session[t].active /\ ~session[t].split => session[t].key \in Key
  BY DEF IndInv, KeyInv
<1>3. (\E k \in Key : paired[k] # None) => ~IsTransient(session[t])
  BY DEF IndInv, NoTransientWhenPaired, IsPaired
<1>4. session[t].conn = "Reading" /\ session[t].secured =>
          IsSecured(session[t], paired)
  BY DEF IndInv, StaysSecured
<1> QED
  BY <1>1, <1>2, <1>3, <1>4 DEF Good

\* A response closes no session that is good.
LEMMA RespondGood ==
    ASSUME NEW f \in [Session -> SessionState], NEW s \in Session, NEW p,
           \A t \in Session \ {s} : Good(f[t], p),
           Respond(f, s, p)
    PROVE  session' = [f EXCEPT ![s].conn = "Writing"]
<1> DEFINE g == [f EXCEPT ![s].conn = "Writing"]
<1>1. \A t \in Session \ {s} : g[t] = f[t]
  OBVIOUS
<1>2. LostPairing(g, s, p) = {}
  BY <1>1 DEF LostPairing, Good
<1>3. g = [t \in Session |-> g[t]]
  OBVIOUS
<1> QED
  BY <1>2, <1>3 DEF Respond, Closed

\* A session that writes is as good as it was.
LEMMA WritingGood ==
    ASSUME NEW x, NEW p, x \in SessionState,
           x.active /\ ~x.split => x.key \in Key,
           (\E k \in Key : p[k] # None) => ~IsTransient(x)
    PROVE  Good([x EXCEPT !.conn = "Writing"], p)
  BY DEF Good, SessionState, IsTransient

(* A step that leaves the pairings alone keeps the invariant if the sessions *)
(* it leaves are good and pair setup belongs to its owner.                  *)
LEMMA ServeStep ==
    ASSUME IndInv, up = "running", busy = None,
           UNCHANGED <<up, busyVars, paired, admin, identity>>,
           session' \in [Session -> SessionState],
           \A t \in Session : Good(session'[t], paired),
           owner' \in Session \cup {None},
           transient' \in BOOLEAN, expired' \in BOOLEAN,
           attempts' \in 0 .. MaxTries,
           \A t \in Session : session'[t].setup # 0 =>
                                  owner' = t /\ attempts' < MaxTries,
           owner' # None => session'[owner'].conn # "closed" /\ ~IsPaired
    PROVE  IndInv'
<1> USE DEF IndInv, identity, busyVars
<1>1. IsPaired' = IsPaired
  BY DEF IsPaired
<1>2. TypeOK'
  BY DEF TypeOK
<1>3. OneSetup'
  BY <1>1 DEF OneSetup
<1>4. SetupInv'
  BY DEF SetupInv
<1>5. UpdateInv'
  BY DEF UpdateInv
<1>6. KeyInv'
  BY DEF KeyInv, Good
<1>7. NoTransientWhenPaired'
  BY <1>1 DEF NoTransientWhenPaired, Good, IsPaired
<1>8. StaysSecured'
  BY DEF StaysSecured, Good
<1>9. AdminUnlessUnpaired' /\ PairedOnce' /\ PairedWithThisKey'
  BY <1>1 DEF AdminUnlessUnpaired, PairedOnce, PairedWithThisKey
<1> QED
  BY <1>2, <1>3, <1>4, <1>5, <1>6, <1>7, <1>8, <1>9

--------------------------------------------------------------------------------
\* What holds of a session that asks something before it is verified.
LEMMA UnsecuredFacts ==
    ASSUME IndInv, NEW s \in Session, Unsecured(s)
    PROVE  /\ up = "running" /\ busy = None /\ s # None
           /\ session[s].conn = "Reading" /\ session[s].active = FALSE
           /\ session[s] \in SessionState /\ s \notin Others(s)
  BY PairingAssumption DEF Unsecured, Request, IndInv, TypeOK, SessionState,
                           Others

\* The sessions when a request to pair setup was looked at are good.
LEMMA SetupStatesGood ==
    ASSUME IndInv, NEW s \in Session, Unsecured(s), NEW n \in {0, 2, 4}
    PROVE  /\ SetupStates(s, n) \in [Session -> SessionState]
           /\ SetupStates(s, n)[s] = [session[s] EXCEPT !.setup = n]
           /\ \A t \in Session \ {s} : Good(SetupStates(s, n)[t], paired)
<1> DEFINE f == SetupStates(s, n)
<1>1. \A t \in Session : Good(session[t], paired)
  BY AllGood, UnsecuredFacts
<1>2. f[s] = [session[s] EXCEPT !.setup = n] /\ f[s] \in SessionState
  <2>1. f[s] = [session[s] EXCEPT !.setup = n]
    <3>1. s \notin Others(s) /\ ~(s = owner /\ GivesWay(s))
      BY UnsecuredFacts DEF GivesWay, OwnerSeen
    <3> QED
      BY <3>1 DEF SetupStates
  <2>2. session[s] \in SessionState
    BY UnsecuredFacts
  <2>3. [session[s] EXCEPT !.setup = n] \in SessionState
    BY <2>2 DEF SessionState
  <2> QED
    BY <2>1, <2>3
<1>3. ASSUME NEW t \in Session \ {s} PROVE Good(f[t], paired)
  <2>1. f[t] \in {Fresh("closed"), [session[t] EXCEPT !.setup = 0], session[t]}
    BY <1>3 DEF SetupStates
  <2>2. Good(Fresh("closed"), paired)
    BY FreshGood
  <2>3. Good([session[t] EXCEPT !.setup = 0], paired)
    <3>1. Good(session[t], paired)
      BY <1>1
    <3> QED
      BY <3>1 DEF Good, SessionState, IsTransient, IsSecured
  <2> QED
    BY <1>1, <2>1, <2>2, <2>3
<1>4. f \in [Session -> SessionState]
  BY <1>2, <1>3 DEF SetupStates, Good
<1> QED
  BY <1>2, <1>3, <1>4

\* A session that does not own pair setup leaves its owner in peace, or takes
\* it over from an owner that is reset.
LEMMA OwnerKeeps ==
    ASSUME IndInv, NEW s \in Session, Unsecured(s), NEW n \in {0, 2, 4}
    PROVE  /\ OwnerAfterReset(s) \in Session \cup {None}
           /\ OwnerAfterReset(s) # s
           /\ \A t \in Session \ {s} : SetupStates(s, n)[t].setup # 0 =>
                  OwnerAfterReset(s) = t /\ attempts < MaxTries
           /\ OwnerAfterReset(s) # None =>
                  /\ SetupStates(s, n)[OwnerAfterReset(s)].conn # "closed"
                  /\ ~IsPaired
           /\ Claims(s) =>
                  \A t \in Session \ {s} : SetupStates(s, n)[t].setup = 0
<1> USE UnsecuredFacts
<1> DEFINE f == SetupStates(s, n)
<1>1. /\ \A t \in Session : session[t].setup # 0 => owner = t /\ attempts < MaxTries
      /\ owner # None => session[owner].conn # "closed" /\ ~IsPaired
      /\ owner \in Session \cup {None}
  BY DEF IndInv, OneSetup, SetupInv, TypeOK
<1>2. /\ OwnerAfterReset(s) \in {None, owner} /\ OwnerAfterReset(s) # s
      /\ OwnerAfterReset(s) # None =>
            owner \notin Others(s) /\ ~GivesWay(s) /\ owner \in Session \ {s}
  BY <1>1, PairingAssumption DEF OwnerAfterReset, OwnerSeen
<1>3. ASSUME NEW t \in Session \ {s}, f[t].setup # 0
      PROVE  /\ t \notin Others(s) /\ owner = t /\ attempts < MaxTries
             /\ ~GivesWay(s) /\ OwnerSeen(s) = t
  <2>1. Fresh("closed").setup = 0
    BY DEF Fresh
  <2>2. t \notin Others(s) /\ ~(t = owner /\ GivesWay(s))
    <3>1. CASE t \in Others(s)
      BY <1>3, <2>1, <3>1 DEF SetupStates
    <3>2. CASE t \notin Others(s) /\ t = owner /\ GivesWay(s)
      <4>1. f[t] = [session[t] EXCEPT !.setup = 0] /\ session[t] \in SessionState
        BY <3>2 DEF SetupStates, IndInv, TypeOK
      <4> QED
        BY <1>3, <4>1 DEF SessionState
    <3> QED
      BY <3>1, <3>2
  <2>3. f[t] = session[t]
    BY <2>2 DEF SetupStates
  <2> QED
    BY <1>1, <1>3, <2>2, <2>3 DEF OwnerSeen
<1>4. OwnerAfterReset(s) # None => f[OwnerAfterReset(s)] = session[owner]
  BY <1>2 DEF SetupStates
<1>5. \A t \in Session \ {s} : f[t].setup # 0 => OwnerAfterReset(s) = t
  BY <1>3 DEF OwnerAfterReset
<1>6. Claims(s) => \A t \in Session \ {s} : f[t].setup = 0
  BY <1>3, PairingAssumption DEF Claims
<1> QED
  BY <1>1, <1>2, <1>3, <1>4, <1>5, <1>6

\* A session that was not verified is good when it writes its response.
LEMMA AnsweredGood ==
    ASSUME IndInv, NEW s \in Session, Unsecured(s), NEW n \in {0, 2, 4},
           session' = [SetupStates(s, n) EXCEPT ![s].conn = "Writing"]
    PROVE  /\ session' \in [Session -> SessionState]
           /\ session'[s].setup = n /\ session'[s].conn = "Writing"
           /\ \A t \in Session \ {s} : session'[t] = SetupStates(s, n)[t]
           /\ \A t \in Session : Good(session'[t], paired)
<1> DEFINE f == SetupStates(s, n)
<1>1. session[s] \in SessionState /\ session[s].active = FALSE
  BY UnsecuredFacts
<1>2. /\ f \in [Session -> SessionState]
      /\ f[s] = [session[s] EXCEPT !.setup = n]
      /\ \A t \in Session \ {s} : Good(f[t], paired)
  BY SetupStatesGood
<1> HIDE DEF f
<1>3. /\ session' \in [Session -> SessionState] /\ session'[s].setup = n
      /\ \A t \in Session \ {s} : session'[t] = f[t]
      /\ session'[s] = [f[s] EXCEPT !.conn = "Writing"]
  BY <1>1, <1>2 DEF SessionState, f
<1>4. f[s] \in SessionState /\ f[s].active = FALSE
  BY <1>1, <1>2 DEF SessionState
<1>5. Good(session'[s], paired) /\ session'[s].conn = "Writing"
  BY <1>3, <1>4, WritingGood DEF IsTransient, SessionState
<1> QED
  BY <1>2, <1>3, <1>5 DEF f

\* A request that ends the procedure of its session, or finds none.
LEMMA SetupEndsStep ==
    ASSUME IndInv, NEW s \in Session, Unsecured(s),
           session' \in [Session -> SessionState], session'[s].setup = 0,
           \A t \in Session \ {s} : session'[t] = SetupStates(s, 0)[t],
           \A t \in Session : Good(session'[t], paired),
           SetupEnds(s), UNCHANGED <<paired, admin, identity>>,
           attempts' \in 0 .. MaxTries,
           attempts < MaxTries => attempts' < MaxTries \/ owner \in {s, None}
    PROVE  IndInv'
<1> DEFINE f == SetupStates(s, 0)
<1>1. up = "running" /\ busy = None
  BY UnsecuredFacts
<1>2. /\ OwnerAfterReset(s) \in Session \cup {None} /\ OwnerAfterReset(s) # s
      /\ \A t \in Session \ {s} : f[t].setup # 0 =>
             OwnerAfterReset(s) = t /\ attempts < MaxTries
      /\ OwnerAfterReset(s) # None =>
             f[OwnerAfterReset(s)].conn # "closed" /\ ~IsPaired
  BY OwnerKeeps
<1>3. OwnerAfterReset(s) \in {owner, None}
  BY DEF OwnerAfterReset, OwnerSeen
<1>4. /\ owner' \in Session \cup {None} /\ owner' = OwnerAfterReset(s)
      /\ UNCHANGED <<up, busyVars>>
  BY <1>2 DEF SetupEnds
<1>5. transient' \in BOOLEAN /\ expired' \in BOOLEAN
  BY DEF SetupEnds, IndInv, TypeOK
<1>6. \A t \in Session : session'[t].setup # 0 =>
                              owner' = t /\ attempts' < MaxTries
  BY <1>2, <1>3, <1>4, PairingAssumption
<1>7. owner' # None => session'[owner'].conn # "closed" /\ ~IsPaired
  BY <1>2, <1>4
<1> QED
  BY <1>1, <1>4, <1>5, <1>6, <1>7, ServeStep

\* A response to a request to pair setup.
LEMMA SetupResponds ==
    ASSUME IndInv, NEW s \in Session, Unsecured(s), NEW n \in {0, 2, 4},
           Respond(SetupStates(s, n), s, paired)
    PROVE  session' = [SetupStates(s, n) EXCEPT ![s].conn = "Writing"]
<1>1. PICK f, p :
           /\ f \in [Session -> SessionState]
           /\ f = SetupStates(s, n) /\ p = paired
           /\ \A t \in Session \ {s} : Good(f[t], p)
  BY SetupStatesGood
<1>2. Respond(f, s, p)
  BY <1>1 DEF Respond
<1> QED
  BY <1>1, <1>2, RespondGood

--------------------------------------------------------------------------------
\* M1 of pair setup: the procedure is the session's, or stays its owner's.
LEMMA SetupStartStep ==
    ASSUME IndInv, NEW s \in Session, NEW split \in BOOLEAN, SetupStart(s, split)
    PROVE  IndInv'
<1>1. /\ Unsecured(s) /\ UNCHANGED <<up, busyVars, store>>
      /\ up = "running" /\ busy = None
  BY UnsecuredFacts DEF SetupStart
<1>2. attempts \in 0 .. MaxTries /\ attempts' = attempts
  BY <1>1 DEF IndInv, TypeOK, store
<1>3. CASE Claims(s) /\ attempts < MaxTries
  <2>1. /\ Respond(SetupStates(s, 2), s, paired) /\ owner' = s
        /\ transient' = split /\ expired' = FALSE
    BY <1>3 DEF SetupStart
  <2>2. session' = [SetupStates(s, 2) EXCEPT ![s].conn = "Writing"]
    BY <1>1, <2>1, SetupResponds
  <2>3. /\ session' \in [Session -> SessionState]
        /\ session'[s].conn = "Writing"
        /\ \A t \in Session \ {s} : session'[t] = SetupStates(s, 2)[t]
        /\ \A t \in Session : Good(session'[t], paired)
    BY <1>1, <2>2, AnsweredGood
  <2>4. \A t \in Session \ {s} : SetupStates(s, 2)[t].setup = 0
    BY <1>1, <1>3, OwnerKeeps
  <2>5. \A t \in Session : session'[t].setup # 0 =>
                               owner' = t /\ attempts' < MaxTries
    BY <1>2, <1>3, <2>1, <2>3, <2>4
  <2>6. owner' # None => session'[owner'].conn # "closed" /\ ~IsPaired
    BY <1>3, <2>1, <2>3 DEF Claims
  <2>7. transient' \in BOOLEAN /\ expired' \in BOOLEAN
    BY <2>1
  <2> QED
    BY <1>1, <1>2, <2>1, <2>3, <2>5, <2>6, <2>7, ServeStep DEF store
<1>4. CASE ~(Claims(s) /\ attempts < MaxTries)
  <2>1. /\ Respond(SetupStates(s, 0), s, paired) /\ owner' = OwnerAfterReset(s)
        /\ transient' = (transient /\ owner' # None)
        /\ expired' = (expired /\ owner' # None)
    BY <1>4 DEF SetupStart
  <2>2. SetupEnds(s)
    BY <1>1, <2>1 DEF SetupEnds
  <2>3. session' = [SetupStates(s, 0) EXCEPT ![s].conn = "Writing"]
    BY <1>1, <2>1, SetupResponds
  <2>4. /\ session' \in [Session -> SessionState] /\ session'[s].setup = 0
        /\ \A t \in Session \ {s} : session'[t] = SetupStates(s, 0)[t]
        /\ \A t \in Session : Good(session'[t], paired)
    BY <1>1, <2>3, AnsweredGood
  <2> QED
    BY <1>1, <1>2, <2>2, <2>4, SetupEndsStep DEF store
<1> QED
  BY <1>3, <1>4

\* What the session that is past the first message knows.
LEMMA OwnSetup ==
    ASSUME IndInv, NEW s \in Session, Unsecured(s), session[s].setup # 0
    PROVE  /\ owner = s /\ attempts < MaxTries /\ ~IsPaired
           /\ attempts \in 0 .. MaxTries /\ OwnerAfterReset(s) = None
<1>1. /\ owner = s /\ attempts < MaxTries /\ ~IsPaired
      /\ attempts \in 0 .. MaxTries
  BY PairingAssumption DEF IndInv, OneSetup, SetupInv, TypeOK
<1>2. OwnerSeen(s) = s
  BY <1>1, UnsecuredFacts DEF OwnerSeen
<1> QED
  BY <1>1, <1>2 DEF OwnerAfterReset

\* The procedure ends with an error, counted or not.
LEMMA SetupFailsStep ==
    ASSUME IndInv, NEW s \in Session,
           \/ SetupRejected(s)
           \/ \E counted \in BOOLEAN : SetupProofFails(s, counted)
           \/ SetupExchangeFails(s)
           \/ SetupProofHolds(s, FALSE)
    PROVE  IndInv'
<1>1. /\ Unsecured(s) /\ SetupEnds(s) /\ UNCHANGED <<paired, admin, identity>>
  BY DEF SetupRejected, SetupProofFails, SetupExchangeFails, SetupProofHolds,
         store
<1>2. session' = [SetupStates(s, 0) EXCEPT ![s].conn = "Writing"]
  <2>1. CASE Respond(SetupStates(s, 0), s, paired)
    BY <1>1, <2>1, SetupResponds
  <2> QED
    BY <2>1 DEF SetupRejected, SetupProofFails, SetupExchangeFails,
                SetupProofHolds
<1>3. /\ session' \in [Session -> SessionState] /\ session'[s].setup = 0
      /\ \A t \in Session \ {s} : session'[t] = SetupStates(s, 0)[t]
      /\ \A t \in Session : Good(session'[t], paired)
  BY <1>1, <1>2, AnsweredGood
<1>4. /\ attempts \in 0 .. MaxTries /\ MaxTries \in Nat \ {0}
      /\ session[s].setup # 0 => owner = s /\ attempts < MaxTries
  BY <1>1, OwnSetup, PairingAssumption DEF IndInv, TypeOK
<1>5. /\ attempts' \in 0 .. MaxTries
      /\ attempts < MaxTries => attempts' < MaxTries \/ owner \in {s, None}
  <2>1. CASE SetupRejected(s) \/ SetupExchangeFails(s)
    BY <1>4, <2>1 DEF SetupRejected, SetupExchangeFails, store
  <2>2. CASE \E counted \in BOOLEAN : SetupProofFails(s, counted)
    BY <1>4, <2>2 DEF SetupProofFails
  <2>3. CASE SetupProofHolds(s, FALSE)
    BY <1>4, <2>3 DEF SetupProofHolds
  <2> QED
    BY <2>1, <2>2, <2>3
<1> QED
  BY <1>1, <1>3, <1>5, SetupEndsStep

\* M3 with the right proof: the procedure goes on, or becomes a transient
\* session of an accessory that is not paired.
LEMMA SetupProofHoldsStep ==
    ASSUME IndInv, NEW s \in Session, SetupProofHolds(s, TRUE)
    PROVE  IndInv'
<1>1. /\ Unsecured(s) /\ session[s].setup = 2 /\ attempts' = 0
      /\ UNCHANGED <<paired, admin, identity>>
  BY DEF SetupProofHolds
<1>2. owner = s /\ ~IsPaired /\ attempts < MaxTries
  BY <1>1, OwnSetup
<1>3. attempts' \in 0 .. MaxTries /\ attempts' < MaxTries
  BY <1>1, PairingAssumption
<1>4. up = "running" /\ busy = None /\ session[s] \in SessionState
  BY <1>1, UnsecuredFacts
<1>5. CASE transient
  <2> DEFINE f == [SetupStates(s, 0) EXCEPT ![s].active = TRUE,
                                            ![s].split = TRUE,
                                            ![s].key = None]
  <2>1. Respond(f, s, paired) /\ SetupEnds(s)
    BY <1>5 DEF SetupProofHolds
  <2>2. /\ SetupStates(s, 0) \in [Session -> SessionState]
        /\ SetupStates(s, 0)[s] = [session[s] EXCEPT !.setup = 0]
        /\ \A t \in Session \ {s} : Good(SetupStates(s, 0)[t], paired)
    BY <1>1, SetupStatesGood
  <2>3. /\ f[s] \in SessionState /\ f[s].setup = 0 /\ f[s].split /\ f[s].active
        /\ \A t \in Session \ {s} : f[t] = SetupStates(s, 0)[t]
        /\ DOMAIN f = Session
        /\ f = [t \in Session |-> f[t]]
    BY <1>4, <2>2 DEF SessionState
  <2> HIDE DEF f
  <2>4. f \in [Session -> SessionState]
    <3>1. \A t \in Session : f[t] \in SessionState
      BY <2>2, <2>3
    <3> QED
      BY <2>3, <3>1
  <2>5. PICK g, p :
             /\ g \in [Session -> SessionState]
             /\ g = f /\ p = paired
             /\ \A t \in Session \ {s} : Good(g[t], p)
    BY <2>2, <2>3, <2>4
  <2>6. session' = [f EXCEPT ![s].conn = "Writing"]
    <3>1. Respond(g, s, p)
      BY <2>1, <2>5 DEF Respond
    <3> QED
      BY <2>5, <3>1, RespondGood
  <2>7. /\ session' \in [Session -> SessionState] /\ session'[s].setup = 0
        /\ \A t \in Session \ {s} : session'[t] = SetupStates(s, 0)[t]
        /\ session'[s] = [f[s] EXCEPT !.conn = "Writing"]
    BY <2>3, <2>4, <2>6 DEF SessionState
  <2>8. Good(session'[s], paired)
    BY <1>2, <2>3, <2>7, WritingGood DEF IsPaired
  <2>9. \A t \in Session : Good(session'[t], paired)
    BY <2>2, <2>7, <2>8
  <2> QED
    BY <1>1, <1>2, <1>3, <2>1, <2>7, <2>9, SetupEndsStep
<1>6. CASE ~transient
  <2>1. /\ Respond(SetupStates(s, 4), s, paired)
        /\ UNCHANGED <<up, setupVars, busyVars>>
    BY <1>6 DEF SetupProofHolds
  <2>2. session' = [SetupStates(s, 4) EXCEPT ![s].conn = "Writing"]
    BY <1>1, <2>1, SetupResponds
  <2>3. /\ session' \in [Session -> SessionState] /\ session'[s].conn = "Writing"
        /\ \A t \in Session \ {s} : session'[t] = SetupStates(s, 4)[t]
        /\ \A t \in Session : Good(session'[t], paired)
    BY <1>1, <2>2, AnsweredGood
  <2>4. \A t \in Session \ {s} : SetupStates(s, 4)[t].setup = 0
    <3>1. Claims(s)
      BY <1>1, <1>2, UnsecuredFacts DEF Claims, OwnerSeen
    <3> QED
      BY <1>1, <3>1, OwnerKeeps
  <2>5. /\ owner' = s /\ transient' \in BOOLEAN /\ expired' \in BOOLEAN
    BY <1>2, <2>1 DEF setupVars, IndInv, TypeOK
  <2>6. \A t \in Session : session'[t].setup # 0 =>
                               owner' = t /\ attempts' < MaxTries
    BY <1>3, <2>3, <2>4, <2>5
  <2>7. owner' # None => session'[owner'].conn # "closed" /\ ~IsPaired
    BY <1>2, <2>3, <2>5
  <2> QED
    BY <1>1, <1>3, <1>4, <2>1, <2>3, <2>5, <2>6, <2>7, ServeStep
<1> QED
  BY <1>5, <1>6

--------------------------------------------------------------------------------
\* Requests and connections that leave pair setup where it is.
LEMMA QuietStep ==
    ASSUME IndInv, up = "running", busy = None,
           UNCHANGED <<up, setupVars, busyVars, store>>,
           session' \in [Session -> SessionState],
           \A t \in Session : Good(session'[t], paired),
           \A t \in Session : /\ session'[t].setup = session[t].setup
                              /\ session'[t].conn = "closed" =>
                                     session[t].conn = "closed"
    PROVE  IndInv'
<1> USE DEF setupVars, store
<1>1. /\ owner' \in Session \cup {None} /\ transient' \in BOOLEAN
      /\ expired' \in BOOLEAN /\ attempts' \in 0 .. MaxTries
  BY DEF IndInv, TypeOK
<1>2. \A t \in Session : session'[t].setup # 0 =>
                             owner' = t /\ attempts' < MaxTries
  BY DEF IndInv, OneSetup, SetupInv
<1>3. owner' # None => session'[owner'].conn # "closed" /\ ~IsPaired
  BY DEF IndInv, OneSetup, TypeOK
<1> QED
  BY <1>1, <1>2, <1>3, ServeStep

\* A session that is closed takes the procedure it owns with it.
LEMMA CloseStep ==
    ASSUME IndInv, NEW s \in Session, up = "running", busy = None, Close(s),
           UNCHANGED <<up, busyVars, store>>
    PROVE  IndInv'
<1>1. \A t \in Session : Good(session[t], paired)
  BY AllGood
<1>2. \A t \in Session :
          session'[t] = IF t = s THEN Fresh("closed") ELSE session[t]
  BY DEF Close, Closed
<1>3. Good(Fresh("closed"), paired) /\ Fresh("closed").setup = 0
  <2>1. Fresh("closed").setup = 0
    BY DEF Fresh
  <2> QED
    BY <2>1, FreshGood
<1>4. \A t \in Session : Good(session'[t], paired)
  BY <1>1, <1>2, <1>3
<1>5. session' \in [Session -> SessionState]
  BY <1>4 DEF Close, Closed, Good
<1>6. /\ owner' = (IF owner = s THEN None ELSE owner)
      /\ owner' \in Session \cup {None}
      /\ transient' \in BOOLEAN /\ expired' \in BOOLEAN
      /\ attempts' \in 0 .. MaxTries
  BY DEF Close, IndInv, TypeOK, store
<1>7. \A t \in Session : session'[t].setup # 0 =>
                             owner' = t /\ attempts' < MaxTries
  BY <1>2, <1>3, <1>6, PairingAssumption DEF IndInv, OneSetup, SetupInv, store
<1>8. owner' # None => session'[owner'].conn # "closed" /\ ~IsPaired
  BY <1>2, <1>6 DEF IndInv, OneSetup
<1> QED
  BY <1>4, <1>5, <1>6, <1>7, <1>8, ServeStep DEF store

\* A response that leaves its session as x.
LEMMA QuietRespond ==
    ASSUME IndInv, NEW s \in Session, Unsecured(s), NEW x \in SessionState,
           x.setup = session[s].setup,
           x.active /\ ~x.split => x.key \in Key,
           IsPaired => ~IsTransient(x),
           Respond([session EXCEPT ![s] = x], s, paired),
           UNCHANGED <<up, setupVars, busyVars, store>>
    PROVE  IndInv'
<1> DEFINE f == [session EXCEPT ![s] = x]
<1>1. up = "running" /\ busy = None
  BY UnsecuredFacts
<1>2. \A t \in Session : Good(session[t], paired)
  BY <1>1, AllGood
<1>3. /\ f \in [Session -> SessionState] /\ f[s] = x
      /\ \A t \in Session \ {s} : f[t] = session[t]
  BY DEF IndInv, TypeOK
<1> HIDE DEF f
<1>4. PICK g, p :
           /\ g \in [Session -> SessionState]
           /\ g = f /\ p = paired /\ \A t \in Session \ {s} : Good(g[t], p)
  BY <1>2, <1>3
<1>5. session' = [f EXCEPT ![s].conn = "Writing"]
  <2>1. Respond(g, s, p)
    BY <1>4 DEF Respond, f
  <2> QED
    BY <1>4, <2>1, RespondGood
<1>6. /\ session' \in [Session -> SessionState]
      /\ session'[s] = [x EXCEPT !.conn = "Writing"]
      /\ session'[s].setup = session[s].setup /\ session'[s].conn = "Writing"
      /\ \A t \in Session \ {s} : session'[t] = session[t]
  BY <1>3, <1>5 DEF SessionState
<1>7. Good(session'[s], paired)
  BY <1>6, WritingGood DEF IsPaired
<1>8. \A t \in Session : Good(session'[t], paired)
  BY <1>2, <1>6, <1>7
<1>9. \A t \in Session : /\ session'[t].setup = session[t].setup
                         /\ session'[t].conn = "closed" =>
                                session[t].conn = "closed"
  BY <1>6
<1> QED
  BY <1>1, <1>6, <1>8, <1>9, QuietStep

\* Pair verify.
LEMMA PairVerifyStep ==
    ASSUME IndInv, NEW s \in Session, PairVerify(s)
    PROVE  IndInv'
<1>1. /\ Unsecured(s) /\ UNCHANGED <<up, setupVars, busyVars, store>>
      /\ session[s] \in SessionState /\ session[s].active = FALSE
  <2>1. Unsecured(s) /\ UNCHANGED <<up, setupVars, busyVars, store>>
    BY DEF PairVerify, VerifyStart, VerifyFinish, VerifyFails
  <2> QED
    BY <2>1, UnsecuredFacts
<1>2. CASE VerifyStart(s) \/ VerifyFails(s)
  <2>1. PICK n \in {0, 2} :
             Respond([session EXCEPT ![s] = [session[s] EXCEPT !.verify = n]],
                     s, paired)
    BY <1>2 DEF VerifyStart, VerifyFails
  <2>2. PICK x : x = [session[s] EXCEPT !.verify = n]
    OBVIOUS
  <2>3. /\ x \in SessionState /\ x.setup = session[s].setup
        /\ x.active = FALSE
    BY <1>1, <2>2 DEF SessionState
  <2>4. Respond([session EXCEPT ![s] = x], s, paired)
    BY <2>1, <2>2
  <2> QED
    BY <1>1, <2>3, <2>4, QuietRespond DEF IsTransient
<1>3. CASE \E c \in Controller : VerifyFinish(s, c)
  <2>1. PICK k \in Key :
             Respond([session EXCEPT ![s] =
                         [session[s] EXCEPT !.verify = 0, !.active = TRUE,
                                            !.split = FALSE, !.key = k]],
                     s, paired)
    BY <1>3 DEF VerifyFinish
  <2>2. PICK x : x = [session[s] EXCEPT !.verify = 0, !.active = TRUE,
                                        !.split = FALSE, !.key = k]
    OBVIOUS
  <2>3. /\ x \in SessionState /\ x.setup = session[s].setup
        /\ x.split = FALSE /\ x.key \in Key
    BY <1>1, <2>2 DEF SessionState
  <2>4. Respond([session EXCEPT ![s] = x], s, paired)
    BY <2>1, <2>2
  <2> QED
    BY <1>1, <2>3, <2>4, QuietRespond DEF IsTransient
<1> QED
  BY <1>2, <1>3 DEF PairVerify

\* Requests that change nothing, connections and time.
LEMMA ConnectionStep ==
    ASSUME IndInv, NEW s \in Session,
           \/ OtherRequest(s) \/ Accept(s) \/ CloseSession(s)
           \/ WriteOutboundData(s) \/ Expire
    PROVE  IndInv'
<1>1. up = "running" /\ busy = None
  BY DEF OtherRequest, Request, Accept, CloseSession, WriteOutboundData, Expire
<1>2. /\ \A t \in Session : Good(session[t], paired)
      /\ session \in [Session -> SessionState]
  BY <1>1, AllGood DEF IndInv, TypeOK
<1>3. ASSUME NEW x \in SessionState, Good(x, paired),
             x.setup = session[s].setup,
             x.conn = "closed" => session[s].conn = "closed",
             session' = [session EXCEPT ![s] = x],
             UNCHANGED <<up, setupVars, busyVars, store>>
      PROVE  IndInv'
  <2>1. /\ session' \in [Session -> SessionState] /\ session'[s] = x
        /\ \A t \in Session \ {s} : session'[t] = session[t]
    BY <1>2, <1>3
  <2>2. \A t \in Session : Good(session'[t], paired)
    BY <1>2, <1>3, <2>1
  <2>3. \A t \in Session : /\ session'[t].setup = session[t].setup
                           /\ session'[t].conn = "closed" =>
                                  session[t].conn = "closed"
    BY <1>3, <2>1
  <2> QED
    BY <1>1, <1>3, <2>1, <2>2, <2>3, QuietStep
<1>4. CASE OtherRequest(s)
  <2>1. PICK x : x = [session[s] EXCEPT !.conn = "Writing",
                                        !.secured = @ \/ session[s].active]
    OBVIOUS
  <2>2. Good(session[s], paired) /\ session[s] \in SessionState
    BY <1>2
  <2>3. /\ x \in SessionState /\ x.setup = session[s].setup
        /\ x.conn = "Writing" /\ x.active = session[s].active
        /\ x.split = session[s].split /\ x.key = session[s].key
    BY <2>1, <2>2 DEF SessionState
  <2>4. Good(x, paired)
    BY <2>2, <2>3 DEF Good, IsTransient
  <2>5. session' = [session EXCEPT ![s] = x]
    BY <1>4, <2>1 DEF OtherRequest
  <2> QED
    BY <1>3, <1>4, <2>3, <2>4, <2>5 DEF OtherRequest
<1>5. CASE Accept(s)
  <2>1. PICK x : x = Fresh("Reading")
    OBVIOUS
  <2>2. Good(x, paired) /\ x.setup = 0
    BY <2>1, FreshGood DEF Fresh
  <2>3. session[s].setup = 0
    BY <1>1, <1>5, PairingAssumption DEF Accept, IndInv, OneSetup, TypeOK
  <2> QED
    BY <1>3, <1>5, <2>1, <2>2, <2>3 DEF Accept, Good
<1>6. CASE CloseSession(s)
  BY <1>1, <1>6, CloseStep DEF CloseSession
<1>7. CASE WriteOutboundData(s)
  <2>1. CASE session[s].secured /\ ~IsSecured(session[s], paired)
    BY <1>1, <1>7, <2>1, CloseStep DEF WriteOutboundData
  <2>2. CASE ~(session[s].secured /\ ~IsSecured(session[s], paired))
    <3>1. PICK x : x = [session[s] EXCEPT !.conn = "Reading"]
      OBVIOUS
    <3>2. Good(session[s], paired) /\ session[s] \in SessionState
      BY <1>2
    <3>3. /\ x \in SessionState /\ x.setup = session[s].setup
          /\ x.conn = "Reading" /\ x.active = session[s].active
          /\ x.split = session[s].split /\ x.key = session[s].key
          /\ x.secured = session[s].secured
      BY <3>1, <3>2 DEF SessionState
    <3>4. Good(x, paired)
      BY <2>2, <3>2, <3>3 DEF Good, IsTransient, IsSecured
    <3>5. session' = [session EXCEPT ![s] = x]
      BY <1>7, <2>2, <3>1 DEF WriteOutboundData
    <3>6. UNCHANGED <<up, setupVars, busyVars, store>>
      BY <1>7, <2>2 DEF WriteOutboundData
    <3> QED
      BY <1>3, <3>3, <3>4, <3>5, <3>6
  <2> QED
    BY <2>1, <2>2
<1>8. CASE Expire
  <2>1. /\ owner' = owner /\ transient' = transient /\ expired' = TRUE
        /\ session' = session /\ UNCHANGED <<up, busyVars, store>>
    BY <1>8 DEF Expire
  <2>2. /\ owner' \in Session \cup {None} /\ transient' \in BOOLEAN
        /\ attempts' \in 0 .. MaxTries
    BY <2>1 DEF IndInv, TypeOK, store
  <2>3. \A t \in Session : session'[t].setup # 0 =>
                               owner' = t /\ attempts' < MaxTries
    BY <2>1 DEF IndInv, OneSetup, SetupInv, store
  <2>4. owner' # None => session'[owner'].conn # "closed" /\ ~IsPaired
    BY <2>1 DEF IndInv, OneSetup
  <2>5. expired' \in BOOLEAN
    BY <2>1
  <2> QED
    BY <1>1, <1>2, <2>1, <2>2, <2>3, <2>4, <2>5, ServeStep DEF store
<1> QED
  BY <1>4, <1>5, <1>6, <1>7, <1>8

--------------------------------------------------------------------------------
\* A session that is good stays it when somebody else is paired.
LEMMA GoodWithMore ==
    ASSUME NEW x, NEW p, NEW q, Good(x, p), ~IsTransient(x),
           \A k \in Key : p[k] # None => q[k] # None
    PROVE  Good(x, q)
  BY DEF Good, IsSecured

\* A controller that becomes paired, while nobody is in the middle of pair setup.
LEMMA PairStep ==
    ASSUME IndInv, up = "running", busy = None,
           UNCHANGED <<up, busyVars, identity, attempts>>,
           session' \in [Session -> SessionState],
           \A t \in Session : Good(session'[t], paired'),
           \A t \in Session : session'[t].setup = 0,
           owner' = None, transient' \in BOOLEAN, expired' \in BOOLEAN,
           NEW c \in Controller, NEW k \in Key, paired[k] = None,
           \A j \in Key : paired[j] # c,
           paired' = [paired EXCEPT ![k] = c],
           admin' \subseteq admin \cup {k}, admin' # {}
    PROVE  IndInv'
<1> USE DEF IndInv, identity, busyVars
<1>1. /\ paired' \in [Key -> Controller \cup {None}] /\ paired'[k] = c
      /\ \A j \in Key \ {k} : paired'[j] = paired[j]
  BY DEF TypeOK
<1>2. orphans = {} /\ ltsk /\ admin \subseteq Key
  BY DEF PairedWithThisKey, TypeOK
<1>3. TypeOK'
  BY <1>1, <1>2 DEF TypeOK
<1>4. OneSetup' /\ SetupInv' /\ UpdateInv'
  BY DEF OneSetup, SetupInv, UpdateInv
<1>5. \A j \in admin' : j \in Key /\ paired'[j] # None
  BY <1>1, <1>2, PairingAssumption DEF KeyInv
<1>6. KeyInv'
  BY <1>2, <1>5 DEF KeyInv, Good
<1>7. NoTransientWhenPaired'
  BY DEF NoTransientWhenPaired, Good, IsPaired
<1>8. StaysSecured'
  BY DEF StaysSecured, Good
<1>9. AdminUnlessUnpaired'
  BY <1>5 DEF AdminUnlessUnpaired, IsPaired
<1>10. PairedOnce'
  BY <1>1 DEF PairedOnce
<1>11. PairedWithThisKey'
  BY <1>2 DEF PairedWithThisKey
<1> QED
  BY <1>3, <1>4, <1>6, <1>7, <1>8, <1>9, <1>10, <1>11

\* M5 of pair setup: the sessions of others are not transient any more.
LEMMA SetupExchangeStep ==
    ASSUME IndInv, NEW s \in Session, NEW c \in Controller, SetupExchange(s, c)
    PROVE  IndInv'
<1> DEFINE f == SetupStates(s, 0)
<1>1. /\ Unsecured(s) /\ session[s].setup = 4 /\ SetupEnds(s)
      /\ paired' = [paired EXCEPT ![0] = c] /\ admin' = admin \cup {0}
      /\ Respond(f, s, paired') /\ UNCHANGED <<attempts, identity>>
  BY DEF SetupExchange
<1>2. owner = s /\ ~IsPaired /\ OwnerAfterReset(s) = None
  BY <1>1, OwnSetup
<1>3. /\ up = "running" /\ busy = None /\ session[s] \in SessionState
      /\ session[s].active = FALSE
  BY <1>1, UnsecuredFacts
<1>4. \A k \in Key : paired[k] = None
  BY <1>2 DEF IsPaired
<1>5. /\ f \in [Session -> SessionState]
      /\ f[s] = [session[s] EXCEPT !.setup = 0]
      /\ \A t \in Session \ {s} : Good(f[t], paired)
  BY <1>1, SetupStatesGood
<1>6. \A t \in Session \ {s} : f[t].setup = 0
  <2>1. Claims(s)
    BY <1>1, <1>2, UnsecuredFacts DEF Claims, OwnerSeen
  <2> QED
    BY <1>1, <2>1, OwnerKeeps
<1>7. \A t \in Session \ {s} : ~IsTransient(f[t])
  <2> SUFFICES ASSUME NEW t \in Session \ {s} PROVE ~IsTransient(f[t])
    OBVIOUS
  <2>1. CASE t \in Others(s)
    <3>1. f[t] = Fresh("closed")
      BY <1>2, <2>1 DEF SetupStates
    <3> QED
      BY <3>1 DEF Fresh, IsTransient
  <2>2. CASE t \notin Others(s)
    <3>1. f[t] = session[t]
      BY <1>2, <2>2 DEF SetupStates
    <3> QED
      BY <2>2, <3>1 DEF Others
  <2> QED
    BY <2>1, <2>2
<1> HIDE DEF f
<1>8. \A t \in Session \ {s} : Good(f[t], paired')
  BY <1>4, <1>5, <1>7, GoodWithMore
<1>9. session' = [f EXCEPT ![s].conn = "Writing"]
  <2>1. PICK g, p :
             /\ g \in [Session -> SessionState]
             /\ g = f /\ p = paired' /\ \A t \in Session \ {s} : Good(g[t], p)
    BY <1>5, <1>8
  <2>2. Respond(g, s, p)
    BY <1>1, <2>1 DEF Respond
  <2> QED
    BY <2>1, <2>2, RespondGood
<1>10. /\ session' \in [Session -> SessionState] /\ session'[s].setup = 0
       /\ session'[s] = [f[s] EXCEPT !.conn = "Writing"]
       /\ \A t \in Session \ {s} : session'[t] = f[t]
  BY <1>3, <1>5, <1>9 DEF SessionState
<1>11. Good(session'[s], paired')
  <2>1. f[s] \in SessionState /\ f[s].active = FALSE
    BY <1>3, <1>5 DEF SessionState
  <2> QED
    BY <1>10, <2>1, WritingGood DEF IsTransient
<1>12. /\ \A t \in Session : Good(session'[t], paired')
       /\ \A t \in Session : session'[t].setup = 0
  BY <1>6, <1>8, <1>10, <1>11
<1>13. /\ owner' = None /\ transient' \in BOOLEAN /\ expired' \in BOOLEAN
       /\ UNCHANGED <<up, busyVars>>
  BY <1>1, <1>2 DEF SetupEnds, IndInv, TypeOK
<1>14. 0 \in Key /\ paired[0] = None /\ \A j \in Key : paired[j] # c
  BY <1>4, PairingAssumption DEF Key
<1> QED
  BY <1>1, <1>3, <1>10, <1>12, <1>13, <1>14, PairStep

--------------------------------------------------------------------------------
\* What holds when a session administers the pairings.
LEMMA AdministersFacts ==
    ASSUME IndInv, NEW s \in Session, Administers(s)
    PROVE  /\ up = "running" /\ busy = None /\ owner = None /\ IsPaired
           /\ session[s].key \in Key /\ session[s].key \in admin
           /\ paired[session[s].key] # None
           /\ session[s] \in SessionState /\ s # None
           /\ \A t \in Session : session[t].setup = 0
           /\ \A t \in Session : ~IsTransient(session[t])
<1>1. /\ up = "running" /\ busy = None /\ session[s].key \in admin
      /\ IsSecured(session[s], paired) /\ ~session[s].split
  BY DEF Administers, Secured, Request
<1>2. session[s].key \in Key /\ paired[session[s].key] # None /\ IsPaired
  BY <1>1 DEF IsSecured, IsPaired
<1>3. owner = None
  BY <1>2 DEF IndInv, OneSetup
<1>4. \A t \in Session : session[t].setup = 0 /\ t # None
  BY <1>3, PairingAssumption DEF IndInv, OneSetup
<1>5. \A t \in Session : ~IsTransient(session[t])
  BY <1>2 DEF IndInv, NoTransientWhenPaired
<1> QED
  BY <1>1, <1>2, <1>3, <1>4, <1>5 DEF IndInv, TypeOK

\* A request to add a pairing that is not there.
LEMMA AddPairingStep ==
    ASSUME IndInv, NEW s \in Session, NEW c \in Controller,
           NEW isAdmin \in BOOLEAN, AddPairing(s, c, isAdmin)
    PROVE  IndInv'
<1>1. Administers(s) /\ \A j \in Key : paired[j] # c
  BY DEF AddPairing
<1>2. PICK k \in Key : /\ paired[k] = None
                       /\ paired' = [paired EXCEPT ![k] = c]
                       /\ admin' = WithPermission(k, isAdmin)
  BY DEF AddPairing, IsFirstFree
<1>3. /\ up = "running" /\ busy = None /\ owner = None
      /\ session[s].key \in admin /\ paired[session[s].key] # None
      /\ session[s] \in SessionState
      /\ \A t \in Session : session[t].setup = 0
      /\ \A t \in Session : ~IsTransient(session[t])
  BY <1>1, AdministersFacts
<1>4. \A j \in Key : paired[j] # None => paired'[j] # None
  BY <1>2, PairingAssumption DEF IndInv, TypeOK
<1>5. PICK x : x = [session[s] EXCEPT !.secured = TRUE]
  OBVIOUS
<1>6. /\ x \in SessionState /\ x.setup = 0 /\ x.active = session[s].active
      /\ x.split = session[s].split /\ x.key = session[s].key
  BY <1>3, <1>5 DEF SessionState
<1>7. \A t \in Session : Good(session[t], paired)
  BY <1>3, AllGood
<1>8. \A t \in Session : Good(session[t], paired')
  BY <1>3, <1>4, <1>7, GoodWithMore
<1>9. PICK g, p :
           /\ g \in [Session -> SessionState]
           /\ g = [session EXCEPT ![s] = x] /\ p = paired'
           /\ g[s] = x /\ \A t \in Session \ {s} : g[t] = session[t]
           /\ \A t \in Session \ {s} : Good(g[t], p)
  <2> DEFINE h == [session EXCEPT ![s] = x]
  <2>1. session \in [Session -> SessionState]
    BY DEF IndInv, TypeOK
  <2>2. /\ h \in [Session -> SessionState] /\ h[s] = x
        /\ \A t \in Session \ {s} : h[t] = session[t]
    BY <1>6, <2>1
  <2>3. \A t \in Session \ {s} : Good(h[t], paired')
    BY <1>8, <2>2
  <2> HIDE DEF h
  <2>4. \E g, p :
            /\ g \in [Session -> SessionState]
            /\ g = h /\ p = paired'
            /\ g[s] = x /\ \A t \in Session \ {s} : g[t] = session[t]
            /\ \A t \in Session \ {s} : Good(g[t], p)
    BY <2>2, <2>3
  <2> QED
    BY <2>4 DEF h
<1>10. session' = [g EXCEPT ![s].conn = "Writing"]
  <2>1. Respond(g, s, p)
    BY <1>5, <1>9 DEF AddPairing, Respond
  <2> QED
    BY <1>9, <2>1, RespondGood
<1>11. /\ session' \in [Session -> SessionState]
       /\ session'[s] = [x EXCEPT !.conn = "Writing"] /\ session'[s].setup = 0
       /\ \A t \in Session \ {s} : session'[t] = session[t]
  BY <1>6, <1>9, <1>10 DEF SessionState
<1>12. Good(session'[s], paired')
  <2>1. x.active /\ ~x.split => x.key \in Key
    BY <1>6, <1>7 DEF Good
  <2>2. ~IsTransient(x)
    BY <1>3, <1>6 DEF IsTransient
  <2> QED
    BY <1>6, <1>11, <2>1, <2>2, WritingGood
<1>13. /\ \A t \in Session : Good(session'[t], paired')
       /\ \A t \in Session : session'[t].setup = 0
  BY <1>3, <1>8, <1>11, <1>12
<1>14. admin' \subseteq admin \cup {k} /\ admin' # {}
  BY <1>2, <1>3 DEF WithPermission
<1>15. /\ owner' = None /\ transient' \in BOOLEAN /\ expired' \in BOOLEAN
       /\ UNCHANGED <<up, busyVars, identity, attempts>>
  BY <1>3 DEF AddPairing, setupVars, IndInv, TypeOK
<1> QED
  BY <1>1, <1>2, <1>3, <1>11, <1>13, <1>14, <1>15, PairStep

\* A request to change or remove a pairing, up to the cleanup.
LEMMA ChangePairingStep ==
    ASSUME IndInv, NEW s \in Session, NEW c \in Controller,
           \/ \E isAdmin \in BOOLEAN : UpdatePairing(s, c, isAdmin)
           \/ RemovePairing(s, c)
    PROVE  IndInv'
<1> USE DEF IndInv
<1>1. /\ Administers(s) /\ busy' = s /\ adds' \in BOOLEAN
      /\ session' = [session EXCEPT ![s].secured = TRUE]
      /\ UNCHANGED <<up, owner, transient, expired, attempts, ltsk, orphans>>
  BY DEF UpdatePairing, RemovePairing, setupVars, identity
<1>2. /\ up = "running" /\ busy = None /\ owner = None /\ s # None
      /\ session[s].key \in admin /\ session[s].key \in Key /\ IsPaired
      /\ paired[session[s].key] # None /\ session[s] \in SessionState
      /\ \A t \in Session : session[t].setup = 0
      /\ \A t \in Session : ~IsTransient(session[t])
      /\ ltsk /\ orphans = {}
  BY <1>1, AdministersFacts DEF PairedWithThisKey
<1>3. /\ session' \in [Session -> SessionState]
      /\ session'[s] = [session[s] EXCEPT !.secured = TRUE]
      /\ \A t \in Session \ {s} : session'[t] = session[t]
  BY <1>1, <1>2 DEF TypeOK, SessionState
<1>4. \A t \in Session :
          /\ session'[t].setup = 0 /\ ~IsTransient(session'[t])
          /\ session'[t].active = session[t].active
          /\ session'[t].split = session[t].split
          /\ session'[t].key = session[t].key
  <2>1. /\ session'[s].setup = session[s].setup
        /\ session'[s].active = session[s].active
        /\ session'[s].split = session[s].split
        /\ session'[s].key = session[s].key
    BY <1>2, <1>3 DEF SessionState
  <2> QED
    BY <1>2, <1>3, <2>1 DEF IsTransient
<1>5. /\ paired' \in [Key -> Controller \cup {None}]
      /\ \A k \in Key : paired'[k] \in {paired[k], None}
      /\ admin' \subseteq Key
      /\ \A k \in admin' : paired'[k] # None
  <2>1. CASE \E isAdmin \in BOOLEAN : UpdatePairing(s, c, isAdmin)
    BY <2>1, PairingAssumption DEF UpdatePairing, WithPermission, TypeOK, KeyInv
  <2>2. CASE RemovePairing(s, c)
    BY <2>2 DEF RemovePairing, TypeOK, KeyInv
  <2> QED
    BY <2>1, <2>2
<1>6. LastAdminStays /\ adds' =>
          admin' # {} /\ paired'[session'[busy'].key] # None
  <2>1. CASE \E isAdmin \in BOOLEAN : UpdatePairing(s, c, isAdmin)
    <3>1. PICK isAdmin \in BOOLEAN, k \in Key :
               /\ LastAdminStays => isAdmin \/ admin # {k}
               /\ admin' = WithPermission(k, isAdmin)
      BY <2>1 DEF UpdatePairing
    <3>2. paired' = paired
      BY <2>1 DEF UpdatePairing
    <3>3. LastAdminStays => admin' # {}
      BY <1>2, <3>1 DEF WithPermission
    <3> QED
      BY <1>1, <1>2, <1>4, <3>2, <3>3
  <2>2. CASE RemovePairing(s, c)
    BY <2>2 DEF RemovePairing
  <2> QED
    BY <2>1, <2>2
<1>7. TypeOK'
  BY <1>1, <1>3, <1>5 DEF TypeOK
<1>8. OneSetup' /\ SetupInv'
  BY <1>1, <1>2, <1>4 DEF OneSetup, SetupInv
<1>9. UpdateInv'
  BY <1>1, <1>2, <1>6 DEF UpdateInv
<1>10. KeyInv'
  BY <1>1, <1>2, <1>4, <1>5 DEF KeyInv
<1>11. NoTransientWhenPaired' /\ StaysSecured' /\ AdminUnlessUnpaired'
  BY <1>1, <1>2, <1>4 DEF NoTransientWhenPaired, StaysSecured,
                          AdminUnlessUnpaired
<1>12. PairedOnce' /\ PairedWithThisKey'
  BY <1>1, <1>2, <1>5 DEF PairedOnce, PairedWithThisKey
<1> QED
  BY <1>7, <1>8, <1>9, <1>10, <1>11, <1>12

\* The cleanup leaves an admin or nobody.
LEMMA CleanupFacts ==
    ASSUME TypeOK, KeyInv, PairedOnce, Cleanup
    PROVE  /\ paired' \in [Key -> Controller \cup {None}]
           /\ \A k \in Key : paired'[k] \in {paired[k], None}
           /\ admin' \subseteq admin /\ \A k \in admin' : paired'[k] # None
           /\ IsPaired' <=> admin' # {}
           /\ IsPaired' => paired' = paired /\ IsPaired
           /\ admin # {} => paired' = paired /\ admin' = admin
           /\ PairedOnce'
<1>1. CASE admin # {}
  <2>1. paired' = paired /\ admin' = admin
    BY <1>1 DEF Cleanup
  <2>2. IsPaired
    BY <1>1 DEF KeyInv, IsPaired, TypeOK
  <2> QED
    BY <1>1, <2>1, <2>2 DEF IsPaired, KeyInv, TypeOK, PairedOnce
<1>2. CASE admin = {}
  <2>1. paired' = [k \in Key |-> None] /\ admin' = {}
    BY <1>2 DEF Cleanup
  <2> QED
    BY <1>2, <2>1 DEF IsPaired, PairedOnce
<1> QED
  BY <1>1, <1>2

\* The cleanup after a request, and the response: a session that lost its
\* pairing is closed.
LEMMA FinishPairingsStep ==
    ASSUME IndInv, FinishPairings
    PROVE  IndInv'
<1> USE DEF IndInv
<1>1. /\ up = "running" /\ busy # None /\ busy \in Session /\ Cleanup
      /\ busy' = None /\ adds' = FALSE /\ owner = None
      /\ UNCHANGED <<owner, transient, expired, attempts, ltsk, orphans>>
      /\ ltsk /\ orphans = {}
  BY DEF FinishPairings, TypeOK, SetupInv, setupVars, identity,
         PairedWithThisKey
<1>2. /\ paired' \in [Key -> Controller \cup {None}]
      /\ admin' \subseteq admin /\ \A k \in admin' : paired'[k] # None
      /\ IsPaired' <=> admin' # {}
      /\ IsPaired' => paired' = paired /\ IsPaired
      /\ admin # {} => paired' = paired /\ admin' = admin
      /\ PairedOnce'
  BY <1>1, CleanupFacts
<1>3. \A t \in Session : session[t].setup = 0
  BY <1>1, PairingAssumption DEF OneSetup
<1>4. CASE adds /\ paired'[session[busy].key] = None
  <2>1. up' = "aborted" /\ session' = session
    BY <1>4 DEF FinishPairings
  <2>2. ~LastAdminStays
    BY <1>1, <1>2, <1>4 DEF UpdateInv
  <2>3. adds' \in BOOLEAN
    BY <1>1
  <2>4. TypeOK'
    BY <1>1, <1>2, <2>1, <2>3 DEF TypeOK
  <2>5. OneSetup' /\ SetupInv' /\ UpdateInv'
    BY <1>1, <1>3, <2>1, <2>2 DEF OneSetup, SetupInv, UpdateInv
  <2>6. KeyInv' /\ NoTransientWhenPaired'
    BY <1>1, <1>2, <2>1 DEF KeyInv, NoTransientWhenPaired
  <2>7. AdminUnlessUnpaired' /\ PairedWithThisKey'
    BY <2>1 DEF AdminUnlessUnpaired, PairedWithThisKey
  <2> QED
    BY <1>2, <2>1, <2>4, <2>5, <2>6, <2>7
<1>5. CASE ~(adds /\ paired'[session[busy].key] = None)
  <2> DEFINE g == [session EXCEPT ![busy].conn = "Writing"]
  <2>1. up' = up /\ session' = Closed(g, LostPairing(g, busy, paired'))
    BY <1>5 DEF FinishPairings, Respond
  <2>2. /\ g \in [Session -> SessionState] /\ g[busy].conn = "Writing"
        /\ \A t \in Session : /\ g[t].setup = session[t].setup
                              /\ g[t].active = session[t].active
                              /\ g[t].split = session[t].split
                              /\ g[t].key = session[t].key
    BY <1>1 DEF TypeOK, SessionState
  <2> HIDE DEF g
  <2>3. \A t \in Session :
            session'[t] = IF t \in LostPairing(g, busy, paired')
                          THEN Fresh("closed") ELSE g[t]
    BY <2>1 DEF Closed
  <2>4. /\ Fresh("closed") \in SessionState /\ Fresh("closed").setup = 0
        /\ Fresh("closed").active = FALSE /\ Fresh("closed").conn = "closed"
    BY DEF Fresh, SessionState
  <2>5. session' \in [Session -> SessionState]
    BY <2>1, <2>2, <2>3, <2>4 DEF Closed
  <2>6. \A t \in Session :
            /\ session'[t].setup = 0
            /\ session'[t].active /\ ~session'[t].split =>
                   session'[t].key \in Key
            /\ IsTransient(session'[t]) => IsTransient(session[t])
    BY <1>3, <2>2, <2>3, <2>4 DEF KeyInv, IsTransient
  <2>7. StaysSecured'
    <3> SUFFICES ASSUME NEW t \in Session, session'[t].conn = "Reading",
                        session'[t].secured
                 PROVE  IsSecured(session'[t], paired')
      BY DEF StaysSecured
    <3>1. t \notin LostPairing(g, busy, paired') /\ session'[t] = g[t]
      BY <2>3, <2>4
    <3>2. t # busy
      BY <2>2, <3>1
    <3> QED
      BY <3>1, <3>2 DEF LostPairing
  <2>8. adds' \in BOOLEAN
    BY <1>1
  <2>9. TypeOK'
    BY <1>1, <1>2, <2>1, <2>5, <2>8 DEF TypeOK
  <2>10. OneSetup' /\ SetupInv' /\ UpdateInv'
    BY <1>1, <2>1, <2>6 DEF OneSetup, SetupInv, UpdateInv
  <2>11. KeyInv' /\ NoTransientWhenPaired'
    BY <1>1, <1>2, <2>6 DEF KeyInv, NoTransientWhenPaired
  <2>12. AdminUnlessUnpaired' /\ PairedWithThisKey'
    BY <1>1, <1>2, <2>1 DEF AdminUnlessUnpaired, PairedWithThisKey
  <2> QED
    BY <1>2, <2>7, <2>9, <2>10, <2>11, <2>12
<1> QED
  BY <1>4, <1>5

--------------------------------------------------------------------------------
\* A server that is not running has no session, and its store makes sense.
LEMMA StoppedStep ==
    ASSUME IndInv, up' \in {"down", "starting", "running", "resetting"},
           session' = [t \in Session |-> Fresh("closed")],
           owner' = None, transient' \in BOOLEAN, expired' \in BOOLEAN,
           busy' = None, adds' \in BOOLEAN, attempts' \in 0 .. MaxTries,
           paired' \in [Key -> Controller \cup {None}],
           \A k \in Key : paired'[k] \in {paired[k], None},
           admin' \subseteq Key, orphans' \subseteq Key, ltsk' \in BOOLEAN,
           \A k \in admin' \cup orphans' : paired'[k] # None,
           ltsk' => orphans' = {},
           up' = "running" => ltsk' /\ (IsPaired' => admin' # {})
    PROVE  IndInv'
<1> USE DEF IndInv
<1>1. /\ Fresh("closed") \in SessionState /\ Fresh("closed").setup = 0
      /\ Fresh("closed").active = FALSE /\ Fresh("closed").conn = "closed"
  BY DEF Fresh, SessionState
<1>2. TypeOK'
  BY <1>1 DEF TypeOK
<1>3. OneSetup' /\ SetupInv' /\ UpdateInv' /\ KeyInv'
  BY <1>1 DEF OneSetup, SetupInv, UpdateInv, KeyInv
<1>4. NoTransientWhenPaired' /\ StaysSecured'
  BY <1>1 DEF NoTransientWhenPaired, StaysSecured, IsTransient
<1>5. AdminUnlessUnpaired'
  BY DEF AdminUnlessUnpaired, IsPaired
<1>6. PairedOnce' /\ PairedWithThisKey'
  BY DEF PairedOnce, PairedWithThisKey
<1> QED
  BY <1>2, <1>3, <1>4, <1>5, <1>6

\* A crash and the beginning of a reset close the sessions and keep the store.
LEMMA EndStep ==
    ASSUME IndInv, Crash \/ FactoryReset
    PROVE  IndInv'
<1>1. /\ up' \in {"down", "resetting"} /\ owner' = None /\ busy' = None
      /\ session' = [t \in Session |-> Fresh("closed")]
      /\ UNCHANGED <<paired, admin, attempts, ltsk, orphans>>
  BY DEF Crash, FactoryReset, Ends, store, identity
<1>2. transient' \in BOOLEAN /\ expired' \in BOOLEAN /\ adds' \in BOOLEAN
  BY DEF Crash, FactoryReset, Ends
<1> QED
  BY <1>1, <1>2, StoppedStep DEF IndInv, TypeOK, KeyInv

\* The start, with or without a long-term key, and the purges of a reset.
LEMMA StartAndResetStep ==
    ASSUME IndInv,
           \/ Start \/ StartWithoutKey \/ GenerateKey
           \/ PurgeKey \/ PurgeAttempts \/ ResetDone
           \/ \E k \in Key : PurgePairing(k)
    PROVE  IndInv'
<1>1. up \in {"down", "starting", "resetting"} /\ UNCHANGED volatile
  BY DEF Start, StartWithoutKey, GenerateKey, PurgeKey, PurgeAttempts,
         ResetDone, PurgePairing, volatile
<1>2. /\ session = [t \in Session |-> Fresh("closed")] /\ owner = None
      /\ busy = None
  <2>1. /\ owner = None /\ busy = None
        /\ \A t \in Session : session[t] = Fresh("closed")
    BY <1>1 DEF IndInv, SetupInv
  <2> QED
    BY <2>1 DEF IndInv, TypeOK
<1>3. /\ session' = [t \in Session |-> Fresh("closed")] /\ owner' = None
      /\ busy' = None /\ transient' \in BOOLEAN /\ expired' \in BOOLEAN
      /\ adds' \in BOOLEAN
  BY <1>1, <1>2 DEF volatile, IndInv, TypeOK
<1>4. /\ TypeOK /\ KeyInv /\ PairedOnce
  BY DEF IndInv
<1>5. CASE Start
  <2>1. /\ ltsk /\ up' = "running" /\ Cleanup
        /\ UNCHANGED <<attempts, ltsk, orphans>>
    BY <1>5 DEF Start, identity
  <2>2. orphans = {}
    BY <1>4, <2>1 DEF KeyInv
  <2> QED
    BY <1>3, <1>4, <2>1, <2>2, CleanupFacts, StoppedStep DEF TypeOK
<1>6. CASE StartWithoutKey \/ ResetDone
  <2>1. /\ up' \in {"starting", "down"}
        /\ UNCHANGED <<paired, admin, attempts, ltsk, orphans>>
    BY <1>6 DEF StartWithoutKey, ResetDone, store, identity
  <2> QED
    BY <1>3, <1>4, <2>1, StoppedStep DEF TypeOK, KeyInv
<1>7. CASE GenerateKey
  <2>1. /\ ~IsPaired /\ ltsk' = TRUE /\ up' = "running"
        /\ UNCHANGED <<paired, admin, attempts, orphans>>
    BY <1>7 DEF GenerateKey
  <2>2. orphans = {} /\ IsPaired' = IsPaired
    BY <1>4, <2>1 DEF KeyInv, IsPaired, TypeOK
  <2>3. ltsk' \in BOOLEAN
    BY <2>1
  <2> QED
    BY <1>3, <1>4, <2>1, <2>2, <2>3, StoppedStep DEF TypeOK, KeyInv
<1>8. CASE PurgeKey
  <2>1. /\ up' = "resetting" /\ ltsk' = FALSE
        /\ orphans' = {k \in Key : paired[k] # None}
        /\ UNCHANGED <<paired, admin, attempts>>
    BY <1>8 DEF PurgeKey
  <2>2. ltsk' \in BOOLEAN
    BY <2>1
  <2> QED
    BY <1>3, <1>4, <2>1, <2>2, StoppedStep DEF TypeOK, KeyInv
<1>9. CASE PurgeAttempts
  <2>1. /\ up' = "resetting" /\ attempts' = 0
        /\ UNCHANGED <<paired, admin, ltsk, orphans>>
    BY <1>9 DEF PurgeAttempts, identity
  <2>2. attempts' \in 0 .. MaxTries
    BY <2>1, PairingAssumption
  <2> QED
    BY <1>3, <1>4, <2>1, <2>2, StoppedStep DEF TypeOK, KeyInv
<1>10. CASE \E k \in Key : PurgePairing(k)
  <2>1. PICK k \in Key : PurgePairing(k)
    BY <1>10
  <2>2. /\ up' \in {"starting", "resetting"}
        /\ paired' = [paired EXCEPT ![k] = None]
        /\ admin' = admin \ {k} /\ orphans' = orphans \ {k}
        /\ UNCHANGED <<attempts, ltsk>>
    BY <2>1 DEF PurgePairing
  <2>3. /\ paired' \in [Key -> Controller \cup {None}]
        /\ \A j \in Key : paired'[j] \in {paired[j], None}
        /\ admin' \subseteq Key /\ orphans' \subseteq Key
        /\ \A j \in admin' \cup orphans' : paired'[j] # None
        /\ ltsk' => orphans' = {}
    BY <1>4, <2>2 DEF TypeOK, KeyInv
  <2> QED
    BY <1>3, <1>4, <2>2, <2>3, StoppedStep DEF TypeOK
<1> QED
  BY <1>5, <1>6, <1>7, <1>8, <1>9, <1>10

--------------------------------------------------------------------------------
\* The invariant holds when the accessory is off and nobody is paired.
LEMMA InvariantInit == Init => IndInv
<1> SUFFICES ASSUME Init PROVE IndInv
  OBVIOUS
<1>1. /\ Fresh("closed") \in SessionState /\ Fresh("closed").setup = 0
      /\ Fresh("closed").active = FALSE /\ Fresh("closed").conn = "closed"
  BY DEF Fresh, SessionState
<1>2. TypeOK
  <2>1. /\ transient \in BOOLEAN /\ expired \in BOOLEAN /\ adds \in BOOLEAN
        /\ ltsk \in BOOLEAN
    BY DEF Init
  <2>2. /\ session \in [Session -> SessionState] /\ attempts \in 0 .. MaxTries
        /\ paired \in [Key -> Controller \cup {None}]
        /\ admin \subseteq Key /\ orphans \subseteq Key
        /\ up = "down" /\ owner = None /\ busy = None
    BY <1>1, PairingAssumption DEF Init
  <2> QED
    BY <2>1, <2>2 DEF TypeOK
<1>3. OneSetup /\ SetupInv /\ UpdateInv /\ KeyInv
  BY <1>1 DEF Init, OneSetup, SetupInv, UpdateInv, KeyInv
<1>4. NoTransientWhenPaired /\ StaysSecured
  BY <1>1 DEF Init, NoTransientWhenPaired, StaysSecured, IsTransient
<1>5. AdminUnlessUnpaired /\ PairedOnce /\ PairedWithThisKey
  BY DEF Init, AdminUnlessUnpaired, PairedOnce, PairedWithThisKey
<1> QED
  BY <1>2, <1>3, <1>4, <1>5 DEF IndInv

\* Every step keeps the invariant.
LEMMA InvariantNext == IndInv /\ [Next]_vars => IndInv'
<1> SUFFICES ASSUME IndInv, [Next]_vars PROVE IndInv'
  OBVIOUS
<1>1. ASSUME NEW s \in Session, PairSetup(s) PROVE IndInv'
  <2>1. CASE \E answered \in BOOLEAN : SetupProofHolds(s, answered)
    BY <2>1, SetupFailsStep, SetupProofHoldsStep
  <2> QED
    BY <1>1, <2>1, SetupStartStep, SetupFailsStep, SetupExchangeStep
       DEF PairSetup
<1>2. ASSUME NEW s \in Session, Pairings(s) PROVE IndInv'
  BY <1>2, ChangePairingStep, AddPairingStep DEF Pairings
<1>3. CASE \E s \in Session :
              \/ PairVerify(s) \/ OtherRequest(s) \/ Accept(s)
              \/ CloseSession(s) \/ WriteOutboundData(s)
  BY <1>3, PairVerifyStep, ConnectionStep
<1>4. CASE Expire
  <2>1. owner \in Session
    BY <1>4 DEF Expire, IndInv, TypeOK
  <2>2. PICK s \in Session : s = owner
    BY <2>1
  <2> QED
    BY <1>4, ConnectionStep
<1>5. CASE UNCHANGED vars
  BY <1>5 DEF vars, volatile, store, identity, IndInv, TypeOK, OneSetup,
              SetupInv, UpdateInv, KeyInv, NoTransientWhenPaired, StaysSecured,
              AdminUnlessUnpaired, PairedOnce, PairedWithThisKey, IsPaired
<1> QED
  BY <1>1, <1>2, <1>3, <1>4, <1>5, FinishPairingsStep, EndStep,
     StartAndResetStep DEF Next

(* Every variable keeps its type: in particular the attempts at pair setup   *)
(* never exceed the 100 that HAPPairingPairSetupProcessM1 allows, over any   *)
(* sessions, crashes and resets.                                            *)
THEOREM Typing == Spec => []TypeOK
<1>1. IndInv => TypeOK
  BY DEF IndInv
<1> QED
  BY <1>1, InvariantInit, InvariantNext, PTL DEF Spec

(* Pair setup is past its first message only on the open session that owns  *)
(* the procedure, and only while the accessory is not paired.               *)
THEOREM SetupIsOwned == Spec => []OneSetup
<1>1. IndInv => OneSetup
  BY DEF IndInv
<1> QED
  BY <1>1, InvariantInit, InvariantNext, PTL DEF Spec

(* While HAPAccessoryServer serves requests it has an admin or no pairing,   *)
(* and no controller is paired twice, wherever it crashed before.           *)
THEOREM StoreIsSound == Spec => []PairingsSound
<1>1. IndInv => PairingsSound
  BY DEF IndInv, PairingsSound
<1> QED
  BY <1>1, InvariantInit, InvariantNext, PTL DEF Spec

(* While it serves requests its pairings were made with the long-term key    *)
(* that HAPAccessoryServerLoadLTSK loaded, wherever a reset crashed.        *)
THEOREM KeyIsTheirs == Spec => []PairedWithThisKey
<1>1. IndInv => PairedWithThisKey
  BY DEF IndInv
<1> QED
  BY <1>1, InvariantInit, InvariantNext, PTL DEF Spec

(* What HAPSession.c, HAPIPAccessoryServer.c and HAPPairingPairings.c assert *)
(* holds, as long as no update takes the last admin's permission away.      *)
THEOREM Assertions ==
    ASSUME LastAdminStays
    PROVE  Spec => []AssertionsHold
<1>1. IndInv => AssertionsHold
  BY DEF IndInv, AssertionsHold, NeverAborts, UpdateInv
<1> QED
  BY <1>1, InvariantInit, InvariantNext, PTL DEF Spec
==============================================================================
