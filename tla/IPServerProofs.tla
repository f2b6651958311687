---------------------------- MODULE IPServerProofs -----------------------------
(***************************************************************************)
(* Proofs about the IP accessory server, for any number of sessions, any    *)
(* buffers and any idle limit: sessions, streams and the listener agree,    *)
(* the idle limit holds, and a stopped engine leaves nothing behind but the *)
(* event notification timer.                                               *)
(***************************************************************************)
EXTENDS IPServer, FiniteSetTheorems, TLAPS

Free(f) == {s \in Session : f[s].state = "Free"}

\* The number of some sessions lies between none and all of them.
LEMMA Sizes ==
    ASSUME NEW S \in SUBSET Session
    PROVE  /\ IsFiniteSet(S)
           /\ Cardinality(S) \in 0 .. MaxSessions
           /\ MaxSessions \in Nat \ {0}
           /\ Cardinality(S) = MaxSessions => S = Session
           /\ Cardinality(S) = 0 <=> S = {}
<1>1. IsFiniteSet(Session) /\ Session # {}
  BY IPServerAssumption
<1>2. /\ IsFiniteSet(S)
      /\ Cardinality(S) <= MaxSessions
      /\ Cardinality(S) = MaxSessions => S = Session
  BY <1>1, FS_Subset DEF MaxSessions
<1>3. Cardinality(S) \in Nat /\ MaxSessions \in Nat
  BY <1>1, <1>2, FS_CardinalityType DEF MaxSessions
<1>4. Cardinality(S) = 0 <=> S = {}
  BY <1>2, FS_EmptySet
<1>5. MaxSessions # 0
  BY <1>1, FS_EmptySet DEF MaxSessions
<1> QED
  BY <1>2, <1>3, <1>4, <1>5

\* Taking some sessions away takes their number away.
LEMMA Without ==
    ASSUME NEW S \in SUBSET Session, NEW T \in SUBSET S
    PROVE  Cardinality(S \ T) = Cardinality(S) - Cardinality(T)
<1>1. IsFiniteSet(S) /\ S \cap T = T
  BY Sizes
<1> QED
  BY <1>1, FS_Difference

\* One more session counts one more.
LEMMA OneMore ==
    ASSUME NEW S \in SUBSET Session, NEW s \in Session \ S
    PROVE  Cardinality(S \cup {s}) = Cardinality(S) + 1
<1>1. IsFiniteSet(S)
  BY Sizes
<1> QED
  BY <1>1, FS_AddElement

--------------------------------------------------------------------------------
\* What it means to close the sessions of C, when n streams are open and the
\* listener asks exactly when there is room.
LEMMA Closing ==
    ASSUME NEW f, f = [s \in Session |-> f[s]],
           NEW C \in SUBSET Open(f),
           \A s \in Session \ C : f[s] \in SessionState,
           NEW n, n = Cardinality(Open(f)),
           NEW l \in {"closed", "on", "off"},
           l # "closed" => (l = "on" <=> n < MaxSessions),
           CloseSessions(C, f, n, l)
    PROVE  /\ session' \in [Session -> SessionState]
           /\ Open(session') = Open(f) \ C
           /\ Free(session') = Free(f)
           /\ \A s \in Open(session') : session'[s] = f[s]
           /\ \A s \in Session \ C : session'[s] = f[s]
           /\ numTCPStreams' = Cardinality(Open(session'))
           /\ listener' \in {"closed", "on", "off"}
           /\ listener' = "closed" <=> l = "closed"
           /\ listener' # "closed" =>
                 (listener' = "on" <=> numTCPStreams' < MaxSessions)
<1>1. session' = [s \in Session |-> IF s \in C THEN Fresh("Idle") ELSE f[s]]
  BY DEF CloseSessions
<1>2. Fresh("Idle") \in SessionState /\ Fresh("Idle").state = "Idle"
  BY IPServerAssumption DEF Fresh, SessionState
<1>3. session' \in [Session -> SessionState]
  BY <1>1, <1>2
<1>4. Open(session') = Open(f) \ C
  BY <1>1, <1>2 DEF Open
<1>5. Free(session') = Free(f)
  BY <1>1, <1>2 DEF Free, Open
<1>6. (\A s \in Open(session') : session'[s] = f[s])
        /\ (\A s \in Session \ C : session'[s] = f[s])
  BY <1>1, <1>4 DEF Open
<1>7. Open(f) \in SUBSET Session
  BY DEF Open
<1>8. Cardinality(Open(f) \ C) = n - Cardinality(C)
  BY <1>7, Without
<1>9. numTCPStreams' = n - Cardinality(C)
  BY DEF CloseSessions
<1>10. n \in 0 .. MaxSessions /\ MaxSessions \in Nat \ {0}
          /\ Cardinality(C) \in 0 .. MaxSessions
  BY <1>7, Sizes
<1>11. listener' = ListenerInterest(l, n, Cardinality(C))
  BY DEF CloseSessions
<1>12. listener' = "closed" <=> l = "closed"
  BY <1>11 DEF ListenerInterest
<1>13. ASSUME l # "closed"
       PROVE  listener' = "on" <=> numTCPStreams' < MaxSessions
  <2>1. CASE MaxSessions - 1 \in n - Cardinality(C) .. n - 1
    BY <2>1, <1>9, <1>10, <1>11, <1>13 DEF ListenerInterest
  <2>2. CASE MaxSessions - 1 \notin n - Cardinality(C) .. n - 1
    <3>1. listener' = l
      BY <2>2, <1>11 DEF ListenerInterest
    <3>2. n < MaxSessions <=> n - Cardinality(C) < MaxSessions
      BY <2>2, <1>10
    <3> QED
      BY <3>1, <3>2, <1>9, <1>13
  <2> QED
    BY <2>1, <2>2
<1>14. listener' \in {"closed", "on", "off"}
  BY <1>11 DEF ListenerInterest
<1> QED
  BY <1>3, <1>4, <1>5, <1>6, <1>8, <1>9, <1>12, <1>13, <1>14

\* The idle timer is set to the time left of the session with the least.
LEMMA TimeLeftFirst ==
    ASSUME NEW f, NEW W \in SUBSET Session,
           \A s \in W : f[s].age \in 0 .. MaxIdleTime,
           NEW t \in TimeLeft(f, W)
    PROVE  /\ t \in 0 .. MaxIdleTime \cup {None}
           /\ \A s \in W : t # None /\ t <= MaxIdleTime - f[s].age
<1>1. CASE W = {}
  BY <1>1 DEF TimeLeft
<1>2. CASE W # {}
  <2>1. PICK s \in W : t = MaxIdleTime - f[s].age
    BY <1>2 DEF TimeLeft
  <2>2. \A u \in W : t <= MaxIdleTime - f[u].age
    BY <1>2 DEF TimeLeft
  <2>3. t \in 0 .. MaxIdleTime
    BY <2>1, IPServerAssumption
  <2> QED
    BY <2>2, <2>3 DEF None
<1> QED
  BY <1>1, <1>2

\* Scheduling the idle timer closes the sessions whose time is over, and those
\* that wait when the server stops; the others are timed.
LEMMA Scheduling ==
    ASSUME NEW f \in [Session -> SessionState],
           NEW k, NEW n, n = Cardinality(Open(f)),
           NEW l \in {"closed", "on", "off"},
           l # "closed" => (l = "on" <=> n < MaxSessions),
           ready \in SUBSET Open(f),
           ScheduleMaxIdleTimeTimer(f, k, n, l)
    PROVE  /\ session' \in [Session -> SessionState]
           /\ Open(session') \in SUBSET Open(f)
           /\ Free(session') = Free(f)
           /\ numTCPStreams' = Cardinality(Open(session'))
           /\ listener' \in {"closed", "on", "off"}
           /\ listener' = "closed" <=> l = "closed" \/ state = "Stopping"
           /\ listener' # "closed" =>
                 (listener' = "on" <=> numTCPStreams' < MaxSessions)
           /\ garbageCollectionTimer'
           /\ garbageCollectionTimer' \in BOOLEAN
           /\ ready' \in SUBSET Open(session')
           /\ maxIdleTimeTimer' \in 0 .. MaxIdleTime \cup {None}
           /\ k = MaxSessions \/ state = "Stopping" =>
                 \A s \in Open(session') :
                    /\ maxIdleTimeTimer' # None
                    /\ maxIdleTimeTimer' <= MaxIdleTime - session'[s].age
<1> DEFINE C == Stale(f, k)
           h == IF state = "Stopping" THEN "closed" ELSE l
           W == Watched(f, k) \ C
<1>1. /\ CloseSessions(C, f, n, h)
      /\ maxIdleTimeTimer' \in TimeLeft(f, W)
      /\ garbageCollectionTimer' = TRUE
      /\ ready' = ready \ C
  BY DEF ScheduleMaxIdleTimeTimer
<1>2. C \in SUBSET Open(f)
  BY DEF Stale, Waiting, Watched, Open
<1>3. f = [s \in Session |-> f[s]] /\ \A s \in Session \ C : f[s] \in SessionState
  OBVIOUS
<1>4. h \in {"closed", "on", "off"}
        /\ (h # "closed" => (h = "on" <=> n < MaxSessions))
        /\ (h = "closed" <=> l = "closed" \/ state = "Stopping")
  OBVIOUS
<1>5. W \in SUBSET Session /\ \A s \in W : f[s].age \in 0 .. MaxIdleTime
  BY DEF Watched, Open, SessionState
<1> HIDE DEF C, h, W
<1>6. PICK c, g : c = C /\ g = h
  OBVIOUS
<1>7. /\ session' \in [Session -> SessionState]
      /\ Open(session') = Open(f) \ C
      /\ Free(session') = Free(f)
      /\ \A s \in Open(session') : session'[s] = f[s]
      /\ numTCPStreams' = Cardinality(Open(session'))
      /\ listener' \in {"closed", "on", "off"}
      /\ listener' = "closed" <=> h = "closed"
      /\ listener' # "closed" =>
            (listener' = "on" <=> numTCPStreams' < MaxSessions)
  <2>1. CloseSessions(c, f, n, g)
    BY <1>1, <1>6 DEF CloseSessions
  <2>2. /\ c \in SUBSET Open(f)
        /\ \A s \in Session \ c : f[s] \in SessionState
        /\ g \in {"closed", "on", "off"}
        /\ g # "closed" => (g = "on" <=> n < MaxSessions)
    BY <1>2, <1>3, <1>4, <1>6
  <2> QED
    BY <2>1, <2>2, <1>3, <1>6, Closing
<1>8. /\ maxIdleTimeTimer' \in 0 .. MaxIdleTime \cup {None}
      /\ \A s \in W : /\ maxIdleTimeTimer' # None
                      /\ maxIdleTimeTimer' <= MaxIdleTime - f[s].age
  <2>1. PICK w, t : w = W /\ t = maxIdleTimeTimer'
    OBVIOUS
  <2>2. w \in SUBSET Session /\ t \in TimeLeft(f, w)
          /\ \A s \in w : f[s].age \in 0 .. MaxIdleTime
    BY <2>1, <1>1, <1>5
  <2> QED
    BY <2>1, <2>2, TimeLeftFirst
<1>9. k = MaxSessions \/ state = "Stopping" => W = Open(session')
  BY <1>7 DEF W, Watched, Open
<1>10. k = MaxSessions \/ state = "Stopping" =>
          \A s \in Open(session') :
              /\ maxIdleTimeTimer' # None
              /\ maxIdleTimeTimer' <= MaxIdleTime - session'[s].age
  BY <1>7, <1>8, <1>9
<1>11. ready' \in SUBSET Open(session')
  BY <1>1, <1>7
<1> QED
  BY <1>1, <1>4, <1>7, <1>8, <1>10, <1>11

--------------------------------------------------------------------------------
\* The run loop moves on, and no session or counter changes, nor any timer
\* but that of the events.
LEMMA PassStep ==
    ASSUME IndInv,
           UNCHANGED <<server, state, session, numSessions, streams,
                       garbageCollectionTimer, stateTransitionTimer,
                       callbackTimer, maxIdleTimeTimer>>,
           eventNotificationTimer' \in {"none", "due", "later"},
           loop' \in {"select", "timers", "pipe", "listener", "streams",
                      "ended", "aborted"},
           loop' \in {"select", "ended"} => (state = "Idle" <=> loop' = "ended"),
           loop' \in {"pipe", "listener"} => ~garbageCollectionTimer,
           state = "Idle" /\ loop' \notin {"timers", "aborted"} =>
              server = "Idle" /\ ~callbackTimer /\ eventNotificationTimer' # "due",
           pending' \in BOOLEAN,
           ready' \in SUBSET Open(session)
    PROVE  IndInv'
<1>1. UNCHANGED <<numTCPStreams, listener>>
  BY DEF streams
<1>2. TypeOK'
  BY <1>1 DEF IndInv, TypeOK
<1>3. EngineInv'
  BY <1>1 DEF IndInv, EngineInv
<1>4. CountsAgree' /\ AsksWhenRoom'
  BY <1>1 DEF IndInv, CountsAgree, AsksWhenRoom, FreeSlots
<1>5. IdleTimeHolds' /\ StoppedIsClean'
  BY <1>1 DEF IndInv, IdleTimeHolds, StoppedIsClean, FreeSlots
<1> QED
  BY <1>2, <1>3, <1>4, <1>5 DEF IndInv

\* A step of the open sessions: some are closed, the others are no older than
\* they were, and of the timers only the garbage collection's and the events'
\* are touched.
Progress ==
    /\ UNCHANGED <<server, state, numSessions, stateTransitionTimer,
                   callbackTimer, maxIdleTimeTimer, loop, pending>>
    /\ loop \in {"timers", "streams"}
    /\ Open(session) # {}
    /\ session' \in [Session -> SessionState]
    /\ Open(session') \in SUBSET Open(session)
    /\ Free(session') = Free(session)
    /\ \A s \in Open(session') : session'[s].age <= session[s].age
    /\ numTCPStreams' = Cardinality(Open(session'))
    /\ listener' \in {"closed", "on", "off"}
    /\ listener' = "closed" <=> listener = "closed"
    /\ listener' # "closed" => (listener' = "on" <=> numTCPStreams' < MaxSessions)
    /\ garbageCollectionTimer' \in BOOLEAN
    /\ garbageCollectionTimer => garbageCollectionTimer'
    /\ (\E s \in Session : session'[s].state = "Idle") => garbageCollectionTimer'
    /\ eventNotificationTimer' \in {"none", "due", "later"}
    /\ ready' \in SUBSET Open(session')

LEMMA ProgressStep == ASSUME IndInv, Progress PROVE IndInv'
<1>1. state # "Idle"
  BY DEF IndInv, StoppedIsClean, Progress, Open, FreeSlots
<1>2. TypeOK'
  <2>1. Open(session') \in SUBSET Session
    BY DEF Open
  <2>2. numTCPStreams' \in 0 .. MaxSessions
    BY <2>1, Sizes DEF Progress
  <2> QED
    BY <2>2 DEF IndInv, TypeOK, Progress
<1>3. EngineInv'
  BY <1>1 DEF IndInv, EngineInv, Progress
<1>4. CountsAgree'
  <2>1. FreeSlots' = FreeSlots
    BY DEF Progress, FreeSlots, Free
  <2> QED
    BY <2>1 DEF IndInv, CountsAgree, Progress
<1>5. AsksWhenRoom'
  BY DEF AsksWhenRoom, Progress
<1>6. IdleTimeHolds'
  <2> SUFFICES ASSUME numSessions = MaxSessions \/ state = "Stopping",
                      ~stateTransitionTimer, NEW s \in Open(session')
               PROVE  /\ maxIdleTimeTimer # None
                      /\ maxIdleTimeTimer <= MaxIdleTime - session'[s].age
    BY DEF IdleTimeHolds, Progress
  <2>1. s \in Open(session) /\ s \in Session
          /\ session'[s].age <= session[s].age
    BY DEF Progress, Open
  <2>2. maxIdleTimeTimer # None
          /\ maxIdleTimeTimer <= MaxIdleTime - session[s].age
    BY <2>1 DEF IndInv, IdleTimeHolds
  <2>3. session[s].age \in Nat /\ session'[s].age \in Nat
          /\ maxIdleTimeTimer \in Int /\ MaxIdleTime \in Nat
    BY <2>1, IPServerAssumption DEF IndInv, TypeOK, SessionState, Progress, None
  <2> QED
    BY <2>1, <2>2, <2>3
<1>7. StoppedIsClean'
  BY <1>1 DEF StoppedIsClean, Progress
<1> QED
  BY <1>2, <1>3, <1>4, <1>5, <1>6, <1>7 DEF IndInv

\* A connection that is served and leaves its session as x is progress.
LEMMA LeaveProgress ==
    ASSUME IndInv, NEW s \in Session, Served(s),
           NEW x, x.state \in {"Reading", "Writing"},
           NEW C \in SUBSET Open(session),
           s \in C \/ (x \in SessionState /\ x.age <= session[s].age),
           Leave(s, x, C), eventNotificationTimer' \in {"none", "due", "later"}
    PROVE  Progress
<1> DEFINE f == [session EXCEPT ![s] = x]
<1>1. session \in [Session -> SessionState] /\ ready \in SUBSET Open(session)
  BY DEF IndInv, TypeOK
<1>2. s \in Open(session)
  BY <1>1 DEF Served
<1>3. /\ f = [t \in Session |-> f[t]]
      /\ f[s] = x
      /\ \A t \in Session \ {s} : f[t] = session[t]
  BY <1>1
<1>4. Open(f) = Open(session) /\ Free(f) = Free(session)
  BY <1>2, <1>3 DEF Open, Free
<1>5. \A t \in Session \ C : f[t] \in SessionState
  BY <1>1, <1>3
<1>6. /\ numTCPStreams = Cardinality(Open(f))
      /\ listener \in {"closed", "on", "off"}
      /\ listener # "closed" => (listener = "on" <=> numTCPStreams < MaxSessions)
  BY <1>4 DEF IndInv, TypeOK, CountsAgree, AsksWhenRoom
<1>7. /\ CloseSessions(C, f, numTCPStreams, listener)
      /\ garbageCollectionTimer' = Garbage(C)
      /\ ready' = ready \ (C \cup {s})
  BY DEF Leave
<1>8. \A t \in Open(session) \ C : f[t].age <= session[t].age
  BY <1>1, <1>3, IPServerAssumption DEF SessionState, Open
<1> HIDE DEF f
<1>9. PICK g, n, l : g = f /\ n = numTCPStreams /\ l = listener
  OBVIOUS
<1>10. /\ session' \in [Session -> SessionState]
       /\ Open(session') = Open(f) \ C
       /\ Free(session') = Free(f)
       /\ \A t \in Open(session') : session'[t] = f[t]
       /\ \A t \in Session \ C : session'[t] = f[t]
       /\ numTCPStreams' = Cardinality(Open(session'))
       /\ listener' \in {"closed", "on", "off"}
       /\ listener' = "closed" <=> listener = "closed"
       /\ listener' # "closed" =>
             (listener' = "on" <=> numTCPStreams' < MaxSessions)
  <2>1. CloseSessions(C, g, n, l)
    BY <1>7, <1>9 DEF CloseSessions
  <2>2. /\ g = [t \in Session |-> g[t]]
        /\ C \in SUBSET Open(g)
        /\ \A t \in Session \ C : g[t] \in SessionState
        /\ n = Cardinality(Open(g))
        /\ l \in {"closed", "on", "off"}
        /\ l # "closed" => (l = "on" <=> n < MaxSessions)
    BY <1>3, <1>4, <1>5, <1>6, <1>9
  <2>3. PICK c : c = C
    OBVIOUS
  <2> QED
    BY <2>1, <2>2, <2>3, <1>9, Closing
<1>11. garbageCollectionTimer' \in BOOLEAN
         /\ (garbageCollectionTimer \/ C # {} => garbageCollectionTimer')
  BY <1>7 DEF Garbage, IndInv, TypeOK
<1>12. ASSUME NEW t \in Session, session'[t].state = "Idle"
       PROVE  garbageCollectionTimer'
  <2>1. CASE C # {}
    BY <2>1, <1>11
  <2>2. CASE C = {}
    <3>1. f[t].state = "Idle"
      BY <2>2, <1>10, <1>12
    <3>2. session[t].state = "Idle"
      BY <3>1, <1>3 DEF Open
    <3> QED
      BY <3>2, <1>11 DEF IndInv, EngineInv
  <2> QED
    BY <2>1, <2>2
<1>13. ready' \in SUBSET Open(session')
  BY <1>1, <1>4, <1>7, <1>10
<1>14. \A t \in Open(session') : session'[t].age <= session[t].age
  BY <1>4, <1>8, <1>10
<1> QED
  BY <1>2, <1>4, <1>10, <1>11, <1>12, <1>13, <1>14 DEF Progress, Served

\* Events written to the sessions of S, one of which may just have finished
\* with its request, are progress.
LEMMA NotifiedProgress ==
    ASSUME IndInv, NEW s \in Open(session), NEW x, NEW S \in SUBSET Open(session),
           x \in SessionState, x.state \in {"Reading", "Writing"},
           x.age <= session[s].age,
           session' = Notified([session EXCEPT ![s] = x], S),
           ready' \in SUBSET ready,
           loop \in {"timers", "streams"},
           eventNotificationTimer' \in {"none", "due", "later"},
           UNCHANGED <<server, state, numSessions, streams,
                       garbageCollectionTimer, stateTransitionTimer,
                       callbackTimer, maxIdleTimeTimer, loop, pending>>
    PROVE  Progress
<1> DEFINE f == [session EXCEPT ![s] = x]
<1>1. /\ session \in [Session -> SessionState] /\ ready \in SUBSET Open(session)
      /\ s \in Session /\ S \in SUBSET Session
  BY DEF IndInv, TypeOK, Open
<1>2. /\ f \in [Session -> SessionState]
      /\ f[s] = x
      /\ \A t \in Session \ {s} : f[t] = session[t]
  BY <1>1
<1> HIDE DEF f
<1>3. session' = [t \in Session |->
                    IF t \in S THEN [f[t] EXCEPT !.state = "Writing", !.output = 1]
                               ELSE f[t]]
  BY DEF Notified, f
<1>4. \A t \in Session :
        /\ [f[t] EXCEPT !.state = "Writing", !.output = 1] \in SessionState
        /\ [f[t] EXCEPT !.state = "Writing", !.output = 1].state = "Writing"
        /\ [f[t] EXCEPT !.state = "Writing", !.output = 1].age = f[t].age
  <2> SUFFICES ASSUME NEW y \in SessionState
               PROVE  LET z == [y EXCEPT !.state = "Writing", !.output = 1]
                      IN  z \in SessionState /\ z.state = "Writing" /\ z.age = y.age
    BY <1>2
  <2>1. 1 \in 0 .. ResponseSize
    BY IPServerAssumption
  <2> QED
    BY <2>1 DEF SessionState
<1>5. session' \in [Session -> SessionState]
  BY <1>2, <1>3, <1>4
<1>6. \A t \in Session : session'[t].age = f[t].age
        /\ session'[t].state = IF t \in S THEN "Writing" ELSE f[t].state
  BY <1>3, <1>4
<1>7. Open(session') = Open(session) /\ Free(session') = Free(session)
  <2>1. Open(f) = Open(session) /\ Free(f) = Free(session)
    BY <1>2 DEF Open, Free
  <2>2. Open(session') = Open(f) /\ Free(session') = Free(f)
    BY <1>6, <2>1 DEF Open, Free
  <2> QED
    BY <2>1, <2>2
<1>8. \A t \in Session : session'[t].state = "Idle" => session[t].state = "Idle"
  BY <1>1, <1>2, <1>6
<1>9. \A t \in Open(session') : session'[t].age <= session[t].age
  <2> SUFFICES ASSUME NEW t \in Session PROVE session'[t].age <= session[t].age
    BY DEF Open
  <2>1. session[t].age \in Nat
    BY <1>1, IPServerAssumption DEF SessionState
  <2>2. session'[t].age = f[t].age
    BY <1>6
  <2>3. CASE t = s
    BY <1>2, <2>2, <2>3
  <2>4. CASE t # s
    <3>1. f[t] = session[t]
      BY <1>2, <2>4
    <3> QED
      BY <2>1, <2>2, <3>1
  <2> QED
    BY <2>3, <2>4
<1>10. /\ numTCPStreams' = numTCPStreams /\ listener' = listener
       /\ garbageCollectionTimer' = garbageCollectionTimer
       /\ UNCHANGED <<server, state, numSessions, stateTransitionTimer,
                      callbackTimer, maxIdleTimeTimer, loop, pending>>
  BY DEF streams
<1>11. /\ numTCPStreams' = Cardinality(Open(session'))
       /\ listener' \in {"closed", "on", "off"}
       /\ listener' # "closed" =>
             (listener' = "on" <=> numTCPStreams' < MaxSessions)
       /\ garbageCollectionTimer' \in BOOLEAN
  BY <1>7, <1>10 DEF IndInv, TypeOK, CountsAgree, AsksWhenRoom
<1>12. (\E t \in Session : session'[t].state = "Idle") => garbageCollectionTimer'
  <2>1. (\E t \in Session : session[t].state = "Idle") => garbageCollectionTimer
    BY DEF IndInv, EngineInv
  <2>2. garbageCollectionTimer => garbageCollectionTimer'
    BY <1>10 DEF IndInv, TypeOK
  <2> QED
    BY <1>8, <2>1, <2>2, Zenon
<1>13. ready' \in SUBSET Open(session')
  BY <1>1, <1>7
<1>14. garbageCollectionTimer => garbageCollectionTimer'
  BY <1>10 DEF IndInv, TypeOK
<1>15. /\ listener' = "closed" <=> listener = "closed"
       /\ Open(session) # {} /\ Open(session') \in SUBSET Open(session)
  BY <1>7, <1>10
<1> QED
  BY <1>5, <1>7, <1>9, <1>10, <1>11, <1>12, <1>13, <1>14, <1>15 DEF Progress

--------------------------------------------------------------------------------
\* What a session that is served becomes: it was active just now.
LEMMA ServedState ==
    ASSUME NEW y \in SessionState, NEW n \in 0 .. BufferSize - 1,
           NEW m \in 0 .. ResponseSize
    PROVE  /\ 0 <= y.age
           /\ [y EXCEPT !.input = n, !.age = 0] \in SessionState
           /\ [y EXCEPT !.output = m, !.age = 0] \in SessionState
           /\ [y EXCEPT !.state = "Reading", !.output = 0, !.age = 0] \in SessionState
           /\ Answering(y, n, m) \in SessionState
           /\ Answering(y, n, m).state = "Writing" /\ Answering(y, n, m).age = 0
           /\ [y EXCEPT !.output = m, !.age = 0].age = 0
           /\ [y EXCEPT !.state = "Reading", !.output = 0, !.age = 0].age = 0
<1>1. 0 \in 0 .. MaxIdleTime /\ 0 \in 0 .. ResponseSize
  BY IPServerAssumption
<1>2. 0 <= y.age
  BY IPServerAssumption DEF SessionState
<1>3. [y EXCEPT !.input = n, !.age = 0] \in SessionState
  BY <1>1 DEF SessionState
<1>4. [y EXCEPT !.output = m, !.age = 0] \in SessionState
        /\ [y EXCEPT !.output = m, !.age = 0].age = 0
  BY <1>1 DEF SessionState
<1>5. /\ [y EXCEPT !.state = "Reading", !.output = 0, !.age = 0] \in SessionState
      /\ [y EXCEPT !.state = "Reading", !.output = 0, !.age = 0].age = 0
  BY <1>1 DEF SessionState
<1>6. /\ Answering(y, n, m) \in SessionState
      /\ Answering(y, n, m).state = "Writing" /\ Answering(y, n, m).age = 0
  BY <1>1 DEF SessionState, Answering
<1> QED
  BY <1>2, <1>3, <1>4, <1>5, <1>6

\* A connection that is served.
LEMMA ServeStep == ASSUME IndInv, NEW s \in Session, Serve(s) PROVE IndInv'
<1>1. session[s] \in SessionState /\ BufferSize \in Nat \ {0, 1}
        /\ ResponseSize \in Nat \ {0} /\ MaxIdleTime \in Nat \ {0}
  BY IPServerAssumption DEF IndInv, TypeOK
<1>2. Served(s) => s \in Open(session)
  BY DEF Served, IndInv, TypeOK
<1>11. /\ UNCHANGED eventNotificationTimer \/ MayRaiseEvent(s) =>
              eventNotificationTimer' \in {"none", "due", "later"}
  BY DEF MayRaiseEvent, IndInv, TypeOK
<1>3. CASE ReadFails(s)
  <2>1. /\ Served(s) /\ Leave(s, session[s], {s}) /\ session[s].state = "Reading"
        /\ eventNotificationTimer' \in {"none", "due", "later"}
    BY <1>3, <1>11 DEF ReadFails
  <2> QED
    BY <2>1, <1>2, LeaveProgress, ProgressStep
<1>4. CASE ReadPart(s)
  <2>1. PICK n \in session[s].input + 1 .. BufferSize :
            Leave(s, [session[s] EXCEPT !.input = n, !.age = 0], Overrun(s, n))
    BY <1>4 DEF ReadPart
  <2> DEFINE x == [session[s] EXCEPT !.input = n, !.age = 0]
  <2>2. Served(s) /\ x.state = "Reading" /\ x.age = 0
    BY <1>1, <1>4 DEF ReadPart, SessionState
  <2>5. eventNotificationTimer' \in {"none", "due", "later"}
    BY <1>4, <1>11 DEF ReadPart
  <2>3. CASE n = BufferSize
    <3>1. Overrun(s, n) = {s}
      BY <2>3 DEF Overrun
    <3>2. Leave(s, x, {s})
      BY <2>1, <3>1
    <3> HIDE DEF x
    <3> QED
      BY <2>2, <2>5, <3>2, <1>2, LeaveProgress, ProgressStep
  <2>4. CASE n # BufferSize
    <3>1. Overrun(s, n) = {}
      BY <2>4 DEF Overrun
    <3>2. Leave(s, x, {})
      BY <2>1, <3>1
    <3>3. n \in 0 .. BufferSize - 1
      <4>1. session[s].input \in Nat
        BY <1>1 DEF SessionState
      <4> QED
        BY <1>1, <2>4, <4>1
    <3>4. 0 \in 0 .. ResponseSize
      BY <1>1
    <3>5. x \in SessionState /\ x.age <= session[s].age
      BY <1>1, <2>2, <3>3, <3>4, ServedState
    <3> HIDE DEF x
    <3> QED
      BY <2>2, <2>5, <3>2, <3>5, LeaveProgress, ProgressStep
  <2> QED
    BY <2>3, <2>4
<1>5. ASSUME NEW n \in 0 .. BufferSize - 1, NEW m \in 1 .. ResponseSize,
             NEW C \in Losers(s), Served(s), MayRaiseEvent(s),
             Leave(s, Answering(session[s], n, m), C)
      PROVE  IndInv'
  <2> DEFINE x == Answering(session[s], n, m)
  <2>1. x \in SessionState /\ x.state = "Writing" /\ x.age <= session[s].age
    <3>1. m \in 0 .. ResponseSize
      BY <1>1
    <3> QED
      BY <1>1, <3>1, ServedState
  <2>2. C \in SUBSET Open(session)
    BY DEF Losers
  <2> HIDE DEF x
  <2>3. Leave(s, x, C)
    BY <1>5 DEF x
  <2> QED
    BY <1>5, <1>11, <2>1, <2>2, <2>3, LeaveProgress, ProgressStep
<1>6. CASE ReadRequest(s)
  BY <1>5, <1>6 DEF ReadRequest
<1>7. CASE WriteFails(s)
  <2>1. /\ Served(s) /\ Leave(s, session[s], {s}) /\ session[s].state = "Writing"
        /\ eventNotificationTimer' \in {"none", "due", "later"}
    BY <1>7, <1>11 DEF WriteFails
  <2> QED
    BY <2>1, <1>2, LeaveProgress, ProgressStep
<1>8. CASE WritePart(s)
  <2> DEFINE x == [session[s] EXCEPT !.output = @ - 1, !.age = 0]
  <2>1. /\ Served(s) /\ session[s].state = "Writing" /\ session[s].output > 1
        /\ Leave(s, x, {})
        /\ eventNotificationTimer' \in {"none", "due", "later"}
    BY <1>8, <1>11 DEF WritePart
  <2>2. x \in SessionState /\ x.state = "Writing" /\ x.age <= session[s].age
    <3>1. session[s].output - 1 \in 0 .. ResponseSize /\ 0 \in 0 .. BufferSize - 1
      BY <1>1, <2>1 DEF SessionState
    <3>2. x \in SessionState /\ x.age <= session[s].age
      BY <1>1, <3>1, ServedState
    <3>3. x.state = session[s].state
      BY <1>1 DEF SessionState
    <3> QED
      BY <2>1, <3>2, <3>3
  <2> HIDE DEF x
  <2> QED
    BY <2>1, <2>2, LeaveProgress, ProgressStep
<1>9. CASE WriteNext(s)
  <2>1. Served(s) /\ session[s].state = "Writing" /\ session[s].input > 0
    BY <1>9 DEF WriteNext
  <2>2. CASE /\ \E n \in 0 .. session[s].input - 1, m \in 1 .. ResponseSize,
                   C \in Losers(s) : Leave(s, Answering(session[s], n, m), C)
             /\ MayRaiseEvent(s)
    <3>1. 0 .. session[s].input - 1 \in SUBSET (0 .. BufferSize - 1)
      BY <1>1 DEF SessionState
    <3> QED
      BY <1>5, <2>1, <2>2, <3>1
  <2>3. CASE /\ Leave(s, [session[s] EXCEPT !.state = "Reading", !.output = 0,
                                            !.age = 0], {})
             /\ UNCHANGED eventNotificationTimer
    <3> DEFINE x == [session[s] EXCEPT !.state = "Reading", !.output = 0, !.age = 0]
    <3>1. x \in SessionState /\ x.state = "Reading" /\ x.age <= session[s].age
      <4>1. 0 \in 0 .. BufferSize - 1 /\ 0 \in 0 .. ResponseSize
        BY <1>1
      <4>2. x.state = "Reading"
        BY <1>1 DEF SessionState
      <4> QED
        BY <1>1, <4>1, <4>2, ServedState
    <3>2. Leave(s, x, {})
      BY <2>3
    <3> HIDE DEF x
    <3>3. eventNotificationTimer' \in {"none", "due", "later"}
      BY <1>11, <2>3
    <3> QED
      BY <2>1, <3>1, <3>2, <3>3, LeaveProgress, ProgressStep
  <2> QED
    BY <1>9, <2>2, <2>3 DEF WriteNext
<1>10. CASE WriteLast(s)
  <2> DEFINE x == Fresh("Reading")
  <2>1. Served(s) /\ session[s].state = "Writing" /\ Waits(s, x)
    BY <1>10 DEF WriteLast
  <2>2. x \in SessionState /\ x.state = "Reading" /\ x.age <= session[s].age
    BY <1>1 DEF SessionState, Fresh
  <2> HIDE DEF x
  <2>3. CASE state = "Stopping"
    <3>1. Leave(s, x, {s}) /\ eventNotificationTimer' \in {"none", "due", "later"}
      BY <1>11, <2>1, <2>3 DEF Waits
    <3> QED
      BY <1>2, <2>1, <2>2, <3>1, LeaveProgress, ProgressStep
  <2>4. CASE state # "Stopping"
    <3>1. PICK S \in SUBSET (Waiting(session) \cup {s}) :
            /\ session' = Notified([session EXCEPT ![s] = x], S)
            /\ eventNotificationTimer' \in {"none", "due", "later"}
            /\ ready' = ready \ (S \cup {s})
            /\ UNCHANGED <<streams, garbageCollectionTimer>>
      BY <2>1, <2>4 DEF Waits, ScheduleEventNotifications
    <3>2. S \in SUBSET Open(session)
      BY <1>2, <2>1 DEF Waiting, Open
    <3>3. /\ loop \in {"timers", "streams"}
          /\ UNCHANGED <<server, state, numSessions, streams,
                         garbageCollectionTimer, stateTransitionTimer,
                         callbackTimer, maxIdleTimeTimer, loop, pending>>
      BY <2>1, <3>1 DEF Served
    <3> QED
      BY <1>2, <2>1, <2>2, <3>1, <3>2, <3>3, NotifiedProgress, ProgressStep
  <2> QED
    BY <2>3, <2>4
<1> QED
  BY <1>3, <1>4, <1>6, <1>7, <1>8, <1>9, <1>10 DEF Serve

\* Events that are written when their timer expires, if there are any.
LEMMA EventNotificationStep ==
    ASSUME IndInv, EventNotificationTimer
    PROVE  IndInv'
<1>1. PICK S \in SUBSET Waiting(session) :
            /\ session' = Notified(session, S)
            /\ eventNotificationTimer' \in {"none", "due", "later"}
            /\ ready' = ready \ S
  BY DEF EventNotificationTimer, ScheduleEventNotifications
<1>2. /\ loop = "timers"
      /\ UNCHANGED <<server, state, numSessions, streams,
                     garbageCollectionTimer, stateTransitionTimer,
                     callbackTimer, maxIdleTimeTimer, loop, pending>>
  BY DEF EventNotificationTimer
<1>3. session \in [Session -> SessionState] /\ ready \in SUBSET Open(session)
        /\ pending \in BOOLEAN
  BY DEF IndInv, TypeOK
<1>4. CASE S = {}
  <2>1. session' = session /\ ready' \in SUBSET Open(session)
    BY <1>1, <1>3, <1>4 DEF Notified
  <2> QED
    BY <1>1, <1>2, <1>3, <2>1, PassStep
<1>5. CASE S # {}
  <2> PICK s : s \in S
    BY <1>5
  <2>1. S \in SUBSET Open(session) /\ s \in Open(session) /\ s \in Session
    BY DEF Waiting, Open
  <2>2. /\ session = [session EXCEPT ![s] = session[s]]
        /\ session[s] \in SessionState
        /\ session[s].state \in {"Reading", "Writing"}
        /\ session[s].age <= session[s].age
    BY <1>3, <2>1, IPServerAssumption DEF Open, SessionState
  <2>3. session' = Notified([session EXCEPT ![s] = session[s]], S)
    BY <1>1, <2>2
  <2> QED
    BY <1>1, <1>2, <2>1, <2>2, <2>3, NotifiedProgress, ProgressStep
<1> QED
  BY <1>4, <1>5

--------------------------------------------------------------------------------
\* The idle timer, or the one that follows the request to stop.
LEMMA ScheduleStep ==
    ASSUME IndInv,
           ScheduleMaxIdleTimeTimer(session, numSessions, numTCPStreams, listener),
           loop = "timers",
           state # "Idle",
           stateTransitionTimer' \in BOOLEAN,
           UNCHANGED <<server, state, numSessions, callbackTimer,
                       eventNotificationTimer, loop, pending>>
    PROVE  IndInv'
<1>1. /\ session \in [Session -> SessionState]
      /\ numTCPStreams = Cardinality(Open(session))
      /\ listener \in {"closed", "on", "off"}
      /\ listener # "closed" => (listener = "on" <=> numTCPStreams < MaxSessions)
      /\ ready \in SUBSET Open(session)
  BY DEF IndInv, TypeOK, CountsAgree, AsksWhenRoom
<1>2. PICK f, k, n, l : f = session /\ k = numSessions /\ n = numTCPStreams
                          /\ l = listener
  OBVIOUS
<1>3. ScheduleMaxIdleTimeTimer(f, k, n, l)
  BY <1>2 DEF ScheduleMaxIdleTimeTimer
<1>4. /\ session' \in [Session -> SessionState]
      /\ Open(session') \in SUBSET Open(session)
      /\ Free(session') = Free(session)
      /\ numTCPStreams' = Cardinality(Open(session'))
      /\ listener' \in {"closed", "on", "off"}
      /\ listener' = "closed" <=> listener = "closed" \/ state = "Stopping"
      /\ listener' # "closed" =>
            (listener' = "on" <=> numTCPStreams' < MaxSessions)
      /\ garbageCollectionTimer'
      /\ garbageCollectionTimer' \in BOOLEAN
      /\ ready' \in SUBSET Open(session')
      /\ maxIdleTimeTimer' \in 0 .. MaxIdleTime \cup {None}
      /\ numSessions = MaxSessions \/ state = "Stopping" =>
            \A s \in Open(session') :
               /\ maxIdleTimeTimer' # None
               /\ maxIdleTimeTimer' <= MaxIdleTime - session'[s].age
  BY <1>1, <1>2, <1>3, Scheduling
<1>5. TypeOK'
  <2>1. Open(session') \in SUBSET Session
    BY DEF Open
  <2>2. numTCPStreams' \in 0 .. MaxSessions
    BY <1>4, <2>1, Sizes
  <2> QED
    BY <1>4, <2>2 DEF IndInv, TypeOK
<1>6. EngineInv'
  BY <1>4 DEF IndInv, EngineInv
<1>7. CountsAgree'
  <2>1. FreeSlots' = FreeSlots
    BY <1>4 DEF FreeSlots, Free
  <2> QED
    BY <1>4, <2>1 DEF IndInv, CountsAgree
<1>8. AsksWhenRoom'
  BY <1>4 DEF AsksWhenRoom
<1>9. IdleTimeHolds'
  BY <1>4 DEF IdleTimeHolds
<1>10. StoppedIsClean'
  BY DEF StoppedIsClean
<1> QED
  BY <1>5, <1>6, <1>7, <1>8, <1>9, <1>10 DEF IndInv

\* A timer that is pending shows that the engine is not stopped.
LEMMA TimersOfEngine ==
    ASSUME IndInv, garbageCollectionTimer \/ stateTransitionTimer \/ maxIdleTimeTimer = 0
    PROVE  state # "Idle"
BY DEF IndInv, StoppedIsClean, None

\* The engine is stopped once the listener is closed and no session is left.
LEMMA CollectStep == ASSUME IndInv, GarbageCollectionTimer PROVE IndInv'
<1> DEFINE D == {s \in Session : session[s].state = "Idle"}
<1>1. /\ loop = "timers" /\ garbageCollectionTimer
      /\ garbageCollectionTimer' = FALSE
      /\ session' = [s \in Session |->
                        IF s \in D THEN Fresh("Free") ELSE session[s]]
      /\ numSessions' = numSessions - Cardinality(D)
      /\ UNCHANGED <<server, numTCPStreams, listener, eventNotificationTimer,
                     loop, pending, ready>>
  BY DEF GarbageCollectionTimer, Destroyed, streams, pass
<1>2. state # "Idle"
  BY <1>1, TimersOfEngine
<1>3. session \in [Session -> SessionState]
  BY DEF IndInv, TypeOK
<1>4. Fresh("Free") \in SessionState /\ Fresh("Free").state = "Free"
  BY IPServerAssumption DEF Fresh, SessionState
<1>5. session' \in [Session -> SessionState]
  BY <1>1, <1>3, <1>4
<1>6. Open(session') = Open(session)
        /\ \A s \in Open(session') : session'[s] = session[s]
  BY <1>1, <1>4 DEF Open
<1>7. Free(session') = Free(session) \cup D
  BY <1>1, <1>4 DEF Free
<1>8. \A s \in Session : session'[s].state # "Idle"
  BY <1>1, <1>4
<1>9. Session \ FreeSlots' = (Session \ FreeSlots) \ D
  BY <1>7 DEF FreeSlots, Free
<1>10. D \in SUBSET (Session \ FreeSlots)
  BY DEF FreeSlots
<1> HIDE DEF D
<1>11. numSessions' = Cardinality(Session \ FreeSlots')
  <2>1. PICK S, T : S = Session \ FreeSlots /\ T = D
    OBVIOUS
  <2>2. S \in SUBSET Session /\ T \in SUBSET S
    BY <2>1, <1>10
  <2>3. Cardinality(S \ T) = Cardinality(S) - Cardinality(T)
    BY <2>2, Without
  <2>4. numSessions = Cardinality(S)
    BY <2>1 DEF IndInv, CountsAgree
  <2> QED
    BY <1>1, <1>9, <2>1, <2>3, <2>4
<1>12. CountsAgree'
  BY <1>1, <1>6, <1>11 DEF CountsAgree, IndInv
<1>13. AsksWhenRoom'
  BY <1>1 DEF AsksWhenRoom, IndInv
<1>14. numSessions' \in 0 .. MaxSessions
         /\ (numSessions' = 0 => FreeSlots' = Session)
  <2>1. PICK S : S = Session \ FreeSlots'
    OBVIOUS
  <2>2. S \in SUBSET Session
    BY <2>1
  <2>3. Cardinality(S) \in 0 .. MaxSessions /\ (Cardinality(S) = 0 <=> S = {})
    BY <2>2, Sizes
  <2>4. FreeSlots' \in SUBSET Session
    BY DEF FreeSlots
  <2> QED
    BY <1>11, <2>1, <2>3, <2>4
<1>15. CASE listener # "closed" \/ numSessions' # 0
  <2>1. UNCHANGED <<state, stateTransitionTimer, callbackTimer, maxIdleTimeTimer>>
    BY <1>15 DEF GarbageCollectionTimer
  <2>2. TypeOK'
    BY <1>1, <1>5, <1>6, <1>14, <2>1 DEF IndInv, TypeOK
  <2>3. EngineInv'
    BY <1>1, <1>8, <2>1 DEF IndInv, EngineInv
  <2>4. IdleTimeHolds'
    <3> SUFFICES ASSUME numSessions' = MaxSessions \/ state = "Stopping",
                        ~stateTransitionTimer, NEW s \in Open(session')
                 PROVE  /\ maxIdleTimeTimer # None
                        /\ maxIdleTimeTimer <= MaxIdleTime - session[s].age
      BY <1>6, <2>1 DEF IdleTimeHolds
    <3>1. numSessions' = MaxSessions => numSessions = MaxSessions
      <4>1. numSessions \in 0 .. MaxSessions /\ Cardinality(D) \in Nat
              /\ MaxSessions \in Nat
        <5>1. PICK T : T = D
          OBVIOUS
        <5>2. T \in SUBSET Session
          BY <5>1, <1>10
        <5>3. Cardinality(T) \in 0 .. MaxSessions /\ MaxSessions \in Nat
          BY <5>2, Sizes
        <5> QED
          BY <5>1, <5>3 DEF IndInv, TypeOK
      <4> QED
        BY <1>1, <4>1
    <3> QED
      BY <1>6, <3>1 DEF IndInv, IdleTimeHolds
  <2>5. StoppedIsClean'
    BY <1>2, <2>1 DEF StoppedIsClean
  <2> QED
    BY <1>12, <1>13, <2>2, <2>3, <2>4, <2>5 DEF IndInv
<1>16. CASE listener = "closed" /\ numSessions' = 0
  <2>1. /\ state' = "Idle" /\ stateTransitionTimer' = FALSE
        /\ maxIdleTimeTimer' = None /\ callbackTimer' = TRUE
    BY <1>16 DEF GarbageCollectionTimer, Stopped
  <2>2. TypeOK'
    BY <1>1, <1>5, <1>6, <1>14, <2>1 DEF IndInv, TypeOK
  <2>3. server # "Running"
    BY <1>16 DEF IndInv, EngineInv
  <2>4. EngineInv'
    BY <1>1, <1>8, <2>1, <2>3 DEF IndInv, EngineInv
  <2>5. FreeSlots' = Session
    BY <1>14, <1>16
  <2>6. Open(session') = {}
    BY <2>5 DEF Open, FreeSlots
  <2>7. IdleTimeHolds'
    BY <2>6 DEF IdleTimeHolds
  <2>8. numTCPStreams' = 0
    BY <1>12, <2>6, FS_EmptySet DEF CountsAgree
  <2>9. StoppedIsClean'
    BY <1>1, <1>16, <2>1, <2>3, <2>5, <2>8 DEF StoppedIsClean
  <2> QED
    BY <1>12, <1>13, <2>2, <2>4, <2>7, <2>9 DEF IndInv
<1> QED
  BY <1>15, <1>16

--------------------------------------------------------------------------------
\* A second passes: a session's age grows while its time is counted down.
LEMMA TickStep == ASSUME IndInv, Tick PROVE IndInv'
<1>1. /\ session \in [Session -> SessionState]
      /\ MaxIdleTime \in Nat \ {0}
      /\ maxIdleTimeTimer \in 0 .. MaxIdleTime \cup {None}
  BY IPServerAssumption DEF IndInv, TypeOK
<1>2. /\ session' = [s \in Session |->
                        IF s \in Open(session) /\ session[s].age < MaxIdleTime
                        THEN [session[s] EXCEPT !.age = @ + 1] ELSE session[s]]
      /\ UNCHANGED <<server, state, numSessions, numTCPStreams, listener,
                     garbageCollectionTimer, stateTransitionTimer, callbackTimer,
                     loop, pending, ready>>
      /\ maxIdleTimeTimer # 0 /\ ~garbageCollectionTimer /\ ~stateTransitionTimer
      /\ loop = "select"
      /\ maxIdleTimeTimer' = IF maxIdleTimeTimer = None THEN None
                                                      ELSE maxIdleTimeTimer - 1
  BY <1>1 DEF Tick, Due, streams, pass, None
<1>11. eventNotificationTimer' \in {"none", "due", "later"} /\ state # "Idle"
  BY DEF Tick, IndInv, TypeOK, EngineInv
<1>3. ASSUME NEW s \in Session
      PROVE  /\ session'[s] \in SessionState
             /\ session'[s].state = session[s].state
             /\ s \in Open(session) /\ session[s].age < MaxIdleTime =>
                    session'[s].age = session[s].age + 1
             /\ session[s].age = MaxIdleTime => session'[s].age = session[s].age
             /\ session[s].age \in 0 .. MaxIdleTime
  <2>1. PICK x : x = session[s]
    OBVIOUS
  <2>2. x \in SessionState
    BY <1>1, <2>1
  <2>3. x.age \in 0 .. MaxIdleTime
    BY <2>2 DEF SessionState
  <2>4. x.age < MaxIdleTime =>
            /\ [x EXCEPT !.age = @ + 1] \in SessionState
            /\ [x EXCEPT !.age = @ + 1].state = x.state
            /\ [x EXCEPT !.age = @ + 1].age = x.age + 1
    <3>1. x.age < MaxIdleTime => x.age + 1 \in 0 .. MaxIdleTime
      BY <1>1, <2>3
    <3> QED
      BY <2>2, <3>1 DEF SessionState
  <2>5. session'[s] = IF s \in Open(session) /\ x.age < MaxIdleTime
                      THEN [x EXCEPT !.age = @ + 1] ELSE x
    BY <1>2, <2>1
  <2>6. x.age = MaxIdleTime => ~(x.age < MaxIdleTime)
    BY <1>1
  <2> QED
    BY <2>1, <2>2, <2>3, <2>4, <2>5, <2>6
<1>4. session' \in [Session -> SessionState]
  <2>1. session' = [s \in Session |-> session'[s]]
    BY <1>2
  <2> QED
    BY <1>3, <2>1
<1>5. Open(session') = Open(session) /\ FreeSlots' = FreeSlots
  BY <1>3 DEF Open, FreeSlots
<1>6. TypeOK'
  <2>1. maxIdleTimeTimer' \in 0 .. MaxIdleTime \cup {None}
    BY <1>1, <1>2 DEF None
  <2> QED
    BY <1>2, <1>4, <1>5, <1>11, <2>1 DEF IndInv, TypeOK
<1>7. EngineInv'
  BY <1>2, <1>3, <1>11 DEF IndInv, EngineInv
<1>8. CountsAgree' /\ AsksWhenRoom'
  BY <1>2, <1>5 DEF IndInv, CountsAgree, AsksWhenRoom
<1>9. IdleTimeHolds'
  <2> SUFFICES ASSUME numSessions = MaxSessions \/ state = "Stopping",
                      NEW s \in Open(session)
               PROVE  /\ maxIdleTimeTimer' # None
                      /\ maxIdleTimeTimer' <= MaxIdleTime - session'[s].age
    BY <1>2, <1>5 DEF IdleTimeHolds
  <2>1. maxIdleTimeTimer # None
          /\ maxIdleTimeTimer <= MaxIdleTime - session[s].age
    BY <1>2 DEF IndInv, IdleTimeHolds
  <2>2. maxIdleTimeTimer' = maxIdleTimeTimer - 1
          /\ maxIdleTimeTimer \in 1 .. MaxIdleTime
    BY <1>1, <1>2, <2>1
  <2>3. s \in Session /\ session[s].age \in 0 .. MaxIdleTime
    BY <1>3 DEF Open
  <2>4. session[s].age < MaxIdleTime
    BY <1>1, <2>1, <2>2, <2>3
  <2>5. session'[s].age = session[s].age + 1
    BY <1>3, <2>3, <2>4
  <2> QED
    BY <1>1, <2>1, <2>2, <2>3, <2>5 DEF None
<1>10. StoppedIsClean'
  BY <1>2, <1>11 DEF StoppedIsClean
<1> QED
  BY <1>6, <1>7, <1>8, <1>9, <1>10 DEF IndInv

\* The server's own timer, and its stop.
LEMMA ServerStep ==
    ASSUME IndInv, CallbackTimer \/ Stop
    PROVE  IndInv'
<1>1. UNCHANGED <<session, numSessions, numTCPStreams, listener,
                  garbageCollectionTimer, maxIdleTimeTimer,
                  eventNotificationTimer, pending, ready>>
  BY DEF CallbackTimer, Stop, streams, pass
<1>2. CountsAgree' /\ AsksWhenRoom'
  BY <1>1 DEF IndInv, CountsAgree, AsksWhenRoom, FreeSlots
<1>3. CASE CallbackTimer
  <2>1. /\ loop = "timers" /\ loop' = loop /\ callbackTimer' = FALSE
        /\ server' = IF state = "Idle" THEN "Idle" ELSE server
        /\ UNCHANGED <<state, stateTransitionTimer>>
    BY <1>3 DEF CallbackTimer, pass
  <2>2. TypeOK'
    BY <1>1, <2>1 DEF IndInv, TypeOK
  <2>3. EngineInv'
    BY <1>1, <2>1 DEF IndInv, EngineInv
  <2>4. IdleTimeHolds' /\ StoppedIsClean'
    BY <1>1, <2>1 DEF IndInv, IdleTimeHolds, StoppedIsClean, FreeSlots
  <2> QED
    BY <1>2, <2>2, <2>3, <2>4 DEF IndInv
<1>4. CASE Stop
  <2>1. /\ loop = "pipe" /\ loop' = "listener" /\ server = "Running"
        /\ server' = "Stopping" /\ state' = "Stopping"
        /\ callbackTimer' = TRUE /\ stateTransitionTimer' = TRUE
    BY <1>4 DEF Stop
  <2>2. TypeOK'
    BY <1>1, <2>1 DEF IndInv, TypeOK
  <2>3. EngineInv'
    BY <1>1, <2>1 DEF IndInv, EngineInv
  <2>4. IdleTimeHolds' /\ StoppedIsClean'
    BY <2>1 DEF IdleTimeHolds, StoppedIsClean
  <2> QED
    BY <1>2, <2>2, <2>3, <2>4 DEF IndInv
<1> QED
  BY <1>3, <1>4

\* A server that ended is created and started anew.
LEMMA RestartStep == ASSUME IndInv, Restart PROVE IndInv'
<1>1. /\ loop = "ended" /\ server' = "Running" /\ state' = "Running"
      /\ session' = [s \in Session |-> Fresh("Free")]
      /\ listener' = "on" /\ callbackTimer' = TRUE /\ loop' = "select"
      /\ eventNotificationTimer' = "none"
      /\ UNCHANGED <<numSessions, numTCPStreams, garbageCollectionTimer,
                     stateTransitionTimer, maxIdleTimeTimer, pending, ready>>
  BY DEF Restart
<1>2. /\ FreeSlots = Session /\ numTCPStreams = 0 /\ ~garbageCollectionTimer
      /\ ~stateTransitionTimer /\ maxIdleTimeTimer = None
  BY <1>1 DEF IndInv, EngineInv, StoppedIsClean
<1>3. Fresh("Free") \in SessionState /\ Fresh("Free").state = "Free"
  BY IPServerAssumption DEF Fresh, SessionState
<1>4. /\ session' \in [Session -> SessionState]
      /\ Open(session') = {} /\ Open(session) = {} /\ FreeSlots' = Session
      /\ \A s \in Session : session'[s].state # "Idle"
  BY <1>1, <1>2, <1>3 DEF Open, FreeSlots
<1>5. numSessions = 0 /\ Cardinality({}) = 0 /\ MaxSessions \in Nat \ {0}
  <2>1. Session \ FreeSlots = {} /\ Cardinality({}) = 0
    BY <1>2, FS_EmptySet
  <2> QED
    BY <2>1, Sizes DEF IndInv, CountsAgree
<1>6. TypeOK'
  BY <1>1, <1>4 DEF IndInv, TypeOK
<1>7. EngineInv'
  BY <1>1, <1>2, <1>4 DEF EngineInv
<1>8. CountsAgree'
  <2>1. Session \ FreeSlots' = {}
    BY <1>4
  <2> QED
    BY <1>1, <1>2, <1>4, <1>5, <2>1 DEF CountsAgree
<1>9. AsksWhenRoom'
  BY <1>1, <1>2, <1>5 DEF AsksWhenRoom
<1>10. IdleTimeHolds' /\ StoppedIsClean'
  BY <1>1, <1>4 DEF IdleTimeHolds, StoppedIsClean
<1> QED
  BY <1>6, <1>7, <1>8, <1>9, <1>10 DEF IndInv

\* A connection is accepted into a free session, which may fill the server.
LEMMA AcceptStep == ASSUME IndInv, Accept PROVE IndInv'
<1>1. /\ loop = "listener" /\ pending /\ listener = "on"
      /\ loop' = "streams" /\ pending' = FALSE
      /\ UNCHANGED <<server, state, stateTransitionTimer, callbackTimer,
                     eventNotificationTimer>>
  BY DEF Accept
<1>4. eventNotificationTimer' \in {"none", "due", "later"} /\ state # "Idle"
  BY <1>1 DEF IndInv, TypeOK, StoppedIsClean
<1>2. CASE FreeSlots = {}
  <2>1. UNCHANGED <<server, state, session, numSessions, streams,
                    garbageCollectionTimer, stateTransitionTimer, callbackTimer,
                    maxIdleTimeTimer, ready>>
    BY <1>1, <1>2 DEF Accept
  <2>2. ready' \in SUBSET Open(session)
    BY <2>1 DEF IndInv, TypeOK
  <2> QED
    BY <1>1, <1>4, <2>1, <2>2, PassStep
<1>3. CASE FreeSlots # {}
  <2>1. PICK s \in FreeSlots :
            RegisterSession([session EXCEPT ![s] = Fresh("Reading")],
                            numSessions + 1, numTCPStreams + 1,
                            ListenerAt(numTCPStreams + 1))
    BY <1>3 DEF Accept
  <2> DEFINE f == [session EXCEPT ![s] = Fresh("Reading")]
             l == ListenerAt(numTCPStreams + 1)
  <2>2. Fresh("Reading") \in SessionState /\ Fresh("Reading").state = "Reading"
    BY IPServerAssumption DEF Fresh, SessionState
  <2>3. s \in Session /\ session[s].state = "Free"
          /\ session \in [Session -> SessionState] /\ ready \in SUBSET Open(session)
    BY DEF FreeSlots, IndInv, TypeOK
  <2>4. /\ f \in [Session -> SessionState]
        /\ Open(f) = Open(session) \cup {s}
        /\ Free(f) = FreeSlots \ {s}
        /\ \A t \in Session : f[t].state = "Idle" => session[t].state = "Idle"
    BY <2>2, <2>3 DEF Open, Free, FreeSlots
  <2>5. RegisterSession(f, numSessions + 1, numTCPStreams + 1, l)
    BY <2>1
  <2> HIDE DEF f
  <2>6. /\ numTCPStreams + 1 = Cardinality(Open(f))
        /\ numSessions + 1 = Cardinality(Session \ Free(f))
        /\ numTCPStreams + 1 \in 0 .. MaxSessions
        /\ numSessions + 1 \in 0 .. MaxSessions
    <3>1. PICK S, T : S = Open(session) /\ T = Session \ FreeSlots
      OBVIOUS
    <3>2. S \in SUBSET Session /\ T \in SUBSET Session /\ s \notin S /\ s \notin T
      BY <2>3, <3>1 DEF Open
    <3>3. S \cup {s} = Open(f) /\ T \cup {s} = Session \ Free(f)
      BY <2>3, <2>4, <3>1
    <3>4. numTCPStreams = Cardinality(S) /\ numSessions = Cardinality(T)
      BY <3>1 DEF IndInv, CountsAgree
    <3>5. /\ Cardinality(S \cup {s}) = Cardinality(S) + 1
          /\ Cardinality(T \cup {s}) = Cardinality(T) + 1
      BY <2>3, <3>2, OneMore
    <3>6. /\ Cardinality(S \cup {s}) \in 0 .. MaxSessions
          /\ Cardinality(T \cup {s}) \in 0 .. MaxSessions
      <4>1. S \cup {s} \in SUBSET Session /\ T \cup {s} \in SUBSET Session
        BY <2>3, <3>2
      <4> QED
        BY <4>1, Sizes
    <3> QED
      BY <3>3, <3>4, <3>5, <3>6
  <2>7. /\ l \in {"closed", "on", "off"} /\ l # "closed"
        /\ l = "on" <=> numTCPStreams + 1 < MaxSessions
    <3>1. MaxSessions \in Nat
      BY Sizes
    <3> QED
      BY <1>1, <2>6, <3>1 DEF ListenerAt
  <2>8. state = "Stopping" => stateTransitionTimer
    BY <1>1 DEF IndInv, EngineInv
  <2>9. state # "Idle" /\ ~garbageCollectionTimer
          /\ \A t \in Session : f[t].state # "Idle"
    BY <1>1, <2>4 DEF IndInv, EngineInv, StoppedIsClean
  <2>10. numSessions' = numSessions + 1
    BY <2>5 DEF RegisterSession
  <2>11. /\ session' \in [Session -> SessionState]
         /\ Open(session') \in SUBSET Session
         /\ Free(session') = Free(f)
         /\ numTCPStreams' = Cardinality(Open(session'))
         /\ listener' \in {"closed", "on", "off"}
         /\ listener' = "closed" => state = "Stopping"
         /\ listener' # "closed" =>
               (listener' = "on" <=> numTCPStreams' < MaxSessions)
         /\ garbageCollectionTimer' \in BOOLEAN
         /\ (\E t \in Session : session'[t].state = "Idle") => garbageCollectionTimer'
         /\ ready' \in SUBSET Open(session')
         /\ maxIdleTimeTimer' \in 0 .. MaxIdleTime \cup {None}
         /\ numSessions' = MaxSessions =>
               \A t \in Open(session') :
                  /\ maxIdleTimeTimer' # None
                  /\ maxIdleTimeTimer' <= MaxIdleTime - session'[t].age
    <3>1. Open(session') \in SUBSET Session
      BY DEF Open
    <3>2. CASE numSessions + 1 = MaxSessions
      <4>1. PICK g, k, n, h : /\ g = f /\ k = numSessions + 1
                              /\ n = numTCPStreams + 1 /\ h = l
        OBVIOUS
      <4>2. ScheduleMaxIdleTimeTimer(f, numSessions + 1, numTCPStreams + 1, l)
        BY <2>5, <3>2 DEF RegisterSession
      <4>3. ScheduleMaxIdleTimeTimer(g, k, n, h)
        BY <4>1, <4>2 DEF ScheduleMaxIdleTimeTimer
      <4>4. /\ g \in [Session -> SessionState] /\ n = Cardinality(Open(g))
            /\ h \in {"closed", "on", "off"}
            /\ h # "closed" => (h = "on" <=> n < MaxSessions)
            /\ ready \in SUBSET Open(g)
        BY <2>3, <2>4, <2>6, <2>7, <4>1
      <4> HIDE DEF l
      <4> QED
        BY <2>7, <2>10, <3>1, <3>2, <4>1, <4>3, <4>4, Scheduling
    <3>3. CASE numSessions + 1 # MaxSessions
      <4>1. /\ session' = f /\ numTCPStreams' = numTCPStreams + 1 /\ listener' = l
            /\ UNCHANGED <<maxIdleTimeTimer, garbageCollectionTimer, ready>>
        BY <2>5, <3>3 DEF RegisterSession
      <4>2. /\ garbageCollectionTimer' \in BOOLEAN
            /\ maxIdleTimeTimer' \in 0 .. MaxIdleTime \cup {None}
        BY <4>1 DEF IndInv, TypeOK
      <4> HIDE DEF l
      <4> QED
        BY <2>3, <2>4, <2>6, <2>7, <2>9, <2>10, <3>1, <3>3, <4>1, <4>2
    <3> QED
      BY <3>2, <3>3
  <2>12. TypeOK'
    <3>1. numTCPStreams' \in 0 .. MaxSessions
      BY <2>11, Sizes
    <3>2. stateTransitionTimer' \in BOOLEAN /\ callbackTimer' \in BOOLEAN
      BY <1>1 DEF IndInv, TypeOK
    <3> QED
      BY <1>1, <1>4, <2>6, <2>10, <2>11, <3>1, <3>2 DEF IndInv, TypeOK
  <2>13. EngineInv'
    BY <1>1, <1>4, <2>8, <2>11 DEF IndInv, EngineInv
  <2>14. CountsAgree'
    <3>1. FreeSlots' = Free(f)
      BY <2>11 DEF FreeSlots, Free
    <3> QED
      BY <2>6, <2>10, <2>11, <3>1 DEF CountsAgree
  <2>15. AsksWhenRoom'
    BY <2>11 DEF AsksWhenRoom
  <2>16. IdleTimeHolds'
    BY <1>1, <2>8, <2>11 DEF IdleTimeHolds
  <2>17. StoppedIsClean'
    BY <1>1, <2>9 DEF StoppedIsClean
  <2> QED
    BY <2>12, <2>13, <2>14, <2>15, <2>16, <2>17 DEF IndInv
<1> QED
  BY <1>2, <1>3

--------------------------------------------------------------------------------
\* Every step keeps the invariant.
LEMMA Step == ASSUME IndInv, [Next]_vars PROVE IndInv'
<1>1. ready \in SUBSET Open(session) /\ {} \in SUBSET Open(session)
        /\ pending \in BOOLEAN
        /\ eventNotificationTimer \in {"none", "due", "later"}
        /\ loop \in {"select", "timers", "pipe", "listener", "streams",
                     "ended", "aborted"}
  BY DEF IndInv, TypeOK
<1>17. /\ loop \in {"select", "ended"} => (state = "Idle" <=> loop = "ended")
       /\ loop \in {"pipe", "listener"} => ~garbageCollectionTimer
       /\ state = "Idle" /\ loop \notin {"timers", "aborted"} =>
             server = "Idle" /\ ~callbackTimer /\ eventNotificationTimer # "due"
       /\ server = "Idle" => state = "Idle"
       /\ state = "Idle" => server = "Idle" \/ callbackTimer
  BY DEF IndInv, EngineInv
<1>2. CASE UNCHANGED vars
  <2>1. /\ UNCHANGED <<server, state, session, numSessions, streams,
                       garbageCollectionTimer, stateTransitionTimer,
                       callbackTimer, maxIdleTimeTimer, eventNotificationTimer>>
        /\ loop' = loop /\ pending' = pending /\ ready' = ready
    BY <1>2 DEF vars, pass, timers
  <2> QED
    BY <1>1, <1>17, <2>1, PassStep
<1>3. CASE Select
  <2>1. /\ UNCHANGED <<server, state, session, numSessions, streams,
                       garbageCollectionTimer, stateTransitionTimer,
                       callbackTimer, maxIdleTimeTimer, eventNotificationTimer>>
        /\ loop' = "timers" /\ pending' \in BOOLEAN
        /\ ready' \in SUBSET Open(session)
    BY <1>3 DEF Select, timers
  <2> QED
    BY <1>1, <2>1, PassStep
<1>4. CASE TimersDone
  <2>1. /\ UNCHANGED <<server, state, session, numSessions, streams,
                       garbageCollectionTimer, stateTransitionTimer,
                       callbackTimer, maxIdleTimeTimer, eventNotificationTimer,
                       pending, ready>>
        /\ loop' = "pipe" /\ ~garbageCollectionTimer
        /\ ~callbackTimer /\ eventNotificationTimer # "due"
    BY <1>4 DEF TimersDone, Due, timers
  <2> QED
    BY <1>1, <1>17, <2>1, PassStep
<1>5. CASE StreamsDone
  <2>1. /\ UNCHANGED <<server, state, session, numSessions, streams,
                       garbageCollectionTimer, stateTransitionTimer,
                       callbackTimer, maxIdleTimeTimer, eventNotificationTimer,
                       pending>>
        /\ loop = "streams" /\ ready' = {}
        /\ loop' = IF server = "Idle" THEN "ended" ELSE "select"
    BY <1>5 DEF StreamsDone, timers
  <2> QED
    BY <1>1, <1>17, <2>1, PassStep
<1>6. CASE NoCallback
  <2>1. /\ UNCHANGED <<server, state, session, numSessions, streams,
                       garbageCollectionTimer, stateTransitionTimer,
                       callbackTimer, maxIdleTimeTimer, eventNotificationTimer,
                       pending, ready>>
        /\ loop = "pipe" /\ loop' = "listener"
    BY <1>6 DEF NoCallback, timers
  <2> QED
    BY <1>1, <1>17, <2>1, PassStep
<1>7. CASE NoConnection
  <2>1. /\ UNCHANGED <<server, state, session, numSessions, streams,
                       garbageCollectionTimer, stateTransitionTimer,
                       callbackTimer, maxIdleTimeTimer, eventNotificationTimer,
                       ready>>
        /\ loop = "listener" /\ loop' = "streams" /\ pending' = FALSE
    BY <1>7 DEF NoConnection, timers
  <2> QED
    BY <1>1, <1>17, <2>1, PassStep
<1>18. CASE DelayPasses
  <2>1. /\ UNCHANGED <<server, state, session, numSessions, streams,
                       garbageCollectionTimer, stateTransitionTimer,
                       callbackTimer, maxIdleTimeTimer, loop, pending, ready>>
        /\ loop = "select" /\ eventNotificationTimer' = "due"
    BY <1>18 DEF DelayPasses, pass
  <2> QED
    BY <1>1, <1>17, <2>1, PassStep
<1>19. CASE LeftTimerAborts
  <2>1. /\ UNCHANGED <<server, state, session, numSessions, streams,
                       garbageCollectionTimer, stateTransitionTimer,
                       callbackTimer, maxIdleTimeTimer, eventNotificationTimer,
                       pending, ready>>
        /\ loop' = "aborted"
    BY <1>19 DEF LeftTimerAborts, timers
  <2> QED
    BY <1>1, <2>1, PassStep
<1>8. CASE StateTransitionTimer
  <2>1. /\ loop = "timers" /\ stateTransitionTimer /\ stateTransitionTimer' = FALSE
        /\ ScheduleMaxIdleTimeTimer(session, numSessions, numTCPStreams, listener)
        /\ UNCHANGED <<server, state, numSessions, callbackTimer,
                       eventNotificationTimer, loop, pending>>
    BY <1>8 DEF StateTransitionTimer
  <2>2. state # "Idle" /\ stateTransitionTimer' \in BOOLEAN
    BY <2>1, TimersOfEngine
  <2> QED
    BY <2>1, <2>2, ScheduleStep
<1>9. CASE MaxIdleTimeTimer
  <2>1. /\ loop = "timers" /\ maxIdleTimeTimer = 0
        /\ stateTransitionTimer' = stateTransitionTimer
        /\ ScheduleMaxIdleTimeTimer(session, numSessions, numTCPStreams, listener)
        /\ UNCHANGED <<server, state, numSessions, callbackTimer,
                       eventNotificationTimer, loop, pending>>
    BY <1>9 DEF MaxIdleTimeTimer
  <2>2. state # "Idle"
    BY <2>1, TimersOfEngine
  <2>3. stateTransitionTimer' \in BOOLEAN
    BY <2>1 DEF IndInv, TypeOK
  <2> QED
    BY <2>1, <2>2, <2>3, ScheduleStep
<1>10. CASE CallbackTimer \/ Stop
  BY <1>10, ServerStep
<1>11. CASE Tick
  BY <1>11, TickStep
<1>12. CASE GarbageCollectionTimer
  BY <1>12, CollectStep
<1>13. CASE EventNotificationTimer
  BY <1>13, EventNotificationStep
<1>14. CASE Accept
  BY <1>14, AcceptStep
<1>15. CASE \E s \in Session : Serve(s)
  BY <1>15, ServeStep
<1>16. CASE Restart
  BY <1>16, RestartStep
<1> QED
  BY <1>2, <1>3, <1>4, <1>5, <1>6, <1>7, <1>8, <1>9, <1>10, <1>11, <1>12, <1>13,
     <1>14, <1>15, <1>16, <1>18, <1>19
     DEF Next, Loop

\* A server that has just started.
LEMMA Initially == ASSUME Init PROVE IndInv
<1>1. Fresh("Free") \in SessionState /\ Fresh("Free").state = "Free"
  BY IPServerAssumption DEF Fresh, SessionState
<1>2. /\ session \in [Session -> SessionState]
      /\ FreeSlots = Session /\ Open(session) = {}
      /\ \A s \in Session : session[s].state # "Idle"
  BY <1>1 DEF Init, FreeSlots, Open
<1>3. Session \ FreeSlots = {} /\ Cardinality({}) = 0 /\ MaxSessions \in Nat \ {0}
  BY <1>2, Sizes, FS_EmptySet
<1>4. TypeOK
  <2>1. numSessions \in 0 .. MaxSessions /\ numTCPStreams \in 0 .. MaxSessions
    BY <1>3 DEF Init
  <2>2. ready \in SUBSET Open(session)
          /\ maxIdleTimeTimer \in 0 .. MaxIdleTime \cup {None}
    BY DEF Init
  <2> QED
    BY <1>2, <2>1, <2>2 DEF Init, TypeOK
<1>5. EngineInv /\ IdleTimeHolds /\ StoppedIsClean
  BY <1>2 DEF Init, EngineInv, IdleTimeHolds, StoppedIsClean
<1>6. CountsAgree /\ AsksWhenRoom
  BY <1>2, <1>3 DEF Init, CountsAgree, AsksWhenRoom
<1> QED
  BY <1>4, <1>5, <1>6 DEF IndInv

\* There is room for every connection that is asked for.
LEMMA Room == ASSUME IndInv PROVE RoomToAccept
<1> SUFFICES ASSUME loop = "listener", listener = "on" PROVE FreeSlots # {}
  BY DEF RoomToAccept
<1>1. numTCPStreams < MaxSessions /\ numTCPStreams = Cardinality(Open(session))
  BY DEF IndInv, AsksWhenRoom, CountsAgree
<1>2. Open(session) # Session
  <2>1. MaxSessions \in Nat
    BY Sizes
  <2> QED
    BY <1>1, <2>1 DEF MaxSessions
<1>3. PICK s \in Session : s \notin Open(session)
  BY <1>2 DEF Open
<1>4. session[s].state # "Idle"
  BY DEF IndInv, EngineInv
<1>5. session[s].state \in {"Free", "Reading", "Writing", "Idle"}
  BY DEF IndInv, TypeOK, SessionState
<1> QED
  BY <1>3, <1>4, <1>5 DEF Open, FreeSlots

\* The inductive invariant holds in every behaviour.
LEMMA Invariance == Spec => []IndInv
BY Initially, Step, PTL DEF Spec

(* Server, sessions, streams and timers stay well typed; no session that    *)
(* waits has a full buffer (HAPIPAccessoryServer.c, TypeOK).                *)
THEOREM Typing == Spec => []TypeOK
<1>1. IndInv => TypeOK
  BY DEF IndInv
<1> QED
  BY <1>1, Invariance, PTL

(* numSessions, numTCPStreams, the slots and the listener's interest agree, *)
(* and a connection that is accepted always finds a session that is free.   *)
THEOREM Accounts == Spec => []Accounting
<1>1. IndInv => Accounting
  BY Room DEF IndInv, Accounting
<1> QED
  BY <1>1, Invariance, PTL

(* While the server is full or stops, max_idle_time_timer expires no later  *)
(* than the idle time of any session.                                      *)
THEOREM IdleLimit == Spec => []IdleTimeHolds
<1>1. IndInv => IdleTimeHolds
  BY DEF IndInv
<1> QED
  BY <1>1, Invariance, PTL

(* An engine that has stopped has no session, stream or listener, and of    *)
(* its timers the event notification timer alone; when the run loop has     *)
(* ended, that one alone may be pending, and only if it is not due.         *)
THEOREM CleanStop == Spec => []StoppedIsClean
<1>1. IndInv => StoppedIsClean
  BY DEF IndInv
<1> QED
  BY <1>1, Invariance, PTL
================================================================================
