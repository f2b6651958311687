----------------------------- MODULE RunLoopProofs -----------------------------
(***************************************************************************)
(* Proofs about the run loop, for any number of timers, handles,           *)
(* descriptors and any time: the passes over its lists are sound whatever  *)
(* the callbacks register and deregister, a handle is only called for what *)
(* select reported of it, and the timers implement TimerService. The       *)
(* self-pipe comes last, for bytes, contexts and a pipe of any size: it    *)
(* implements CallbackQueue.                                               *)
(***************************************************************************)
EXTENDS RunLoop, SelfPipe, SequenceTheorems, TLAPS

-----------------------------------------------------------------------------
(* Lists.                                                                  *)

\* What is left of a list without one of its places.
LEMMA Removed ==
    ASSUME NEW S, NEW s \in Seq(S), NEW i \in DOMAIN s
    PROVE  /\ RemoveAt(s, i) \in Seq(S)
           /\ DOMAIN RemoveAt(s, i) = 1 .. Len(s) - 1
           /\ \A j \in 1 .. Len(s) - 1 :
                 RemoveAt(s, i)[j] = IF j < i THEN s[j] ELSE s[j + 1]
<1> DEFINE a == SubSeq(s, 1, i - 1)
           b == SubSeq(s, i + 1, Len(s))
<1>1. /\ Len(s) \in Nat
      /\ i \in 1 .. Len(s)
      /\ \A j \in 1 .. Len(s) : s[j] \in S
  BY LenProperties
<1>2. /\ a \in Seq(S)
      /\ Len(a) = i - 1
      /\ \A j \in 1 .. i - 1 : a[j] = s[j]
  <2>1. /\ 1 \in Int /\ i - 1 \in Int
        /\ \A j \in 1 .. i - 1 : s[j] \in S
    BY <1>1
  <2> QED
    BY <1>1, <2>1, SubSeqProperties
<1>3. /\ b \in Seq(S)
      /\ Len(b) = Len(s) - i
      /\ \A j \in 1 .. Len(s) - i : b[j] = s[i + j]
  <2>1. /\ i + 1 \in Int /\ Len(s) \in Int
        /\ \A j \in i + 1 .. Len(s) : s[j] \in S
    BY <1>1
  <2>2. /\ b \in Seq(S)
        /\ Len(b) = IF i + 1 <= Len(s) THEN Len(s) - (i + 1) + 1 ELSE 0
        /\ \A j \in 1 .. Len(s) - (i + 1) + 1 : b[j] = s[(i + 1) + j - 1]
    BY <2>1, SubSeqProperties
  <2> QED
    BY <1>1, <2>2
<1>4. RemoveAt(s, i) = a \o b
  BY DEF RemoveAt
<1> HIDE DEF a, b
<1>5. /\ a \o b \in Seq(S)
      /\ Len(a \o b) = (i - 1) + (Len(s) - i)
      /\ \A j \in 1 .. (i - 1) + (Len(s) - i) :
            (a \o b)[j] = IF j <= i - 1 THEN a[j] ELSE b[j - (i - 1)]
  <2>1. /\ a \o b \in Seq(S)
        /\ Len(a \o b) = Len(a) + Len(b)
        /\ \A j \in 1 .. Len(a) + Len(b) :
              (a \o b)[j] = IF j <= Len(a) THEN a[j] ELSE b[j - Len(a)]
    BY <1>2, <1>3, ConcatProperties
  <2> QED
    BY <1>2, <1>3, <2>1
<1>6. Len(a \o b) = Len(s) - 1
  BY <1>1, <1>5
<1>7. DOMAIN RemoveAt(s, i) = 1 .. Len(s) - 1
  BY <1>4, <1>5, <1>6, LenProperties
<1>8. ASSUME NEW j \in 1 .. Len(s) - 1
      PROVE  (a \o b)[j] = IF j < i THEN s[j] ELSE s[j + 1]
  <2>1. CASE j < i
    BY <1>1, <1>2, <1>5, <2>1
  <2>2. CASE ~(j < i)
    <3>1. /\ j - (i - 1) \in 1 .. Len(s) - i
          /\ i + (j - (i - 1)) = j + 1
          /\ ~(j <= i - 1)
          /\ j \in 1 .. (i - 1) + (Len(s) - i)
      BY <1>1, <2>2
    <3> QED
      BY <1>3, <1>5, <2>2, <3>1
  <2> QED
    BY <2>1, <2>2
<1> QED
  BY <1>4, <1>5, <1>7, <1>8

\* A list with something put in at a place.
LEMMA Inserted ==
    ASSUME NEW S, NEW s \in Seq(S), NEW p \in 1 .. Len(s) + 1, NEW x \in S
    PROVE  /\ InsertAt(s, p, x) \in Seq(S)
           /\ DOMAIN InsertAt(s, p, x) = 1 .. Len(s) + 1
           /\ \A j \in 1 .. Len(s) + 1 :
                 InsertAt(s, p, x)[j] =
                     IF j < p THEN s[j] ELSE IF j = p THEN x ELSE s[j - 1]
<1> DEFINE a == SubSeq(s, 1, p - 1)
           b == SubSeq(s, p, Len(s))
           ax == a \o <<x>>
<1>1. /\ Len(s) \in Nat
      /\ p \in Int
      /\ \A j \in 1 .. Len(s) : s[j] \in S
  BY LenProperties
<1>2. /\ a \in Seq(S)
      /\ Len(a) = p - 1
      /\ \A j \in 1 .. p - 1 : a[j] = s[j]
  <2>1. /\ 1 \in Int /\ p - 1 \in Int
        /\ \A j \in 1 .. p - 1 : s[j] \in S
    BY <1>1
  <2> QED
    BY <1>1, <2>1, SubSeqProperties
<1>3. /\ b \in Seq(S)
      /\ Len(b) = Len(s) + 1 - p
      /\ \A j \in 1 .. Len(s) + 1 - p : b[j] = s[p + j - 1]
  <2>1. /\ p \in Int /\ Len(s) \in Int
        /\ \A j \in p .. Len(s) : s[j] \in S
    BY <1>1
  <2>2. /\ b \in Seq(S)
        /\ Len(b) = IF p <= Len(s) THEN Len(s) - p + 1 ELSE 0
        /\ \A j \in 1 .. Len(s) - p + 1 : b[j] = s[p + j - 1]
    BY <2>1, SubSeqProperties
  <2> QED
    BY <1>1, <2>2
<1>4. <<x>> \in Seq(S) /\ Len(<<x>>) = 1 /\ <<x>>[1] = x
  OBVIOUS
<1> HIDE DEF a, b
<1>5. /\ ax \in Seq(S)
      /\ Len(ax) = (p - 1) + 1
      /\ \A j \in 1 .. (p - 1) + 1 :
            ax[j] = IF j <= p - 1 THEN a[j] ELSE <<x>>[j - (p - 1)]
  BY <1>2, <1>4, ConcatProperties
<1> HIDE DEF ax
<1>6. /\ ax \o b \in Seq(S)
      /\ Len(ax \o b) = ((p - 1) + 1) + (Len(s) + 1 - p)
      /\ \A j \in 1 .. ((p - 1) + 1) + (Len(s) + 1 - p) :
            (ax \o b)[j] = IF j <= (p - 1) + 1 THEN ax[j]
                                               ELSE b[j - ((p - 1) + 1)]
  <2>1. /\ ax \o b \in Seq(S)
        /\ Len(ax \o b) = Len(ax) + Len(b)
        /\ \A j \in 1 .. Len(ax) + Len(b) :
              (ax \o b)[j] = IF j <= Len(ax) THEN ax[j] ELSE b[j - Len(ax)]
    BY <1>3, <1>5, ConcatProperties
  <2> QED
    BY <1>3, <1>5, <2>1
<1>7. InsertAt(s, p, x) = ax \o b
  BY DEF InsertAt, ax, a, b
<1>8. Len(ax \o b) = Len(s) + 1
  BY <1>1, <1>6
<1>9. DOMAIN InsertAt(s, p, x) = 1 .. Len(s) + 1
  BY <1>6, <1>7, <1>8, LenProperties
<1>10. ASSUME NEW j \in 1 .. Len(s) + 1
       PROVE  (ax \o b)[j] =
                  IF j < p THEN s[j] ELSE IF j = p THEN x ELSE s[j - 1]
  <2>1. j \in 1 .. ((p - 1) + 1) + (Len(s) + 1 - p)
    BY <1>1
  <2>2. CASE j < p
    BY <1>1, <1>2, <1>5, <1>6, <2>1, <2>2
  <2>3. CASE j = p
    <3>1. j \in 1 .. (p - 1) + 1 /\ ~(j <= p - 1) /\ j - (p - 1) = 1
      BY <1>1, <2>3
    <3>2. ax[j] = x
      BY <1>4, <1>5, <3>1
    <3> QED
      BY <1>1, <1>6, <2>1, <2>3, <3>2
  <2>4. CASE ~(j < p) /\ j # p
    <3>1. /\ j - ((p - 1) + 1) \in 1 .. Len(s) + 1 - p
          /\ p + (j - ((p - 1) + 1)) - 1 = j - 1
          /\ ~(j <= (p - 1) + 1)
      BY <1>1, <2>4
    <3> QED
      BY <1>3, <1>6, <2>1, <2>4, <3>1
  <2> QED
    BY <1>1, <2>2, <2>3, <2>4
<1> QED
  BY <1>6, <1>7, <1>9, <1>10
\* The lists of the loop.
LEMMA Lists ==
    ASSUME TypeOK
    PROVE  /\ Len(timers) \in Nat
           /\ DOMAIN timers = 1 .. Len(timers)
           /\ \A i \in DOMAIN timers : timers[i] \in Timer
           /\ Len(handles) \in Nat
           /\ DOMAIN handles = 1 .. Len(handles)
           /\ \A i \in DOMAIN handles : handles[i] \in Handle
<1>1. timers \in Seq(Timer) /\ handles \in Seq(Handle)
  BY DEF TypeOK
<1> QED
  BY <1>1, LenProperties

\* The search for a handle by its id finds the one there is.
LEMMA Found ==
    ASSUME TypeOK, HandleListInv, NEW x \in Ids(handles)
    PROVE  /\ IndexOf(handles, x) \in DOMAIN handles
           /\ handles[IndexOf(handles, x)].id = x
<1>1. \E i \in DOMAIN handles : handles[i].id = x
  BY DEF Ids
<1> QED
  BY <1>1 DEF IndexOf

\* What only the list of handles, the cursor and the pass determine is kept
\* by the steps that leave them alone.
LEMMA PassKept ==
    ASSUME IndInv, UNCHANGED <<handleVars, ready>>,
           pc' \notin Served => owed = {},
           pc' \in Served => pc \in Served,
           pc' \in {"handles", "handleCallback"} =>
               pc \in {"handles", "handleCallback"}
    PROVE  HandleListInv' /\ CursorIsAlive' /\ PassInv'
<1>1. HandleListInv'
  BY DEF IndInv, HandleListInv, handleVars
<1>2. CursorIsAlive'
  BY DEF IndInv, CursorIsAlive, Ids, Sentinel, handleVars
<1>3. PassInv'
  BY DEF IndInv, PassInv, EventsOf, Sentinel, Event, handleVars
<1> QED
  BY <1>1, <1>2, <1>3

-----------------------------------------------------------------------------
(* Timers.                                                                 *)

\* A timer is registered: it follows those that are not later than it.
LEMMA TimerRegisterStep ==
    ASSUME IndInv, NEW d \in 0 .. MaxTime, TimerRegister(d)
    PROVE  IndInv' /\ Service!Register
<1> USE DEF IndInv
<1>0. PICK n \in 1 .. MaxTimers, p \in 1 .. Len(timers) + 1 :
          /\ IsNewId(n, Ids(timers))
          /\ IsPlace(d, p)
          /\ timers' = InsertAt(timers, p,
                                [id |-> n,
                                 deadline |-> IF d = 0 THEN 1 ELSE d,
                                 urgent |-> d = 0])
  BY DEF TimerRegister
<1> DEFINE t == [id |-> n, deadline |-> IF d = 0 THEN 1 ELSE d,
                 urgent |-> d = 0]
<1>1. IsPlace(d, p) /\ timers' = InsertAt(timers, p, t)
  BY <1>0
<1>2. /\ ProgramRuns
      /\ UNCHANGED <<state, pc, serving, now, dueBy, handleVars, ready, call>>
  BY DEF TimerRegister
<1>3. /\ t \in Timer
      /\ t.id = n
      /\ t.deadline = IF d = 0 THEN 1 ELSE d
      /\ t.urgent = (d = 0)
  <2>1. n \in 1 .. MaxTimers
    OBVIOUS
  <2>2. (IF d = 0 THEN 1 ELSE d) \in 1 .. MaxTime
    BY BoundsAssumption
  <2>3. (d = 0) \in BOOLEAN
    OBVIOUS
  <2> QED
    BY <2>1, <2>2, <2>3 DEF Timer
<1> HIDE DEF t
<1>4. /\ timers' \in Seq(Timer)
      /\ DOMAIN timers' = 1 .. Len(timers) + 1
      /\ \A j \in 1 .. Len(timers) + 1 :
            timers'[j] = IF j < p THEN timers[j]
                                  ELSE IF j = p THEN t ELSE timers[j - 1]
  <2>1. timers \in Seq(Timer)
    BY DEF TypeOK
  <2>2. PICK s, x : s = timers /\ x = t
    OBVIOUS
  <2>3. s \in Seq(Timer) /\ x \in Timer /\ p \in 1 .. Len(s) + 1
    BY <1>3, <2>1, <2>2
  <2>4. /\ InsertAt(s, p, x) \in Seq(Timer)
        /\ DOMAIN InsertAt(s, p, x) = 1 .. Len(s) + 1
    BY <2>3, Inserted
  <2>5. ASSUME NEW j \in 1 .. Len(s) + 1
        PROVE  InsertAt(s, p, x)[j] =
                   IF j < p THEN s[j] ELSE IF j = p THEN x ELSE s[j - 1]
    BY <2>3, Inserted
  <2>6. timers' = InsertAt(s, p, x)
    BY <1>1, <2>2 DEF InsertAt
  <2> QED
    BY <2>2, <2>4, <2>5, <2>6
<1>5. /\ Len(timers) \in Nat
      /\ DOMAIN timers = 1 .. Len(timers)
      /\ \A i \in DOMAIN timers : timers[i] \in Timer
  BY Lists
<1>6. /\ \A i, j \in DOMAIN timers : timers[i].id = timers[j].id => i = j
      /\ \A i, j \in DOMAIN timers :
            i < j => Service!MayPrecede(timers[i], timers[j])
  BY DEF TimerListInv
<1>7. n \in Nat /\ \A i \in DOMAIN timers : timers[i].id < n
  BY <1>0, BoundsAssumption DEF IsNewId, Ids
<1>8. \A i \in DOMAIN timers :
          timers[i].id \in Nat /\ timers[i].deadline \in Nat \ {0}
  BY <1>5 DEF Timer
<1>9. ASSUME NEW i \in 1 .. p - 1
      PROVE  Service!MayPrecede(timers[i], t)
  <2>1. i \in DOMAIN timers /\ timers[i].deadline <= d
    BY <1>1, <1>5 DEF IsPlace
  <2>2. timers[i].id < n /\ d # 0
    BY <1>7, <1>8, <2>1
  <2> QED
    BY <1>3, <1>8, <2>1, <2>2 DEF Service!MayPrecede
<1>10. ASSUME NEW i \in p .. Len(timers)
       PROVE  Service!MayPrecede(t, timers[i])
  <2>1. i \in DOMAIN timers /\ p \in DOMAIN timers /\ timers[p].deadline > d
    BY <1>1, <1>5 DEF IsPlace
  <2>2. timers[p].deadline <= timers[i].deadline
    <3>1. CASE i = p
      BY <1>8, <2>1, <3>1
    <3>2. CASE i # p
      BY <1>6, <1>8, <2>1, <3>2 DEF Service!MayPrecede
    <3> QED
      BY <3>1, <3>2
  <2>3. timers[i].deadline > d
    BY <1>8, <2>1, <2>2
  <2>4. CASE d = 0
    <3>1. t.deadline = 1 /\ t.urgent
      BY <1>3, <2>4
    <3>2. 1 < timers[i].deadline \/ 1 = timers[i].deadline
      BY <1>8, <2>1
    <3> QED
      BY <3>1, <3>2 DEF Service!MayPrecede
  <2>5. CASE d # 0
    BY <1>3, <2>3, <2>5 DEF Service!MayPrecede
  <2> QED
    BY <2>4, <2>5
<1>11. ASSUME NEW i \in DOMAIN timers', i # p
       PROVE  \E k \in DOMAIN timers :
                  /\ timers'[i] = timers[k]
                  /\ k = IF i < p THEN i ELSE i - 1
  <2>1. CASE i < p
    <3>1. i \in DOMAIN timers /\ timers'[i] = timers[i]
      BY <1>1, <1>4, <1>5, <2>1
    <3> QED
      BY <2>1, <3>1
  <2>2. CASE ~(i < p)
    <3>1. i - 1 \in DOMAIN timers /\ timers'[i] = timers[i - 1]
      BY <1>1, <1>4, <1>5, <1>11, <2>2
    <3> QED
      BY <2>2, <3>1
  <2> QED
    BY <2>1, <2>2
<1>12. TypeOK'
  BY <1>2, <1>4 DEF TypeOK, handleVars
<1>13. TimerListInv'
  <2>1. ASSUME NEW i \in DOMAIN timers', NEW j \in DOMAIN timers',
               timers'[i].id = timers'[j].id
        PROVE  i = j
    <3>1. CASE i = p /\ j = p
      BY <3>1
    <3>2. CASE i = p /\ j # p
      <4>1. PICK k \in DOMAIN timers : timers'[j] = timers[k]
        BY <3>2, <1>11
      <4> QED
        BY <1>3, <1>4, <1>6, <1>7, <1>8, <2>1, <3>2, <4>1
    <3>3. CASE i # p /\ j = p
      <4>1. PICK k \in DOMAIN timers : timers'[i] = timers[k]
        BY <3>3, <1>11
      <4> QED
        BY <1>3, <1>4, <1>6, <1>7, <1>8, <2>1, <3>3, <4>1
    <3>4. CASE i # p /\ j # p
      <4>1. PICK k \in DOMAIN timers :
                timers'[i] = timers[k] /\ k = IF i < p THEN i ELSE i - 1
        BY <3>4, <1>11
      <4>2. PICK l \in DOMAIN timers :
                timers'[j] = timers[l] /\ l = IF j < p THEN j ELSE j - 1
        BY <3>4, <1>11
      <4>3. k = l
        BY <1>6, <2>1, <4>1, <4>2
      <4> QED
        BY <1>1, <1>4, <1>5, <3>4, <4>1, <4>2, <4>3
    <3> QED
      BY <3>1, <3>2, <3>3, <3>4
  <2>2. ASSUME NEW i \in DOMAIN timers', NEW j \in DOMAIN timers', i < j
        PROVE  Service!MayPrecede(timers'[i], timers'[j])
    <3>1. CASE j < p
      <4>1. /\ timers'[i] = timers[i] /\ timers'[j] = timers[j]
            /\ i \in DOMAIN timers /\ j \in DOMAIN timers
        BY <1>1, <1>4, <1>5, <2>2, <3>1
      <4> QED
        BY <1>6, <2>2, <4>1
    <3>2. CASE j = p
      <4>1. timers'[i] = timers[i] /\ timers'[j] = t /\ i \in 1 .. p - 1
        BY <1>1, <1>4, <1>5, <2>2, <3>2
      <4> QED
        BY <1>9, <4>1
    <3>3. CASE i = p
      <4>1. timers'[i] = t /\ timers'[j] = timers[j - 1]
            /\ j - 1 \in p .. Len(timers)
        BY <1>1, <1>4, <1>5, <2>2, <3>3
      <4> QED
        BY <1>10, <4>1
    <3>4. CASE i < p /\ p < j
      <4>1. /\ timers'[i] = timers[i] /\ timers'[j] = timers[j - 1]
            /\ i \in DOMAIN timers /\ j - 1 \in DOMAIN timers /\ i < j - 1
        BY <1>1, <1>4, <1>5, <2>2, <3>4
      <4> QED
        BY <1>6, <4>1
    <3>5. CASE p < i
      <4>1. /\ timers'[i] = timers[i - 1] /\ timers'[j] = timers[j - 1]
            /\ i - 1 \in DOMAIN timers /\ j - 1 \in DOMAIN timers
            /\ i - 1 < j - 1
        BY <1>1, <1>4, <1>5, <2>2, <3>5
      <4> QED
        BY <1>6, <4>1
    <3> QED
      BY <1>1, <1>4, <1>5, <2>2, <3>1, <3>2, <3>3, <3>4, <3>5
  <2> QED
    BY <2>1, <2>2 DEF TimerListInv, Service!MayPrecede
<1>14. ServingInv'
  BY <1>2 DEF ServingInv
<1>15. HandleListInv' /\ CursorIsAlive' /\ PassInv'
  BY <1>2, PassKept DEF PassInv
<1>16. Service!Register
  <2>1. ToSet(timers)' = ToSet(timers) \cup {t}
    <3>1. ASSUME NEW x \in ToSet(timers)'
          PROVE  x \in ToSet(timers) \cup {t}
      <4>1. PICK j \in DOMAIN timers' : x = timers'[j]
        BY DEF ToSet
      <4>2. CASE j = p
        BY <1>4, <4>1, <4>2
      <4>3. CASE j # p
        BY <1>11, <4>1, <4>3 DEF ToSet
      <4> QED
        BY <4>2, <4>3
    <3>2. ASSUME NEW x \in ToSet(timers)
          PROVE  x \in ToSet(timers)'
      <4>1. PICK j \in DOMAIN timers : x = timers[j]
        BY DEF ToSet
      <4>2. CASE j < p
        BY <1>1, <1>4, <1>5, <4>1, <4>2 DEF ToSet
      <4>3. CASE ~(j < p)
        <5>1. /\ j + 1 \in DOMAIN timers'
              /\ timers'[j + 1] = timers[(j + 1) - 1]
              /\ (j + 1) - 1 = j
          BY <1>1, <1>4, <1>5, <4>3
        <5> QED
          BY <4>1, <5>1 DEF ToSet
      <4> QED
        BY <4>2, <4>3
    <3>3. t \in ToSet(timers)'
      BY <1>1, <1>4 DEF ToSet
    <3> QED
      BY <3>1, <3>2, <3>3
  <2>2. \A u \in ToSet(timers) : u.id < t.id
    BY <1>3, <1>6, <1>7, <1>8 DEF ToSet
  <2> QED
    BY <1>2, <2>1, <2>2 DEF Service!Register
<1> QED
  BY <1>12, <1>13, <1>14, <1>15, <1>16

\* A timer leaves the list: the others keep their order.
LEMMA TimerGone ==
    ASSUME TypeOK, TimerListInv, NEW i \in DOMAIN timers,
           timers' \in Seq(Timer),
           DOMAIN timers' = 1 .. Len(timers) - 1,
           \A j \in 1 .. Len(timers) - 1 :
               timers'[j] = IF j < i THEN timers[j] ELSE timers[j + 1]
    PROVE  TimerListInv' /\ ToSet(timers)' = ToSet(timers) \ {timers[i]}
<1>1. /\ Len(timers) \in Nat
      /\ DOMAIN timers = 1 .. Len(timers)
  BY Lists
<1>2. /\ \A j, k \in DOMAIN timers : timers[j].id = timers[k].id => j = k
      /\ \A j, k \in DOMAIN timers :
            j < k => Service!MayPrecede(timers[j], timers[k])
  BY DEF TimerListInv
<1>3. ASSUME NEW j \in DOMAIN timers'
      PROVE  \E m \in DOMAIN timers :
                 timers'[j] = timers[m] /\ m = IF j < i THEN j ELSE j + 1
  <2>1. j \in DOMAIN timers /\ j + 1 \in DOMAIN timers
    BY <1>1
  <2>2. CASE j < i
    BY <2>1, <2>2
  <2>3. CASE ~(j < i)
    BY <2>1, <2>3
  <2> QED
    BY <2>2, <2>3
<1>4. TimerListInv'
  <2>1. ASSUME NEW j \in DOMAIN timers', NEW k \in DOMAIN timers'
        PROVE  /\ timers'[j].id = timers'[k].id => j = k
               /\ j < k => Service!MayPrecede(timers'[j], timers'[k])
    <3>1. PICK m \in DOMAIN timers :
              timers'[j] = timers[m] /\ m = IF j < i THEN j ELSE j + 1
      BY <1>3
    <3>2. PICK n \in DOMAIN timers :
              timers'[k] = timers[n] /\ n = IF k < i THEN k ELSE k + 1
      BY <1>3
    <3>3. (m = n => j = k) /\ (j < k => m < n)
      BY <1>1, <3>1, <3>2
    <3>4. timers'[j].id = timers'[k].id => j = k
      BY <1>2, <3>1, <3>2, <3>3
    <3>5. j < k => Service!MayPrecede(timers'[j], timers'[k])
      BY <1>2, <3>1, <3>2, <3>3
    <3> QED
      BY <3>4, <3>5
  <2> QED
    BY <2>1 DEF TimerListInv, Service!MayPrecede
<1>5. ASSUME NEW x \in ToSet(timers)'
      PROVE  x \in ToSet(timers) \ {timers[i]}
  <2>1. PICK j \in DOMAIN timers' : x = timers'[j]
    BY DEF ToSet
  <2>2. PICK m \in DOMAIN timers :
            timers'[j] = timers[m] /\ m = IF j < i THEN j ELSE j + 1
    BY <1>3
  <2>3. m # i
    BY <1>1, <2>2
  <2> QED
    BY <1>2, <2>1, <2>2, <2>3 DEF ToSet
<1>6. ASSUME NEW x \in ToSet(timers) \ {timers[i]}
      PROVE  x \in ToSet(timers)'
  <2>1. PICK m \in DOMAIN timers : x = timers[m] /\ m # i
    BY DEF ToSet
  <2>2. CASE m < i
    <3>1. m \in DOMAIN timers' /\ timers'[m] = timers[m]
      BY <1>1, <2>2
    <3> QED
      BY <2>1, <3>1 DEF ToSet
  <2>3. CASE ~(m < i)
    <3>1. /\ m - 1 \in DOMAIN timers'
          /\ ~(m - 1 < i)
          /\ (m - 1) + 1 = m
      BY <1>1, <2>1, <2>3
    <3>2. timers'[m - 1] = timers[m]
      BY <3>1
    <3> QED
      BY <2>1, <3>1, <3>2 DEF ToSet
  <2> QED
    BY <2>2, <2>3
<1>7. ToSet(timers)' = ToSet(timers) \ {timers[i]}
  BY <1>5, <1>6
<1> QED
  BY <1>4, <1>7

\* A timer is deregistered.
LEMMA TimerDeregisterStep ==
    ASSUME IndInv, NEW i \in 1 .. MaxTimers, TimerDeregister(i)
    PROVE  IndInv' /\ Service!Deregister
<1> USE DEF IndInv
<1>1. /\ ProgramRuns
      /\ i \in DOMAIN timers
      /\ timers' = RemoveAt(timers, i)
      /\ UNCHANGED <<state, pc, serving, now, dueBy, handleVars, ready, call>>
  BY DEF TimerDeregister
<1>2. /\ timers' \in Seq(Timer)
      /\ DOMAIN timers' = 1 .. Len(timers) - 1
      /\ \A j \in 1 .. Len(timers) - 1 :
            timers'[j] = IF j < i THEN timers[j] ELSE timers[j + 1]
  <2>1. PICK s : s = timers
    OBVIOUS
  <2>2. s \in Seq(Timer) /\ i \in DOMAIN s
    BY <1>1, <2>1 DEF TypeOK
  <2>3. /\ RemoveAt(s, i) \in Seq(Timer)
        /\ DOMAIN RemoveAt(s, i) = 1 .. Len(s) - 1
        /\ \A j \in 1 .. Len(s) - 1 :
              RemoveAt(s, i)[j] = IF j < i THEN s[j] ELSE s[j + 1]
    BY <2>2, Removed
  <2>4. timers' = RemoveAt(s, i)
    BY <1>1, <2>1 DEF RemoveAt
  <2> QED
    BY <2>1, <2>3, <2>4
<1>3. TimerListInv' /\ ToSet(timers)' = ToSet(timers) \ {timers[i]}
  BY <1>1, <1>2, TimerGone
<1>4. TypeOK'
  BY <1>1, <1>2 DEF TypeOK, handleVars
<1>5. ServingInv'
  BY <1>1 DEF ServingInv
<1>6. HandleListInv' /\ CursorIsAlive' /\ PassInv'
  BY <1>1, PassKept DEF PassInv
<1>7. Service!Deregister
  <2>1. timers[i] \in ToSet(timers)
    BY <1>1 DEF ToSet
  <2> QED
    BY <1>1, <1>3, <2>1 DEF Service!Deregister
<1> QED
  BY <1>3, <1>4, <1>5, <1>6, <1>7

\* The first timer of the list is served, when it is due.
LEMMA ServeTimerStep ==
    ASSUME IndInv, ServeTimer
    PROVE  IndInv' /\ Service!Serve
<1> USE DEF IndInv
<1>1. /\ pc = "timers"
      /\ timers # <<>>
      /\ Head(timers).deadline <= dueBy
      /\ serving' = Head(timers)
      /\ timers' = Tail(timers)
      /\ pc' = "timerCallback"
      /\ UNCHANGED <<state, now, dueBy, handleVars, ready, call>>
  BY DEF ServeTimer, TimerIsDue
<1>2. /\ Len(timers) \in Nat
      /\ DOMAIN timers = 1 .. Len(timers)
      /\ \A i \in DOMAIN timers : timers[i] \in Timer
  BY Lists
<1>3. 1 \in DOMAIN timers /\ Head(timers) = timers[1]
  <2>1. timers \in Seq(Timer)
    BY DEF TypeOK
  <2>2. Len(timers) # 0
    BY <1>1, <2>1, EmptySeq
  <2> QED
    BY <1>2, <2>1, <2>2
<1>4. /\ timers' \in Seq(Timer)
      /\ DOMAIN timers' = 1 .. Len(timers) - 1
      /\ \A j \in 1 .. Len(timers) - 1 :
            timers'[j] = IF j < 1 THEN timers[j] ELSE timers[j + 1]
  <2>1. timers \in Seq(Timer)
    BY DEF TypeOK
  <2>2. /\ Tail(timers) \in Seq(Timer)
        /\ Len(Tail(timers)) = Len(timers) - 1
        /\ \A j \in 1 .. Len(Tail(timers)) : Tail(timers)[j] = timers[j + 1]
    BY <1>1, <2>1, HeadTailProperties
  <2>3. DOMAIN Tail(timers) = 1 .. Len(Tail(timers))
    BY <2>2, LenProperties
  <2> QED
    BY <1>1, <1>2, <2>2, <2>3
<1>5. TimerListInv' /\ ToSet(timers)' = ToSet(timers) \ {timers[1]}
  BY <1>1, <1>3, <1>4, TimerGone
<1>6. serving' \in Timer /\ serving' # NoTimer
  BY <1>1, <1>2, <1>3, NoTimerAssumption
<1>7. TypeOK'
  BY <1>1, <1>4, <1>6 DEF TypeOK, handleVars
<1>8. ServingInv'
  BY <1>1, <1>6 DEF ServingInv
<1>9. HandleListInv' /\ CursorIsAlive' /\ PassInv'
  BY <1>1, PassKept DEF Served
<1>10. Service!Serve
  <2>1. serving = NoTimer
    BY <1>1 DEF ServingInv
  <2>2. timers[1] \in ToSet(timers)
    BY <1>3 DEF ToSet
  <2>3. timers[1].deadline <= now
    <3>1. timers[1].deadline \in Nat
      BY <1>2, <1>3 DEF Timer
    <3> QED
      BY <1>1, <1>3, <3>1 DEF ServingInv, TypeOK
  <2>4. ASSUME NEW u \in ToSet(timers) \ {timers[1]}
        PROVE  Service!MayPrecede(timers[1], u)
    <3>1. PICK j \in DOMAIN timers : u = timers[j] /\ j # 1
      BY DEF ToSet
    <3>2. 1 < j
      BY <1>2, <3>1
    <3> QED
      BY <1>3, <3>1, <3>2 DEF TimerListInv
  <2> QED
    BY <1>1, <1>3, <1>5, <2>1, <2>2, <2>3, <2>4 DEF Service!Serve
<1> QED
  BY <1>5, <1>7, <1>8, <1>9, <1>10

\* The callback of a timer returns.
LEMMA TimerReturnsStep ==
    ASSUME IndInv, TimerReturns
    PROVE  IndInv' /\ Service!Return
<1> USE DEF IndInv
<1>1. /\ pc = "timerCallback"
      /\ serving' = NoTimer
      /\ pc' = "timers"
      /\ UNCHANGED <<state, timers, now, dueBy, handleVars, ready, call>>
  BY DEF TimerReturns
<1>2. TypeOK'
  BY <1>1 DEF TypeOK, handleVars
<1>3. TimerListInv'
  BY <1>1 DEF TimerListInv, Service!MayPrecede
<1>4. ServingInv'
  BY <1>1 DEF ServingInv
<1>5. HandleListInv' /\ CursorIsAlive' /\ PassInv'
  BY <1>1, PassKept DEF Served
<1>6. Service!Return
  BY <1>1 DEF Service!Return, ServingInv, ToSet
<1> QED
  BY <1>2, <1>3, <1>4, <1>5, <1>6

\* Time passes.
LEMMA TickStep ==
    ASSUME IndInv, Tick
    PROVE  IndInv' /\ Service!Tick
<1> USE DEF IndInv
<1>1. /\ now < MaxTime
      /\ now' = now + 1
      /\ UNCHANGED <<state, pc, timerVars, dueBy, handleVars, ready, call>>
  BY DEF Tick
<1>2. now' \in 0 .. MaxTime
  BY <1>1, BoundsAssumption DEF TypeOK
<1>3. TypeOK'
  BY <1>1, <1>2 DEF TypeOK, timerVars, handleVars
<1>4. TimerListInv'
  BY <1>1 DEF TimerListInv, Service!MayPrecede, timerVars
<1>5. dueBy' <= now'
  BY <1>1 DEF ServingInv, TypeOK
<1>6. ServingInv'
  BY <1>1, <1>5 DEF ServingInv, timerVars
<1>7. HandleListInv' /\ CursorIsAlive' /\ PassInv'
  BY <1>1, PassKept DEF PassInv
<1>8. Service!Tick
  BY <1>1 DEF Service!Tick, ToSet, timerVars
<1> QED
  BY <1>3, <1>4, <1>6, <1>7, <1>8

-----------------------------------------------------------------------------
(* Handles, and the passes over them. These steps leave the timers alone.  *)

\* What only the timers and the time determine.
LEMMA TimersKept ==
    ASSUME IndInv, UNCHANGED <<timerVars, now>>, dueBy' \in {dueBy, now},
           pc' = "timerCallback" <=> pc = "timerCallback"
    PROVE  /\ TimerListInv' /\ ServingInv'
           /\ UNCHANGED <<ToSet(timers), serving, now>>
<1>1. TimerListInv'
  BY DEF IndInv, TimerListInv, Service!MayPrecede, timerVars
<1>2. dueBy' <= now'
  BY DEF IndInv, TypeOK, ServingInv
<1>3. ServingInv'
  BY <1>2 DEF IndInv, ServingInv, timerVars
<1>4. UNCHANGED <<ToSet(timers), serving, now>>
  BY DEF ToSet, timerVars
<1> QED
  BY <1>1, <1>3, <1>4

\* A handle is registered: it is the last and takes no part in the pass.
LEMMA FileHandleRegisterStep ==
    ASSUME IndInv, NEW fd \in FD, NEW I \in Interests,
           FileHandleRegister(fd, I)
    PROVE  IndInv' /\ UNCHANGED <<ToSet(timers), serving, now>>
<1> USE DEF IndInv
<1>0. PICK n \in 1 .. MaxHandles :
          /\ IsNewId(n, HandleIds)
          /\ handles' = Append(handles, [id |-> n, fd |-> fd, interests |-> I,
                                         awaiting |-> FALSE])
  BY DEF FileHandleRegister
<1> DEFINE h == [id |-> n, fd |-> fd, interests |-> I, awaiting |-> FALSE]
<1>1. /\ ProgramRuns
      /\ \A i \in DOMAIN handles : handles[i].id < n
      /\ \A i \in DOMAIN handles : handles[i].fd # fd
      /\ handles' = Append(handles, h)
      /\ UNCHANGED <<state, pc, timerVars, now, dueBy, cursor, reported, owed,
                     ready, call>>
  BY <1>0 DEF FileHandleRegister, IsNewId, HandleIds, Ids
<1>2. /\ h \in Handle
      /\ h.id = n
      /\ h.fd = fd
      /\ h.awaiting = FALSE
  BY <1>1, BoundsAssumption DEF TypeOK, Handle
<1> HIDE DEF h
<1>3. /\ Len(handles) \in Nat
      /\ DOMAIN handles = 1 .. Len(handles)
      /\ \A i \in DOMAIN handles : handles[i] \in Handle
  BY Lists
<1>4. /\ handles' \in Seq(Handle)
      /\ DOMAIN handles' = 1 .. Len(handles) + 1
      /\ \A i \in 1 .. Len(handles) : handles'[i] = handles[i]
      /\ handles'[Len(handles) + 1] = h
  <2>1. handles \in Seq(Handle)
    BY DEF TypeOK
  <2>2. PICK s, x : s = handles /\ x = h
    OBVIOUS
  <2>3. s \in Seq(Handle) /\ x \in Handle
    BY <1>2, <2>1, <2>2
  <2>4. /\ Append(s, x) \in Seq(Handle)
        /\ Len(Append(s, x)) = Len(s) + 1
        /\ \A i \in 1 .. Len(s) : Append(s, x)[i] = s[i]
        /\ Append(s, x)[Len(s) + 1] = x
    BY <2>3, AppendProperties
  <2>5. DOMAIN Append(s, x) = 1 .. Len(s) + 1
    BY <2>4, LenProperties
  <2> QED
    BY <1>1, <2>2, <2>4, <2>5
<1>5. TypeOK'
  BY <1>1, <1>2, <1>4 DEF TypeOK, timerVars
<1>6. TimerListInv' /\ ServingInv' /\ UNCHANGED <<ToSet(timers), serving, now>>
  BY <1>1, TimersKept
<1>7. HandleListInv'
  <2>1. n \in Nat /\ \A i \in DOMAIN handles : handles[i].id \in Nat
    BY <1>3 DEF TypeOK, Handle
  <2>2. \A i \in DOMAIN handles' :
            \/ i \in DOMAIN handles /\ handles'[i] = handles[i]
            \/ i = Len(handles) + 1 /\ handles'[i] = h
    BY <1>3, <1>4
  <2>3. ASSUME NEW i \in DOMAIN handles', NEW j \in DOMAIN handles', i < j
        PROVE  handles'[i].id < handles'[j].id
    <3>1. i \in DOMAIN handles /\ handles'[i] = handles[i]
      BY <1>3, <1>4, <2>3
    <3>2. CASE j \in DOMAIN handles
      BY <1>3, <1>4, <2>3, <3>1, <3>2 DEF HandleListInv
    <3>3. CASE handles'[j] = h
      BY <1>1, <1>2, <2>1, <3>1, <3>3
    <3> QED
      BY <2>2, <3>2, <3>3
  <2>4. ASSUME NEW i \in DOMAIN handles', NEW j \in DOMAIN handles',
               handles'[i].fd = handles'[j].fd
        PROVE  i = j
    <3>1. CASE i \in DOMAIN handles /\ j \in DOMAIN handles
      BY <1>3, <1>4, <2>4, <3>1 DEF HandleListInv
    <3>2. CASE i \notin DOMAIN handles \/ j \notin DOMAIN handles
      BY <1>1, <1>2, <2>2, <2>4, <3>2
    <3> QED
      BY <3>1, <3>2
  <2> QED
    BY <2>3, <2>4 DEF HandleListInv
<1>8. CursorIsAlive'
  <2>1. \A i \in DOMAIN handles :
            i \in DOMAIN handles' /\ handles'[i] = handles[i]
    BY <1>3, <1>4
  <2> QED
    BY <1>1, <2>1 DEF CursorIsAlive, Ids, Sentinel
<1>9. PassInv'
  <2>1. pc' \notin Served => owed' = {}
    BY <1>1 DEF PassInv
  <2>2. ASSUME NEW o \in owed'
        PROVE  /\ \E i \in DOMAIN handles' :
                     /\ handles'[i].id = o[1]
                     /\ o[2] \in EventsOf(handles[i])'
               /\ pc' \in {"handles", "handleCallback"} =>
                     cursor' # Sentinel /\ cursor' <= o[1]
    <3>1. PICK i \in DOMAIN handles :
              handles[i].id = o[1] /\ o[2] \in EventsOf(handles[i])
      BY <1>1 DEF PassInv
    <3>2. i \in DOMAIN handles' /\ handles'[i] = handles[i]
      BY <1>3, <1>4
    <3>3. o[2] \in EventsOf(handles[i])'
      BY <1>1, <3>1, <3>2 DEF EventsOf
    <3> QED
      BY <1>1, <3>1, <3>2, <3>3 DEF PassInv
  <2>3. ASSUME pc' \in Served, NEW i \in DOMAIN handles', NEW e \in Event,
               handles'[i].awaiting, <<handles'[i].fd, e>> \in ready'
        PROVE  <<handles'[i].id, e>> \in reported'
    <3>1. i \in DOMAIN handles /\ handles'[i] = handles[i]
      BY <1>2, <1>3, <1>4, <2>3
    <3> QED
      BY <1>1, <2>3, <3>1 DEF PassInv
  <2> QED
    BY <2>1, <2>2, <2>3 DEF PassInv, Event, Sentinel, EventsOf
<1> QED
  BY <1>5, <1>6, <1>7, <1>8, <1>9

\* A handle changes its interests, and is no longer owed what it dropped.
LEMMA FileHandleUpdateInterestsStep ==
    ASSUME IndInv, NEW i \in 1 .. MaxHandles, NEW I \in Interests,
           FileHandleUpdateInterests(i, I)
    PROVE  IndInv' /\ UNCHANGED <<ToSet(timers), serving, now>>
<1> DEFINE h == [handles[i] EXCEPT !.interests = I]
<1> USE DEF IndInv
<1>1. /\ ProgramRuns
      /\ i \in DOMAIN handles
      /\ handles' = [handles EXCEPT ![i] = h]
      /\ owed' = {o \in owed : o[1] = handles[i].id => o[2] \in I}
      /\ UNCHANGED <<state, pc, timerVars, now, dueBy, cursor,
                     reported, ready, call>>
  BY DEF FileHandleUpdateInterests
<1>2. /\ Len(handles) \in Nat
      /\ DOMAIN handles = 1 .. Len(handles)
      /\ \A j \in DOMAIN handles : handles[j] \in Handle
  BY Lists
<1>3. /\ h \in Handle
      /\ h.id = handles[i].id
      /\ h.fd = handles[i].fd
      /\ h.interests = I
      /\ h.awaiting = handles[i].awaiting
  <2>1. PICK x \in Handle : x = handles[i]
    BY <1>1, <1>2
  <2>2. [x EXCEPT !.interests = I] \in Handle
    BY DEF Handle
  <2> QED
    BY <2>1, <2>2 DEF Handle
<1> HIDE DEF h
<1>4. /\ handles' \in Seq(Handle)
      /\ DOMAIN handles' = DOMAIN handles
      /\ \A j \in DOMAIN handles :
            handles'[j] = IF j = i THEN h ELSE handles[j]
  <2>1. handles \in Seq(Handle)
    BY DEF TypeOK
  <2> QED
    BY <1>1, <1>2, <1>3, <2>1, ExceptSeq
<1>5. \A j \in DOMAIN handles :
          handles'[j].id = handles[j].id /\ handles'[j].fd = handles[j].fd
  BY <1>3, <1>4
<1>6. TypeOK'
  <2>1. owed' \subseteq reported'
    BY <1>1 DEF TypeOK
  <2> QED
    BY <1>1, <1>4, <2>1 DEF TypeOK, timerVars
<1>7. TimerListInv' /\ ServingInv' /\ UNCHANGED <<ToSet(timers), serving, now>>
  BY <1>1, TimersKept
<1>8. HandleListInv' /\ CursorIsAlive'
  <2>1. HandleListInv'
    BY <1>1, <1>4, <1>5 DEF HandleListInv
  <2>2. CursorIsAlive'
    BY <1>1, <1>4, <1>5 DEF CursorIsAlive, Ids, Sentinel
  <2> QED
    BY <2>1, <2>2
<1>9. PassInv'
  <2>1. pc' \notin Served => owed' = {}
    BY <1>1 DEF PassInv
  <2>2. ASSUME NEW o \in owed'
        PROVE  /\ \E j \in DOMAIN handles' :
                     /\ handles'[j].id = o[1]
                     /\ o[2] \in EventsOf(handles[j])'
               /\ pc' \in {"handles", "handleCallback"} =>
                     cursor' # Sentinel /\ cursor' <= o[1]
    <3>1. PICK j \in DOMAIN handles :
              handles[j].id = o[1] /\ o[2] \in EventsOf(handles[j])
      BY <1>1 DEF PassInv
    <3>2. j \in DOMAIN handles' /\ handles'[j].id = o[1]
      BY <1>4, <1>5, <3>1
    <3>3. o[2] \in EventsOf(handles[j])'
      <4>1. handles[j].awaiting /\ <<handles[j].fd, o[2]>> \in ready
        BY <3>1 DEF EventsOf
      <4>2. o[2] \in handles'[j].interests
        BY <1>1, <1>3, <1>4, <3>1 DEF EventsOf
      <4>3. handles'[j].awaiting
        BY <1>3, <1>4, <4>1
      <4> QED
        BY <1>1, <1>5, <4>1, <4>2, <4>3 DEF EventsOf
    <3> QED
      BY <1>1, <3>2, <3>3 DEF PassInv
  <2>3. ASSUME pc' \in Served, NEW j \in DOMAIN handles', NEW e \in Event,
               handles'[j].awaiting, <<handles'[j].fd, e>> \in ready'
        PROVE  <<handles'[j].id, e>> \in reported'
    <3>1. handles[j].awaiting
      BY <1>3, <1>4, <2>3
    <3> QED
      BY <1>1, <1>4, <1>5, <2>3, <3>1 DEF PassInv
  <2> QED
    BY <2>1, <2>2, <2>3 DEF PassInv, Event, Sentinel, EventsOf
<1> QED
  BY <1>6, <1>7, <1>8, <1>9

\* A handle is deregistered: the cursor steps off it, and those behind it
\* keep their turns.
LEMMA FileHandleDeregisterStep ==
    ASSUME IndInv, NEW i \in 1 .. MaxHandles, FileHandleDeregister(i)
    PROVE  IndInv' /\ UNCHANGED <<ToSet(timers), serving, now>>
<1> USE DEF IndInv
<1>1. /\ ProgramRuns
      /\ i \in DOMAIN handles
      /\ cursor' = IF handles[i].id = cursor THEN IdAt(handles, i + 1)
                                             ELSE cursor
      /\ handles' = RemoveAt(handles, i)
      /\ owed' = {o \in owed : o[1] # handles[i].id}
      /\ UNCHANGED <<state, pc, timerVars, now, dueBy, reported, ready, call>>
  BY DEF FileHandleDeregister
<1>2. /\ Len(handles) \in Nat
      /\ DOMAIN handles = 1 .. Len(handles)
      /\ \A j \in DOMAIN handles : handles[j] \in Handle
      /\ \A j \in DOMAIN handles : handles[j].id \in 1 .. MaxHandles
  BY Lists DEF Handle
<1>3. /\ \A j, k \in DOMAIN handles : j < k => handles[j].id < handles[k].id
      /\ \A j, k \in DOMAIN handles : handles[j].fd = handles[k].fd => j = k
  BY DEF HandleListInv
<1>4. /\ handles' \in Seq(Handle)
      /\ DOMAIN handles' = 1 .. Len(handles) - 1
      /\ \A j \in 1 .. Len(handles) - 1 :
            handles'[j] = IF j < i THEN handles[j] ELSE handles[j + 1]
  <2>1. PICK s : s = handles
    OBVIOUS
  <2>2. s \in Seq(Handle) /\ i \in DOMAIN s
    BY <1>1, <2>1 DEF TypeOK
  <2>3. /\ RemoveAt(s, i) \in Seq(Handle)
        /\ DOMAIN RemoveAt(s, i) = 1 .. Len(s) - 1
        /\ \A j \in 1 .. Len(s) - 1 :
              RemoveAt(s, i)[j] = IF j < i THEN s[j] ELSE s[j + 1]
    BY <2>2, Removed
  <2>4. handles' = RemoveAt(s, i)
    BY <1>1, <2>1 DEF RemoveAt
  <2> QED
    BY <2>1, <2>3, <2>4
<1>5. ASSUME NEW j \in DOMAIN handles'
      PROVE  \E m \in DOMAIN handles :
                 handles'[j] = handles[m] /\ m = IF j < i THEN j ELSE j + 1
  <2>1. j \in DOMAIN handles /\ j + 1 \in DOMAIN handles
    BY <1>2, <1>4
  <2>2. CASE j < i
    BY <1>4, <2>1, <2>2
  <2>3. CASE ~(j < i)
    BY <1>4, <2>1, <2>3
  <2> QED
    BY <2>2, <2>3
<1>6. ASSUME NEW m \in DOMAIN handles, m # i
      PROVE  \E j \in DOMAIN handles' : handles'[j] = handles[m]
  <2>1. CASE m < i
    <3>1. m \in DOMAIN handles' /\ handles'[m] = handles[m]
      BY <1>1, <1>2, <1>4, <2>1
    <3> QED
      BY <3>1
  <2>2. CASE ~(m < i)
    <3>1. /\ m - 1 \in DOMAIN handles'
          /\ ~(m - 1 < i)
          /\ (m - 1) + 1 = m
      BY <1>1, <1>2, <1>4, <1>6, <2>2
    <3>2. handles'[m - 1] = handles[m]
      BY <1>4, <3>1
    <3> QED
      BY <3>1, <3>2
  <2> QED
    BY <2>1, <2>2
<1>7. \/ cursor' = cursor /\ cursor # handles[i].id
      \/ /\ cursor = handles[i].id
         /\ i + 1 \in DOMAIN handles
         /\ cursor' = handles[i + 1].id
      \/ /\ cursor = handles[i].id
         /\ i + 1 \notin DOMAIN handles
         /\ cursor' = Sentinel
  BY <1>1 DEF IdAt
<1>8. TypeOK'
  <2>1. cursor' \in 0 .. MaxHandles
    <3>1. \/ cursor' \in {cursor, Sentinel}
          \/ i + 1 \in DOMAIN handles /\ cursor' = handles[i + 1].id
      BY <1>7
    <3>2. CASE cursor' \in {cursor, Sentinel}
      BY <3>2, BoundsAssumption DEF TypeOK, Sentinel
    <3>3. CASE i + 1 \in DOMAIN handles /\ cursor' = handles[i + 1].id
      BY <1>2, <3>3
    <3> QED
      BY <3>1, <3>2, <3>3
  <2>2. owed' \subseteq reported'
    BY <1>1 DEF TypeOK
  <2> QED
    BY <1>1, <1>4, <2>1, <2>2 DEF TypeOK, timerVars
<1>9. TimerListInv' /\ ServingInv' /\ UNCHANGED <<ToSet(timers), serving, now>>
  BY <1>1, TimersKept
<1>10. HandleListInv'
  <2>1. ASSUME NEW j \in DOMAIN handles', NEW k \in DOMAIN handles'
        PROVE  /\ j < k => handles'[j].id < handles'[k].id
               /\ handles'[j].fd = handles'[k].fd => j = k
    <3>1. PICK m \in DOMAIN handles :
              handles'[j] = handles[m] /\ m = IF j < i THEN j ELSE j + 1
      BY <1>5
    <3>2. PICK n \in DOMAIN handles :
              handles'[k] = handles[n] /\ n = IF k < i THEN k ELSE k + 1
      BY <1>5
    <3>3. (m = n => j = k) /\ (j < k => m < n)
      BY <1>2, <1>4, <3>1, <3>2
    <3>4. j < k => handles'[j].id < handles'[k].id
      BY <1>3, <3>1, <3>2, <3>3
    <3>5. handles'[j].fd = handles'[k].fd => j = k
      BY <1>3, <3>1, <3>2, <3>3
    <3> QED
      BY <3>4, <3>5
  <2> QED
    BY <2>1 DEF HandleListInv
<1>11. CursorIsAlive'
  <2>1. CASE cursor' = Sentinel
    BY <2>1 DEF CursorIsAlive, Sentinel
  <2>2. CASE cursor' # Sentinel
    <3>1. PICK m \in DOMAIN handles : handles[m].id = cursor' /\ m # i
      <4>1. CASE cursor' = cursor /\ cursor # handles[i].id
        BY <2>2, <4>1 DEF CursorIsAlive, Ids, Sentinel
      <4>2. CASE i + 1 \in DOMAIN handles /\ cursor' = handles[i + 1].id
        BY <1>1, <1>2, <4>2
      <4> QED
        BY <1>7, <2>2, <4>1, <4>2
    <3> QED
      BY <1>6, <3>1 DEF CursorIsAlive, Ids
  <2> QED
    BY <2>1, <2>2
<1>12. PassInv'
  <2>1. pc' \notin Served => owed' = {}
    BY <1>1 DEF PassInv
  <2>2. ASSUME NEW o \in owed'
        PROVE  /\ \E j \in DOMAIN handles' :
                     /\ handles'[j].id = o[1]
                     /\ o[2] \in EventsOf(handles[j])'
               /\ pc' \in {"handles", "handleCallback"} =>
                     cursor' # Sentinel /\ cursor' <= o[1]
    <3>1. PICK m \in DOMAIN handles :
              /\ handles[m].id = o[1] /\ m # i
              /\ o[2] \in EventsOf(handles[m])
      BY <1>1 DEF PassInv
    <3>2. PICK j \in DOMAIN handles' : handles'[j] = handles[m]
      BY <1>6, <3>1
    <3>3. o[2] \in EventsOf(handles[j])'
      BY <1>1, <3>1, <3>2 DEF EventsOf
    <3>4. ASSUME pc' \in {"handles", "handleCallback"}
          PROVE  cursor' # Sentinel /\ cursor' <= o[1]
      <4>1. cursor # Sentinel /\ cursor <= o[1]
        BY <1>1, <3>4 DEF PassInv
      <4>2. CASE cursor = handles[i].id
        <5>1. i < m
          BY <1>1, <1>2, <1>3, <3>1, <4>1, <4>2
        <5>2. i + 1 \in DOMAIN handles /\ (i + 1 = m \/ i + 1 < m)
          BY <1>1, <1>2, <5>1
        <5>3. cursor' = handles[i + 1].id
          BY <1>7, <4>2, <5>2
        <5> QED
          BY <1>2, <1>3, <3>1, <5>2, <5>3 DEF Sentinel
      <4>3. CASE cursor # handles[i].id
        BY <1>7, <4>1, <4>3
      <4> QED
        BY <4>2, <4>3
    <3> QED
      BY <3>1, <3>2, <3>3, <3>4
  <2>3. ASSUME pc' \in Served, NEW j \in DOMAIN handles', NEW e \in Event,
               handles'[j].awaiting, <<handles'[j].fd, e>> \in ready'
        PROVE  <<handles'[j].id, e>> \in reported'
    <3>1. PICK m \in DOMAIN handles : handles'[j] = handles[m]
      BY <1>5
    <3> QED
      BY <1>1, <2>3, <3>1 DEF PassInv
  <2> QED
    BY <2>1, <2>2, <2>3 DEF PassInv, Event, Sentinel, EventsOf
<1> QED
  BY <1>8, <1>9, <1>10, <1>11, <1>12

\* The loop prepares the next select.
LEMMA PrepareStep ==
    ASSUME IndInv, Prepare
    PROVE  IndInv' /\ UNCHANGED <<ToSet(timers), serving, now>>
<1> USE DEF IndInv
<1>1. /\ pc = "prepare"
      /\ handles' = [i \in DOMAIN handles |->
                       [handles[i] EXCEPT !.awaiting =
                                              handles[i].interests # {}]]
      /\ pc' = "select"
      /\ UNCHANGED <<state, timerVars, now, dueBy, cursor,
                     reported, owed, ready, call>>
  BY DEF Prepare
<1>2. /\ Len(handles) \in Nat
      /\ DOMAIN handles = 1 .. Len(handles)
      /\ \A j \in DOMAIN handles : handles[j] \in Handle
  BY Lists
<1>3. ASSUME NEW i \in DOMAIN handles
      PROVE  /\ handles'[i] \in Handle
             /\ handles'[i].id = handles[i].id
             /\ handles'[i].fd = handles[i].fd
  <2>1. PICK h \in Handle : h = handles[i]
    BY <1>2
  <2>2. PICK b \in BOOLEAN : b = (handles[i].interests # {})
    OBVIOUS
  <2>3. /\ [h EXCEPT !.awaiting = b] \in Handle
        /\ [h EXCEPT !.awaiting = b].id = h.id
        /\ [h EXCEPT !.awaiting = b].fd = h.fd
    BY DEF Handle
  <2>4. handles'[i] = [h EXCEPT !.awaiting = b]
    BY <1>1, <2>1, <2>2
  <2> QED
    BY <2>1, <2>3, <2>4
<1>4. DOMAIN handles' = DOMAIN handles /\ handles' \in Seq(Handle)
  <2>1. DOMAIN handles' = 1 .. Len(handles)
    BY <1>1, <1>2
  <2>2. handles' = [i \in 1 .. Len(handles) |-> handles'[i]]
    BY <1>1, <1>2
  <2>3. handles' \in [1 .. Len(handles) -> Handle]
    BY <1>2, <1>3, <2>2
  <2>4. handles' \in Seq(Handle)
    BY <1>2, <2>3, SeqDef
  <2> QED
    BY <1>2, <2>1, <2>4
<1>5. TypeOK'
  BY <1>1, <1>4 DEF TypeOK, timerVars
<1>6. TimerListInv' /\ ServingInv' /\ UNCHANGED <<ToSet(timers), serving, now>>
  BY <1>1, TimersKept
<1>7. HandleListInv'
  <2>1. ASSUME NEW i \in DOMAIN handles', NEW j \in DOMAIN handles'
        PROVE  /\ i < j => handles'[i].id < handles'[j].id
               /\ handles'[i].fd = handles'[j].fd => i = j
    <3>1. i \in DOMAIN handles /\ j \in DOMAIN handles
      BY <1>1, <1>4
    <3>2. /\ handles'[i].id = handles[i].id /\ handles'[j].id = handles[j].id
          /\ handles'[i].fd = handles[i].fd /\ handles'[j].fd = handles[j].fd
      BY <1>3, <3>1
    <3> QED
      BY <3>1, <3>2 DEF HandleListInv
  <2> QED
    BY <2>1 DEF HandleListInv
<1>8. CursorIsAlive'
  BY <1>1, <1>3, <1>4 DEF CursorIsAlive, Ids, Sentinel
<1>9. PassInv'
  BY <1>1 DEF PassInv, Served
<1> QED
  BY <1>5, <1>6, <1>7, <1>8, <1>9

\* What select is asked for is asked for a handle, on its descriptor.
LEMMA AskedFor ==
    ASSUME TypeOK, HandleListInv, NEW o \in Asked
    PROVE  \E i \in DOMAIN handles : \E e \in handles[i].interests :
               /\ handles[i].awaiting
               /\ o = <<handles[i].id, e>>
               /\ AskedOf(o) = <<handles[i].fd, e>>
               /\ handles[i] \in Handle
               /\ e \in Event
<1>1. PICK i \in DOMAIN handles : \E e \in handles[i].interests :
          handles[i].awaiting /\ o = <<handles[i].id, e>>
  BY DEF Asked
<1>2. PICK e \in handles[i].interests :
          handles[i].awaiting /\ o = <<handles[i].id, e>>
  BY <1>1
<1>3. o[1] = handles[i].id /\ o[2] = e
  BY <1>2
<1>4. /\ IndexOf(handles, o[1]) \in DOMAIN handles
      /\ handles[IndexOf(handles, o[1])].id = o[1]
  <2>1. o[1] \in Ids(handles)
    BY <1>3 DEF Ids
  <2> QED
    BY <2>1, Found
<1>5. IndexOf(handles, o[1]) = i
  <2>1. /\ DOMAIN handles = 1 .. Len(handles)
        /\ Len(handles) \in Nat
        /\ \A j \in DOMAIN handles : handles[j].id \in Nat
    BY Lists DEF Handle
  <2> QED
    BY <1>3, <1>4, <2>1 DEF HandleListInv
<1>6. AskedOf(o) = <<handles[i].fd, e>>
  BY <1>3, <1>5 DEF AskedOf
<1>7. handles[i] \in Handle /\ e \in Event
  BY <1>2, Lists DEF Handle, Event
<1> QED
  BY <1>2, <1>6, <1>7

\* select returns: what it reports is what its handles are owed.
LEMMA SelectReturnsStep ==
    ASSUME IndInv, NEW R \in SUBSET Asked, SelectReturns(R)
    PROVE  IndInv' /\ UNCHANGED <<ToSet(timers), serving, now>>
<1> USE DEF IndInv
<1>1. /\ pc = "select"
      /\ ready' = {AskedOf(o) : o \in R}
      /\ reported' = R
      /\ owed' = R
      /\ dueBy' = now
      /\ pc' = "timers"
      /\ UNCHANGED <<state, timerVars, now, handles, cursor, call>>
  BY DEF SelectReturns
<1>2. TypeOK'
  <2>1. ready' \subseteq FD \X Event
    <3>1. ASSUME NEW o \in R
          PROVE  AskedOf(o) \in FD \X Event
      BY AskedFor DEF Handle
    <3> QED
      BY <1>1, <3>1
  <2>2. reported' \subseteq (1 .. MaxHandles) \X Event
    <3>1. ASSUME NEW o \in R
          PROVE  o \in (1 .. MaxHandles) \X Event
      BY AskedFor DEF Handle
    <3> QED
      BY <1>1, <3>1
  <2> QED
    BY <1>1, <2>1, <2>2 DEF TypeOK, timerVars
<1>3. TimerListInv' /\ ServingInv' /\ UNCHANGED <<ToSet(timers), serving, now>>
  BY <1>1, TimersKept
<1>4. HandleListInv' /\ CursorIsAlive'
  BY <1>1 DEF HandleListInv, CursorIsAlive, Ids, Sentinel
<1>5. PassInv'
  <2>1. ASSUME NEW o \in owed'
        PROVE  \E i \in DOMAIN handles' :
                   handles'[i].id = o[1] /\ o[2] \in EventsOf(handles[i])'
    <3>1. o \in R
      BY <1>1
    <3>2. PICK i \in DOMAIN handles : \E e \in handles[i].interests :
              /\ handles[i].awaiting
              /\ o = <<handles[i].id, e>>
              /\ AskedOf(o) = <<handles[i].fd, e>>
      BY <3>1, AskedFor
    <3>3. /\ o[1] = handles[i].id
          /\ o[2] \in handles[i].interests
          /\ <<handles[i].fd, o[2]>> \in ready'
      BY <1>1, <3>1, <3>2
    <3> QED
      BY <1>1, <3>2, <3>3 DEF EventsOf
  <2>2. ASSUME NEW i \in DOMAIN handles', NEW e \in Event,
               <<handles'[i].fd, e>> \in ready'
        PROVE  <<handles'[i].id, e>> \in reported'
    <3>1. PICK o \in R : AskedOf(o) = <<handles[i].fd, e>>
      BY <1>1, <2>2
    <3>2. PICK j \in DOMAIN handles : \E x \in handles[j].interests :
              /\ o = <<handles[j].id, x>>
              /\ AskedOf(o) = <<handles[j].fd, x>>
      BY AskedFor
    <3>3. PICK x \in handles[j].interests :
              /\ o = <<handles[j].id, x>>
              /\ AskedOf(o) = <<handles[j].fd, x>>
      BY <3>2
    <3>4. handles[j].fd = handles[i].fd /\ x = e
      BY <3>1, <3>3
    <3>5. j = i
      BY <1>1, <3>4 DEF HandleListInv
    <3> QED
      BY <1>1, <3>3, <3>4, <3>5
  <2>3. pc' \in Served /\ pc' \notin {"handles", "handleCallback"}
    BY <1>1 DEF Served
  <2> QED
    BY <2>1, <2>2, <2>3 DEF PassInv, Event, Sentinel, EventsOf
<1> QED
  BY <1>2, <1>3, <1>4, <1>5

\* The pass over the handles starts with the first.
LEMMA TimersDoneStep ==
    ASSUME IndInv, TimersDone
    PROVE  IndInv' /\ UNCHANGED <<ToSet(timers), serving, now>>
<1> USE DEF IndInv
<1>1. /\ pc = "timers"
      /\ cursor' = IdAt(handles, 1)
      /\ pc' = "handles"
      /\ UNCHANGED <<state, timerVars, now, dueBy, handles, ready,
                     call, reported, owed>>
  BY DEF TimersDone
<1>2. /\ Len(handles) \in Nat
      /\ DOMAIN handles = 1 .. Len(handles)
      /\ \A i \in DOMAIN handles : handles[i].id \in 1 .. MaxHandles
  BY Lists DEF Handle
<1>3. \/ 1 \in DOMAIN handles /\ cursor' = handles[1].id
      \/ 1 \notin DOMAIN handles /\ cursor' = Sentinel
  BY <1>1 DEF IdAt
<1>4. TypeOK'
  <2>1. CASE cursor' = Sentinel
    BY <1>1, <2>1, BoundsAssumption DEF TypeOK, timerVars, Sentinel
  <2>2. CASE 1 \in DOMAIN handles /\ cursor' = handles[1].id
    <3>1. cursor' \in 0 .. MaxHandles
      BY <1>2, <2>2
    <3> QED
      BY <1>1, <3>1 DEF TypeOK, timerVars
  <2> QED
    BY <1>3, <2>1, <2>2
<1>5. TimerListInv' /\ ServingInv' /\ UNCHANGED <<ToSet(timers), serving, now>>
  BY <1>1, TimersKept
<1>6. HandleListInv' /\ CursorIsAlive'
  BY <1>1, <1>3 DEF HandleListInv, CursorIsAlive, Ids, Sentinel
<1>7. PassInv'
  <2>1. ASSUME NEW o \in owed
        PROVE  cursor' # Sentinel /\ cursor' <= o[1]
    <3>1. PICK i \in DOMAIN handles : handles[i].id = o[1]
      BY DEF PassInv
    <3>2. 1 \in DOMAIN handles /\ (i = 1 \/ 1 < i)
      BY <1>2
    <3>3. handles[1].id <= handles[i].id
      BY <1>2, <3>2 DEF HandleListInv
    <3> QED
      BY <1>2, <1>3, <3>1, <3>2, <3>3 DEF Sentinel
  <2> QED
    BY <1>1, <2>1 DEF PassInv, Served, EventsOf, Event, Sentinel
<1> QED
  BY <1>4, <1>5, <1>6, <1>7

\* One handle of the pass: what it is owed is in its call, and the cursor
\* is on the next before the callback runs.
LEMMA ProcessHandleStep ==
    ASSUME IndInv, ProcessHandle
    PROVE  /\ IndInv' /\ UNCHANGED <<ToSet(timers), serving, now>>
           /\ call' # call =>
                 \A e \in call'.events : <<call'.id, e>> \in reported
<1> DEFINE i == IndexOf(handles, cursor)
           g == handles[i]
           h == [g EXCEPT !.awaiting = FALSE]
           events == EventsOf(g)
<1> USE DEF IndInv
<1>1. /\ pc = "handles"
      /\ cursor # Sentinel
      /\ cursor' = IdAt(handles, i + 1)
      /\ handles' = [handles EXCEPT ![i] = h]
      /\ UNCHANGED <<state, timerVars, now, dueBy, ready>>
  BY DEF ProcessHandle
<1>2. \/ events = {} /\ UNCHANGED <<pc, call, reported, owed>>
      \/ /\ events # {}
         /\ pc' = "handleCallback"
         /\ call' = [id |-> g.id, events |-> events]
         /\ reported' = {o \in reported : o[1] # g.id}
         /\ owed' = {o \in owed : o[1] # g.id}
  BY DEF ProcessHandle
<1>3. i \in DOMAIN handles /\ g.id = cursor
  <2>1. cursor \in Ids(handles)
    BY <1>1 DEF CursorIsAlive
  <2> QED
    BY <2>1, Found
<1>4. /\ Len(handles) \in Nat
      /\ DOMAIN handles = 1 .. Len(handles)
      /\ \A j \in DOMAIN handles : handles[j] \in Handle
      /\ \A j \in DOMAIN handles : handles[j].id \in 1 .. MaxHandles
  BY Lists DEF Handle
<1>5. /\ h \in Handle
      /\ h.id = g.id
      /\ h.fd = g.fd
      /\ h.awaiting = FALSE
  <2>1. PICK x \in Handle : x = g
    BY <1>3, <1>4
  <2>2. [x EXCEPT !.awaiting = FALSE] \in Handle
    BY DEF Handle
  <2> QED
    BY <2>1, <2>2 DEF Handle
<1>6. events = {e \in events : /\ g.awaiting
                               /\ e \in g.interests
                               /\ <<g.fd, e>> \in ready}
  BY DEF EventsOf
<1>7. events \subseteq Event
  BY <1>3, <1>4, <1>6 DEF Handle, Event
<1>8. \A e \in events : <<g.id, e>> \in reported
  <2>1. pc \in Served
    BY <1>1 DEF Served
  <2> QED
    BY <1>3, <1>6, <1>7, <2>1 DEF PassInv
<1>9. \A o \in owed : o[1] = g.id => o[2] \in events
  <2>1. ASSUME NEW o \in owed, o[1] = g.id
        PROVE  o[2] \in events
    <3>1. PICK j \in DOMAIN handles :
              handles[j].id = o[1] /\ o[2] \in EventsOf(handles[j])
      BY DEF PassInv
    <3>2. j = i
      BY <1>3, <1>4, <2>1, <3>1 DEF HandleListInv
    <3> QED
      BY <3>1, <3>2
  <2> QED
    BY <2>1
<1> HIDE DEF events
<1>10. /\ owed' = {o \in owed : o[1] # g.id}
       /\ reported' \subseteq reported
       /\ \A o \in reported : o[1] # g.id => o \in reported'
       /\ pc' \in {"handles", "handleCallback"}
       /\ owed' \subseteq reported'
  <2>1. CASE events = {} /\ UNCHANGED <<pc, call, reported, owed>>
    BY <1>1, <1>9, <2>1 DEF TypeOK
  <2>2. CASE /\ pc' = "handleCallback"
             /\ reported' = {o \in reported : o[1] # g.id}
             /\ owed' = {o \in owed : o[1] # g.id}
    BY <2>2 DEF TypeOK
  <2> QED
    BY <1>2, <2>1, <2>2
<1> HIDE DEF i, g, h
<1>11. /\ handles' \in Seq(Handle)
       /\ DOMAIN handles' = DOMAIN handles
       /\ \A j \in DOMAIN handles :
             handles'[j] = IF j = i THEN h ELSE handles[j]
  <2>1. handles \in Seq(Handle)
    BY DEF TypeOK
  <2>2. PICK s, k, x : s = handles /\ k = i /\ x = h
    OBVIOUS
  <2>3. s \in Seq(Handle) /\ k \in 1 .. Len(s) /\ x \in Handle
    BY <1>3, <1>4, <1>5, <2>1, <2>2
  <2>4. /\ [s EXCEPT ![k] = x] \in Seq(Handle)
        /\ \A j \in 1 .. Len(s) :
              [s EXCEPT ![k] = x][j] = IF j = k THEN x ELSE s[j]
    BY <2>3, ExceptSeq
  <2>5. handles' = [s EXCEPT ![k] = x] /\ DOMAIN handles' = DOMAIN handles
    BY <1>1, <2>2
  <2> QED
    BY <1>4, <2>2, <2>4, <2>5
<1>12. g = handles[i]
  BY DEF g
<1>13. \A j \in DOMAIN handles :
           handles'[j].id = handles[j].id /\ handles'[j].fd = handles[j].fd
  BY <1>5, <1>11, <1>12
<1>14. \/ i + 1 \in DOMAIN handles /\ cursor' = handles[i + 1].id
       \/ i + 1 \notin DOMAIN handles /\ cursor' = Sentinel
  BY <1>1 DEF IdAt
<1>15. cursor' \in 0 .. MaxHandles
  <2>1. CASE cursor' = Sentinel
    BY <2>1, BoundsAssumption DEF Sentinel
  <2>2. CASE i + 1 \in DOMAIN handles /\ cursor' = handles[i + 1].id
    BY <1>4, <2>2
  <2> QED
    BY <1>14, <2>1, <2>2
<1>16. TypeOK'
  <2>1. call' \in [id : 1 .. MaxHandles, events : SUBSET Event] \cup {NoCall}
    <3>1. g.id \in 1 .. MaxHandles
      BY <1>3, <1>4, <1>12
    <3> QED
      BY <1>2, <1>7, <3>1 DEF TypeOK
  <2>2. reported' \subseteq (1 .. MaxHandles) \X Event
    BY <1>10 DEF TypeOK
  <2>3. pc' \in {"out", "prepare", "select", "timers", "timerCallback",
                 "handles", "handleCallback", "check"}
    BY <1>10
  <2> QED
    BY <1>1, <1>10, <1>11, <1>15, <2>1, <2>2, <2>3 DEF TypeOK, timerVars
<1>17. TimerListInv' /\ ServingInv' /\ UNCHANGED <<ToSet(timers), serving, now>>
  BY <1>1, <1>10, TimersKept
<1>18. HandleListInv'
  BY <1>1, <1>11, <1>13 DEF HandleListInv
<1>19. CursorIsAlive'
  <2>1. CASE cursor' = Sentinel
    BY <2>1 DEF CursorIsAlive, Sentinel
  <2>2. CASE i + 1 \in DOMAIN handles /\ cursor' = handles[i + 1].id
    BY <1>11, <1>13, <2>2 DEF CursorIsAlive, Ids
  <2> QED
    BY <1>14, <2>1, <2>2
<1>20. PassInv'
  <2>1. pc' \in Served
    BY <1>10 DEF Served
  <2>2. ASSUME NEW o \in owed'
        PROVE  /\ \E j \in DOMAIN handles' :
                     /\ handles'[j].id = o[1]
                     /\ o[2] \in EventsOf(handles[j])'
               /\ cursor' # Sentinel /\ cursor' <= o[1]
    <3>1. o \in owed /\ o[1] # g.id
      BY <1>10
    <3>2. PICK j \in DOMAIN handles :
              handles[j].id = o[1] /\ o[2] \in EventsOf(handles[j])
      BY <3>1 DEF PassInv
    <3>3. j # i
      BY <1>12, <3>1, <3>2
    <3>4. j \in DOMAIN handles' /\ handles'[j] = handles[j]
      BY <1>11, <3>3
    <3>5. o[2] \in EventsOf(handles[j])'
      BY <1>1, <3>2, <3>4 DEF EventsOf
    <3>6. cursor <= o[1]
      BY <1>1, <3>1 DEF PassInv
    <3>7. i < j
      BY <1>3, <1>4, <1>12, <3>2, <3>3, <3>6 DEF HandleListInv
    <3>8. i + 1 \in DOMAIN handles /\ (i + 1 = j \/ i + 1 < j)
      BY <1>3, <1>4, <3>7
    <3>9. cursor' = handles[i + 1].id
      BY <1>14, <3>8
    <3>10. handles[i + 1].id <= handles[j].id
      BY <1>4, <3>8 DEF HandleListInv
    <3> QED
      BY <1>4, <3>2, <3>4, <3>5, <3>8, <3>9, <3>10 DEF Sentinel
  <2>3. ASSUME NEW j \in DOMAIN handles', NEW e \in Event,
               handles'[j].awaiting, <<handles'[j].fd, e>> \in ready'
        PROVE  <<handles'[j].id, e>> \in reported'
    <3>1. j # i /\ handles'[j] = handles[j]
      BY <1>5, <1>11, <2>3
    <3>2. <<handles[j].id, e>> \in reported
      <4>1. pc \in Served
        BY <1>1 DEF Served
      <4> QED
        BY <1>1, <1>11, <2>3, <3>1, <4>1 DEF PassInv
    <3>3. handles[j].id # g.id
      BY <1>3, <1>4, <1>11, <1>12, <3>1 DEF HandleListInv
    <3> QED
      BY <1>10, <3>1, <3>2, <3>3
  <2> QED
    BY <2>1, <2>2, <2>3 DEF PassInv, Event, Sentinel, EventsOf
<1>21. ASSUME call' # call, NEW e \in call'.events
       PROVE  <<call'.id, e>> \in reported
  BY <1>2, <1>8, <1>21
<1> QED
  BY <1>16, <1>17, <1>18, <1>19, <1>20, <1>21

\* The steps that only move the loop, or return from a handle's callback.
LEMMA LoopMoves ==
    ASSUME IndInv, Stop \/ Run \/ SelectInterrupted \/ HandleReturns
                        \/ HandlesDone
    PROVE  IndInv' /\ UNCHANGED <<ToSet(timers), serving, now>>
<1> USE DEF IndInv
<1>1. UNCHANGED <<timerVars, now, dueBy, handleVars, ready>>
  BY DEF Stop, Run, SelectInterrupted, HandleReturns, HandlesDone
<1>2. \/ pc' = pc
      \/ pc = "out" /\ pc' = "prepare"
      \/ pc = "select" /\ pc' = "check"
      \/ pc = "handleCallback" /\ pc' = "handles"
      \/ pc = "handles" /\ pc' = "check" /\ cursor = Sentinel
  BY DEF Stop, Run, SelectInterrupted, HandleReturns, HandlesDone
<1>3. TypeOK'
  <2>1. /\ state' \in {"Idle", "Running", "Stopping"}
        /\ call' \in {call, NoCall}
    BY DEF Stop, Run, SelectInterrupted, HandleReturns, HandlesDone, TypeOK
  <2>2. call' \in [id : 1 .. MaxHandles, events : SUBSET Event] \cup {NoCall}
    BY <2>1 DEF TypeOK
  <2>3. pc' \in {"out", "prepare", "select", "timers", "timerCallback",
                 "handles", "handleCallback", "check"}
    BY <1>2 DEF TypeOK
  <2> QED
    BY <1>1, <2>1, <2>2, <2>3 DEF TypeOK, timerVars, handleVars
<1>4. TimerListInv' /\ ServingInv' /\ UNCHANGED <<ToSet(timers), serving, now>>
  BY <1>1, <1>2, TimersKept
<1>5. HandleListInv' /\ CursorIsAlive' /\ PassInv'
  <2>1. pc' \notin Served => owed = {}
    BY <1>2 DEF PassInv, Served
  <2>2. /\ pc' \in Served => pc \in Served
        /\ pc' \in {"handles", "handleCallback"} =>
               pc \in {"handles", "handleCallback"}
    BY <1>2 DEF Served
  <2> QED
    BY <1>1, <2>1, <2>2, PassKept
<1> QED
  BY <1>3, <1>4, <1>5

\* The loop goes round, or ends.
LEMMA CheckStep ==
    ASSUME IndInv, Check
    PROVE  IndInv' /\ UNCHANGED <<ToSet(timers), serving, now>>
<1> USE DEF IndInv
<1>1. /\ pc = "check"
      /\ \/ pc' = "prepare" /\ state' = state
         \/ pc' = "out" /\ state' = "Idle"
      /\ ready' = {}
      /\ reported' = {}
      /\ owed' = {}
      /\ UNCHANGED <<timerVars, now, dueBy, handles, cursor, call>>
  BY DEF Check
<1>2. TypeOK'
  BY <1>1 DEF TypeOK, timerVars
<1>3. TimerListInv' /\ ServingInv' /\ UNCHANGED <<ToSet(timers), serving, now>>
  BY <1>1, TimersKept
<1>4. HandleListInv' /\ CursorIsAlive'
  BY <1>1 DEF HandleListInv, CursorIsAlive, Ids, Sentinel
<1>5. PassInv'
  BY <1>1 DEF PassInv, Served
<1> QED
  BY <1>2, <1>3, <1>4, <1>5

-----------------------------------------------------------------------------

\* A loop that was just created.
LEMMA Initially == ASSUME Init PROVE IndInv /\ Service!Init
<1>1. TypeOK
  BY BoundsAssumption DEF Init, TypeOK, Sentinel
<1>2. TimerListInv /\ HandleListInv
  BY DEF Init, TimerListInv, HandleListInv
<1>3. ServingInv /\ CursorIsAlive /\ PassInv
  BY DEF Init, ServingInv, CursorIsAlive, PassInv, Served
<1>4. Service!Init
  BY DEF Init, Service!Init, ToSet
<1> QED
  BY <1>1, <1>2, <1>3, <1>4 DEF IndInv

\* Every step keeps the invariant, is one of the service or leaves its
\* timers alone, and only a handle of the pass is called.
LEMMA Step ==
    ASSUME IndInv, [Next]_vars
    PROVE  /\ IndInv'
           /\ [Service!Next]_<<ToSet(timers), serving, now>>
           /\ call' # call /\ call' # NoCall =>
                 \A e \in call'.events : <<call'.id, e>> \in reported
<1>1. CASE Program
  <2>1. CASE \E d \in 0 .. MaxTime : TimerRegister(d)
    BY <2>1, TimerRegisterStep DEF TimerRegister, Service!Next
  <2>2. CASE \E i \in 1 .. MaxTimers : TimerDeregister(i)
    BY <2>2, TimerDeregisterStep DEF TimerDeregister, Service!Next
  <2>3. CASE \E fd \in FD, I \in Interests : FileHandleRegister(fd, I)
    BY <2>3, FileHandleRegisterStep DEF FileHandleRegister
  <2>4. CASE \E i \in 1 .. MaxHandles, I \in Interests :
                FileHandleUpdateInterests(i, I)
    BY <2>4, FileHandleUpdateInterestsStep DEF FileHandleUpdateInterests
  <2>5. CASE \E i \in 1 .. MaxHandles : FileHandleDeregister(i)
    BY <2>5, FileHandleDeregisterStep DEF FileHandleDeregister
  <2>6. CASE Stop \/ Run
    BY <2>6, LoopMoves DEF Stop, Run
  <2> QED
    BY <1>1, <2>1, <2>2, <2>3, <2>4, <2>5, <2>6 DEF Program
<1>2. CASE CallbackReturns
  <2>1. CASE TimerReturns
    BY <2>1, TimerReturnsStep DEF TimerReturns, Service!Next
  <2>2. CASE HandleReturns
    BY <2>2, LoopMoves DEF HandleReturns
  <2> QED
    BY <1>2, <2>1, <2>2 DEF CallbackReturns
<1>3. CASE Loop
  <2>1. CASE Prepare
    BY <2>1, PrepareStep DEF Prepare
  <2>2. CASE ServeTimer
    BY <2>2, ServeTimerStep DEF ServeTimer, Service!Next
  <2>3. CASE TimersDone
    BY <2>3, TimersDoneStep DEF TimersDone
  <2>4. CASE ProcessHandle
    BY <2>4, ProcessHandleStep
  <2>5. CASE HandlesDone
    BY <2>5, LoopMoves DEF HandlesDone
  <2>6. CASE Check
    BY <2>6, CheckStep DEF Check
  <2> QED
    BY <1>3, <2>1, <2>2, <2>3, <2>4, <2>5, <2>6 DEF Loop
<1>4. CASE Select
  BY <1>4, SelectReturnsStep DEF Select, SelectReturns
<1>5. CASE SelectInterrupted
  BY <1>5, LoopMoves DEF SelectInterrupted
<1>6. CASE Tick
  BY <1>6, TickStep DEF Tick, Service!Next
<1>7. CASE UNCHANGED vars
  <2>1. UNCHANGED <<state, pc, timerVars, now, dueBy, handleVars, ready, call>>
    BY <1>7 DEF vars
  <2>2. TypeOK'
    BY <2>1 DEF IndInv, TypeOK, timerVars, handleVars
  <2>3. /\ TimerListInv' /\ ServingInv'
        /\ UNCHANGED <<ToSet(timers), serving, now>>
    BY <2>1, TimersKept
  <2>4. HandleListInv' /\ CursorIsAlive' /\ PassInv'
    BY <2>1, PassKept DEF IndInv, PassInv
  <2> QED
    BY <2>1, <2>2, <2>3, <2>4 DEF IndInv
<1> QED
  BY <1>1, <1>2, <1>3, <1>4, <1>5, <1>6, <1>7 DEF Next

\* The inductive invariant of the loop.
LEMMA Invariance == Spec => []IndInv
<1>1. Init => IndInv
  BY Initially
<1>2. IndInv /\ [Next]_vars => IndInv'
  BY Step
<1> QED
  BY <1>1, <1>2, PTL DEF Spec

\* Every variable has its type: a deadline in the list is never 0, which
\* HAPPlatformRunLoopRun takes for none.
THEOREM Typing == Spec => []TypeOK
<1>1. IndInv => TypeOK
  BY DEF IndInv
<1> QED
  BY <1>1, Invariance, PTL

\* HAPPlatformFileHandleDeregister may take any handle out in a callback:
\* ProcessSelectedFileHandles follows no handle that is gone, and skips none
\* that was reported and is still wanted.
THEOREM PassesAreSound == Spec => []PassIsSound
<1>1. IndInv => PassIsSound
  BY DEF IndInv, PassIsSound, NoneSkipped, PassInv, Served
<1> QED
  BY <1>1, Invariance, PTL

\* A handle is called for what select reported of it, and not for what was
\* ready on its descriptor when that belonged to another handle.
THEOREM CallsAreReported == Spec => OnlyReported
<1>1. IndInv /\ [Next]_vars =>
          [call' # call /\ call' # NoCall =>
              \A e \in call'.events : <<call'.id, e>> \in reported]_vars
  BY Step
<1> QED
  BY <1>1, Invariance, PTL DEF Spec, OnlyReported

\* The list kept by HAPPlatformTimerRegister, HAPPlatformTimerDeregister and
\* ProcessExpiredTimers is the service of HAPPlatformTimer.h: a timer is
\* served once, not before its deadline, in the order of the deadlines and
\* of the registrations.
THEOREM TimersAreServed == Spec => ImplementsTimerService
<1>1. Init => Service!Init
  BY Initially
<1>2. IndInv /\ [Next]_vars =>
          [Service!Next]_<<ToSet(timers), serving, now>>
  BY Step
<1> QED
  BY <1>1, <1>2, Invariance, PTL
     DEF Spec, ImplementsTimerService, Service!Spec

-----------------------------------------------------------------------------
(* The self-pipe, which the run loop reads for the callbacks that other     *)
(* threads schedule. It shares no state with the loop but the loop itself, *)
(* so it is proved about next to it.                                       *)

-----------------------------------------------------------------------------
(* Sequences.                                                              *)

\* What is left of a sequence when its first part is dropped.
LEMMA DropType ==
    ASSUME NEW S, NEW s \in Seq(S), NEW n \in 0 .. Len(s)
    PROVE  /\ SubSeq(s, n + 1, Len(s)) \in Seq(S)
           /\ Len(SubSeq(s, n + 1, Len(s))) = Len(s) - n
           /\ \A k \in 1 .. Len(s) - n : SubSeq(s, n + 1, Len(s))[k] = s[n + k]
           /\ SubSeq(s, 1, n) \in Seq(S) /\ Len(SubSeq(s, 1, n)) = n
<1>1. Len(s) \in Nat /\ n \in Nat /\ n <= Len(s)
  BY LenProperties
<1>2. /\ SubSeq(s, n + 1, Len(s)) \in Seq(S)
      /\ Len(SubSeq(s, n + 1, Len(s))) = Len(s) - n
      /\ \A k \in 1 .. Len(s) - n : SubSeq(s, n + 1, Len(s))[k] = s[n + k]
  <2>1. \A i \in n + 1 .. Len(s) : s[i] \in S
    BY <1>1, ElementOfSeq
  <2> QED
    BY <1>1, <2>1, SubSeqProperties
<1>3. SubSeq(s, 1, n) \in Seq(S) /\ Len(SubSeq(s, 1, n)) = n
  <2>1. \A k \in 1 .. n : s[k] \in S
    BY <1>1, ElementOfSeq
  <2> QED
    BY <1>1, <2>1, SubSeqProperties
<1> QED
  BY <1>2, <1>3

\* Dropping a part of the first of two sequences drops it of both.
LEMMA DropOfConcat ==
    ASSUME NEW S, NEW s \in Seq(S), NEW t \in Seq(S), NEW n \in 0 .. Len(s)
    PROVE  SubSeq(s, n + 1, Len(s)) \o t = SubSeq(s \o t, n + 1, Len(s \o t))
<1> DEFINE d == SubSeq(s, n + 1, Len(s))
           u == s \o t
           e == SubSeq(u, n + 1, Len(u))
<1>0. Len(s) \in Nat /\ Len(t) \in Nat /\ n \in Nat /\ n <= Len(s)
  BY LenProperties
<1>1. /\ d \in Seq(S) /\ Len(d) = Len(s) - n
      /\ \A k \in 1 .. Len(s) - n : d[k] = s[n + k]
  BY DropType
<1>2. /\ u \in Seq(S) /\ Len(u) = Len(s) + Len(t)
      /\ \A i \in 1 .. Len(s) + Len(t) :
            u[i] = IF i <= Len(s) THEN s[i] ELSE t[i - Len(s)]
  BY ConcatProperties
<1> HIDE DEF u
<1>3. /\ e \in Seq(S) /\ Len(e) = Len(u) - n
      /\ \A k \in 1 .. Len(u) - n : e[k] = u[n + k]
  <2>1. n \in 0 .. Len(u)
    BY <1>0, <1>2
  <2> QED
    BY <1>2, <2>1, DropType
<1> HIDE DEF d, e
<1>4. /\ d \o t \in Seq(S) /\ Len(d \o t) = Len(d) + Len(t)
      /\ \A i \in 1 .. Len(d) + Len(t) :
            (d \o t)[i] = IF i <= Len(d) THEN d[i] ELSE t[i - Len(d)]
  BY <1>1, ConcatProperties
<1>5. Len(d \o t) = Len(e) /\ Len(e) = Len(s) - n + Len(t)
  BY <1>0, <1>1, <1>2, <1>3, <1>4
<1>6. ASSUME NEW i \in 1 .. Len(e) PROVE (d \o t)[i] = e[i]
  <2>1. i \in Nat /\ i >= 1 /\ i <= Len(s) - n + Len(t)
    BY <1>0, <1>5
  <2>2. e[i] = u[n + i]
    BY <1>0, <1>2, <1>3, <2>1
  <2>3. CASE i <= Len(s) - n
    <3>1. (d \o t)[i] = s[n + i]
      BY <1>0, <1>1, <1>4, <2>1, <2>3
    <3>2. u[n + i] = s[n + i]
      BY <1>0, <1>2, <2>1, <2>3
    <3> QED
      BY <2>2, <3>1, <3>2
  <2>4. CASE i > Len(s) - n
    <3>1. (d \o t)[i] = t[i - (Len(s) - n)]
      BY <1>0, <1>1, <1>4, <2>1, <2>4
    <3>2. u[n + i] = t[n + i - Len(s)]
      BY <1>0, <1>2, <2>1, <2>4
    <3>3. i - (Len(s) - n) = n + i - Len(s)
      BY <1>0, <2>1
    <3> QED
      BY <2>2, <3>1, <3>2, <3>3
  <2>5. i <= Len(s) - n \/ i > Len(s) - n
    BY <1>0, <2>1
  <2> QED
    BY <2>3, <2>4, <2>5
<1>7. d \o t = e
  BY <1>3, <1>4, <1>5, <1>6, SeqEqual
<1> QED
  BY <1>7 DEF d, e, u

\* Dropping twice.
LEMMA DropOfDrop ==
    ASSUME NEW S, NEW s \in Seq(S), NEW m \in Nat, NEW n \in Nat,
           m + n <= Len(s)
    PROVE  SubSeq(SubSeq(s, m + 1, Len(s)), n + 1, Len(s) - m) =
           SubSeq(s, m + n + 1, Len(s))
<1> DEFINE d == SubSeq(s, m + 1, Len(s))
<1>0. Len(s) \in Nat
  BY LenProperties
<1>1. /\ d \in Seq(S) /\ Len(d) = Len(s) - m
      /\ \A k \in 1 .. Len(s) - m : d[k] = s[m + k]
  BY <1>0, DropType
<1> HIDE DEF d
<1>2. /\ SubSeq(d, n + 1, Len(d)) \in Seq(S)
      /\ Len(SubSeq(d, n + 1, Len(d))) = Len(d) - n
      /\ \A k \in 1 .. Len(d) - n : SubSeq(d, n + 1, Len(d))[k] = d[n + k]
  <2>1. n \in 0 .. Len(d)
    BY <1>0, <1>1
  <2> QED
    BY <1>1, <2>1, DropType
<1>3. /\ SubSeq(s, m + n + 1, Len(s)) \in Seq(S)
      /\ Len(SubSeq(s, m + n + 1, Len(s))) = Len(s) - (m + n)
      /\ \A k \in 1 .. Len(s) - (m + n) :
            SubSeq(s, m + n + 1, Len(s))[k] = s[m + n + k]
  BY <1>0, DropType
<1>4. SubSeq(d, n + 1, Len(d)) = SubSeq(s, m + n + 1, Len(s))
  BY <1>0, <1>1, <1>2, <1>3, SeqEqual
<1> QED
  BY <1>1, <1>4 DEF d

\* The places behind the first a of l.
LEMMA Places ==
    ASSUME NEW a \in Nat, NEW b \in Nat, NEW l \in Nat, a + b <= l
    PROVE  \A k \in 1 .. b : a + k \in 1 .. l
OBVIOUS

\* The same places, counted from the m-th on.
LEMMA PlacesBehind ==
    ASSUME NEW a \in Nat, NEW b \in Nat, NEW l \in Nat, a + b <= l,
           NEW m \in Nat, m <= a, NEW k \in 1 .. b
    PROVE  a - m + k \in 1 .. l - m /\ m + (a - m + k) = a + k
OBVIOUS

-----------------------------------------------------------------------------
(* Frames *)

\* A frame is two bytes of header and the context.
LEMMA FrameType ==
    ASSUME NEW i \in 1 .. MaxCalls, NEW n \in Sizes
    PROVE  /\ n \in 0 .. UINT8_MAX
           /\ Context(i, n) \in Seq(Byte)
           /\ Len(Context(i, n)) = n
           /\ Frame(i, n) \in Seq(Byte)
           /\ Len(Frame(i, n)) = HeaderSize + n
           /\ Frame(i, n)[1] = [call |-> i, place |-> "pointer"]
           /\ Frame(i, n)[HeaderSize] =
                 [call |-> i, place |-> "size", size |-> n]
           /\ \A k \in 1 .. n :
                 Frame(i, n)[HeaderSize + k] = Context(i, n)[k]
<1> DEFINE h == <<[call |-> i, place |-> "pointer"],
                  [call |-> i, place |-> "size", size |-> n]>>
           c == Context(i, n)
<1>1. n \in 0 .. UINT8_MAX /\ n \in Nat
  BY SelfPipeAssumption
<1>2. c \in Seq(Byte) /\ Len(c) = n
  <2>1. \A k \in 1 .. n :
           [call |-> i, place |-> "context", index |-> k] \in Byte
    <3>1. \A k \in 1 .. n : k \in 1 .. UINT8_MAX
      BY <1>1, SelfPipeAssumption
    <3> QED
      BY <3>1 DEF Byte
  <2> QED
    BY <1>1, <2>1 DEF Context
<1>3. /\ h \in Seq(Byte) /\ Len(h) = 2
      /\ h[1] = [call |-> i, place |-> "pointer"]
      /\ h[2] = [call |-> i, place |-> "size", size |-> n]
  <2>1. /\ [call |-> i, place |-> "pointer"] \in Byte
        /\ [call |-> i, place |-> "size", size |-> n] \in Byte
    BY DEF Byte
  <2> QED
    BY <2>1
<1>4. Frame(i, n) = h \o c
  BY DEF Frame
<1> HIDE DEF h, c
<1>5. /\ h \o c \in Seq(Byte) /\ Len(h \o c) = Len(h) + Len(c)
      /\ \A k \in 1 .. Len(h) + Len(c) :
            (h \o c)[k] = IF k <= Len(h) THEN h[k] ELSE c[k - Len(h)]
  BY <1>2, <1>3, ConcatProperties
<1> QED
  BY <1>1, <1>2, <1>3, <1>4, <1>5 DEF HeaderSize, c

\* No byte holds no frame, and no frames are no bytes.
LEMMA FramesNone ==
    AreFrames(<<>>, <<>>) /\ AreCalls(<<>>)
<1> DEFINE end == [i \in 0 .. 0 |-> 0]
<1>1. Len(<<>>) = 0
  OBVIOUS
<1>2. end \in [0 .. 0 -> Nat] /\ \A i \in 0 .. 0 : end[i] = 0
  OBVIOUS
<1> HIDE DEF end
<1>3. \A i, j \in 0 .. 0 : i <= j => end[i] <= end[j]
  BY <1>2
<1>4. end[0] = 0 /\ \A i : i \notin 1 .. 0
  BY <1>2
<1> QED
  BY <1>1, <1>2, <1>3, <1>4 DEF AreFrames, AreCalls

\* A call and its frame are appended.
LEMMA FramesAppend ==
    ASSUME NEW stream \in Seq(Byte), NEW calls \in Seq(Callback),
           AreFrames(stream, calls), AreCalls(calls),
           NEW i \in 1 .. MaxCalls, NEW n \in Sizes,
           NEW c, c = [id |-> i, context |-> Context(i, n)]
    PROVE  /\ AreFrames(stream \o Frame(i, n), Append(calls, c))
           /\ AreCalls(Append(calls, c))
<1> DEFINE f == Frame(i, n)
           L == Len(stream)
           N == Len(calls)
<1>0. /\ L \in Nat /\ N \in Nat
      /\ f \in Seq(Byte) /\ Len(f) = HeaderSize + n /\ Len(f) \in Nat
      /\ c \in Callback /\ Len(c.context) = n
  BY FrameType, LenProperties DEF Callback
<1>01. L \in Nat /\ N \in Nat /\ Len(f) \in Nat
  BY <1>0
<1>1. PICK end \in [0 .. N -> Nat] :
        /\ end[0] = 0
        /\ end[N] = L
        /\ \A j, k \in 0 .. N : j <= k => end[j] <= end[k]
        /\ \A j \in 1 .. N :
              LET g == Frame(calls[j].id, Len(calls[j].context))
              IN  /\ end[j] = end[j - 1] + Len(g)
                  /\ \A k \in 1 .. Len(g) : stream[end[j - 1] + k] = g[k]
  BY DEF AreFrames
<1>2. /\ Len(stream \o f) = L + Len(f)
      /\ \A k \in 1 .. L : (stream \o f)[k] = stream[k]
      /\ \A k \in 1 .. Len(f) : (stream \o f)[L + k] = f[k]
  <2> HIDE DEF f
  <2>1. /\ Len(stream \o f) = Len(stream) + Len(f)
        /\ \A k \in 1 .. Len(stream) + Len(f) : (stream \o f)[k] =
               IF k <= Len(stream) THEN stream[k] ELSE f[k - Len(stream)]
    BY <1>0, ConcatProperties
  <2>2. \A k \in 1 .. Len(f) :
           L + k \in 1 .. L + Len(f) /\ ~ (L + k <= L) /\ L + k - L = k
    BY <1>0
  <2> HIDE DEF L
  <2> QED
    BY <1>0, <2>1, <2>2 DEF L
<1>3. /\ Len(Append(calls, c)) = N + 1
      /\ \A j \in 1 .. N : Append(calls, c)[j] = calls[j]
      /\ Append(calls, c)[N + 1] = c
  BY <1>0, AppendProperties
<1> DEFINE more == [j \in 0 .. N + 1 |-> IF j <= N THEN end[j] ELSE L + Len(f)]
           d == Append(calls, c)
           s == stream \o f
<1> HIDE DEF f, L, N, d, s
<1>4. more \in [0 .. Len(d) -> Nat] /\ more[0] = 0 /\ more[Len(d)] = Len(s)
  <2>1. Len(d) = N + 1 /\ Len(s) = L + Len(f)
    BY <1>2, <1>3 DEF d, s
  <2>2. /\ more \in [0 .. N + 1 -> Nat]
        /\ more[0] = 0 /\ more[N + 1] = L + Len(f)
    BY <1>01, <1>1
  <2> QED
    BY <2>1, <2>2
<1>5. \A j, k \in 0 .. Len(d) : j <= k => more[j] <= more[k]
  <2>1. \A j \in 0 .. N : end[j] <= L
    BY <1>0, <1>1
  <2> QED
    BY <1>0, <1>1, <1>3, <2>1 DEF d
<1>6. ASSUME NEW j \in 1 .. Len(d)
      PROVE  LET g == Frame(d[j].id, Len(d[j].context))
             IN  /\ more[j] = more[j - 1] + Len(g)
                 /\ \A k \in 1 .. Len(g) : s[more[j - 1] + k] = g[k]
  <2>1. CASE j \in 1 .. N
    <3> DEFINE g == Frame(calls[j].id, Len(calls[j].context))
    <3>1. d[j] = calls[j]
      BY <1>3, <2>1 DEF d
    <3>2. /\ end[j] = end[j - 1] + Len(g) /\ end[j] <= L
          /\ \A k \in 1 .. Len(g) : stream[end[j - 1] + k] = g[k]
      BY <1>0, <1>1, <2>1
    <3>3. more[j] = end[j] /\ more[j - 1] = end[j - 1]
      BY <1>0, <2>1
    <3>4. end[j] \in Nat /\ end[j - 1] \in Nat
      BY <1>0, <1>1, <2>1
    <3>6. Len(g) \in Nat
      <4>1. PICK m \in Sizes : calls[j].context = Context(calls[j].id, m)
        BY <2>1 DEF AreCalls, N
      <4>2. calls[j] \in Callback
        BY <2>1, ElementOfSeq DEF N
      <4> QED
        BY <1>0, <4>1, <4>2, FrameType DEF Callback
    <3> HIDE DEF g, more
    <3>5. \A k \in 1 .. Len(g) : s[end[j - 1] + k] = g[k]
      <4>1. end[j - 1] + Len(g) <= L
        BY <3>2
      <4>2. \A k \in 1 .. Len(g) : end[j - 1] + k \in 1 .. L
        BY <1>01, <3>4, <3>6, <4>1, Places
      <4> QED
        BY <1>2, <3>2, <4>2 DEF s
    <3> QED
      BY <3>1, <3>2, <3>3, <3>5 DEF g
  <2>2. CASE j = N + 1
    <3>1. d[j] = c /\ Frame(d[j].id, Len(d[j].context)) = f
      BY <1>0, <1>3, <2>2 DEF d, f
    <3>2. more[j] = L + Len(f) /\ more[j - 1] = L
      BY <1>0, <1>1, <2>2
    <3> QED
      BY <1>2, <3>1, <3>2 DEF s
  <2>3. j \in 1 .. N \/ j = N + 1
    BY <1>01, <1>3 DEF d
  <2> QED
    BY <2>1, <2>2, <2>3
<1>7. AreFrames(s, d)
  BY <1>4, <1>5, <1>6 DEF AreFrames
<1>8. AreCalls(d)
  <2> SUFFICES ASSUME NEW j \in 1 .. Len(d)
               PROVE  \E m \in Sizes : d[j].context = Context(d[j].id, m)
    BY DEF AreCalls
  <2>1. CASE j \in 1 .. N
    BY <1>3, <2>1 DEF d, N, AreCalls
  <2>2. CASE j = N + 1
    BY <1>3, <2>2 DEF d
  <2>3. j \in 1 .. N \/ j = N + 1
    BY <1>01, <1>3 DEF d
  <2> QED
    BY <2>1, <2>2, <2>3
<1> QED
  BY <1>7, <1>8 DEF d, s, f

\* The first frame of a stream is whole and is that of the first call, and
\* the bytes behind it are the frames of the other calls.
LEMMA FramesFirst ==
    ASSUME NEW stream \in Seq(Byte), NEW calls \in Seq(Callback),
           AreFrames(stream, calls), AreCalls(calls), stream # <<>>
    PROVE  /\ calls # <<>>
           /\ \E i \in 1 .. MaxCalls, n \in Sizes :
                 /\ Head(calls) = [id |-> i, context |-> Context(i, n)]
                 /\ HeaderSize + n <= Len(stream)
                 /\ \A k \in 1 .. HeaderSize + n :
                       stream[k] = Frame(i, n)[k]
                 /\ AreFrames(
                       SubSeq(stream, HeaderSize + n + 1, Len(stream)),
                       Tail(calls))
           /\ AreCalls(Tail(calls))
<1> DEFINE L == Len(stream)
           N == Len(calls)
<1>1. PICK end \in [0 .. N -> Nat] :
        /\ end[0] = 0
        /\ end[N] = L
        /\ \A j, k \in 0 .. N : j <= k => end[j] <= end[k]
        /\ \A j \in 1 .. N :
              LET g == Frame(calls[j].id, Len(calls[j].context))
              IN  /\ end[j] = end[j - 1] + Len(g)
                  /\ \A k \in 1 .. Len(g) : stream[end[j - 1] + k] = g[k]
  BY DEF AreFrames
<1>2. L \in Nat \ {0} /\ N \in Nat /\ N # 0 /\ calls # <<>>
  <2>1. L \in Nat \ {0} /\ N \in Nat
    BY EmptySeq, LenProperties
  <2> QED
    BY <1>1, <2>1, EmptySeq
<1>3. PICK i \in 1 .. MaxCalls, n \in Sizes :
         calls[1] = [id |-> i, context |-> Context(i, n)]
  <2>1. 1 \in 1 .. N
    BY <1>2
  <2>2. calls[1] \in Callback
    BY <2>1, ElementOfSeq
  <2>3. PICK n \in Sizes : calls[1].context = Context(calls[1].id, n)
    BY <2>1 DEF AreCalls
  <2> QED
    BY <2>2, <2>3 DEF Callback
<1>4. /\ n \in Nat
      /\ Len(Context(i, n)) = n
      /\ Len(Frame(i, n)) = HeaderSize + n
  <2>1. /\ Len(Context(i, n)) = n
        /\ Len(Frame(i, n)) = HeaderSize + n
    BY FrameType
  <2>2. n \in Nat
    BY SelfPipeAssumption
  <2> QED
    BY <2>1, <2>2
<1> DEFINE m == HeaderSize + n
<1>5. m \in Nat
  BY <1>4 DEF HeaderSize
<1>6. /\ end[1] = m
      /\ \A k \in 1 .. m : stream[k] = Frame(i, n)[k]
  <2>1. /\ 1 \in 1 .. N
        /\ Frame(calls[1].id, Len(calls[1].context)) = Frame(i, n)
    BY <1>2, <1>3, <1>4
  <2>2. /\ end[1] = end[0] + Len(Frame(i, n))
        /\ \A k \in 1 .. Len(Frame(i, n)) :
              stream[end[0] + k] = Frame(i, n)[k]
    <3> DEFINE g == Frame(calls[1].id, Len(calls[1].context))
    <3>1. /\ end[1] = end[1 - 1] + Len(g)
          /\ \A k \in 1 .. Len(g) : stream[end[1 - 1] + k] = g[k]
      BY <1>1, <2>1
    <3>2. 1 - 1 = 0 /\ g = Frame(i, n)
      BY <2>1
    <3> HIDE DEF g
    <3> QED
      BY <3>1, <3>2
  <2>3. \A k \in 1 .. m : 0 + k = k
    <3> HIDE DEF m
    <3> QED
      BY <1>5
  <2> QED
    BY <1>1, <1>4, <1>5, <2>2, <2>3
<1> HIDE DEF L, N, m
<1>7. m <= L
  BY <1>1, <1>2, <1>5, <1>6
<1> DEFINE s == SubSeq(stream, m + 1, L)
           d == Tail(calls)
<1>8. /\ Len(s) = L - m
      /\ \A k \in 1 .. L - m : s[k] = stream[m + k]
  BY <1>2, <1>5, <1>7, DropType DEF L
<1>9. /\ Len(d) = N - 1
      /\ \A j \in 1 .. N - 1 : d[j] = calls[j + 1]
  BY <1>2, HeadTailProperties DEF N
<1> HIDE DEF s, d
<1> DEFINE rest == [j \in 0 .. N - 1 |-> end[j + 1] - m]
<1>10. /\ rest \in [0 .. Len(d) -> Nat]
       /\ rest[0] = 0
       /\ rest[Len(d)] = Len(s)
  <2>1. \A j \in 0 .. N - 1 : end[j + 1] \in Nat /\ end[j + 1] >= m
    BY <1>1, <1>2, <1>5, <1>6
  <2>2. rest \in [0 .. N - 1 -> Nat]
    BY <1>5, <2>1
  <2>3. rest[0] = 0 /\ rest[N - 1] = L - m
    BY <1>1, <1>2, <1>5, <1>6
  <2> HIDE DEF rest
  <2> QED
    BY <1>8, <1>9, <2>2, <2>3
<1>11. \A j, k \in 0 .. Len(d) : j <= k => rest[j] <= rest[k]
  <2> SUFFICES ASSUME NEW j \in 0 .. N - 1, NEW k \in 0 .. N - 1, j <= k
               PROVE  end[j + 1] - m <= end[k + 1] - m
    BY <1>9
  <2>1. j + 1 \in 0 .. N /\ k + 1 \in 0 .. N /\ j + 1 <= k + 1
    BY <1>2
  <2>2. end[j + 1] <= end[k + 1] /\ end[j + 1] \in Nat /\ end[k + 1] \in Nat
    BY <1>1, <2>1
  <2> QED
    BY <1>5, <2>2
<1>12. ASSUME NEW j \in 1 .. Len(d)
       PROVE  LET g == Frame(d[j].id, Len(d[j].context))
              IN  /\ rest[j] = rest[j - 1] + Len(g)
                  /\ \A k \in 1 .. Len(g) : s[rest[j - 1] + k] = g[k]
  <2> DEFINE g == Frame(d[j].id, Len(d[j].context))
  <2>1. /\ j \in Nat /\ j >= 1 /\ j <= N - 1
        /\ j + 1 \in 1 .. N /\ j + 1 - 1 = j /\ j - 1 + 1 = j
        /\ d[j] = calls[j + 1]
    BY <1>2, <1>9
  <2>2. /\ end[j + 1] = end[j] + Len(g)
        /\ \A k \in 1 .. Len(g) : stream[end[j] + k] = g[k]
    BY <1>1, <2>1
  <2>3. /\ end[j] \in Nat /\ end[j + 1] \in Nat
        /\ end[j] >= m /\ end[j + 1] <= L
    BY <1>1, <1>2, <1>6, <2>1
  <2>4. Len(g) \in Nat
    <3>1. PICK l \in Sizes :
             calls[j + 1].context = Context(calls[j + 1].id, l)
      BY <2>1 DEF AreCalls, N
    <3>2. calls[j + 1] \in Callback
      BY <2>1, ElementOfSeq DEF N
    <3>3. /\ Len(Context(calls[j + 1].id, l)) = l
          /\ Len(Frame(calls[j + 1].id, l)) = HeaderSize + l
          /\ l \in Nat
      <4>1. PICK i1 \in 1 .. MaxCalls : i1 = calls[j + 1].id
        BY <3>2 DEF Callback
      <4>2. l \in Nat
        BY SelfPipeAssumption
      <4> QED
        BY <4>1, <4>2, FrameType
    <3>4. g = Frame(calls[j + 1].id, l)
      BY <2>1, <3>1, <3>3
    <3> HIDE DEF g
    <3>5. HeaderSize + l \in Nat
      BY <3>3 DEF HeaderSize
    <3> QED
      BY <3>3, <3>4, <3>5
  <2>5. rest[j] = end[j + 1] - m /\ rest[j - 1] = end[j] - m
    BY <1>2, <2>1
  <2> HIDE DEF g, rest
  <2>6. rest[j] = rest[j - 1] + Len(g)
    BY <1>5, <2>2, <2>3, <2>4, <2>5
  <2>7. ASSUME NEW k \in 1 .. Len(g) PROVE s[rest[j - 1] + k] = g[k]
    <3>1. rest[j - 1] + k \in 1 .. L - m /\ m + (rest[j - 1] + k) = end[j] + k
      <4>1. end[j] + Len(g) <= L
        BY <2>2, <2>3
      <4> QED
        <5>1. PICK a \in Nat : a = end[j]
          BY <2>3
        <5>2. PICK b \in Nat : b = Len(g)
          BY <2>4
        <5>3. a + b <= L /\ m <= a /\ rest[j - 1] = a - m /\ k \in 1 .. b
          BY <2>3, <2>5, <4>1, <5>1, <5>2
        <5>4. L \in Nat
          BY <1>2
        <5>5. PICK l \in Nat : l = L
          BY <5>4
        <5>6. a + b <= l /\ m <= a /\ k \in 1 .. b
          BY <5>3, <5>5
        <5>7. a - m + k \in 1 .. l - m /\ m + (a - m + k) = a + k
          BY <1>5, <5>6, PlacesBehind
        <5> QED
          BY <5>1, <5>3, <5>5, <5>7
    <3>2. s[rest[j - 1] + k] = stream[end[j] + k]
      BY <1>8, <3>1
    <3> QED
      BY <2>2, <3>2
  <2> QED
    BY <2>6, <2>7 DEF g
<1>13. AreFrames(s, d)
  BY <1>10, <1>11, <1>12 DEF AreFrames
<1>14. AreCalls(d)
  <2> SUFFICES ASSUME NEW j \in 1 .. Len(d)
               PROVE  \E l \in Sizes : d[j].context = Context(d[j].id, l)
    BY DEF AreCalls
  <2>1. j + 1 \in 1 .. N /\ d[j] = calls[j + 1]
    BY <1>2, <1>9
  <2> QED
    BY <2>1 DEF AreCalls, N
<1>15. Head(calls) = calls[1]
  BY <1>2
<1> QED
  BY <1>2, <1>3, <1>6, <1>7, <1>13, <1>14, <1>15 DEF s, d, m, L

-----------------------------------------------------------------------------
(* Types *)

\* A size byte is read as a number of a size_t.
LEMMA SizeType ==
    ASSUME NEW b \in Byte, NEW v \in SizesOf(b)
    PROVE  v \in 0 .. UINT8_MAX /\ ToSizeT(v) \in 0 .. SizeMax - 1
<1>1. UINT8_MAX \in Nat \ {0}
  BY SelfPipeAssumption
<1>2. v \in 0 .. UINT8_MAX
  <2>1. b.place = "size" => b.size \in Sizes
    BY DEF Byte
  <2> QED
    BY <2>1, SelfPipeAssumption DEF SizesOf
<1> QED
  BY <1>1, <1>2 DEF ToSizeT, SizeMax, ByteMax

\* A sequence is its first part and the rest, one behind the other.
LEMMA DropTake ==
    ASSUME NEW S, NEW s \in Seq(S), NEW t \in Seq(S), NEW n \in 0 .. Len(t)
    PROVE  (s \o SubSeq(t, 1, n)) \o SubSeq(t, n + 1, Len(t)) = s \o t
<1> DEFINE a == SubSeq(t, 1, n)
           b == SubSeq(t, n + 1, Len(t))
<1>1. a \in Seq(S) /\ b \in Seq(S)
  BY DropType
<1>2. a \o b = t
  <2>1. Len(t) \in Nat
    BY LenProperties
  <2>2. 1 \in 1 .. Len(t) + 1 /\ n \in 1 - 1 .. Len(t) /\ Len(t) \in n .. Len(t)
    BY <2>1
  <2>3. a \o b = SubSeq(t, 1, Len(t))
    BY <2>2, ConcatAdjacentSubSeq
  <2>4. SubSeq(t, 1, Len(t)) = t
    BY SubSeqFull
  <2> QED
    BY <2>3, <2>4, Zenon
<1> HIDE DEF a, b
<1>3. (s \o a) \o b = s \o (a \o b)
  BY <1>1, ConcatAssociative, SMTT(30)
<1> QED
  BY <1>2, <1>3, Zenon DEF a, b

\* A pipe that was not created is empty.
LEMMA TypeInit ==
    PipeInit => PipeTypeOK
<1> SUFFICES ASSUME PipeInit PROVE PipeTypeOK
  OBVIOUS
<1>1. /\ <<>> \in Seq(Byte) /\ <<>> \in Seq(Callback) /\ Len(<<>>) = 0
  OBVIOUS
<1>2. /\ 0 \in 0 .. MaxLives /\ 0 \in 0 .. MaxCalls /\ 0 <= Capacity
      /\ 0 <= BufferSize /\ 0 \in 0 .. SizeMax - 1
  BY SelfPipeAssumption
     DEF SizeMax, ByteMax, BufferSize, HeaderSize
<1>3. /\ pipe \in Seq(Byte) /\ Len(pipe) <= Capacity
      /\ bytes \in Seq(Byte) /\ Len(bytes) <= BufferSize
  BY <1>1, <1>2 DEF PipeInit
<1>4. accepted \in Seq(Callback) /\ Len(accepted) <= numCalls
  BY <1>1 DEF PipeInit
<1>5. /\ lives \in 0 .. MaxLives
      /\ numCalls \in 0 .. MaxCalls
      /\ contextSize \in 0 .. SizeMax - 1
  BY <1>2 DEF PipeInit
<1>6. /\ open \in BOOLEAN
      /\ torn \in BOOLEAN
      /\ pipePc = "idle"
      /\ current = NoCallback
  BY DEF PipeInit
<1> QED
  BY <1>3, <1>4, <1>5, <1>6 DEF PipeTypeOK

\* The pipe is created, and the buffer kept.
LEMMA TypeCreate ==
    PipeTypeOK /\ Create => PipeTypeOK'
BY SelfPipeAssumption DEF PipeTypeOK, Create

\* The pipe is closed, with what it held.
LEMMA TypeRelease ==
    PipeTypeOK /\ Release => PipeTypeOK'
<1> SUFFICES ASSUME PipeTypeOK, Release PROVE PipeTypeOK'
  OBVIOUS
<1>1. <<>> \in Seq(Byte) /\ <<>> \in Seq(Callback) /\ Len(<<>>) = 0
  OBVIOUS
<1>2. Capacity \in Nat /\ MaxCalls \in Nat
  BY SelfPipeAssumption
<1>3. torn' \in BOOLEAN
  BY DEF PipeTypeOK, Release
<1>4. pipe' = <<>> /\ accepted' = <<>> /\ open' = FALSE
  BY DEF Release
<1>5. Len(pipe') <= Capacity /\ Len(accepted') <= numCalls'
  BY <1>1, <1>2, <1>4 DEF PipeTypeOK, Release
<1>6. UNCHANGED <<lives, bytes, pipePc, contextSize, current, numCalls>>
  BY DEF Release
<1> QED
  BY <1>1, <1>3, <1>4, <1>5, <1>6 DEF PipeTypeOK

\* A frame is written whole, if it fits.
LEMMA TypeSchedule ==
    ASSUME PipeTypeOK, NEW n \in Sizes, ScheduleCallback(n)
    PROVE  PipeTypeOK'
<1> DEFINE i == numCalls + 1
           f == Frame(i, n)
           c == [id |-> i, context |-> Context(i, n)]
<1>1. i \in 1 .. MaxCalls /\ numCalls' = i /\ numCalls \in Nat
  BY SelfPipeAssumption DEF PipeTypeOK, ScheduleCallback
<1>2. f \in Seq(Byte) /\ c \in Callback
  <2>1. PICK j \in 1 .. MaxCalls : j = i
    BY <1>1
  <2>2. /\ Frame(j, n) \in Seq(Byte)
        /\ Context(j, n) \in Seq(Byte)
    BY FrameType
  <2> QED
    BY <2>1, <2>2 DEF Callback
<1>3. /\ pipe' \in Seq(Byte) /\ Len(pipe') <= Capacity
      /\ accepted' \in Seq(Callback) /\ Len(accepted') <= i
  <2>0. /\ pipe \in Seq(Byte) /\ Len(pipe) <= Capacity
        /\ accepted \in Seq(Callback) /\ Len(accepted) <= numCalls
    BY DEF PipeTypeOK
  <2>1. CASE UNCHANGED <<pipe, accepted>>
    <3>1. Len(accepted) \in Nat
      BY <2>0, LenProperties
    <3> QED
      BY <1>1, <2>0, <2>1, <3>1
  <2>2. CASE /\ WriteFits(f)
             /\ pipe' = pipe \o f
             /\ accepted' = Append(accepted, c)
    <3>1. pipe \o f \in Seq(Byte) /\ Len(pipe \o f) = Len(pipe) + Len(f)
      BY <1>2, <2>0, ConcatProperties
    <3>2. /\ Append(accepted, c) \in Seq(Callback)
          /\ Len(Append(accepted, c)) = Len(accepted) + 1
      BY <1>2, <2>0, AppendProperties
    <3>3. Len(accepted) \in Nat
      BY <2>0, LenProperties
    <3> HIDE DEF f, c
    <3>4. Len(accepted') = Len(accepted) + 1 /\ Len(accepted) <= numCalls
      BY <2>0, <2>2, <3>2
    <3>5. Len(accepted') <= i
      BY <1>1, <3>3, <3>4
    <3> QED
      BY <2>2, <3>1, <3>2, <3>5 DEF WriteFits
  <2> QED
    BY <2>1, <2>2 DEF ScheduleCallback
<1> HIDE DEF f, c
<1>4. UNCHANGED <<lives, open, bytes, pipePc, contextSize, current, torn>>
  BY DEF ScheduleCallback
<1>5. numCalls' \in 0 .. MaxCalls
  BY <1>1, SelfPipeAssumption
<1> QED
  BY <1>1, <1>3, <1>4, <1>5 DEF PipeTypeOK

\* What the read takes out of the pipe goes to the end of the buffer.
LEMMA ReadMoves ==
    ASSUME PipeTypeOK, ReadPipe
    PROVE  /\ bytes' \in Seq(Byte) /\ Len(bytes') <= BufferSize
           /\ pipe' \in Seq(Byte) /\ Len(pipe') <= Capacity
           /\ bytes' \o pipe' = bytes \o pipe
           /\ pipePc' =
                 IF Len(bytes) < BufferSize THEN "parse" ELSE "aborted"
<1>1. /\ bytes \in Seq(Byte)
      /\ Len(bytes) <= BufferSize
      /\ Len(bytes) \in Nat
      /\ pipe \in Seq(Byte) /\ Len(pipe) <= Capacity /\ Len(pipe) \in Nat
  BY LenProperties DEF PipeTypeOK
<1>2. Capacity \in Nat /\ BufferSize \in Nat
  BY SelfPipeAssumption DEF BufferSize, HeaderSize
<1>3. CASE Len(bytes) < BufferSize
  <2>1. PICK n \in 0 .. Len(pipe) :
           /\ Len(bytes) + n <= BufferSize
           /\ bytes' = bytes \o SubSeq(pipe, 1, n)
           /\ pipe' = SubSeq(pipe, n + 1, Len(pipe))
           /\ pipePc' = "parse"
    <3> DEFINE room == BufferSize - Len(bytes)
               n == IF Len(pipe) <= room THEN Len(pipe) ELSE room
    <3>1. n \in 0 .. Len(pipe) /\ Len(bytes) + n <= BufferSize
      BY <1>1, <1>2, <1>3
    <3>2. /\ bytes' = bytes \o SubSeq(pipe, 1, n)
          /\ pipe' = SubSeq(pipe, n + 1, Len(pipe))
          /\ pipePc' = "parse"
      BY <1>3 DEF ReadPipe
    <3> QED
      BY <3>1, <3>2
  <2> DEFINE a == SubSeq(pipe, 1, n)
             b == SubSeq(pipe, n + 1, Len(pipe))
  <2>2. /\ a \in Seq(Byte) /\ Len(a) = n
        /\ b \in Seq(Byte) /\ Len(b) = Len(pipe) - n
    BY <1>1, DropType
  <2> HIDE DEF a, b
  <2>4. bytes \o a \in Seq(Byte) /\ Len(bytes \o a) = Len(bytes) + Len(a)
    BY <1>1, <2>2, ConcatProperties
  <2>5. (bytes \o a) \o b = bytes \o pipe
    BY <1>1, DropTake DEF a, b
  <2>6. bytes' = bytes \o a /\ pipe' = b
    BY <2>1 DEF a, b
  <2>7. Len(b) <= Capacity
    BY <1>1, <1>2, <2>2
  <2> QED
    BY <1>3, <2>1, <2>2, <2>4, <2>5, <2>6, <2>7
<1>4. CASE ~(Len(bytes) < BufferSize)
  BY <1>1, <1>4 DEF ReadPipe
<1> QED
  BY <1>3, <1>4

\* The read takes no more than the buffer has room for.
LEMMA TypeReadPipe ==
    PipeTypeOK /\ ReadPipe => PipeTypeOK'
<1> SUFFICES ASSUME PipeTypeOK, ReadPipe PROVE PipeTypeOK'
  OBVIOUS
<1>1. UNCHANGED <<lives, open, contextSize, current, numCalls, accepted, torn>>
  BY DEF ReadPipe
<1>2. pipePc' \in {"parse", "aborted"}
  BY ReadMoves
<1> QED
  BY <1>1, <1>2, ReadMoves DEF PipeTypeOK

\* The loop waits for more.
LEMMA TypeNotComplete ==
    PipeTypeOK /\ NotComplete => PipeTypeOK'
BY DEF PipeTypeOK, NotComplete

\* What the call of a frame does to buffer and control.
LEMMA CallFrameEffect ==
    ASSUME PipeTypeOK, CallFrame
    PROVE  \E v \in SizesOf(bytes[HeaderSize]) :
              LET n == ToSizeT(v)
                  rest == SubSeq(bytes, HeaderSize + 1, Len(bytes))
              IN  /\ n \in 0 .. SizeMax - 1
                  /\ Complete(n)
                  /\ bytes' = rest /\ rest \in Seq(Byte)
                  /\ Len(rest) = Len(bytes) - HeaderSize
                  /\ contextSize' = n
                  /\ bytes[1] \in Byte
                  /\ IF bytes[1].place = "pointer" /\ n <= Len(rest)
                     THEN /\ pipePc' = "callback"
                          /\ current' = [id |-> bytes[1].call,
                                         context |-> SubSeq(rest, 1, n)]
                          /\ SubSeq(rest, 1, n) \in Seq(Byte)
                     ELSE pipePc' = "undefined" /\ current' = NoCallback
<1>1. /\ bytes \in Seq(Byte) /\ Len(bytes) \in Nat
      /\ HeaderSize \in 0 .. Len(bytes)
      /\ Len(bytes) >= 2
      /\ HeaderSize = 2
  BY LenProperties DEF PipeTypeOK, CallFrame, HeaderSize
<1> DEFINE rest == SubSeq(bytes, HeaderSize + 1, Len(bytes))
<1>2. PICK v \in SizesOf(bytes[HeaderSize]) :
         LET n == ToSizeT(v)
         IN  /\ Complete(n)
             /\ bytes' = rest
             /\ contextSize' = n
             /\ IF bytes[1].place = "pointer" /\ n <= Len(rest)
                THEN /\ pipePc' = "callback"
                     /\ current' = [id |-> bytes[1].call,
                                    context |-> SubSeq(rest, 1, n)]
                ELSE pipePc' = "undefined" /\ current' = NoCallback
  BY DEF CallFrame
<1>3. rest \in Seq(Byte) /\ Len(rest) = Len(bytes) - HeaderSize
  <2>1. PICK b \in Seq(Byte) : b = bytes
    BY <1>1
  <2>2. PICK h \in 0 .. Len(b) : h = HeaderSize
    BY <1>1, <2>1
  <2>3. /\ SubSeq(b, h + 1, Len(b)) \in Seq(Byte)
        /\ Len(SubSeq(b, h + 1, Len(b))) = Len(b) - h
    BY DropType
  <2> QED
    BY <2>1, <2>2, <2>3
<1>4. bytes[1] \in Byte /\ bytes[HeaderSize] \in Byte
  BY <1>1, ElementOfSeq
<1>5. ToSizeT(v) \in 0 .. SizeMax - 1
  BY <1>4, SizeType
<1> HIDE DEF rest
<1>6. ToSizeT(v) <= Len(rest) =>
          SubSeq(rest, 1, ToSizeT(v)) \in Seq(Byte)
  <2> SUFFICES ASSUME ToSizeT(v) <= Len(rest)
               PROVE  SubSeq(rest, 1, ToSizeT(v)) \in Seq(Byte)
    OBVIOUS
  <2>1. ToSizeT(v) \in 0 .. Len(rest)
    <3>1. Len(rest) \in Nat
      BY <1>3, LenProperties
    <3>2. PICK n \in 0 .. SizeMax - 1 : n = ToSizeT(v)
      BY <1>5
    <3>3. SizeMax \in Nat
      BY SelfPipeAssumption DEF SizeMax, ByteMax
    <3>4. n \in 0 .. Len(rest)
      BY <3>1, <3>2, <3>3
    <3> QED
      BY <3>2, <3>4
  <2> QED
    BY <1>3, <2>1, DropType
<1> QED
  BY <1>2, <1>3, <1>4, <1>5, <1>6 DEF rest

\* A call is made with the part of the buffer its size byte asks for.
LEMMA TypeCallFrame ==
    PipeTypeOK /\ CallFrame => PipeTypeOK'
<1> SUFFICES ASSUME PipeTypeOK, CallFrame PROVE PipeTypeOK'
  OBVIOUS
<1> DEFINE rest == SubSeq(bytes, HeaderSize + 1, Len(bytes))
<1>1. PICK v \in SizesOf(bytes[HeaderSize]) :
              LET n == ToSizeT(v)
              IN  /\ n \in 0 .. SizeMax - 1
                  /\ Complete(n)
                  /\ bytes' = rest /\ rest \in Seq(Byte)
                  /\ Len(rest) = Len(bytes) - HeaderSize
                  /\ contextSize' = n
                  /\ bytes[1] \in Byte
                  /\ IF bytes[1].place = "pointer" /\ n <= Len(rest)
                     THEN /\ pipePc' = "callback"
                          /\ current' = [id |-> bytes[1].call,
                                         context |-> SubSeq(rest, 1, n)]
                          /\ SubSeq(rest, 1, n) \in Seq(Byte)
                     ELSE pipePc' = "undefined" /\ current' = NoCallback
  BY CallFrameEffect
<1> HIDE DEF rest
<1>2. /\ current' \in Callback \union {NoCallback}
      /\ pipePc' \in {"idle", "parse", "callback", "aborted", "undefined"}
      /\ pipePc' = "callback" => contextSize' <= Len(bytes')
  <2>1. bytes[1].call \in 1 .. MaxCalls
    BY <1>1 DEF Byte
  <2>2. CASE bytes[1].place = "pointer" /\ ToSizeT(v) <= Len(rest)
    <3>1. /\ current' = [id |-> bytes[1].call,
                         context |-> SubSeq(rest, 1, ToSizeT(v))]
          /\ SubSeq(rest, 1, ToSizeT(v)) \in Seq(Byte)
      BY <1>1, <2>2
    <3>2. current' \in Callback
      BY <2>1, <3>1 DEF Callback
    <3>3. pipePc' = "callback" /\ contextSize' <= Len(bytes')
      BY <1>1, <2>2
    <3> QED
      BY <3>2, <3>3
  <2>3. CASE ~(bytes[1].place = "pointer" /\ ToSizeT(v) <= Len(rest))
    <3>1. pipePc' = "undefined" /\ current' = NoCallback
      BY <1>1, <2>3
    <3> QED
      BY <3>1
  <2> QED
    BY <2>2, <2>3
<1>3. bytes' \in Seq(Byte) /\ Len(bytes') <= BufferSize
  <2>1. /\ Len(bytes) \in Nat
        /\ Len(bytes) <= BufferSize
        /\ BufferSize \in Nat
    BY LenProperties, SelfPipeAssumption
       DEF PipeTypeOK, BufferSize, HeaderSize
  <2>2. Len(rest) = Len(bytes) - 2
    BY <1>1 DEF HeaderSize
  <2>3. Len(rest) <= BufferSize
    BY <2>1, <2>2
  <2> QED
    BY <1>1, <2>3
<1>4. accepted' \in Seq(Callback) /\ Len(accepted') <= numCalls'
  <2>1. /\ accepted \in Seq(Callback)
        /\ Len(accepted) <= numCalls
        /\ numCalls \in Nat
    BY SelfPipeAssumption DEF PipeTypeOK
  <2>2. numCalls' = numCalls
    BY DEF CallFrame
  <2>3. CASE accepted = <<>>
    BY <2>1, <2>2, <2>3 DEF CallFrame
  <2>4. CASE accepted # <<>>
    <3>1. /\ Tail(accepted) \in Seq(Callback)
          /\ Len(Tail(accepted)) = Len(accepted) - 1
      BY <2>1, <2>4, HeadTailProperties
    <3>2. Len(accepted) \in Nat
      BY <2>1, LenProperties
    <3>3. accepted' = Tail(accepted)
      BY <2>4 DEF CallFrame
    <3>4. Len(accepted') <= numCalls
      BY <2>1, <3>1, <3>2, <3>3
    <3> QED
      BY <2>2, <3>1, <3>3, <3>4
  <2> QED
    BY <2>3, <2>4
<1>5. contextSize' \in 0 .. SizeMax - 1
  BY <1>1
<1>6. UNCHANGED <<lives, open, pipe, numCalls, torn>>
  BY DEF CallFrame
<1> QED
  BY <1>2, <1>3, <1>4, <1>5, <1>6 DEF PipeTypeOK

\* The context is taken out of the buffer.
LEMMA TypeCallbackReturns ==
    PipeTypeOK /\ CallReturns => PipeTypeOK'
<1> SUFFICES ASSUME PipeTypeOK, CallReturns PROVE PipeTypeOK'
  OBVIOUS
<1>1. SizeMax \in Nat \ {0} /\ BufferSize \in Nat
  BY SelfPipeAssumption
     DEF SizeMax, ByteMax, BufferSize, HeaderSize
<1>2. /\ bytes \in Seq(Byte)
      /\ Len(bytes) \in Nat
      /\ Len(bytes) <= BufferSize
      /\ contextSize \in Nat
  BY <1>1, LenProperties DEF PipeTypeOK
<1>3. contextSize \in 0 .. Len(bytes)
  BY <1>2 DEF PipeTypeOK, CallReturns
<1>4. bytes' \in Seq(Byte) /\ Len(bytes') = Len(bytes) - contextSize
  BY <1>2, <1>3, DropType DEF CallReturns
<1>5. Len(bytes') <= BufferSize
  BY <1>1, <1>2, <1>4
<1>6. contextSize' = 0 /\ current' = NoCallback /\ pipePc' = "parse"
  BY DEF CallReturns
<1>7. UNCHANGED <<lives, open, pipe, numCalls, accepted, torn>>
  BY DEF CallReturns
<1>8. contextSize' \in 0 .. SizeMax - 1
  BY <1>1, <1>6
<1> QED
  BY <1>4, <1>5, <1>6, <1>7, <1>8 DEF PipeTypeOK

\* Every step keeps the types.
LEMMA TypeStep ==
    PipeTypeOK /\ [PipeNext]_pipeVars => PipeTypeOK'
<1> SUFFICES ASSUME PipeTypeOK, [PipeNext]_pipeVars PROVE PipeTypeOK'
  OBVIOUS
<1>1. CASE Create
  BY <1>1, TypeCreate
<1>2. CASE Release
  BY <1>2, TypeRelease
<1>3. CASE \E n \in Sizes : ScheduleCallback(n)
  BY <1>3, TypeSchedule
<1>4. CASE ReadPipe
  BY <1>4, TypeReadPipe
<1>5. CASE NotComplete
  BY <1>5, TypeNotComplete
<1>6. CASE CallFrame
  BY <1>6, TypeCallFrame
<1>7. CASE CallReturns
  BY <1>7, TypeCallbackReturns
<1>8. CASE UNCHANGED pipeVars
  BY <1>8 DEF PipeTypeOK, pipeVars
<1> QED
  BY <1>1, <1>2, <1>3, <1>4, <1>5, <1>6, <1>7, <1>8
     DEF PipeNext, RunLoopStep

\* Every variable has its type: HandleSelfPipeFileHandleCallback keeps what
\* it reads within runLoop.selfPipeBytes, and takes no more out of it than
\* there is, whatever the size byte says.
THEOREM PipeTyping == PipeSpec => []PipeTypeOK
<1>1. PipeInit => PipeTypeOK
  BY TypeInit
<1>2. PipeTypeOK /\ [PipeNext]_pipeVars => PipeTypeOK'
  BY TypeStep
<1> QED
  BY <1>1, <1>2, PTL DEF PipeSpec

-----------------------------------------------------------------------------
(* The frames in buffer and pipe *)

\* A number below the modulus is its own remainder.
LEMMA SmallMod ==
    ASSUME NEW a \in Nat, NEW m \in Nat \ {0}, a < m
    PROVE  a % m = a
OBVIOUS

\* What the buffer and the pipe hold are bytes.
LEMMA RestType ==
    ASSUME PipeTypeOK
    PROVE  /\ Rest \in Seq(Byte)
           /\ Rest \o pipe \in Seq(Byte)
           /\ pipePc # "callback" => Rest = bytes
<1>1. bytes \in Seq(Byte) /\ Len(bytes) \in Nat /\ pipe \in Seq(Byte)
  BY LenProperties DEF PipeTypeOK
<1>2. Rest \in Seq(Byte)
  <2>1. CASE pipePc = "callback"
    <3>1. contextSize \in 0 .. Len(bytes)
      BY <1>1, <2>1, SelfPipeAssumption DEF PipeTypeOK, SizeMax, ByteMax
    <3> QED
      BY <1>1, <2>1, <3>1, DropType DEF Rest
  <2>2. CASE pipePc # "callback"
    BY <1>1, <2>2 DEF Rest
  <2> QED
    BY <2>1, <2>2
<1>3. Rest \o pipe \in Seq(Byte)
  BY <1>1, <1>2, ConcatProperties
<1> QED
  BY <1>2, <1>3 DEF Rest

\* The header of a buffer that holds one is that of the first call.
LEMMA FirstFrame ==
    ASSUME SizesHold, PipeTypeOK, PipeInv, ~torn, pipePc = "parse",
           Len(bytes) >= HeaderSize
    PROVE  /\ accepted # <<>>
           /\ AreCalls(Tail(accepted))
           /\ \E i \in 1 .. MaxCalls, n \in Sizes :
                 /\ Head(accepted) = [id |-> i, context |-> Context(i, n)]
                 /\ n \in 0 .. UINT8_MAX /\ ToSizeT(n) = n
                 /\ Complete(n) <=> Len(bytes) >= HeaderSize + n
                 /\ bytes[1].place = "pointer" /\ bytes[1].call = i
                 /\ SizesOf(bytes[HeaderSize]) = {n}
                 /\ \A k \in 1 .. n :
                       (bytes \o pipe)[HeaderSize + k] =
                           Context(i, n)[k]
                 /\ AreFrames(
                       SubSeq(bytes \o pipe, HeaderSize + n + 1,
                              Len(bytes \o pipe)),
                       Tail(accepted))
<1>1. /\ bytes \in Seq(Byte) /\ Len(bytes) \in Nat
      /\ pipe \in Seq(Byte) /\ Len(pipe) \in Nat
      /\ accepted \in Seq(Callback)
  BY LenProperties DEF PipeTypeOK
<1>2. /\ bytes \o pipe \in Seq(Byte)
      /\ \A k \in 1 .. Len(bytes) : (bytes \o pipe)[k] = bytes[k]
      /\ Len(bytes \o pipe) # 0
  <2>1. /\ bytes \o pipe \in Seq(Byte)
        /\ Len(bytes \o pipe) = Len(bytes) + Len(pipe)
        /\ \A k \in 1 .. Len(bytes) + Len(pipe) : (bytes \o pipe)[k] =
               IF k <= Len(bytes) THEN bytes[k] ELSE pipe[k - Len(bytes)]
    BY <1>1, ConcatProperties
  <2> QED
    BY <1>1, <2>1 DEF HeaderSize
<1>3. AreFrames(bytes \o pipe, accepted) /\ AreCalls(accepted)
  BY RestType DEF PipeInv
<1>4. PICK stream \in Seq(Byte) : stream = bytes \o pipe
  BY <1>2
<1>5. PICK calls \in Seq(Callback) : calls = accepted
  BY <1>1
<1>6. stream # <<>>
  BY <1>2, <1>4
<1>7. /\ calls # <<>>
      /\ AreCalls(Tail(calls))
      /\ \E i \in 1 .. MaxCalls, n \in Sizes :
                 /\ Head(calls) = [id |-> i, context |-> Context(i, n)]
                 /\ HeaderSize + n <= Len(stream)
                 /\ \A k \in 1 .. HeaderSize + n :
                       stream[k] = Frame(i, n)[k]
                 /\ AreFrames(
                       SubSeq(stream, HeaderSize + n + 1, Len(stream)),
                       Tail(calls))
  BY <1>3, <1>4, <1>5, <1>6, FramesFirst
<1>8. PICK i \in 1 .. MaxCalls, n \in Sizes :
                 /\ Head(calls) = [id |-> i, context |-> Context(i, n)]
                 /\ HeaderSize + n <= Len(stream)
                 /\ \A k \in 1 .. HeaderSize + n :
                       stream[k] = Frame(i, n)[k]
                 /\ AreFrames(
                       SubSeq(stream, HeaderSize + n + 1, Len(stream)),
                       Tail(calls))
  BY <1>7
<1>9. /\ n \in 0 .. UINT8_MAX /\ n \in Nat
      /\ Frame(i, n)[1] = [call |-> i, place |-> "pointer"]
      /\ Frame(i, n)[HeaderSize] =
            [call |-> i, place |-> "size", size |-> n]
      /\ \A k \in 1 .. n :
            Frame(i, n)[HeaderSize + k] = Context(i, n)[k]
  <2>1. n \in 0 .. UINT8_MAX /\ n \in Nat
    BY SelfPipeAssumption
  <2> QED
    BY <2>1, FrameType
<1>10. ToSizeT(n) = n
  BY DEF SizesHold
<1>11. Complete(n) <=> Len(bytes) >= HeaderSize + n
  <2>1. (HeaderSize + n) % SizeMax = HeaderSize + n
    <3>1. /\ HeaderSize + n \in Nat /\ SizeMax \in Nat \ {0}
          /\ HeaderSize + n < SizeMax
      BY <1>9, SelfPipeAssumption DEF HeaderSize, SizeMax, ByteMax
    <3> QED
      BY <3>1, SmallMod
  <2> QED
    BY <2>1 DEF Complete
<1>12. /\ bytes[1] = [call |-> i, place |-> "pointer"]
       /\ bytes[HeaderSize] = [call |-> i, place |-> "size", size |-> n]
  <2>1. /\ 1 \in 1 .. Len(bytes) /\ HeaderSize \in 1 .. Len(bytes)
        /\ 1 \in 1 .. HeaderSize + n
        /\ HeaderSize \in 1 .. HeaderSize + n
    BY <1>1, <1>9 DEF HeaderSize
  <2>2. bytes[1] = stream[1] /\ bytes[HeaderSize] = stream[HeaderSize]
    BY <1>2, <1>4, <2>1
  <2>3. /\ stream[1] = Frame(i, n)[1]
        /\ stream[HeaderSize] = Frame(i, n)[HeaderSize]
    BY <1>8, <2>1
  <2> QED
    BY <1>9, <2>2, <2>3
<1>13. bytes[1].place = "pointer" /\ bytes[1].call = i
  BY <1>12
<1>14. SizesOf(bytes[HeaderSize]) = {n}
  BY <1>12 DEF SizesOf
<1>15. \A k \in 1 .. n : stream[HeaderSize + k] = Context(i, n)[k]
  <2>1. \A k \in 1 .. n : HeaderSize + k \in 1 .. HeaderSize + n
    BY <1>9 DEF HeaderSize
  <2> QED
    BY <1>8, <1>9, <2>1
<1> QED
  BY <1>4, <1>5, <1>7, <1>8, <1>9, <1>10, <1>11, <1>13, <1>14, <1>15

\* The loop makes the call of the first frame, with the context it carries,
\* and leaves the frames of the others.
LEMMA CallIsFirst ==
    ASSUME SizesHold, PipeTypeOK, PipeInv, ~torn, CallFrame
    PROVE  /\ accepted # <<>> /\ accepted' = Tail(accepted)
           /\ current' = Head(accepted) /\ pipePc' = "callback"
           /\ AreCalls(accepted')
           /\ AreFrames((Rest \o pipe)', accepted')
<1>0. pipePc = "parse" /\ Len(bytes) >= HeaderSize
  BY DEF CallFrame
<1>1. accepted # <<>> /\ AreCalls(Tail(accepted))
  BY <1>0, FirstFrame
<1>2. PICK i \in 1 .. MaxCalls, n \in Sizes :
                 /\ Head(accepted) = [id |-> i, context |-> Context(i, n)]
                 /\ n \in 0 .. UINT8_MAX /\ ToSizeT(n) = n
                 /\ Complete(n) <=> Len(bytes) >= HeaderSize + n
                 /\ bytes[1].place = "pointer" /\ bytes[1].call = i
                 /\ SizesOf(bytes[HeaderSize]) = {n}
                 /\ \A k \in 1 .. n :
                       (bytes \o pipe)[HeaderSize + k] =
                           Context(i, n)[k]
                 /\ AreFrames(
                       SubSeq(bytes \o pipe, HeaderSize + n + 1,
                              Len(bytes \o pipe)),
                       Tail(accepted))
  BY <1>0, FirstFrame
<1> DEFINE rest == SubSeq(bytes, HeaderSize + 1, Len(bytes))
<1>3. /\ Complete(n)
      /\ bytes' = rest /\ rest \in Seq(Byte)
      /\ Len(rest) = Len(bytes) - HeaderSize
      /\ contextSize' = n
      /\ n <= Len(rest) => /\ pipePc' = "callback"
                           /\ current' =
                                 [id |-> i, context |-> SubSeq(rest, 1, n)]
  BY <1>2, CallFrameEffect
<1>4. accepted' = Tail(accepted) /\ pipe' = pipe
  BY <1>1 DEF CallFrame
<1>5. PICK B \in Seq(Byte) : B = bytes
  BY DEF PipeTypeOK
<1>6. PICK P \in Seq(Byte) : P = pipe
  BY DEF PipeTypeOK
<1>7. /\ n \in Nat /\ Len(B) \in Nat /\ HeaderSize + n <= Len(B)
      /\ HeaderSize \in 0 .. Len(B) /\ HeaderSize + n \in 0 .. Len(B)
      /\ n <= Len(B) - HeaderSize /\ n \in 0 .. Len(B) - HeaderSize
      /\ HeaderSize \in Nat
  <2>1. Len(B) \in Nat /\ n \in Nat
    BY SelfPipeAssumption, LenProperties
  <2>2. HeaderSize + n <= Len(B)
    BY <1>2, <1>3, <1>5
  <2> QED
    BY <2>1, <2>2 DEF HeaderSize
<1> DEFINE R == SubSeq(B, HeaderSize + 1, Len(B))
<1>8. rest = R
  BY <1>5
<1>9. /\ R \in Seq(Byte) /\ Len(R) = Len(B) - HeaderSize
      /\ \A k \in 1 .. Len(B) - HeaderSize : R[k] = B[HeaderSize + k]
  BY <1>7, DropType
<1> HIDE DEF R, rest
<1>10. /\ pipePc' = "callback"
       /\ current' = [id |-> i, context |-> SubSeq(R, 1, n)]
  BY <1>3, <1>7, <1>8, <1>9
<1>11. SubSeq(R, 1, n) = Context(i, n)
  <2>1. Context(i, n) \in Seq(Byte) /\ Len(Context(i, n)) = n
    BY FrameType
  <2>2. /\ SubSeq(R, 1, n) \in Seq(Byte) /\ Len(SubSeq(R, 1, n)) = n
        /\ \A k \in 1 .. n : SubSeq(R, 1, n)[k] = R[k]
    <3>1. \A k \in 1 .. n : R[k] \in Byte
      BY <1>7, <1>9, ElementOfSeq
    <3> QED
      BY <1>7, <1>9, <3>1, SubSeqProperties
  <2>3. \A k \in 1 .. n : R[k] = Context(i, n)[k]
    <3>1. \A k \in 1 .. n : /\ HeaderSize + k \in 1 .. Len(B)
                             /\ k \in 1 .. Len(B) - HeaderSize
      BY <1>7
    <3>2. \A k \in 1 .. Len(B) : (B \o P)[k] = B[k]
      <4>1. Len(P) \in Nat
        BY LenProperties
      <4>2. \A k \in 1 .. Len(B) + Len(P) :
               (B \o P)[k] = IF k <= Len(B) THEN B[k] ELSE P[k - Len(B)]
        BY ConcatProperties
      <4> QED
        BY <1>7, <4>1, <4>2
    <3> QED
      BY <1>2, <1>5, <1>6, <1>9, <3>1, <3>2
  <2> QED
    BY <2>1, <2>2, <2>3, SeqEqual
<1>12. (Rest \o pipe)' =
           SubSeq(B \o P, HeaderSize + n + 1, Len(B \o P))
  <2>1. Rest' = SubSeq(R, n + 1, Len(R))
    BY <1>3, <1>8, <1>10 DEF Rest
  <2>2. SubSeq(R, n + 1, Len(R)) = SubSeq(B, HeaderSize + n + 1, Len(B))
    <3>1. PICK h \in Nat : h = HeaderSize
      BY <1>7
    <3>2. /\ h + n <= Len(B) /\ SubSeq(B, h + 1, Len(B)) = R
          /\ Len(R) = Len(B) - h
      BY <1>7, <1>9, <3>1 DEF R
    <3>3. SubSeq(SubSeq(B, h + 1, Len(B)), n + 1, Len(B) - h)
             = SubSeq(B, h + n + 1, Len(B))
      BY <1>7, <3>2, DropOfDrop
    <3> QED
      BY <3>1, <3>2, <3>3
  <2>3. SubSeq(B, HeaderSize + n + 1, Len(B)) \o P
           = SubSeq(B \o P, HeaderSize + n + 1, Len(B \o P))
    BY <1>7, DropOfConcat
  <2> QED
    BY <1>4, <1>6, <2>1, <2>2, <2>3
<1> QED
  BY <1>1, <1>2, <1>4, <1>5, <1>6, <1>10, <1>11, <1>12

-----------------------------------------------------------------------------
(* The inductive invariant *)

\* No frames are in an empty buffer and an empty pipe.
LEMMA PipeInitially ==
    PipeInit => PipeInv
<1> SUFFICES ASSUME PipeInit PROVE PipeInv
  OBVIOUS
<1>1. /\ pipePc = "idle" /\ bytes = <<>> /\ pipe = <<>> /\ accepted = <<>>
      /\ current = NoCallback
  BY DEF PipeInit
<1>2. Rest \o pipe = <<>> /\ Len(bytes) = 0
  BY <1>1 DEF Rest
<1>3. AreCalls(accepted) /\ AreFrames(Rest \o pipe, accepted)
  BY <1>1, <1>2, FramesNone
<1>4. Len(bytes) < BufferSize
  BY <1>2, SelfPipeAssumption DEF BufferSize, HeaderSize
<1> QED
  BY <1>1, <1>3, <1>4 DEF PipeInv, FramesParsed

\* A new pipe holds what the old one did: nothing.
LEMMA PipeCreate ==
    PipeInv /\ Create => PipeInv'
<1> SUFFICES ASSUME PipeInv, Create PROVE PipeInv'
  OBVIOUS
<1>1. /\ UNCHANGED <<pipe, bytes, pipePc, contextSize, current, accepted, torn>>
      /\ open'
  BY DEF Create
<1>2. UNCHANGED Rest
  BY <1>1 DEF Rest
<1>3. UNCHANGED <<AreCalls(accepted),
                  AreFrames(Rest \o pipe, accepted),
                  FramesParsed>>
  BY <1>1, <1>2 DEF FramesParsed
<1> QED
  BY <1>1, <1>3 DEF PipeInv

\* A release tears a frame, or leaves none.
LEMMA PipeRelease ==
    PipeTypeOK /\ PipeInv /\ Release => PipeInv'
<1> SUFFICES ASSUME PipeTypeOK, PipeInv, Release PROVE PipeInv'
  OBVIOUS
<1>1. /\ pipePc = "idle"
      /\ pipePc' = "idle"
      /\ bytes' = bytes
      /\ current' = current
      /\ accepted' = <<>> /\ pipe' = <<>> /\ torn' = (torn \/ bytes # <<>>)
  BY DEF Release
<1>2. current' = NoCallback
  BY <1>1 DEF PipeInv
<1>3. ASSUME ~torn'
      PROVE  /\ bytes' = <<>> /\ Len(bytes') < BufferSize
             /\ AreCalls(accepted')
             /\ AreFrames((Rest \o pipe)', accepted')
  <2>1. bytes' = <<>> /\ Len(bytes') = 0
    BY <1>1, <1>3 DEF PipeTypeOK
  <2>2. (Rest \o pipe)' = <<>>
    BY <1>1, <2>1 DEF Rest
  <2>3. Len(bytes') < BufferSize
    BY <2>1, SelfPipeAssumption DEF BufferSize, HeaderSize
  <2> QED
    BY <1>1, <2>1, <2>2, <2>3, FramesNone
<1>4. AreCalls(accepted') = AreCalls(accepted)'
  OBVIOUS
<1>5. FramesParsed'
  BY <1>1 DEF FramesParsed
<1>6. ~torn' =>
          /\ AreCalls(accepted)'
          /\ AreFrames(Rest \o pipe, accepted)'
          /\ (~open => bytes = <<>> /\ pipe = <<>>)'
          /\ (pipePc = "idle" => Len(bytes) < BufferSize)'
          /\ FramesParsed'
  BY <1>1, <1>3, <1>5
<1> QED
  BY <1>1, <1>2, <1>6 DEF PipeInv

\* A callback that the pipe takes comes behind those it has.
LEMMA ScheduleAppends ==
    ASSUME PipeTypeOK, PipeInv, ~torn,
           NEW n \in Sizes, ScheduleCallback(n)
    PROVE  /\ AreCalls(accepted')
           /\ AreFrames((Rest \o pipe)', accepted')
           /\ \/ accepted' = accepted
              \/ /\ accepted' # <<>>
                 /\ accepted' = Append(accepted, accepted'[Len(accepted')])
<1>1. /\ UNCHANGED <<bytes, pipePc, contextSize>>
      /\ UNCHANGED Rest
  BY DEF ScheduleCallback, Rest
<1>2. AreCalls(accepted) /\ AreFrames(Rest \o pipe, accepted)
  BY DEF PipeInv
<1>3. CASE UNCHANGED <<pipe, accepted>>
  BY <1>1, <1>2, <1>3
<1>4. CASE /\ pipe' = pipe \o Frame(numCalls + 1, n)
           /\ accepted' = Append(accepted,
                                 [id |-> numCalls + 1,
                                  context |-> Context(numCalls + 1, n)])
  <2>1. PICK i \in 1 .. MaxCalls : i = numCalls + 1
    BY SelfPipeAssumption DEF PipeTypeOK, ScheduleCallback
  <2>2. PICK R \in Seq(Byte) : R = Rest
    BY RestType
  <2>3. PICK P \in Seq(Byte) : P = pipe
    BY DEF PipeTypeOK
  <2>4. PICK calls \in Seq(Callback) : calls = accepted
    BY DEF PipeTypeOK
  <2> DEFINE f == Frame(i, n)
             c == [id |-> i, context |-> Context(i, n)]
             s == R \o P
  <2>5. f \in Seq(Byte) /\ c \in Callback
    BY FrameType DEF Callback
  <2>6. s \in Seq(Byte) /\ AreFrames(s, calls) /\ AreCalls(calls)
    <3>1. R \o P \in Seq(Byte)
      BY ConcatProperties
    <3> QED
      BY <1>2, <2>2, <2>3, <2>4, <3>1
  <2>7. /\ AreFrames(s \o f, Append(calls, c))
        /\ AreCalls(Append(calls, c))
    <3> HIDE DEF s
    <3> QED
      BY <2>6, FramesAppend
  <2>8. R \o (P \o f) = s \o f
    <3> HIDE DEF f
    <3>1. R \in Seq(Byte) /\ P \in Seq(Byte) /\ f \in Seq(Byte)
      BY <2>5
    <3>2. (R \o P) \o f = R \o (P \o f)
      BY <3>1, ConcatAssociative, SMTT(30)
    <3> QED
      BY <3>2
  <2>9. pipe' = P \o f /\ accepted' = Append(calls, c) /\ Rest' = R
    BY <1>1, <1>4, <2>1, <2>2, <2>3, <2>4
  <2>10. (Rest \o pipe)' = s \o f
    BY <2>8, <2>9
  <2> HIDE DEF c, f, s
  <2>11. /\ Append(calls, c) # <<>>
         /\ Append(calls, c)[Len(Append(calls, c))] = c
    BY <2>5, AppendProperties
  <2> QED
    BY <2>4, <2>7, <2>9, <2>10, <2>11
<1> QED
  BY <1>3, <1>4 DEF ScheduleCallback

\* The frames gain one, or stay.
LEMMA PipeSchedule ==
    ASSUME PipeTypeOK, PipeInv, NEW n \in Sizes, ScheduleCallback(n)
    PROVE  PipeInv'
<1>1. /\ UNCHANGED <<open, bytes, pipePc, current, torn>>
      /\ ~open => pipe' = pipe
      /\ UNCHANGED FramesParsed
  BY DEF ScheduleCallback, FramesParsed
<1>2. ~torn => /\ AreCalls(accepted)'
               /\ AreFrames(Rest \o pipe, accepted)'
  BY ScheduleAppends
<1> QED
  BY <1>1, <1>2 DEF PipeInv

\* A read moves bytes between pipe and buffer, and no frame.
LEMMA PipeRead ==
    PipeTypeOK /\ PipeInv /\ ReadPipe => PipeInv'
<1> SUFFICES ASSUME PipeTypeOK, PipeInv, ReadPipe PROVE PipeInv'
  OBVIOUS
<1>1. /\ UNCHANGED <<open, current, accepted, torn>>
      /\ open /\ pipePc = "idle"
  BY DEF ReadPipe
<1>2. /\ bytes' \o pipe' = bytes \o pipe
      /\ pipePc' = IF Len(bytes) < BufferSize THEN "parse" ELSE "aborted"
  BY ReadMoves
<1>3. Rest' = bytes' /\ Rest = bytes
  BY <1>1, <1>2 DEF Rest
<1>4. UNCHANGED (Rest \o pipe)
  BY <1>2, <1>3
<1>5. UNCHANGED <<AreCalls(accepted),
                  AreFrames(Rest \o pipe, accepted)>>
  BY <1>1, <1>4
<1>6. ~torn => pipePc' = "parse"
  BY <1>1, <1>2 DEF PipeInv
<1> QED
  BY <1>1, <1>2, <1>5, <1>6 DEF PipeInv, FramesParsed

\* A buffer whose first frame is not complete is not full.
LEMMA PipeNotComplete ==
    ASSUME SizesHold, PipeTypeOK, PipeInv, NotComplete
    PROVE  PipeInv'
<1>1. /\ UNCHANGED <<open, bytes, pipe, current, accepted, torn>>
      /\ pipePc = "parse" /\ pipePc' = "idle"
  BY DEF NotComplete
<1>2. Rest' = bytes' /\ Rest = bytes
  BY <1>1 DEF Rest
<1>3. UNCHANGED <<AreCalls(accepted),
                  AreFrames(Rest \o pipe, accepted)>>
  BY <1>1, <1>2
<1>4. ~torn => Len(bytes) < BufferSize
  <2> SUFFICES ASSUME ~torn PROVE Len(bytes) < BufferSize
    OBVIOUS
  <2>1. Len(bytes) \in Nat /\ HeaderSize = 2 /\ UINT8_MAX \in Nat \ {0}
    BY LenProperties, SelfPipeAssumption DEF PipeTypeOK, HeaderSize
  <2>2. CASE ~(Len(bytes) >= HeaderSize)
    BY <2>1, <2>2 DEF BufferSize
  <2>3. CASE Len(bytes) >= HeaderSize
    <3>1. PICK i \in 1 .. MaxCalls, n \in Sizes :
                 /\ n \in 0 .. UINT8_MAX /\ ToSizeT(n) = n
                 /\ Complete(n) <=> Len(bytes) >= HeaderSize + n
                 /\ SizesOf(bytes[HeaderSize]) = {n}
      BY <1>1, <2>3, FirstFrame
    <3>2. ~Complete(n)
      BY <2>3, <3>1 DEF NotComplete
    <3>3. ~(Len(bytes) >= HeaderSize + n) /\ n \in Nat /\ n <= UINT8_MAX
      BY <2>1, <3>1, <3>2
    <3> QED
      BY <2>1, <3>3 DEF BufferSize
  <2> QED
    BY <2>2, <2>3
<1>5. FramesParsed'
  BY <1>1 DEF FramesParsed
<1> QED
  BY <1>1, <1>3, <1>4, <1>5 DEF PipeInv

\* The frames lose the first.
LEMMA PipeCallFrame ==
    ASSUME SizesHold, PipeTypeOK, PipeInv, CallFrame
    PROVE  PipeInv'
<1>1. UNCHANGED <<open, pipe, torn>> /\ pipePc = "parse" /\ open
  BY DEF CallFrame, PipeInv
<1>2. /\ pipePc' \in {"callback", "undefined"}
      /\ pipePc' # "callback" => current' = NoCallback
  BY CallFrameEffect
<1>3. ~torn => /\ AreCalls(accepted)'
               /\ AreFrames(Rest \o pipe, accepted)'
               /\ pipePc' = "callback"
  BY CallIsFirst
<1> QED
  BY <1>1, <1>2, <1>3 DEF PipeInv, FramesParsed

\* The context behind which the frames are goes.
LEMMA PipeCallbackReturns ==
    PipeTypeOK /\ PipeInv /\ CallReturns => PipeInv'
<1> SUFFICES ASSUME PipeTypeOK, PipeInv, CallReturns
             PROVE  PipeInv'
  OBVIOUS
<1>1. /\ UNCHANGED <<open, pipe, accepted, torn>>
      /\ pipePc = "callback" /\ pipePc' = "parse"
      /\ current' = NoCallback /\ open
      /\ bytes' = SubSeq(bytes, contextSize + 1, Len(bytes))
  BY DEF CallReturns, PipeInv
<1>2. UNCHANGED Rest
  BY <1>1 DEF Rest
<1>3. UNCHANGED <<AreCalls(accepted),
                  AreFrames(Rest \o pipe, accepted)>>
  BY <1>1, <1>2
<1> QED
  BY <1>1, <1>3 DEF PipeInv, FramesParsed

\* Every step keeps the invariant.
LEMMA PipeStep ==
    ASSUME SizesHold, PipeTypeOK, PipeInv, [PipeNext]_pipeVars
    PROVE  PipeInv'
<1>1. CASE Create
  BY <1>1, PipeCreate
<1>2. CASE Release
  BY <1>2, PipeRelease
<1>3. CASE \E n \in Sizes : ScheduleCallback(n)
  BY <1>3, PipeSchedule
<1>4. CASE ReadPipe
  BY <1>4, PipeRead
<1>5. CASE NotComplete
  BY <1>5, PipeNotComplete
<1>6. CASE CallFrame
  BY <1>6, PipeCallFrame
<1>7. CASE CallReturns
  BY <1>7, PipeCallbackReturns
<1>8. CASE UNCHANGED pipeVars
  BY <1>8 DEF PipeInv, FramesParsed, Rest, pipeVars
<1> QED
  BY <1>1, <1>2, <1>3, <1>4, <1>5, <1>6, <1>7, <1>8
     DEF PipeNext, RunLoopStep

\* The inductive invariant of the self-pipe.
LEMMA PipeInvariant ==
    ASSUME SizesHold
    PROVE  PipeSpec => [](PipeTypeOK /\ PipeInv)
<1>1. PipeInit => PipeTypeOK /\ PipeInv
  BY TypeInit, PipeInitially
<1>2. PipeTypeOK /\ PipeInv /\ [PipeNext]_pipeVars =>
          PipeTypeOK' /\ PipeInv'
  BY TypeStep, PipeStep
<1> QED
  BY <1>1, <1>2, PTL DEF PipeSpec

\* Where sizes are read as they were written, the loop reads every frame that
\* HAPPlatformRunLoopScheduleCallback wrote as such, wherever the reads cut
\* it: HandleSelfPipeFileHandleCallback neither aborts nor calls what is no
\* callback, until a release tears a frame.
THEOREM FramesAreParsed ==
    ASSUME SizesHold
    PROVE  PipeSpec => []FramesParsed
<1>1. PipeInv => FramesParsed
  BY DEF PipeInv, FramesParsed
<1> QED
  BY <1>1, PipeInvariant, PTL

\* A step of the pipe is one of the queue, or none it sees.
LEMMA QueueStep ==
    ASSUME SizesHold, PipeTypeOK, PipeInv, [PipeNext]_pipeVars
    PROVE  [Queue!Next]_<<IF torn THEN <<>> ELSE accepted,
                          IF torn THEN NoCallback ELSE current>>
<1> DEFINE q == IF torn THEN <<>> ELSE accepted
           r == IF torn THEN NoCallback ELSE current
<1>1. CASE Create
  BY <1>1 DEF Create
<1>2. CASE Release
  <2>1. /\ pipePc = "idle" /\ accepted' = <<>> /\ current' = current
        /\ torn' = (torn \/ bytes # <<>>)
    BY <1>2 DEF Release
  <2>2. r = NoCallback /\ q' = <<>> /\ r' = NoCallback
    BY <2>1 DEF PipeInv
  <2> QED
    BY <2>2 DEF Queue!Next, Queue!Release
<1>3. CASE \E n \in Sizes : ScheduleCallback(n)
  <2>1. PICK n \in Sizes : ScheduleCallback(n)
    BY <1>3
  <2>2. UNCHANGED <<torn, current>>
    BY <2>1 DEF ScheduleCallback
  <2>3. CASE torn
    BY <2>2, <2>3
  <2>4. CASE ~torn
    <3>1. q = accepted /\ q' = accepted' /\ r' = r
      BY <2>2, <2>4
    <3>2. \/ accepted' = accepted
          \/ /\ accepted' # <<>>
             /\ accepted' = Append(accepted, accepted'[Len(accepted')])
      BY <2>1, <2>4, ScheduleAppends
    <3> QED
      BY <3>1, <3>2 DEF Queue!Next, Queue!Schedule
  <2> QED
    BY <2>3, <2>4
<1>4. CASE ReadPipe
  BY <1>4 DEF ReadPipe
<1>5. CASE NotComplete
  BY <1>5 DEF NotComplete
<1>6. CASE CallFrame
  <2>1. torn' = torn /\ pipePc = "parse"
    BY <1>6 DEF CallFrame
  <2>2. CASE torn
    BY <2>1, <2>2
  <2>3. CASE ~torn
    <3>1. /\ q = accepted /\ r = NoCallback /\ q' = accepted' /\ r' = current'
      BY <2>1, <2>3 DEF PipeInv
    <3>2. /\ accepted # <<>> /\ accepted' = Tail(accepted)
          /\ current' = Head(accepted)
      BY <1>6, <2>3, CallIsFirst
    <3> QED
      BY <3>1, <3>2 DEF Queue!Next, Queue!Call
  <2> QED
    BY <2>2, <2>3
<1>7. CASE CallReturns
  <2>1. UNCHANGED <<accepted, torn>> /\ current' = NoCallback
    BY <1>7 DEF CallReturns
  <2>2. q' = q /\ r' = NoCallback
    BY <2>1
  <2> QED
    BY <2>2 DEF Queue!Next, Queue!Return
<1>8. CASE UNCHANGED pipeVars
  BY <1>8 DEF pipeVars
<1> QED
  BY <1>1, <1>2, <1>3, <1>4, <1>5, <1>6, <1>7, <1>8
     DEF PipeNext, RunLoopStep

\* What HAPPlatformRunLoopScheduleCallback accepted is called on the run loop
\* once, in order and with its own context: the frames in the pipe and the
\* buffer of HandleSelfPipeFileHandleCallback are the queue of callbacks.
THEOREM CallsInOrder ==
    ASSUME SizesHold
    PROVE  PipeSpec => ImplementsCallbackQueue
<1>1. PipeInit => Queue!Init
  BY DEF PipeInit, Queue!Init
<1>2. PipeTypeOK /\ PipeInv /\ [PipeNext]_pipeVars =>
          [Queue!Next]_<<IF torn THEN <<>> ELSE accepted,
                         IF torn THEN NoCallback ELSE current>>
  BY QueueStep
<1> QED
  BY <1>1, <1>2, PipeInvariant, PTL
     DEF PipeSpec, ImplementsCallbackQueue, Queue!Spec

\* The context's size that HandleSelfPipeFileHandleCallback reads from its
\* buffer of char is the size that was written for all the sizes in use, if
\* and only if a char is unsigned or they are below half a byte's values.
THEOREM SizesThatHold ==
    SizesHold <=> \/ ~CharIsSigned
                  \/ \A n \in Sizes : 2 * n < ByteMax
<1>1. ByteMax \in Nat \ {0} /\ \A n \in Sizes : n \in Nat
  BY SelfPipeAssumption DEF ByteMax
<1>2. ASSUME NEW n \in Sizes
      PROVE  ToSizeT(n) = n <=> ~CharIsSigned \/ 2 * n < ByteMax
  <2>1. CASE CharIsSigned /\ 2 * n >= ByteMax
    BY <1>1, <2>1 DEF ToSizeT, SizeMax
  <2>2. CASE ~(CharIsSigned /\ 2 * n >= ByteMax)
    BY <1>1, <2>2 DEF ToSizeT
  <2> QED
    BY <2>1, <2>2
<1> QED
  BY <1>2 DEF SizesHold

================================================================================
