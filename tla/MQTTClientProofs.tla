--------------------------- MODULE MQTTClientProofs ---------------------------
(***************************************************************************)
(* Proofs about the AWS thread and its MQTT client: for any number of       *)
(* failures and commands and any wait to reconnect, its loop never goes on  *)
(* before the broker has decided on its subscription, and a connection      *)
(* takes nothing over from the one before it.                              *)
(***************************************************************************)
EXTENDS MQTTClient, TLAPS

\* A packet that is added at the end does not hide one that is there.
LEMMA AppendPacket ==
    ASSUME NEW s \in Seq(Packet), NEW p \in Packet
    PROVE  /\ Append(s, p) \in Seq(Packet)
           /\ ToSet(Append(s, p)) = ToSet(s) \cup {p}
<1>1. /\ Append(s, p) \in Seq(Packet) /\ DOMAIN Append(s, p) = 1 .. Len(s) + 1
      /\ \A i \in 1 .. Len(s) : Append(s, p)[i] = s[i]
      /\ Append(s, p)[Len(s) + 1] = p
      /\ DOMAIN s = 1 .. Len(s) /\ Len(s) \in Nat
  OBVIOUS
<1> QED
  BY <1>1 DEF ToSet

\* A packet that is not the first is still there without the first.
LEMMA TailPacket ==
    ASSUME NEW s \in Seq(Packet), s # <<>>
    PROVE  /\ Tail(s) \in Seq(Packet)
           /\ \A p \in ToSet(s) : p # Head(s) => p \in ToSet(Tail(s))
<1>1. /\ Tail(s) \in Seq(Packet) /\ Head(s) = s[1]
      /\ Len(s) \in Nat \ {0} /\ DOMAIN s = 1 .. Len(s)
      /\ DOMAIN Tail(s) = 1 .. Len(s) - 1
      /\ \A i \in 1 .. Len(s) - 1 : Tail(s)[i] = s[i + 1]
  OBVIOUS
<1>2. ASSUME NEW p \in ToSet(s), p # Head(s) PROVE p \in ToSet(Tail(s))
  <2>1. PICK i \in 1 .. Len(s) : s[i] = p
    BY <1>1 DEF ToSet
  <2>2. i - 1 \in 1 .. Len(s) - 1 /\ Tail(s)[i - 1] = p
    BY <1>1, <1>2, <2>1
  <2> QED
    BY <1>1, <2>2 DEF ToSet
<1> QED
  BY <1>1, <1>2

\* What is read leaves the rest of the packets there.
LEMMA ReadPacket ==
    ASSUME inbox \in Seq(Packet), NEW type, ReadWhole(type)
    PROVE  /\ inbox' \in Seq(Packet) /\ partial' = "none"
           /\ \A p \in ToSet(inbox) : p # type => p \in ToSet(inbox')
  BY TailPacket DEF ReadWhole, HeadIs

\* A read that is cut takes away at most a packet that has a body.
LEMMA CutPacket ==
    ASSUME inbox \in Seq(Packet), NEW box \in CutInbox
    PROVE  /\ box \in Seq(Packet)
           /\ "PINGRESP" \in ToSet(inbox) => "PINGRESP" \in ToSet(box)
<1>1. CASE box = inbox
  BY <1>1
<1>2. CASE inbox # <<>> /\ ~HeadIs("PINGRESP") /\ box = <<"CUT">> \o Tail(inbox)
  <2> DEFINE t == Tail(inbox)
  <2>1. /\ t \in Seq(Packet)
        /\ "PINGRESP" \in ToSet(inbox) => "PINGRESP" \in ToSet(t)
    BY <1>2, TailPacket DEF HeadIs
  <2> HIDE DEF t
  <2>2. <<"CUT">> \in Seq(Packet)
    BY DEF Packet
  <2>3. /\ <<"CUT">> \o t \in Seq(Packet)
        /\ DOMAIN (<<"CUT">> \o t) = 1 .. Len(t) + 1
        /\ DOMAIN t = 1 .. Len(t) /\ Len(t) \in Nat
        /\ \A i \in 1 .. Len(t) : (<<"CUT">> \o t)[i + 1] = t[i]
    BY <2>1, <2>2
  <2>4. \A i \in 1 .. Len(t) : i + 1 \in DOMAIN (<<"CUT">> \o t)
    BY <2>3
  <2>5. \A p \in ToSet(t) : p \in ToSet(<<"CUT">> \o t)
    BY <2>3, <2>4 DEF ToSet
  <2> QED
    BY <1>2, <2>1, <2>3, <2>5 DEF t
<1> QED
  BY <1>1, <1>2 DEF CutInbox

\* What arrives of the packets under way is packets.
LEMMA ArrivingPacket ==
    ASSUME inbox \in Seq(Packet), NEW box \in Arriving
    PROVE  box \in Seq(Packet)
<1>1. \A k \in 0 .. Len(inbox) : SubSeq(inbox, 1, k) \in Seq(Packet)
  OBVIOUS
<1>2. \A k \in 0 .. Len(inbox) - 1 :
          Append(SubSeq(inbox, 1, k), "CUT") \in Seq(Packet)
  BY <1>1 DEF Packet
<1> QED
  BY <1>1, <1>2 DEF Arriving

\* A message is put among the packets under way.
LEMMA SentPacket ==
    ASSUME inbox \in Seq(Packet), NEW message \in Packet, NEW box \in Sent(message)
    PROVE  /\ box \in Seq(Packet)
           /\ "PINGRESP" \in ToSet(inbox) => "PINGRESP" \in ToSet(box)
<1>1. CASE box = Append(inbox, message)
  BY <1>1, AppendPacket
<1>2. CASE /\ inbox # <<>> /\ Last(inbox) = "SUBACK"
           /\ box = Append(Front(inbox), message) \o <<Last(inbox)>>
  <2> DEFINE f == Front(inbox)
             g == Append(f, message)
  <2>1. /\ Len(inbox) \in Nat \ {0} /\ DOMAIN inbox = 1 .. Len(inbox)
        /\ f \in Seq(Packet) /\ Len(f) = Len(inbox) - 1
        /\ DOMAIN f = 1 .. Len(inbox) - 1
        /\ \A i \in 1 .. Len(inbox) - 1 : f[i] = inbox[i]
        /\ inbox[Len(inbox)] = "SUBACK"
    BY <1>2 DEF Front, Last
  <2>2. "PINGRESP" \in ToSet(inbox) => "PINGRESP" \in ToSet(f)
    BY <2>1 DEF ToSet
  <2>3. g \in Seq(Packet) /\ ("PINGRESP" \in ToSet(f) => "PINGRESP" \in ToSet(g))
    BY <2>1, AppendPacket
  <2> HIDE DEF f, g
  <2>4. "SUBACK" \in Packet
    BY DEF Packet
  <2>5. box = g \o <<"SUBACK">>
    BY <1>2 DEF f, g
  <2>6. /\ g \o <<"SUBACK">> \in Seq(Packet)
        /\ DOMAIN (g \o <<"SUBACK">>) = 1 .. Len(g) + 1
        /\ DOMAIN g = 1 .. Len(g) /\ Len(g) \in Nat
        /\ \A i \in 1 .. Len(g) : (g \o <<"SUBACK">>)[i] = g[i]
    BY <2>3, <2>4
  <2>7. \A p \in ToSet(g) : p \in ToSet(g \o <<"SUBACK">>)
    BY <2>6 DEF ToSet
  <2> QED
    BY <2>2, <2>3, <2>5, <2>6, <2>7
<1> QED
  BY <1>1, <1>2 DEF Sent

--------------------------------------------------------------------------------
\* The client starts as the invariant says.
LEMMA InvariantInit == Init => IndInv
<1> SUFFICES ASSUME Init PROVE IndInv
  OBVIOUS
<1> USE MQTTAssumption DEF Init
<1>1. TypeOK
  <2>1. /\ booting \in BOOLEAN /\ last \in BOOLEAN /\ delayed \in BOOLEAN
        /\ isPingOutstanding \in BOOLEAN /\ pingDue \in BOOLEAN
        /\ up \in BOOLEAN /\ subscription \in {"none", "granted", "refused"}
    BY Zenon
  <2>2. /\ wait \in 1 .. 2 * MaxWait /\ inbox \in Seq(Packet)
        /\ faults \in 0 .. MaxFaults /\ published \in 0 .. MaxCommands
    OBVIOUS
  <2> QED
    BY <2>1, <2>2, Zenon DEF TypeOK, GoesOn, Connected
<1>2. ConnectionInv
  BY DEF ConnectionInv, Starting
<1>3. SubscriptionInv
  BY DEF SubscriptionInv, Starting, InLoop
<1>4. NothingCarriedOver
  BY DEF NothingCarriedOver, PartialIsCurrent, PingAnswered
<1> QED
  BY <1>1, <1>2, <1>3, <1>4 DEF IndInv

\* A connection that is given up leaves the network's state well typed.
LEMMA DisconnectedType ==
    ASSUME TypeOK, NEW p \in {"none", "current", "stale"}, Disconnected(p)
    PROVE  /\ conn' = "none" /\ inbox' = <<>> /\ inbox' \in Seq(Packet)
           /\ subscription' = "none" /\ partial' \in {"none", "stale"}
           /\ UNCHANGED <<up, faults, published>>
  BY DEF Disconnected, TypeOK

LEMMA CutShortType ==
    ASSUME TypeOK
    PROVE  /\ CutShort \in {"none", "current", "stale"}
           /\ CutShort = "stale" => partial = "stale"
  BY DEF CutShort, TypeOK

\* The wait to reconnect is doubled only while it is within the maximum.
LEMMA BackoffType ==
    ASSUME TypeOK, wait <= MaxWait, NEW result \in GoesOn \cup {"ERROR"},
           Backoff(result)
    PROVE  /\ pc' = "yielded" /\ rc' \in {result, "ERROR"}
           /\ wait' \in 1 .. 2 * MaxWait /\ delayed' \in BOOLEAN
  BY MQTTAssumption DEF TypeOK, Backoff

LEMMA ConnectFailsType ==
    ASSUME TypeOK, wait <= MaxWait, ConnectFails
    PROVE  /\ wait' \in 1 .. 2 * MaxWait /\ delayed' \in BOOLEAN
           /\ IF booting
              THEN /\ pc' = "ended" /\ rc' = rc
                   /\ clientState' = "DISCONNECTED_ERROR"
              ELSE /\ pc' = "yielded" /\ clientState' = "PENDING_RECONNECT"
                   /\ rc' \in {"ATTEMPTING_RECONNECT", "ERROR"}
  BY BackoffType DEF ConnectFails, GoesOn, TypeOK

\* Giving up a connection that was made before.
LEMMA HandleDisconnectType ==
    ASSUME TypeOK, NEW p \in {"none", "current", "stale"}, HandleDisconnect(p)
    PROVE  TypeOK'
<1>1. /\ conn' = "none" /\ inbox' \in Seq(Packet)
      /\ subscription' = "none" /\ partial' \in {"none", "stale"}
      /\ UNCHANGED <<up, faults, published>>
  BY DisconnectedType DEF HandleDisconnect
<1>2. wait' \in 1 .. 2 * MaxWait
  BY MQTTAssumption DEF HandleDisconnect
<1>3. subscription' = "none" /\ delayed' \in BOOLEAN
  BY <1>1, Zenon DEF HandleDisconnect
<1> QED
  BY <1>1, <1>2, <1>3, Zenon DEF HandleDisconnect, TypeOK, GoesOn, pingVars

\* The steps that connect and subscribe keep the types.
LEMMA ConnectTypes ==
    ASSUME TypeOK, ConnectionInv,
           \/ Connect \/ NoConnection \/ Connack \/ NoConnack
           \/ Subscribe \/ CommandBeforeSuback \/ Suback \/ NoSubscription
    PROVE  TypeOK'
<1> USE DEF pingVars, GoesOn, Connected
<1>1. CASE Connect
  <2>1. \A type \in {"CONNACK", "REFUSED"} : <<type>> \in Seq(Packet)
    BY DEF Packet
  <2> QED
    BY <1>1, <2>1 DEF Connect, FlushBuffers, TypeOK
<1>2. CASE NoConnection
  <2>1. wait <= MaxWait
    BY <1>2 DEF NoConnection, ConnectionInv, Starting
  <2>2. /\ conn' = "none" /\ inbox' \in Seq(Packet)
        /\ subscription' = "none" /\ partial' \in {"none", "stale"}
        /\ UNCHANGED <<up, faults, published>>
    BY <1>2, DisconnectedType DEF NoConnection, FlushBuffers
  <2> QED
    BY <1>2, <2>1, <2>2, ConnectFailsType DEF NoConnection, TypeOK
<1>3. CASE Connack
  BY <1>3, ReadPacket DEF Connack, TypeOK
<1>4. CASE NoConnack
  <2>1. wait <= MaxWait
    BY <1>4 DEF NoConnack, ConnectionInv, Starting
  <2>2. /\ conn' = "none" /\ inbox' \in Seq(Packet)
        /\ subscription' = "none" /\ partial' \in {"none", "stale"}
        /\ UNCHANGED <<up, faults, published>>
    BY <1>4, DisconnectedType, CutShortType DEF NoConnack
  <2> QED
    BY <1>4, <2>1, <2>2, ConnectFailsType DEF NoConnack, TypeOK
<1>5. CASE Subscribe
  <2>1. /\ inbox' \in Seq(Packet)
        /\ subscription' \in {"none", "granted", "refused"}
    BY <1>5, AppendPacket DEF Subscribe, TypeOK, Packet
  <2> QED
    BY <1>5, <2>1 DEF Subscribe, TypeOK
<1>6. CASE CommandBeforeSuback
  BY <1>6, ReadPacket DEF CommandBeforeSuback, TypeOK
<1>7. CASE Suback
  BY <1>7, ReadPacket DEF Suback, TypeOK
<1>8. CASE NoSubscription
  <2>1. wait <= MaxWait
    BY <1>8 DEF NoSubscription, ConnectionInv, Starting
  <2>2. inbox' \in Seq(Packet) /\ partial' \in {"none", "current", "stale"}
    BY <1>8, CutPacket, CutShortType, ReadPacket DEF NoSubscription, TypeOK
  <2>3. /\ wait' \in 1 .. 2 * MaxWait /\ delayed' \in BOOLEAN
        /\ pc' \in {"ended", "yielded"} /\ rc' \in GoesOn \cup {"ERROR"}
    BY <1>8, <2>1, BackoffType DEF NoSubscription, TypeOK
  <2> QED
    BY <1>8, <2>2, <2>3 DEF NoSubscription, TypeOK
<1> QED
  BY <1>1, <1>2, <1>3, <1>4, <1>5, <1>6, <1>7, <1>8

\* The steps of the loop keep the types.
LEMMA LoopTypes ==
    ASSUME TypeOK,
           \/ Yield \/ YieldReturns \/ YieldAgain
           \/ GiveUp \/ NotYet \/ AttemptReconnect
    PROVE  TypeOK'
<1> USE DEF pingVars, client, network, thread, GoesOn, Connected
<1>1. CASE Yield
  BY <1>1 DEF Yield, TypeOK
<1>2. CASE YieldReturns
  BY <1>2 DEF YieldReturns, TypeOK
<1>3. CASE YieldAgain \/ GiveUp \/ NotYet \/ AttemptReconnect
  BY <1>3 DEF YieldAgain, GiveUp, NotYet, AttemptReconnect, TypeOK
<1> QED
  BY <1>1, <1>2, <1>3

\* The steps that read and keep the connection alive keep the types.
LEMMA ReadTypes ==
    ASSUME TypeOK,
           \/ ReadNothing \/ ReadCommand \/ ReadExit \/ ReadPingresp
           \/ ReadSuback \/ ReadLong \/ ReadPart \/ ReadFails
           \/ PingNotDue \/ PingFails \/ Ping
    PROVE  TypeOK'
<1> USE DEF pingVars, client, network, thread, GoesOn, Connected
<1>1. CASE ReadNothing \/ PingNotDue
  BY <1>1 DEF ReadNothing, PingNotDue, TypeOK
<1>2. CASE ReadCommand \/ ReadExit \/ ReadSuback
  BY <1>2, ReadPacket DEF ReadCommand, ReadExit, ReadSuback, TypeOK
<1>3. CASE ReadPingresp
  <2>1. inbox' \in Seq(Packet) /\ partial' = "none"
    BY <1>3, ReadPacket DEF ReadPingresp, TypeOK
  <2>2. /\ isPingOutstanding' \in BOOLEAN /\ pingDue' \in BOOLEAN
        /\ pc' = "keepAlive"
        /\ UNCHANGED <<booting, last, rc, clientState, wait, delayed, up, conn,
                       subscription, faults, published>>
    BY <1>3 DEF ReadPingresp
  <2> QED
    BY <2>1, <2>2 DEF TypeOK
<1>4. CASE ReadLong
  BY <1>4, ReadPacket DEF ReadLong, TypeOK
<1>5. CASE ReadPart
  BY <1>5, CutPacket, CutShortType DEF ReadPart, TypeOK
<1>6. CASE ReadFails
  BY <1>6, HandleDisconnectType, CutShortType DEF ReadFails
<1>7. CASE PingFails
  BY <1>7, HandleDisconnectType DEF PingFails, TypeOK
<1>8. CASE Ping
  <2>1. inbox' \in Seq(Packet)
    BY <1>8, AppendPacket DEF Ping, TypeOK, Packet
  <2>2. /\ isPingOutstanding' \in BOOLEAN /\ pingDue' \in BOOLEAN
        /\ pc' = "yielded" /\ rc' = "SUCCESS"
        /\ UNCHANGED <<booting, last, clientState, wait, delayed, partial, up,
                       conn, subscription, faults, published>>
    BY <1>8 DEF Ping
  <2> QED
    BY <2>1, <2>2 DEF TypeOK
<1> QED
  BY <1>1, <1>2, <1>3, <1>4, <1>5, <1>6, <1>7, <1>8

\* Time, the network and the broker keep the types.
LEMMA EnvironmentTypes ==
    ASSUME TypeOK, Time \/ Environment
    PROVE  TypeOK'
<1> USE MQTTAssumption DEF pingVars, client, network, thread, GoesOn, Connected
<1>1. CASE Time
  <2>1. /\ delayed' \in BOOLEAN /\ pingDue' \in BOOLEAN
        /\ UNCHANGED <<thread, clientState, wait, isPingOutstanding, partial,
                       network>>
    BY <1>1 DEF Time, PingTimerExpires, DelayExpires, TypeOK
  <2> QED
    BY <2>1 DEF TypeOK
<1>2. CASE NetworkDown
  <2>1. /\ inbox' \in Seq(Packet) /\ conn' \in {"none", "open", "dead", "closed"}
        /\ faults' \in 0 .. MaxFaults
    BY <1>2, ArrivingPacket DEF NetworkDown, TypeOK
  <2>2. up' \in BOOLEAN /\ UNCHANGED <<thread, client, subscription, published>>
    BY <1>2 DEF NetworkDown
  <2> QED
    BY <2>1, <2>2 DEF TypeOK
<1>3. CASE NetworkUp
  BY <1>3 DEF NetworkUp, TypeOK
<1>4. CASE PeerCloses
  <2>1. inbox' \in Seq(Packet) /\ faults' \in 0 .. MaxFaults
    BY <1>4, ArrivingPacket DEF PeerCloses, TypeOK
  <2> QED
    BY <1>4, <2>1 DEF PeerCloses, TypeOK
<1>5. CASE Publish
  <2>1. inbox' \in Seq(Packet)
    BY <1>5, SentPacket DEF Publish, TypeOK, Packet
  <2> QED
    BY <1>5, <2>1 DEF Publish, TypeOK
<1> QED
  BY <1>1, <1>2, <1>3, <1>4, <1>5 DEF Environment

\* Every step keeps the types.
LEMMA TypingNext == TypeOK /\ ConnectionInv /\ [Next]_vars => TypeOK'
<1>1. TypeOK /\ UNCHANGED vars => TypeOK'
  BY DEF vars, thread, client, network, pingVars, TypeOK
<1> QED
  BY <1>1, ConnectTypes, LoopTypes, ReadTypes, EnvironmentTypes DEF Next, Thread

--------------------------------------------------------------------------------
\* A client that waits to reconnect has no connection, and one that connects or
\* subscribes is in the state for it.
LEMMA ConnectionInvNext ==
    ASSUME TypeOK, ConnectionInv, [Next]_vars
    PROVE  ConnectionInv'
<1> USE DEF Starting
<1>1. ASSUME NEW p, HandleDisconnect(p) PROVE ConnectionInv'
  BY <1>1 DEF HandleDisconnect, Disconnected, ConnectionInv
<1>2. CASE Connect
  BY <1>2 DEF Connect, ConnectionInv
<1>3. CASE NoConnection \/ NoConnack
  <2>1. wait <= MaxWait /\ conn' = "none" /\ ConnectFails
    BY <1>3 DEF NoConnection, NoConnack, ConnectionInv, Disconnected
  <2>2. /\ pc' \in {"ended", "yielded"}
        /\ clientState' \in {"DISCONNECTED_ERROR", "PENDING_RECONNECT"}
    BY <2>1, ConnectFailsType
  <2> QED
    BY <2>1, <2>2 DEF ConnectionInv
<1>4. CASE Connack \/ Subscribe \/ CommandBeforeSuback \/ Suback
  BY <1>4 DEF Connack, Subscribe, CommandBeforeSuback, Suback, ConnectionInv
<1>5. CASE NoSubscription
  <2>1. /\ pc' \in {"ended", "yielded"} /\ clientState' = "IDLE"
    BY <1>5 DEF NoSubscription, Backoff
  <2> QED
    BY <2>1 DEF ConnectionInv
<1>6. CASE Yield \/ YieldReturns
  <2>1. /\ pc' \notin Starting /\ UNCHANGED conn
        /\ pc \notin Starting
        /\ clientState' \in {clientState, "IDLE", "YIELD"}
    BY <1>6 DEF Yield, YieldReturns, network
  <2> QED
    BY <2>1 DEF ConnectionInv
<1>7. CASE YieldAgain \/ GiveUp \/ NotYet \/ AttemptReconnect
  BY <1>7 DEF YieldAgain, GiveUp, NotYet, AttemptReconnect, Pending, client,
              network, ConnectionInv
<1>8. CASE \/ ReadNothing \/ ReadCommand \/ ReadExit \/ ReadPingresp
           \/ ReadSuback \/ ReadLong \/ ReadPart \/ PingNotDue \/ Ping
  BY <1>8 DEF ReadNothing, ReadCommand, ReadExit, ReadPingresp, ReadSuback,
              ReadLong, ReadPart, PingNotDue, Ping, Yielding, client, network,
              ConnectionInv
<1>9. CASE ReadFails \/ PingFails
  BY <1>1, <1>9 DEF ReadFails, PingFails
<1>10. CASE Time
  BY <1>10 DEF Time, PingTimerExpires, DelayExpires, thread, network,
               ConnectionInv
<1>11. CASE Environment
  <2>1. /\ UNCHANGED <<pc, clientState, wait>>
        /\ conn' = conn \/ conn \in {"open", "dead"}
    BY <1>11 DEF Environment, NetworkDown, NetworkUp, PeerCloses, Publish,
                 thread, client
  <2> QED
    BY <2>1 DEF ConnectionInv
<1>12. CASE UNCHANGED vars
  BY <1>12 DEF vars, thread, client, network, ConnectionInv
<1> QED
  BY <1>2, <1>3, <1>4, <1>5, <1>6, <1>7, <1>8, <1>9, <1>10, <1>11, <1>12
     DEF Next, Thread

\* A client that yields with a live connection, and whose loop goes on, has had
\* its subscription decided on.
LEMMA SubscriptionInvNext ==
    ASSUME TypeOK, ConnectionInv, SubscriptionInv, [Next]_vars
    PROVE  SubscriptionInv'
<1> USE DEF Starting, InLoop
<1>1. ASSUME NEW p, HandleDisconnect(p), ~booting PROVE SubscriptionInv'
  BY <1>1 DEF HandleDisconnect, Disconnected, SubscriptionInv
<1>2. CASE Connect
  BY <1>2 DEF Connect, SubscriptionInv
<1>3. CASE NoConnection \/ NoConnack
  <2>1. /\ wait <= MaxWait /\ conn' = "none" /\ ConnectFails
        /\ UNCHANGED <<booting, last>>
    BY <1>3 DEF NoConnection, NoConnack, ConnectionInv, Disconnected
  <2>2. IF booting
        THEN pc' = "ended"
        ELSE /\ pc' = "yielded" /\ clientState' = "PENDING_RECONNECT"
             /\ rc' \in {"ATTEMPTING_RECONNECT", "ERROR"}
    BY <2>1, ConnectFailsType
  <2>3. CASE booting
    BY <2>1, <2>2, <2>3 DEF SubscriptionInv
  <2>4. CASE ~booting
    BY <2>1, <2>2, <2>4 DEF SubscriptionInv
  <2> QED
    BY <2>3, <2>4
<1>4. CASE Connack \/ Subscribe \/ CommandBeforeSuback
  BY <1>4 DEF Connack, Subscribe, CommandBeforeSuback, SubscriptionInv,
              ConnectionInv
<1>5. CASE Suback
  BY <1>5 DEF Suback, SubscriptionInv
<1>6. CASE NoSubscription
  <2>1. /\ clientState' = "IDLE" /\ UNCHANGED <<booting, last, conn, subscription>>
        /\ IF booting THEN pc' = "ended" ELSE pc' = "yielded" /\ rc' = "ERROR"
    BY <1>6 DEF NoSubscription, Backoff
  <2> QED
    BY <2>1 DEF SubscriptionInv
<1>7. CASE Yield
  <2>1. UNCHANGED <<booting, conn, subscription>> /\ ~booting
    BY <1>7 DEF Yield, network, SubscriptionInv
  <2>2. CASE clientState = "PENDING_RECONNECT"
    BY <1>7, <2>1, <2>2 DEF Yield, SubscriptionInv
  <2>3. CASE clientState = "IDLE"
    <3>1. /\ last' = (rc \notin GoesOn) /\ pc' = "yield" /\ clientState' = "YIELD"
          /\ rc' = rc
      BY <1>7, <2>3 DEF Yield
    <3>2. conn = "open" /\ ~last' => subscription # "none"
      BY <1>7, <2>3, <3>1 DEF Yield, GoesOn, SubscriptionInv
    <3>3. rc # "ATTEMPTING_RECONNECT"
      BY <1>7, <2>3 DEF Yield, SubscriptionInv
    <3> QED
      BY <2>1, <3>1, <3>2, <3>3 DEF SubscriptionInv
  <2>4. CASE clientState \notin {"PENDING_RECONNECT", "IDLE"}
    <3>1. /\ pc' = IF last' THEN "ended" ELSE "main"
          /\ rc' = "ERROR" /\ clientState' = clientState
      BY <1>7, <2>4 DEF Yield
    <3>2. clientState # "YIELD" /\ last' \in BOOLEAN
      BY <1>7 DEF Yield, SubscriptionInv
    <3> QED
      BY <2>1, <3>1, <3>2 DEF SubscriptionInv
  <2> QED
    BY <2>2, <2>3, <2>4
<1>8. CASE YieldReturns
  BY <1>8 DEF YieldReturns, network, SubscriptionInv, GoesOn, TypeOK
<1>9. CASE YieldAgain \/ GiveUp \/ NotYet \/ AttemptReconnect
  BY <1>9 DEF YieldAgain, GiveUp, NotYet, AttemptReconnect, Pending, client,
              network, SubscriptionInv
<1>10. CASE \/ ReadNothing \/ ReadCommand \/ ReadExit \/ ReadPingresp
            \/ ReadSuback \/ ReadLong \/ ReadPart \/ PingNotDue \/ Ping
  BY <1>10 DEF ReadNothing, ReadCommand, ReadExit, ReadPingresp, ReadSuback,
               ReadLong, ReadPart, PingNotDue, Ping, Yielding, client, network,
               SubscriptionInv
<1>11. CASE ReadFails \/ PingFails
  <2>1. ~booting
    BY <1>11 DEF ReadFails, PingFails, Yielding, SubscriptionInv
  <2> QED
    BY <1>1, <1>11, <2>1 DEF ReadFails, PingFails
<1>12. CASE Time
  BY <1>12 DEF Time, PingTimerExpires, DelayExpires, thread, network,
               SubscriptionInv
<1>13. CASE Environment
  <2>1. /\ UNCHANGED <<pc, booting, last, rc, clientState, subscription>>
        /\ conn' = "open" => conn = "open"
    BY <1>13 DEF Environment, NetworkDown, NetworkUp, PeerCloses, Publish,
                 thread, client
  <2> QED
    BY <2>1 DEF SubscriptionInv
<1>14. CASE UNCHANGED vars
  BY <1>14 DEF vars, thread, client, network, SubscriptionInv
<1> QED
  BY <1>2, <1>3, <1>4, <1>5, <1>6, <1>7, <1>8, <1>9, <1>10, <1>11, <1>12, <1>13,
     <1>14 DEF Next, Thread

--------------------------------------------------------------------------------
\* A new connection begins with an empty buffer and no ping outstanding, and an
\* answer that is under way stays there until it is read.
LEMMA NothingCarriedOverNext ==
    ASSUME TypeOK, ConnectionInv, NothingCarriedOver, [Next]_vars
    PROVE  NothingCarriedOver'
<1> USE DEF NothingCarriedOver, PartialIsCurrent, Connected
<1>1. ASSUME conn' = "none" PROVE NothingCarriedOver'
  BY <1>1 DEF PingAnswered
<1>2. inbox \in Seq(Packet)
  BY DEF TypeOK
<1>3. ASSUME conn' = conn, partial' \in {partial, "none", CutShort},
             isPingOutstanding' = isPingOutstanding,
             clientState' \in Connected => clientState \in Connected,
             "PINGRESP" \in ToSet(inbox) => "PINGRESP" \in ToSet(inbox')
      PROVE  NothingCarriedOver'
  BY <1>3, CutShortType DEF PingAnswered
<1>4. CASE Connect
  BY <1>4 DEF Connect, FlushBuffers, PingAnswered
<1>5. CASE NoConnection \/ NoConnack \/ ReadFails \/ PingFails
  BY <1>1, <1>5 DEF NoConnection, NoConnack, ReadFails, PingFails,
                    HandleDisconnect, Disconnected
<1>6. CASE Connack
  BY <1>2, <1>6, ReadPacket DEF Connack, PingAnswered
<1>7. CASE Subscribe
  <2>1. "PINGRESP" \in ToSet(inbox) => "PINGRESP" \in ToSet(inbox')
    BY <1>2, <1>7, AppendPacket DEF Subscribe, Packet
  <2> QED
    BY <1>3, <1>7, <2>1 DEF Subscribe, ConnectionInv, pingVars
<1>8. CASE \/ CommandBeforeSuback \/ Suback \/ ReadCommand \/ ReadExit
           \/ ReadSuback \/ ReadLong
  <2>1. /\ partial' = "none"
        /\ "PINGRESP" \in ToSet(inbox) => "PINGRESP" \in ToSet(inbox')
    BY <1>2, <1>8, ReadPacket DEF CommandBeforeSuback, Suback, ReadCommand,
                                  ReadExit, ReadSuback, ReadLong
  <2>2. /\ conn' = conn /\ isPingOutstanding' = isPingOutstanding
        /\ clientState' \in Connected => clientState \in Connected
    BY <1>8 DEF CommandBeforeSuback, Suback, ReadCommand, ReadExit,
                ReadSuback, ReadLong, pingVars, ConnectionInv
  <2> QED
    BY <1>3, <2>1, <2>2
<1>9. CASE NoSubscription
  <2>1. /\ partial' \in {partial, "none", CutShort}
        /\ "PINGRESP" \in ToSet(inbox) => "PINGRESP" \in ToSet(inbox')
    BY <1>2, <1>9, ReadPacket, CutPacket DEF NoSubscription
  <2> QED
    BY <1>3, <1>9, <2>1 DEF NoSubscription, ConnectionInv, pingVars
<1>10. CASE Yield \/ YieldReturns
  <2>1. UNCHANGED <<conn, partial, inbox, pingVars>>
    BY <1>10 DEF Yield, YieldReturns, network
  <2>2. clientState' \in Connected => clientState \in Connected
    BY <1>10 DEF Yield, YieldReturns
  <2> QED
    BY <1>3, <2>1, <2>2 DEF pingVars
<1>11. CASE \/ YieldAgain \/ GiveUp \/ NotYet \/ AttemptReconnect
            \/ ReadNothing \/ PingNotDue \/ UNCHANGED vars
  <2>1. UNCHANGED <<client, network>>
    BY <1>11 DEF YieldAgain, GiveUp, NotYet, AttemptReconnect, ReadNothing,
                 PingNotDue, vars
  <2> QED
    BY <1>3, <2>1 DEF client, network, pingVars
<1>12. CASE ReadPingresp
  BY <1>2, <1>12, ReadPacket DEF ReadPingresp, PingAnswered
<1>13. CASE ReadPart
  BY <1>2, <1>3, <1>13, CutPacket DEF ReadPart, pingVars
<1>14. CASE Ping
  <2>1. conn = "open" => "PINGRESP" \in ToSet(inbox')
    BY <1>2, <1>14, AppendPacket DEF Ping, Packet
  <2> QED
    BY <1>14, <2>1 DEF Ping, PingAnswered
<1>15. CASE Time
  <2>1. UNCHANGED <<conn, partial, inbox, isPingOutstanding, clientState>>
    BY <1>15 DEF Time, PingTimerExpires, DelayExpires, network, pingVars
  <2> QED
    BY <1>3, <2>1
<1>16. CASE NetworkUp
  BY <1>3, <1>16 DEF NetworkUp, client, pingVars
<1>17. CASE NetworkDown \/ PeerCloses
  <2>1. /\ \/ conn' = conn /\ inbox' = inbox
           \/ conn' # "open" /\ conn # "none"
        /\ UNCHANGED client
    BY <1>17 DEF NetworkDown, PeerCloses
  <2> QED
    BY <1>3, <2>1 DEF client, pingVars, PingAnswered
<1>18. CASE Publish
  <2>1. "PINGRESP" \in ToSet(inbox) => "PINGRESP" \in ToSet(inbox')
    BY <1>2, <1>18, SentPacket DEF Publish, Packet
  <2> QED
    BY <1>3, <1>18, <2>1 DEF Publish, client, pingVars
<1> QED
  BY <1>4, <1>5, <1>6, <1>7, <1>8, <1>9, <1>10, <1>11, <1>12, <1>13, <1>14,
     <1>15, <1>16, <1>17, <1>18 DEF Next, Thread, Environment

\* Every step keeps the invariant.
LEMMA InvariantNext == IndInv /\ [Next]_vars => IndInv'
  BY TypingNext, ConnectionInvNext, SubscriptionInvNext, NothingCarriedOverNext
     DEF IndInv

(* Every variable keeps its type: in particular the wait to reconnect never  *)
(* exceeds twice the maximum of _aws_iot_mqtt_handle_reconnect.             *)
THEOREM Typing == Spec => []TypeOK
<1>1. Init => IndInv
  BY InvariantInit
<1>2. IndInv => TypeOK
  BY DEF IndInv
<1> QED
  BY <1>1, <1>2, InvariantNext, PTL DEF Spec

(* While the loop of AWSMainFunction goes on with a live connection, the     *)
(* broker has had this connection's SUBSCRIBE, however often resubscribing  *)
(* failed. That it granted the subscription does not follow: see NotDeaf.   *)
THEOREM Resubscription == Spec => []Resubscribed
<1>1. Init => IndInv
  BY InvariantInit
<1>2. IndInv => Resubscribed
  BY DEF IndInv, SubscriptionInv, ConnectionInv, Resubscribed, InLoop, GoesOn
<1> QED
  BY <1>1, <1>2, InvariantNext, PTL DEF Spec

(* Neither the bytes left in readBuf nor a ping without an answer pass from  *)
(* a connection that was lost to the one aws_iot_mqtt_connect makes.        *)
THEOREM FreshConnection == Spec => []NothingCarriedOver
<1>1. Init => IndInv
  BY InvariantInit
<1>2. IndInv => NothingCarriedOver
  BY DEF IndInv
<1> QED
  BY <1>1, <1>2, InvariantNext, PTL DEF Spec
==============================================================================
