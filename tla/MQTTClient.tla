----------------------------- MODULE MQTTClient -----------------------------
(***************************************************************************)
(* The AWS thread and its MQTT client: the loop of AWSMain.c, which yields *)
(* to the client as long as this succeeds or tries to reconnect, and the   *)
(* client's connection, subscription, keep-alive and reconnection          *)
(* (aws_iot_mqtt_client_yield.c, _connect.c, _subscribe.c and              *)
(* _common_internal.c). The client is built without threads, connects with *)
(* a clean session, and subscribes to one topic with QoS 0.                *)
(*                                                                         *)
(* The network and the broker are the environment: packets are delivered   *)
(* in order while a connection is open; it may go dead without notice, or  *)
(* be closed, and what was under way is lost from some byte on. A timeout   *)
(* may be over before anything arrives.                                    *)
(***************************************************************************)
EXTENDS Integers, Sequences, SequencesExt

CONSTANTS
    MaxWait,       \* the longest wait to reconnect, the shortest being 1
    MaxCommands,   \* bound: commands published
    MaxFaults      \* bound: times the network or the broker fails

ASSUME MQTTAssumption ==
    /\ MaxWait \in Nat \ {0}
    /\ MaxCommands \in Nat
    /\ MaxFaults \in Nat

VARIABLES
    pc,            \* where the AWS thread is
    booting,       \* the first connection and subscription are not made
    last,          \* the loop has ended; this is the yield after it
    rc,            \* the result, as AWSMainFunction tells them apart
    clientState,   \* clientStatus.clientState
    wait,          \* currentReconnectWaitInterval
    delayed,       \* reconnectDelayTimer has not expired
    isPingOutstanding,
    pingDue,       \* pingTimer has expired
    partial,       \* readBuf holds a part of a packet, and whose
    up,            \* the broker can be reached
    conn,          \* the connection
    inbox,         \* packets of the broker that were sent and not read
    subscription,  \* what the broker made of this connection's SUBSCRIBE
    faults,        \* bound: failures so far
    published      \* bound: commands published so far

thread == <<pc, booting, last, rc>>
pingVars == <<isPingOutstanding, pingDue>>
client == <<clientState, wait, delayed, pingVars, partial>>
network == <<up, conn, inbox, subscription, faults, published>>
vars == <<thread, client, network>>

GoesOn == {"SUCCESS", "ATTEMPTING_RECONNECT", "RECONNECTED"}

Connected == {"IDLE", "YIELD", "SUBSCRIBE", "RESUBSCRIBE"}

(* A message that is LONG does not fit the buffer: its remaining length is   *)
(* at least readBufSize. CUT stands for the rest of a packet, of its header *)
(* or of its body, that is not read whole any more.                         *)
Packet == {"CONNACK", "REFUSED", "SUBACK", "PINGRESP", "PUBLISH", "LONG", "CUT"}

HeadIs(type) == inbox # <<>> /\ Head(inbox) = type

(* aws_iot_mqtt_init, and AWSMainFunction up to the connection. *)
Init ==
    /\ pc = "connect"
    /\ booting = TRUE
    /\ last = FALSE
    /\ rc = "ERROR"
    /\ clientState = "INITIALIZED"
    /\ wait = 1
    /\ delayed = FALSE
    /\ isPingOutstanding = FALSE
    /\ pingDue = FALSE
    /\ partial = "none"
    /\ up = TRUE
    /\ conn = "none"
    /\ inbox = <<>>
    /\ subscription = "none"
    /\ faults = 0
    /\ published = 0

-----------------------------------------------------------------------------
(* Reading. A packet that was read whole leaves the buffer empty.          *)

ReadWhole(type) ==
    /\ HeadIs(type)
    /\ inbox' = Tail(inbox)
    /\ partial' = "none"

(* readBuf after a read that was cut: with a part of what was in the inbox. *)
CutShort == IF inbox = <<>> THEN partial ELSE "current"

(* What is left to read after it: bytes of a packet's body that were read    *)
(* are dropped, and the packet is not read whole any more. A ping's answer  *)
(* has no body.                                                            *)
CutInbox ==
    {inbox} \cup
        IF inbox = <<>> \/ HeadIs("PINGRESP") THEN {}
        ELSE {<<"CUT">> \o Tail(inbox)}

(* networkStack.disconnect and destroy, when readBuf is p. *)
Disconnected(p) ==
    /\ conn' = "none"
    /\ inbox' = <<>>
    /\ subscription' = "none"
    /\ partial' = IF p = "none" THEN "none" ELSE "stale"
    /\ UNCHANGED <<up, faults, published>>

-----------------------------------------------------------------------------
(* aws_iot_mqtt_connect and what follows it. At first a failure ends the    *)
(* thread; later it is part of _aws_iot_mqtt_handle_reconnect.             *)

(* The end of handle_reconnect without a connection. *)
Backoff(result) ==
    /\ pc' = "yielded"
    /\ wait' = 2 * wait
    /\ rc' = IF wait' > MaxWait THEN "ERROR" ELSE result
    /\ delayed' = (wait' <= MaxWait)

(* attempt_reconnect finds the client still disconnected. *)
ConnectFails ==
    IF booting
    THEN /\ pc' = "ended"
         /\ clientState' = "DISCONNECTED_ERROR"
         /\ UNCHANGED <<rc, wait, delayed>>
    ELSE /\ Backoff("ATTEMPTING_RECONNECT")
         /\ clientState' = "PENDING_RECONNECT"

BufferKept == partial     \* a mutation
FlushBuffers == "none"

(* TLS and the CONNECT packet; the broker may refuse it. *)
Connect ==
    /\ pc = "connect"
    /\ up
    /\ partial' = FlushBuffers
    /\ clientState' = "CONNECTING"
    /\ conn' = "open"
    /\ \E type \in {"CONNACK", "REFUSED"} : inbox' = <<type>>
    /\ pc' = "connack"
    /\ UNCHANGED <<booting, last, rc, wait, delayed, pingVars, up, subscription,
                   faults, published>>

NoConnection ==
    /\ pc = "connect"
    /\ Disconnected(FlushBuffers)
    /\ ConnectFails
    /\ UNCHANGED <<booting, last, pingVars>>

Connack ==
    /\ pc = "connack"
    /\ ReadWhole("CONNACK")
    /\ clientState' = "IDLE"
    /\ isPingOutstanding' = FALSE
    /\ pingDue' = FALSE
    /\ pc' = "subscribe"
    /\ UNCHANGED <<booting, last, rc, wait, delayed, up, conn, subscription,
                   faults, published>>

(* A refusal, an error, or no answer in time. *)
NoConnack ==
    /\ pc = "connack"
    /\ \/ Disconnected("none")
       \/ Disconnected(CutShort)
    /\ ConnectFails
    /\ UNCHANGED <<booting, last, pingVars>>

(* aws_iot_mqtt_subscribe, or resubscribe, and the broker, which grants the *)
(* subscription or refuses it, and answers with a SUBACK in either case. A  *)
(* closed connection may take the packet all the same.                     *)
Subscribe ==
    /\ pc = "subscribe"
    /\ clientState' = IF booting THEN "SUBSCRIBE" ELSE "RESUBSCRIBE"
    /\ IF conn = "open"
       THEN /\ subscription' \in {"granted", "refused"}
            /\ inbox' = Append(inbox, "SUBACK")
       ELSE UNCHANGED <<subscription, inbox>>
    /\ pc' = "suback"
    /\ UNCHANGED <<booting, last, rc, wait, delayed, pingVars, partial, up,
                   conn, faults, published>>

(* A command that comes before the answer is handled, unless the handler is *)
(* yet to be stored.                                                       *)
CommandBeforeSuback ==
    /\ pc = "suback"
    /\ ReadWhole("PUBLISH")
    /\ pc' \in IF booting THEN {"suback"} ELSE {"suback", "ended"}
    /\ UNCHANGED <<booting, last, rc, clientState, wait, delayed, pingVars, up,
                   conn, subscription, faults, published>>

(* The return code is copied and never looked at: a refusal passes for       *)
(* success.                                                                *)
Suback ==
    /\ pc = "suback"
    /\ ReadWhole("SUBACK")
    /\ IF booting
       THEN pc' = "main" /\ clientState' = "IDLE" /\ rc' = "SUCCESS"
       ELSE pc' = "yielded" /\ clientState' = "YIELD" /\ rc' = "RECONNECTED"
    /\ booting' = FALSE
    /\ UNCHANGED <<last, wait, delayed, pingVars, up, conn, subscription,
                   faults, published>>

(* The packet cannot be sent, or there is an error, a message that is too   *)
(* long, or no answer in time. The connection stays.                       *)
NoSubscription ==
    /\ pc \in {"subscribe", "suback"}
    /\ clientState' = "IDLE"
    /\ \/ UNCHANGED <<inbox, partial>>
       \/ pc = "suback" /\ partial' = CutShort /\ inbox' \in CutInbox
       \/ pc = "suback" /\ ReadWhole("LONG")
    /\ IF booting
       THEN pc' = "ended" /\ UNCHANGED <<rc, wait, delayed>>
       ELSE Backoff("ERROR")
    /\ UNCHANGED <<booting, last, pingVars, up, conn, subscription, faults,
                   published>>

-----------------------------------------------------------------------------
(* The loop of AWSMainFunction, and aws_iot_mqtt_yield.                    *)

(* Once more after the loop, whatever the result. A state that is neither   *)
(* idle nor pending is refused.                                            *)
Yield ==
    /\ pc = "main"
    /\ last' = (rc \notin GoesOn)
    /\ CASE clientState = "PENDING_RECONNECT" ->
              pc' = "yield" /\ UNCHANGED <<rc, clientState>>
         [] clientState = "IDLE" ->
              pc' = "yield" /\ clientState' = "YIELD" /\ rc' = rc
         [] OTHER ->
              /\ pc' = IF last' THEN "ended" ELSE "main"
              /\ rc' = "ERROR"
              /\ UNCHANGED clientState
    /\ UNCHANGED <<booting, wait, delayed, pingVars, partial, network>>

YieldReturnsIdle ==    \* a mutation
    /\ pc \in {"yielded", "exit"}
    /\ IF rc = "ATTEMPTING_RECONNECT" \/ clientState \notin {"IDLE", "YIELD"}
       THEN UNCHANGED <<rc, clientState>>
       ELSE clientState' = "IDLE" /\ rc' = rc
    /\ pc' = IF last THEN "ended" ELSE "main"
    /\ UNCHANGED <<booting, last, wait, delayed, pingVars, partial, network>>

(* The timer of the yield is over, or it broke off. A client that is not in *)
(* the state of a yield turns success into an error.                       *)
YieldReturns ==
    /\ pc \in {"yielded", "exit"}
    /\ IF rc = "ATTEMPTING_RECONNECT"
       THEN UNCHANGED <<rc, clientState>>
       ELSE IF clientState = "YIELD"
       THEN clientState' = "IDLE" /\ rc' = rc
       ELSE /\ rc' = IF rc = "SUCCESS" THEN "ERROR" ELSE rc
            /\ UNCHANGED clientState
    /\ pc' = IF last THEN "ended" ELSE "main"
    /\ UNCHANGED <<booting, last, wait, delayed, pingVars, partial, network>>

(* The timer of the yield is not over. *)
YieldAgain ==
    /\ pc = "yielded"
    /\ pc' = "yield"
    /\ UNCHANGED <<booting, last, rc, client, network>>

Yielding == pc = "yield" /\ clientState # "PENDING_RECONNECT"

Pending == pc = "yield" /\ clientState = "PENDING_RECONNECT"

GiveUp ==
    /\ Pending
    /\ wait > MaxWait
    /\ rc' = "ERROR"
    /\ pc' = "exit"
    /\ UNCHANGED <<booting, last, client, network>>

(* handle_reconnect, before and after its time. *)
NotYet ==
    /\ Pending
    /\ wait <= MaxWait
    /\ delayed
    /\ rc' = "ATTEMPTING_RECONNECT"
    /\ pc' = "yielded"
    /\ UNCHANGED <<booting, last, client, network>>

AttemptReconnectAlways ==    \* a mutation
    /\ Pending
    /\ ~delayed
    /\ pc' = "connect"
    /\ UNCHANGED <<booting, last, rc, client, network>>

AttemptReconnect ==
    /\ Pending
    /\ wait <= MaxWait
    /\ ~delayed
    /\ pc' = "connect"
    /\ UNCHANGED <<booting, last, rc, client, network>>

(* _aws_iot_mqtt_handle_disconnect, and internal_yield with auto-reconnect. *)
HandleDisconnect(p) ==
    /\ Disconnected(p)
    /\ clientState' = "PENDING_RECONNECT"
    /\ wait' = 1
    /\ delayed' = TRUE
    /\ rc' = "ATTEMPTING_RECONNECT"
    /\ pc' = "yielded"
    /\ UNCHANGED <<booting, last, pingVars>>

-----------------------------------------------------------------------------
(* cycle_read in a yield, one packet.                                      *)

ReadNothing ==
    /\ Yielding
    /\ inbox = <<>>
    /\ partial = "none"
    /\ conn # "closed"
    /\ pc' = "keepAlive"
    /\ UNCHANGED <<booting, last, rc, client, network>>

ReadCommand ==
    /\ Yielding
    /\ ReadWhole("PUBLISH")
    /\ pc' = "keepAlive"
    /\ UNCHANGED <<booting, last, rc, clientState, wait, delayed, pingVars, up,
                   conn, subscription, faults, published>>

(* The command 'e' ends the thread in the handler. *)
ReadExit ==
    /\ Yielding
    /\ ReadWhole("PUBLISH")
    /\ pc' = "ended"
    /\ UNCHANGED <<booting, last, rc, clientState, wait, delayed, pingVars, up,
                   conn, subscription, faults, published>>

PingrespIgnored ==    \* a mutation
    /\ Yielding
    /\ ReadWhole("PINGRESP")
    /\ pingDue' = FALSE
    /\ pc' = "keepAlive"
    /\ UNCHANGED <<booting, last, rc, clientState, wait, delayed, up, conn,
                   subscription, faults, published, isPingOutstanding>>

ReadPingresp ==
    /\ Yielding
    /\ ReadWhole("PINGRESP")
    /\ isPingOutstanding' = FALSE
    /\ pingDue' = FALSE
    /\ pc' = "keepAlive"
    /\ UNCHANGED <<booting, last, rc, clientState, wait, delayed, up, conn,
                   subscription, faults, published>>

(* The answer to a subscription nobody waits for any more. *)
ReadSuback ==
    /\ Yielding
    /\ ReadWhole("SUBACK")
    /\ pc' = "keepAlive"
    /\ UNCHANGED <<booting, last, rc, clientState, wait, delayed, pingVars, up,
                   conn, subscription, faults, published>>

(* A packet longer than the buffer is read and dropped, with an error. *)
ReadLong ==
    /\ Yielding
    /\ ReadWhole("LONG")
    /\ rc' = "ERROR"
    /\ pc' = "exit"
    /\ UNCHANGED <<booting, last, clientState, wait, delayed, pingVars, up,
                   conn, subscription, faults, published>>

(* The rest of a packet does not come in time, which is not success; and an *)
(* error in the body of a packet is a failure, also when the connection is  *)
(* closed. What is read after that is only on the way out.                  *)
ReadPart ==
    /\ Yielding
    /\ inbox # <<>> \/ partial # "none"
    /\ partial' = CutShort
    /\ inbox' \in CutInbox
    /\ rc' = "ERROR"
    /\ pc' = "exit"
    /\ UNCHANGED <<booting, last, clientState, wait, delayed, pingVars, up,
                   conn, subscription, faults, published>>

(* The connection is closed: at the end of a packet, in its header, or in a *)
(* message that is being dropped.                                          *)
ReadFails ==
    /\ Yielding
    /\ conn = "closed"
    /\ inbox = <<>> \/ HeadIs("CUT")
    /\ HandleDisconnect(CutShort)

-----------------------------------------------------------------------------
(* _aws_iot_mqtt_keep_alive, after a successful read.                      *)

PingNotDue ==
    /\ pc = "keepAlive"
    /\ ~pingDue
    /\ rc' = "SUCCESS"
    /\ pc' = "yielded"
    /\ UNCHANGED <<booting, last, client, network>>

UnansweredUnnoticed == FALSE    \* a mutation
Unanswered == pingDue /\ isPingOutstanding

(* The last ping was not answered, or this one cannot be sent. *)
PingFails ==
    /\ pc = "keepAlive"
    /\ Unanswered \/ (pingDue /\ conn = "closed")
    /\ HandleDisconnect(partial)

Ping ==
    /\ pc = "keepAlive"
    /\ pingDue
    /\ ~Unanswered
    /\ isPingOutstanding' = TRUE
    /\ pingDue' = FALSE
    /\ inbox' = IF conn = "open" THEN Append(inbox, "PINGRESP") ELSE inbox
    /\ rc' = "SUCCESS"
    /\ pc' = "yielded"
    /\ UNCHANGED <<booting, last, clientState, wait, delayed, partial, up, conn,
                   subscription, faults, published>>

-----------------------------------------------------------------------------
(* Time, the network and the broker. The process ends with the thread.     *)

(* The keep-alive interval, 600 s, is long enough for a live broker to      *)
(* answer and for the client to read it.                                   *)
PingTimerExpires ==
    /\ pc # "ended"
    /\ clientState \in Connected
    /\ ~pingDue
    /\ "PINGRESP" \notin ToSet(inbox)
    /\ pingDue' = TRUE
    /\ UNCHANGED <<thread, clientState, wait, delayed, isPingOutstanding,
                   partial, network>>

DelayExpires ==
    /\ pc # "ended"
    /\ delayed
    /\ delayed' = FALSE
    /\ UNCHANGED <<thread, clientState, wait, pingVars, partial, network>>

(* What arrives of the packets under way: some, and a part of the next. *)
Arriving ==
    {SubSeq(inbox, 1, k) : k \in 0 .. Len(inbox)}
        \cup {Append(SubSeq(inbox, 1, k), "CUT") : k \in 0 .. Len(inbox) - 1}

NetworkDown ==
    /\ pc # "ended"
    /\ up
    /\ faults < MaxFaults
    /\ faults' = faults + 1
    /\ up' = FALSE
    /\ IF conn = "open"
       THEN conn' = "dead" /\ inbox' \in Arriving
       ELSE UNCHANGED <<conn, inbox>>
    /\ UNCHANGED <<thread, client, subscription, published>>

NetworkUp ==
    /\ pc # "ended"
    /\ ~up
    /\ up' = TRUE
    /\ UNCHANGED <<thread, client, conn, inbox, subscription, faults,
                   published>>

(* The broker closes a connection, or TCP gives up on one that is dead. *)
PeerCloses ==
    /\ pc # "ended"
    /\ \/ /\ conn = "open"
          /\ faults < MaxFaults
          /\ faults' = faults + 1
          /\ inbox' \in Arriving
       \/ conn = "dead" /\ UNCHANGED <<faults, inbox>>
    /\ conn' = "closed"
    /\ UNCHANGED <<thread, client, up, subscription, published>>

(* Where the broker puts a message: it may still be about to send a SUBACK. *)
Sent(message) ==
    {Append(inbox, message)} \cup
        IF inbox # <<>> /\ Last(inbox) = "SUBACK"
        THEN {Append(Front(inbox), message) \o <<Last(inbox)>>} ELSE {}

(* Somebody publishes a command, which the broker passes on once at most. *)
Publish ==
    /\ pc # "ended"
    /\ published < MaxCommands
    /\ published' = published + 1
    /\ IF conn = "open" /\ subscription = "granted"
       THEN \E type \in {"PUBLISH", "LONG"} :
              inbox' \in Sent(type)
       ELSE UNCHANGED inbox
    /\ UNCHANGED <<thread, client, up, conn, subscription, faults>>

-----------------------------------------------------------------------------

Thread ==
    \/ Connect \/ NoConnection \/ Connack \/ NoConnack
    \/ Subscribe \/ CommandBeforeSuback \/ Suback \/ NoSubscription
    \/ Yield \/ YieldReturns \/ YieldAgain
    \/ GiveUp \/ NotYet \/ AttemptReconnect
    \/ ReadNothing \/ ReadCommand \/ ReadExit \/ ReadPingresp \/ ReadSuback
    \/ ReadLong \/ ReadPart \/ ReadFails
    \/ PingNotDue \/ PingFails \/ Ping

Time == PingTimerExpires \/ DelayExpires

Environment == NetworkDown \/ NetworkUp \/ PeerCloses \/ Publish

Next == Thread \/ Time \/ Environment

Spec == Init /\ [][Next]_vars

(* The thread runs, a yield's 100 ms come to an end, and time passes.       *)
FairSpec ==
    /\ Spec
    /\ WF_vars(Thread)
    /\ SF_vars(YieldReturns)
    /\ WF_vars(PingTimerExpires)
    /\ WF_vars(DelayExpires)

-----------------------------------------------------------------------------

(* Every variable has its type, and the wait to reconnect stays within      *)
(* twice the maximum of AWSMain.h, whatever fails and how often.            *)
TypeOK ==
    /\ pc \in {"connect", "connack", "subscribe", "suback", "main", "yield",
               "keepAlive", "yielded", "exit", "ended"}
    /\ booting \in BOOLEAN
    /\ last \in BOOLEAN
    /\ rc \in GoesOn \cup {"ERROR"}
    /\ clientState \in Connected \cup {"INITIALIZED", "CONNECTING",
                           "DISCONNECTED_ERROR", "PENDING_RECONNECT"}
    /\ wait \in 1 .. 2 * MaxWait
    /\ delayed \in BOOLEAN
    /\ isPingOutstanding \in BOOLEAN
    /\ pingDue \in BOOLEAN
    /\ partial \in {"none", "current", "stale"}
    /\ up \in BOOLEAN
    /\ conn \in {"none", "open", "dead", "closed"}
    /\ inbox \in Seq(Packet)
    /\ subscription \in {"none", "granted", "refused"}
    /\ faults \in 0 .. MaxFaults
    /\ published \in 0 .. MaxCommands

(* As long as the loop goes on with a live connection, the broker has had   *)
(* this connection's SUBSCRIBE and decided on it: the new session after a   *)
(* reconnection is not left without one when resubscribing fails or its     *)
(* answer does not come. That the broker may have refused it is NotDeaf's.  *)
Resubscribed ==
    pc = "main" /\ rc \in GoesOn /\ conn = "open" => subscription # "none"

(* _aws_iot_mqtt_internal_subscribe: "@return An IoT Error Type defining    *)
(* successful/failed subscription". A refusal would end the loop; the code  *)
(* takes it for success, and the loop goes on without the commands.        *)
NotDeaf ==
    pc = "main" /\ rc \in GoesOn /\ conn = "open" => subscription = "granted"

(* What is left in readBuf of a packet of an old connection is never taken  *)
(* for the beginning of the next connection's packets.                     *)
PartialIsCurrent == conn # "none" => partial # "stale"

(* The client waits for the answer to a ping on a live connection only when *)
(* it is under way: a connection that works is not given up.               *)
PingAnswered ==
    isPingOutstanding /\ conn = "open" /\ clientState \in Connected =>
        "PINGRESP" \in ToSet(inbox)

(* A new connection takes nothing over from the one that was lost.         *)
NothingCarriedOver == PartialIsCurrent /\ PingAnswered

(* What the thread knows of the connection and its session, by where it is. *)
Starting == {"connect", "connack", "subscribe", "suback"}
InLoop == {"main", "yield", "keepAlive", "yielded", "exit"}

ConnectionInv ==
    /\ pc \in Starting => wait <= MaxWait
    /\ clientState \in {"INITIALIZED", "DISCONNECTED_ERROR",
                        "PENDING_RECONNECT"} => conn = "none"
    /\ pc = "connect" => conn = "none"
    /\ pc = "connack" <=> clientState = "CONNECTING"
    /\ pc = "subscribe" => clientState = "IDLE"
    /\ pc = "suback" => clientState \in {"SUBSCRIBE", "RESUBSCRIBE"}

SubscriptionInv ==
    /\ booting => ~last /\ pc \in Starting \cup {"ended"}
    /\ pc = "main" => ~last /\ clientState # "YIELD"
    /\ conn = "open" =>
          /\ pc = "suback" => subscription # "none"
          /\ clientState = "YIELD" /\ ~last => subscription # "none"
          /\ pc = "main" /\ rc \in {"SUCCESS", "RECONNECTED"} =>
                subscription # "none"
    /\ pc \in InLoop /\ rc = "ATTEMPTING_RECONNECT" =>
          clientState = "PENDING_RECONNECT"
    /\ pc \in InLoop /\ rc = "RECONNECTED" =>
          clientState = IF pc = "main" THEN "IDLE" ELSE "YIELD"

(* The inductive invariant. *)
IndInv == TypeOK /\ ConnectionInv /\ SubscriptionInv /\ NothingCarriedOver

(* A connection that is lost, with or without notice, is given up. *)
LossNoticed ==
    conn \in {"dead", "closed"} ~> conn \in {"none", "open"} \/ pc = "ended"

(* Once the broker can be reached for good and does not refuse the client's *)
(* subscription, the client ends up connected and subscribed and stays it,  *)
(* unless the thread ends. A client that was refused asks no more: it stays *)
(* connected without a subscription.                                       *)
Serving ==
    conn = "open" /\ subscription = "granted" /\ clientState \in Connected

Recovers ==
    <>[](up /\ subscription # "refused") => <>[]Serving \/ <>(pc = "ended")

(* AWSMain.h: a message bigger than the buffer will be dropped. *)
LongIsDropped == [][ReadLong => rc' \in GoesOn]_vars
=============================================================================
