---------------------------- MODULE LightBulbProofs ----------------------------
(***************************************************************************)
(* Proofs about the light bulb, for any number of sessions and any data:    *)
(* subscribers know the state or have an event coming, the store holds the  *)
(* last write that was answered, and a write that is dropped was redundant, *)
(* with writes, reads, events, commands, stops and crashes in any order.    *)
(***************************************************************************)
EXTENDS LightBulb, TLAPS

\* A device that was just started, with whatever is stored.
LEMMA Initially == ASSUME Init PROVE IndInv
<1>1. TypeOK
  BY NoneAssumption DEF Init, TypeOK
<1>2. ChannelInv /\ WriteInv /\ KnownInv /\ SubscribersInformed /\
      AnsweredIsStored
  BY DEF Init, ChannelInv, WriteInv, KnownInv, SubscribersInformed,
         AnsweredIsStored
<1> QED
  BY <1>1, <1>2 DEF IndInv

\* The AWS thread sets the device, and every session's knowledge is void.
LEMMA AwsOperateStep ==
    ASSUME IndInv, NEW v \in BOOLEAN, AwsOperate(v)
    PROVE  IndInv'
<1>1. TypeOK'
  BY NoneAssumption DEF IndInv, TypeOK, AwsOperate, appVars, connVars
<1>2. WriteInv'
  BY DEF IndInv, TypeOK, WriteInv, AwsOperate, appVars, connVars
<1>3. KnownInv'
  BY DEF IndInv, TypeOK, KnownInv, Request, AwsOperate, appVars, connVars
<1>4. SubscribersInformed'
  BY DEF IndInv, TypeOK, KnownInv, SubscribersInformed, AwsOperate, appVars,
         connVars
<1>5. ChannelInv' /\ AnsweredIsStored'
  BY DEF IndInv, TypeOK, ChannelInv, WriteInv, AnsweredIsStored, AwsOperate,
         appVars, connVars
<1> QED
  BY <1>1, <1>2, <1>3, <1>4, <1>5 DEF IndInv

\* The write list changes.
LEMMA AwsGrantStep ==
    ASSUME IndInv, NEW a \in AuthData, AwsGrant(a)
    PROVE  IndInv'
<1>1. TypeOK'
  BY NoneAssumption DEF IndInv, TypeOK, AwsGrant, appVars, connVars
<1>2. ChannelInv' /\ WriteInv' /\ KnownInv' /\ SubscribersInformed' /\
      AnsweredIsStored'
  BY DEF IndInv, TypeOK, ChannelInv, WriteInv, KnownInv, SubscribersInformed,
         AnsweredIsStored, AwsGrant, appVars, connVars
<1> QED
  BY <1>1, <1>2 DEF IndInv

\* The server starts with what is stored.
LEMMA StartServerStep ==
    ASSUME IndInv, StartServer
    PROVE  IndInv'
<1>1. TypeOK'
  BY NoneAssumption DEF IndInv, TypeOK, StartServer, appVars, connVars
<1>2. ChannelInv'
  BY DEF IndInv, TypeOK, ChannelInv, StartServer, appVars, connVars
<1>3. WriteInv'
  BY DEF IndInv, TypeOK, WriteInv, ChannelInv, StartServer, appVars, connVars
<1>4. KnownInv' /\ SubscribersInformed' /\ AnsweredIsStored'
  BY DEF IndInv, TypeOK, KnownInv, SubscribersInformed, WriteInv,
         AnsweredIsStored, StartServer, appVars, connVars
<1> QED
  BY <1>1, <1>2, <1>3, <1>4 DEF IndInv

\* The server is asked to stop.
LEMMA StopServerStep ==
    ASSUME IndInv, StopServer
    PROVE  IndInv'
<1>1. TypeOK'
  BY NoneAssumption DEF IndInv, TypeOK, StopServer, appVars, connVars
<1>2. ChannelInv'
  BY DEF IndInv, TypeOK, ChannelInv, StopServer, appVars, connVars
<1>3. WriteInv' /\ KnownInv' /\ SubscribersInformed' /\ AnsweredIsStored'
  BY DEF IndInv, TypeOK, WriteInv, KnownInv, SubscribersInformed,
         AnsweredIsStored, StopServer, appVars, connVars
<1> QED
  BY <1>1, <1>2, <1>3 DEF IndInv

\* A server that stops closes the waiting sessions.
LEMMA CloseReadyStep ==
    ASSUME IndInv, CloseReady
    PROVE  IndInv'
<1>1. TypeOK'
  BY NoneAssumption DEF IndInv, TypeOK, CloseReady, CloseAll, appVars, connVars
<1>2. ChannelInv'
  BY DEF IndInv, TypeOK, ChannelInv, CloseReady, CloseAll, appVars, connVars
<1>3. KnownInv'
  BY DEF IndInv, TypeOK, KnownInv, CloseReady, CloseAll, appVars, connVars
<1>4. SubscribersInformed'
  BY DEF IndInv, TypeOK, KnownInv, SubscribersInformed, CloseReady, CloseAll,
         appVars, connVars
<1>5. WriteInv' /\ AnsweredIsStored'
  BY DEF IndInv, TypeOK, WriteInv, AnsweredIsStored, CloseReady, CloseAll,
         appVars, connVars
<1> QED
  BY <1>1, <1>2, <1>3, <1>4, <1>5 DEF IndInv

\* The stores are purged once every session is closed.
LEMMA FactoryResetStep ==
    ASSUME IndInv, FactoryReset
    PROVE  IndInv'
<1>1. TypeOK'
  BY NoneAssumption DEF IndInv, TypeOK, FactoryReset, appVars, connVars
<1>2. ChannelInv'
  BY DEF IndInv, TypeOK, ChannelInv, FactoryReset, appVars, connVars
<1>3. WriteInv'
  BY DEF IndInv, TypeOK, WriteInv, FactoryReset, appVars, connVars
<1>4. AnsweredIsStored'
  BY DEF IndInv, TypeOK, WriteInv, AnsweredIsStored, FactoryReset, appVars,
         connVars
<1>5. KnownInv' /\ SubscribersInformed'
  BY DEF IndInv, TypeOK, KnownInv, SubscribersInformed, FactoryReset, appVars,
         connVars
<1> QED
  BY <1>1, <1>2, <1>3, <1>4, <1>5 DEF IndInv

\* The process dies, perhaps while it handles a write.
LEMMA RestartStep ==
    ASSUME IndInv, Restart
    PROVE  IndInv'
<1>1. TypeOK'
  BY NoneAssumption DEF IndInv, TypeOK, Request, Restart, CloseAll, appVars,
                        connVars
<1>2. ChannelInv'
  BY DEF IndInv, TypeOK, ChannelInv, Restart, CloseAll, appVars, connVars
<1>3. WriteInv'
  BY DEF IndInv, TypeOK, WriteInv, Restart, CloseAll, appVars, connVars
<1>4. KnownInv'
  BY DEF IndInv, TypeOK, KnownInv, Restart, CloseAll, appVars, connVars
<1>5. SubscribersInformed'
  BY DEF IndInv, TypeOK, KnownInv, SubscribersInformed, Restart, CloseAll,
         appVars, connVars
<1>6. AnsweredIsStored'
  BY DEF IndInv, TypeOK, WriteInv, AnsweredIsStored, Restart, CloseAll, appVars,
         connVars
<1> QED
  BY <1>1, <1>2, <1>3, <1>4, <1>5, <1>6 DEF IndInv

\* A session is accepted.
LEMMA OpenSessionStep ==
    ASSUME IndInv, NEW s \in Session, OpenSession(s)
    PROVE  IndInv'
<1>1. TypeOK'
  BY NoneAssumption DEF IndInv, TypeOK, OpenSession, appVars, connVars
<1>2. ChannelInv'
  BY DEF IndInv, TypeOK, ChannelInv, OpenSession, appVars, connVars
<1>3. WriteInv' /\ KnownInv' /\ SubscribersInformed' /\ AnsweredIsStored'
  BY DEF IndInv, TypeOK, WriteInv, KnownInv, SubscribersInformed,
         AnsweredIsStored, OpenSession, appVars, connVars
<1> QED
  BY <1>1, <1>2, <1>3 DEF IndInv

\* A session ends.
LEMMA CloseSessionStep ==
    ASSUME IndInv, NEW s \in Session, CloseSession(s)
    PROVE  IndInv'
<1>1. TypeOK'
  BY NoneAssumption DEF IndInv, TypeOK, CloseSession, CloseAll, appVars,
                        connVars
<1>2. ChannelInv'
  BY DEF IndInv, TypeOK, ChannelInv, CloseSession, CloseAll, appVars, connVars
<1>3. KnownInv'
  BY DEF IndInv, TypeOK, KnownInv, CloseSession, CloseAll, appVars, connVars
<1>4. SubscribersInformed'
  BY DEF IndInv, TypeOK, KnownInv, SubscribersInformed, CloseSession, CloseAll,
         appVars, connVars
<1>5. WriteInv' /\ AnsweredIsStored'
  BY DEF IndInv, TypeOK, WriteInv, AnsweredIsStored, CloseSession, CloseAll,
         appVars, connVars
<1> QED
  BY <1>1, <1>2, <1>3, <1>4, <1>5 DEF IndInv

\* A part of a request arrives.
LEMMA ReceivePartStep ==
    ASSUME IndInv, NEW s \in Session, ReceivePart(s)
    PROVE  IndInv'
<1>1. TypeOK'
  BY NoneAssumption DEF IndInv, TypeOK, ReceivePart, appVars, connVars
<1>2. ChannelInv'
  BY DEF IndInv, TypeOK, ChannelInv, ReceivePart, appVars, connVars
<1>3. WriteInv' /\ KnownInv' /\ SubscribersInformed' /\ AnsweredIsStored'
  BY DEF IndInv, TypeOK, WriteInv, KnownInv, SubscribersInformed,
         AnsweredIsStored, ReceivePart, appVars, connVars
<1> QED
  BY <1>1, <1>2, <1>3 DEF IndInv

\* The copy is refreshed and the session told.
LEMMA ReadStep ==
    ASSUME IndInv, NEW s \in Session, Read(s)
    PROVE  IndInv'
<1>1. TypeOK'
  BY NoneAssumption DEF IndInv, TypeOK, Read, Handles, Answer, Told, appVars,
                        connVars
<1>2. ChannelInv'
  BY DEF IndInv, TypeOK, ChannelInv, Read, Handles, Answer, Told, appVars,
         connVars
<1>3. WriteInv'
  BY DEF IndInv, TypeOK, WriteInv, Read, Handles, Answer, Told, appVars,
         connVars
<1>4. KnownInv'
  BY DEF IndInv, TypeOK, KnownInv, Read, Handles, Answer, Told, appVars,
         connVars
<1>5. SubscribersInformed'
  BY DEF IndInv, TypeOK, KnownInv, SubscribersInformed, Read, Handles, Answer,
         Told, appVars, connVars
<1>6. AnsweredIsStored'
  BY DEF IndInv, TypeOK, WriteInv, AnsweredIsStored, Read, Handles, Answer,
         Told, appVars, connVars
<1> QED
  BY <1>1, <1>2, <1>3, <1>4, <1>5, <1>6 DEF IndInv

\* A session that knew nothing subscribes.
LEMMA SubscribeStep ==
    ASSUME IndInv, NEW s \in Session, Subscribe(s)
    PROVE  IndInv'
<1>1. TypeOK'
  BY NoneAssumption DEF IndInv, TypeOK, Subscribe, Handles, Answer, appVars,
                        connVars
<1>2. ChannelInv'
  BY DEF IndInv, TypeOK, ChannelInv, Subscribe, Handles, Answer, appVars,
         connVars
<1>3. KnownInv'
  BY DEF IndInv, TypeOK, KnownInv, Subscribe, Handles, Answer, appVars, connVars
<1>4. SubscribersInformed'
  BY DEF IndInv, TypeOK, KnownInv, SubscribersInformed, Subscribe, Handles,
         Answer, appVars, connVars
<1>5. WriteInv' /\ AnsweredIsStored'
  BY DEF IndInv, TypeOK, WriteInv, AnsweredIsStored, Subscribe, Handles, Answer,
         appVars, connVars
<1> QED
  BY <1>1, <1>2, <1>3, <1>4, <1>5 DEF IndInv

\* A subscriber leaves with its flag.
LEMMA UnsubscribeStep ==
    ASSUME IndInv, NEW s \in Session, Unsubscribe(s)
    PROVE  IndInv'
<1>1. TypeOK'
  BY NoneAssumption DEF IndInv, TypeOK, Unsubscribe, Handles, Answer, appVars,
                        connVars
<1>2. ChannelInv'
  BY DEF IndInv, TypeOK, ChannelInv, Unsubscribe, Handles, Answer, appVars,
         connVars
<1>3. KnownInv'
  BY DEF IndInv, TypeOK, KnownInv, Unsubscribe, Handles, Answer, appVars,
         connVars
<1>4. SubscribersInformed'
  BY DEF IndInv, TypeOK, KnownInv, SubscribersInformed, Unsubscribe, Handles,
         Answer, appVars, connVars
<1>5. WriteInv' /\ AnsweredIsStored'
  BY DEF IndInv, TypeOK, WriteInv, AnsweredIsStored, Unsubscribe, Handles,
         Answer, appVars, connVars
<1> QED
  BY <1>1, <1>2, <1>3, <1>4, <1>5 DEF IndInv

\* A write is dropped.
LEMMA DropWriteStep ==
    ASSUME IndInv, NEW s \in Session, NEW v \in BOOLEAN,
           NEW a \in AuthData, DropWrite(s, v, a)
    PROVE  IndInv'
<1>1. TypeOK'
  BY NoneAssumption DEF IndInv, TypeOK, DropWrite, Handles, Answer, appVars,
                        connVars
<1>2. ChannelInv'
  BY DEF IndInv, TypeOK, ChannelInv, DropWrite, Handles, Answer, appVars,
         connVars
<1>3. WriteInv' /\ KnownInv' /\ SubscribersInformed' /\ AnsweredIsStored'
  BY DEF IndInv, TypeOK, WriteInv, KnownInv, SubscribersInformed,
         AnsweredIsStored, DropWrite, Handles, Answer, appVars, connVars
<1> QED
  BY <1>1, <1>2, <1>3 DEF IndInv

\* A write is accepted into the copy.
LEMMA AcceptWriteStep ==
    ASSUME IndInv, NEW s \in Session, NEW v \in BOOLEAN,
           NEW a \in AuthData, AcceptWrite(s, v, a)
    PROVE  IndInv'
<1>1. TypeOK'
  BY NoneAssumption DEF IndInv, TypeOK, AcceptWrite, Handles, Request, appVars,
                        connVars
<1>2. ChannelInv'
  BY DEF IndInv, TypeOK, ChannelInv, AcceptWrite, Handles, Request, appVars,
         connVars
<1>3. WriteInv'
  BY DEF IndInv, TypeOK, WriteInv, AcceptWrite, Handles, Request, appVars,
         connVars
<1>4. KnownInv'
  BY DEF IndInv, TypeOK, KnownInv, AcceptWrite, Handles, Request, appVars,
         connVars
<1>5. SubscribersInformed'
  BY DEF IndInv, TypeOK, KnownInv, SubscribersInformed, AcceptWrite, Handles,
         Request, appVars, connVars
<1>6. AnsweredIsStored'
  BY DEF IndInv, TypeOK, WriteInv, AnsweredIsStored, AcceptWrite, Handles,
         Request, appVars, connVars
<1> QED
  BY <1>1, <1>2, <1>3, <1>4, <1>5, <1>6 DEF IndInv

\* The device is operated, and the writer knows.
LEMMA OperateStep ==
    ASSUME IndInv, Operate
    PROVE  IndInv'
<1>1. TypeOK'
  BY NoneAssumption DEF IndInv, TypeOK, Operate, Told, Request, appVars,
                        connVars
<1>2. ChannelInv'
  BY DEF IndInv, TypeOK, ChannelInv, Operate, Told, Request, appVars, connVars
<1>3. WriteInv'
  BY DEF IndInv, TypeOK, WriteInv, Operate, Told, Request, appVars, connVars
<1>4. KnownInv'
  BY DEF IndInv, TypeOK, KnownInv, Operate, Told, Request, appVars, connVars
<1>5. SubscribersInformed'
  BY DEF IndInv, TypeOK, KnownInv, SubscribersInformed, Operate, Told, Request,
         appVars, connVars
<1>6. AnsweredIsStored'
  BY DEF IndInv, TypeOK, WriteInv, AnsweredIsStored, Operate, Told, Request,
         appVars, connVars
<1> QED
  BY <1>1, <1>2, <1>3, <1>4, <1>5, <1>6 DEF IndInv

\* The copy is saved: it is still what was written.
LEMMA SaveStep ==
    ASSUME IndInv, Save
    PROVE  IndInv'
<1>1. TypeOK'
  BY NoneAssumption DEF IndInv, TypeOK, Save, Request, appVars, connVars
<1>2. ChannelInv'
  BY DEF IndInv, TypeOK, ChannelInv, Save, Request, appVars, connVars
<1>3. WriteInv'
  BY DEF IndInv, TypeOK, WriteInv, Save, Request, appVars, connVars
<1>4. KnownInv'
  BY DEF IndInv, TypeOK, KnownInv, Save, Request, appVars, connVars
<1>5. SubscribersInformed'
  BY DEF IndInv, TypeOK, KnownInv, SubscribersInformed, Save, Request, appVars,
         connVars
<1>6. AnsweredIsStored'
  BY DEF IndInv, TypeOK, WriteInv, AnsweredIsStored, Save, Request, appVars,
         connVars
<1> QED
  BY <1>1, <1>2, <1>3, <1>4, <1>5, <1>6 DEF IndInv

\* All subscribers but the writer are flagged.
LEMMA RaiseEventStep ==
    ASSUME IndInv, RaiseEvent
    PROVE  IndInv'
<1>1. TypeOK'
  BY NoneAssumption DEF IndInv, TypeOK, RaiseEvent, Request, appVars, connVars
<1>2. ChannelInv'
  BY DEF IndInv, TypeOK, ChannelInv, RaiseEvent, Request, appVars, connVars
<1>3. WriteInv'
  BY DEF IndInv, TypeOK, WriteInv, RaiseEvent, Request, appVars, connVars
<1>4. KnownInv'
  BY DEF IndInv, TypeOK, KnownInv, RaiseEvent, Request, appVars, connVars
<1>5. SubscribersInformed'
  BY DEF IndInv, TypeOK, KnownInv, SubscribersInformed, RaiseEvent, Request,
         appVars, connVars
<1>6. AnsweredIsStored'
  BY DEF IndInv, TypeOK, WriteInv, AnsweredIsStored, RaiseEvent, Request,
         appVars, connVars
<1> QED
  BY <1>1, <1>2, <1>3, <1>4, <1>5, <1>6 DEF IndInv

\* The write is answered.
LEMMA RespondStep ==
    ASSUME IndInv, Respond
    PROVE  IndInv'
<1>1. TypeOK'
  BY NoneAssumption DEF IndInv, TypeOK, Respond, Answer, Request, appVars,
                        connVars
<1>2. ChannelInv'
  BY DEF IndInv, TypeOK, ChannelInv, Respond, Answer, Request, appVars, connVars
<1>3. WriteInv'
  BY DEF IndInv, TypeOK, WriteInv, Respond, Answer, Request, appVars, connVars
<1>4. KnownInv'
  BY DEF IndInv, TypeOK, KnownInv, Respond, Answer, Request, appVars, connVars
<1>5. SubscribersInformed'
  BY DEF IndInv, TypeOK, KnownInv, SubscribersInformed, Respond, Answer,
         Request, appVars, connVars
<1>6. AnsweredIsStored'
  BY DEF IndInv, TypeOK, WriteInv, AnsweredIsStored, Respond, Answer, Request,
         appVars, connVars
<1> QED
  BY <1>1, <1>2, <1>3, <1>4, <1>5, <1>6 DEF IndInv

\* A response is written; the session waits, goes on or is closed.
LEMMA OutputDoneStep ==
    ASSUME IndInv, NEW s \in Session, OutputDone(s)
    PROVE  IndInv'
<1>1. TypeOK'
  BY NoneAssumption DEF IndInv, TypeOK, OutputDone, CloseAll, appVars, connVars
<1>2. ChannelInv'
  BY DEF IndInv, TypeOK, ChannelInv, OutputDone, CloseAll, appVars, connVars
<1>3. WriteInv'
  BY DEF IndInv, TypeOK, WriteInv, OutputDone, CloseAll, appVars, connVars
<1>4. KnownInv'
  BY DEF IndInv, TypeOK, KnownInv, OutputDone, CloseAll, appVars, connVars
<1>5. SubscribersInformed'
  BY DEF IndInv, TypeOK, KnownInv, SubscribersInformed, OutputDone, CloseAll,
         appVars, connVars
<1>6. AnsweredIsStored'
  BY DEF IndInv, TypeOK, WriteInv, AnsweredIsStored, OutputDone, CloseAll,
         appVars, connVars
<1> QED
  BY <1>1, <1>2, <1>3, <1>4, <1>5, <1>6 DEF IndInv

\* A second passes.
LEMMA ElapseStep ==
    ASSUME IndInv, NEW s \in Session, Elapse(s)
    PROVE  IndInv'
<1>1. TypeOK'
  BY NoneAssumption DEF IndInv, TypeOK, Elapse, appVars, connVars
<1>2. ChannelInv' /\ WriteInv' /\ KnownInv' /\ SubscribersInformed' /\
      AnsweredIsStored'
  BY DEF IndInv, TypeOK, ChannelInv, WriteInv, KnownInv, SubscribersInformed,
         AnsweredIsStored, Elapse, appVars, connVars
<1> QED
  BY <1>1, <1>2 DEF IndInv

\* The event timer expires.
LEMMA EventTimerStep ==
    ASSUME IndInv, EventTimer
    PROVE  IndInv'
<1>1. TypeOK'
  BY NoneAssumption DEF IndInv, TypeOK, EventTimer, Serving, appVars, connVars
<1>2. ChannelInv'
  BY DEF IndInv, TypeOK, ChannelInv, EventTimer, Serving, appVars, connVars
<1>3. WriteInv'
  BY DEF IndInv, TypeOK, WriteInv, EventTimer, Serving, appVars, connVars
<1>4. KnownInv'
  BY DEF IndInv, TypeOK, KnownInv, EventTimer, Serving, appVars, connVars
<1>5. SubscribersInformed'
  BY DEF IndInv, TypeOK, KnownInv, SubscribersInformed, EventTimer, Serving,
         appVars, connVars
<1>6. AnsweredIsStored'
  BY DEF IndInv, TypeOK, WriteInv, AnsweredIsStored, EventTimer, Serving,
         appVars, connVars
<1> QED
  BY <1>1, <1>2, <1>3, <1>4, <1>5, <1>6 DEF IndInv

\* A subscriber gets its event, with the state as it is now.
LEMMA WriteEventStep ==
    ASSUME IndInv, NEW s \in Session, WriteEvent(s)
    PROVE  IndInv'
<1>1. TypeOK'
  BY NoneAssumption DEF IndInv, TypeOK, WriteEvent, Pending, Answer, Told,
                        appVars, connVars
<1>2. ChannelInv'
  BY DEF IndInv, TypeOK, ChannelInv, WriteEvent, Pending, Answer, Told, appVars,
         connVars
<1>3. WriteInv'
  BY DEF IndInv, TypeOK, WriteInv, WriteEvent, Pending, Answer, Told, appVars,
         connVars
<1>4. KnownInv'
  BY DEF IndInv, TypeOK, KnownInv, WriteEvent, Pending, Answer, Told, appVars,
         connVars
<1>5. SubscribersInformed'
  BY DEF IndInv, TypeOK, KnownInv, SubscribersInformed, WriteEvent, Pending,
         Answer, Told, appVars, connVars
<1>6. AnsweredIsStored'
  BY DEF IndInv, TypeOK, WriteInv, AnsweredIsStored, WriteEvent, Pending,
         Answer, Told, appVars, connVars
<1> QED
  BY <1>1, <1>2, <1>3, <1>4, <1>5, <1>6 DEF IndInv

\* Events that must wait are scheduled.
LEMMA ScheduleStep ==
    ASSUME IndInv, Schedule
    PROVE  IndInv'
<1>1. TypeOK'
  BY NoneAssumption DEF IndInv, TypeOK, Schedule, appVars, connVars
<1>2. ChannelInv'
  BY DEF IndInv, TypeOK, ChannelInv, Schedule, appVars, connVars
<1>3. WriteInv'
  BY DEF IndInv, TypeOK, WriteInv, Schedule, appVars, connVars
<1>4. KnownInv'
  BY DEF IndInv, TypeOK, KnownInv, Schedule, appVars, connVars
<1>5. SubscribersInformed'
  BY DEF IndInv, TypeOK, KnownInv, SubscribersInformed, Schedule, appVars,
         connVars
<1>6. AnsweredIsStored'
  BY DEF IndInv, TypeOK, WriteInv, AnsweredIsStored, Schedule, appVars, connVars
<1> QED
  BY <1>1, <1>2, <1>3, <1>4, <1>5, <1>6 DEF IndInv

--------------------------------------------------------------------------------
\* Every step keeps the invariant.
LEMMA Step == ASSUME IndInv, [Next]_vars PROVE IndInv'
<1>1. CASE UNCHANGED vars
  BY <1>1 DEF vars, appVars, connVars, IndInv, TypeOK, ChannelInv, WriteInv,
              KnownInv,
              SubscribersInformed, AnsweredIsStored
<1>2. CASE \E v \in BOOLEAN : AwsOperate(v)
  BY <1>2, AwsOperateStep
<1>3. CASE \E a \in AuthData : AwsGrant(a)
  BY <1>3, AwsGrantStep
<1>4. CASE StartServer \/ StopServer \/ CloseReady \/ FactoryReset \/ Restart
  BY <1>4, StartServerStep, StopServerStep, CloseReadyStep, FactoryResetStep,
     RestartStep
<1>5. ASSUME NEW s \in Session, Client(s) PROVE IndInv'
  <2>1. CASE OpenSession(s) \/ CloseSession(s) \/ ReceivePart(s)
    BY <2>1, OpenSessionStep, CloseSessionStep, ReceivePartStep
  <2>2. CASE Read(s) \/ Subscribe(s) \/ Unsubscribe(s)
    BY <2>2, ReadStep, SubscribeStep, UnsubscribeStep
  <2>3. ASSUME NEW v \in BOOLEAN, NEW a \in AuthData,
               DropWrite(s, v, a) \/ AcceptWrite(s, v, a)
        PROVE  IndInv'
    BY <2>3, DropWriteStep, AcceptWriteStep
  <2> QED
    BY <1>5, <2>1, <2>2, <2>3 DEF Client
<1>6. CASE \E s \in Session : OutputDone(s) \/ Elapse(s)
  BY <1>6, OutputDoneStep, ElapseStep
<1>7. CASE Write
  BY <1>7, OperateStep, SaveStep, RaiseEventStep, RespondStep DEF Write
<1>8. CASE Notify
  BY <1>8, ScheduleStep, WriteEventStep DEF Notify
<1>9. CASE EventTimer
  BY <1>9, EventTimerStep
<1> QED
  BY <1>1, <1>2, <1>3, <1>4, <1>5, <1>6, <1>7, <1>8, <1>9 DEF Next

\* The inductive invariant holds in every behaviour.
LEMMA Invariance == Spec => []IndInv
BY Initially, Step, PTL DEF Spec

(* Every variable keeps its type, only an open session has records, and     *)
(* only a subscribed one a flag (CloseSession, HAPIPAccessoryServer.c).      *)
THEOREM Typing == Spec => []TypeOK
<1>1. IndInv => TypeOK
  BY DEF IndInv
<1> QED
  BY <1>1, Invariance, PTL

(* A subscriber was told the state of the device, or its notification is    *)
(* pending: HAPAccessoryServerRaiseEvent and schedule_event_notifications   *)
(* lose no change.                                                         *)
THEOREM NoChangeLost == Spec => []SubscribersInformed
<1>1. IndInv => SubscribersInformed
  BY DEF IndInv
<1> QED
  BY <1>1, Invariance, PTL

(* What HandleLightBulbOnWrite answered is what SaveAccessoryState stored,   *)
(* whatever changes the copy between two writes, and across a crash.        *)
THEOREM AnswersAreStored == Spec => []AnsweredIsStored
<1>1. IndInv => AnsweredIsStored
  BY DEF IndInv
<1> QED
  BY <1>1, Invariance, PTL

(* HandleLightBulbOnWrite drops an authorized write only if the device has   *)
(* that state, unless the AWS thread set it since the copy was refreshed.   *)
THEOREM DropsAreRedundant == Spec => DroppedIsRedundant
<1> DEFINE Redundant ==
        \A s \in Session, v \in BOOLEAN, a \in permitted :
            DropWrite(s, v, a) /\ ~external => device = v
<1>1. IndInv => Redundant
  BY DEF IndInv, WriteInv, DropWrite, Handles
<1>2. IndInv /\ [Next]_vars => [Redundant]_vars
  BY <1>1
<1> QED
  BY <1>2, Invariance, PTL DEF Spec, DroppedIsRedundant
================================================================================
