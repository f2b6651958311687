------------------------------ MODULE ACLProofs ------------------------------
(***************************************************************************)
(* Proofs about the access control list, for every number of rights,       *)
(* nodes, authorization data and appends: CC_CheckAuthData answers right   *)
(* unless the race reached a freed or torn node, no node leaks, and the    *)
(* lists implement a bag of grants per right.                              *)
(***************************************************************************)
EXTENDS ACL, FiniteSetTheorems, WellFoundedInduction, TLAPS

\* Taking the head off a non-empty sequence of rights leaves one.
LEMMA TailType ==
    ASSUME NEW S, NEW s \in Seq(S), s # <<>>
    PROVE  Head(s) \in S /\ Tail(s) \in Seq(S)
  OBVIOUS

\* Every request names at least one right.
LEMMA RequestType ==
    ASSUME NEW rs \in RequestedRights
    PROVE  rs \in Seq(Right \union {NoRight}) /\ rs # <<>>
  BY ConstantsAssumption DEF RequestedRights

(* Every variable keeps its type: in particular a command in progress has a  *)
(* right left to handle, and a node in hand while it is linked or unlinked.   *)
LEMMA TypingInit == Init => TypeOK
<1> SUFFICES ASSUME Init PROVE TypeOK
  OBVIOUS
<1> USE ConstantsAssumption DEF Init
<1>1. HeapTypeOK
  BY DEF HeapTypeOK
<1>2. AwsTypeOK
  BY DEF AwsTypeOK
<1>3. HkTypeOK
  BY DEF HkTypeOK
<1>4. HistoryTypeOK
  BY DEF HistoryTypeOK
<1> QED
  BY <1>1, <1>2, <1>3, <1>4 DEF TypeOK

\* A step that leaves a group of variables alone keeps its type.
LEMMA TypingUnchanged ==
    ASSUME TypeOK
    PROVE  /\ UNCHANGED <<heapVars, running, crashed>> => HeapTypeOK'
           /\ UNCHANGED awsVars => AwsTypeOK'
           /\ UNCHANGED hkVars => HkTypeOK'
           /\ UNCHANGED <<linkVars, obsVars>> => HistoryTypeOK'
<1>1. UNCHANGED <<heapVars, running, crashed>> => HeapTypeOK'
  BY DEF TypeOK, HeapTypeOK, heapVars
<1>2. UNCHANGED awsVars => AwsTypeOK'
  BY DEF TypeOK, AwsTypeOK, awsVars
<1>3. UNCHANGED hkVars => HkTypeOK'
  BY DEF TypeOK, HkTypeOK, hkVars
<1>4. UNCHANGED <<linkVars, obsVars>> => HistoryTypeOK'
  BY DEF TypeOK, HistoryTypeOK, linkVars, obsVars
<1> QED
  BY <1>1, <1>2, <1>3, <1>4

LEMMA TypingNext == TypeOK /\ [Next]_vars => TypeOK'
<1> SUFFICES ASSUME TypeOK, [Next]_vars PROVE TypeOK'
  OBVIOUS
<1> USE ConstantsAssumption DEF TypeOK
<1>1. ASSUME NEW op \in {"append", "delete"}, Command(op) PROVE TypeOK'
  <2>1. AwsTypeOK'
    BY <1>1, RequestType DEF Command, Running, AwsTypeOK
  <2> QED
    BY <1>1, <2>1, TypingUnchanged DEF Command
<1>2. CASE AwsThreadEnds \/ AppendFails \/ DeleteRefused \/ DeleteNotFound \/ CheckGarbageFault
  <2>1. HeapTypeOK'
    BY <1>2 DEF AwsThreadEnds, AppendFails, DeleteRefused, DeleteNotFound, CheckGarbageFault, Exit, heapVars, HeapTypeOK
  <2> QED
    BY <1>2, <2>1, TypingUnchanged DEF AwsThreadEnds, AppendFails, DeleteRefused, DeleteNotFound, CheckGarbageFault,
              Exit, linkVars, obsVars
<1>3. CASE AppendPrepare
  <2>1. HeapTypeOK'
    BY <1>3 DEF AppendPrepare, AwsTypeOK, HeapTypeOK
  <2>2. AwsTypeOK'
    BY <1>3 DEF AppendPrepare, Running, AwsTypeOK, AwsTypeOK
  <2>3. HistoryTypeOK'
    BY <1>3 DEF AppendPrepare, obsVars, HistoryTypeOK
  <2> QED
    BY <1>3, <2>1, <2>2, <2>3, TypingUnchanged DEF AppendPrepare
<1>4. CASE AppendPublish
  <2>1. HeapTypeOK'
    BY <1>4 DEF AppendPublish, Running, AwsTypeOK, HeapTypeOK
  <2>2. AwsTypeOK'
    BY <1>4, TailType DEF AppendPublish, Running, NextRight, AwsTypeOK
  <2>3. HistoryTypeOK'
    BY <1>4, TailType DEF AppendPublish, Running, Observe, AwsTypeOK, HistoryTypeOK
  <2> QED
    BY <1>4, <2>1, <2>2, <2>3, TypingUnchanged DEF AppendPublish
<1>5. CASE StoresVisible
  <2>1. HeapTypeOK'
    BY <1>5 DEF StoresVisible, HeapTypeOK
  <2> QED
    BY <1>5, <2>1, TypingUnchanged DEF StoresVisible
<1>6. CASE DeleteEmpty
  <2>1. HeapTypeOK'
    BY <1>6 DEF DeleteEmpty, heapVars, HeapTypeOK
  <2> QED
    BY <1>6, <2>1, TypingUnchanged DEF DeleteEmpty
<1>7. CASE DeleteHeadMatch
  <2>1. HeapTypeOK'
    BY <1>7 DEF DeleteHeadMatch, Tearing, HeapTypeOK
  <2>2. AwsTypeOK'
    BY <1>7 DEF DeleteHeadMatch, Running, HeapTypeOK, AwsTypeOK
  <2> QED
    BY <1>7, <2>1, <2>2, TypingUnchanged DEF DeleteHeadMatch
<1>8. CASE DeleteHead
  <2>1. HeapTypeOK'
    BY <1>8 DEF DeleteHead, Running, AwsTypeOK, HeapTypeOK
  <2>2. AwsTypeOK'
    BY <1>8 DEF DeleteHead, Running, AwsTypeOK
  <2>3. HistoryTypeOK'
    BY <1>8 DEF DeleteHead, Observe, HistoryTypeOK
  <2> QED
    BY <1>8, <2>1, <2>2, <2>3, TypingUnchanged DEF DeleteHead
<1>9. CASE DeleteSkipHead
  <2>1. AwsTypeOK'
    BY <1>9 DEF DeleteSkipHead, Running, HeapTypeOK, AwsTypeOK
  <2> QED
    BY <1>9, <2>1, TypingUnchanged DEF DeleteSkipHead
<1>10. CASE DeleteWalk
  <2>1. AwsTypeOK'
    BY <1>10 DEF DeleteWalk, Running, HeapTypeOK, AwsTypeOK
  <2> QED
    BY <1>10, <2>1, TypingUnchanged DEF DeleteWalk
<1>11. CASE DeleteMatch
  <2>1. HeapTypeOK'
    BY <1>11 DEF DeleteMatch, Running, Tearing, AwsTypeOK, HeapTypeOK
  <2>2. AwsTypeOK'
    BY <1>11 DEF DeleteMatch, Running, AwsTypeOK
  <2> QED
    BY <1>11, <2>1, <2>2, TypingUnchanged DEF DeleteMatch
<1>12. CASE DeleteUnlink
  <2>1. HeapTypeOK'
    BY <1>12 DEF DeleteUnlink, Running, AwsTypeOK, HeapTypeOK
  <2>2. AwsTypeOK'
    BY <1>12 DEF DeleteUnlink, Running, AwsTypeOK
  <2>3. HistoryTypeOK'
    BY <1>12 DEF DeleteUnlink, Observe, HistoryTypeOK
  <2> QED
    BY <1>12, <2>1, <2>2, <2>3, TypingUnchanged DEF DeleteUnlink
<1>13. CASE DeleteFree
  <2>1. HeapTypeOK'
    BY <1>13 DEF DeleteFree, HeapTypeOK
  <2>2. AwsTypeOK'
    BY <1>13, TailType DEF DeleteFree, Running, NextRight, AwsTypeOK
  <2>3. HistoryTypeOK'
    BY <1>13 DEF DeleteFree, HistoryTypeOK
  <2> QED
    BY <1>13, <2>1, <2>2, <2>3, TypingUnchanged DEF DeleteFree
<1>14. CASE CheckBegin \/ CheckRefused
  <2>1. HkTypeOK'
    BY <1>14 DEF CheckBegin, CheckRefused, HeapTypeOK, Right, HkTypeOK
  <2>2. HistoryTypeOK'
    BY <1>14 DEF CheckBegin, CheckRefused, Authorised, linkVars, obsVars, HistoryTypeOK
  <2> QED
    BY <1>14, <2>1, <2>2, TypingUnchanged DEF CheckBegin, CheckRefused
<1>15. CASE CheckMatch \/ CheckAdvance \/ CheckEnd \/ CheckGarbageMatch \/ CheckGarbageAdvance
  <2>1. HkTypeOK'
    BY <1>15 DEF CheckMatch, CheckAdvance, CheckEnd, CheckGarbageMatch, CheckGarbageAdvance, Comparing, Return, Advance, Readable, HeapTypeOK, HkTypeOK
  <2>2. HistoryTypeOK'
    BY <1>15 DEF CheckMatch, CheckAdvance, CheckEnd, CheckGarbageMatch, CheckGarbageAdvance, Return, Advance, linkVars, HistoryTypeOK
  <2> QED
    BY <1>15, <2>1, <2>2, TypingUnchanged DEF CheckMatch, CheckAdvance, CheckEnd, CheckGarbageMatch, CheckGarbageAdvance,
               Return, Advance
<1>16. CASE CheckReturn
  <2>1. HkTypeOK'
    BY <1>16 DEF CheckReturn, HkTypeOK
  <2>2. HistoryTypeOK'
    BY <1>16 DEF CheckReturn, linkVars, HistoryTypeOK
  <2> QED
    BY <1>16, <2>1, <2>2, TypingUnchanged DEF CheckReturn
<1>17. CASE UNCHANGED vars
  BY <1>17, TypingUnchanged DEF vars
<1> QED
  BY <1>1, <1>2, <1>3, <1>4, <1>5, <1>6, <1>7, <1>8, <1>9, <1>10, <1>11, <1>12, <1>13, <1>14,
     <1>15, <1>16, <1>17 DEF Next, AwsNext, HkNext, HkStep

\* Type correctness: both threads leave every variable well typed.
THEOREM Typing == Spec => []TypeOK
  BY TypingInit, TypingNext, PTL DEF Spec

-----------------------------------------------------------------------------
(* The lists *)

\* A step that touches no list keeps the lists well formed.
LEMMA ListUnchanged ==
    ASSUME ListInv, UNCHANGED <<gACL, next, allocated, linkVars>>
    PROVE  ListInv'
  BY DEF ListInv, AgeInv, ChainInv, HeadInv, Follows, linkVars

(* The lists stay disjoint, made of live nodes and ordered by age, at every  *)
(* single step of CC_AppendACL and CC_DeleteACL.                             *)
LEMMA ListNext == TypeOK /\ ListInv /\ AwsInv /\ Next => ListInv'
<1> SUFFICES ASSUME TypeOK, ListInv, AwsInv, Next PROVE ListInv'
  OBVIOUS
<1> USE ConstantsAssumption DEF TypeOK, HeapTypeOK, HistoryTypeOK
<1>1. CASE AppendPrepare
  <2>1. PICK n \in Node \ allocated :
           /\ allocated' = allocated \union {n}
           /\ next' = [next EXCEPT ![n] = gACL[Head(awsRights)]]
           /\ born' = [born EXCEPT ![n] = clock]
    BY <1>1 DEF AppendPrepare
  <2>2. clock' = clock + 1 /\ UNCHANGED <<gACL, owner>>
    BY <1>1 DEF AppendPrepare
  <2>3. \A m \in Node : owner[m] \in Right => m # n
    BY <2>1 DEF ListInv, ChainInv
  <2>4. AgeInv'
    BY <2>1, <2>2 DEF ListInv, AgeInv
  <2>5. ChainInv'
    BY <2>1, <2>2, <2>3 DEF ListInv, ChainInv, Follows
  <2>6. HeadInv'
    BY <2>1, <2>2, <2>3 DEF ListInv, HeadInv
  <2> QED
    BY <2>4, <2>5, <2>6 DEF ListInv
<1>2. CASE AppendPublish
  <2> DEFINE r == Head(awsRights)
  <2>1. /\ awsP \in allocated /\ owner[awsP] = NoRight /\ next[awsP] = gACL[r] /\ r \in Right
        /\ \A m \in Node : owner[m] \in Right => born[m] < born[awsP]
    BY <1>2 DEF AppendPublish, Running, AwsInv
  <2>2. /\ gACL' = [gACL EXCEPT ![r] = awsP] /\ owner' = [owner EXCEPT ![awsP] = r]
        /\ UNCHANGED <<next, allocated, born, clock>>
    BY <1>2 DEF AppendPublish
  <2>3. AgeInv'
    BY <2>2 DEF ListInv, AgeInv
  <2>4. ChainInv'
    <3> SUFFICES ASSUME NEW n \in Node, owner'[n] \in Right
                 PROVE  n \in allocated /\ Follows(next[n], n, owner[n])'
      BY <2>2 DEF ChainInv
    <3>1. CASE n = awsP
      BY <2>1, <2>2, <3>1 DEF ListInv, HeadInv, Follows, Right, NoRight
    <3>2. CASE n # awsP
      BY <2>1, <2>2, <3>2 DEF ListInv, ChainInv, Follows, Right, NoRight
    <3> QED
      BY <3>1, <3>2
  <2>5. HeadInv'
    BY <2>1, <2>2 DEF ListInv, HeadInv, Right, NoRight
  <2> QED
    BY <2>3, <2>4, <2>5 DEF ListInv
<1>3. CASE DeleteHead
  <2> DEFINE r == Head(awsRights)
  <2>1. awsP # NULL /\ awsP = gACL[r] /\ r \in Right /\ awsP \in Node
    BY <1>3 DEF DeleteHead, Running, AwsInv
  <2>2. /\ gACL' = [gACL EXCEPT ![r] = next[awsP]] /\ owner' = [owner EXCEPT ![awsP] = NoRight]
        /\ UNCHANGED <<next, allocated, born, clock>>
    BY <1>3 DEF DeleteHead
  <2>3. AgeInv'
    BY <2>2 DEF ListInv, AgeInv
  <2>4. owner[awsP] = r /\ awsP \in allocated /\ Follows(next[awsP], awsP, r)
    BY <2>1 DEF ListInv, HeadInv, ChainInv
  <2>5. ChainInv'
    <3> SUFFICES ASSUME NEW n \in Node, owner'[n] \in Right
                 PROVE  n \in allocated /\ Follows(next[n], n, owner[n])'
      BY <2>2 DEF ChainInv
    <3>1. n # awsP /\ owner'[n] = owner[n]
      BY <2>2 DEF Right, NoRight
    <3>2. n \in allocated /\ Follows(next[n], n, owner[n])
      BY <3>1 DEF ListInv, ChainInv
    <3>3. owner[n] = r => born[n] <= born[awsP]
      BY <2>1 DEF ListInv, HeadInv
    <3>4. next[n] # awsP
      BY <2>1, <2>4, <3>2, <3>3 DEF Follows
    <3> QED
      BY <2>2, <3>1, <3>2, <3>4 DEF Follows, Right, NoRight
  <2>6. HeadInv'
    <3> SUFFICES ASSUME NEW q \in Right
                 PROVE  IF gACL'[q] = NULL
                        THEN \A m \in Node : owner'[m] # q
                        ELSE /\ owner'[gACL'[q]] = q
                             /\ \A m \in Node : owner'[m] = q => born[m] <= born[gACL'[q]]
      BY <2>2 DEF HeadInv
    <3>1. CASE q = r
      BY <2>1, <2>2, <2>4, <3>1 DEF ListInv, HeadInv, AgeInv, ChainInv, Follows, Right, NoRight
    <3>2. CASE q # r
      BY <2>1, <2>2, <2>4, <3>2 DEF ListInv, HeadInv, Right, NoRight
    <3> QED
      BY <3>1, <3>2
  <2> QED
    BY <2>3, <2>5, <2>6 DEF ListInv
<1>4. CASE DeleteUnlink
  <2> DEFINE r == Head(awsRights)
  <2>1. /\ r \in Right /\ awsP \in Node /\ awsP1 \in Node
        /\ owner[awsP1] = r /\ awsP = next[awsP1]
    BY <1>4 DEF DeleteUnlink, Running, AwsInv, AwsTypeOK
  <2>2. /\ next' = [next EXCEPT ![awsP1] = next[awsP]]
        /\ owner' = [owner EXCEPT ![awsP] = NoRight]
        /\ UNCHANGED <<gACL, allocated, born, clock, awsP, awsP1, awsRights>>
    BY <1>4 DEF DeleteUnlink
  <2>3. AgeInv'
    BY <2>2 DEF ListInv, AgeInv
  <2>4. Follows(awsP, awsP1, r)
    BY <2>1 DEF ListInv, ChainInv
  <2>5. owner[awsP] = r /\ awsP # awsP1 /\ born[awsP] < born[awsP1]
    BY <2>1, <2>4 DEF Follows
  <2>6. awsP \in allocated /\ Follows(next[awsP], awsP, r)
    BY <2>1, <2>5 DEF ListInv, ChainInv
  <2>7. ChainInv'
    <3> SUFFICES ASSUME NEW n \in Node, owner'[n] \in Right
                 PROVE  n \in allocated /\ Follows(next[n], n, owner[n])'
      BY <2>2 DEF ChainInv
    <3>1. n # awsP /\ owner'[n] = owner[n]
      BY <2>2 DEF Right, NoRight
    <3>2. n \in allocated /\ Follows(next[n], n, owner[n])
      BY <3>1 DEF ListInv, ChainInv
    <3>3. CASE n = awsP1
      <4>1. \A m \in Node : owner[m] = r /\ m # awsP /\ born[m] < born[awsP1] => born[m] < born[awsP]
        BY <2>1, <2>4, <2>6 DEF ListInv, AgeInv, ChainInv, Follows
      <4>2. Follows(next[awsP], awsP1, r)'
        BY <2>1, <2>2, <2>5, <2>6, <4>1 DEF Follows, Right, NoRight
      <4> QED
        BY <2>1, <2>2, <2>5, <3>1, <3>2, <3>3, <4>2
    <3>4. CASE n # awsP1
      <4>1. next[n] # awsP
        BY <2>1, <2>4, <2>5, <3>2, <3>4 DEF ListInv, AgeInv, ChainInv, Follows
      <4> QED
        BY <2>1, <2>2, <2>5, <3>1, <3>2, <3>4, <4>1 DEF Follows, Right, NoRight
    <3> QED
      BY <3>3, <3>4
  <2>8. HeadInv'
    BY <2>1, <2>2, <2>5 DEF ListInv, HeadInv, Right, NoRight
  <2> QED
    BY <2>3, <2>7, <2>8 DEF ListInv
<1>5. CASE DeleteFree
  <2>1. awsP \in allocated /\ owner[awsP] = NoRight /\ awsP \in Node
    BY <1>5 DEF DeleteFree, Running, AwsInv
  <2>2. /\ allocated' = allocated \ {awsP} /\ next' = [next EXCEPT ![awsP] = NULL]
        /\ born' = [born EXCEPT ![awsP] = 0] /\ UNCHANGED <<gACL, owner, clock>>
    BY <1>5 DEF DeleteFree
  <2>3. \A m \in Node : owner[m] \in Right => m # awsP
    BY <2>1 DEF Right, NoRight
  <2>4. AgeInv'
    BY <2>1, <2>2 DEF ListInv, AgeInv
  <2>5. ChainInv'
    BY <2>2, <2>3 DEF ListInv, ChainInv, Follows
  <2>6. HeadInv'
    BY <2>2, <2>3 DEF ListInv, HeadInv
  <2> QED
    BY <2>4, <2>5, <2>6 DEF ListInv
<1>6. ASSUME UNCHANGED <<gACL, next, allocated, linkVars>> PROVE ListInv'
  BY <1>6, ListUnchanged
<1>7. CASE (\E op \in {"append", "delete"} : Command(op)) \/ DeleteSkipHead \/ DeleteWalk \/ HkNext
  BY <1>6, <1>7 DEF Command, DeleteSkipHead, DeleteWalk, HkNext, CheckBegin, CheckRefused,
     HkStep, CheckMatch, CheckAdvance, CheckEnd, CheckGarbageMatch, CheckGarbageAdvance,
     CheckGarbageFault, CheckReturn, Return, Advance, Exit, heapVars
<1>8. CASE \/ AwsThreadEnds \/ AppendFails \/ StoresVisible \/ DeleteRefused \/ DeleteEmpty
           \/ DeleteHeadMatch \/ DeleteMatch \/ DeleteNotFound
  BY <1>6, <1>8 DEF AwsThreadEnds, AppendFails, StoresVisible, DeleteRefused, DeleteEmpty,
     DeleteHeadMatch, DeleteMatch, DeleteNotFound, Exit, heapVars
<1> QED
  BY <1>1, <1>2, <1>3, <1>4, <1>5, <1>7, <1>8 DEF Next, AwsNext

-----------------------------------------------------------------------------
(* The AWS thread's pointers *)

LEMMA AwsUnchanged ==
    ASSUME AwsInv, UNCHANGED <<gACL, ad, next, allocated, linkVars, awsVars>>
    PROVE  AwsInv'
  BY DEF AwsInv, Follows, linkVars, awsVars

(* CC_AppendACL links the node it allocated, CC_DeleteACL walks the list it  *)
(* was asked to change and unlinks the newest match.                         *)
LEMMA AwsInvNext == TypeOK /\ ListInv /\ AwsInv /\ Next => AwsInv'
<1> SUFFICES ASSUME TypeOK, ListInv, AwsInv, Next PROVE AwsInv'
  OBVIOUS
<1> USE ConstantsAssumption DEF TypeOK, HeapTypeOK, AwsTypeOK, HistoryTypeOK
<1> DEFINE r == Head(awsRights)
<1>1. ASSUME NEW op \in {"append", "delete"}, Command(op) PROVE AwsInv'
  BY <1>1 DEF Command, AwsInv
<1>2. CASE AppendPrepare
  <2>1. PICK n \in Node \ allocated :
           /\ allocated' = allocated \union {n}
           /\ ad' = [ad EXCEPT ![n] = awsAd]
           /\ next' = [next EXCEPT ![n] = gACL[r]]
           /\ born' = [born EXCEPT ![n] = clock]
           /\ awsP' = n
    BY <1>2 DEF AppendPrepare
  <2>2. /\ awsPc' = "publish" /\ UNCHANGED <<gACL, awsAd, awsRights, owner>>
        /\ r \in Right /\ awsAd \in AD
    BY <1>2 DEF AppendPrepare, Running, AwsInv
  <2>3. owner[n] = NoRight /\ \A m \in Node : owner[m] \in Right => m # n /\ born[m] < clock
    BY DEF ListInv, AgeInv, ChainInv
  <2> QED
    BY <2>1, <2>2, <2>3 DEF AwsInv
<1>3. CASE AppendPublish
  BY <1>3 DEF AppendPublish, Running, NextRight, AwsInv
<1>4. CASE DeleteHeadMatch
  BY <1>4 DEF DeleteHeadMatch, Running, AwsInv
<1>5. CASE DeleteHead
  <2>1. awsP = gACL[r] /\ r \in Right /\ awsP \in Node /\ awsAd \in AD
    BY <1>5 DEF DeleteHead, Running, AwsInv
  <2>2. /\ owner' = [owner EXCEPT ![awsP] = NoRight] /\ awsPc' = "free"
        /\ UNCHANGED <<next, allocated, born, awsAd, awsRights, awsP>>
    BY <1>5 DEF DeleteHead
  <2>3. awsP \in allocated /\ Follows(next[awsP], awsP, r)
    BY <2>1 DEF ListInv, HeadInv, ChainInv
  <2>4. Follows(next[awsP], awsP, r)'
    BY <2>1, <2>2, <2>3 DEF Follows, Right, NoRight
  <2> QED
    BY <2>1, <2>2, <2>3, <2>4 DEF AwsInv
<1>6. CASE DeleteSkipHead
  <2>1. /\ r \in Right /\ gACL[r] # NULL /\ ad[gACL[r]] # awsAd /\ awsAd \in AD
        /\ awsP1' = gACL[r] /\ awsP' = next[gACL[r]] /\ awsPc' = "walk"
        /\ UNCHANGED <<ad, next, born, owner, awsAd, awsRights>>
    BY <1>6 DEF DeleteSkipHead, Running, AwsInv, heapVars, linkVars
  <2>2. /\ owner[gACL[r]] = r /\ gACL[r] \in allocated
        /\ \A m \in Node : owner[m] = r => m \in allocated /\ born[m] <= born[gACL[r]]
    BY <2>1 DEF ListInv, HeadInv, ChainInv
  <2>3. \A m \in Node : owner[m] = r /\ born[m] >= born[gACL[r]] => m = gACL[r]
    BY <2>1, <2>2 DEF ListInv, AgeInv
  <2> QED
    BY <2>1, <2>2, <2>3 DEF AwsInv
<1>7. CASE DeleteWalk
  <2>1. /\ awsP \in Node /\ ad[awsP] # awsAd /\ awsAd \in AD
        /\ awsP1' = awsP /\ awsP' = next[awsP] /\ awsPc' = "walk"
        /\ UNCHANGED <<ad, next, born, owner, awsAd, awsRights>>
    BY <1>7 DEF DeleteWalk, Running, AwsInv, heapVars, linkVars
  <2>2. /\ r \in Right /\ awsP1 \in Node /\ owner[awsP1] = r /\ awsP = next[awsP1]
        /\ \A m \in Node : owner[m] = r /\ born[m] >= born[awsP1] => ad[m] # awsAd
    BY <1>7 DEF DeleteWalk, Running, AwsInv
  <2>3. /\ owner[awsP] = r
        /\ \A m \in Node : owner[m] = r /\ born[m] < born[awsP1] => born[m] <= born[awsP]
    BY <2>1, <2>2 DEF ListInv, ChainInv, Follows
  <2>4. \A m \in Node : owner[m] = r /\ born[m] >= born[awsP] =>
           m = awsP \/ born[m] >= born[awsP1]
    <3>1. \A m \in Node : owner[m] = r => m \in allocated
      BY <2>2 DEF ListInv, ChainInv
    <3>2. \A m \in Node : owner[m] = r /\ born[m] = born[awsP] => m = awsP
      BY <2>1, <2>3, <3>1 DEF ListInv, AgeInv
    <3>3. \A m \in Node : born[m] \in Nat
      OBVIOUS
    <3> HIDE DEF r, TypeOK, HeapTypeOK, AwsTypeOK, HistoryTypeOK
    <3> QED
      BY <2>1, <2>2, <2>3, <3>2, <3>3
  <2> QED
    BY <2>1, <2>2, <2>3, <2>4 DEF AwsInv
<1>8. CASE DeleteMatch
  BY <1>8 DEF DeleteMatch, Running, AwsInv, linkVars
<1>9. CASE DeleteUnlink
  <2>1. /\ r \in Right /\ awsP \in Node /\ awsP1 \in Node /\ awsAd \in AD
        /\ owner[awsP1] = r /\ awsP = next[awsP1]
    BY <1>9 DEF DeleteUnlink, Running, AwsInv
  <2>2. /\ next' = [next EXCEPT ![awsP1] = next[awsP]]
        /\ owner' = [owner EXCEPT ![awsP] = NoRight] /\ awsPc' = "free"
        /\ UNCHANGED <<allocated, born, awsAd, awsRights, awsP>>
    BY <1>9 DEF DeleteUnlink
  <2>3. owner[awsP] = r /\ awsP # awsP1
    BY <2>1 DEF ListInv, ChainInv, Follows
  <2>4. awsP \in allocated /\ Follows(next[awsP], awsP, r)
    BY <2>1, <2>3 DEF ListInv, ChainInv
  <2>5. Follows(next[awsP], awsP, r)'
    BY <2>1, <2>2, <2>3, <2>4 DEF Follows, Right, NoRight
  <2> QED
    BY <2>1, <2>2, <2>4, <2>5 DEF AwsInv
<1>10. CASE DeleteFree
  BY <1>10 DEF DeleteFree, Running, NextRight, AwsInv
<1>11. ASSUME UNCHANGED <<gACL, ad, next, allocated, linkVars, awsVars>> PROVE AwsInv'
  BY <1>11, AwsUnchanged
<1>12. CASE AwsThreadEnds \/ AppendFails \/ StoresVisible \/ DeleteRefused \/ DeleteEmpty \/ DeleteNotFound
  BY <1>11, <1>12 DEF AwsThreadEnds, AppendFails, StoresVisible, DeleteRefused, DeleteEmpty,
     DeleteNotFound, Exit, heapVars
<1>13. CASE HkNext
  BY <1>11, <1>13 DEF HkNext, CheckBegin, CheckRefused, HkStep, CheckMatch, CheckAdvance,
     CheckEnd, CheckGarbageMatch, CheckGarbageAdvance, CheckGarbageFault, CheckReturn,
     Return, Advance, Exit, heapVars
<1> QED
  BY <1>1, <1>2, <1>3, <1>4, <1>5, <1>6, <1>7, <1>8, <1>9, <1>10, <1>12, <1>13 DEF Next, AwsNext

-----------------------------------------------------------------------------
(* The check *)

\* Steps of the AWS thread that change neither a list nor a live node.
LEMMA CheckUnchanged ==
    ASSUME CheckInv, UNCHANGED <<ad, allocated, owner, born, hkVars, obsVars>>,
           awsPc # "free" \/ UNCHANGED awsVars
    PROVE  CheckInv'
  BY DEF CheckInv, CheckSound, Linearized, OnPath, Ahead, Authorised, hkVars, obsVars, awsVars

\* Unlinking the newest match leaves an older one ahead of the check, or none.
LEMMA CheckUnlink ==
    ASSUME TypeOK, AwsInv, CheckInv, awsP \in Node, Head(awsRights) \in Right,
           owner[awsP] = Head(awsRights), ad[awsP] = awsAd, awsPc # "free",
           \A m \in Node : owner[m] = Head(awsRights) /\ ad[m] = awsAd => born[m] <= born[awsP],
           owner' = [owner EXCEPT ![awsP] = NoRight], awsPc' = "free",
           UNCHANGED <<ad, allocated, born, awsP, awsRights, hkVars>>, Observe
    PROVE  CheckInv'
<1> USE ConstantsAssumption DEF TypeOK, HeapTypeOK, HistoryTypeOK
<1>1. WRITE \in Right /\ WRITE # NoRight
  BY DEF Right, NoRight
<1>2. CheckSound'
  BY DEF CheckInv, CheckSound, Linearized, Observe, hkVars
<1>3. ASSUME hkPc' = "compare"
      PROVE  /\ hkAd' \in AD
             /\ Authorised(WRITE, hkAd)' => seenGranted'
             /\ ~ Authorised(WRITE, hkAd)' => seenDenied'
  BY <1>3 DEF CheckInv, Observe, hkVars
<1>4. ASSUME hkPc' = "compare", ~ stale' PROVE OnPath'
  <2>1. /\ hkPc = "compare" /\ ~ stale /\ OnPath
        /\ seenGranted => seenGranted'
    BY <1>4 DEF CheckInv, Observe, hkVars
  <2> QED
    BY <1>1, <2>1 DEF OnPath, hkVars
<1>5. ASSUME hkPc' = "compare", ~ stale' PROVE Ahead'
  <2>1. /\ hkPc = "compare" /\ ~ stale /\ Ahead /\ OnPath
        /\ ~ seenDenied' => ~ seenDenied /\ Authorised(WRITE, hkAd)'
    BY <1>4, <1>5 DEF CheckInv, Observe, hkVars
  <2> SUFFICES ASSUME ~ seenDenied'
               PROVE  /\ hkP # NULL
                      /\ \E n \in Node : owner'[n] = WRITE /\ ad[n] = hkAd /\ born[n] <= born[hkP]
    BY DEF Ahead, hkVars
  <2>2. hkP # NULL /\ hkP \in Node
    BY <2>1 DEF Ahead, OnPath
  <2>3. PICK n \in Node : owner[n] = WRITE /\ ad[n] = hkAd /\ born[n] <= born[hkP]
    BY <2>1 DEF Ahead
  <2>4. PICK m \in Node : owner'[m] = WRITE /\ ad[m] = hkAd
    BY <2>1 DEF Authorised, hkVars
  <2>5. CASE n = awsP
    <3>1. m # awsP /\ owner[m] = WRITE
      BY <1>1, <2>4
    <3>2. born[m] <= born[awsP]
      BY <2>3, <2>4, <2>5, <3>1
    <3>3. born[m] \in Nat /\ born[n] \in Nat /\ born[hkP] \in Nat
      BY <2>2
    <3>4. born[m] <= born[hkP]
      BY <2>3, <2>5, <3>2, <3>3
    <3> QED
      BY <2>2, <2>4, <3>4
  <2>6. CASE n # awsP
    BY <2>2, <2>3, <2>6
  <2> QED
    BY <2>5, <2>6
<1> QED
  BY <1>2, <1>3, <1>4, <1>5 DEF CheckInv

(* Along every step of either thread, a check that met no freed or torn node *)
(* stays on the write list or on the node just unlinked from it, and an      *)
(* entry that was never absent stays ahead of it.                            *)
LEMMA CheckInvNext == TypeOK /\ ListInv /\ AwsInv /\ CheckInv /\ Next => CheckInv'
<1> SUFFICES ASSUME TypeOK, ListInv, AwsInv, CheckInv, Next PROVE CheckInv'
  OBVIOUS
<1> USE ConstantsAssumption DEF TypeOK, HeapTypeOK, HistoryTypeOK
<1>0. WRITE \in Right /\ WRITE # NoRight
  BY DEF Right, NoRight
<1>1. ASSUME NEW op \in {"append", "delete"}, Command(op) PROVE CheckInv'
  BY <1>1, CheckUnchanged DEF Command, Running, heapVars, linkVars
<1>2. CASE AwsThreadEnds \/ AppendFails \/ DeleteRefused \/ DeleteNotFound \/ CheckGarbageFault
  BY <1>2, CheckUnchanged DEF AwsThreadEnds, AppendFails, DeleteRefused, DeleteNotFound,
     CheckGarbageFault, Exit, heapVars, linkVars
<1>3. CASE StoresVisible \/ DeleteEmpty \/ DeleteHeadMatch \/ DeleteSkipHead \/ DeleteWalk \/ DeleteMatch
  BY <1>3, CheckUnchanged DEF StoresVisible, DeleteEmpty, DeleteHeadMatch, DeleteSkipHead,
     DeleteWalk, DeleteMatch, Running, heapVars, linkVars
<1>4. CASE AppendPrepare
  <2>1. PICK n \in Node \ allocated :
           /\ allocated' = allocated \union {n}
           /\ ad' = [ad EXCEPT ![n] = awsAd]
           /\ born' = [born EXCEPT ![n] = clock]
    BY <1>4 DEF AppendPrepare
  <2>2. awsPc # "free" /\ UNCHANGED <<owner, hkVars, obsVars>>
    BY <1>4 DEF AppendPrepare, Running
  <2>3. \A m \in Node : owner[m] = WRITE => m # n
    BY <1>0, <2>1 DEF ListInv, ChainInv
  <2>4. Authorised(WRITE, hkAd)' <=> Authorised(WRITE, hkAd)
    BY <2>1, <2>2, <2>3 DEF Authorised, hkVars
  <2>5. OnPath => OnPath'
    BY <2>1, <2>2 DEF OnPath, hkVars, obsVars
  <2>6. OnPath /\ Ahead => Ahead'
    BY <2>1, <2>2, <2>3 DEF OnPath, Ahead, hkVars, obsVars
  <2> QED
    BY <2>2, <2>4, <2>5, <2>6 DEF CheckInv, CheckSound, Linearized, hkVars, obsVars
<1>5. CASE AppendPublish
  <2>1. awsPc = "publish" /\ owner[awsP] = NoRight /\ awsP \in Node
    BY <1>5 DEF AppendPublish, Running, AwsInv
  <2>2. owner' = [owner EXCEPT ![awsP] = Head(awsRights)] /\ UNCHANGED <<ad, allocated, born, hkVars>>
    BY <1>5 DEF AppendPublish
  <2>3. Observe
    BY <1>5 DEF AppendPublish
  <2>4. CheckSound'
    BY <2>2, <2>3 DEF CheckInv, CheckSound, Linearized, Observe, hkVars
  <2>5. \A m \in Node : owner[m] = WRITE => owner'[m] = WRITE
    BY <1>0, <2>1, <2>2
  <2>6. OnPath /\ hkPc = "compare" => OnPath'
    BY <2>1, <2>2, <2>3, <2>5 DEF OnPath, Observe, hkVars
  <2>7. OnPath /\ Ahead /\ hkPc = "compare" => Ahead'
    BY <2>2, <2>3, <2>5 DEF OnPath, Ahead, Observe, hkVars
  <2> QED
    BY <2>2, <2>3, <2>4, <2>6, <2>7 DEF CheckInv, Observe, hkVars
<1>6. CASE DeleteHead
  <2>1. /\ awsP # NULL /\ awsP = gACL[Head(awsRights)] /\ Head(awsRights) \in Right
        /\ ad[awsP] = awsAd /\ awsP \in Node /\ awsPc # "free"
    BY <1>6 DEF DeleteHead, Running, AwsInv
  <2>2. /\ owner[awsP] = Head(awsRights)
        /\ \A m \in Node : owner[m] = Head(awsRights) => born[m] <= born[awsP]
    BY <2>1 DEF ListInv, HeadInv
  <2> QED
    BY <1>6, <2>1, <2>2, CheckUnlink DEF DeleteHead
<1>7. CASE DeleteUnlink
  <2>1. /\ Head(awsRights) \in Right /\ awsP1 \in Node /\ awsP \in Node /\ awsPc # "free"
        /\ owner[awsP1] = Head(awsRights) /\ awsP = next[awsP1] /\ ad[awsP] = awsAd
        /\ \A m \in Node :
              owner[m] = Head(awsRights) /\ born[m] >= born[awsP1] => ad[m] # awsAd
    BY <1>7 DEF DeleteUnlink, Running, AwsInv, AwsTypeOK
  <2>2. Follows(awsP, awsP1, Head(awsRights))
    BY <2>1 DEF ListInv, ChainInv
  <2>3. /\ owner[awsP] = Head(awsRights)
        /\ \A m \in Node : owner[m] = Head(awsRights) /\ ad[m] = awsAd => born[m] <= born[awsP]
    BY <2>1, <2>2 DEF Follows
  <2> QED
    BY <1>7, <2>1, <2>3, CheckUnlink DEF DeleteUnlink
<1>8. CASE DeleteFree
  <2>1. /\ awsP \in Node /\ owner[awsP] = NoRight /\ UNCHANGED <<owner, hkVars, seenGranted, seenDenied>>
        /\ allocated' = allocated \ {awsP} /\ ad' = [ad EXCEPT ![awsP] = NULL]
        /\ born' = [born EXCEPT ![awsP] = 0]
        /\ stale' <=> stale \/ (hkPc = "compare" /\ hkP = awsP)
    BY <1>8 DEF DeleteFree, Running, AwsInv
  <2>2. \A m \in Node : owner[m] = WRITE => m # awsP
    BY <1>0, <2>1
  <2>3. Authorised(WRITE, hkAd)' <=> Authorised(WRITE, hkAd)
    BY <2>1, <2>2 DEF Authorised, hkVars
  <2>4. OnPath /\ hkP # awsP => OnPath'
    BY <2>1 DEF OnPath, hkVars
  <2>5. OnPath /\ Ahead /\ hkP # awsP => Ahead'
    BY <2>1, <2>2 DEF OnPath, Ahead, hkVars
  <2> QED
    BY <2>1, <2>3, <2>4, <2>5 DEF CheckInv, CheckSound, Linearized, hkVars
<1>9. CASE CheckBegin
  <2>1. /\ hkAd' \in AD /\ hkP' = gACL[WRITE] /\ hkPc' = "compare" /\ stale' = stale
        /\ seenGranted' = Authorised(WRITE, hkAd') /\ seenDenied' = ~ Authorised(WRITE, hkAd')
        /\ UNCHANGED <<heapVars, awsVars, linkVars>>
    BY <1>9 DEF CheckBegin
  <2>2. Authorised(WRITE, hkAd)' <=> Authorised(WRITE, hkAd')
    BY <2>1 DEF Authorised, heapVars, linkVars
  <2>3. OnPath'
    BY <1>0, <2>1 DEF OnPath, Authorised, ListInv, HeadInv, ChainInv, heapVars, linkVars
  <2>4. Ahead'
    BY <1>0, <2>1 DEF Ahead, Authorised, ListInv, HeadInv, heapVars, linkVars
  <2> QED
    BY <2>1, <2>2, <2>3, <2>4 DEF CheckInv, CheckSound, Linearized
<1>10. CASE CheckRefused \/ CheckReturn
  BY <1>10 DEF CheckRefused, CheckReturn, CheckInv, CheckSound, Linearized
<1>11. CASE CheckMatch \/ CheckEnd \/ CheckGarbageMatch
  <2>1. hkPc = "compare" /\ hkPc' = "done" /\ UNCHANGED <<seenGranted, seenDenied>>
    BY <1>11 DEF CheckMatch, CheckEnd, CheckGarbageMatch, Comparing, Return
  <2>2. ASSUME CheckMatch, ~ stale PROVE hkResult' = "granted" /\ seenGranted
    BY <2>1, <2>2 DEF CheckMatch, Comparing, Readable, Return, CheckInv, OnPath
  <2>3. ASSUME CheckEnd, ~ stale PROVE hkResult' = "denied" /\ seenDenied
    BY <2>1, <2>3 DEF CheckEnd, Comparing, Return, CheckInv, Ahead
  <2>4. stale' \/ (stale' = stale /\ ~ stale /\ (CheckMatch \/ CheckEnd))
    BY <1>11 DEF CheckMatch, CheckEnd, CheckGarbageMatch
  <2> QED
    BY <2>1, <2>2, <2>3, <2>4 DEF CheckInv, CheckSound, Linearized
<1>12. CASE CheckGarbageAdvance
  BY <1>12 DEF CheckGarbageAdvance, Comparing, Advance, CheckInv, CheckSound, Linearized,
     Authorised, heapVars, linkVars
<1>13. CASE CheckAdvance
  <2>1. /\ hkPc = "compare" /\ hkP \in allocated /\ ad[hkP] # hkAd /\ hkP' = next[hkP]
        /\ UNCHANGED <<heapVars, awsVars, hkPc, hkAd, hkResult, linkVars, obsVars>>
    BY <1>13 DEF CheckAdvance, Comparing, Advance, Readable, obsVars
  <2>2. ASSUME ~ stale PROVE Follows(next[hkP], hkP, WRITE)
    BY <1>0, <2>1, <2>2 DEF CheckInv, OnPath, ListInv, ChainInv, AwsInv
  <2>3. Authorised(WRITE, hkAd)' <=> Authorised(WRITE, hkAd)
    BY <2>1 DEF Authorised, heapVars, linkVars
  <2>4. ASSUME ~ stale PROVE OnPath'
    BY <1>0, <2>1, <2>2, <2>4
       DEF OnPath, Follows, CheckInv, Authorised, ListInv, ChainInv, heapVars, linkVars, obsVars
  <2>5. ASSUME ~ stale PROVE Ahead'
    <3> SUFFICES ASSUME ~ seenDenied
                 PROVE  /\ next[hkP] # NULL
                        /\ \E n \in Node : owner[n] = WRITE /\ ad[n] = hkAd /\ born[n] <= born[next[hkP]]
      BY <2>1 DEF Ahead, heapVars, linkVars, obsVars
    <3>1. PICK n \in Node : owner[n] = WRITE /\ ad[n] = hkAd /\ born[n] <= born[hkP]
      BY <2>1, <2>5 DEF CheckInv, Ahead
    <3>2. n # hkP /\ n \in allocated
      BY <1>0, <2>1, <3>1 DEF ListInv, ChainInv
    <3>3. born[n] # born[hkP]
      BY <2>1, <3>2 DEF ListInv, AgeInv
    <3>4. born[n] < born[hkP]
      BY <2>1, <3>1, <3>3
    <3>5. born[n] \in Nat /\ born[hkP] \in Nat
      BY <2>1
    <3>6. ~ (born[n] >= born[hkP])
      BY <3>4, <3>5
    <3> QED
      BY <2>2, <2>5, <3>1, <3>4, <3>6 DEF Follows
  <2> QED
    BY <2>1, <2>3, <2>4, <2>5 DEF CheckInv, CheckSound, Linearized, obsVars
<1> QED
  BY <1>1, <1>2, <1>3, <1>4, <1>5, <1>6, <1>7, <1>8, <1>9, <1>10, <1>11, <1>12, <1>13
     DEF Next, AwsNext, HkNext, HkStep

-----------------------------------------------------------------------------
(* The theorems *)

LEMMA IndInvInit == Init => IndInv
<1> SUFFICES ASSUME Init PROVE ListInv /\ AwsInv /\ CheckInv
  BY TypingInit DEF IndInv
<1>1. ListInv
  BY ConstantsAssumption DEF Init, ListInv, AgeInv, ChainInv, HeadInv, Right, NoRight
<1>2. AwsInv
  BY DEF Init, AwsInv
<1>3. CheckInv
  BY DEF Init, CheckInv, CheckSound, Linearized
<1> QED
  BY <1>1, <1>2, <1>3

LEMMA IndInvNext == IndInv /\ [Next]_vars => IndInv'
<1> SUFFICES ASSUME IndInv, [Next]_vars PROVE IndInv'
  OBVIOUS
<1>1. TypeOK'
  BY TypingNext DEF IndInv
<1>2. CASE Next
  BY <1>1, <1>2, ListNext, AwsInvNext, CheckInvNext DEF IndInv
<1>3. CASE UNCHANGED vars
  <2>1. ListInv'
    BY <1>3, ListUnchanged DEF IndInv, vars, heapVars
  <2>2. AwsInv'
    BY <1>3, AwsUnchanged DEF IndInv, vars, heapVars
  <2>3. CheckInv'
    BY <1>3, CheckUnchanged DEF IndInv, vars, heapVars, linkVars
  <2> QED
    BY <1>1, <2>1, <2>2, <2>3 DEF IndInv
<1> QED
  BY <1>2, <1>3

(* The lists are well formed at every step of both threads: disjoint, made   *)
(* of live nodes, ordered by age, with the AWS thread's pointers on them.    *)
THEOREM Invariance == Spec => []IndInv
  BY IndInvInit, IndInvNext, PTL DEF Spec

(* CC_CheckAuthData takes no lock, yet whenever the race with the MQTT       *)
(* commands reached no freed or torn node it grants only what was on the     *)
(* list, and denies only what was absent, at some instant of the check.      *)
THEOREM Soundness == Spec => []CheckSound
<1>1. IndInv => CheckSound
  BY DEF IndInv, CheckInv
<1> QED
  BY <1>1, Invariance, PTL

-----------------------------------------------------------------------------
(* What the lists reach *)

\* A set of numbers has a least one.
LEMMA Least ==
    ASSUME NEW T \in SUBSET Nat, T # {}
    PROVE  \E x \in T : \A y \in T : x <= y
<1> DEFINE R == {ss \in Nat \X Nat : ss[1] < ss[2]}
<1>1. IsWellFoundedOn(R, Nat)
  BY NatLessThanWellFounded DEF OpToRel
<1> HIDE DEF R
<1>2. PICK x \in T : \A y \in T : ~ (<<y, x>> \in R)
  BY <1>1, WFMin
<1>3. \A y \in T : ~ (y < x)
  BY <1>2 DEF R
<1> QED
  BY <1>3

\* The head of a list reaches every node that was linked into it: the newest
\* node it would not reach is what follows the one before it.
LEMMA Reached ==
    ASSUME TypeOK, ListInv, NEW r \in Right,
           NEW S \in SUBSET Node, HoldsList(S, r), NEW n \in Node, owner[n] = r
    PROVE  n \in S
<1> USE ConstantsAssumption DEF TypeOK, HeapTypeOK, HistoryTypeOK
<1> DEFINE L == {k \in Node : owner[k] = r}
<1>0. /\ \A k \in L : k \in allocated /\ Follows(next[k], k, r)
      /\ \A k \in L : born[k] \in Nat /\ born[k] < clock
      /\ \A k, l \in L : born[k] = born[l] => k = l
      /\ clock \in Nat
  BY DEF ListInv, AgeInv, ChainInv
<1> SUFFICES ASSUME n \notin S PROVE FALSE
  OBVIOUS
<1> DEFINE ages == {clock - born[k] : k \in L \ S}
<1>1. PICK m \in L \ S : \A k \in L \ S : born[k] <= born[m]
  <2>1. ages \in SUBSET Nat /\ ages # {}
    BY <1>0
  <2>2. PICK x \in ages : \A y \in ages : x <= y
    <3> HIDE DEF ages
    <3> QED
      BY <2>1, Least
  <2>3. PICK m \in L \ S : x = clock - born[m]
    BY <2>2
  <2>4. \A k \in L \ S : clock - born[m] <= clock - born[k]
    BY <2>2, <2>3
  <2> QED
    BY <1>0, <2>3, <2>4
<1>2. gACL[r] \in L /\ gACL[r] \in S /\ \A k \in L : born[k] <= born[gACL[r]]
  BY <1>1 DEF ListInv, HeadInv, HoldsList
<1>3. born[gACL[r]] > born[m]
  BY <1>0, <1>1, <1>2
<1> DEFINE newer == {k \in L : born[k] > born[m]}
           births == {born[k] : k \in newer}
<1>4. PICK p \in newer : \A k \in newer : born[p] <= born[k]
  <2>1. births \in SUBSET Nat /\ births # {}
    BY <1>0, <1>2, <1>3
  <2>2. PICK x \in births : \A y \in births : x <= y
    <3> HIDE DEF births
    <3> QED
      BY <2>1, Least
  <2> QED
    BY <2>2
<1>5. p \in S
  BY <1>0, <1>1, <1>4
<1>6. next[p] \in L /\ born[next[p]] < born[p] /\ born[m] <= born[next[p]]
  BY <1>0, <1>1, <1>4 DEF Follows
<1>7. next[p] = m
  BY <1>0, <1>1, <1>4, <1>6
<1> QED
  BY <1>1, <1>5, <1>7 DEF HoldsList

\* What a list reaches is what was linked into it and not unlinked.
LEMMA ListedAreOwned ==
    TypeOK /\ ListInv =>
        \A r \in Right : Listed(r) = {n \in Node : owner[n] = r}
<1> SUFFICES ASSUME TypeOK, ListInv, NEW r \in Right
             PROVE  Listed(r) = {n \in Node : owner[n] = r}
  OBVIOUS
<1> DEFINE L == {n \in Node : owner[n] = r}
<1>1. HoldsList(L, r)
  BY ConstantsAssumption DEF HoldsList, ListInv, HeadInv, ChainInv, Follows,
     TypeOK, HeapTypeOK
<1>2. ASSUME NEW n \in Listed(r) PROVE n \in L
  <2> SUFFICES ASSUME n \notin L PROVE FALSE
    OBVIOUS
  <2>1. L \in SUBSET (Node \ {n})
    OBVIOUS
  <2> QED
    BY <1>1, <2>1 DEF Listed
<1>3. ASSUME NEW n \in L PROVE n \in Listed(r)
  <2>1. ASSUME NEW S \in SUBSET (Node \ {n}), HoldsList(S, r) PROVE FALSE
    BY <2>1, Reached
  <2> QED
    BY <2>1 DEF Listed
<1> QED
  BY <1>2, <1>3

-----------------------------------------------------------------------------
(* What CC_DeleteACL unlinks is on the list it works on, and is what it was *)
(* asked to delete.                                                         *)
LEMMA AwsOnList ==
    ASSUME IndInv, awsPc \in {"behead", "unlink"}
    PROVE  /\ awsP \in Node /\ Head(awsRights) \in Right
           /\ owner[awsP] = Head(awsRights)
           /\ awsAd \in AD /\ ad[awsP] = awsAd
<1> USE ConstantsAssumption DEF IndInv, TypeOK, HeapTypeOK, HistoryTypeOK
<1>1. /\ awsP \in Node /\ Head(awsRights) \in Right
      /\ awsAd \in AD /\ ad[awsP] = awsAd
  BY DEF AwsTypeOK, AwsInv
<1>2. CASE awsPc = "behead"
  BY <1>1, <1>2 DEF AwsInv, ListInv, HeadInv
<1>3. CASE awsPc = "unlink"
  <2>1. awsP1 \in Node /\ owner[awsP1] = Head(awsRights) /\ awsP = next[awsP1]
    BY <1>3 DEF AwsTypeOK, AwsInv
  <2> QED
    BY <1>1, <2>1 DEF ListInv, ChainInv, Follows
<1> QED
  BY <1>1, <1>2, <1>3

-----------------------------------------------------------------------------
(* What malloc has handed out *)

\* Nodes change hands one at a time: malloc, link, unlink, free.
LEMMA OwnedNext ==
    ASSUME IndInv, OwnedInv, [Next]_vars
    PROVE  OwnedInv'
<1> USE ConstantsAssumption DEF IndInv, TypeOK, HeapTypeOK, HistoryTypeOK, OwnedInv
<1>0. NoRight \notin Right
  BY DEF Right, NoRight
<1>1. CASE AppendPrepare
  <2>1. PICK n \in Node \ allocated :
           allocated' = allocated \union {n} /\ awsP' = n
    BY <1>1 DEF AppendPrepare
  <2>2. awsPc = "append" /\ awsPc' = "publish" /\ owner' = owner
    BY <1>1 DEF AppendPrepare, Running
  <2> QED
    BY <2>1, <2>2 DEF InHand
<1>2. CASE AppendPublish
  <2>1. awsPc = "publish" /\ awsPc' \in {"idle", "append"}
    BY <1>2 DEF AppendPublish, Running, NextRight
  <2>2. /\ owner' = [owner EXCEPT ![awsP] = Head(awsRights)]
        /\ Head(awsRights) \in Right /\ awsP \in Node
        /\ allocated' = allocated
    BY <1>2, <2>1 DEF AppendPublish, AwsInv, AwsTypeOK
  <2> QED
    BY <2>1, <2>2 DEF InHand
<1>3. CASE DeleteHead \/ DeleteUnlink
  <2>1. awsPc \in {"behead", "unlink"} /\ awsPc' = "free"
    BY <1>3 DEF DeleteHead, DeleteUnlink, Running
  <2>2. /\ owner' = [owner EXCEPT ![awsP] = NoRight]
        /\ awsP \in Node /\ awsP' = awsP /\ allocated' = allocated
    BY <1>3, <2>1 DEF DeleteHead, DeleteUnlink, AwsTypeOK
  <2>3. owner[awsP] \in Right
    BY <1>3, <2>1, <2>2, AwsOnList DEF DeleteHead, DeleteUnlink
  <2> QED
    BY <1>0, <2>1, <2>2, <2>3 DEF InHand
<1>4. CASE DeleteFree
  <2>1. awsPc = "free" /\ awsPc' \in {"idle", "delete"}
    BY <1>4 DEF DeleteFree, Running, NextRight
  <2>2. allocated' = allocated \ {awsP} /\ owner' = owner
    BY <1>4 DEF DeleteFree
  <2>3. owner[awsP] = NoRight
    BY <2>1 DEF AwsInv
  <2> QED
    BY <1>0, <2>1, <2>2, <2>3 DEF InHand
<1>5. ASSUME UNCHANGED <<allocated, owner>>, InHand' = InHand PROVE OwnedInv'
  BY <1>5
<1>6. CASE Command("append") \/ Command("delete") \/ DeleteSkipHead \/ DeleteWalk
  BY <1>5, <1>6 DEF Command, DeleteSkipHead, DeleteWalk, InHand, Running,
     heapVars, linkVars
<1>7. CASE \/ AwsThreadEnds \/ AppendFails \/ StoresVisible \/ DeleteRefused \/ DeleteEmpty
           \/ DeleteHeadMatch \/ DeleteMatch \/ DeleteNotFound
  BY <1>5, <1>7 DEF AwsThreadEnds, AppendFails, StoresVisible, DeleteRefused, DeleteEmpty,
     DeleteHeadMatch, DeleteMatch, DeleteNotFound, Exit, InHand, Running,
     heapVars, awsVars, linkVars
<1>8. CASE HkNext \/ UNCHANGED vars
  BY <1>5, <1>8 DEF HkNext, CheckBegin, CheckRefused,
     HkStep, CheckMatch, CheckAdvance, CheckEnd, CheckGarbageMatch, CheckGarbageAdvance,
     CheckGarbageFault, CheckReturn, Return, Advance, Exit, InHand,
     heapVars, awsVars, linkVars, vars
<1> QED
  BY <1>1, <1>2, <1>3, <1>4, <1>6, <1>7, <1>8 DEF Next, AwsNext

(* What CC_AppendACL allocates is linked into the list of its right, and what *)
(* CC_DeleteACL unlinks is freed: nothing leaks and nothing linked is freed,  *)
(* whatever commands come and checks run meanwhile.                           *)
THEOREM NothingLeaks == Spec => []HeapAccounted
<1>1. Init => OwnedInv
  BY ConstantsAssumption DEF Init, OwnedInv, InHand, Right, NoRight
<1>2. IndInv /\ OwnedInv /\ [Next]_vars => OwnedInv'
  BY OwnedNext
<1>3. IndInv /\ OwnedInv => HeapAccounted
  <2> SUFFICES ASSUME IndInv, OwnedInv PROVE HeapAccounted
    OBVIOUS
  <2>1. \A r \in Right : Listed(r) = {n \in Node : owner[n] = r}
    BY ListedAreOwned DEF IndInv
  <2>2. UNION {Listed(r) : r \in Right} = {n \in Node : owner[n] \in Right}
    BY <2>1
  <2>3. allocated = {n \in Node : owner[n] \in Right} \union InHand
    BY DEF OwnedInv
  <2> QED
    BY <2>2, <2>3 DEF HeapAccounted
<1> QED
  BY <1>1, <1>2, <1>3, Invariance, PTL DEF Spec

-----------------------------------------------------------------------------
(* The bags of grants *)

\* The nodes of a list with some authorization data, and how many they are.
Entries(r, a) == {n \in Node : owner[n] = r /\ ad[n] = a}
Tally == [r \in Right |-> [a \in AD |-> Cardinality(Entries(r, a))]]

\* The grants of the lists are counted by what was linked into them.
LEMMA GrantsAreTally == TypeOK /\ ListInv => Grants = Tally
<1> SUFFICES ASSUME TypeOK, ListInv PROVE Grants = Tally
  OBVIOUS
<1>1. ASSUME NEW r \in Right
      PROVE  (LET listed == Listed(r)
              IN  [a \in AD |-> Cardinality({n \in listed : ad[n] = a})])
             = [a \in AD |-> Cardinality(Entries(r, a))]
  <2>1. Listed(r) = {n \in Node : owner[n] = r}
    BY ListedAreOwned
  <2>2. \A a \in AD : {n \in Listed(r) : ad[n] = a} = Entries(r, a)
    BY <2>1 DEF Entries
  <2> QED
    BY <2>2
<1> QED
  BY <1>1 DEF Grants, Tally

\* A count of nodes is a number.
LEMMA TallyType ==
    ASSUME NEW r, NEW a
    PROVE  IsFiniteSet(Entries(r, a)) /\ Cardinality(Entries(r, a)) \in Nat
<1>1. IsFiniteSet(Entries(r, a))
  BY ConstantsAssumption, FS_Subset DEF Entries
<1> QED
  BY <1>1, FS_CardinalityType

\* What neither links nor unlinks a node, nor writes to a linked one, grants
\* and revokes nothing.
LEMMA SameTally ==
    ASSUME \A n \in Node :
              /\ owner'[n] = owner[n]
              /\ owner[n] \in Right => ad'[n] = ad[n]
    PROVE  Tally' = Tally
<1>1. ASSUME NEW r \in Right, NEW a \in AD
      PROVE  Entries(r, a)' = Entries(r, a)
  <2>1. \A n \in Node : (owner[n] = r /\ ad[n] = a) <=> (owner'[n] = r /\ ad'[n] = a)
    OBVIOUS
  <2> QED
    BY <2>1, Zenon DEF Entries
<1> QED
  BY <1>1 DEF Tally

\* Linking a node grants its data once.
LEMMA LinkGrants ==
    ASSUME TypeOK, NEW n \in Node, NEW q \in Right, owner[n] = NoRight,
           owner' = [owner EXCEPT ![n] = q], ad' = ad, ad[n] \in AD
    PROVE  Tally' = [Tally EXCEPT ![q][ad[n]] = @ + 1]
<1> USE DEF TypeOK, HistoryTypeOK
<1>0. NoRight \notin Right
  BY ConstantsAssumption DEF Right, NoRight
<1>1. Entries(q, ad[n])' = Entries(q, ad[n]) \union {n} /\ n \notin Entries(q, ad[n])
  BY <1>0 DEF Entries
<1>2. \A r \in Right, a \in AD :
         r # q \/ a # ad[n] => Entries(r, a)' = Entries(r, a)
  BY <1>0 DEF Entries
<1>3. Cardinality(Entries(q, ad[n])') = Cardinality(Entries(q, ad[n])) + 1
  BY <1>1, TallyType, FS_AddElement
<1> HIDE DEF TypeOK, HistoryTypeOK
<1> QED
  BY <1>2, <1>3 DEF Tally

\* Unlinking a node revokes its data once, which was granted.
LEMMA UnlinkRevokes ==
    ASSUME TypeOK, NEW n \in Node, NEW q \in Right, owner[n] = q,
           owner' = [owner EXCEPT ![n] = NoRight], ad' = ad, ad[n] \in AD
    PROVE  /\ Tally' = [Tally EXCEPT ![q][ad[n]] = @ - 1]
           /\ Tally[q][ad[n]] > 0
<1> USE DEF TypeOK, HistoryTypeOK
<1>0. NoRight \notin Right
  BY ConstantsAssumption DEF Right, NoRight
<1>1. Entries(q, ad[n])' = Entries(q, ad[n]) \ {n} /\ n \in Entries(q, ad[n])
  BY <1>0 DEF Entries
<1>2. \A r \in Right, a \in AD :
         r # q \/ a # ad[n] => Entries(r, a)' = Entries(r, a)
  BY <1>0 DEF Entries
<1>3. Cardinality(Entries(q, ad[n])') = Cardinality(Entries(q, ad[n])) - 1
  <2> DEFINE E == Entries(q, ad[n])
  <2>1. IsFiniteSet(E) /\ n \in E
    BY <1>1, TallyType
  <2> HIDE DEF E
  <2>2. Cardinality(E \ {n}) = Cardinality(E) - 1
    BY <2>1, FS_RemoveElement
  <2> QED
    BY <1>1, <2>2 DEF E
<1>4. Cardinality(Entries(q, ad[n])) > 0
  BY <1>1, TallyType, FS_EmptySet
<1> HIDE DEF TypeOK, HistoryTypeOK
<1>5. Tally' = [Tally EXCEPT ![q][ad[n]] = @ - 1]
  BY <1>2, <1>3 DEF Tally
<1> QED
  BY <1>4, <1>5 DEF Tally

\* Every step of either thread grants once, revokes once, or changes nothing.
LEMMA GrantsStep ==
    ASSUME IndInv, IndInv', [Next]_vars
    PROVE  [Abstract!Next]_Grants
<1> USE DEF IndInv
<1>0. Grants = Tally /\ Grants' = Tally'
  <2>1. TypeOK /\ ListInv => Grants = Tally
    BY GrantsAreTally
  <2>2. (TypeOK /\ ListInv => Grants = Tally)'
    BY GrantsAreTally, PTL
  <2> QED
    BY <2>1, <2>2
<1>1. CASE AppendPublish
  <2>1. awsPc = "publish"
    BY <1>1 DEF AppendPublish, Running
  <2>2. /\ awsP \in Node /\ Head(awsRights) \in Right /\ awsAd \in AD
        /\ owner[awsP] = NoRight /\ ad[awsP] = awsAd
        /\ owner' = [owner EXCEPT ![awsP] = Head(awsRights)] /\ ad' = ad
    BY <1>1, <2>1 DEF AppendPublish, AwsInv, TypeOK, AwsTypeOK
  <2> DEFINE r == Head(awsRights)
  <2>3. Tally' = [Tally EXCEPT ![r][awsAd] = @ + 1]
    BY <2>2, LinkGrants
  <2> QED
    <3>1. r \in Abstract!Right /\ awsAd \in AD
      BY <2>2 DEF Abstract!Right, Right
    <3>2. Grants' = [Grants EXCEPT ![r][awsAd] = @ + 1]
      BY <1>0, <2>3
    <3> HIDE DEF r
    <3>3. PICK e \in Abstract!Right \X AD : e = <<r, awsAd>>
      BY <3>1
    <3>4. Grants' = [Grants EXCEPT ![e[1]][e[2]] = @ + 1]
      BY <3>2, <3>3
    <3>5. Abstract!Grant
      BY <3>4 DEF Abstract!Grant
    <3> QED
      BY <3>5 DEF Abstract!Next
<1>2. CASE DeleteHead \/ DeleteUnlink
  <2>1. awsPc \in {"behead", "unlink"}
    BY <1>2 DEF DeleteHead, DeleteUnlink, Running
  <2>2. /\ awsP \in Node /\ Head(awsRights) \in Right /\ awsAd \in AD
        /\ owner[awsP] = Head(awsRights) /\ ad[awsP] = awsAd
    BY <2>1, AwsOnList
  <2>3. owner' = [owner EXCEPT ![awsP] = NoRight] /\ ad' = ad
    BY <1>2 DEF DeleteHead, DeleteUnlink
  <2> DEFINE r == Head(awsRights)
  <2>4. Tally' = [Tally EXCEPT ![r][awsAd] = @ - 1] /\ Tally[r][awsAd] > 0
    BY <2>2, <2>3, UnlinkRevokes
  <2> QED
    <3>1. r \in Abstract!Right /\ awsAd \in AD
      BY <2>2 DEF Abstract!Right, Right
    <3>2. Grants' = [Grants EXCEPT ![r][awsAd] = @ - 1] /\ Grants[r][awsAd] > 0
      BY <1>0, <2>4
    <3> HIDE DEF r
    <3>3. PICK e \in Abstract!Right \X AD : e = <<r, awsAd>>
      BY <3>1
    <3>4. /\ Grants[e[1]][e[2]] > 0
          /\ Grants' = [Grants EXCEPT ![e[1]][e[2]] = @ - 1]
      BY <3>2, <3>3
    <3>5. Abstract!Revoke
      BY <3>4 DEF Abstract!Revoke
    <3> QED
      BY <3>5 DEF Abstract!Next
<1>3. CASE AppendPrepare
  <2>1. PICK n \in Node \ allocated : ad' = [ad EXCEPT ![n] = awsAd]
    BY <1>3 DEF AppendPrepare
  <2>2. owner' = owner
    BY <1>3 DEF AppendPrepare
  <2>3. owner[n] \notin Right
    BY <2>1 DEF ListInv, ChainInv
  <2> QED
    BY <1>0, <2>1, <2>2, <2>3, SameTally DEF TypeOK, HeapTypeOK
<1>4. CASE DeleteFree
  <2>1. owner[awsP] = NoRight /\ NoRight \notin Right
    BY <1>4, ConstantsAssumption DEF DeleteFree, Running, AwsInv, Right, NoRight
  <2>2. owner' = owner /\ ad' = [ad EXCEPT ![awsP] = NULL]
    BY <1>4 DEF DeleteFree
  <2> QED
    BY <1>0, <2>1, <2>2, SameTally DEF TypeOK, HeapTypeOK
<1>5. ASSUME UNCHANGED <<owner, ad>> PROVE Grants' = Grants
  BY <1>0, <1>5, SameTally
<1>6. CASE Command("append") \/ Command("delete") \/ DeleteSkipHead \/ DeleteWalk
  BY <1>5, <1>6 DEF Command, DeleteSkipHead, DeleteWalk, heapVars, linkVars
<1>7. CASE \/ AwsThreadEnds \/ AppendFails \/ StoresVisible \/ DeleteRefused \/ DeleteEmpty
           \/ DeleteHeadMatch \/ DeleteMatch \/ DeleteNotFound
  BY <1>5, <1>7 DEF AwsThreadEnds, AppendFails, StoresVisible, DeleteRefused, DeleteEmpty,
     DeleteHeadMatch, DeleteMatch, DeleteNotFound, Exit, heapVars, linkVars
<1>8. CASE HkNext \/ UNCHANGED vars
  BY <1>5, <1>8 DEF HkNext, CheckBegin, CheckRefused,
     HkStep, CheckMatch, CheckAdvance, CheckEnd, CheckGarbageMatch, CheckGarbageAdvance,
     CheckGarbageFault, CheckReturn, Return, Advance, Exit,
     heapVars, linkVars, vars
<1> QED
  BY <1>1, <1>2, <1>3, <1>4, <1>6, <1>7, <1>8 DEF Next, AwsNext

(* The lists are a bag of grants per right, edited by one pointer store at a  *)
(* time: CC_AppendACL adds one occurrence and CC_DeleteACL removes one, and no *)
(* other step of either thread changes what is granted.                       *)
THEOREM ListsAreGrants == Spec => ImplementsAuthorization
<1>1. Init => Abstract!Init
  <2> SUFFICES ASSUME Init PROVE Abstract!Init
    OBVIOUS
  <2>1. \A r \in Right, a \in AD : Entries(r, a) = {}
    BY ConstantsAssumption DEF Init, Entries, Right, NoRight
  <2>2. Tally = [r \in Right |-> [a \in AD |-> 0]]
    BY <2>1, FS_EmptySet DEF Tally
  <2>3. Grants = Tally
    BY IndInvInit, GrantsAreTally DEF IndInv
  <2> QED
    BY <2>2, <2>3 DEF Abstract!Init, Abstract!Right, Right
<1>2. IndInv /\ IndInv' /\ [Next]_vars => [Abstract!Next]_Grants
  BY GrantsStep
<1> QED
  BY <1>1, <1>2, Invariance, PTL DEF Spec, ImplementsAuthorization, Abstract!Spec
=============================================================================
