--------------------------------- MODULE ACL ---------------------------------
(***************************************************************************)
(* The access control list of CGuard.c: one singly linked list of          *)
(* authorization data per right, in malloc'ed nodes, without a lock.       *)
(*                                                                         *)
(* Two threads use it.  The AWS thread runs the MQTT commands 'A' and 'a'  *)
(* (add_ACL_records and remove_ACL_records of AWSMain.c), which append and *)
(* delete nodes.  The HomeKit thread runs CC_CheckAuthData, called by      *)
(* HandleLightBulbOnWrite, which walks the list of the write right.  Each  *)
(* step below makes at most one access that the other thread can observe.  *)
(*                                                                         *)
(* The two threads race, so a read can be undefined behaviour: of a freed  *)
(* node, or of a node whose pointer is visible to the other thread while   *)
(* its contents are not what was written (torn: the ARM target may reorder *)
(* the stores).  Such a read may find a match, lead anywhere, or end the   *)
(* process.                                                                *)
(***************************************************************************)
EXTENDS Naturals, Sequences, FiniteSets

CONSTANTS
    AD,          \* authorization data (32 bytes each, compared by memcmp)
    Node,        \* addresses malloc can return for an ACLListNode
    NULL,        \* the null pointer, and the contents of dead memory
    RIGHT_NUM,   \* number of rights (CGuardRightConfig.h)
    WRITE,       \* the right HandleLightBulbOnWrite checks
    MaxRights,   \* bound: rights named by one MQTT command
    MaxAppends   \* bound: nodes appended over a run

ASSUME ConstantsAssumption ==
    /\ NULL \notin Node /\ NULL \notin AD
    /\ IsFiniteSet(Node)
    /\ RIGHT_NUM \in Nat
    /\ WRITE \in 0 .. RIGHT_NUM - 1
    /\ MaxRights \in Nat
    /\ MaxAppends \in Nat

Right == 0 .. RIGHT_NUM - 1
NoRight == RIGHT_NUM      \* stands for every right the bound checks refuse

\* What get_ad_rightArray can leave in rightArray: rights in and out of range.
RequestedRights == UNION {[1 .. k -> Right \union {NoRight}] : k \in 1 .. MaxRights}

VARIABLES
    gACL,        \* list heads, one per right
    ad, next,    \* the two fields of every node
    allocated,   \* nodes handed out by malloc and not freed
    torn,        \* nodes the HomeKit thread may not see as they were written
    running,     \* the process is alive: it has not exited or faulted
    crashed,     \* the AWS thread dereferenced NULL
    awsPc, awsAd, awsRights, awsP, awsP1,     \* AWS thread and its locals
    hkPc, hkAd, hkP, hkResult                 \* HomeKit thread and its locals

(* History variables: they record what happened and guard nothing. *)
VARIABLES
    owner,         \* the list a node was linked into, or NoRight
    born, clock,   \* order in which the nodes were allocated
    stale,         \* this check's node was freed under it, or it read garbage
    seenGranted,   \* the checked entry was on the list at some instant of the check
    seenDenied     \* it was absent from the list at some instant of the check

heapVars == <<gACL, ad, next, allocated, torn>>
awsVars  == <<awsPc, awsAd, awsRights, awsP, awsP1>>
hkVars   == <<hkPc, hkAd, hkP, hkResult>>
linkVars == <<owner, born, clock>>
obsVars  == <<stale, seenGranted, seenDenied>>
vars == <<heapVars, running, crashed, awsVars, hkVars, linkVars, obsVars>>

-----------------------------------------------------------------------------
(* Helpers *)

Authorised(r, a) == \E n \in Node : owner[n] = r /\ ad[n] = a

\* A list changed: what a check in progress looks for may have come or gone.
Observe ==
    /\ seenGranted' = (seenGranted \/ (hkPc = "compare" /\ Authorised(WRITE, hkAd)'))
    /\ seenDenied'  = (seenDenied \/ (hkPc = "compare" /\ ~ Authorised(WRITE, hkAd)'))
    /\ stale' = stale

\* exit(-1) in add_ACL_records and remove_ACL_records, or main's return.
Exit ==
    /\ running' = FALSE
    /\ UNCHANGED <<heapVars, crashed, awsVars, hkVars, linkVars, obsVars>>

\* Mutant: the loop over the rights does not stop at numberofRights.
NextRightUnbounded(op) ==
    /\ awsP' = NULL /\ awsP1' = NULL
    /\ awsRights' = Tail(awsRights) /\ awsPc' = op /\ awsAd' = awsAd

\* The call returns; go on with the next right of the command, or finish it.
NextRight(op) ==
    /\ awsP' = NULL /\ awsP1' = NULL
    /\ awsRights' = Tail(awsRights)
    /\ IF Tail(awsRights) = <<>>
       THEN awsPc' = "idle" /\ awsAd' = NULL
       ELSE awsPc' = op /\ awsAd' = awsAd

Running(pc) == running /\ awsPc = pc

-----------------------------------------------------------------------------
(* AWS thread *)

\* Commands 'A' and 'a': get_ad_rightArray leaves some authorization data and
\* rights behind, also when the base64 text is invalid (it only prints).
Command(op) ==
    /\ Running("idle")
    /\ awsAd' \in AD
    /\ awsRights' \in RequestedRights
    /\ awsPc' = op
    /\ UNCHANGED <<heapVars, running, crashed, awsP, awsP1, hkVars, linkVars, obsVars>>

\* The AWS thread ends (command 'e', or a fatal MQTT error): main returns and ends
\* the process, the HomeKit thread with it.
AwsThreadEnds == Running("idle") /\ Exit

\* CC_AppendACL refuses the right (-2) or malloc returns NULL (-1).
AppendFails ==
    /\ Running("append")
    /\ \/ Head(awsRights) \notin Right
       \/ allocated = Node
    /\ Exit

\* Mutant: p->next is not set, so the rest of the list is dropped.
AppendPrepareUnchained ==
    /\ Running("append") /\ Head(awsRights) \in Right
    /\ clock < MaxAppends
    /\ \E n \in Node \ allocated :
          /\ allocated' = allocated \union {n}
          /\ ad' = [ad EXCEPT ![n] = awsAd]
          /\ born' = [born EXCEPT ![n] = clock]
          /\ awsP' = n
    /\ clock' = clock + 1
    /\ awsPc' = "publish"
    /\ UNCHANGED <<gACL, next, torn, running, crashed, awsAd, awsRights, awsP1, hkVars, owner, obsVars>>

\* CC_AppendACL: malloc, fill the node, point it at the current head.
AppendPrepare ==
    /\ Running("append") /\ Head(awsRights) \in Right
    /\ clock < MaxAppends
    /\ \E n \in Node \ allocated :
          /\ allocated' = allocated \union {n}
          /\ ad' = [ad EXCEPT ![n] = awsAd]
          /\ next' = [next EXCEPT ![n] = gACL[Head(awsRights)]]
          /\ born' = [born EXCEPT ![n] = clock]
          /\ awsP' = n
    /\ clock' = clock + 1
    /\ awsPc' = "publish"
    /\ UNCHANGED <<gACL, torn, running, crashed, awsAd, awsRights, awsP1, hkVars, owner, obsVars>>

\* CC_AppendACL: gACL[right] = p, perhaps visible before the node's contents.
AppendPublish ==
    /\ Running("publish")
    /\ gACL' = [gACL EXCEPT ![Head(awsRights)] = awsP]
    /\ owner' = [owner EXCEPT ![awsP] = Head(awsRights)]
    /\ torn' \in {torn, torn \union {awsP}}
    /\ NextRight("append")
    /\ UNCHANGED <<ad, next, allocated, running, crashed, hkVars, born, clock>>
    /\ Observe

\* The contents of the nodes become visible to the HomeKit thread.
StoresVisible ==
    /\ running /\ torn # {} /\ awsPc \notin {"behead", "unlink", "free"}
    /\ torn' = {}
    /\ UNCHANGED <<gACL, ad, next, allocated, running, crashed, awsVars, hkVars, linkVars, obsVars>>

\* CC_DeleteACL refuses the right (-2).
DeleteRefused ==
    /\ Running("delete") /\ Head(awsRights) \notin Right
    /\ Exit

\* CC_DeleteACL reads p2->ad before it tests p2: an empty list is a NULL dereference.
DeleteEmpty ==
    /\ Running("delete") /\ Head(awsRights) \in Right
    /\ gACL[Head(awsRights)] = NULL
    /\ running' = FALSE /\ crashed' = TRUE
    /\ UNCHANGED <<heapVars, awsVars, hkVars, linkVars, obsVars>>

\* What free writes into the node can be visible before the node is unlinked.
Tearing(p) == torn' \in {torn, torn \union {p}}

\* CC_DeleteACL: the head matches.
DeleteHeadMatch ==
    /\ Running("delete") /\ Head(awsRights) \in Right
    /\ LET p2 == gACL[Head(awsRights)]
       IN p2 # NULL /\ ad[p2] = awsAd /\ awsP' = p2 /\ Tearing(p2)
    /\ awsPc' = "behead"
    /\ UNCHANGED <<gACL, ad, next, allocated, running, crashed, awsAd, awsRights, awsP1,
                   hkVars, linkVars, obsVars>>

\* CC_DeleteACL: gACL[right] = p2->next.
DeleteHead ==
    /\ Running("behead")
    /\ gACL' = [gACL EXCEPT ![Head(awsRights)] = next[awsP]]
    /\ owner' = [owner EXCEPT ![awsP] = NoRight]
    /\ awsPc' = "free"
    /\ UNCHANGED <<ad, next, allocated, torn, running, crashed, awsAd, awsRights, awsP, awsP1,
                   hkVars, born, clock>>
    /\ Observe

\* CC_DeleteACL: the head does not match, start walking.
DeleteSkipHead ==
    /\ Running("delete") /\ Head(awsRights) \in Right
    /\ LET p2 == gACL[Head(awsRights)]
       IN /\ p2 # NULL /\ ad[p2] # awsAd
          /\ awsP1' = p2 /\ awsP' = next[p2]
    /\ awsPc' = "walk"
    /\ UNCHANGED <<heapVars, running, crashed, awsAd, awsRights, hkVars, linkVars, obsVars>>

\* Mutant: p1 = p2 is missing in the loop.
DeleteWalkKeepsP1 ==
    /\ Running("walk") /\ awsP # NULL /\ ad[awsP] # awsAd
    /\ awsP' = next[awsP]
    /\ UNCHANGED <<heapVars, running, crashed, awsPc, awsAd, awsRights, awsP1, hkVars, linkVars, obsVars>>

\* CC_DeleteACL: the while loop, a node that does not match.
DeleteWalk ==
    /\ Running("walk") /\ awsP # NULL /\ ad[awsP] # awsAd
    /\ awsP1' = awsP /\ awsP' = next[awsP]
    /\ UNCHANGED <<heapVars, running, crashed, awsPc, awsAd, awsRights, hkVars, linkVars, obsVars>>

\* CC_DeleteACL: the while loop, a match.
DeleteMatch ==
    /\ Running("walk") /\ awsP # NULL /\ ad[awsP] = awsAd
    /\ Tearing(awsP)
    /\ awsPc' = "unlink"
    /\ UNCHANGED <<gACL, ad, next, allocated, running, crashed, awsAd, awsRights, awsP, awsP1,
                   hkVars, linkVars, obsVars>>

\* CC_DeleteACL: p1->next = p2->next.
DeleteUnlink ==
    /\ Running("unlink")
    /\ next' = [next EXCEPT ![awsP1] = next[awsP]]
    /\ owner' = [owner EXCEPT ![awsP] = NoRight]
    /\ awsPc' = "free"
    /\ UNCHANGED <<gACL, ad, allocated, torn, running, crashed, awsAd, awsRights, awsP, awsP1,
                   hkVars, born, clock>>
    /\ Observe

\* CC_DeleteACL reaches the end of the list: -1, and remove_ACL_records exits.
DeleteNotFound ==
    /\ Running("walk") /\ awsP = NULL
    /\ Exit

\* CC_DeleteACL: free(p2), which overwrites the node.
DeleteFree ==
    /\ Running("free")
    /\ allocated' = allocated \ {awsP}
    /\ ad' = [ad EXCEPT ![awsP] = NULL] /\ next' = [next EXCEPT ![awsP] = NULL]
    /\ born' = [born EXCEPT ![awsP] = 0]
    /\ torn' = torn \ {awsP}
    /\ stale' = (stale \/ (hkPc = "compare" /\ hkP = awsP))
    /\ NextRight("delete")
    /\ UNCHANGED <<gACL, running, crashed, hkVars, owner, clock, seenGranted, seenDenied>>

AwsNext ==
    \/ Command("append") \/ Command("delete") \/ AwsThreadEnds
    \/ AppendFails \/ AppendPrepare \/ AppendPublish \/ StoresVisible
    \/ DeleteRefused \/ DeleteEmpty \/ DeleteHeadMatch \/ DeleteHead \/ DeleteSkipHead
    \/ DeleteWalk \/ DeleteMatch \/ DeleteUnlink \/ DeleteNotFound \/ DeleteFree

-----------------------------------------------------------------------------
(* HomeKit thread: CC_CheckAuthData *)

\* p = gACL[right].
CheckBegin ==
    /\ running /\ hkPc = "idle"
    /\ hkAd' \in AD
    /\ hkP' = gACL[WRITE]
    /\ hkPc' = "compare"
    /\ seenGranted' = Authorised(WRITE, hkAd')
    /\ seenDenied' = ~ Authorised(WRITE, hkAd')
    /\ UNCHANGED <<heapVars, running, crashed, awsVars, hkResult, linkVars, stale>>

\* A write request without authorization data: return -1.
CheckRefused ==
    /\ running /\ hkPc = "idle"
    /\ hkPc' = "done" /\ hkResult' = "refused"
    /\ UNCHANGED <<heapVars, running, crashed, awsVars, hkAd, hkP, linkVars, obsVars>>

Comparing(nodes) == running /\ hkPc = "compare" /\ hkP \in nodes

Readable == allocated \ torn

Return(result) ==
    /\ hkPc' = "done" /\ hkResult' = result
    /\ UNCHANGED <<heapVars, running, crashed, awsVars, hkAd, hkP, linkVars, seenGranted, seenDenied>>

Advance(targets) ==
    /\ hkP' \in targets
    /\ UNCHANGED <<heapVars, running, crashed, awsVars, hkPc, hkAd, hkResult, linkVars,
                   seenGranted, seenDenied>>

\* memcmp finds the authorization data: return 0.
CheckMatch == Comparing(Readable) /\ ad[hkP] = hkAd /\ Return("granted") /\ stale' = stale

\* No match: p = p->next.
CheckAdvance == Comparing(Readable) /\ ad[hkP] # hkAd /\ Advance({next[hkP]}) /\ stale' = stale

\* End of the list: return 1.
CheckEnd == Comparing({NULL}) /\ Return("denied") /\ stale' = stale

\* p was freed or is torn: its bytes and its next pointer can be anything.
CheckGarbageMatch == Comparing(Node \ Readable) /\ Return("granted") /\ stale' = TRUE

CheckGarbageAdvance == Comparing(Node \ Readable) /\ Advance(Node \union {NULL}) /\ stale' = TRUE

CheckGarbageFault == Comparing(Node \ Readable) /\ Exit

\* HandleLightBulbOnWrite has the result.
CheckReturn ==
    /\ running /\ hkPc = "done"
    /\ hkPc' = "idle" /\ hkAd' = NULL /\ hkP' = NULL /\ hkResult' = "none"
    /\ stale' = FALSE /\ seenGranted' = FALSE /\ seenDenied' = FALSE
    /\ UNCHANGED <<heapVars, running, crashed, awsVars, linkVars>>

HkStep ==
    \/ CheckMatch \/ CheckAdvance \/ CheckEnd
    \/ CheckGarbageMatch \/ CheckGarbageAdvance \/ CheckGarbageFault
    \/ CheckReturn

HkNext == CheckBegin \/ CheckRefused \/ HkStep

-----------------------------------------------------------------------------
(* Specification *)

\* InitSecurityEnforcement has set every list head to NULL.
Init ==
    /\ gACL = [r \in Right |-> NULL]
    /\ ad = [n \in Node |-> NULL] /\ next = [n \in Node |-> NULL]
    /\ allocated = {} /\ torn = {}
    /\ running = TRUE /\ crashed = FALSE
    /\ awsPc = "idle" /\ awsAd = NULL /\ awsRights = <<>> /\ awsP = NULL /\ awsP1 = NULL
    /\ hkPc = "idle" /\ hkAd = NULL /\ hkP = NULL /\ hkResult = "none"
    /\ owner = [n \in Node |-> NoRight]
    /\ born = [n \in Node |-> 0] /\ clock = 0
    /\ stale = FALSE /\ seenGranted = FALSE /\ seenDenied = FALSE

Next == AwsNext \/ HkNext

Spec == Init /\ [][Next]_vars

-----------------------------------------------------------------------------
(* Properties *)

HeapTypeOK ==
    /\ gACL \in [Right -> Node \union {NULL}]
    /\ ad \in [Node -> AD \union {NULL}]
    /\ next \in [Node -> Node \union {NULL}]
    /\ allocated \subseteq Node /\ torn \subseteq Node
    /\ running \in BOOLEAN /\ crashed \in BOOLEAN

AwsTypeOK ==
    /\ awsPc \in {"idle", "append", "publish", "delete", "behead", "walk", "unlink", "free"}
    /\ awsAd \in AD \union {NULL}
    /\ awsRights \in Seq(Right \union {NoRight})
    /\ awsPc # "idle" => awsRights # <<>>
    /\ awsP \in Node \union {NULL} /\ awsP1 \in Node \union {NULL}
    /\ awsPc \in {"publish", "behead", "unlink", "free"} => awsP \in Node

HkTypeOK ==
    /\ hkPc \in {"idle", "compare", "done"}
    /\ hkAd \in AD \union {NULL}
    /\ hkP \in Node \union {NULL}
    /\ hkResult \in {"none", "granted", "denied", "refused"}

HistoryTypeOK ==
    /\ owner \in [Node -> Right \union {NoRight}]
    /\ born \in [Node -> Nat] /\ clock \in Nat
    /\ stale \in BOOLEAN /\ seenGranted \in BOOLEAN /\ seenDenied \in BOOLEAN

TypeOK == HeapTypeOK /\ AwsTypeOK /\ HkTypeOK /\ HistoryTypeOK

\* A set with the head of a list and with what follows each of its nodes.
HoldsList(S, r) ==
    /\ gACL[r] \in S \union {NULL}
    /\ \A n \in S : next[n] \in S \union {NULL}

\* The nodes reached from the head of a list: no such set is without them.
Listed(r) == {n \in Node : \A S \in SUBSET (Node \ {n}) : ~ HoldsList(S, r)}

InHand == IF awsPc \in {"publish", "free"} THEN {awsP} ELSE {}

(* No node is lost and none is kept: what malloc has handed out is exactly   *)
(* what the lists reach, plus the node CC_AppendACL has not linked yet or    *)
(* CC_DeleteACL has not freed yet.  Unlinking with a stale p1, or freeing a  *)
(* node that is still linked, would break it.                                *)
HeapAccounted ==
    allocated = (UNION {Listed(r) : r \in Right}) \union InHand

\* The result of a finished check is the truth at some instant during it.
Linearized ==
    hkPc = "done" =>
       /\ hkResult = "granted" => seenGranted
       /\ hkResult = "denied" => seenDenied

(* Although no lock is taken, CC_CheckAuthData is right whenever the race    *)
(* did not reach a freed or torn node: it grants only what was on the list   *)
(* at some instant of the check, and denies only what was absent at one.     *)
CheckSound == ~ stale => Linearized

-----------------------------------------------------------------------------
(* The inductive invariant behind CheckSound *)

\* n is what follows p on list r: the newest of the nodes older than p.
Follows(n, p, r) ==
    IF n = NULL
    THEN \A m \in Node : owner[m] = r => born[m] >= born[p]
    ELSE /\ owner[n] = r /\ born[n] < born[p]
         /\ \A m \in Node : owner[m] = r /\ born[m] < born[p] => born[m] <= born[n]

\* Live nodes are told apart by their age.
AgeInv ==
    /\ \A n \in allocated : born[n] < clock
    /\ \A m, n \in allocated : born[m] = born[n] => m = n

\* Linked nodes are live, and each leads to the next older one of its list.
ChainInv ==
    \A n \in Node : owner[n] \in Right => n \in allocated /\ Follows(next[n], n, owner[n])

\* The head of a list is its newest node.
HeadInv ==
    \A r \in Right :
       IF gACL[r] = NULL
       THEN \A m \in Node : owner[m] # r
       ELSE owner[gACL[r]] = r /\ \A m \in Node : owner[m] = r => born[m] <= born[gACL[r]]

\* The lists are disjoint, made of live nodes, and run from newest to oldest.
ListInv == AgeInv /\ ChainInv /\ HeadInv

\* What the AWS thread knows of its two pointers.
AwsInv ==
    /\ awsPc # "idle" => awsAd \in AD
    /\ awsPc \in {"publish", "behead", "walk", "unlink", "free"} => Head(awsRights) \in Right
    /\ awsPc = "publish" =>
          /\ awsP \in allocated /\ owner[awsP] = NoRight /\ ad[awsP] = awsAd
          /\ next[awsP] = gACL[Head(awsRights)]
          /\ \A m \in Node : owner[m] \in Right => born[m] < born[awsP]
    /\ awsPc = "behead" =>
          awsP # NULL /\ awsP = gACL[Head(awsRights)] /\ ad[awsP] = awsAd
    /\ awsPc \in {"walk", "unlink"} =>
          /\ awsP1 # NULL /\ owner[awsP1] = Head(awsRights) /\ awsP = next[awsP1]
          /\ \A m \in Node :
                owner[m] = Head(awsRights) /\ born[m] >= born[awsP1] => ad[m] # awsAd
    /\ awsPc = "unlink" => awsP # NULL /\ ad[awsP] = awsAd
    /\ awsPc = "free" =>
          /\ awsP \in allocated /\ owner[awsP] = NoRight
          /\ Follows(next[awsP], awsP, Head(awsRights))

\* Where a check that met no freed or torn node stands.
OnPath ==
    hkP # NULL =>
       /\ hkP \in allocated
       /\ \/ owner[hkP] = WRITE
          \/ awsPc = "free" /\ hkP = awsP /\ Head(awsRights) = WRITE
       /\ ad[hkP] = hkAd => seenGranted

\* An entry that was there all along is still ahead of the check.
Ahead ==
    ~ seenDenied =>
       /\ hkP # NULL
       /\ \E n \in Node : owner[n] = WRITE /\ ad[n] = hkAd /\ born[n] <= born[hkP]

CheckInv ==
    /\ hkPc = "compare" =>
          /\ hkAd \in AD
          /\ Authorised(WRITE, hkAd) => seenGranted
          /\ ~ Authorised(WRITE, hkAd) => seenDenied
          /\ ~ stale => OnPath /\ Ahead
    /\ CheckSound

(* The lists are well formed at every step of a command, the AWS thread's    *)
(* pointers stay on the list it works on, and a check that met no freed node *)
(* is either on the write list or on the node just unlinked from it.         *)
IndInv == TypeOK /\ ListInv /\ AwsInv /\ CheckInv

\* Every node malloc has handed out is linked into a list or in hand.
OwnedInv == allocated = {n \in Node : owner[n] \in Right} \union InHand

-----------------------------------------------------------------------------
(* Refinement, liveness and what the documentation says *)

\* How often each authorization data is on each list, as the lists stand.
Grants ==
    [r \in Right |-> LET listed == Listed(r)
                     IN  [a \in AD |-> Cardinality({n \in listed : ad[n] = a})]]

Abstract == INSTANCE Authorization WITH grants <- Grants

(* The lists implement a bag of grants per right (Authorization.tla): every  *)
(* step of either thread grants once, revokes once, or changes nothing.      *)
ImplementsAuthorization == Abstract!Spec

(* CGuard.c:224 answers -1, "Authorization data Not found!", for data that   *)
(* is not on the list, so deleting it is an error and not a fault.           *)
DeleteNeverFaults == ~ crashed

(* CGuard.h, CC_CheckAuthData: "0 If checking successfully passed", "1 If    *)
(* checking failed": also when the AWS thread edits the list meanwhile.      *)
CheckLinearized == Linearized
=============================================================================
