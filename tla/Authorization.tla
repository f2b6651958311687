---------------------------- MODULE Authorization ----------------------------
(***************************************************************************)
(* What the access control list of CGuard.c promises, without nodes or     *)
(* pointers: a bag of authorization data for each right.  CC_AppendACL     *)
(* adds one occurrence and CC_DeleteACL removes one.                       *)
(***************************************************************************)
EXTENDS Naturals

CONSTANTS AD, RIGHT_NUM

VARIABLE grants      \* grants[right][ad]: occurrences of ad on the right's list

Right == 0 .. RIGHT_NUM - 1

Init == grants = [r \in Right |-> [a \in AD |-> 0]]

Grant ==
    grants' \in {[grants EXCEPT ![e[1]][e[2]] = @ + 1] : e \in Right \X AD}

Revoke ==
    grants' \in {[grants EXCEPT ![e[1]][e[2]] = @ - 1] :
                    e \in {e \in Right \X AD : grants[e[1]][e[2]] > 0}}

Next == Grant \/ Revoke

Spec == Init /\ [][Next]_grants
=============================================================================
