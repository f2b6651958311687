------------------------------ MODULE DurableStore ------------------------------
(***************************************************************************)
(* What HAPPlatformKeyValueStore promises (HAPPlatformKeyValueStore.h,      *)
(* HAPPlatformKeyValueStore+Init.h:23-27): a key has one whole value or     *)
(* none, a change takes effect at once or not at all, and a change that is  *)
(* answered with success outlives a power failure.                          *)
(***************************************************************************)
CONSTANTS Key, Value, Absent

VARIABLES value,    \* the value of each key, or Absent
          kept,     \* the values a power failure may leave of each key
          task,     \* the change that is under way, <<>> if there is none
          result    \* what the last change was answered with

vars == <<value, kept, task, result>>

Init ==
    /\ value = [k \in Key |-> Absent]
    /\ kept = [k \in Key |-> {Absent}]
    /\ task = <<>>
    /\ result = "NoResult"

(* A change gives some keys a new value: a key its value, or a domain none. *)
Ask(keys, v) ==
    /\ task = <<>>
    /\ task' = <<keys, v>> /\ result' = "NoResult"
    /\ UNCHANGED <<value, kept>>

TakeEffect(k) ==
    /\ task # <<>> /\ k \in task[1]
    /\ value' = [value EXCEPT ![k] = task[2]]
    /\ kept' = [kept EXCEPT ![k] = @ \union {task[2]}]
    /\ UNCHANGED <<task, result>>

(* What the program sees is what the disk holds. *)
Settle ==
    /\ kept' = [k \in Key |-> {value[k]}]
    /\ UNCHANGED <<value, task, result>>

(* Success: no power failure takes the change back. *)
Succeed ==
    /\ task # <<>>
    /\ \A k \in task[1] : kept'[k] = {task[2]} /\ value[k] = task[2]
    /\ kept' = kept \/ kept' = [k \in Key |-> {value[k]}]
    /\ task' = <<>> /\ result' = "None"
    /\ value' = value

(* A failure, or the end of the process, leaves a key as it was or changed. *)
Fail ==
    /\ task # <<>>
    /\ task' = <<>> /\ result' \in {"Unknown", "NoResult"}
    /\ UNCHANGED <<value, kept>>

PowerFails ==
    /\ value' \in {after \in [Key -> Value \union {Absent}] :
                      \A k \in Key : after[k] \in kept[k]}
    /\ kept' = [k \in Key |-> {value'[k]}]
    /\ task' = <<>> /\ result' = "NoResult"

Next ==
    \/ \E k \in Key, v \in Value : Ask({k}, v)
    \/ \E keys \in SUBSET Key : Ask(keys, Absent)
    \/ \E k \in Key : TakeEffect(k)
    \/ Settle
    \/ Succeed
    \/ Fail
    \/ PowerFails

Spec == Init /\ [][Next]_vars
================================================================================
