--------------------------- MODULE KeyValueStoreProofs ---------------------------
(***************************************************************************)
(* Proofs about the key-value store, for any keys, domains and values: its  *)
(* variables keep their types whichever system calls fail, and it keeps the *)
(* promises of DurableStore if an fsync never fails where the code goes on. *)
(***************************************************************************)
EXTENDS KeyValueStore, TLAPS

\* A change of one key's files is seen, and may reach the disk.
LEMMA ChangeType ==
    ASSUME TypeOK, NEW k \in Key, NEW files \in Files, Change(k, files)
    PROVE  /\ dir' \in [Key -> Files]
           /\ disk' \in [Key -> SUBSET Files]
           /\ \A j \in Key : dir'[j] \in disk'[j]
           /\ dir'[k] = files
           /\ disk'[k] = disk[k] \union {files}
           /\ \A j \in Key \ {k} : dir'[j] = dir[j] /\ disk'[j] = disk[j]
  BY DEF TypeOK, Change

\* The disk holds what is seen.
LEMMA SyncType ==
    ASSUME TypeOK, SyncDirectory
    PROVE  /\ disk' \in [Key -> SUBSET Files]
           /\ \A j \in Key : dir'[j] \in disk'[j]
           /\ dir' = dir
           /\ \A j \in Key : disk'[j] = {dir[j]}
  BY DEF TypeOK, SyncDirectory

\* A call that returns leaves well-typed arguments behind.
LEMMA ReturnType ==
    ASSUME TypeOK, NEW result \in Result \union {NoResult}, Return(result),
           dir' \in [Key -> Files], disk' \in [Key -> SUBSET Files],
           \A k \in Key : dir'[k] \in disk'[k]
    PROVE  TypeOK'
  BY DEF TypeOK, Return, WritePcs

\* The invariant holds when the store is created.
LEMMA TypingInit == Init => TypeOK /\ CallInv /\ WholeInv
<1> SUFFICES ASSUME Init PROVE TypeOK /\ CallInv /\ WholeInv
  OBVIOUS
<1> USE DEF Init
<1>1. NoFiles \in Files /\ NoFiles.safe /\ NoFiles.value # Torn
  BY ValueAssumption DEF NoFiles, Files
<1>2. /\ dir \in [Key -> Files] /\ disk \in [Key -> SUBSET Files]
      /\ \A k \in Key : dir[k] \in disk[k]
  BY <1>1
<1>3. TypeOK
  BY <1>2 DEF TypeOK, WritePcs
<1>4. CallInv
  BY DEF CallInv, WritePcs, RemovePcs
<1>5. WholeInv
  BY <1>1 DEF WholeInv
<1> QED
  BY <1>3, <1>4, <1>5

\* The files of a key that has been given one of them are files.
LEMMA FilesType ==
    ASSUME TypeOK, NEW k \in Key
    PROVE  /\ [dir[k] EXCEPT !.tmp = TRUE] \in Files
           /\ [NoFiles EXCEPT !.tmp = dir[k].tmp] \in Files
           /\ dir[k] \in Files
  BY DEF TypeOK, Files, NoFiles

\* What comes back after a power failure is files.
LEMMA RecoveredType ==
    ASSUME TypeOK, NEW k \in Key
    PROVE  AfterPowerFailure(k) \subseteq Files
<1> SUFFICES ASSUME NEW files \in disk[k]
             PROVE  Recovered(files) \subseteq Files
  BY DEF AfterPowerFailure
<1>1. files \in Files
  BY DEF TypeOK
<1>2. [files EXCEPT !.safe = TRUE] \in Files
  BY <1>1 DEF Files
<1>3. [files EXCEPT !.safe = TRUE, !.value = Torn] \in Files
  BY <1>1 DEF Files
<1> QED
  BY <1>2, <1>3 DEF Recovered

\* A call of the process that goes on or returns keeps the types.
LEMMA WriteFileTypes == TypeOK /\ CallInv /\ WriteFile => TypeOK'
<1> SUFFICES ASSUME TypeOK, CallInv, WriteFile PROVE TypeOK'
  OBVIOUS
<1> USE DEF WritePcs, RemovePcs, Result
<1>1. CASE OpenTmp
  <2> DEFINE files == [dir[key] EXCEPT !.tmp = TRUE]
  <2>1. key \in Key /\ files \in Files /\ Change(key, files)
    BY <1>1, FilesType DEF OpenTmp, CallInv
  <2>2. /\ dir' \in [Key -> Files] /\ disk' \in [Key -> SUBSET Files]
        /\ \A j \in Key : dir'[j] \in disk'[j]
        /\ dir'[key] = files
    BY <2>1, ChangeType
  <2>3. files.tmp
    BY <2>1, FilesType DEF TypeOK, Files
  <2> QED
    BY <1>1, <2>2, <2>3 DEF OpenTmp, GoOn, argVars, TypeOK
<1>2. CASE OpenFails
  BY <1>2, ReturnType DEF OpenFails, TypeOK
<1>3. CASE WriteTmp
  BY <1>3 DEF WriteTmp, GoOn, argVars, TypeOK
<1>4. CASE WriteFails
  BY <1>4, ReturnType DEF WriteFails, TypeOK
<1>5. CASE SyncTmp
  BY <1>5 DEF SyncTmp, GoOn, argVars, TypeOK
<1>6. CASE SyncDir
  BY <1>6, SyncType DEF SyncDir, GoOn, argVars, TypeOK
<1>7. CASE Rename
  <2> DEFINE files == [value |-> bytes, safe |-> synced, tmp |-> FALSE]
  <2>1. key \in Key /\ files \in Files /\ Change(key, files)
    BY <1>7 DEF Rename, CallInv, TypeOK, Files
  <2>2. /\ dir' \in [Key -> Files] /\ disk' \in [Key -> SUBSET Files]
        /\ \A j \in Key : dir'[j] \in disk'[j]
    BY <2>1, ChangeType
  <2> QED
    BY <1>7, <2>2 DEF Rename, GoOn, argVars, TypeOK
<1>8. CASE SettleDir
  BY <1>8, SyncType, ReturnType DEF SettleDir, TypeOK
<1>9. CASE DirectoryFails
  BY <1>9, ReturnType DEF DirectoryFails, TypeOK
<1> QED
  BY <1>1, <1>2, <1>3, <1>4, <1>5, <1>6, <1>7, <1>8, <1>9 DEF WriteFile

\* Removing one file, or a domain's one after the other, keeps the types.
LEMMA RemoveFileTypes == TypeOK /\ CallInv /\ RemoveFile => TypeOK'
<1> SUFFICES ASSUME TypeOK, CallInv, RemoveFile PROVE TypeOK'
  OBVIOUS
<1> USE DEF WritePcs, RemovePcs, Result
<1>1. CASE PurgeNext
  BY <1>1 DEF PurgeNext, TypeOK
<1>2. CASE Unlink
  <2> DEFINE files == [NoFiles EXCEPT !.tmp = dir[key].tmp]
  <2>1. key \in Key /\ files \in Files /\ Change(key, files)
    BY <1>2, FilesType DEF Unlink, CallInv, TypeOK
  <2>2. /\ dir' \in [Key -> Files] /\ disk' \in [Key -> SUBSET Files]
        /\ \A j \in Key : dir'[j] \in disk'[j]
    BY <2>1, ChangeType
  <2> QED
    BY <1>2, <2>2 DEF Unlink, GoOn, argVars, TypeOK
<1>3. CASE UnlinkFails
  BY <1>3, ReturnType DEF UnlinkFails, TypeOK
<1>4. CASE SyncRemoved
  <2>1. /\ dir' \in [Key -> Files] /\ disk' \in [Key -> SUBSET Files]
        /\ \A j \in Key : dir'[j] \in disk'[j]
    BY <1>4, SyncType DEF SyncRemoved, TypeOK
  <2>2. CASE rest = {}
    BY <1>4, <2>1, <2>2, ReturnType DEF SyncRemoved
  <2>3. CASE rest # {}
    BY <1>4, <2>1, <2>3 DEF SyncRemoved, GoOn, argVars, TypeOK
  <2> QED
    BY <2>2, <2>3
<1> QED
  BY <1>1, <1>2, <1>3, <1>4 DEF RemoveFile

\* The end of the process and a power failure keep the types.
LEMMA OtherTypes ==
    ASSUME TypeOK, CallInv, Crash \/ PowerFailure
    PROVE  TypeOK'
<1> USE DEF Result
<1>1. CASE Crash
  BY <1>1, ReturnType DEF Crash, TypeOK
<1>2. CASE PowerFailure
  <2>1. /\ dir' \in [Key -> UNION {AfterPowerFailure(k) : k \in Key}]
        /\ \A k \in Key : dir'[k] \in AfterPowerFailure(k)
        /\ disk' = [k \in Key |-> {dir'[k]}]
    BY <1>2 DEF PowerFailure
  <2>2. \A k \in Key : dir'[k] \in Files
    BY <2>1, RecoveredType
  <2>3. dir' \in [Key -> Files]
    BY <2>1, <2>2
  <2>4. disk' \in [Key -> SUBSET Files] /\ \A k \in Key : dir'[k] \in disk'[k]
    BY <2>1, <2>2
  <2> QED
    BY <1>2, <2>3, <2>4, ReturnType DEF PowerFailure
<1> QED
  BY <1>1, <1>2

\* A call that starts keeps the types.
LEMMA CallTypes ==
    ASSUME TypeOK, CallInv,
           \/ \E k \in Key, v \in Value : Set(k, v)
           \/ \E k \in Key : Remove(k)
           \/ \E d \in Domain : PurgeDomain(d)
    PROVE  TypeOK'
<1> USE DEF Call, WritePcs, RemovePcs, Result
<1>1. CASE \E k \in Key, v \in Value : Set(k, v)
  <2>1. PICK k \in Key, v \in Value : Set(k, v)
    BY <1>1
  <2>2. rest = {}
    BY <2>1 DEF Set, CallInv
  <2> QED
    BY <2>1, <2>2 DEF Set, TypeOK
<1>2. CASE \E k \in Key : Remove(k)
  BY <1>2 DEF Remove, TypeOK, CallInv
<1>3. CASE \E d \in Domain : PurgeDomain(d)
  BY <1>3, DomainAssumption DEF PurgeDomain, TypeOK
<1> QED
  BY <1>1, <1>2, <1>3

\* Every step keeps what is known of the call, whichever of its parts fails.
LEMMA CallInvNext == TypeOK /\ CallInv /\ [Next]_vars => CallInv'
<1> SUFFICES ASSUME TypeOK, CallInv, [Next]_vars PROVE CallInv'
  OBVIOUS
<1> USE DEF WritePcs, RemovePcs
<1>1. ASSUME NEW result, Return(result) PROVE CallInv'
  BY <1>1 DEF Return, CallInv
<1>2. CASE \E k \in Key, v \in Value : Set(k, v)
  BY <1>2 DEF Set, Call, CallInv
<1>3. CASE \E k \in Key : Remove(k)
  BY <1>3 DEF Remove, Call, CallInv, TypeOK
<1>4. CASE \E d \in Domain : PurgeDomain(d)
  BY <1>4 DEF PurgeDomain, Call, CallInv, TypeOK
<1>5. CASE OpenTmp
  BY <1>5 DEF OpenTmp, GoOn, argVars, CallInv
<1>6. CASE WriteTmp \/ SyncTmp \/ SyncDir
  BY <1>6 DEF WriteTmp, SyncTmp, SyncDir, GoOn, argVars, CallInv
<1>7. CASE Rename
  BY <1>7 DEF Rename, Change, GoOn, argVars, CallInv, Get, TypeOK
<1>8. CASE PurgeNext
  BY <1>8 DEF PurgeNext, CallInv, Get, TypeOK
<1>9. CASE Unlink
  <2> DEFINE files == [NoFiles EXCEPT !.tmp = dir[key].tmp]
  <2>1. key \in Key /\ files \in Files /\ Change(key, files)
    BY <1>9, FilesType DEF Unlink, CallInv, TypeOK
  <2>2. dir'[key] = files /\ \A j \in Key \ {key} : dir'[j] = dir[j]
    BY <2>1, ChangeType
  <2>3. files.value = Absent
    BY DEF NoFiles
  <2>4. /\ dir'[key].value = Absent
        /\ \A k \in Key : Get(k) = Absent => Get(k)' = Absent
    BY <2>1, <2>2, <2>3 DEF Get
  <2> QED
    BY <1>9, <2>4 DEF Unlink, GoOn, argVars, CallInv, TypeOK, Get
<1>10. CASE SyncRemoved
  <2>1. CASE rest = {}
    BY <1>1, <1>10, <2>1 DEF SyncRemoved
  <2>2. CASE rest # {}
    <3>1. \A k \in Key : Get(k)' = Get(k)
      BY <1>10 DEF SyncRemoved, SyncDirectory, Get
    <3> QED
      BY <1>10, <2>2, <3>1 DEF SyncRemoved, GoOn, argVars, CallInv, TypeOK
  <2> QED
    BY <2>1, <2>2
<1>11. CASE \/ OpenFails \/ WriteFails \/ SettleDir \/ DirectoryFails
            \/ UnlinkFails \/ Crash \/ PowerFailure
  BY <1>1, <1>11 DEF OpenFails, WriteFails, SettleDir, DirectoryFails,
                     UnlinkFails, Crash, PowerFailure
<1>12. CASE UNCHANGED vars
  BY <1>12 DEF vars, argVars, CallInv, Get
<1> QED
  BY <1>2, <1>3, <1>4, <1>5, <1>6, <1>7, <1>8, <1>9, <1>10, <1>11, <1>12
     DEF Next, WriteFile, RemoveFile

\* Every step keeps the types.
LEMMA TypingNext == TypeOK /\ CallInv /\ [Next]_vars => TypeOK'
<1> SUFFICES ASSUME TypeOK, CallInv, [Next]_vars PROVE TypeOK'
  OBVIOUS
<1>1. CASE UNCHANGED vars
  BY <1>1 DEF vars, argVars, TypeOK
<1>2. CASE Next
  BY <1>2, WriteFileTypes, RemoveFileTypes, OtherTypes, CallTypes DEF Next
<1> QED
  BY <1>1, <1>2

(* Every variable keeps its type whichever system calls fail: a power       *)
(* failure may always leave what the process sees, and the temporary file  *)
(* is there until HAPPlatformFileManagerWriteFile renames it.              *)
THEOREM Typing == Spec => []TypeOK
<1>1. Init => TypeOK /\ CallInv
  BY TypingInit
<1>2. TypeOK /\ CallInv /\ [Next]_vars => (TypeOK /\ CallInv)'
  BY TypingNext, CallInvNext
<1> QED
  BY <1>1, <1>2, PTL DEF Spec

\* A change to whole files leaves only whole files, and so does an fsync.
LEMMA WholeChange ==
    ASSUME TypeOK, WholeInv, NEW k \in Key, NEW files \in Files,
           files.safe, files.value # Torn, Change(k, files)
    PROVE  \A j \in Key : \A f \in disk'[j] : f.safe /\ f.value # Torn
<1> SUFFICES ASSUME NEW j \in Key, NEW f \in disk'[j]
             PROVE  f.safe /\ f.value # Torn
  OBVIOUS
<1>1. disk'[k] = disk[k] \union {files} /\ (j # k => disk'[j] = disk[j])
  BY ChangeType
<1>2. f \in disk[j] \/ f = files
  BY <1>1
<1> QED
  BY <1>2 DEF WholeInv

LEMMA WholeSync ==
    ASSUME TypeOK, WholeInv, SyncDirectory
    PROVE  \A j \in Key : \A f \in disk'[j] : f.safe /\ f.value # Torn
<1>1. \A j \in Key : disk'[j] = {dir[j]} /\ dir[j] \in disk[j]
  BY SyncType DEF TypeOK
<1> QED
  BY <1>1 DEF WholeInv

\* Whole files come back from a power failure as they are.
LEMMA WholeReturns ==
    ASSUME NEW D \in SUBSET Files, \A files \in D : files.safe
    PROVE  UNION {Recovered(files) : files \in D} = D
<1>1. ASSUME NEW files \in D PROVE Recovered(files) = {files}
  <2>1. files.safe = TRUE
    BY DEF Files
  <2>2. [files EXCEPT !.safe = TRUE] = files
    BY <2>1 DEF Files
  <2> QED
    BY <2>1, <2>2 DEF Recovered
<1> QED
  BY <1>1

LEMMA WholeRecovers ==
    ASSUME TypeOK, WholeInv, NEW k \in Key
    PROVE  AfterPowerFailure(k) = disk[k]
  BY WholeReturns DEF TypeOK, WholeInv, AfterPowerFailure

\* No step leaves a file on the disk that may come back torn.
LEMMA WholeInvNext ==
    ASSUME ReportsFaults, TypeOK, CallInv, WholeInv, [Next]_vars
    PROVE  WholeInv'
<1> USE DEF WritePcs, RemovePcs
<1>1. ASSUME UNCHANGED disk, pc' \notin {"syncDir", "rename"} PROVE WholeInv'
  BY <1>1 DEF WholeInv
<1>2. CASE \/ \E k \in Key, v \in Value : Set(k, v)
           \/ \E k \in Key : Remove(k)
           \/ \E d \in Domain : PurgeDomain(d)
  BY <1>1, <1>2 DEF Set, Remove, PurgeDomain, Call
<1>3. CASE OpenTmp
  <2> DEFINE files == [dir[key] EXCEPT !.tmp = TRUE]
  <2>1. key \in Key /\ files \in Files /\ Change(key, files)
    BY <1>3, FilesType DEF OpenTmp, CallInv
  <2>2. files.safe /\ files.value # Torn
    BY <2>1 DEF TypeOK, WholeInv, Files
  <2> QED
    BY <1>3, <2>1, <2>2, WholeChange DEF OpenTmp, GoOn, WholeInv
<1>4. CASE WriteTmp
  BY <1>1, <1>4 DEF WriteTmp, GoOn
<1>5. CASE SyncTmp
  BY <1>5 DEF SyncTmp, GoOn, WholeInv, ReportsFaults, Fails
<1>6. CASE SyncDir
  BY <1>6, WholeSync DEF SyncDir, GoOn, WholeInv
<1>7. CASE Rename
  <2> DEFINE files == [value |-> bytes, safe |-> synced, tmp |-> FALSE]
  <2>1. key \in Key /\ files \in Files /\ Change(key, files)
    BY <1>7 DEF Rename, CallInv, TypeOK, Files
  <2>2. files.safe /\ files.value # Torn
    BY <1>7, ValueAssumption DEF Rename, WholeInv, CallInv
  <2> QED
    BY <1>7, <2>1, <2>2, WholeChange DEF Rename, GoOn, WholeInv
<1>8. CASE Unlink
  <2> DEFINE files == [NoFiles EXCEPT !.tmp = dir[key].tmp]
  <2>1. key \in Key /\ files \in Files /\ Change(key, files)
    BY <1>8, FilesType DEF Unlink, CallInv, TypeOK
  <2>2. files.safe /\ files.value # Torn
    BY ValueAssumption DEF NoFiles
  <2> QED
    BY <1>8, <2>1, <2>2, WholeChange DEF Unlink, GoOn, WholeInv
<1>9. CASE PurgeNext
  BY <1>1, <1>9 DEF PurgeNext
<1>10. CASE SettleDir \/ SyncRemoved
  <2>1. SyncDirectory /\ pc' \notin {"syncDir", "rename"}
    BY <1>10 DEF SettleDir, SyncRemoved, Return, GoOn, ReportsFaults, Fails
  <2> QED
    BY <2>1, WholeSync DEF WholeInv
<1>11. CASE OpenFails \/ WriteFails \/ DirectoryFails \/ UnlinkFails \/ Crash
  BY <1>1, <1>11 DEF OpenFails, WriteFails, DirectoryFails, UnlinkFails, Crash,
                     Return
<1>12. CASE PowerFailure
  <2>1. \A k \in Key : dir'[k] \in disk[k] /\ disk'[k] = {dir'[k]}
    BY <1>12, WholeRecovers DEF PowerFailure
  <2> QED
    BY <1>12, <2>1 DEF PowerFailure, Return, WholeInv
<1>13. CASE UNCHANGED vars
  BY <1>13 DEF vars, WholeInv
<1> QED
  BY <1>2, <1>3, <1>4, <1>5, <1>6, <1>7, <1>8, <1>9, <1>10, <1>11, <1>12, <1>13
     DEF Next, WriteFile, RemoveFile

--------------------------------------------------------------------------------
\* The store as DurableStore sees it.
Seen == [k \in Key |-> Get(k)]
Kept == [k \in Key |-> {files.value : files \in AfterPowerFailure(k)}]
Task == IF pc = "idle" THEN <<>> ELSE <<asked, bytes>>

\* What may be kept of a key are the values on the disk.
LEMMA KeptIs ==
    /\ TypeOK /\ WholeInv =>
          Kept = [k \in Key |-> {files.value : files \in disk[k]}]
    /\ TypeOK' /\ WholeInv' =>
          Kept' = [k \in Key |-> {files.value : files \in disk'[k]}]
<1>1. ASSUME TypeOK, WholeInv
      PROVE  \A k \in Key : AfterPowerFailure(k) = disk[k]
  BY <1>1, WholeReturns DEF TypeOK, WholeInv, AfterPowerFailure
<1>2. ASSUME TypeOK', WholeInv'
      PROVE  \A k \in Key : AfterPowerFailure(k)' = disk'[k]
  <2>1. \A k \in Key : disk'[k] \in SUBSET Files /\ \A f \in disk'[k] : f.safe
    BY <1>2 DEF TypeOK, WholeInv
  <2>2. \A k \in Key : UNION {Recovered(f) : f \in disk'[k]} = disk'[k]
    BY <2>1, WholeReturns
  <2> QED
    BY <2>2 DEF AfterPowerFailure
<1> QED
  BY <1>1, <1>2 DEF Kept

\* What the three ways to treat the file system do to what is seen and kept.
LEMMA SeenUnchanged ==
    ASSUME TypeOK, TypeOK', WholeInv, WholeInv', UNCHANGED <<dir, disk>>
    PROVE  Seen' = Seen /\ Kept' = Kept
  BY KeptIs DEF Seen, Get

LEMMA SeenSynced ==
    ASSUME TypeOK, TypeOK', WholeInv, WholeInv', SyncDirectory
    PROVE  Seen' = Seen /\ Kept' = [k \in Key |-> {Seen[k]}]
<1>1. Seen' = Seen
  BY DEF Seen, Get, SyncDirectory
<1>2. \A k \in Key : {files.value : files \in disk'[k]} = {Seen[k]}
  BY DEF SyncDirectory, Seen, Get
<1> QED
  BY <1>1, <1>2, KeptIs

LEMMA SeenChanged ==
    ASSUME TypeOK, TypeOK', WholeInv, WholeInv', NEW k \in Key,
           NEW files \in Files, Change(k, files)
    PROVE  /\ Seen' = [Seen EXCEPT ![k] = files.value]
           /\ Kept' = [Kept EXCEPT ![k] = @ \union {files.value}]
<1>1. /\ dir'[k] = files
      /\ disk'[k] = disk[k] \union {files}
      /\ \A j \in Key \ {k} : dir'[j] = dir[j] /\ disk'[j] = disk[j]
  BY ChangeType
<1>2. Seen' = [Seen EXCEPT ![k] = files.value]
  BY <1>1 DEF Seen, Get
<1>3. {f.value : f \in disk'[k]} = {f.value : f \in disk[k]} \union {files.value}
  BY <1>1
<1>4. \A j \in Key \ {k} :
          {f.value : f \in disk'[j]} = {f.value : f \in disk[j]}
  BY <1>1
<1>5. Kept' = [Kept EXCEPT ![k] = @ \union {files.value}]
  BY <1>3, <1>4, KeptIs
<1> QED
  BY <1>2, <1>5

\* A store without files is an empty DurableStore.
LEMMA StoreInit == Init /\ TypeOK /\ WholeInv => Store!Init
<1> SUFFICES ASSUME Init, TypeOK, WholeInv PROVE Store!Init
  OBVIOUS
<1>1. Seen = [k \in Key |-> Absent]
  BY DEF Init, Seen, Get, NoFiles
<1>2. Kept = [k \in Key |-> {Absent}]
  BY KeptIs DEF Init, NoFiles
<1> QED
  BY <1>1, <1>2 DEF Init, Store!Init, Seen, Kept, NoResult

\* A call that is under way is a task; an idle process has none.
LEMMA TaskIs ==
    /\ pc = "idle" => Task = <<>>
    /\ pc # "idle" => Task # <<>> /\ Task[1] = asked /\ Task[2] = bytes
    /\ pc' = "idle" => Task' = <<>>
    /\ pc' # "idle" => Task' = <<asked', bytes'>>
<1>1. <<asked, bytes>> # <<>>
  OBVIOUS
<1> QED
  BY <1>1 DEF Task

\* The steps of DurableStore, said of the store.
LEMMA AskStep ==
    ASSUME NEW keys, NEW v, UNCHANGED <<Seen, Kept>>,
           Task = <<>>, Task' = <<keys, v>>, err' = "NoResult"
    PROVE  Store!Ask(keys, v)
  BY DEF Store!Ask, Seen, Kept, Task

LEMMA TakeEffectStep ==
    ASSUME NEW k, Task # <<>>, k \in Task[1], UNCHANGED <<Task, err>>,
           Seen' = [Seen EXCEPT ![k] = Task[2]],
           Kept' = [Kept EXCEPT ![k] = @ \union {Task[2]}]
    PROVE  Store!TakeEffect(k)
  BY DEF Store!TakeEffect, Seen, Kept, Task

LEMMA SettleStep ==
    ASSUME UNCHANGED <<Seen, Task, err>>, Kept' = [k \in Key |-> {Seen[k]}]
    PROVE  Store!Settle
  BY DEF Store!Settle, Seen, Kept, Task

LEMMA SucceedStep ==
    ASSUME Task # <<>>, \A k \in Task[1] : k \in Key /\ Seen[k] = Task[2],
           Seen' = Seen, Kept' = [k \in Key |-> {Seen[k]}],
           Task' = <<>>, err' = "None"
    PROVE  Store!Succeed
<1>1. \A k \in Task[1] : Kept'[k] = {Task[2]} /\ Seen[k] = Task[2]
  OBVIOUS
<1> QED
  BY <1>1 DEF Store!Succeed, Seen, Kept, Task

LEMMA FailStep ==
    ASSUME Task # <<>>, Task' = <<>>, err' \in {"Unknown", "NoResult"},
           UNCHANGED <<Seen, Kept>>
    PROVE  Store!Fail
  BY DEF Store!Fail, Seen, Kept, Task

LEMMA PowerFailsStep ==
    ASSUME Seen' \in [Key -> Value \union {Absent}],
           \A k \in Key : Seen'[k] \in Kept[k],
           Kept' = [k \in Key |-> {Seen'[k]}],
           Task' = <<>>, err' = "NoResult"
    PROVE  Store!PowerFails
  BY DEF Store!PowerFails, Seen, Kept, Task

LEMMA StutterStep ==
    ASSUME UNCHANGED <<Seen, Kept, Task, err>>
    PROVE  UNCHANGED Store!vars
  BY DEF Store!vars, Seen, Kept, Task

--------------------------------------------------------------------------------
\* A call that starts asks for its change.
LEMMA CallsAsk ==
    ASSUME IndInv, IndInv',
           \/ \E k \in Key, v \in Value : Set(k, v)
           \/ \E k \in Key : Remove(k)
           \/ \E d \in Domain : PurgeDomain(d)
    PROVE  Store!Next
<1> USE DEF IndInv, Call, NoResult
<1>1. CASE \E k \in Key, v \in Value : Set(k, v)
  <2>1. PICK k \in Key, v \in Value : Set(k, v)
    BY <1>1
  <2>2. UNCHANGED <<Seen, Kept>>
    BY <2>1, SeenUnchanged DEF Set
  <2>3. Task = <<>> /\ Task' = <<{k}, v>> /\ err' = "NoResult"
    BY <2>1, TaskIs DEF Set
  <2>4. Store!Ask({k}, v)
    BY <2>2, <2>3, AskStep
  <2> QED
    BY <2>4 DEF Store!Next
<1>2. CASE \E k \in Key : Remove(k)
  <2>1. PICK k \in Key : Remove(k)
    BY <1>2
  <2>2. UNCHANGED <<Seen, Kept>>
    BY <2>1, SeenUnchanged DEF Remove
  <2>3. bytes' = Absent
    BY <2>1 DEF Remove, CallInv
  <2>4. Task = <<>> /\ Task' = <<{k}, Absent>> /\ err' = "NoResult"
    BY <2>1, <2>3, TaskIs DEF Remove
  <2>5. Store!Ask({k}, Absent)
    BY <2>2, <2>4, AskStep
  <2> QED
    BY <2>5 DEF Store!Next
<1>3. CASE \E d \in Domain : PurgeDomain(d)
  <2>1. PICK d \in Domain : PurgeDomain(d)
    BY <1>3
  <2>2. UNCHANGED <<Seen, Kept>>
    BY <2>1, SeenUnchanged DEF PurgeDomain
  <2>3. bytes' = Absent /\ asked' \in SUBSET Key
    BY <2>1, DomainAssumption DEF PurgeDomain, CallInv
  <2>4. Task = <<>> /\ Task' = <<asked', Absent>> /\ err' = "NoResult"
    BY <2>1, <2>3, TaskIs DEF PurgeDomain
  <2>5. PICK keys \in SUBSET Key : keys = asked'
    BY <2>3
  <2>6. Store!Ask(keys, Absent)
    BY <2>2, <2>4, <2>5, AskStep
  <2> QED
    BY <2>6 DEF Store!Next
<1> QED
  BY <1>1, <1>2, <1>3

\* The rename and the unlink are where a change takes effect.
LEMMA ChangesTakeEffect ==
    ASSUME IndInv, IndInv', Rename \/ Unlink
    PROVE  Store!Next
<1> USE DEF IndInv, WritePcs, RemovePcs
<1>1. ASSUME NEW files \in Files, Change(key, files), files.value = bytes,
             key \in Key, key \in asked, pc # "idle", pc' # "idle",
             UNCHANGED <<argVars, err>>
      PROVE  Store!Next
  <2>1. /\ Seen' = [Seen EXCEPT ![key] = bytes]
        /\ Kept' = [Kept EXCEPT ![key] = @ \union {bytes}]
    BY <1>1, SeenChanged
  <2>2. /\ Task # <<>> /\ Task[1] = asked /\ Task[2] = bytes
        /\ Task' = Task
    BY <1>1, TaskIs DEF argVars, Task
  <2>3. key \in Task[1] /\ err' = err
    BY <1>1, <2>2
  <2>4. /\ Seen' = [Seen EXCEPT ![key] = Task[2]]
        /\ Kept' = [Kept EXCEPT ![key] = @ \union {Task[2]}]
    BY <2>1, <2>2
  <2>5. PICK k \in Key : k = key
    BY <1>1
  <2>6. Store!TakeEffect(k)
    BY <2>2, <2>3, <2>4, <2>5, TakeEffectStep
  <2> QED
    BY <2>6 DEF Store!Next
<1>2. CASE Rename
  <2> DEFINE files == [value |-> bytes, safe |-> synced, tmp |-> FALSE]
  <2>1. key \in Key /\ key \in asked /\ files \in Files /\ files.value = bytes
    BY <1>2 DEF Rename, CallInv, TypeOK, Files
  <2> HIDE DEF files
  <2>2. /\ Change(key, files) /\ UNCHANGED <<argVars, err>>
        /\ pc # "idle" /\ pc' # "idle"
    BY <1>2 DEF Rename, GoOn, files
  <2> QED
    BY <1>1, <2>1, <2>2
<1>3. CASE Unlink
  <2> DEFINE files == [NoFiles EXCEPT !.tmp = dir[key].tmp]
  <2>1. key \in Key /\ key \in asked /\ bytes = Absent
    BY <1>3 DEF Unlink, CallInv, TypeOK
  <2>2. files \in Files /\ files.value = bytes
    BY <2>1, FilesType DEF NoFiles
  <2> HIDE DEF files
  <2>3. /\ Change(key, files) /\ UNCHANGED <<argVars, err>>
        /\ pc # "idle" /\ pc' # "idle"
    BY <1>3 DEF Unlink, GoOn, files
  <2> QED
    BY <1>1, <2>1, <2>2, <2>3
<1> QED
  BY <1>2, <1>3

\* An fsync of the directory settles what was seen, the last one of a call
\* before it succeeds.
LEMMA SyncsSettle ==
    ASSUME ReportsFaults, IndInv, IndInv', SyncDir \/ SettleDir \/ SyncRemoved
    PROVE  Store!Next
<1> USE DEF IndInv, WritePcs, RemovePcs
<1>1. SyncDirectory /\ pc # "idle"
  BY DEF SyncDir, SettleDir, SyncRemoved, ReportsFaults, Fails
<1>2. Seen' = Seen /\ Kept' = [k \in Key |-> {Seen[k]}]
  BY <1>1, SeenSynced
<1>3. Task # <<>> /\ Task[1] = asked /\ Task[2] = bytes
  BY <1>1, TaskIs
<1>4. CASE SyncDir \/ (SyncRemoved /\ rest # {})
  <2>1. pc' # "idle" /\ UNCHANGED <<argVars, err>>
    BY <1>4 DEF SyncDir, SyncRemoved, GoOn
  <2>2. Task' = Task
    BY <1>1, <2>1 DEF Task, argVars
  <2> QED
    BY <1>2, <2>1, <2>2, SettleStep DEF Store!Next
<1>5. CASE SettleDir \/ (SyncRemoved /\ rest = {})
  <2>1. pc' = "idle" /\ err' = "None"
    BY <1>5 DEF SettleDir, SyncRemoved, Return
  <2>2. \A k \in asked : k \in Key /\ Get(k) = bytes
    BY <1>5 DEF SettleDir, SyncRemoved, CallInv, TypeOK
  <2>3. \A k \in Task[1] : k \in Key /\ Seen[k] = Task[2]
    BY <1>3, <2>2 DEF Seen
  <2>4. Store!Succeed
    BY <1>2, <1>3, <2>1, <2>3, TaskIs, SucceedStep
  <2> QED
    BY <2>4 DEF Store!Next
<1> QED
  BY <1>4, <1>5

\* A call that fails, or whose process dies, changes nothing more.
LEMMA FailuresFail ==
    ASSUME IndInv, IndInv',
           OpenFails \/ WriteFails \/ DirectoryFails \/ UnlinkFails \/ Crash
    PROVE  Store!Next
<1>1. /\ pc # "idle" /\ pc' = "idle" /\ err' \in {"Unknown", "NoResult"}
      /\ UNCHANGED <<dir, disk>>
  BY DEF OpenFails, WriteFails, DirectoryFails, UnlinkFails, Crash, Return,
         NoResult
<1>2. UNCHANGED <<Seen, Kept>>
  BY <1>1, SeenUnchanged DEF IndInv
<1>3. Store!Fail
  BY <1>1, <1>2, TaskIs, FailStep
<1> QED
  BY <1>3 DEF Store!Next

\* What a power failure leaves of each key was kept of it.
LEMMA PowerFailureFails ==
    ASSUME IndInv, IndInv', PowerFailure
    PROVE  Store!Next
<1> USE DEF IndInv
<1>1. \A k \in Key : dir'[k] \in disk[k] /\ disk'[k] = {dir'[k]}
  BY WholeRecovers DEF PowerFailure
<1>2. \A k \in Key : dir'[k] \in Files /\ dir'[k].value # Torn
  BY <1>1 DEF TypeOK, WholeInv
<1>3. Seen' = [k \in Key |-> dir'[k].value]
  BY DEF Seen, Get
<1>4. Seen' \in [Key -> Value \union {Absent}]
  BY <1>2, <1>3 DEF Files
<1>5. \A k \in Key : Seen'[k] \in Kept[k]
  BY <1>1, <1>3, KeptIs
<1>6. \A k \in Key : {files.value : files \in disk'[k]} = {Seen'[k]}
  BY <1>1, <1>3
<1>7. Kept' = [k \in Key |-> {Seen'[k]}]
  BY <1>6, KeptIs
<1>8. pc' = "idle" /\ err' = "NoResult"
  BY DEF PowerFailure, Return, NoResult
<1>9. Store!PowerFails
  BY <1>4, <1>5, <1>7, <1>8, TaskIs, PowerFailsStep
<1> QED
  BY <1>9 DEF Store!Next

\* The work on the temporary file is not seen.
LEMMA TmpStutters ==
    ASSUME IndInv, IndInv',
           OpenTmp \/ WriteTmp \/ SyncTmp \/ PurgeNext \/ UNCHANGED vars
    PROVE  UNCHANGED Store!vars
<1> USE DEF IndInv
<1>1. UNCHANGED <<Task, err>>
  BY DEF OpenTmp, WriteTmp, SyncTmp, PurgeNext, GoOn, vars, argVars, Task
<1>2. CASE OpenTmp
  <2> DEFINE files == [dir[key] EXCEPT !.tmp = TRUE]
  <2>1. key \in Key /\ files \in Files /\ Change(key, files)
    BY <1>2, FilesType DEF OpenTmp, CallInv, WritePcs
  <2>2. files.value = Seen[key]
    BY <2>1 DEF TypeOK, Files, Seen, Get
  <2>3. Seen[key] \in Kept[key]
    BY <2>1, KeptIs DEF TypeOK, Seen, Get
  <2> HIDE DEF files
  <2>4. /\ Seen' = [Seen EXCEPT ![key] = Seen[key]]
        /\ Kept' = [Kept EXCEPT ![key] = @ \union {Seen[key]}]
    BY <2>1, <2>2, SeenChanged
  <2>5. Seen' = Seen
    BY <2>4 DEF Seen
  <2>6. Kept[key] \union {Seen[key]} = Kept[key]
    BY <2>3
  <2>7. Kept' = Kept
    BY <2>4, <2>6 DEF Kept
  <2> QED
    BY <1>1, <2>5, <2>7, StutterStep
<1>3. CASE WriteTmp \/ SyncTmp \/ PurgeNext \/ UNCHANGED vars
  <2>1. UNCHANGED <<dir, disk>>
    BY <1>3 DEF WriteTmp, SyncTmp, PurgeNext, vars
  <2> QED
    BY <1>1, <2>1, SeenUnchanged, StutterStep
<1> QED
  BY <1>2, <1>3

\* Every step of the store is a step of DurableStore or is not seen.
LEMMA StoreNext ==
    ASSUME ReportsFaults, IndInv, IndInv', [Next]_vars
    PROVE  [Store!Next]_Store!vars
  BY CallsAsk, ChangesTakeEffect, SyncsSettle, FailuresFail, PowerFailureFails,
     TmpStutters DEF Next, WriteFile, RemoveFile

(* Whichever system calls fail or are never reached, a key has a whole      *)
(* value or none, and a change that succeeds outlives a power failure, as   *)
(* long as fsync does not fail where HAPPlatformFileManager.c:205 and :409  *)
(* go on after it.                                                          *)
THEOREM Refinement ==
    ASSUME ReportsFaults
    PROVE  Spec => ImplementsDurableStore
<1>1. Init => IndInv /\ Store!Init
  BY TypingInit, StoreInit DEF IndInv
<1>2. IndInv /\ [Next]_vars => IndInv'
  BY TypingNext, CallInvNext, WholeInvNext DEF IndInv
<1>3. IndInv /\ IndInv' /\ [Next]_vars => [Store!Next]_Store!vars
  BY StoreNext
<1> QED
  BY <1>1, <1>2, <1>3, PTL DEF Spec, ImplementsDurableStore, Store!Spec
================================================================================
