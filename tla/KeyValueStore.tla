------------------------------ MODULE KeyValueStore ------------------------------
(***************************************************************************)
(* The key-value store of the PAL (PAL/POSIX/HAPPlatformKeyValueStore.c and *)
(* HAPPlatformFileManager.c): one file per key in one directory, written    *)
(* through a temporary file that is renamed, in a process that may be       *)
(* killed, on a machine that may lose power between any two system calls.   *)
(***************************************************************************)
CONSTANTS
    Key,            \* domain and key, the file <domain>.<key>
    Domain,         \* the sets of keys that share a domain
    Value,
    Absent,         \* there is no file
    Torn,           \* a file whose bytes never reached the disk
    Faults          \* the calls of the file system that may fail

ASSUME DomainAssumption ==
    /\ UNION Domain = Key
    /\ \A d, e \in Domain : d = e \/ d \intersect e = {}
ASSUME ValueAssumption == Absent \notin Value /\ Torn \notin Value /\ Absent # Torn
ASSUME FaultsAssumption ==
    Faults \subseteq {"open", "write", "sync", "syncDir", "rename", "unlink",
                      "syncRemoved"}

VARIABLES
    root,           \* the process runs as root and ignores a file's mode
    dir,            \* what the process sees of each key's two files
    disk,           \* what a power failure may leave of them
    pc,             \* the system call that comes next
    key, bytes,     \* the arguments of WriteFile or RemoveFile
    rest,           \* the keys an enumeration has still to remove
    synced,         \* fsync of the temporary file succeeded
    err,            \* the result of the last call, NoResult if there is none
    asked           \* history: the keys the call that is under way changes

argVars == <<key, bytes, rest, asked>>
vars == <<root, dir, disk, pc, argVars, synced, err>>

(* The value of a key's file, whether its bytes are on the disk, and       *)
(* whether there is a file <domain>.<key>-tmp.                             *)
Files == [value : Value \union {Absent, Torn}, safe : BOOLEAN, tmp : BOOLEAN]
NoFiles == [value |-> Absent, safe |-> TRUE, tmp |-> FALSE]

WritePcs == {"open", "write", "sync", "syncDir", "rename", "settle"}
Result == {"None", "Unknown"}
NoResult == "NoResult"
RemovePcs == {"next", "unlink", "unlinked"}

(* The last two conjuncts: a power failure may leave what the process sees, *)
(* and the temporary file is there until it is renamed.                     *)
TypeOK ==
    /\ root \in BOOLEAN
    /\ dir \in [Key -> Files]
    /\ disk \in [Key -> SUBSET Files]
    /\ pc \in {"idle"} \union WritePcs \union RemovePcs
    /\ key \in Key \union {Absent} /\ bytes \in Value \union {Absent}
    /\ rest \subseteq asked /\ asked \subseteq Key
    /\ synced \in BOOLEAN /\ err \in Result \union {NoResult}
    /\ \A k \in Key : dir[k] \in disk[k]
    /\ pc \in WritePcs \ {"open", "settle"} => dir[key].tmp

Init ==
    /\ root \in BOOLEAN
    /\ dir = [k \in Key |-> NoFiles]
    /\ disk = [k \in Key |-> {NoFiles}]
    /\ pc = "idle" /\ key = Absent /\ bytes = Absent
    /\ rest = {} /\ asked = {} /\ synced = FALSE /\ err = NoResult

--------------------------------------------------------------------------------
(* The file system. A change of the directory is seen at once, and reaches *)
(* the disk some time before the directory's next fsync returns.           *)
ChangeInMemory(k, files) ==    \* a mutation
    /\ dir' = [dir EXCEPT ![k] = files]
    /\ disk' = disk

Change(k, files) ==
    /\ dir' = [dir EXCEPT ![k] = files]
    /\ disk' = [disk EXCEPT ![k] = @ \union {files}]

SyncDirectory ==
    /\ disk' = [k \in Key |-> {dir[k]}]
    /\ dir' = dir

Fails(fault) == fault \in Faults

Return(result) ==
    /\ pc' = "idle" /\ key' = Absent /\ bytes' = Absent
    /\ rest' = {} /\ asked' = {} /\ synced' = FALSE
    /\ err' = result
    /\ root' = root

GoOn(next) == pc' = next /\ UNCHANGED <<root, argVars, err>>

Call(next) == pc = "idle" /\ pc' = next /\ err' = NoResult

--------------------------------------------------------------------------------
(* HAPPlatformKeyValueStoreGet reads the file of the key. *)
Get(k) == dir[k].value

(* HAPPlatformKeyValueStoreSet, up to the open of the temporary file. *)
Set(k, v) ==
    /\ Call("open") /\ key' = k /\ bytes' = v /\ asked' = {k}
    /\ UNCHANGED <<root, dir, disk, rest, synced>>

(* HAPPlatformFileManagerWriteFile. The temporary file is created with mode *)
(* 0400: one that is there already opens for root alone.                    *)
CanOpen == root \/ ~dir[key].tmp

OpenTmp ==
    /\ pc = "open" /\ CanOpen
    /\ Change(key, [dir[key] EXCEPT !.tmp = TRUE])
    /\ synced' = FALSE
    /\ GoOn("write")

OpenFails ==
    /\ pc = "open" /\ (Fails("open") \/ ~CanOpen)
    /\ Return("Unknown")
    /\ UNCHANGED <<dir, disk>>

WriteTmp ==
    /\ pc = "write"
    /\ GoOn("sync")
    /\ UNCHANGED <<dir, disk, synced>>

(* remove(tmpPath) is relative to the current directory, not to the store's: *)
(* the temporary file stays.                                                *)
WriteFails ==
    /\ pc = "write" /\ Fails("write")
    /\ Return("Unknown")
    /\ UNCHANGED <<dir, disk>>

(* An fsync of the temporary file that fails is logged, and no more. *)
SyncTmp ==
    /\ pc = "sync"
    /\ synced' \in BOOLEAN /\ (synced' \/ Fails("sync"))
    /\ GoOn("syncDir")
    /\ UNCHANGED <<dir, disk>>

SyncDir ==
    /\ pc = "syncDir"
    /\ SyncDirectory
    /\ GoOn("rename")
    /\ synced' = synced

Rename ==
    /\ pc = "rename"
    /\ Change(key, [value |-> bytes, safe |-> synced, tmp |-> FALSE])
    /\ GoOn("settle")
    /\ synced' = synced

(* A mutation answers when the file is renamed. *)
SettleDirUnsynced ==
    /\ pc = "settle"
    /\ UNCHANGED <<dir, disk>>
    /\ Return("None")

SettleDir ==
    /\ pc = "settle"
    /\ SyncDirectory
    /\ Return("None")

DirectoryFails ==
    /\ \/ pc \in {"syncDir", "settle"} /\ Fails("syncDir")
       \/ pc = "rename" /\ Fails("rename")
    /\ Return("Unknown")
    /\ UNCHANGED <<dir, disk>>

--------------------------------------------------------------------------------
(* HAPPlatformKeyValueStoreRemove; without a file there is nothing to do. *)
Remove(k) ==
    /\ Get(k) # Absent
    /\ Call("unlink") /\ key' = k /\ asked' = {k}
    /\ UNCHANGED <<root, dir, disk, bytes, rest, synced>>

(* HAPPlatformKeyValueStorePurgeDomain enumerates the keys of a domain; the *)
(* name of a temporary file is not a key.                                   *)
PurgeDomain(d) ==
    /\ rest' = {k \in d : Get(k) # Absent} /\ asked' = rest'
    /\ rest' # {} /\ Call("next")
    /\ UNCHANGED <<root, dir, disk, key, bytes, synced>>

PurgeNext ==
    /\ pc = "next"
    /\ \E k \in rest : key' = k /\ rest' = rest \ {k}
    /\ pc' = "unlink"
    /\ UNCHANGED <<root, dir, disk, bytes, asked, synced, err>>

(* HAPPlatformFileManagerRemoveFile. *)
Unlink ==
    /\ pc = "unlink"
    /\ Change(key, [NoFiles EXCEPT !.tmp = dir[key].tmp])
    /\ GoOn("unlinked")
    /\ synced' = synced

UnlinkFails ==
    /\ pc = "unlink" /\ Fails("unlink")
    /\ Return("Unknown")
    /\ UNCHANGED <<dir, disk>>

(* An fsync of the directory that fails is logged, and no more. *)
SyncRemoved ==
    /\ pc = "unlinked"
    /\ \/ SyncDirectory
       \/ Fails("syncRemoved") /\ UNCHANGED <<dir, disk>>
    /\ IF rest = {} THEN Return("None") ELSE GoOn("next") /\ synced' = synced

--------------------------------------------------------------------------------
(* The process is killed, and started again. *)
Crash ==
    /\ pc # "idle"
    /\ Return(NoResult)
    /\ UNCHANGED <<dir, disk>>

(* A file whose bytes were not synchronized may come back without them. *)
Recovered(files) ==
    {[files EXCEPT !.safe = TRUE]}
        \union (IF files.safe THEN {}
                               ELSE {[files EXCEPT !.safe = TRUE, !.value = Torn]})

AfterPowerFailure(k) == UNION {Recovered(files) : files \in disk[k]}

PowerFailure ==
    /\ dir' \in {after \in [Key -> UNION {AfterPowerFailure(k) : k \in Key}] :
                    \A k \in Key : after[k] \in AfterPowerFailure(k)}
    /\ disk' = [k \in Key |-> {dir'[k]}]
    /\ Return(NoResult)

WriteFile ==
    OpenTmp \/ OpenFails \/ WriteTmp \/ WriteFails \/ SyncTmp \/ SyncDir
        \/ Rename \/ SettleDir \/ DirectoryFails
RemoveFile == PurgeNext \/ Unlink \/ UnlinkFails \/ SyncRemoved

Next ==
    \/ \E k \in Key, v \in Value : Set(k, v)
    \/ \E k \in Key : Remove(k)
    \/ \E d \in Domain : PurgeDomain(d)
    \/ WriteFile
    \/ RemoveFile
    \/ Crash
    \/ PowerFailure

Spec == Init /\ [][Next]_vars

--------------------------------------------------------------------------------
(* The call that is under way, and what it has done so far. *)
CallInv ==
    /\ pc = "idle" => rest = {} /\ bytes = Absent
    /\ pc \in WritePcs => key \in Key /\ bytes \in Value /\ asked = {key}
    /\ pc \in RemovePcs => bytes = Absent
    /\ pc \in {"unlink", "unlinked"} => key \in asked
    /\ pc = "settle" => Get(key) = bytes
    /\ pc = "unlinked" => Get(key) = Absent
    /\ pc = "next" => \A k \in asked \ rest : Get(k) = Absent
    /\ pc \in {"unlink", "unlinked"} =>
          \A k \in asked \ (rest \union {key}) : Get(k) = Absent

(* Every file a power failure may leave is whole, and one that is not on    *)
(* the disk is not renamed.                                                *)
WholeInv ==
    /\ \A k \in Key : \A files \in disk[k] : files.safe /\ files.value # Torn
    /\ pc \in {"syncDir", "rename"} => synced

(* The inductive invariant, while no fsync fails where the code goes on.    *)
IndInv == TypeOK /\ CallInv /\ WholeInv

ReportsFaults == "sync" \notin Faults /\ "syncRemoved" \notin Faults

(* Each key has a whole value or none at every instant, as the process sees *)
(* it and as a power failure leaves it, and a Set, a Remove of a key with a *)
(* file and a PurgeDomain that succeed are final, whichever system calls    *)
(* fail or are never reached, as long as fsync does not fail where the code *)
(* goes on after it (HAPPlatformFileManager.c:205 and :409).                *)
Store == INSTANCE DurableStore WITH
    value <- [k \in Key |-> Get(k)],
    kept <- [k \in Key |-> {files.value : files \in AfterPowerFailure(k)}],
    result <- err,
    task <- IF pc = "idle" THEN <<>> ELSE <<asked, bytes>>

ImplementsDurableStore == Store!Spec

(* A key that was set once can be set again: it fails, once a process that  *)
(* is not root has left a temporary file behind it (mode 0400, line 148).   *)
SetsAgain == pc = "open" => CanOpen
================================================================================
