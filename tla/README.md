# CGuard: a TLA+ verification project

CGuard is a light bulb accessory with two control channels: an MQTT channel
(AWS IoT) and a HomeKit channel (Apple's accessory development kit, ADK). A
guard between them, `CGuard.c`, enables and disables the HomeKit channel on
command and keeps the access control list that decides which HomeKit writes
reach the bulb.

This directory holds TLA+ modules translated from the source, the TLC
configurations that check them on small instances, and proofs checked by TLAPS
that hold for every value of the constants. `PROJECT.json` lists the
components, the runs, the mutants that show each property can fail, the source
lines behind every definition, the hazards and the theorems.

## The system

The process has three kinds of thread. `main` creates the AWS thread and joins
it. The AWS thread connects to the broker and handles one-letter commands in
`iot_subscribe_callback_handler`. Command `H` creates a HomeKit thread, which
runs `CS_EnableChannel` and in it `HomekitMainFunction`: the ADK's accessory
server, its IP engine, its TCP stream manager and a `select` run loop. All
three share globals, and only the bulb's state has a mutex.

    broker --MQTT--> AWS thread -- n, f --------> gLightBulbState <--+
                        |   |                                        |
                        |   +-- A, a --> gACL <--check-- write handler (App.c)
                        |                                        |
                        +-- H: pthread_create --> HomeKit thread-+
                        +-- h: self-pipe ------->   run loop, IP engine,
                                                    sessions <--TCP-- controllers
                                                       |
                                                    key-value store (files)

### Inventory

| Component | State | Operations | What makes it correct | Module |
|---|---|---|---|---|
| Access control list (`CGuard.c`) | `gACL`, one linked list of authorization data per right, without a lock | append, delete (AWS thread), check (HomeKit thread) | the lists stay whole, no node leaks, a check answers what was true during it | `ACL` |
| Channel control (`CGuard.c`, `AWSMain.c`, `HomeKitMain.c`, `main.c`) | `gisHomeKitEnabled`, `gHAPrequestedFactoryReset`, the thread handle | `H`, `h`, `e`, the stop callback, factory reset | one server at a time, a disable ends the channel and its pairings, no check of the ADK aborts the process | `ChannelControl` |
| AWS thread, MQTT client (`AWSMain.c`, AWS SDK) | client state, subscription, keep-alive, back-off, read buffer | connect, subscribe, yield, reconnect, handle a command | a live connection's session is subscribed anew, a loss is noticed, a new connection starts afresh | `MQTTClient` |
| Light bulb (`App.c`, `VendorFunction.c`) | `gLightBulbState`, the app's copy, the saved copy | read and write handlers, `n`, `f`, load, save | answered writes are saved, subscribers are told | `LightBulb` |
| IP engine (`HAPIPAccessoryServer.c`) | sessions, buffers, event records and flags, four timers | accept, read, write, close, notify, stop, collect garbage | no event is lost, stop drains every session, no timer but one outlives its object | `IPServer`, `LightBulb`, `Pairing` |
| TCP stream manager | listener, stream slots | open, accept, read, write, close | slots, sessions and the listener's interest agree | `IPServer` |
| Accessory server (`HAPAccessoryServer.c`) | its state, the callback timer, LTSK | create, start, stop, release, clean up pairings, reset | the order of its states, a reset that resumes after a crash | `ChannelControl`, `IPServer`, `Pairing` |
| Run loop (`HAPPlatformRunLoop.c`) | state, timers, file handles, self-pipe and its buffer | register, deregister, run, stop, schedule callback | timers in order, no freed handle followed, each callback once and whole | `RunLoop`, `SelfPipe` |
| Pair setup, verify, pairings | procedure state, sessions' security, pairings in the store | M1 to M6, add, update, remove | one procedure at a time, an admin remains, a lost pairing closes its sessions | `Pairing` |
| Key-value store, file manager | one file per key | get, set (temporary file, fsync, rename), remove, purge | a crash leaves the old or the new value, success is final | `KeyValueStore` |
| Setup code, service discovery, TLV, HTTP, JSON, BLE | | | | not modelled |

Hard behaviour: two threads on lists without a lock; HomeKit threads that
overlap because nothing waits for the old one; stop callbacks that race with
the creation of the pipe they need; callbacks that change the lists the run
loop is walking; timers that outlive their objects; sessions that must drain
before a reset; pairings removed under the sessions they secure; connections
that die without notice or in the middle of a packet; a crash between any two
steps of a write to the store, a reset, or a change of the pairings.

## Modules

| Module | What it is |
|---|---|
| `Authorization` | abstract: a bag of grants per right |
| `ACL`, `MCACL`, `ACLProofs` | the linked lists, pointer by pointer, on two threads; implements `Authorization`; instance; theorems |
| `ChannelControl`, `MCChannelControl`, `ChannelControlProofs` | AWS thread and overlapping HomeKit threads, call by call on the shared globals; instance; theorems |
| `MQTTClient`, `MQTTClientProofs` | the AWS thread's loop and its client against a network that fails; theorems |
| `LightBulb`, `MCLightBulb`, `LightBulbProofs` | device, copies, sessions and event notifications; instance; theorems |
| `TimerService` | abstract: pending timers, served in the order of their deadlines |
| `RunLoop`, `MCRunLoop`, `RunLoopProofs` | timers, file handles and the loop; implements `TimerService`; instance; theorems |
| `CallbackQueue` | abstract: a queue of callbacks |
| `SelfPipe` | the bytes of the self-pipe; implements `CallbackQueue`; its theorems are the last part of `RunLoopProofs` |
| `IPServer`, `IPServerProofs` | sessions, streams, listener, timers and the stop; theorems |
| `Pairing`, `MCPairing`, `PairingProofs` | pair setup, pair verify, pairings, reset and crashes; instance; theorems |
| `DurableStore` | abstract: values that survive a power failure once answered |
| `KeyValueStore`, `KeyValueStoreProofs` | files, temporary files, fsync and rename; implements `DurableStore`; theorems |

A component appears in another's module as far as that one can tell: the
engine's sessions are a count in `ChannelControl`, slots with buffers in
`IPServer`, security states in `Pairing` and readers of events in `LightBulb`;
the store is a value in `LightBulb` and keys with a crash between them in
`Pairing`.

### ACL

Every step makes at most one access that the other thread can observe.
`Command` takes `A` or `a` with some data and rights; `AppendPrepare` and
`AppendPublish` are the two halves of `CC_AppendACL`; `DeleteHead`,
`DeleteSkipHead`, `DeleteWalk`, `DeleteUnlink`, `DeleteFree` follow
`CC_DeleteACL` with its locals `p` and `p1`; `CheckBegin`, `CheckMatch`,
`CheckAdvance`, `CheckEnd` follow `CC_CheckAuthData`. The race is modelled as
what it is: a node that was freed, or one whose stores the other thread may not
see in order (`torn`), yields anything (`CheckGarbage...`), a fault included.
History variables record the list a node was linked into (`owner`), its age
(`born`), and whether the datum under check was listed or absent at some
instant of the check.

`CheckSound` is the guarantee the code gives without a lock: a check that
touched no freed or torn node answers what was true at some instant of it.
`CheckLinearized` is the same without that condition and does not hold.

### ChannelControl

The state is the globals named in the module's comments; a HomeKit thread's
`pc` is its next call. Each thread goes through `Startup` (clear the flags,
create the manager, the run loop, the server, start it), `Iteration` (select,
the due timers, then the self-pipe before the other handles), `Client` (what
connected controllers cause) and `Cleanup`. `Thread` bounds the number of
accepted `H` commands. The ADK is built with its preconditions on: a failed one
sets `process` to the name of the check and nothing happens any more.

Timers are a set of those due and a set of those with a deadline to come. That
allows every order of timers with the same deadline, which is what the run
loop's list gives (see `SameDeadlineInOrder` below). `"stale"` is an event
notification timer whose server was released: it is the one timer of a server
that a channel leaves behind, which `EndsClean` names as its exception, and
what it does to the next server is `EventTimerOnRecord`.

### MQTTClient

The AWS thread's `pc` goes through the connection (`Connect`, `Connack`,
`Subscribe`, `Suback`), the loop of `AWSMainFunction` and the steps of
`_aws_iot_mqtt_internal_yield`: read one packet, keep alive, reconnect when the
delay is over. `conn` is what the network makes of the connection: open, dead
without notice, or closed by the peer; `inbox` holds the packets under way,
with `"CUT"` where a loss broke one off. `rc` is the result the loop tests. The
program uses the client without threads, with a clean session and one QoS 0
subscription, and the model is of that use. The client's state
`WAIT_FOR_CB_RETURN` is inside the step that handles a command. A wait is
doubled up to `MaxWait` units (the code: from 1 s to 128 s). A broker that lives
answers a ping within the keep-alive interval. A command may come before the
acknowledgement of the first subscription, when there is no handler for it yet.
A message that cannot be read whole ends the loop and the process, also when
it is the connection's close that cut its body: a read error there becomes
`FAILURE`, which is not a disconnect (`ReadPart`); only between packets, in a
header or in a message that is being dropped does a close lead to a
reconnection (`ReadFails`). What is still read on the way out is left out.

The broker may grant the subscription or refuse it, and sends a `SUBACK` in
either case (`subscription`). The client copies the return code and never looks
at it, so that `Suback` is success in both. `Resubscribed` therefore says what
the client does see to: when the loop goes on with a live connection, this
connection's `SUBSCRIBE` was received and decided on. `NotDeaf`, that it was
granted, does not hold (see below), and `Recovers` assumes that the broker does
not go on refusing. Commands published with QoS 0 while the connection is down
are lost, as the protocol has it; no property says otherwise.

A `LONG` message has a remaining length of `readBufSize` (512) or more. A
length just below it, of 509 to 511, is left out: with its header it passes the
end of the buffer, the reads that discard it reach into the next packet
(`aws_iot_mqtt_client_common_internal.c:410-434`), and the result may be
success with the type of an older packet. `PingAnswered` would not hold then.

### LightBulb

The AWS thread sets the device; a write goes through `AcceptWrite`, `Operate`,
`Save`, `RaiseEvent`, `Respond`, in between which the AWS thread may act and
the process may die (`Restart`). A session is closed, ready (between requests,
inbound buffer empty), partial or writing. `Schedule` and `WriteEvent` are the
two halves of `schedule_event_notifications`. There is no clock: a session is
`recent` until `Elapse`, and a registered timer may expire at any time; one
that expires early finds the recent sessions not due and is registered again,
as in the code. `known`, `external` and `answered` are history. `None` stands
for no value.

### RunLoop and SelfPipe

`RunLoop` keeps the timers as a sequence in the list's order, the file handles
as a sequence with the loop's cursor, and the loop's place in an iteration.
While a callback runs (`ProgramRuns`) the program may register and deregister
timers and handles, change interests and stop the loop. A descriptor may be
closed and used again by a new handle. `ready` is what `select` reported per
descriptor; `reported` and `owed` are history. The 64-bit clock is `now`, up to
`MaxTime`. A new timer or handle takes the next id after those that are taken,
so that `MaxTimers` and `MaxHandles` bound how many there are at once, but not
how many are registered in a behaviour.

That matters for `DueTimerServed`. A callback that registers a timer that is
already due, with deadline 0 for instance, puts it at the head of the list
(`HAPPlatformRunLoop.c:310-328`), and `ProcessExpiredTimers` (line 350) serves
it next: callbacks that go on doing so starve the other timers, and the
handles. The property says that this is the only way: a timer that is due is
served or deregistered, or the loop is stopped, unless timers that go before it
are registered again and again while it is due (`Overtaken`).

`SelfPipe` is the pipe's other side: `ScheduleCallback` writes a frame (pointer,
size byte, context) or fails for a full pipe, `ReadPipe` reads what fits into
the buffer, `CallFrame` calls and removes the first complete frame, and a
release may leave a torn frame behind, which the next `Create` does not clear;
`torn` records that. A byte knows its call and its place, so a frame read at a
wrong offset shows. `UINT8_MAX` is the largest value of a byte and
`CharIsSigned` what a `char` is on the target. What both modules have, such as
the initial predicate, bears the pipe's name here (`PipeInit`), so that one
module of theorems takes in both halves of the file.

### IPServer

One pass of the run loop: `Select`, the due timers, the self-pipe, the
listener, the streams (`loop`). A session has a state, bytes received and bytes
to send, and an age since it was last active; a request may be complete at any
read. `Leave` is the end of a connection, `Losers` the sessions a request
closes because it removes their pairing. The event notification timer is none,
due or still to come; `ScheduleEventNotifications` may leave it to come if a
session waits that has no notification yet, and a write may have it due at once
(`MayRaiseEvent`). The stop of the engine deregisters the state transition and
the idle timer only (`Stopped`), so the event notification timer may outlive
the run loop, and in the next one fails the check at
`HAPIPAccessoryServer.c:686` (`LeftTimerAborts`). `StoppedIsClean` says so: it
is the only timer left. Half-closing and a socket that
`select` reports ready and that would block after all are left out. The
sessions' storage has one slot per element of `Session`.

### Pairing

A request is one step: the run loop writes it to the procedure and reads the
response before anything else runs. The steps that store a pairing and then
clean up the others, and the purges of a reset, are split, for a crash may come
between them (`FinishPairings`, `PurgeKey`, `PurgeAttempts`, `PurgePairing`).
Keys are the store's keys: `UpdatePairing` finds the controller's, `AddPairing`
takes the first free one. `owner` is the session that owns pair setup;
`expired` its timeout. A proof or signature is right or wrong, as the
controller chooses. `identity` and `orphans` are history: pairings made with a
key that is gone. Controllers keep to the order of messages the specification
of HomeKit prescribes where the handlers only assert it; the store's operations
succeed; `MaxTries` stands for 100. `LastAdminStays` says whether an admin may
take the last admin permission from itself by an update.

### KeyValueStore

`dir` is what the process sees of each key's two files, `disk` what a power
failure may leave of them: a set that grows with each change of the directory
and shrinks to what is seen with an fsync of it. Each system call of
`HAPPlatformFileManagerWriteFile` and `RemoveFile` is an action, with the error
it may return if it is in `Faults`, and the process may be killed (`Crash`) or
the power fail between any two of them. One call is made at a time.

## Runs

| Run | Instance | States | Checks |
|---|---|---|---|
| `acl` | 2 data, 3 nodes, 2 rights, 3 appends | 407,049 | `TypeOK`, `HeapAccounted`, `CheckSound`, `ImplementsAuthorization` |
| `channel` | 2 HomeKit threads, 2 sessions | 230,866 | `TypeOK`, `OneServer`, `AbortNeedsOverlap`, `EndsClean`, `AcceptedDisableEnds` |
| `channel_event_timer` | the same | | `EventTimerOnRecord`, violated |
| `bulb` | 2 sessions, 1 datum | 481,348 | `TypeOK`, `SubscribersInformed`, `AnsweredIsStored`, `DroppedIsRedundant`, `EventDelivered` |
| `run_loop` | 2 descriptors, 2 handles and 2 timers at once, 3 instants | 351,219 | `TypeOK`, `PassIsSound`, `OnlyReported`, `ImplementsTimerService`, `DueTimerServed` |
| `self_pipe` | bytes of up to 7, contexts of 0, 1, 6 and 7 bytes, 5 calls, 2 lives | 43,332 | `PipeTypeOK`, `ImplementsCallbackQueue`, `EveryCallbackRuns` |
| `pairing` | 3 sessions, 3 controllers, 2 keys, 2 tries | 101,780 | `TypeOK`, `OneSetup`, `AssertionsHold`, `PairingsSound`, `PairedWithThisKey`, `LostPairingCloses` |
| `pairing_abort` | 2 sessions, 2 controllers, 2 keys | | `NeverAborts`, violated |
| `ip_server` | 3 sessions, buffers of 2, idle limit 2 | 245,424 | `TypeOK`, `Accounting`, `IdleTimeHolds`, `StoppedIsClean`, `StopCompletes` |
| `mqtt` | 2 failures, 2 commands, waits up to 2 | 124,681 | `TypeOK`, `Resubscribed`, `NothingCarriedOver`, `LossNoticed`, `Recovers` |
| `mqtt_long` | no failure, 1 command | | `LongIsDropped`, violated |
| `kv` | 2 keys of one domain, 2 values | 30,120 | `TypeOK`, `ImplementsDurableStore` |

Several properties are conjunctions: `EndsClean` of `OnlyEventTimerOutlives`
and `EndsUnpaired`, `PassIsSound` of `CursorIsAlive` and `NoneSkipped`,
`AssertionsHold` of `NeverAborts`, `NoTransientWhenPaired` and `StaysSecured`,
`PairingsSound` of `AdminUnlessUnpaired` and `PairedOnce`, `Accounting` of
`CountsAgree`, `AsksWhenRoom` and `RoomToAccept`, `NothingCarriedOver` of
`PartialIsCurrent` and `PingAnswered`.

Why these bounds are enough. Three nodes give a list with a head, a middle and
an end, so that `CC_DeleteACL` takes each of its ways; two data give hits,
misses and duplicates; two rights show that a deletion leaves the other list
alone. Two HomeKit threads let one end while another starts; two sessions let
one writer raise an event for one subscriber and let a stop find one session
idle and one in a request. Two handles and two timers let a callback remove
itself, the one before and the one after, and register anew without end; the
loop's lists treat every further element alike. A size byte of up to 7 has the
same boundaries as one of up to 255, and five frames cross the end of the
buffer at every place. Three sessions give an owner of pair setup, one that
takes it over and a bystander, and a server that is full. Two keys let one
pairing be added, updated, removed and replaced beside another. Two failures of
the network let a reconnection fail or be lost while the first loss is handled.

`CHECK_DEADLOCK FALSE` is set where the process really may end (`e`, a fault,
`exit(-1)`, a failed check, such as the one a left event notification timer
fails in `IPServer`, a loop that breaks off) or a bounded supply is used up
(`SelfPipe`'s calls and lives). The other models never stop.

### Fairness

- `ACL`: none; its run checks safety only.
- `ChannelControl`: each started thread is scheduled, a command being handled
  is finished, and a stopping server sees each session end: the engine closes a
  session between two requests at once and any other through its idle limit,
  which `IPServer`'s `StopCompletes` shows. No client and no command is assumed
  to come.
- `LightBulb`: a handler that began goes on, seconds pass, and the event timer,
  which every iteration of the run loop looks at, is not passed over for ever
  (strong fairness, because it cannot run inside a handler). Nothing is assumed
  of clients: `EventDelivered` speaks of sessions that become idle again and
  again.
- `RunLoop`: the loop's thread runs, callbacks return, time passes, and a
  `select` whose timeout is over returns, unless signals interrupt it for ever
  (strong fairness). Nothing makes a descriptor ready.
- `SelfPipe`: the run loop's steps. Nobody is assumed to schedule a callback.
- `Pairing`: the cleanup that began goes on, and a socket that can take output
  is reached although other sessions' requests come in between (strong).
- `IPServer`: `select` returns when a timer is due, what it reported is served,
  and time passes (strong, since a pass of the loop takes no time). Nothing is
  assumed of controllers.
- `MQTTClient`: the thread runs, the 100 ms of a yield end although packets keep
  coming (strong), and the ping's and the delay's timers expire. `Recovers`
  assumes of the network only that it stays up from some time on, and of the
  broker that from some time on it has not refused the subscription at hand.

### What the violated runs show

- `channel_event_timer`: the delayed event notification timer survives the stop
  of its server, and aborts the next one if the channel is enabled again within
  the second.
- `pairing_abort`: an admin that is the only one and makes itself a regular
  controller loses its pairing in the cleanup, and the assertion on the result
  of the read that follows aborts the process (`HAPSession.c:512`).
- `mqtt_long`: a message longer than the read buffer is not dropped, as
  `AWSMain.h:37` says, but ends the AWS thread's loop and with it the process.

### Disagreements without a run of their own

The modules define these properties, which the code does not have. Naming one
as an `INVARIANT` or `PROPERTY` of its module's configuration shows it.

| Property | What happens |
|---|---|
| `ACL!DeleteNeverFaults` | `CC_DeleteACL` dereferences the head of an empty list (`CGuard.c:207`) |
| `ACL!CheckLinearized` | a check reads a node while it is freed and answers what was true at no instant of it (`CGuard.c:187`) |
| `ChannelControl!DisableStops` | a disable that comes before the HomeKit thread has opened its pipe is lost (`CGuard.c:57`); a second thread clears the reset request of the first (`CGuard.c:40`) |
| `ChannelControl!RunLoopCreateFindsNoPipe` | `H`, `h`, `H` in quick succession aborts the process at `HAPPlatformRunLoop.c:478` |
| `LightBulb!SuccessfulWriteHolds` | a write equal to the app's stale copy is answered with success and dropped (`App.c:173`) |
| `MQTTClient!NotDeaf` | a `SUBACK` that refuses the subscription (return code 0x80) is taken for success, at first and after a reconnection: the code is copied (`aws_iot_mqtt_client_subscribe.c:161-169`) and never looked at (lines 249-273 and 388-397), and the loop goes on connected and without commands, where the comment of `_aws_iot_mqtt_internal_subscribe` promises "An IoT Error Type defining successful/failed subscription" |
| `RunLoop!SameDeadlineInOrder` | two timers registered with deadline 0 fire in reverse order: each goes to the head of the list (`HAPPlatformRunLoop.c:310`), where `HAPPlatformTimer.h:38` promises the order of registration |
| `SelfPipe!FramesParsed` with `CharIsSigned = TRUE` | a context of more than 127 bytes has its size read as a negative number (`HAPPlatformRunLoop.c:442`) |
| `KeyValueStore!SetsAgain` | a temporary file left by a killed process or a failed write has mode 0400 (`HAPPlatformFileManager.c:148`), the failed write's `remove` is relative to the wrong directory (line 187), and a process that is not root cannot write this key again |
| `KeyValueStore!ImplementsDurableStore` with `"sync"` or `"syncRemoved"` in `Faults` | an fsync that fails is logged and the call reports success (lines 205 and 409), although `HAPPlatformKeyValueStore+Init.h:26` says that writes and deletions are persisted with it |

Read off the models as well: data added twice stays listed after one deletion;
command `e` ends the HomeKit channel with the process (`MainReturns`); a write
that is refused is answered with `kHAPError_None` (`DropWrite`,
`App.c:181-186`); `n` and `f` raise no event, which is why `known` is forgotten
in `AwsOperate`; a removal that crashed between the unlink and the fsync and is
asked for again finds no file and reports success without an fsync, so that
`DurableStore` promises finality only for a removal that found its key;
and `StopCompletes` needs `SentAhead` excluded, since a session whose inbound
buffer is never empty is never between two requests.

## Proofs

The theorems are for every value of the constants: any data, nodes, threads,
keys, sessions, controllers, numbers of tries and waits. They assume the
`...Assumption` of each module (constants are of their kind, finite where they
are counted, and `None` is no value), and what is named below, and nothing of
fairness.

- **`ACLProofs`**. `IndInv` is inductive: ages tell live nodes apart
  (`AgeInv`), each linked node leads to the next older node of its list
  (`ChainInv`, `HeadInv`), the AWS thread's pointers stay on the list it works
  on and no newer node matches (`AwsInv`), and a check stands on the write list
  or on the node just unlinked from it, with an entry that was there all along
  still ahead of it (`CheckInv`). Reachability along `next` is not used: `owner`
  and `born` say the same without recursion, which is why the history variables
  exist: `ListedAreOwned` shows that what a list reaches (`Listed`, the least
  set with its head that is closed under `next`) is what was linked into it,
  since the newest node that it would not reach is what follows the one before
  it. With `OwnedInv`, that every node malloc has handed out is linked or in
  hand, this gives `NothingLeaks` (`HeapAccounted`) and `ListsAreGrants`:
  `AppendPublish` is a `Grant`, `DeleteHead` and `DeleteUnlink` are a `Revoke`,
  and every other step is a stutter. Theorems `Typing`, `Invariance`,
  `Soundness` (`CheckSound`), `NothingLeaks`, `ListsAreGrants`.
- **`ChannelControlProofs`**. `EngineInv` (who is between install and uninstall
  finds the engine installed, and is the only one) is inductive by itself,
  since install checks and only an owner uninstalls; `OneServer` follows
  (`Exclusion`) although two threads may pass the run loop's own check.
  `SingleInv` says, call by call, how a thread that is alone finds and leaves
  the globals; it gives `NoAbortAlone` (`AbortNeedsOverlap`): every abort but
  the stale timer's needs two HomeKit threads alive at once. `CleanEnd`
  (`EndsClean`, with the event notification timer as its exception) holds for
  any overlap. It is not inductive: `CleanInv` adds what the owner of the
  engine keeps until the release, that an idle engine has neither session nor
  listener, that only an idle engine's loop is stopped and after the reset, and
  that the due timers ran before the handles. `Typing` is `TypeOK`.

- **`KeyValueStoreProofs`**. `Refinement`: under `ReportsFaults`, which says
  that the two faults the code ignores do not occur, `KeyValueStore` implements
  `DurableStore`. The mapping takes a key's value to what its file holds, as
  the process sees it, and the values that are still kept to what a power
  failure may leave of it. Each system call is a
  stutter, `TakeEffect` (the rename or unlink) or `Settle` (the fsync after it).
  That needs `IndInv`: `WholeInv`, a value file is never partly written on any
  disk a power failure may leave, and `CallInv`, which says call by call what
  the temporary file holds and what is already settled. `Typing` needs no
  assumption on faults.
- **`MQTTClientProofs`**. `Resubscription` and `FreshConnection`
  (`Resubscribed`, `NothingCarriedOver`) follow from `IndInv`, which adds to
  them how the client's state, the connection and the place in the loop go
  together (`ConnectionInv`), and that the broker has decided on a `SUBSCRIBE`
  in each state of the loop that may be entered only through a resubscription
  (`SubscriptionInv`). `Resubscribed` alone is not inductive: it speaks of the
  top of the loop, while the session is lost and subscribed anew inside it.
- **`PairingProofs`**. `IndInv` holds who may be in pair setup and with which
  attempts (`SetupInv`), that an update under way leaves an admin and its own
  controller paired (`UpdateInv`), that sessions, admins and orphans have keys
  of pairings (`KeyInv`), and the properties themselves, which need one
  another: an admin remains because the cleanup runs when none does, the
  cleanup leaves no session secured by what it removes because the answer
  closes those, and a session that is as secure as it was never fails the
  assertion of a request. It gives `SetupIsOwned`, `StoreIsSound` and
  `KeyIsTheirs`; `Assertions` assumes `LastAdminStays`, without which
  `pairing_abort` is the counterexample.

- **`IPServerProofs`**. `IndInv` adds `EngineInv` to the properties: how the
  states of server, engine and listener go together, that an idle engine under a
  server that is not has its callback timer pending, that a closed session has
  garbage collection pending, and that none is pending when the listener is
  reached, which is why `RoomToAccept` follows. `IdleTimeHolds` needs that a
  stop which was asked for and not yet carried out has its timer pending.
  Theorems `Typing`, `Accounts` (`Accounting`), `IdleLimit` (`IdleTimeHolds`)
  and `CleanStop` (`StoppedIsClean`: no timer but the event notification timer
  is left, and that only with its second to come), for any number of sessions.

- **`LightBulbProofs`**. `IndInv` adds to the properties that nobody is
  connected to a server that is off (`ChannelInv`), which of the copies of the
  state agree at each place of a write (`WriteInv`), and that only subscribers
  know something and a writer knows what it wrote (`KnownInv`). Without
  `WriteInv` a save could store something else than what is then answered;
  without `KnownInv` a new subscriber could hold old knowledge. Theorems
  `Typing`, `NoChangeLost` (`SubscribersInformed`), `AnswersAreStored`
  (`AnsweredIsStored`) and the action property `DropsAreRedundant`
  (`DroppedIsRedundant`), for any number of sessions and any data; the only
  assumption is that `None` is no value.
- **`RunLoopProofs`**. `IndInv` says of the lists that the timers are sorted,
  with an id each, which tells the order of registration of those in the list
  (`TimerListInv`), and that handles are in the order of their
  ids, one for each descriptor (`HandleListInv`): so the timer at the head is
  the one the service may serve, and a handle is ahead of the cursor exactly if
  its id is. `ServingInv` is about the time read once for a pass over the
  timers. `PassInv` carries a pass over the handles through whatever callbacks
  do to the list: a handle that is owed a call is ahead of the cursor, and one
  that takes part in the pass is ready only for what was reported of it.
  `Removed` and `Inserted` say what is left of a list without one of its places
  and what it is with another. Theorems `Typing`, `PassesAreSound`
  (`PassIsSound`), `CallsAreReported` (`OnlyReported`) and `TimersAreServed`:
  `RunLoop` implements `TimerService` with the list's timers as the set of
  those pending, each registration, removal and call being the service's and
  every other step a stutter.

  The last part is about `SelfPipe`, the other half of the same file.
  `PipeTyping` (`PipeTypeOK`) needs no more than `SelfPipeAssumption`: the
  buffer is never overrun and no context is longer than what the buffer holds,
  whatever the size byte says. `PipeInv` says that, until a release tears a
  frame, what the buffer holds behind the context in use and then the pipe are
  the frames of `accepted`, one behind the other, and that a loop that waits
  has room left to read into. Where the frames end is a function of the
  queue's places (`AreFrames`), so that no recursion over the queue is needed:
  a callback appends a place (`FramesAppend`), a call drops the first
  (`FramesFirst`), and a read, which cuts frames anywhere, leaves the bytes as
  they are (`ReadMoves`). `PipeInv` holds if the sizes are read as they were
  written (`SizesHold`). `SizesThatHold` proves when that is so: a `char` is
  unsigned, or every size is below half the values of a byte, which is the
  boundary of the `CharIsSigned` counterexample above. `FramesAreParsed` is
  `FramesParsed`, and `CallsInOrder` is that `SelfPipe` implements
  `CallbackQueue`: an accepted callback is a `Schedule`, `CallFrame` a `Call` of
  the head of the queue with its own context, and a read a stutter.

Every safety property a passing run checks is proved, under the assumptions
named above. Model-checked only is liveness (`AcceptedDisableEnds`,
`EventDelivered`, `DueTimerServed`, `EveryCallbackRuns`, `LostPairingCloses`,
`StopCompletes`, `LossNoticed`, `Recovers`), which with ENABLED is outside the
provers.

## What is not modelled

- The payloads' text, base64, the number of rights against the list of rights,
  and the size of the array they go to: a command carries a sequence of rights.
- In `ChannelControl`: the return of `HAPAccessoryServerStart` on a firmware
  downgrade, more callbacks in the pipe than one read takes, data races finer
  than a call, and more than two threads in a run (the theorems are for any
  number).
- The setup code: written in place by `PrepareNewSetupCode` (`CGuard.c:114`),
  without a temporary file, but at every enable and before anything reads it.
- In `LightBulb`: several HomeKit threads and the stale timer (that is
  `ChannelControl`), full notification records, and output buffers too small
  for an event. Timed writes and prepare.
- In `Pairing`: `clearPairings`, which nothing sets, software authentication,
  failures of the store.
- In `MQTTClient`: remaining lengths just below the read buffer (see there),
  and publishing, unsubscribing, QoS 1, the shadow and jobs
  clients, TLS; the program does not use them or they are data here.
- Cryptography, TLV, HTTP and JSON, service discovery, BLE (the build has the
  IP transport only), configuration numbers, MFi. Most of the repository's
  lines are vendored: the TLS library, the AWS SDK with its samples and tests,
  the ADK's BLE transport, its tests and applications for other platforms. The
  program neither calls most of them nor keeps state there that its own
  behaviour depends on, so the lines the modules stand for are a small share.

## Plan

The modules of the plan are written and their safety properties proved. What
could be added: publishing and QoS 1 of the MQTT client, should the program
come to use them; the setup code with its crashes; and the data races of the
access control list at the width of a word instead of a field.
