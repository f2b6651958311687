------------------------------ MODULE SelfPipe ------------------------------
(***************************************************************************)
(* The self-pipe of HAPPlatformRunLoop.c. Any thread or signal handler     *)
(* writes a callback to the pipe as one frame: the callback's pointer, the *)
(* size of its context in one byte, and the context. The run loop reads    *)
(* what fits into a buffer of the largest frame, calls the frames that are *)
(* complete and keeps the rest for the next read.                          *)
(*                                                                         *)
(* A byte of a frame knows which call it belongs to and which place it has *)
(* there. Pointers are one byte long instead of eight, and a byte has the   *)
(* values up to UINT8_MAX; a char is signed or not, as the target has it,  *)
(* and the buffer is one of char. What RunLoop has a name for as well bears *)
(* the pipe's here: the two modules are the two halves of one file.        *)
(***************************************************************************)
EXTENDS Integers, Sequences, SequencesExt

CONSTANTS
    UINT8_MAX,     \* the largest value of a byte
    CharIsSigned,  \* whether the target's char is signed
    Sizes,         \* the sizes of contexts in use
    NoCallback,    \* no callback runs
    Capacity,      \* bytes the pipe holds
    MaxCalls,      \* bound: callbacks scheduled in a behaviour
    MaxLives       \* bound: times the run loop is created

ASSUME SelfPipeAssumption ==
    /\ UINT8_MAX \in Nat \ {0}
    /\ CharIsSigned \in BOOLEAN
    /\ Sizes \subseteq 0 .. UINT8_MAX
    /\ Capacity \in Nat
    /\ MaxCalls \in Nat
    /\ MaxLives \in Nat

VARIABLES
    lives,         \* how often HAPPlatformRunLoopCreate was called
    open,          \* selfPipeFileDescriptor0 and 1 are a pipe
    pipe,          \* the bytes in it
    bytes,         \* runLoop.selfPipeBytes, up to numSelfPipeBytes
    pipePc,        \* where HandleSelfPipeFileHandleCallback is
    contextSize,   \* its local variable, a size_t
    current,       \* the call it makes
    numCalls,      \* the callbacks scheduled so far
    accepted,      \* history: those accepted, and neither called nor dropped
    torn           \* history: a part of a frame survived its pipe

pipeVars == <<lives, open, pipe, bytes, pipePc, contextSize, current, numCalls,
              accepted, torn>>

ByteMax == UINT8_MAX + 1        \* the values of a byte
SizeMax == 4 * ByteMax          \* the values of a size_t, scaled

HeaderSize == 2                 \* sizeof(HAPPlatformRunLoopCallback) + 1

BufferSize == HeaderSize + UINT8_MAX

Context(i, n) ==
    [k \in 1 .. n |-> [call |-> i, place |-> "context", index |-> k]]

Frame(i, n) ==
    <<[call |-> i, place |-> "pointer"],
      [call |-> i, place |-> "size", size |-> n]>> \o Context(i, n)

PipeInit ==
    /\ lives = 0
    /\ open = FALSE
    /\ pipe = <<>>
    /\ bytes = <<>>
    /\ pipePc = "idle"
    /\ contextSize = 0
    /\ current = NoCallback
    /\ numCalls = 0
    /\ accepted = <<>>
    /\ torn = FALSE

-----------------------------------------------------------------------------

(* HAPPlatformRunLoopCreate: the pipe and its file handle. The buffer keeps *)
(* what it holds.                                                          *)
Create ==
    /\ ~open
    /\ lives < MaxLives
    /\ lives' = lives + 1
    /\ open' = TRUE
    /\ UNCHANGED <<pipe, bytes, pipePc, contextSize, current, numCalls,
                   accepted, torn>>

(* HAPPlatformRunLoopRelease, when the run loop has ended. *)
Release ==
    /\ open
    /\ pipePc = "idle"
    /\ open' = FALSE
    /\ pipe' = <<>>
    /\ accepted' = <<>>
    /\ torn' = (torn \/ bytes # <<>>)
    /\ UNCHANGED <<lives, bytes, pipePc, contextSize, current, numCalls>>

(* The write is atomic: the frame is no longer than PIPE_BUF. *)
WriteFitsAlways(f) == TRUE    \* a mutation

WriteFits(f) == Len(pipe) + Len(f) <= Capacity

(* HAPPlatformRunLoopScheduleCallback, at any time and on any thread. When  *)
(* the pipe is full or closed the write fails and the caller is told.      *)
ScheduleCallback(n) ==
    /\ numCalls < MaxCalls
    /\ numCalls' = numCalls + 1
    /\ LET f == Frame(numCalls + 1, n)
       IN  IF open /\ WriteFits(f)
           THEN /\ pipe' = pipe \o f
                /\ accepted' = Append(accepted,
                                     [id |-> numCalls + 1,
                                      context |-> Context(numCalls + 1, n)])
           ELSE UNCHANGED <<pipe, accepted>>
    /\ UNCHANGED <<lives, open, bytes, pipePc, contextSize, current, torn>>

-----------------------------------------------------------------------------
(* HandleSelfPipeFileHandleCallback, when the pipe is ready for reading.    *)

(* The read of what fits, after the assertion that something does. *)
ReadPipe ==
    /\ open
    /\ pipePc = "idle"
    /\ pipe # <<>>
    /\ IF Len(bytes) < BufferSize
       THEN LET room == BufferSize - Len(bytes)
                n == IF Len(pipe) <= room THEN Len(pipe) ELSE room
            IN  /\ bytes' = bytes \o SubSeq(pipe, 1, n)
                /\ pipe' = SubSeq(pipe, n + 1, Len(pipe))
                /\ pipePc' = "parse"
       ELSE pipePc' = "aborted" /\ UNCHANGED <<bytes, pipe>>
    /\ UNCHANGED <<lives, open, contextSize, current, numCalls, accepted,
                   torn>>

(* The values the size byte may have, and a char's value as a size_t.      *)
SizesOf(b) == IF b.place = "size" THEN {b.size} ELSE 0 .. UINT8_MAX

ToSizeT(v) ==
    IF CharIsSigned /\ 2 * v >= ByteMax THEN SizeMax + v - ByteMax
                                        ELSE v

(* Mutations: the header is not counted, or the last byte is waited for in  *)
(* vain.                                                                   *)
CompleteNoHeader(n) == Len(bytes) >= n

CompleteMore(n) == Len(bytes) > (HeaderSize + n) % SizeMax

Complete(n) == Len(bytes) >= (HeaderSize + n) % SizeMax

NotComplete ==
    /\ pipePc = "parse"
    /\ Len(bytes) >= HeaderSize =>
          \E v \in SizesOf(bytes[HeaderSize]) : ~Complete(ToSizeT(v))
    /\ pipePc' = "idle"
    /\ UNCHANGED <<lives, open, pipe, bytes, contextSize, current, numCalls,
                   accepted, torn>>

(* The callback of the first frame is called with the context moved to the  *)
(* start of the buffer. A pointer that is none, or a context that is not   *)
(* in the buffer, is undefined behaviour.                                  *)
CallFrame ==
    /\ pipePc = "parse"
    /\ Len(bytes) >= HeaderSize
    /\ \E v \in SizesOf(bytes[HeaderSize]) :
          LET n == ToSizeT(v)
              rest == SubSeq(bytes, HeaderSize + 1, Len(bytes))
              first == bytes[1]
          IN  /\ Complete(n)
              /\ bytes' = rest
              /\ contextSize' = n
              /\ IF first.place = "pointer" /\ n <= Len(rest)
                 THEN /\ pipePc' = "callback"
                      /\ current' = [id |-> first.call,
                                     context |-> SubSeq(rest, 1, n)]
                 ELSE pipePc' = "undefined" /\ current' = NoCallback
    /\ accepted' = IF accepted = <<>> THEN accepted ELSE Tail(accepted)
    /\ UNCHANGED <<lives, open, pipe, numCalls, torn>>

(* The callback returns, and its context is taken out of the buffer. *)
CallReturns ==
    /\ pipePc = "callback"
    /\ bytes' = SubSeq(bytes, contextSize + 1, Len(bytes))
    /\ contextSize' = 0
    /\ current' = NoCallback
    /\ pipePc' = "parse"
    /\ UNCHANGED <<lives, open, pipe, numCalls, accepted, torn>>

-----------------------------------------------------------------------------

RunLoopStep == ReadPipe \/ NotComplete \/ CallFrame \/ CallReturns

PipeNext ==
    \/ Create
    \/ Release
    \/ \E n \in Sizes : ScheduleCallback(n)
    \/ RunLoopStep

PipeSpec == PipeInit /\ [][PipeNext]_pipeVars

(* The run loop is a thread that runs, and callbacks return. *)
FairPipeSpec == PipeSpec /\ WF_pipeVars(RunLoopStep)

-----------------------------------------------------------------------------

Byte ==
    [call : 1 .. MaxCalls, place : {"pointer"}]
        \union [call : 1 .. MaxCalls, place : {"size"}, size : Sizes]
        \union [call : 1 .. MaxCalls, place : {"context"},
                index : 1 .. UINT8_MAX]

Callback == [id : 1 .. MaxCalls, context : Seq(Byte)]

(* Every variable has its type, and neither the pipe nor the buffer holds   *)
(* more than it can.                                                       *)
PipeTypeOK ==
    /\ lives \in 0 .. MaxLives
    /\ open \in BOOLEAN
    /\ pipe \in Seq(Byte) /\ Len(pipe) <= Capacity
    /\ bytes \in Seq(Byte) /\ Len(bytes) <= BufferSize
    /\ pipePc \in {"idle", "parse", "callback", "aborted", "undefined"}
    /\ contextSize \in 0 .. SizeMax - 1
    /\ pipePc = "callback" => contextSize <= Len(bytes)
    /\ current \in Callback \union {NoCallback}
    /\ numCalls \in 0 .. MaxCalls
    /\ accepted \in Seq(Callback) /\ Len(accepted) <= numCalls
    /\ torn \in BOOLEAN

(* HAPPlatformRunLoop.c: the self-pipe's buffer takes contexts of up to     *)
(* UINT8_MAX bytes. Whatever their sizes, and wherever a read cuts the     *)
(* frames, the loop neither aborts nor leaves the buffer.                  *)
FramesParsed == ~torn => pipePc \notin {"aborted", "undefined"}

(* The run loop makes the calls that were accepted, in order, each one once *)
(* and with its own context, until a release tears a frame.                *)
Queue == INSTANCE CallbackQueue WITH
             queue <- IF torn THEN <<>> ELSE accepted,
             running <- IF torn THEN NoCallback ELSE current,
             NoCall <- NoCallback

ImplementsCallbackQueue == Queue!Spec

-----------------------------------------------------------------------------
(* The inductive invariant behind FramesParsed and ImplementsCallbackQueue *)

\* The size byte is read as it was written.
SizesHold == \A n \in Sizes : ToSizeT(n) = n

\* What the buffer holds besides the context of the call that runs.
Rest == IF pipePc = "callback" THEN SubSeq(bytes, contextSize + 1, Len(bytes))
                               ELSE bytes

\* The bytes are the frames of the calls, one behind the other: end[i] is
\* where the i-th of them ends.
AreFrames(stream, calls) ==
    \E end \in [0 .. Len(calls) -> Nat] :
        /\ end[0] = 0
        /\ end[Len(calls)] = Len(stream)
        /\ \A i, j \in 0 .. Len(calls) : i <= j => end[i] <= end[j]
        /\ \A i \in 1 .. Len(calls) :
              LET f == Frame(calls[i].id, Len(calls[i].context))
              IN  /\ end[i] = end[i - 1] + Len(f)
                  /\ \A k \in 1 .. Len(f) : stream[end[i - 1] + k] = f[k]

\* Each call was accepted with the context its frame carries.
AreCalls(calls) ==
    \A i \in 1 .. Len(calls) :
        \E n \in Sizes : calls[i].context = Context(calls[i].id, n)

(* As long as no release tore a frame, buffer and pipe hold the frames of   *)
(* the calls that were accepted, none of which waits complete while the    *)
(* loop is elsewhere.                                                      *)
PipeInv ==
    /\ pipePc # "callback" => current = NoCallback
    /\ pipePc # "idle" => open
    /\ ~torn =>
          /\ AreCalls(accepted)
          /\ AreFrames(Rest \o pipe, accepted)
          /\ ~open => bytes = <<>> /\ pipe = <<>>
          /\ pipePc = "idle" => Len(bytes) < BufferSize
          /\ FramesParsed

(* A callback that was accepted is called, or dropped by a release. *)
EveryCallbackRuns ==
    \A i \in 1 .. MaxCalls :
        LET waits == \E a \in ToSet(accepted) : a.id = i
        IN  waits /\ ~torn ~> ~waits \/ torn
=============================================================================
