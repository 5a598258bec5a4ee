----------------------------- MODULE PoolOrder ------------------------------
(***************************************************************************)
(* MemoryPool together with the GPU it allocates for.  A block goes back   *)
(* to its bucket while kernels that use it are still queued; the event the *)
(* deleter records and the cudaStreamWaitEvent that the next allocate puts *)
(* on its own stream are all that keeps the next owner's kernels off it.   *)
(*                                                                         *)
(* A stream is a queue the device works through in order, independently of *)
(* every other: the streams of this library are non-blocking, also towards *)
(* the NULL stream, on which Tensor::to_device runs its cudaMemcpy.        *)
(***************************************************************************)
EXTENDS MemoryPool

CONSTANTS
    NullStream,     \* the legacy default stream
    Foreign,        \* streams a buffer may be used on beside its own
    EventsFail,     \* whether a deleter's event calls may fail
    MaxOps          \* bound: operations put on one stream

ASSUME QueueAssumption == /\ NullStream \notin Streams
                          /\ Foreign \subseteq Streams \cup {NullStream}
                          /\ EventsFail \in BOOLEAN
                          /\ MaxOps \in Nat

\* An event is the point of its stream where it was recorded.
ASSUME EventAssumption == Events = [on : Streams \cup {NullStream}, upto : 0..MaxOps]

VARIABLES
    issued,     \* operations put on each stream so far
    done,       \* operations each stream has completed
    uses,       \* pending kernels and copies, with the block they touch
    waits,      \* pending cudaStreamWaitEvent
    gen         \* history: how often each block has been handed out

gpuVars == <<issued, done, uses, waits, gen>>
orderVars == <<vars, gpuVars>>

Queues == Streams \cup {NullStream}

EventAt(s, n) == [on |-> s, upto |-> n]

OrderTypeOK ==
    /\ TypeOK
    /\ issued \in [Queues -> 0..MaxOps]
    /\ done \in [Queues -> 0..MaxOps]
    /\ uses \subseteq [s : Queues, pos : 1..MaxOps, block : Blocks, gen : Nat]
    /\ waits \subseteq [s : Queues, pos : 1..MaxOps, event : Events]
    /\ gen \in [Blocks -> Nat]

OrderInit ==
    /\ Init
    /\ issued = [s \in Queues |-> 0]
    /\ done = [s \in Queues |-> 0]
    /\ uses = {}
    /\ waits = {}
    /\ gen = [b \in Blocks |-> 0]

-----------------------------------------------------------------------------
Enqueued(s) == [issued EXCEPT ![s] = @ + 1]

\* cudaStreamWaitEvent(stream, block.event), when the block has an event.
WaitFor(s, e) ==
    IF e = NoEvent
    THEN UNCHANGED <<issued, waits>>
    ELSE /\ issued[s] < MaxOps
         /\ issued' = Enqueued(s)
         /\ waits' = waits \cup {[s |-> s, pos |-> issued[s] + 1, event |-> e]}

AllocateReuseOrdered(t, i, c, s) ==
    /\ AllocateReuse(t, i, c, s)
    /\ WaitFor(s, Back(c).event)
    /\ gen' = [gen EXCEPT ![Back(c).ptr] = @ + 1]
    /\ UNCHANGED <<done, uses>>

AllocateFreshUnordered(t, i, c, s, b) ==
    /\ AllocateFresh(t, i, c, s, b)
    /\ gen' = [gen EXCEPT ![b] = @ + 1]
    /\ UNCHANGED <<issued, done, uses, waits>>

\* A thread with a handle launches a kernel on the buffer's block, or
\* copies to or from it.
UsableStreams(i) == {buf[i].stream} \cup Foreign
Use(t, i, s) ==
    /\ Idle(t) /\ t \in buf[i].refs
    /\ s \in UsableStreams(i) /\ issued[s] < MaxOps
    /\ issued' = Enqueued(s)
    /\ uses' = uses \cup {[s |-> s, pos |-> issued[s] + 1,
                           block |-> buf[i].ptr, gen |-> gen[buf[i].ptr]]}
    /\ UNCHANGED <<vars, done, waits, gen>>

\* Mutants of RecordedEvents: the event is recorded when the buffer is made;
\* it also covers the next operation put on the stream.
RecordedTooEarly(i) == {EventAt(buf[i].stream, 0)}
RecordedTooLate(i) == {EventAt(buf[i].stream, issued[buf[i].stream] + 1)}

\* What the deleter records: the stream as it is now.  A failed
\* cudaEventRecord leaves an event nobody has to wait for, like none at all.
RecordedEvents(i) ==
    {EventAt(buf[i].stream, issued[buf[i].stream])} \cup (IF EventsFail THEN {NoEvent} ELSE {})

DeleterRecordOrdered(t, i) ==
    /\ \E e \in RecordedEvents(i) : DeleterRecord(t, i, e)
    /\ UNCHANGED gpuVars

-----------------------------------------------------------------------------
\* The device completes the next operation of a stream; a wait is complete
\* when the event's stream has come to the point of the record.
Next1(s) == done[s] + 1
Exec(s) ==
    /\ done[s] < issued[s]
    /\ \A w \in waits : w.s = s /\ w.pos = Next1(s) => done[w.event.on] >= w.event.upto
    /\ done' = [done EXCEPT ![s] = Next1(s)]
    /\ uses' = {u \in uses : ~(u.s = s /\ u.pos = Next1(s))}
    /\ waits' = {w \in waits : ~(w.s = s /\ w.pos = Next1(s))}
    /\ UNCHANGED <<vars, issued, gen>>

\* The host steps that put nothing on the device.
HostOnly(t) ==
    /\ \/ Prealloc(t)
       \/ \E c \in Classes : \/ AllocateWaitFails(t, c)
                            \/ AllocateReuseThrows(t, c)
                            \/ \E b \in Blocks : AllocateFreshThrows(t, c, b)
       \/ Handle(t)
       \/ \E i \in Buffers : \/ DeleterReturn(t, i)
                             \/ DeleterFails(t, i)
                             \/ DeleterCount(t, i)
                             \/ DeleterRelease(t, i)
       \/ DestroyPool(t)
    /\ UNCHANGED gpuVars

OrderNext ==
    \/ \E t \in Threads :
          \/ HostOnly(t)
          \/ \E i \in Buffers :
                \/ DeleterRecordOrdered(t, i)
                \/ \E s \in Queues : Use(t, i, s)
                \/ \E c \in Classes, s \in Streams :
                      \/ AllocateReuseOrdered(t, i, c, s)
                      \/ \E b \in Blocks : AllocateFreshUnordered(t, i, c, s, b)
    \/ \E s \in Queues : Exec(s)
    \/ Finished /\ UNCHANGED gpuVars

OrderSpec == OrderInit /\ [][OrderNext]_orderVars

\* The device makes progress on every stream that is not waiting.
OrderFairSpec == OrderSpec /\ \A s \in Queues : WF_orderVars(Exec(s))

-----------------------------------------------------------------------------
(* Properties *)

\* An operation that the device may start has the block to itself as far as
\* earlier owners go: all that was queued on the block before it was handed
\* out has completed, on whatever stream.
ReuseOrdered ==
    \A u \in uses : u.pos = Next1(u.s) =>
        \A v \in uses : v.block = u.block => v.gen >= u.gen

\* The waits that recycling puts on streams never wait for each other: what
\* has been put on a stream is completed.
QueuesDrain ==
    \A s \in Queues : \A n \in 1..MaxOps : issued[s] >= n ~> done[s] >= n
=============================================================================
