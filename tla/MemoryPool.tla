----------------------------- MODULE MemoryPool -----------------------------
(***************************************************************************)
(* yadrakova::core::MemoryPool (src/core/memory.cpp): the size-class free  *)
(* lists and counters of MemoryPool::Impl, the shared_ptr<DeviceBuffer>    *)
(* handles it gives out, the deleter that runs when the last handle goes,  *)
(* and the shared_ptr that keeps Impl alive.                               *)
(*                                                                         *)
(* Sections under Impl::mtx are single steps, since nothing they touch is  *)
(* read outside the mutex; preallocate, which holds it over a loop of      *)
(* cudaMalloc calls, takes it and returns it.  The deleter is the four     *)
(* steps between which other threads run.  A call whose exception leaves   *)
(* every variable as it was (cudaMalloc failing in allocate) is a          *)
(* stuttering step and has no action.                                      *)
(***************************************************************************)
EXTENDS Integers, Sequences, FiniteSets, FiniteSetsExt

CONSTANTS
    Threads,        \* host threads
    Streams,        \* cudaStream_t handles passed to allocate
    Buffers,        \* DeviceBuffer objects, with their shared_ptr control block
    Blocks,         \* addresses cudaMalloc may return: bounds device memory
    Classes,        \* size classes (see SizeClass for the rounding)
    ClassBytes,     \* bytes of each class
    Events,         \* cudaEvent_t values a deleter may record
    NoEvent,        \* nullptr: preallocated block, or cudaEventCreate failed
    NoThread,
    NoBlock,
    NoClass,
    MaxFill,        \* bound: largest count given to preallocate
    MaxWarmups      \* bound: calls of preallocate in a behaviour

ASSUME ClassAssumption == ClassBytes \in [Classes -> Nat \ {0}]
ASSUME NullAssumption == /\ NoEvent \notin Events
                         /\ NoThread \notin Threads
                         /\ NoBlock \notin Blocks
                         /\ NoClass \notin Classes
ASSUME BoundAssumption == MaxFill \in Nat /\ MaxWarmups \in Nat
ASSUME FiniteBuffers == IsFiniteSet(Buffers)
ASSUME FiniteBlocks == IsFiniteSet(Blocks)

VARIABLES
    free_blocks,            \* size class -> vector<PooledBlock>
    total_reserved,
    total_in_use,
    outstanding_buffers,    \* std::atomic<long>
    mtx,                    \* thread inside a multi-step critical section
    filling,                \* preallocate's class and remaining count
    warmups,                \* calls of preallocate so far
    pool_alive,             \* the MemoryPool object exists
    impl_refs,              \* use count of the shared_ptr<Impl>
    heap,                   \* block -> class it was cudaMalloc'ed for
    adrift,                 \* history: blocks an exception left counted as in use
    buf                     \* buffer -> its handle and deleter state

implVars == <<free_blocks, total_reserved, total_in_use, outstanding_buffers>>
fillVars == <<mtx, filling, warmups>>
lifeVars == <<pool_alive, impl_refs>>
vars == <<implVars, fillVars, lifeVars, heap, adrift, buf>>

PooledBlock == [ptr : Blocks, event : Events \cup {NoEvent}]

(***************************************************************************)
(* "none": no control block.  "live": some thread holds a shared_ptr.      *)
(* Then the points of the deleter: about to record the event, to push the  *)
(* block, to decrement outstanding_buffers, to release impl_keepalive.     *)
(***************************************************************************)
Phases == {"none", "live", "record", "return", "count", "release"}

Buffer == [phase      : Phases,
           ptr        : Blocks \cup {NoBlock},
           size_class : Classes,
           stream     : Streams,
           refs       : SUBSET Threads,
           deleter    : Threads \cup {NoThread},
           event      : Events \cup {NoEvent}]

TypeOK ==
    /\ free_blocks \in [Classes -> Seq(PooledBlock)]
    /\ total_reserved \in Nat
    /\ total_in_use \in Int
    /\ outstanding_buffers \in Int
    /\ mtx \in Threads \cup {NoThread}
    /\ filling \in [class : Classes, left : Nat]
    /\ warmups \in Nat
    /\ pool_alive \in BOOLEAN
    /\ impl_refs \in Int
    /\ heap \in [Blocks -> Classes \cup {NoClass}]
    /\ adrift \subseteq Blocks
    /\ buf \in [Buffers -> Buffer]

Init ==
    /\ free_blocks = [c \in Classes |-> <<>>]
    /\ total_reserved = 0
    /\ total_in_use = 0
    /\ outstanding_buffers = 0
    /\ mtx = NoThread
    /\ \E c \in Classes : filling = [class |-> c, left |-> 0]
    /\ warmups = 0
    /\ pool_alive = TRUE
    /\ impl_refs = 1
    /\ heap = [b \in Blocks |-> NoClass]
    /\ adrift = {}
    /\ \E c \in Classes, s \in Streams :
          buf = [i \in Buffers |->
                    [phase |-> "none", ptr |-> NoBlock, size_class |-> c,
                     stream |-> s, refs |-> {}, deleter |-> NoThread,
                     event |-> NoEvent]]

-----------------------------------------------------------------------------
\* A thread inside a deleter or inside preallocate does nothing else.
Idle(t) == mtx # t /\ \A i \in Buffers : buf[i].deleter # t

\* The definitions whose comment begins with "Mutant" are bugs this code
\* could have had; the runs show that the properties below tell them apart.

\* Impl::raw_alloc succeeding with address b.
raw_alloc(b, c) ==
    /\ heap[b] = NoClass
    /\ heap' = [heap EXCEPT ![b] = c]
    /\ total_reserved' = total_reserved + ClassBytes[c]

\* Mutants of Popped: the front is erased, not the back; nothing is.
PopsFront(c) == [free_blocks EXCEPT ![c] = Tail(@)]
PopsNothing(c) == free_blocks

\* The vector operations of a bucket: push_back, back, pop_back.
Pushed(c, block) == [free_blocks EXCEPT ![c] = Append(@, block)]
Back(c) == free_blocks[c][Len(free_blocks[c])]
Popped(c) == [free_blocks EXCEPT ![c] = SubSeq(@, 1, Len(@) - 1)]

-----------------------------------------------------------------------------
\* preallocate(size_bytes, count): takes the mutex for the whole loop.
PreallocBegin(t, c, n) ==
    /\ Idle(t) /\ pool_alive /\ mtx = NoThread
    /\ warmups < MaxWarmups
    /\ warmups' = warmups + 1
    /\ mtx' = t
    /\ filling' = [class |-> c, left |-> n]
    /\ UNCHANGED <<implVars, lifeVars, heap, adrift, buf>>

\* One iteration: bucket.push_back({raw_alloc(size_class), nullptr}).
PreallocPush(t, b) ==
    /\ mtx = t /\ filling.left > 0
    /\ raw_alloc(b, filling.class)
    /\ free_blocks' = Pushed(filling.class, [ptr |-> b, event |-> NoEvent])
    /\ filling' = [filling EXCEPT !.left = @ - 1]
    /\ UNCHANGED <<total_in_use, outstanding_buffers, mtx, warmups, lifeVars,
                   adrift, buf>>

\* The same, with push_back throwing: the block is reserved and in no bucket.
PreallocPushThrows(t, b) ==
    /\ mtx = t /\ filling.left > 0
    /\ raw_alloc(b, filling.class)
    /\ mtx' = NoThread
    /\ UNCHANGED <<free_blocks, total_in_use, outstanding_buffers, filling, warmups,
                   lifeVars, adrift, buf>>

\* Mutant of PreallocEnd: the mutex is unlocked by hand after the loop only.
PreallocEndNoUnwind(t) ==
    /\ mtx = t /\ filling.left = 0
    /\ mtx' = NoThread
    /\ UNCHANGED <<implVars, filling, warmups, lifeVars, heap, adrift, buf>>

\* The loop is over, or cudaMalloc failed and CUDA_CHECK_CTX threw out of
\* it: either way the lock_guard releases and the blocks pushed so far stay.
PreallocEnd(t) ==
    /\ mtx = t
    /\ mtx' = NoThread
    /\ UNCHANGED <<implVars, filling, warmups, lifeVars, heap, adrift, buf>>

-----------------------------------------------------------------------------
\* Mutant of HandOut: the deleter captures impl_.get().
HandOutRawImpl(t, i, c, s, b) ==
    /\ buf[i].phase = "none"
    /\ total_in_use' = total_in_use + ClassBytes[c]
    /\ outstanding_buffers' = outstanding_buffers + 1
    /\ buf' = [buf EXCEPT ![i] = [phase |-> "live", ptr |-> b, size_class |-> c,
                                  stream |-> s, refs |-> {t},
                                  deleter |-> NoThread, event |-> NoEvent]]
    /\ UNCHANGED <<fillVars, lifeVars, adrift>>

\* The tail of allocate: account for the block, capture impl_keepalive and
\* the stream in the deleter, return the first shared_ptr.
HandOut(t, i, c, s, b) ==
    /\ buf[i].phase = "none"
    /\ total_in_use' = total_in_use + ClassBytes[c]
    /\ outstanding_buffers' = outstanding_buffers + 1
    /\ impl_refs' = impl_refs + 1
    /\ buf' = [buf EXCEPT ![i] = [phase |-> "live", ptr |-> b, size_class |-> c,
                                  stream |-> s, refs |-> {t},
                                  deleter |-> NoThread, event |-> NoEvent]]
    /\ UNCHANGED <<fillVars, pool_alive, adrift>>

\* Mutant of AllocateReuse: bytes_reserved counts a recycled block again.
AllocateReuseReserves(t, i, c, s) ==
    /\ Idle(t) /\ pool_alive /\ mtx = NoThread
    /\ free_blocks[c] # <<>>
    /\ free_blocks' = Popped(c)
    /\ HandOut(t, i, c, s, Back(c).ptr)
    /\ total_reserved' = total_reserved + ClassBytes[c]
    /\ UNCHANGED heap

\* allocate when the bucket has a block; the wait on its event succeeded.
AllocateReuse(t, i, c, s) ==
    /\ Idle(t) /\ pool_alive /\ mtx = NoThread
    /\ free_blocks[c] # <<>>
    /\ free_blocks' = Popped(c)
    /\ HandOut(t, i, c, s, Back(c).ptr)
    /\ UNCHANGED <<total_reserved, heap>>

\* allocate when the bucket is empty and cudaMalloc returned b.
AllocateFresh(t, i, c, s, b) ==
    /\ Idle(t) /\ pool_alive /\ mtx = NoThread
    /\ free_blocks[c] = <<>>
    /\ raw_alloc(b, c)
    /\ HandOut(t, i, c, s, b)
    /\ UNCHANGED free_blocks

\* Mutant of AllocateWaitFails: the buffer is counted before the wait.
AllocateWaitFailsCounted(t, c) ==
    /\ Idle(t) /\ pool_alive /\ mtx = NoThread
    /\ free_blocks[c] # <<>>
    /\ Back(c).event # NoEvent
    /\ free_blocks' = Popped(c)
    /\ outstanding_buffers' = outstanding_buffers + 1
    /\ UNCHANGED <<total_reserved, total_in_use, fillVars, lifeVars, heap, adrift, buf>>

\* cudaStreamWaitEvent or cudaEventDestroy failed after pop_back: the
\* exception leaves with the only copy of the block.
AllocateWaitFails(t, c) ==
    /\ Idle(t) /\ pool_alive /\ mtx = NoThread
    /\ free_blocks[c] # <<>>
    /\ Back(c).event # NoEvent
    /\ free_blocks' = Popped(c)
    /\ UNCHANGED <<total_reserved, total_in_use, outstanding_buffers, fillVars,
                   lifeVars, heap, adrift, buf>>

\* new DeviceBuffer threw, with the block already accounted for.
Abandon(c, b) ==
    /\ total_in_use' = total_in_use + ClassBytes[c]
    /\ outstanding_buffers' = outstanding_buffers + 1
    /\ adrift' = adrift \cup {b}
    /\ UNCHANGED <<fillVars, lifeVars, buf>>

AllocateReuseThrows(t, c) ==
    /\ Idle(t) /\ pool_alive /\ mtx = NoThread
    /\ free_blocks[c] # <<>>
    /\ free_blocks' = Popped(c)
    /\ Abandon(c, Back(c).ptr)
    /\ UNCHANGED <<total_reserved, heap>>

AllocateFreshThrows(t, c, b) ==
    /\ Idle(t) /\ pool_alive /\ mtx = NoThread
    /\ free_blocks[c] = <<>>
    /\ raw_alloc(b, c)
    /\ Abandon(c, b)
    /\ UNCHANGED free_blocks

-----------------------------------------------------------------------------
\* A Tensor copy or view made for another thread copies the shared_ptr.
Share(t, u, i) ==
    /\ Idle(t) /\ t \in buf[i].refs /\ u \notin buf[i].refs
    /\ buf' = [buf EXCEPT ![i] = [@ EXCEPT !.refs = buf[i].refs \cup {u}]]
    /\ UNCHANGED <<implVars, fillVars, lifeVars, heap, adrift>>

\* A thread lets its shared_ptr go while others keep theirs.
Drop(t, i) ==
    /\ Idle(t) /\ t \in buf[i].refs /\ buf[i].refs # {t}
    /\ buf' = [buf EXCEPT ![i] = [@ EXCEPT !.refs = buf[i].refs \ {t}]]
    /\ UNCHANGED <<implVars, fillVars, lifeVars, heap, adrift>>

\* The last one to do so runs the deleter.
DropLast(t, i) ==
    /\ Idle(t) /\ buf[i].refs = {t}
    /\ buf' = [buf EXCEPT ![i] = [@ EXCEPT !.refs = {}, !.phase = "record", !.deleter = t]]
    /\ UNCHANGED <<implVars, fillVars, lifeVars, heap, adrift>>

At(t, i, ph) == buf[i].phase = ph /\ buf[i].deleter = t

\* Mutant of DeleterRecord: without an event the block is not returned.
DeleterRecordGivesUp(t, i, e) ==
    /\ At(t, i, "record")
    /\ buf' = IF e = NoEvent
              THEN [buf EXCEPT ![i] = [@ EXCEPT !.phase = "count", !.ptr = NoBlock]]
              ELSE [buf EXCEPT ![i] = [@ EXCEPT !.phase = "return", !.event = e]]
    /\ UNCHANGED <<implVars, fillVars, lifeVars, heap, adrift>>

\* Deleter, outside the mutex: create and record the event, or go on with
\* a null one when cudaEventCreateWithFlags failed.
DeleterRecord(t, i, e) ==
    /\ At(t, i, "record")
    /\ buf' = [buf EXCEPT ![i] = [@ EXCEPT !.phase = "return", !.event = e]]
    /\ UNCHANGED <<implVars, fillVars, lifeVars, heap, adrift>>

\* Mutant of DeleterReturn: what is pushed is a pointer already cleared.
DeleterReturnsNull(t, i) ==
    /\ At(t, i, "return") /\ mtx = NoThread
    /\ free_blocks' = Pushed(buf[i].size_class, [ptr |-> NoBlock, event |-> buf[i].event])
    /\ total_in_use' = total_in_use - ClassBytes[buf[i].size_class]
    /\ buf' = [buf EXCEPT ![i] = [@ EXCEPT !.phase = "count", !.ptr = NoBlock]]
    /\ UNCHANGED <<total_reserved, outstanding_buffers, fillVars, lifeVars, heap,
                   adrift>>

\* Mutant of DeleterReturn: fetch_sub is left to whoever takes the block next.
DeleterReturnSkipsCount(t, i) ==
    /\ At(t, i, "return") /\ mtx = NoThread
    /\ free_blocks' = Pushed(buf[i].size_class,
                             [ptr |-> buf[i].ptr, event |-> buf[i].event])
    /\ total_in_use' = total_in_use - ClassBytes[buf[i].size_class]
    /\ buf' = [buf EXCEPT ![i] = [@ EXCEPT !.phase = "release", !.ptr = NoBlock]]
    /\ UNCHANGED <<total_reserved, outstanding_buffers, fillVars, lifeVars, heap,
                   adrift>>

\* Deleter, under the mutex: the block goes back to its bucket.
DeleterReturn(t, i) ==
    /\ At(t, i, "return") /\ mtx = NoThread
    /\ free_blocks' = Pushed(buf[i].size_class,
                             [ptr |-> buf[i].ptr, event |-> buf[i].event])
    /\ total_in_use' = total_in_use - ClassBytes[buf[i].size_class]
    /\ buf' = [buf EXCEPT ![i] = [@ EXCEPT !.phase = "count", !.ptr = NoBlock]]
    /\ UNCHANGED <<total_reserved, outstanding_buffers, fillVars, lifeVars, heap,
                   adrift>>

\* Deleter, under the mutex: push_back threw.  catch (...) swallows it, so
\* the block is not returned, nothing is subtracted, and buf is deleted.
DeleterFails(t, i) ==
    /\ At(t, i, "return") /\ mtx = NoThread
    /\ adrift' = adrift \cup {buf[i].ptr}
    /\ buf' = [buf EXCEPT ![i] = [@ EXCEPT !.phase = "release", !.ptr = NoBlock]]
    /\ UNCHANGED <<implVars, fillVars, lifeVars, heap>>

\* Deleter, after the mutex: outstanding_buffers.fetch_sub(1).
DeleterCount(t, i) ==
    /\ At(t, i, "count")
    /\ outstanding_buffers' = outstanding_buffers - 1
    /\ buf' = [buf EXCEPT ![i] = [@ EXCEPT !.phase = "release"]]
    /\ UNCHANGED <<free_blocks, total_reserved, total_in_use, fillVars, lifeVars, heap,
                   adrift>>

-----------------------------------------------------------------------------
InBucket(b) == \E c \in Classes : \E k \in 1..Len(free_blocks[c]) :
                   free_blocks[c][k].ptr = b

\* One shared_ptr<Impl> goes; the last one runs ~Impl, which cudaFree's
\* every block found in the buckets.
ReleaseImpl ==
    /\ impl_refs' = impl_refs - 1
    /\ IF impl_refs = 1
       THEN /\ heap' = [b \in Blocks |-> IF InBucket(b) THEN NoClass ELSE heap[b]]
            /\ free_blocks' = [c \in Classes |-> <<>>]
       ELSE UNCHANGED <<heap, free_blocks>>

\* The control block dies with the deleter it stores, and impl_keepalive.
DeleterRelease(t, i) ==
    /\ At(t, i, "release")
    /\ ReleaseImpl
    /\ buf' = [buf EXCEPT ![i] = [@ EXCEPT !.phase = "none", !.deleter = NoThread,
                                           !.event = NoEvent]]
    /\ UNCHANGED <<total_reserved, total_in_use, outstanding_buffers, fillVars,
                   pool_alive, adrift>>

\* ~MemoryPool.  Its owner does not destroy it under a running call.
DestroyPool(t) ==
    /\ Idle(t) /\ pool_alive /\ mtx = NoThread
    /\ pool_alive' = FALSE
    /\ ReleaseImpl
    /\ UNCHANGED <<total_reserved, total_in_use, outstanding_buffers, fillVars,
                   adrift, buf>>

\* Pool and buffers are gone: the program has nothing left to do.
Finished == impl_refs = 0 /\ UNCHANGED vars

-----------------------------------------------------------------------------
Deleter(t) == \E i \in Buffers :
    \/ \E e \in Events \cup {NoEvent} : DeleterRecord(t, i, e)
    \/ DeleterReturn(t, i)
    \/ DeleterFails(t, i)
    \/ DeleterCount(t, i)
    \/ DeleterRelease(t, i)

Prealloc(t) ==
    \/ \E c \in Classes, n \in 1..MaxFill : PreallocBegin(t, c, n)
    \/ \E b \in Blocks : PreallocPush(t, b) \/ PreallocPushThrows(t, b)
    \/ PreallocEnd(t)

Allocate(t) == \E c \in Classes :
    \/ \E i \in Buffers, s \in Streams :
          \/ AllocateReuse(t, i, c, s)
          \/ \E b \in Blocks : AllocateFresh(t, i, c, s, b)
    \/ AllocateWaitFails(t, c)
    \/ AllocateReuseThrows(t, c)
    \/ \E b \in Blocks : AllocateFreshThrows(t, c, b)

Handle(t) == \E i \in Buffers :
    Drop(t, i) \/ DropLast(t, i) \/ \E u \in Threads : Share(t, u, i)

Next ==
    \/ \E t \in Threads :
          Prealloc(t) \/ Allocate(t) \/ Handle(t) \/ Deleter(t) \/ DestroyPool(t)
    \/ Finished

Spec == Init /\ [][Next]_vars

\* A thread inside a destructor or a loop over cudaMalloc keeps running.
FairSpec == Spec /\ \A t \in Threads : /\ WF_vars(Deleter(t))
                                       /\ WF_vars(PreallocEnd(t))

-----------------------------------------------------------------------------
(* Properties *)

\* Blocks cudaMalloc'ed that neither a bucket nor a buffer can reach.
Lost == {b \in Blocks : /\ heap[b] # NoClass
                        /\ ~InBucket(b)
                        /\ \A i \in Buffers : buf[i].ptr # b}

\* Impl is never destroyed under a thread that still needs it: while a
\* buffer's handle or deleter exists the Impl is there, and so is its
\* memory, whatever the order in which pool and tensors are destroyed.
PoolOutlivesBuffers ==
    /\ \A i \in Buffers : buf[i].phase # "none" => impl_refs > 0
    /\ \A i \in Buffers : buf[i].ptr # NoBlock => heap[buf[i].ptr] = buf[i].size_class

\* outstanding_buffers, changed and read without the mutex, counts exactly
\* the buffers whose deleter has not passed fetch_sub and the blocks an
\* exception left adrift: zero means that every block is back.
Outstanding == {i \in Buffers : buf[i].phase \in {"live", "record", "return", "count"}}
OutstandingExact ==
    outstanding_buffers = Cardinality(Outstanding) + Cardinality(adrift)

\* ~Impl warns of buffers "still marked as outstanding".  However the last
\* owners race, it can be due only to exceptions that left a block adrift,
\* and the number it prints is theirs.
ImplDiesClean == impl_refs = 0 => outstanding_buffers = Cardinality(adrift)

\* A block sits in one bucket at one place, of the class it was allocated
\* for, and never there while a buffer has it.
FreeListsSound ==
    \A c \in Classes : \A k \in 1..Len(free_blocks[c]) :
        LET b == free_blocks[c][k].ptr IN
        /\ heap[b] = c
        /\ \A i \in Buffers : buf[i].ptr # b
        /\ \A m \in 1..Len(free_blocks[c]) : free_blocks[c][m].ptr = b => m = k

\* The bytes cudaMalloc was asked for, over a set of blocks.
BytesOf(h, S) == MapThenSumSet(LAMBDA b : ClassBytes[h[b]], S)

InBuffers == {b \in Blocks : \E i \in Buffers : buf[i].ptr = b}
InBuckets == {b \in Blocks : InBucket(b)}

\* bytes_in_use and bytes_reserved, the numbers GraphCapture and the tests
\* rely on: in use is what the buffers hold and what is adrift, reserved is
\* what the buffers hold, what the buckets hold and what an exception has
\* lost, to the byte, wherever a thread may read them.
BytesExact ==
    impl_refs > 0 =>
        /\ total_in_use = BytesOf(heap, InBuffers \cup adrift)
        /\ total_reserved = BytesOf(heap, InBuffers) + BytesOf(heap, InBuckets)
                                                     + BytesOf(heap, Lost)

\* A block becomes unreachable only when allocate or preallocate threw with
\* the block in hand or the deleter swallowed an exception; no interleaving
\* of calls loses one, and ~Impl frees all that is in reach.
Losing == \E t \in Threads :
    \/ \E i \in Buffers : DeleterFails(t, i)
    \/ \E b \in Blocks : PreallocPushThrows(t, b)
    \/ \E c \in Classes : \/ AllocateWaitFails(t, c)
                         \/ AllocateReuseThrows(t, c)
                         \/ \E b \in Blocks : AllocateFreshThrows(t, c, b)
LostOnlyByThrow == [][Lost' \subseteq Lost \/ Losing]_vars

\* Every dropped buffer's deleter runs to its end, also against threads
\* that hold the mutex in preallocate.
DropsComplete ==
    \A i \in Buffers : buf[i].phase = "record" ~> buf[i].phase = "none"

\* The pool keeps BlockAllocator's promise: whatever the threads do, no
\* block is given to a buffer while another has it.
Holds == [i \in Buffers |-> buf[i].ptr]
A == INSTANCE BlockAllocator WITH holds <- Holds
AbstractSpec == A!Spec
=============================================================================
