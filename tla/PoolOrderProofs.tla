--------------------------- MODULE PoolOrderProofs ---------------------------
(***************************************************************************)
(* Theorems about PoolOrder, for every number of threads, streams, blocks  *)
(* and operations: of buffers used on the stream they were allocated for,  *)
(* with events that do not fail.                                           *)
(*                                                                         *)
(* That an operation comes after another, through any number of streams    *)
(* and waits, is said without walking along the waits: of all the places   *)
(* the streams could be at without passing a wait too early, there is none *)
(* where the first has been passed and the second has not.                 *)
(***************************************************************************)
EXTENDS PoolOrder, MemoryPoolProofs

\* Under which the order is promised; either alone is a way to lose it.
OwnStreams == Foreign = {} /\ ~EventsFail

\* The places the streams can be at from now on, as far as the waits go.
Cuts == {D \in [Queues -> 0..MaxOps] :
            /\ \A s \in Queues : D[s] >= done[s]
            /\ \A w \in waits : D[w.s] >= w.pos => D[w.event.on] >= w.event.upto}

\* Whatever is put on s behind its operation n comes after v.
Precedes(v, s, n) == \A D \in Cuts : D[s] >= n => D[v.s] >= v.pos
Clear(b, s, n) == \A v \in uses : v.block = b => Precedes(v, s, n)

Op == [s : Queues, pos : 1..MaxOps, block : Blocks, gen : Nat]
Wait == [s : Queues, pos : 1..MaxOps, event : Events]

Queued ==
    /\ issued \in [Queues -> 0..MaxOps]
    /\ done \in [Queues -> 0..MaxOps]
    /\ gen \in [Blocks -> Nat]
    /\ uses \subseteq Op
    /\ waits \subseteq Wait
    /\ \A s \in Queues : done[s] <= issued[s]
    /\ \A u \in uses : done[u.s] < u.pos /\ u.pos <= issued[u.s] /\ u.gen <= gen[u.block]
    /\ \A w \in waits : done[w.s] < w.pos

\* What the pool knows of a block's pending operations, wherever it is.
InOrder == \A u, v \in uses : u.block = v.block /\ v.gen < u.gen => Precedes(v, u.s, u.pos - 1)
Held == \A i \in Buffers : buf[i].phase \in {"live", "record"} =>
            Clear(buf[i].ptr, buf[i].stream, issued[buf[i].stream])
Returning == \A i \in Buffers : buf[i].phase = "return" =>
            /\ buf[i].event \in Events
            /\ Clear(buf[i].ptr, buf[i].event.on, buf[i].event.upto)
Unused(b) == \A v \in uses : v.block # b
Shelved(e) == IF e.event = NoEvent THEN Unused(e.ptr) ELSE Clear(e.ptr, e.event.on, e.event.upto)
OnShelf == \A c \in Classes : \A k \in 1..Len(free_blocks[c]) : Shelved(free_blocks[c][k])
Untouched == /\ mtx # NoThread => pool_alive
             /\ pool_alive => \A b \in Blocks : heap[b] = NoClass => Unused(b)

Recycled == InOrder /\ Held /\ Returning /\ OnShelf /\ Untouched

-----------------------------------------------------------------------------
LEMMA EventFields ==
    ASSUME NEW e \in Events
    PROVE  e.on \in Queues /\ e.upto \in 0..MaxOps
  BY EventAssumption DEF Queues

\* The deleter records an event that the model's set of events has.
LEMMA RecordedInEvents ==
    ASSUME TypeOK, Queued, NEW i \in Buffers
    PROVE  RecordedEvents(i) \subseteq Events \cup {NoEvent}
<1>1. buf[i].stream \in Streams
  BY DEF TypeOK, Buffer
<1>2. issued[buf[i].stream] \in 0..MaxOps
  BY <1>1 DEF Queued, Queues
<1> QED
  BY <1>1, <1>2, EventAssumption DEF RecordedEvents, EventAt

\* On the host, a step of PoolOrder is one of MemoryPool, or nothing.
LEMMA OrderStep == TypeOK /\ Queued /\ [OrderNext]_orderVars => [Next]_vars
<1> SUFFICES ASSUME TypeOK, Queued, [OrderNext]_orderVars PROVE Next \/ UNCHANGED vars
  OBVIOUS
<1>1. ASSUME NEW t \in Threads, HostOnly(t) PROVE Next
  BY <1>1 DEF HostOnly, Next, Allocate, Deleter
<1>2. ASSUME NEW t \in Threads, NEW i \in Buffers, DeleterRecordOrdered(t, i) PROVE Next
  BY <1>2, RecordedInEvents DEF DeleterRecordOrdered, Next, Deleter
<1>3. ASSUME NEW t \in Threads, NEW i \in Buffers, NEW s \in Queues, Use(t, i, s)
      PROVE  UNCHANGED vars
  BY <1>3 DEF Use
<1>4. ASSUME NEW t \in Threads, NEW i \in Buffers, NEW c \in Classes, NEW s \in Streams,
             AllocateReuseOrdered(t, i, c, s)
      PROVE  Next
  BY <1>4 DEF AllocateReuseOrdered, Next, Allocate
<1>5. ASSUME NEW t \in Threads, NEW i \in Buffers, NEW c \in Classes, NEW s \in Streams,
             NEW b \in Blocks, AllocateFreshUnordered(t, i, c, s, b)
      PROVE  Next
  BY <1>5 DEF AllocateFreshUnordered, Next, Allocate
<1>6. ASSUME NEW s \in Queues, Exec(s) PROVE UNCHANGED vars
  BY <1>6 DEF Exec
<1>7. CASE UNCHANGED orderVars
  BY <1>7 DEF orderVars
<1> QED
  BY <1>1, <1>2, <1>3, <1>4, <1>5, <1>6, <1>7 DEF OrderNext, Next

-----------------------------------------------------------------------------
(***************************************************************************)
(* What the steps of the queues do.                                        *)
(***************************************************************************)
LEMMA BackIsBlock ==
    ASSUME TypeOK, NEW c \in Classes, free_blocks[c] # <<>>
    PROVE  Back(c).ptr \in Blocks /\ Back(c).event \in Events \cup {NoEvent}
<1>1. free_blocks[c] \in Seq(PooledBlock)
  BY DEF TypeOK
<1>2. Back(c) \in PooledBlock
  BY <1>1, PopBack DEF Back
<1> QED
  BY <1>2 DEF PooledBlock

LEMMA UsedBlock ==
    ASSUME TypeOK, HoldsBlock, NEW t \in Threads, NEW i \in Buffers, t \in buf[i].refs
    PROVE  /\ buf[i].phase = "live"
           /\ buf[i].ptr \in Blocks
           /\ buf[i].stream \in Streams
<1>1. buf[i] \in Buffer
  BY DEF TypeOK
<1>2. buf[i].phase = "live"
  BY DEF HoldsBlock
<1> QED
  BY <1>1, <1>2 DEF HoldsBlock, Buffer

LEMMA QueuedInit == OrderInit => Queued
  BY QueueAssumption DEF OrderInit, Queued

LEMMA QueuedNext == TypeOK /\ HoldsBlock /\ Queued /\ [OrderNext]_orderVars => Queued'
<1> SUFFICES ASSUME TypeOK, HoldsBlock, Queued, [OrderNext]_orderVars PROVE Queued'
  OBVIOUS
<1> USE DEF Queued, Op, Wait
<1> MaxOps \in Nat
  BY QueueAssumption
<1>1. CASE UNCHANGED gpuVars
  BY <1>1 DEF gpuVars
<1>2. ASSUME NEW t \in Threads, NEW i \in Buffers, NEW s \in Queues, Use(t, i, s)
      PROVE  Queued'
  <2>1. buf[i].ptr \in Blocks
    BY <1>2, UsedBlock DEF Use
  <2>2. issued' = [issued EXCEPT ![s] = @ + 1] /\ issued[s] + 1 \in 1..MaxOps
    BY <1>2 DEF Use, Enqueued
  <2> DEFINE u == [s |-> s, pos |-> issued[s] + 1, block |-> buf[i].ptr, gen |-> gen[buf[i].ptr]]
  <2>3. uses' = uses \cup {u} /\ u \in Op
    BY <1>2, <2>1, <2>2 DEF Use
  <2>4. UNCHANGED <<done, waits, gen>>
    BY <1>2 DEF Use
  <2>5. \A v \in uses' : done[v.s] < v.pos /\ v.pos <= issued'[v.s] /\ v.gen <= gen[v.block]
    BY <2>1, <2>2, <2>3
  <2> QED
    BY <2>2, <2>3, <2>4, <2>5
<1>3. ASSUME NEW s \in Streams, NEW e \in Events \cup {NoEvent}, NEW b \in Blocks,
             WaitFor(s, e), gen' = [gen EXCEPT ![b] = @ + 1], UNCHANGED <<done, uses>>
      PROVE  Queued'
  <2>1. s \in Queues
    BY DEF Queues
  <2>2. CASE e = NoEvent
    BY <1>3, <2>2 DEF WaitFor
  <2>3. CASE e # NoEvent
    <3>1. issued' = [issued EXCEPT ![s] = @ + 1] /\ issued[s] + 1 \in 1..MaxOps
      BY <1>3, <2>1, <2>3 DEF WaitFor, Enqueued
    <3> DEFINE w == [s |-> s, pos |-> issued[s] + 1, event |-> e]
    <3>2. waits' = waits \cup {w} /\ w \in Wait
      BY <1>3, <2>1, <2>3, <3>1 DEF WaitFor
    <3>3. \A v \in waits' : done[v.s] < v.pos
      BY <2>1, <3>1, <3>2
    <3>4. \A u \in uses : u.pos <= issued'[u.s] /\ u.gen <= gen'[u.block]
      BY <1>3, <2>1, <3>1
    <3> QED
      BY <1>3, <2>1, <3>1, <3>2, <3>3, <3>4
  <2> QED
    BY <2>2, <2>3
<1>4. ASSUME NEW t \in Threads, NEW i \in Buffers, NEW c \in Classes, NEW s \in Streams,
             AllocateReuseOrdered(t, i, c, s)
      PROVE  Queued'
  <2>1. Back(c).ptr \in Blocks /\ Back(c).event \in Events \cup {NoEvent}
    BY <1>4, BackIsBlock DEF AllocateReuseOrdered, AllocateReuse
  <2> QED
    BY <1>3, <1>4, <2>1 DEF AllocateReuseOrdered
<1>5. ASSUME NEW t \in Threads, NEW i \in Buffers, NEW c \in Classes, NEW s \in Streams,
             NEW b \in Blocks, AllocateFreshUnordered(t, i, c, s, b)
      PROVE  Queued'
  BY <1>5 DEF AllocateFreshUnordered
<1>6. ASSUME NEW s \in Queues, Exec(s) PROVE Queued'
  <2>1. done' = [done EXCEPT ![s] = done[s] + 1] /\ done[s] < issued[s]
    BY <1>6 DEF Exec, Next1
  <2>2. \A u \in uses' : u \in uses /\ ~(u.s = s /\ u.pos = done[s] + 1)
    BY <1>6 DEF Exec, Next1
  <2>3. \A w \in waits' : w \in waits /\ ~(w.s = s /\ w.pos = done[s] + 1)
    BY <1>6 DEF Exec, Next1
  <2>4. UNCHANGED <<issued, gen>>
    BY <1>6 DEF Exec
  <2>5. done' \in [Queues -> 0..MaxOps] /\ \A q \in Queues : done'[q] <= issued[q]
    BY <2>1
  <2>6. \A u \in uses' : done'[u.s] < u.pos
    BY <2>1, <2>2
  <2>7. \A w \in waits' : done'[w.s] < w.pos
    BY <2>1, <2>3
  <2> QED
    BY <2>2, <2>3, <2>4, <2>5, <2>6, <2>7
<1> QED
  BY <1>1, <1>2, <1>4, <1>5, <1>6
  DEF OrderNext, HostOnly, DeleterRecordOrdered, orderVars, gpuVars

\* The streams are themselves at a place that the waits allow.
LEMMA DoneIsCut == Queued => done \in Cuts
  BY DEF Queued, Cuts, Wait

-----------------------------------------------------------------------------
(***************************************************************************)
(* No step adds a place for the streams to be at: a new wait takes some    *)
(* away, and a wait goes only when what it waited for has happened.        *)
(***************************************************************************)
LEMMA CutsShrink == TypeOK /\ HoldsBlock /\ Queued /\ [OrderNext]_orderVars => Cuts' \subseteq Cuts
<1> SUFFICES ASSUME TypeOK, HoldsBlock, Queued, [OrderNext]_orderVars PROVE Cuts' \subseteq Cuts
  OBVIOUS
<1>1. ASSUME done' = done, waits \subseteq waits' PROVE Cuts' \subseteq Cuts
  BY <1>1 DEF Cuts
<1>2. ASSUME NEW s \in Queues, Exec(s) PROVE Cuts' \subseteq Cuts
  <2> SUFFICES ASSUME NEW D \in Cuts' PROVE D \in Cuts
    OBVIOUS
  <2>1. D \in [Queues -> 0..MaxOps] /\ \A q \in Queues : D[q] >= done'[q]
    BY DEF Cuts
  <2>2. done' = [done EXCEPT ![s] = done[s] + 1] /\ done \in [Queues -> 0..MaxOps]
    BY <1>2 DEF Exec, Next1, Queued
  <2>3. \A q \in Queues : D[q] >= done[q]
    BY <2>1, <2>2
  <2>4. ASSUME NEW w \in waits, D[w.s] >= w.pos PROVE D[w.event.on] >= w.event.upto
    <3>1. CASE w \in waits'
      BY <2>4, <3>1 DEF Cuts
    <3>2. CASE w \notin waits'
      <4>1. w.s = s /\ w.pos = Next1(s)
        BY <1>2, <3>2 DEF Exec
      <4>2. done[w.event.on] >= w.event.upto
        BY <1>2, <4>1 DEF Exec
      <4>3. w.event.on \in Queues /\ w.event.upto \in 0..MaxOps
        BY EventFields DEF Queued, Wait
      <4> QED
        BY <2>1, <2>2, <2>3, <4>2, <4>3
    <3> QED
      BY <3>1, <3>2
  <2> QED
    BY <2>1, <2>3, <2>4 DEF Cuts
<1>3. ASSUME NEW s \in Streams, NEW e, WaitFor(s, e), UNCHANGED done PROVE Cuts' \subseteq Cuts
  BY <1>1, <1>3 DEF WaitFor
<1> QED
  BY <1>1, <1>2, <1>3
  DEF OrderNext, HostOnly, DeleterRecordOrdered, Use, AllocateReuseOrdered, AllocateFreshUnordered,
      orderVars, gpuVars

LEMMA IssuedGrows ==
    ASSUME TypeOK, Queued, [OrderNext]_orderVars, NEW s \in Queues
    PROVE  issued[s] \in Nat /\ issued'[s] \in Nat /\ issued[s] <= issued'[s]
<1>1. MaxOps \in Nat
  BY QueueAssumption
<1>2. issued \in [Queues -> 0..MaxOps]
  BY DEF Queued
<1>3. ASSUME NEW q \in Queues, issued' = Enqueued(q) PROVE issued'[s] \in Nat /\ issued[s] <= issued'[s]
  BY <1>1, <1>2, <1>3 DEF Enqueued
<1> QED
  BY <1>1, <1>2, <1>3
  DEF OrderNext, HostOnly, DeleterRecordOrdered, Use, AllocateReuseOrdered, AllocateFreshUnordered,
      Exec, WaitFor, Queues, orderVars, gpuVars

\* What is in order stays so, and more so further down the stream.
LEMMA ClearStays ==
    ASSUME Queued, Cuts' \subseteq Cuts, uses' \subseteq uses,
           NEW b, NEW s \in Queues, NEW n \in Nat, NEW m \in Nat, n <= m, Clear(b, s, n)
    PROVE  Clear(b, s, m)'
<1> SUFFICES ASSUME NEW v \in uses', v.block = b, NEW D \in Cuts', D[s] >= m
             PROVE  D[v.s] >= v.pos
  BY DEF Clear, Precedes
<1>1. D \in Cuts /\ v \in uses
  OBVIOUS
<1>2. D[s] \in Nat /\ D[s] >= n
  BY <1>1, QueueAssumption DEF Cuts
<1> QED
  BY <1>1, <1>2 DEF Clear, Precedes

\* A use of another block changes nothing, one at or before n is in order.
LEMMA ClearWithUse ==
    ASSUME Queued, Cuts' \subseteq Cuts, NEW u, uses' = uses \cup {u},
           NEW b, NEW s \in Queues, NEW n \in Nat, NEW m \in Nat, n <= m, Clear(b, s, n),
           u.block # b \/ (u.s = s /\ u.pos \in Nat /\ u.pos <= m)
    PROVE  Clear(b, s, m)'
<1> SUFFICES ASSUME NEW v \in uses', v.block = b, NEW D \in Cuts', D[s] >= m
             PROVE  D[v.s] >= v.pos
  BY DEF Clear, Precedes
<1>1. D \in Cuts
  OBVIOUS
<1>2. D[s] \in Nat /\ D[s] >= n
  BY <1>1, QueueAssumption DEF Cuts
<1>3. CASE v \in uses
  BY <1>1, <1>2, <1>3 DEF Clear, Precedes
<1>4. CASE v = u
  BY <1>2, <1>4
<1> QED
  BY <1>3, <1>4

\* The wait that allocate puts on a stream orders it behind the event.
LEMMA WaitClears ==
    ASSUME Queued, Cuts' \subseteq Cuts, UNCHANGED uses, NEW b, NEW s \in Streams, NEW e \in Events,
           e # NoEvent, WaitFor(s, e), Clear(b, e.on, e.upto)
    PROVE  Clear(b, s, issued[s])'
<1> SUFFICES ASSUME NEW v \in uses, v.block = b, NEW D \in Cuts', D[s] >= issued'[s]
             PROVE  D[v.s] >= v.pos
  BY DEF Clear, Precedes
<1>1. s \in Queues
  BY DEF Queues
<1>2. issued'[s] = issued[s] + 1
  BY <1>1 DEF WaitFor, Enqueued, Queued
<1> DEFINE w == [s |-> s, pos |-> issued[s] + 1, event |-> e]
<1>3. w \in waits'
  BY DEF WaitFor
<1>4. D[w.event.on] >= w.event.upto
  BY <1>2, <1>3 DEF Cuts
<1> QED
  BY <1>4 DEF Clear, Precedes

-----------------------------------------------------------------------------
(***************************************************************************)
(* Recycled is inductive.                                                  *)
(***************************************************************************)
OrderInv == TypeOK /\ HoldsBlock /\ Placed /\ Counts /\ Queued /\ Recycled

LEMMA RecycledInit == OrderInit => Recycled
  BY DEF OrderInit, Init, Recycled, InOrder, Held, Returning, OnShelf, Untouched, Unused

\* The step of every invariant but the last.
LEMMA GroundNext ==
    OrderInv /\ [OrderNext]_orderVars
        => (TypeOK /\ HoldsBlock /\ Placed /\ Counts /\ Queued)' /\ Cuts' \subseteq Cuts
  BY OrderStep, TypeNext, HoldsBlockNext, PlacedNext, CountsNext, QueuedNext, CutsShrink DEF OrderInv

\* What a step that puts no kernel on the device leaves as it was.
LEMMA NoNewUse ==
    ASSUME OrderInv, [OrderNext]_orderVars, uses' \subseteq uses
    PROVE  /\ InOrder'
           /\ \A i \in Buffers :
                 /\ buf[i].phase \in {"live", "record"}
                 /\ buf'[i].ptr = buf[i].ptr /\ buf'[i].stream = buf[i].stream
                 => Clear(buf[i].ptr, buf[i].stream, issued[buf[i].stream])'
           /\ \A i \in Buffers :
                 buf[i].phase = "return" /\ buf'[i] = buf[i] =>
                     /\ buf'[i].event \in Events
                     /\ Clear(buf[i].ptr, buf[i].event.on, buf[i].event.upto)'
           /\ \A e \in PooledBlock : Shelved(e) => Shelved(e)'
           /\ \A b \in Blocks : Unused(b) => Unused(b)'
<1>1. Cuts' \subseteq Cuts /\ Queued /\ TypeOK
  BY GroundNext DEF OrderInv
<1>2. InOrder'
  BY <1>1 DEF OrderInv, Recycled, InOrder, Precedes
<1>3. ASSUME NEW i \in Buffers, buf[i].phase \in {"live", "record"},
             buf'[i].ptr = buf[i].ptr, buf'[i].stream = buf[i].stream
      PROVE  Clear(buf[i].ptr, buf[i].stream, issued[buf[i].stream])'
  <2>1. PICK b, s, n, m : /\ b = buf[i].ptr /\ s = buf[i].stream
                          /\ n = issued[s] /\ m = issued'[s]
    OBVIOUS
  <2>2. s \in Queues
    BY <1>1, <2>1 DEF TypeOK, Buffer, Queues
  <2>3. n \in Nat /\ m \in Nat /\ n <= m
    BY <1>1, <2>1, <2>2, IssuedGrows
  <2>4. Clear(b, s, n)
    BY <1>3, <2>1 DEF OrderInv, Recycled, Held
  <2>5. Clear(b, s, m)'
    BY <1>1, <2>2, <2>3, <2>4, ClearStays
  <2> QED
    BY <1>3, <2>1, <2>5 DEF Clear, Precedes
<1>4. ASSUME NEW i \in Buffers, buf[i].phase = "return", buf'[i] = buf[i]
      PROVE  /\ buf'[i].event \in Events
             /\ Clear(buf[i].ptr, buf[i].event.on, buf[i].event.upto)'
  <2>1. PICK b, e : b = buf[i].ptr /\ e = buf[i].event
    OBVIOUS
  <2>2. e \in Events /\ Clear(b, e.on, e.upto)
    BY <1>4, <2>1 DEF OrderInv, Recycled, Returning
  <2>3. Clear(b, e.on, e.upto)'
    BY <1>1, <2>2, EventFields, ClearStays
  <2> QED
    BY <1>4, <2>1, <2>2, <2>3 DEF Clear, Precedes
<1>5. ASSUME NEW b \in Blocks, Unused(b) PROVE Unused(b)'
  BY <1>5 DEF Unused
<1>6. ASSUME NEW e \in PooledBlock, Shelved(e) PROVE Shelved(e)'
  <2>1. CASE e.event = NoEvent
    BY <1>5, <1>6, <2>1 DEF Shelved, PooledBlock
  <2>2. CASE e.event # NoEvent
    <3>1. e.event \in Events /\ Clear(e.ptr, e.event.on, e.event.upto)
      BY <1>6, <2>2 DEF Shelved, PooledBlock
    <3>2. Clear(e.ptr, e.event.on, e.event.upto)'
      BY <1>1, <3>1, EventFields, ClearStays
    <3> QED
      BY <2>2, <3>2 DEF Shelved
  <2> QED
    BY <2>1, <2>2
<1> QED
  BY <1>2, <1>3, <1>4, <1>5, <1>6

-----------------------------------------------------------------------------
\* The block handed out by allocate is behind everything queued on it.
LEMMA ReusedIsClear ==
    ASSUME OrderInv, [OrderNext]_orderVars, NEW t \in Threads, NEW i \in Buffers,
           NEW c \in Classes, NEW s \in Streams, AllocateReuseOrdered(t, i, c, s),
           NEW b, b = Back(c).ptr
    PROVE  Clear(b, s, issued[s])'
<1>1. TypeOK /\ Queued /\ Cuts' \subseteq Cuts /\ free_blocks[c] # <<>>
  BY GroundNext DEF OrderInv, AllocateReuseOrdered, AllocateReuse
<1>2. PICK e : e = Back(c).event
  OBVIOUS
<1>3. b \in Blocks /\ e \in Events \cup {NoEvent}
  BY <1>1, <1>2, BackIsBlock
<1>4. Shelved(Back(c))
  <2>1. free_blocks[c] \in Seq(PooledBlock)
    BY <1>1 DEF TypeOK
  <2>2. Len(free_blocks[c]) \in 1..Len(free_blocks[c])
    BY <1>1, <2>1, PopBack
  <2> QED
    BY <2>2 DEF OrderInv, Recycled, OnShelf, Back
<1>5. UNCHANGED uses /\ WaitFor(s, e)
  BY <1>2 DEF AllocateReuseOrdered
<1>6. CASE e = NoEvent
  <2>1. Unused(b)
    BY <1>2, <1>4, <1>6 DEF Shelved
  <2> QED
    BY <1>5, <2>1 DEF Clear, Unused
<1>7. CASE e # NoEvent
  <2>1. Clear(b, e.on, e.upto)
    BY <1>2, <1>4, <1>7 DEF Shelved
  <2> QED
    BY <1>1, <1>3, <1>5, <1>7, <2>1, WaitClears
<1> QED
  BY <1>3, <1>6, <1>7

\* A buffer stays in the hands of threads, or on its way to the deleter,
\* with the block and stream it had; or it is new.
LEMMA HeldNext ==
    ASSUME OrderInv, [OrderNext]_orderVars, uses' \subseteq uses, OwnStreams
    PROVE  Held'
<1> SUFFICES ASSUME NEW j \in Buffers, buf'[j].phase \in {"live", "record"}
             PROVE  Clear(buf[j].ptr, buf[j].stream, issued[buf[j].stream])'
  BY DEF Held
<1> DEFINE Same == /\ buf[j].phase \in {"live", "record"}
                   /\ buf'[j].ptr = buf[j].ptr /\ buf'[j].stream = buf[j].stream
<1>0. buf \in [Buffers -> Buffer] /\ TypeOK
  BY DEF OrderInv, TypeOK
<1>1. CASE UNCHANGED buf
  BY <1>1, NoNewUse
<1>2. ASSUME Same PROVE Clear(buf[j].ptr, buf[j].stream, issued[buf[j].stream])'
  BY <1>2, NoNewUse
<1>3. ASSUME NEW t \in Threads, Handle(t) PROVE Same
  <2>1. PICK i \in Buffers : \/ Drop(t, i) \/ DropLast(t, i)
                            \/ \E u \in Threads : Share(t, u, i)
    BY <1>3 DEF Handle
  <2>2. t \in buf[i].refs
    BY <2>1 DEF Drop, DropLast, Share
  <2>3. buf[i].phase = "live"
    BY <2>2, UsedBlock DEF OrderInv
  <2>4. CASE j = i
    <3>1. buf'[i].ptr = buf[i].ptr /\ buf'[i].stream = buf[i].stream
      <4>1. CASE Drop(t, i)
        BY <1>0, <4>1 DEF Drop, Buffer
      <4>2. CASE DropLast(t, i)
        BY <1>0, <4>2 DEF DropLast, Buffer
      <4>3. ASSUME NEW u \in Threads, Share(t, u, i)
            PROVE  buf'[i].ptr = buf[i].ptr /\ buf'[i].stream = buf[i].stream
        BY <1>0, <4>3 DEF Share, Buffer
      <4> QED
        BY <2>1, <4>1, <4>2, <4>3
    <3> QED
      BY <2>3, <2>4, <3>1
  <2>5. CASE j # i
    BY <1>0, <2>1, <2>5 DEF Drop, DropLast, Share
  <2> QED
    BY <2>4, <2>5
<1>4. ASSUME NEW t \in Threads, NEW i \in Buffers,
             \/ \E e \in Events \cup {NoEvent} : DeleterRecord(t, i, e)
             \/ DeleterReturn(t, i) \/ DeleterFails(t, i)
             \/ DeleterCount(t, i) \/ DeleterRelease(t, i)
      PROVE  Same
  <2>1. CASE j # i
    BY <1>0, <1>4, <2>1 DEF DeleterRecord, DeleterReturn, DeleterFails, DeleterCount, DeleterRelease
  <2>2. CASE j = i
    <3>1. CASE \E e \in Events \cup {NoEvent} : DeleterRecord(t, i, e)
      BY <1>0, <2>2, <3>1 DEF DeleterRecord, At, Buffer
    <3>2. CASE DeleterReturn(t, i)
      BY <1>0, <2>2, <3>2 DEF DeleterReturn, At, Buffer
    <3>3. CASE DeleterFails(t, i)
      BY <1>0, <2>2, <3>3 DEF DeleterFails, At, Buffer
    <3>4. CASE DeleterCount(t, i)
      BY <1>0, <2>2, <3>4 DEF DeleterCount, At, Buffer
    <3>5. CASE DeleterRelease(t, i)
      BY <1>0, <2>2, <3>5 DEF DeleterRelease, At, Buffer
    <3> QED
      BY <1>4, <3>1, <3>2, <3>3, <3>4, <3>5
  <2> QED
    BY <2>1, <2>2
<1>5. ASSUME NEW t \in Threads, NEW i \in Buffers, NEW c \in Classes, NEW s \in Streams,
             AllocateReuseOrdered(t, i, c, s)
      PROVE  Clear(buf[j].ptr, buf[j].stream, issued[buf[j].stream])'
  <2>1. CASE j = i
    <3>1. PICK b : b = Back(c).ptr
      OBVIOUS
    <3>2. Clear(b, s, issued[s])'
      BY <1>5, <3>1, ReusedIsClear
    <3>3. buf'[i].ptr = b /\ buf'[i].stream = s
      BY <1>0, <1>5, <3>1 DEF AllocateReuseOrdered, AllocateReuse, HandOut
    <3> QED
      BY <2>1, <3>2, <3>3 DEF Clear, Precedes
  <2>2. CASE j # i
    BY <1>0, <1>2, <1>5, <2>2 DEF AllocateReuseOrdered, AllocateReuse, HandOut
  <2> QED
    BY <2>1, <2>2
<1>6. ASSUME NEW t \in Threads, NEW i \in Buffers, NEW c \in Classes, NEW s \in Streams,
             NEW b \in Blocks, AllocateFreshUnordered(t, i, c, s, b)
      PROVE  Clear(buf[j].ptr, buf[j].stream, issued[buf[j].stream])'
  <2>1. CASE j = i
    <3>1. buf'[i].ptr = b
      BY <1>0, <1>6 DEF AllocateFreshUnordered, AllocateFresh, HandOut
    <3>2. Unused(b)
      BY <1>6 DEF AllocateFreshUnordered, AllocateFresh, raw_alloc, OrderInv, Recycled, Untouched
    <3> QED
      BY <2>1, <3>1, <3>2 DEF Clear, Unused
  <2>2. CASE j # i
    BY <1>0, <1>2, <1>6, <2>2 DEF AllocateFreshUnordered, AllocateFresh, HandOut
  <2> QED
    BY <2>1, <2>2
<1>7. ASSUME NEW t \in Threads,
             \/ Prealloc(t) \/ DestroyPool(t)
             \/ \E c \in Classes : \/ AllocateWaitFails(t, c) \/ AllocateReuseThrows(t, c)
                                   \/ \E b \in Blocks : AllocateFreshThrows(t, c, b)
      PROVE  UNCHANGED buf
  BY <1>7 DEF Prealloc, PreallocBegin, PreallocPush, PreallocPushThrows, PreallocEnd, DestroyPool,
              AllocateWaitFails, AllocateReuseThrows, AllocateFreshThrows, Abandon
<1>8. ASSUME NEW t \in Threads, NEW i \in Buffers, DeleterRecordOrdered(t, i) PROVE Same
  BY <1>4, <1>8, RecordedInEvents DEF DeleterRecordOrdered, OrderInv
<1>9. CASE \/ \E t \in Threads, i \in Buffers, s \in Queues : Use(t, i, s)
           \/ (\E s \in Queues : Exec(s)) \/ Finished \/ UNCHANGED orderVars
  BY <1>1, <1>9 DEF Use, Exec, Finished, orderVars, vars
<1>10. ASSUME NEW t \in Threads, HostOnly(t)
       PROVE  Clear(buf[j].ptr, buf[j].stream, issued[buf[j].stream])'
  BY <1>1, <1>2, <1>3, <1>4, <1>7, <1>10 DEF HostOnly
<1> QED
  BY <1>2, <1>5, <1>6, <1>8, <1>9, <1>10 DEF OrderNext

\* The event the deleter records is behind all that is queued on the stream.
LEMMA ReturningNext ==
    ASSUME OrderInv, [OrderNext]_orderVars, uses' \subseteq uses, OwnStreams
    PROVE  Returning'
<1> DEFINE Kept(j) == /\ buf'[j].event \in Events
                      /\ Clear(buf[j].ptr, buf[j].event.on, buf[j].event.upto)'
<1> SUFFICES ASSUME NEW j \in Buffers, buf'[j].phase = "return" PROVE Kept(j)
  BY DEF Returning
<1> DEFINE Same == buf[j].phase = "return" /\ buf'[j] = buf[j]
<1>0. buf \in [Buffers -> Buffer] /\ TypeOK /\ Queued
  BY DEF OrderInv, TypeOK
<1>1. CASE UNCHANGED buf
  BY <1>1, NoNewUse
<1>2. ASSUME Same PROVE Kept(j)
  BY <1>2, NoNewUse
<1>3. ASSUME NEW t \in Threads, Handle(t) PROVE Same
  <2>1. PICK i \in Buffers : \/ Drop(t, i) \/ DropLast(t, i)
                            \/ \E u \in Threads : Share(t, u, i)
    BY <1>3 DEF Handle
  <2>2. t \in buf[i].refs
    BY <2>1 DEF Drop, DropLast, Share
  <2>3. buf[i].phase = "live"
    BY <2>2, UsedBlock DEF OrderInv
  <2>4. CASE Drop(t, i)
    BY <1>0, <2>3, <2>4 DEF Drop, Buffer
  <2>5. CASE DropLast(t, i)
    BY <1>0, <2>3, <2>5 DEF DropLast, Buffer
  <2>6. ASSUME NEW u \in Threads, Share(t, u, i) PROVE Same
    BY <1>0, <2>3, <2>6 DEF Share, Buffer
  <2> QED
    BY <2>1, <2>4, <2>5, <2>6
<1>4. ASSUME NEW t \in Threads, NEW i \in Buffers,
             \/ DeleterReturn(t, i) \/ DeleterFails(t, i)
             \/ DeleterCount(t, i) \/ DeleterRelease(t, i)
      PROVE  Same
  BY ZenonT(30), <1>0, <1>4 DEF DeleterReturn, DeleterFails, DeleterCount, DeleterRelease, At, Buffer
<1>5. ASSUME NEW t \in Threads, NEW i \in Buffers, NEW c \in Classes, NEW s \in Streams,
             NEW b, HandOut(t, i, c, s, b)
      PROVE  Same
  BY <1>0, <1>5 DEF HandOut
<1>6. ASSUME NEW t \in Threads, NEW i \in Buffers, DeleterRecordOrdered(t, i)
      PROVE  Kept(j)
  <2>1. CASE j = i
    <3>1. PICK s, n, b : s = buf[i].stream /\ n = issued[s] /\ b = buf[i].ptr
      OBVIOUS
    <3>2. s \in Queues /\ n \in Nat
      BY <1>0, <3>1 DEF Buffer, Queues, Queued
    <3>3. EventAt(s, n) \in Events
      BY <1>0, <3>1, <3>2, EventAssumption DEF EventAt, Queues, Queued
    <3>4. DeleterRecord(t, i, EventAt(s, n))
      BY <1>6, <3>1 DEF DeleterRecordOrdered, RecordedEvents, OwnStreams
    <3>5. Clear(b, s, n)
      BY <3>1, <3>4 DEF DeleterRecord, At, OrderInv, Recycled, Held
    <3>6. Clear(b, s, n)'
      BY <1>0, <3>2, <3>5, GroundNext, ClearStays
    <3>7. buf'[i].ptr = b /\ buf'[i].event = EventAt(s, n)
      BY <1>0, <3>1, <3>4 DEF DeleterRecord, Buffer
    <3>8. EventAt(s, n).on = s /\ EventAt(s, n).upto = n
      BY DEF EventAt
    <3> QED
      BY <2>1, <3>3, <3>6, <3>7, <3>8 DEF Clear, Precedes
  <2>2. CASE j # i
    BY <1>0, <1>2, <1>6, <2>2 DEF DeleterRecordOrdered, DeleterRecord
  <2> QED
    BY <2>1, <2>2
<1>7. ASSUME NEW t \in Threads,
             \/ Prealloc(t) \/ DestroyPool(t)
             \/ \E c \in Classes : \/ AllocateWaitFails(t, c) \/ AllocateReuseThrows(t, c)
                                   \/ \E b \in Blocks : AllocateFreshThrows(t, c, b)
      PROVE  UNCHANGED buf
  BY <1>7 DEF Prealloc, PreallocBegin, PreallocPush, PreallocPushThrows, PreallocEnd, DestroyPool,
              AllocateWaitFails, AllocateReuseThrows, AllocateFreshThrows, Abandon
<1>8. ASSUME NEW t \in Threads, HostOnly(t) PROVE Kept(j)
  BY <1>1, <1>2, <1>3, <1>4, <1>7, <1>8 DEF HostOnly
<1>9. CASE \/ \E t \in Threads, i \in Buffers, s \in Queues : Use(t, i, s)
           \/ (\E s \in Queues : Exec(s)) \/ Finished \/ UNCHANGED orderVars
  BY <1>1, <1>9 DEF Use, Exec, Finished, orderVars, vars
<1>10. ASSUME NEW t \in Threads, NEW i \in Buffers, NEW c \in Classes, NEW s \in Streams,
              \/ AllocateReuseOrdered(t, i, c, s)
              \/ \E b \in Blocks : AllocateFreshUnordered(t, i, c, s, b)
       PROVE  Kept(j)
  BY <1>2, <1>5, <1>10 DEF AllocateReuseOrdered, AllocateReuse, AllocateFreshUnordered, AllocateFresh
<1> QED
  BY <1>6, <1>8, <1>9, <1>10 DEF OrderNext

\* A block goes to its bucket with the event that was recorded for it; one
\* that cudaMalloc has just given has no pending operations.
LEMMA OnShelfNext ==
    ASSUME OrderInv, [OrderNext]_orderVars, uses' \subseteq uses
    PROVE  OnShelf'
<1> SUFFICES ASSUME NEW d \in Classes, NEW k \in 1..Len(free_blocks'[d])
             PROVE  Shelved(free_blocks[d][k])'
  BY DEF OnShelf
<1> DEFINE Old == k \in 1..Len(free_blocks[d]) /\ free_blocks'[d][k] = free_blocks[d][k]
<1>0. free_blocks \in [Classes -> Seq(PooledBlock)] /\ TypeOK /\ FreeListsSound
  BY DEF OrderInv, TypeOK, Placed
<1>1. ASSUME NEW e \in PooledBlock, Shelved(e)', free_blocks'[d][k] = e
      PROVE  Shelved(free_blocks[d][k])'
  BY <1>1 DEF Shelved, Unused, Clear, Precedes
<1>2. ASSUME Old PROVE Shelved(free_blocks[d][k])'
  <2>1. PICK e : e = free_blocks[d][k]
    OBVIOUS
  <2>2. e \in PooledBlock
    BY <1>0, <1>2, <2>1, ElementOfSeq, LenProperties
  <2>3. Shelved(free_blocks[d][k])
    BY <1>2 DEF OrderInv, Recycled, OnShelf
  <2>4. Shelved(e)'
    BY <2>1, <2>2, <2>3, NoNewUse
  <2> QED
    BY <1>1, <1>2, <2>1, <2>2, <2>4
<1>3. CASE UNCHANGED free_blocks
  BY <1>2, <1>3
<1>4. ASSUME NEW c \in Classes, free_blocks[c] # <<>>, free_blocks' = Popped(c) PROVE Old
  BY SMTT(30), <1>0, <1>4, PopLeaves
<1>5. ASSUME NEW c \in Classes, NEW e \in PooledBlock, free_blocks' = Pushed(c, e), Shelved(e)
      PROVE  Shelved(free_blocks[d][k])'
  <2>1. Old \/ free_blocks'[d][k] = e
    BY <1>0, <1>5, PushEffect
  <2> QED
    BY <1>1, <1>2, <1>5, <2>1, NoNewUse
<1>6. ASSUME NEW t \in Threads, NEW b \in Blocks, PreallocPush(t, b)
      PROVE  Shelved(free_blocks[d][k])'
  <2> DEFINE e == [ptr |-> b, event |-> NoEvent]
  <2>1. Unused(b)
    BY <1>0, <1>6, NullAssumption DEF PreallocPush, raw_alloc, OrderInv, Recycled, Untouched
  <2>2. e \in PooledBlock /\ Shelved(e)
    BY <2>1 DEF PooledBlock, Shelved
  <2>3. filling.class \in Classes /\ free_blocks' = Pushed(filling.class, e)
    BY <1>0, <1>6 DEF TypeOK, PreallocPush
  <2> QED
    BY <1>5, <2>2, <2>3
<1>7. ASSUME NEW t \in Threads, NEW i \in Buffers, DeleterReturn(t, i)
      PROVE  Shelved(free_blocks[d][k])'
  <2> DEFINE e == [ptr |-> buf[i].ptr, event |-> buf[i].event]
  <2>1. buf[i] \in Buffer /\ buf[i].phase = "return"
    BY <1>0, <1>7 DEF TypeOK, DeleterReturn, At
  <2>2. e \in PooledBlock /\ buf[i].size_class \in Classes
    BY <2>1 DEF OrderInv, HoldsBlock, Buffer, PooledBlock
  <2>3. Shelved(e)
    BY <2>1, NullAssumption DEF OrderInv, Recycled, Returning, Shelved
  <2> QED
    BY <1>5, <1>7, <2>2, <2>3 DEF DeleterReturn
<1>8. ASSUME ReleaseImpl PROVE Shelved(free_blocks[d][k])'
  <2>1. CASE impl_refs = 1
    BY <1>8, <2>1 DEF ReleaseImpl
  <2> QED
    BY <1>3, <1>8, <2>1 DEF ReleaseImpl
<1>9. ASSUME NEW t \in Threads, HostOnly(t) PROVE Shelved(free_blocks[d][k])'
  <2>1. CASE Prealloc(t)
    BY <1>3, <1>6, <2>1 DEF Prealloc, PreallocBegin, PreallocPushThrows, PreallocEnd, implVars
  <2>2. ASSUME NEW c \in Classes, \/ AllocateWaitFails(t, c) \/ AllocateReuseThrows(t, c)
                                  \/ \E b \in Blocks : AllocateFreshThrows(t, c, b)
        PROVE  Shelved(free_blocks[d][k])'
    BY <1>2, <1>3, <1>4, <2>2 DEF AllocateWaitFails, AllocateReuseThrows, AllocateFreshThrows
  <2>3. CASE Handle(t)
    BY <1>3, <2>3 DEF Handle, Drop, DropLast, Share, implVars
  <2>4. ASSUME NEW i \in Buffers, DeleterFails(t, i) \/ DeleterCount(t, i)
        PROVE  UNCHANGED free_blocks
    BY <2>4 DEF DeleterFails, DeleterCount, implVars
  <2>5. ASSUME NEW i \in Buffers, DeleterRelease(t, i) PROVE ReleaseImpl
    BY <2>5 DEF DeleterRelease
  <2>6. CASE DestroyPool(t)
    BY <1>8, <2>6 DEF DestroyPool
  <2> QED
    BY <1>3, <1>7, <1>8, <1>9, <2>1, <2>2, <2>3, <2>4, <2>5, <2>6 DEF HostOnly
<1>10. ASSUME NEW t \in Threads, NEW i \in Buffers,
              \/ DeleterRecordOrdered(t, i)
              \/ \E s \in Queues : Use(t, i, s)
              \/ \E c \in Classes, s \in Streams, b \in Blocks : AllocateFreshUnordered(t, i, c, s, b)
       PROVE  UNCHANGED free_blocks
  BY <1>10 DEF DeleterRecordOrdered, DeleterRecord, Use, AllocateFreshUnordered, AllocateFresh, vars, implVars
<1>11. ASSUME NEW t \in Threads, NEW i \in Buffers, NEW c \in Classes, NEW s \in Streams,
              AllocateReuseOrdered(t, i, c, s)
       PROVE  Old
  BY <1>4, <1>11 DEF AllocateReuseOrdered, AllocateReuse
<1>12. CASE (\E s \in Queues : Exec(s)) \/ Finished \/ UNCHANGED orderVars
  BY <1>3, <1>12 DEF Exec, Finished, orderVars, vars, implVars
<1> QED
  BY <1>2, <1>3, <1>9, <1>10, <1>11, <1>12 DEF OrderNext

\* Memory goes back to the driver only with Impl, after which nobody allocates.
LEMMA UntouchedNext ==
    ASSUME OrderInv, [OrderNext]_orderVars, uses' \subseteq uses
    PROVE  Untouched'
<1>0. /\ TypeOK /\ Counts /\ NoThread \notin Threads
      /\ heap \in [Blocks -> Classes \cup {NoClass}] /\ NoClass \notin Classes
      /\ mtx # NoThread => pool_alive
      /\ pool_alive => \A b \in Blocks : heap[b] = NoClass => Unused(b)
  BY NullAssumption DEF OrderInv, Recycled, Untouched, TypeOK
<1>1. ASSUME mtx' # NoThread => pool_alive',
             pool_alive' => pool_alive /\ \A b \in Blocks : heap'[b] = NoClass => heap[b] = NoClass
      PROVE  Untouched'
  BY <1>0, <1>1, NoNewUse DEF Untouched
<1>2. CASE UNCHANGED <<mtx, pool_alive, heap>>
  BY <1>0, <1>1, <1>2
<1>3. ASSUME NEW b \in Blocks, NEW c \in Classes, raw_alloc(b, c),
             UNCHANGED pool_alive, mtx' \in {mtx, NoThread}
      PROVE  Untouched'
  BY <1>0, <1>1, <1>3 DEF raw_alloc
<1>4. ASSUME NEW t \in Threads, Prealloc(t) PROVE Untouched'
  <2>1. ASSUME NEW c \in Classes, NEW n \in 1..MaxFill, PreallocBegin(t, c, n) PROVE Untouched'
    BY <1>1, <2>1 DEF PreallocBegin, lifeVars
  <2>2. ASSUME NEW b \in Blocks, PreallocPush(t, b) \/ PreallocPushThrows(t, b) PROVE Untouched'
    <3>1. filling.class \in Classes
      BY <1>0 DEF TypeOK
    <3> QED
      BY <1>3, <2>2, <3>1 DEF PreallocPush, PreallocPushThrows, lifeVars
  <2>3. CASE PreallocEnd(t)
    BY <1>0, <1>1, <2>3 DEF PreallocEnd, lifeVars
  <2> QED
    BY <1>4, <2>1, <2>2, <2>3 DEF Prealloc
<1>5. ASSUME NEW t \in Threads, DestroyPool(t) PROVE Untouched'
  BY <1>0, <1>5 DEF DestroyPool, fillVars, Untouched
<1>6. ASSUME NEW t \in Threads, NEW i \in Buffers, DeleterRelease(t, i) PROVE Untouched'
  <2>1. UNCHANGED <<mtx, pool_alive>> /\ ReleaseImpl
    BY <1>6 DEF DeleterRelease, fillVars
  <2>2. CASE impl_refs = 1
    <3>1. Control # {}
      BY <1>6 DEF DeleterRelease, At, Control
    <3>2. Cardinality(Control) \in Nat /\ Cardinality(Control) # 0
      BY <3>1, CountedSetsFinite, FS_EmptySet
    <3>3. ~pool_alive
      BY <1>0, <2>2, <3>2 DEF Counts
    <3> QED
      BY <1>0, <1>1, <2>1, <3>3
  <2>3. CASE impl_refs # 1
    BY <1>2, <2>1, <2>3 DEF ReleaseImpl
  <2> QED
    BY <2>2, <2>3
<1>7. ASSUME NEW t \in Threads,
             \/ Handle(t)
             \/ \E i \in Buffers : DeleterReturn(t, i) \/ DeleterFails(t, i) \/ DeleterCount(t, i)
             \/ \E c \in Classes : AllocateWaitFails(t, c) \/ AllocateReuseThrows(t, c)
      PROVE  UNCHANGED <<mtx, pool_alive, heap>>
  BY <1>7 DEF Handle, Drop, DropLast, Share, DeleterReturn, DeleterFails, DeleterCount,
              AllocateWaitFails, AllocateReuseThrows, Abandon, fillVars, lifeVars
<1>8. ASSUME NEW t \in Threads, NEW c \in Classes, NEW b \in Blocks, AllocateFreshThrows(t, c, b)
      PROVE  Untouched'
  BY <1>3, <1>8 DEF AllocateFreshThrows, Abandon, fillVars, lifeVars
<1>9. ASSUME NEW t \in Threads, HostOnly(t) PROVE Untouched'
  BY <1>2, <1>4, <1>5, <1>6, <1>7, <1>8, <1>9 DEF HostOnly
<1>10. ASSUME NEW t \in Threads, NEW i \in Buffers, NEW c \in Classes, NEW s \in Streams,
              NEW b \in Blocks, AllocateFreshUnordered(t, i, c, s, b)
       PROVE  Untouched'
  BY <1>3, <1>10 DEF AllocateFreshUnordered, AllocateFresh, HandOut, fillVars
<1>11. ASSUME NEW t \in Threads, NEW i \in Buffers, NEW c \in Classes, NEW s \in Streams,
              AllocateReuseOrdered(t, i, c, s)
       PROVE  UNCHANGED <<mtx, pool_alive, heap>>
  BY <1>11 DEF AllocateReuseOrdered, AllocateReuse, HandOut, fillVars
<1>12. ASSUME NEW t \in Threads, NEW i \in Buffers,
              DeleterRecordOrdered(t, i) \/ \E s \in Queues : Use(t, i, s)
       PROVE  UNCHANGED <<mtx, pool_alive, heap>>
  BY <1>12 DEF DeleterRecordOrdered, DeleterRecord, Use, vars, fillVars, lifeVars
<1>13. CASE (\E s \in Queues : Exec(s)) \/ Finished \/ UNCHANGED orderVars
  BY <1>2, <1>13 DEF Exec, Finished, orderVars, vars, fillVars, lifeVars
<1> QED
  BY <1>2, <1>9, <1>10, <1>11, <1>12, <1>13 DEF OrderNext

-----------------------------------------------------------------------------
\* A kernel on a held block goes behind all that is queued on the block; no
\* other buffer and no bucket has it.
LEMMA UseKeepsOrder ==
    ASSUME OrderInv, [OrderNext]_orderVars, OwnStreams,
           NEW t \in Threads, NEW i \in Buffers, NEW s \in Queues, Use(t, i, s)
    PROVE  Recycled'
<1>1. /\ TypeOK /\ Queued /\ Placed /\ Cuts' \subseteq Cuts /\ UNCHANGED vars
      /\ t \in buf[i].refs
  BY GroundNext DEF OrderInv, Use
<1>2. /\ buf[i].phase = "live" /\ buf[i].ptr \in Blocks
      /\ s = buf[i].stream
  BY <1>1, UsedBlock DEF OrderInv, Use, UsableStreams, OwnStreams
<1>3. PICK b, n : b = buf[i].ptr /\ n = issued[s]
  OBVIOUS
<1>4. n \in Nat /\ issued'[s] = n + 1 /\ b \in Blocks /\ b # NoBlock
  BY <1>1, <1>2, <1>3, NullAssumption DEF Use, Enqueued, Queued
<1>5. PICK u : /\ uses' = uses \cup {u}
               /\ u.s = s /\ u.pos = n + 1 /\ u.block = b /\ u.gen = gen[b]
  <2> DEFINE new == [s |-> s, pos |-> n + 1, block |-> b, gen |-> gen[b]]
  <2>1. uses' = uses \cup {new}
    BY <1>3 DEF Use
  <2>2. new.s = s /\ new.pos = n + 1 /\ new.block = b /\ new.gen = gen[b]
    OBVIOUS
  <2> HIDE DEF new
  <2> QED
    BY <2>1, <2>2
<1>6. Clear(b, s, n)
  BY <1>2, <1>3 DEF OrderInv, Recycled, Held
<1>7. InOrder'
  <2> SUFFICES ASSUME NEW x \in uses', NEW v \in uses', x.block = v.block, v.gen < x.gen,
                      NEW D \in Cuts', D[x.s] >= x.pos - 1
               PROVE  D[v.s] >= v.pos
    BY DEF InOrder, Precedes
  <2>1. CASE x \in uses /\ v \in uses
    BY <1>1, <2>1 DEF OrderInv, Recycled, InOrder, Precedes
  <2>2. CASE v \in uses /\ x = u
    BY <1>1, <1>4, <1>5, <1>6, <2>2 DEF Clear, Precedes
  <2>3. CASE v = u
    <3>1. x.gen <= gen[b]
      BY <1>1, <1>4, <1>5, <2>3 DEF Queued, Op
    <3>2. x.gen \in Nat /\ gen[b] \in Nat
      BY <1>1, <1>4, <1>5 DEF Queued, Op
    <3> QED
      BY <1>5, <2>3, <3>1, <3>2
  <2> QED
    BY <1>5, <2>1, <2>2, <2>3
<1>8. Held'
  <2> SUFFICES ASSUME NEW j \in Buffers, buf[j].phase \in {"live", "record"}
               PROVE  Clear(buf[j].ptr, buf[j].stream, issued[buf[j].stream])'
    BY <1>1 DEF Held, vars
  <2>1. PICK c, r, k, m : c = buf[j].ptr /\ r = buf[j].stream /\ k = issued[r] /\ m = issued'[r]
    OBVIOUS
  <2>2. r \in Queues /\ Clear(c, r, k)
    BY <1>1, <2>1 DEF TypeOK, Buffer, Queues, OrderInv, Recycled, Held
  <2>3. k \in Nat /\ m \in Nat /\ k <= m
    BY <1>1, <2>1, <2>2, IssuedGrows
  <2>4. u.block # c \/ (u.s = r /\ u.pos \in Nat /\ u.pos <= m)
    BY <1>1, <1>2, <1>3, <1>4, <1>5, <2>1 DEF Placed, OneHolder
  <2>5. Clear(c, r, m)'
    BY <1>1, <1>5, <2>2, <2>3, <2>4, ClearWithUse
  <2> QED
    BY <1>1, <2>1, <2>5 DEF Clear, Precedes, vars
<1>9. Returning'
  <2> SUFFICES ASSUME NEW j \in Buffers, buf[j].phase = "return"
               PROVE  /\ buf[j].event \in Events
                      /\ Clear(buf[j].ptr, buf[j].event.on, buf[j].event.upto)'
    BY <1>1 DEF Returning, vars
  <2>1. PICK c, e : c = buf[j].ptr /\ e = buf[j].event
    OBVIOUS
  <2>2. e \in Events /\ Clear(c, e.on, e.upto)
    BY <2>1 DEF OrderInv, Recycled, Returning
  <2>3. c # b
    BY <1>1, <1>2, <1>3, <1>4, <2>1 DEF Placed, OneHolder
  <2>4. e.on \in Queues /\ e.upto \in Nat
    BY <2>2, EventFields
  <2>5. Clear(c, e.on, e.upto)'
    BY <1>1, <1>5, <2>2, <2>3, <2>4, ClearWithUse
  <2> QED
    BY <1>1, <2>1, <2>2, <2>5 DEF Clear, Precedes, vars
<1>10. OnShelf'
  <2> SUFFICES ASSUME NEW d \in Classes, NEW k \in 1..Len(free_blocks[d])
               PROVE  Shelved(free_blocks[d][k])'
    BY <1>1 DEF OnShelf, vars, implVars
  <2>1. PICK e : e = free_blocks[d][k]
    OBVIOUS
  <2>2. e \in PooledBlock
    BY <1>1, <2>1, ElementOfSeq, LenProperties DEF TypeOK
  <2>3. Shelved(e)
    BY <2>1 DEF OrderInv, Recycled, OnShelf
  <2>4. e.ptr # b
    BY <1>1, <1>3, <2>1 DEF Placed, FreeListsSound
  <2>5. CASE e.event = NoEvent
    BY <1>1, <1>5, <2>1, <2>3, <2>4, <2>5 DEF Shelved, Unused, vars, implVars
  <2>6. CASE e.event # NoEvent
    <3>1. e.event \in Events /\ Clear(e.ptr, e.event.on, e.event.upto)
      BY <2>2, <2>3, <2>6 DEF Shelved, PooledBlock
    <3>2. e.event.on \in Queues /\ e.event.upto \in Nat
      BY <3>1, EventFields
    <3>3. Clear(e.ptr, e.event.on, e.event.upto)'
      BY <1>1, <1>5, <2>4, <3>1, <3>2, ClearWithUse
    <3> QED
      BY <1>1, <2>1, <2>6, <3>3 DEF Shelved, Clear, Precedes, vars, implVars
  <2> QED
    BY <2>5, <2>6
<1>11. Untouched'
  <2>1. heap[b] # NoClass
    BY <1>1, <1>2, <1>3, <1>4, NullAssumption DEF Placed, HeldFits, TypeOK, Buffer
  <2> QED
    BY <1>1, <1>5, <2>1 DEF OrderInv, Recycled, Untouched, Unused, vars, fillVars, lifeVars
<1> QED
  BY <1>7, <1>8, <1>9, <1>10, <1>11 DEF Recycled

LEMMA OrderInvNext == OrderInv /\ OwnStreams /\ [OrderNext]_orderVars => OrderInv'
<1> SUFFICES ASSUME OrderInv, OwnStreams, [OrderNext]_orderVars PROVE OrderInv'
  OBVIOUS
<1>1. (TypeOK /\ HoldsBlock /\ Placed /\ Counts /\ Queued)'
  BY GroundNext
<1>2. ASSUME uses' \subseteq uses PROVE Recycled'
  <2>1. InOrder'
    BY <1>2, NoNewUse
  <2>2. Held' /\ Returning' /\ OnShelf' /\ Untouched'
    BY <1>2, HeldNext, ReturningNext, OnShelfNext, UntouchedNext
  <2> QED
    BY <2>1, <2>2 DEF Recycled
<1>3. ASSUME NEW t \in Threads, NEW i \in Buffers, NEW s \in Queues, Use(t, i, s) PROVE Recycled'
  BY <1>3, UseKeepsOrder
<1>4. (uses' \subseteq uses) \/ \E t \in Threads, i \in Buffers, s \in Queues : Use(t, i, s)
  BY DEF OrderNext, HostOnly, DeleterRecordOrdered, AllocateReuseOrdered, AllocateFreshUnordered,
         Exec, orderVars, gpuVars
<1> QED
  BY <1>1, <1>2, <1>3, <1>4 DEF OrderInv

LEMMA OrderInvInit == OrderInit => OrderInv
<1>1. OrderInit => Init
  BY DEF OrderInit
<1> QED
  BY <1>1, TypeInit, PlacedInit, CountsInit, QueuedInit, RecycledInit DEF OrderInv

\* What the device may start has its block to itself, whatever came before:
\* the last owner's event stands for all owners before it.
LEMMA InOrderSuffices == OrderInv => ReuseOrdered
<1> SUFFICES ASSUME OrderInv, NEW u \in uses, u.pos = Next1(u.s),
                    NEW v \in uses, v.block = u.block
             PROVE  v.gen >= u.gen
  BY DEF ReuseOrdered
<1>1. Queued /\ done \in Cuts
  BY DoneIsCut DEF OrderInv
<1>2. u \in Op /\ v \in Op
  BY <1>1 DEF Queued
<1>3. ASSUME v.gen < u.gen PROVE FALSE
  <2>1. Precedes(v, u.s, u.pos - 1)
    BY <1>3 DEF OrderInv, Recycled, InOrder
  <2>2. done[u.s] >= u.pos - 1
    BY <1>1, <1>2 DEF Next1, Queued, Op
  <2>3. done[v.s] >= v.pos
    BY <1>1, <2>1, <2>2 DEF Precedes
  <2>4. done[v.s] < v.pos
    BY <1>1 DEF Queued
  <2> QED
    BY <1>1, <1>2, <2>3, <2>4 DEF Queued, Op
<1> QED
  BY <1>2, <1>3 DEF Op

-----------------------------------------------------------------------------
\* Types, also of the device's queues, hold whichever streams buffers are
\* used on and whether or not events fail.
THEOREM QueuesTyped == OrderSpec => []OrderTypeOK
<1>1. OrderInit => TypeOK /\ HoldsBlock /\ Queued
  BY TypeInit, QueuedInit DEF OrderInit
<1>2. TypeOK /\ HoldsBlock /\ Queued /\ [OrderNext]_orderVars
          => (TypeOK /\ HoldsBlock /\ Queued)'
  BY OrderStep, TypeNext, HoldsBlockNext, QueuedNext
<1>3. TypeOK /\ Queued => OrderTypeOK
  BY DEF OrderTypeOK, Queued, Op, Wait
<1> QED
  BY <1>1, <1>2, <1>3, PTL DEF OrderSpec

\* The pool over the device is still a block allocator: what memory_pool
\* shows of the pool holds of it with the device underneath.
THEOREM DeviceKeepsPromise == OrderSpec => AbstractSpec
<1>1. OrderInit => Init /\ TypeOK /\ HoldsBlock /\ Queued
  BY TypeInit, QueuedInit DEF OrderInit
<1>2. TypeOK /\ HoldsBlock /\ Queued /\ [OrderNext]_orderVars
          => (TypeOK /\ HoldsBlock /\ Queued)' /\ [Next]_vars
  BY OrderStep, TypeNext, HoldsBlockNext, QueuedNext
<1> QED
  BY <1>1, <1>2, PoolKeepsPromise, PTL DEF OrderSpec, Spec

\* A recycled block is never touched by two owners at once: no operation on
\* it starts before all that earlier owners queued on it has completed, on
\* whatever streams and after however many hands.
THEOREM RecyclingIsOrdered == ASSUME OwnStreams PROVE OrderSpec => []ReuseOrdered
<1>1. OrderInit => OrderInv
  BY OrderInvInit
<1>2. OrderInv /\ [OrderNext]_orderVars => OrderInv'
  BY OrderInvNext
<1> QED
  BY <1>1, <1>2, InOrderSuffices, PTL DEF OrderSpec
=============================================================================
