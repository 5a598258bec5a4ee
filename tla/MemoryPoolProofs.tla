-------------------------- MODULE MemoryPoolProofs --------------------------
(***************************************************************************)
(* Theorems about MemoryPool, for every number of threads, buffers, blocks *)
(* and size classes.                                                       *)
(***************************************************************************)
EXTENDS MemoryPool, FiniteSetTheorems, SequenceTheorems, WellFoundedInduction, TLAPS

-----------------------------------------------------------------------------
\* What pop_back does to a bucket.
LEMMA PopBack ==
    ASSUME NEW S, NEW s \in Seq(S), s # <<>>
    PROVE  /\ Len(s) \in Nat \ {0}
           /\ s[Len(s)] \in S
           /\ SubSeq(s, 1, Len(s) - 1) \in Seq(S)
           /\ Len(SubSeq(s, 1, Len(s) - 1)) = Len(s) - 1
           /\ \A k \in 1..(Len(s) - 1) : SubSeq(s, 1, Len(s) - 1)[k] = s[k]
<1>1. Len(s) \in Nat /\ Len(s) # 0
  BY EmptySeq, LenProperties
<1>2. s[Len(s)] \in S
  BY <1>1, ElementOfSeq
<1> QED
  BY <1>1, <1>2, SubSeqProperties

-----------------------------------------------------------------------------
(***************************************************************************)
(* TypeOK is not inductive: the deleter pushes and gives up on buf[i].ptr, *)
(* which must be a block then.  A buffer has its block from allocate to    *)
(* the deleter's push, and some thread refers to it exactly while it lives *)
(***************************************************************************)
HoldsBlock == \A i \in Buffers :
    /\ buf[i].ptr # NoBlock <=> buf[i].phase \in {"live", "record", "return"}
    /\ buf[i].refs # {} <=> buf[i].phase = "live"

LEMMA TypeInit == Init => TypeOK /\ HoldsBlock
  BY DEF Init, TypeOK, HoldsBlock, Buffer, Phases, PooledBlock

LEMMA HoldsBlockNext == TypeOK /\ HoldsBlock /\ [Next]_vars => HoldsBlock'
<1> SUFFICES ASSUME buf \in [Buffers -> Buffer], HoldsBlock, [Next]_vars,
                    free_blocks \in [Classes -> Seq(PooledBlock)]
             PROVE  HoldsBlock'
  BY DEF TypeOK
<1> USE DEF HoldsBlock, Buffer, Phases
<1>1. CASE UNCHANGED buf
  BY <1>1
<1>2. ASSUME NEW t \in Threads, NEW c \in Classes, NEW i \in Buffers,
             NEW s \in Streams, NEW b \in Blocks, HandOut(t, i, c, s, b)
      PROVE  HoldsBlock'
  BY <1>2, NullAssumption DEF HandOut
<1>3. ASSUME NEW t \in Threads, NEW c \in Classes, NEW i \in Buffers,
             NEW s \in Streams, AllocateReuse(t, i, c, s)
      PROVE  HoldsBlock'
  <2>1. free_blocks[c] \in Seq(PooledBlock) /\ free_blocks[c] # <<>>
    BY <1>3 DEF AllocateReuse
  <2>2. Back(c) \in PooledBlock
    BY <2>1, PopBack DEF Back
  <2>3. Back(c).ptr \in Blocks
    BY <2>2 DEF PooledBlock
  <2> QED
    BY <1>2, <1>3, <2>3 DEF AllocateReuse
<1>4. ASSUME NEW t \in Threads, NEW i \in Buffers, Drop(t, i)
      PROVE  HoldsBlock'
  BY <1>4 DEF Drop
<1>5. ASSUME NEW t \in Threads, NEW i \in Buffers, DropLast(t, i)
      PROVE  HoldsBlock'
  BY <1>5 DEF DropLast
<1>6. ASSUME NEW t \in Threads, NEW u \in Threads, NEW i \in Buffers, Share(t, u, i)
      PROVE  HoldsBlock'
  BY <1>6 DEF Share
<1>7. ASSUME NEW t \in Threads, NEW i \in Buffers, NEW e \in Events \cup {NoEvent},
             DeleterRecord(t, i, e)
      PROVE  HoldsBlock'
  BY <1>7 DEF DeleterRecord, At
<1>8. ASSUME NEW t \in Threads, NEW i \in Buffers, DeleterReturn(t, i)
      PROVE  HoldsBlock'
  BY <1>8 DEF DeleterReturn, At
<1>9. ASSUME NEW t \in Threads, NEW i \in Buffers, DeleterFails(t, i)
      PROVE  HoldsBlock'
  BY <1>9 DEF DeleterFails, At
<1>10. ASSUME NEW t \in Threads, NEW i \in Buffers, DeleterCount(t, i)
       PROVE  HoldsBlock'
  BY <1>10 DEF DeleterCount, At
<1>11. ASSUME NEW t \in Threads, NEW i \in Buffers, DeleterRelease(t, i)
       PROVE  HoldsBlock'
  BY <1>11 DEF DeleterRelease, At
<1>12. ASSUME NEW t \in Threads, Prealloc(t) \/ DestroyPool(t)
       PROVE  UNCHANGED buf
  BY <1>12 DEF Prealloc, PreallocBegin, PreallocPush, PreallocPushThrows, PreallocEnd,
               DestroyPool
<1>13. ASSUME NEW t \in Threads, Allocate(t)
       PROVE  HoldsBlock'
  BY <1>1, <1>2, <1>3, <1>13
  DEF Allocate, AllocateFresh, AllocateWaitFails, AllocateReuseThrows,
      AllocateFreshThrows, Abandon
<1>14. CASE UNCHANGED vars
  BY <1>1, <1>14 DEF vars
<1> QED
  BY <1>1, <1>4, <1>5, <1>6, <1>7, <1>8, <1>9, <1>10, <1>11, <1>12, <1>13, <1>14
  DEF Next, Handle, Deleter, Finished

LEMMA TypeNext == TypeOK /\ HoldsBlock /\ [Next]_vars => TypeOK'
<1> SUFFICES ASSUME TypeOK, HoldsBlock, [Next]_vars
             PROVE  TypeOK'
  OBVIOUS
<1>0. ASSUME NEW c \in Classes
      PROVE  ClassBytes[c] \in Nat /\ ClassBytes[c] > 0
  BY ClassAssumption
<1>b. buf \in [Buffers -> Buffer]
  BY DEF TypeOK
<1>f. free_blocks \in [Classes -> Seq(PooledBlock)]
  BY DEF TypeOK
<1>1. ASSUME NEW t \in Threads, NEW c \in Classes, NEW n \in 1..MaxFill,
             PreallocBegin(t, c, n)
      PROVE  TypeOK'
  BY <1>1, BoundAssumption DEF TypeOK, PreallocBegin, implVars, lifeVars
<1>2. ASSUME NEW t \in Threads, NEW b \in Blocks, PreallocPush(t, b)
      PROVE  TypeOK'
  <2>1. filling \in [class : Classes, left : Nat] /\ filling.left > 0
    BY <1>2 DEF TypeOK, PreallocPush
  <2>2. filling' \in [class : Classes, left : Nat]
    BY <1>2, <2>1 DEF PreallocPush
  <2>3. [ptr |-> b, event |-> NoEvent] \in PooledBlock
    BY DEF PooledBlock
  <2>4. free_blocks' \in [Classes -> Seq(PooledBlock)]
    BY <1>2, <1>f, <2>1, <2>3, AppendProperties DEF PreallocPush, Pushed
  <2> QED
    BY SMTT(30), <1>0, <1>2, <2>1, <2>2, <2>4 DEF TypeOK, PreallocPush, raw_alloc, lifeVars
<1>18. ASSUME NEW t \in Threads, NEW b \in Blocks, PreallocPushThrows(t, b)
       PROVE  TypeOK'
  <2>1. filling.class \in Classes
    BY DEF TypeOK
  <2> QED
    BY <1>0, <1>18, <2>1 DEF TypeOK, PreallocPushThrows, raw_alloc, lifeVars
<1>3. ASSUME NEW t \in Threads, PreallocEnd(t)
      PROVE  TypeOK'
  BY <1>3 DEF TypeOK, PreallocEnd, implVars, lifeVars
<1>4. ASSUME NEW t \in Threads, NEW c \in Classes, NEW i \in Buffers,
             NEW s \in Streams, AllocateReuse(t, i, c, s)
      PROVE  TypeOK'
  <2>1. Popped(c) \in [Classes -> Seq(PooledBlock)] /\ Back(c) \in PooledBlock
    BY <1>4, <1>f, PopBack DEF AllocateReuse, Popped, Back
  <2>2. Back(c).ptr \in Blocks
    BY <2>1 DEF PooledBlock
  <2>3. buf' \in [Buffers -> Buffer]
    BY <1>4, <1>b, <2>2 DEF AllocateReuse, HandOut, Buffer, Phases
  <2> QED
    BY <1>0, <1>4, <2>1, <2>3 DEF TypeOK, AllocateReuse, HandOut, fillVars
<1>5. ASSUME NEW t \in Threads, NEW c \in Classes, NEW i \in Buffers,
             NEW s \in Streams, NEW b \in Blocks, AllocateFresh(t, i, c, s, b)
      PROVE  TypeOK'
  <2>1. buf' \in [Buffers -> Buffer]
    BY <1>5, <1>b DEF AllocateFresh, HandOut, Buffer, Phases
  <2> QED
    BY <1>0, <1>5, <2>1 DEF TypeOK, AllocateFresh, HandOut, raw_alloc, fillVars
<1>6. ASSUME NEW t \in Threads, NEW c \in Classes, AllocateWaitFails(t, c)
      PROVE  TypeOK'
  <2>1. Popped(c) \in [Classes -> Seq(PooledBlock)]
    BY <1>6, <1>f, PopBack DEF AllocateWaitFails, Popped
  <2> QED
    BY <1>6, <2>1 DEF TypeOK, AllocateWaitFails, fillVars, lifeVars
<1>19. ASSUME NEW t \in Threads, NEW c \in Classes, AllocateReuseThrows(t, c)
       PROVE  TypeOK'
  <2>1. Popped(c) \in [Classes -> Seq(PooledBlock)] /\ Back(c) \in PooledBlock
    BY <1>19, <1>f, PopBack DEF AllocateReuseThrows, Popped, Back
  <2>2. Back(c).ptr \in Blocks
    BY <2>1 DEF PooledBlock
  <2> QED
    BY <1>0, <1>19, <2>1, <2>2
    DEF TypeOK, AllocateReuseThrows, Abandon, fillVars, lifeVars
<1>20. ASSUME NEW t \in Threads, NEW c \in Classes, NEW b \in Blocks,
              AllocateFreshThrows(t, c, b)
       PROVE  TypeOK'
  BY <1>0, <1>20
  DEF TypeOK, AllocateFreshThrows, Abandon, raw_alloc, fillVars, lifeVars
<1>7. ASSUME NEW t \in Threads, NEW i \in Buffers, Drop(t, i)
      PROVE  TypeOK'
  <2>1. buf' \in [Buffers -> Buffer]
    BY <1>7, <1>b DEF Drop, Buffer, Phases
  <2> QED
    BY <1>7, <2>1 DEF TypeOK, Drop, implVars, fillVars, lifeVars
<1>17. ASSUME NEW t \in Threads, NEW i \in Buffers, DropLast(t, i)
       PROVE  TypeOK'
  <2>1. buf' \in [Buffers -> Buffer]
    <3>1. [buf[i] EXCEPT !.refs = {}, !.phase = "record", !.deleter = t] \in Buffer
      BY <1>b DEF Buffer, Phases
    <3> QED
      BY <1>17, <1>b, <3>1 DEF DropLast
  <2> QED
    BY <1>17, <2>1 DEF TypeOK, DropLast, implVars, fillVars, lifeVars
<1>8. ASSUME NEW t \in Threads, NEW u \in Threads, NEW i \in Buffers, Share(t, u, i)
      PROVE  TypeOK'
  <2>1. buf' \in [Buffers -> Buffer]
    BY <1>8, <1>b DEF Share, Buffer, Phases
  <2> QED
    BY <1>8, <2>1 DEF TypeOK, Share, implVars, fillVars, lifeVars
<1>9. ASSUME NEW t \in Threads, NEW i \in Buffers, NEW e \in Events \cup {NoEvent},
             DeleterRecord(t, i, e)
      PROVE  TypeOK'
  <2>1. buf' \in [Buffers -> Buffer]
    <3>1. [buf[i] EXCEPT !.phase = "return", !.event = e] \in Buffer
      BY <1>9, <1>b DEF Buffer, Phases
    <3> QED
      BY <1>9, <1>b, <3>1 DEF DeleterRecord
  <2> QED
    BY <1>9, <2>1 DEF TypeOK, DeleterRecord, implVars, fillVars, lifeVars
<1>10. ASSUME NEW t \in Threads, NEW i \in Buffers, DeleterReturn(t, i)
       PROVE  TypeOK'
  <2>1. buf' \in [Buffers -> Buffer]
    <3>1. [buf[i] EXCEPT !.phase = "count", !.ptr = NoBlock] \in Buffer
      BY <1>10, <1>b DEF Buffer, Phases
    <3> QED
      BY <1>10, <1>b, <3>1 DEF DeleterReturn
  <2>2. total_in_use' \in Int
    BY <1>0, <1>10, <1>b DEF TypeOK, DeleterReturn, Buffer
  <2>3. free_blocks' \in [Classes -> Seq(PooledBlock)]
    <3>1. buf[i] \in Buffer /\ buf[i].ptr # NoBlock
      BY <1>10, <1>b DEF DeleterReturn, At, HoldsBlock
    <3>2. [ptr |-> buf[i].ptr, event |-> buf[i].event] \in PooledBlock
      BY <3>1 DEF Buffer, PooledBlock
    <3> QED
      BY <1>10, <1>f, <3>1, <3>2, AppendProperties DEF DeleterReturn, Pushed, Buffer
  <2> QED
    BY <1>10, <2>1, <2>2, <2>3 DEF TypeOK, DeleterReturn, fillVars, lifeVars
<1>11. ASSUME NEW t \in Threads, NEW i \in Buffers, DeleterFails(t, i)
       PROVE  TypeOK'
  <2>1. buf' \in [Buffers -> Buffer]
    <3>1. [buf[i] EXCEPT !.phase = "release", !.ptr = NoBlock] \in Buffer
      BY <1>11, <1>b DEF Buffer, Phases
    <3> QED
      BY <1>11, <1>b, <3>1 DEF DeleterFails
  <2>2. buf[i].ptr \in Blocks
    BY <1>11, <1>b DEF DeleterFails, At, HoldsBlock, Buffer
  <2> QED
    BY <1>11, <2>1, <2>2 DEF TypeOK, DeleterFails, implVars, fillVars, lifeVars
<1>12. ASSUME NEW t \in Threads, NEW i \in Buffers, DeleterCount(t, i)
       PROVE  TypeOK'
  <2>1. buf' \in [Buffers -> Buffer]
    BY <1>12, <1>b DEF DeleterCount, Buffer, Phases
  <2> QED
    BY <1>12, <2>1 DEF TypeOK, DeleterCount, fillVars, lifeVars
<1>13. ASSUME ReleaseImpl
       PROVE  /\ impl_refs' \in Int
              /\ heap' \in [Blocks -> Classes \cup {NoClass}]
              /\ free_blocks' \in [Classes -> Seq(PooledBlock)]
  <2>1. [c \in Classes |-> <<>>] \in [Classes -> Seq(PooledBlock)]
    OBVIOUS
  <2>2. CASE impl_refs = 1
    <3>1. heap \in [Blocks -> Classes \cup {NoClass}] /\ impl_refs \in Int
      BY DEF TypeOK
    <3>2. /\ impl_refs' = impl_refs - 1
          /\ heap' = [b \in Blocks |-> IF InBucket(b) THEN NoClass ELSE heap[b]]
          /\ free_blocks' = [c \in Classes |-> <<>>]
      BY <1>13, <2>2 DEF ReleaseImpl
    <3> QED
      BY <2>1, <3>1, <3>2
  <2>3. CASE impl_refs # 1
    BY <1>13, <2>3 DEF TypeOK, ReleaseImpl
  <2> QED
    BY <2>2, <2>3
<1>14. ASSUME NEW t \in Threads, NEW i \in Buffers, DeleterRelease(t, i)
       PROVE  TypeOK'
  <2>1. buf' \in [Buffers -> Buffer]
    <3>1. [buf[i] EXCEPT !.phase = "none", !.deleter = NoThread,
                            !.event = NoEvent] \in Buffer
      BY <1>14, <1>b DEF Buffer, Phases
    <3> QED
      BY <1>14, <1>b, <3>1 DEF DeleterRelease
  <2>2. ReleaseImpl
    BY <1>14 DEF DeleterRelease
  <2> QED
    BY <1>13, <1>14, <2>1, <2>2 DEF TypeOK, DeleterRelease, fillVars
<1>15. ASSUME NEW t \in Threads, DestroyPool(t)
       PROVE  TypeOK'
  <2>1. ReleaseImpl
    BY <1>15 DEF DestroyPool
  <2> QED
    BY <1>13, <1>15, <2>1 DEF TypeOK, DestroyPool, fillVars
<1>16. CASE UNCHANGED vars
  BY <1>16 DEF TypeOK, vars, implVars, fillVars, lifeVars
<1> QED
  BY <1>1, <1>2, <1>3, <1>4, <1>5, <1>6, <1>7, <1>8, <1>9, <1>10, <1>11, <1>12,
     <1>14, <1>15, <1>16, <1>17, <1>18, <1>19, <1>20
  DEF Next, Prealloc, Allocate, Handle, Deleter, Finished

\* The type invariant of MemoryPool, whatever the constants.
THEOREM TypeCorrect == Spec => []TypeOK
  BY TypeInit, TypeNext, HoldsBlockNext, PTL DEF Spec

-----------------------------------------------------------------------------
(***************************************************************************)
(* Who has which block.  FreeListsSound is inductive only together with    *)
(* what it takes for granted of the blocks outside the buckets: a held     *)
(* block has one holder and the class it was made for, and a block the     *)
(* exception left adrift is nowhere.                                       *)
(***************************************************************************)
HeldFits == \A i \in Buffers : buf[i].ptr # NoBlock => heap[buf[i].ptr] = buf[i].size_class
OneHolder == \A i, j \in Buffers : buf[i].ptr # NoBlock /\ buf[i].ptr = buf[j].ptr => i = j
AdriftGone == \A b \in adrift : /\ heap[b] # NoClass
                                      /\ ~InBucket(b)
                                      /\ \A i \in Buffers : buf[i].ptr # b
Placed == HeldFits /\ OneHolder /\ FreeListsSound /\ AdriftGone

\* What the bucket operations do, element by element.
LEMMA PushEffect ==
    ASSUME free_blocks \in [Classes -> Seq(PooledBlock)],
           NEW c \in Classes, NEW e \in PooledBlock, free_blocks' = Pushed(c, e)
    PROVE  /\ \A d \in Classes : d # c => free_blocks'[d] = free_blocks[d]
           /\ Len(free_blocks[c]) \in Nat
           /\ Len(free_blocks'[c]) = Len(free_blocks[c]) + 1
           /\ \A k \in 1..Len(free_blocks[c]) : free_blocks'[c][k] = free_blocks[c][k]
           /\ free_blocks'[c][Len(free_blocks[c]) + 1] = e
<1>1. free_blocks'[c] = Append(free_blocks[c], e)
  BY DEF Pushed
<1> QED
  BY <1>1, LenProperties, AppendProperties DEF Pushed

LEMMA PopEffect ==
    ASSUME free_blocks \in [Classes -> Seq(PooledBlock)],
           NEW c \in Classes, free_blocks[c] # <<>>, free_blocks' = Popped(c)
    PROVE  /\ \A d \in Classes : d # c => free_blocks'[d] = free_blocks[d]
           /\ Len(free_blocks[c]) \in Nat \ {0}
           /\ Len(free_blocks'[c]) = Len(free_blocks[c]) - 1
           /\ \A k \in 1..(Len(free_blocks[c]) - 1) : free_blocks'[c][k] = free_blocks[c][k]
           /\ Back(c) \in PooledBlock
<1>1. free_blocks'[c] = SubSeq(free_blocks[c], 1, Len(free_blocks[c]) - 1)
  BY DEF Popped
<1> QED
  BY <1>1, PopBack DEF Popped, Back

\* A bucket only shrinks under pop_back, and what it loses is its back.
LEMMA PopLeaves ==
    ASSUME free_blocks \in [Classes -> Seq(PooledBlock)], FreeListsSound,
           NEW c \in Classes, free_blocks[c] # <<>>, free_blocks' = Popped(c)
    PROVE  /\ \A d \in Classes : \A k \in 1..Len(free_blocks'[d]) :
                 /\ k \in 1..Len(free_blocks[d])
                 /\ free_blocks'[d][k] = free_blocks[d][k]
                 /\ free_blocks'[d][k].ptr # Back(c).ptr
           /\ heap[Back(c).ptr] = c
           /\ InBucket(Back(c).ptr)
           /\ \A i \in Buffers : buf[i].ptr # Back(c).ptr
<1>1. Len(free_blocks[c]) \in 1..Len(free_blocks[c])
  BY PopEffect
<1>2. /\ heap[Back(c).ptr] = c
      /\ \A i \in Buffers : buf[i].ptr # Back(c).ptr
      /\ \A m \in 1..Len(free_blocks[c]) :
            free_blocks[c][m].ptr = Back(c).ptr => m = Len(free_blocks[c])
  BY <1>1 DEF FreeListsSound, Back
<1>3. InBucket(Back(c).ptr)
  BY <1>1 DEF InBucket, Back
<1>4. ASSUME NEW d \in Classes, NEW k \in 1..Len(free_blocks'[d]), d # c
      PROVE  /\ free_blocks'[d] = free_blocks[d]
             /\ free_blocks[d][k].ptr # Back(c).ptr
  BY <1>2, <1>4, PopEffect DEF FreeListsSound
<1>5. ASSUME NEW k \in 1..Len(free_blocks'[c])
      PROVE  /\ k \in 1..(Len(free_blocks[c]) - 1)
             /\ k \in 1..Len(free_blocks[c])
             /\ free_blocks'[c][k] = free_blocks[c][k]
             /\ free_blocks[c][k].ptr # Back(c).ptr
  BY <1>2, PopEffect
<1> QED
  BY <1>2, <1>3, <1>4, <1>5

\* A step that moves no block leaves every block where it was.
LEMMA PlacedQuiet ==
    ASSUME Placed, UNCHANGED <<free_blocks, heap, adrift>>,
           \A i \in Buffers : /\ buf'[i].ptr = buf[i].ptr
                              /\ buf'[i].size_class = buf[i].size_class
    PROVE  Placed'
  BY DEF Placed, HeldFits, OneHolder, FreeListsSound, AdriftGone, InBucket

LEMMA PlacedInit == Init => Placed
  BY DEF Init, Placed, HeldFits, OneHolder, FreeListsSound, AdriftGone

\* A block that leaves no trace in a bucket or a buffer, when it appears.
LEMMA FreshBlock ==
    ASSUME TypeOK, Placed, NEW b \in Blocks, NEW c \in Classes, raw_alloc(b, c)
    PROVE  /\ \A d \in Classes : \A k \in 1..Len(free_blocks[d]) : free_blocks[d][k].ptr # b
           /\ \A i \in Buffers : buf[i].ptr # b
           /\ b \notin adrift
           /\ heap'[b] = c
           /\ \A x \in Blocks : x # b => heap'[x] = heap[x]
<1>1. heap[b] = NoClass /\ heap \in [Blocks -> Classes \cup {NoClass}]
  BY DEF raw_alloc, TypeOK
<1>2. \A i \in Buffers : buf[i].size_class \in Classes
  BY DEF TypeOK, Buffer
<1>3. \A i \in Buffers : buf[i].ptr = b => b # NoBlock
  BY NullAssumption
<1>4. \A i \in Buffers : buf[i].ptr # b
  BY <1>1, <1>2, <1>3, NullAssumption DEF Placed, HeldFits
<1>5. \A d \in Classes : \A k \in 1..Len(free_blocks[d]) : free_blocks[d][k].ptr # b
  BY <1>1, NullAssumption DEF Placed, FreeListsSound
<1>6. heap' = [heap EXCEPT ![b] = c]
  BY DEF raw_alloc
<1> QED
  BY <1>1, <1>4, <1>5, <1>6 DEF Placed, AdriftGone

LEMMA PlacedNext == TypeOK /\ HoldsBlock /\ Placed /\ [Next]_vars => Placed'
<1> SUFFICES ASSUME TypeOK, HoldsBlock, Placed, [Next]_vars
             PROVE  Placed'
  OBVIOUS
<1>b. buf \in [Buffers -> Buffer]
  BY DEF TypeOK
<1>f. free_blocks \in [Classes -> Seq(PooledBlock)]
  BY DEF TypeOK
<1>h. heap \in [Blocks -> Classes \cup {NoClass}] /\ adrift \subseteq Blocks
  BY DEF TypeOK
<1>p. ASSUME NEW d \in Classes, NEW k \in 1..Len(free_blocks[d])
      PROVE  free_blocks[d][k].ptr \in Blocks
  <2>1. free_blocks[d] \in Seq(PooledBlock)
    BY <1>f
  <2>2. free_blocks[d][k] \in PooledBlock
    BY <2>1, ElementOfSeq
  <2> QED
    BY <2>2 DEF PooledBlock
<1>1. ASSUME NEW t \in Threads, NEW b \in Blocks, PreallocPush(t, b)
      PROVE  Placed'
  <2> DEFINE c == filling.class
             e == [ptr |-> b, event |-> NoEvent]
             n == Len(free_blocks[c])
  <2>1. c \in Classes /\ raw_alloc(b, c) /\ free_blocks' = Pushed(c, e)
    BY <1>1 DEF PreallocPush, TypeOK
  <2>2. e \in PooledBlock /\ e.ptr = b
    BY DEF PooledBlock
  <2>3. UNCHANGED <<buf, adrift>>
    BY <1>1 DEF PreallocPush
  <2> HIDE DEF c, e
  <2>4. /\ n \in Nat
        /\ \A d \in Classes : d # c => free_blocks'[d] = free_blocks[d]
        /\ Len(free_blocks'[c]) = n + 1
        /\ \A k \in 1..n : free_blocks'[c][k] = free_blocks[c][k]
        /\ free_blocks'[c][n + 1].ptr = b
    BY <1>f, <2>1, <2>2, PushEffect
  <2>5. /\ \A d \in Classes : \A k \in 1..Len(free_blocks[d]) : free_blocks[d][k].ptr # b
        /\ \A i \in Buffers : buf[i].ptr # b
        /\ b \notin adrift
        /\ heap'[b] = c
        /\ \A x \in Blocks : x # b => heap'[x] = heap[x]
    BY <2>1, FreshBlock
  <2>6. HeldFits' /\ OneHolder'
    BY <1>b, <2>3, <2>5 DEF Placed, HeldFits, OneHolder, Buffer
  <2>7. FreeListsSound'
    <3>1. ASSUME NEW d \in Classes, NEW k \in 1..Len(free_blocks'[d])
          PROVE  \/ d = c /\ k = n + 1
                 \/ k \in 1..Len(free_blocks[d]) /\ free_blocks'[d][k] = free_blocks[d][k]
      BY <2>4
    <3> SUFFICES ASSUME NEW d \in Classes, NEW k \in 1..Len(free_blocks'[d])
                 PROVE  /\ heap'[free_blocks'[d][k].ptr] = d
                        /\ \A i \in Buffers : buf'[i].ptr # free_blocks'[d][k].ptr
                        /\ \A m \in 1..Len(free_blocks'[d]) :
                              free_blocks'[d][m].ptr = free_blocks'[d][k].ptr => m = k
      BY DEF FreeListsSound
    <3>2. CASE d = c /\ k = n + 1
      BY <2>3, <2>4, <2>5, <3>1, <3>2
    <3>3. CASE k \in 1..Len(free_blocks[d]) /\ free_blocks'[d][k] = free_blocks[d][k]
      <4>1. free_blocks[d][k].ptr \in Blocks /\ free_blocks[d][k].ptr # b
        BY <1>p, <2>5, <3>3
      <4>2. /\ heap[free_blocks[d][k].ptr] = d
            /\ \A i \in Buffers : buf[i].ptr # free_blocks[d][k].ptr
            /\ \A m \in 1..Len(free_blocks[d]) :
                  free_blocks[d][m].ptr = free_blocks[d][k].ptr => m = k
        BY <3>3 DEF Placed, FreeListsSound
      <4>3. heap'[free_blocks'[d][k].ptr] = d
        BY <2>5, <3>3, <4>1, <4>2
      <4>4. \A i \in Buffers : buf'[i].ptr # free_blocks'[d][k].ptr
        BY <2>3, <3>3, <4>2
      <4>5. ASSUME NEW m \in 1..Len(free_blocks'[d]),
                   free_blocks'[d][m].ptr = free_blocks'[d][k].ptr
            PROVE  m = k
        <5>1. CASE d = c /\ m = n + 1
          BY <2>4, <3>3, <4>1, <4>5, <5>1
        <5>2. CASE m \in 1..Len(free_blocks[d]) /\ free_blocks'[d][m] = free_blocks[d][m]
          BY <3>3, <4>2, <4>5, <5>2
        <5> QED
          BY <3>1, <5>1, <5>2
      <4> QED
        BY <4>3, <4>4, <4>5
    <3> QED
      BY <3>1, <3>2, <3>3
  <2>8. AdriftGone'
    <3>1. \A x \in Blocks : InBucket(x)' => InBucket(x) \/ x = b
      BY <2>4 DEF InBucket
    <3> QED
      BY <1>h, <2>3, <2>5, <3>1 DEF Placed, AdriftGone
  <2> QED
    BY <2>6, <2>7, <2>8 DEF Placed
<1>2. ASSUME NEW t \in Threads, NEW c \in Classes, NEW i \in Buffers,
             NEW s \in Streams, AllocateReuse(t, i, c, s)
      PROVE  Placed'
  <2> DEFINE b == Back(c).ptr
  <2>1. /\ free_blocks[c] # <<>> /\ free_blocks' = Popped(c)
        /\ UNCHANGED <<heap, adrift>>
    BY <1>2 DEF AllocateReuse, HandOut
  <2>2. /\ buf'[i].ptr = b /\ buf'[i].size_class = c
        /\ \A j \in Buffers : j # i => buf'[j] = buf[j]
    BY <1>2, <1>b DEF AllocateReuse, HandOut, Buffer
  <2>3. /\ \A d \in Classes : \A k \in 1..Len(free_blocks'[d]) :
              /\ k \in 1..Len(free_blocks[d])
              /\ free_blocks'[d][k] = free_blocks[d][k]
              /\ free_blocks'[d][k].ptr # b
        /\ heap[b] = c
        /\ InBucket(b)
        /\ \A j \in Buffers : buf[j].ptr # b
    BY <1>f, <2>1, PopLeaves DEF Placed
  <2> HIDE DEF b
  <2>4. HeldFits'
    BY <2>1, <2>2, <2>3 DEF Placed, HeldFits
  <2>5. OneHolder'
    BY <2>2, <2>3 DEF Placed, OneHolder
  <2>6. FreeListsSound'
    BY <2>1, <2>2, <2>3 DEF Placed, FreeListsSound
  <2>7. AdriftGone'
    <3>1. \A x : InBucket(x)' => InBucket(x)
      BY <2>3 DEF InBucket
    <3> QED
      BY <2>1, <2>2, <2>3, <3>1 DEF Placed, AdriftGone
  <2> QED
    BY <2>4, <2>5, <2>6, <2>7 DEF Placed
<1>3. ASSUME NEW t \in Threads, NEW c \in Classes, NEW i \in Buffers,
             NEW s \in Streams, NEW b \in Blocks, AllocateFresh(t, i, c, s, b)
      PROVE  Placed'
  <2>1. raw_alloc(b, c) /\ UNCHANGED <<free_blocks, adrift>>
    BY <1>3 DEF AllocateFresh, HandOut
  <2>2. /\ buf'[i].ptr = b /\ buf'[i].size_class = c
        /\ \A j \in Buffers : j # i => buf'[j] = buf[j]
    BY <1>3, <1>b DEF AllocateFresh, HandOut, Buffer
  <2>3. /\ \A d \in Classes : \A k \in 1..Len(free_blocks[d]) : free_blocks[d][k].ptr # b
        /\ \A j \in Buffers : buf[j].ptr # b
        /\ b \notin adrift
        /\ heap'[b] = c
        /\ \A x \in Blocks : x # b => heap'[x] = heap[x]
    BY <2>1, FreshBlock
  <2>4. \A j \in Buffers : buf[j].ptr \in Blocks \cup {NoBlock}
    BY <1>b DEF Buffer
  <2>5. HeldFits'
    BY <2>2, <2>3, <2>4 DEF Placed, HeldFits
  <2>6. OneHolder'
    BY <2>2, <2>3 DEF Placed, OneHolder
  <2>7. FreeListsSound'
    BY <1>p, <2>1, <2>2, <2>3 DEF Placed, FreeListsSound
  <2>8. AdriftGone'
    BY <1>h, <2>1, <2>2, <2>3 DEF Placed, AdriftGone, InBucket
  <2> QED
    BY <2>5, <2>6, <2>7, <2>8 DEF Placed
<1>4. ASSUME NEW t \in Threads, NEW c \in Classes, AllocateWaitFails(t, c)
      PROVE  Placed'
  <2>1. /\ free_blocks[c] # <<>> /\ free_blocks' = Popped(c)
        /\ UNCHANGED <<heap, adrift, buf>>
    BY <1>4 DEF AllocateWaitFails
  <2>2. \A d \in Classes : \A k \in 1..Len(free_blocks'[d]) :
            k \in 1..Len(free_blocks[d]) /\ free_blocks'[d][k] = free_blocks[d][k]
    BY <1>f, <2>1, PopLeaves DEF Placed
  <2>3. HeldFits' /\ OneHolder'
    BY <2>1 DEF Placed, HeldFits, OneHolder
  <2>4. FreeListsSound'
    BY <2>1, <2>2 DEF Placed, FreeListsSound
  <2>5. AdriftGone'
    BY <2>1, <2>2 DEF Placed, AdriftGone, InBucket
  <2> QED
    BY <2>3, <2>4, <2>5 DEF Placed
<1>5. ASSUME NEW t \in Threads, NEW i \in Buffers, DeleterReturn(t, i)
      PROVE  Placed'
  <2> DEFINE c == buf[i].size_class
             b == buf[i].ptr
             e == [ptr |-> b, event |-> buf[i].event]
             n == Len(free_blocks[c])
  <2>1. c \in Classes /\ b \in Blocks /\ b # NoBlock
    BY <1>5, <1>b DEF DeleterReturn, At, HoldsBlock, Buffer
  <2>2. e \in PooledBlock /\ e.ptr = b
    BY <1>b, <2>1 DEF PooledBlock, Buffer
  <2>3. free_blocks' = Pushed(c, e) /\ UNCHANGED <<heap, adrift>>
    BY <1>5 DEF DeleterReturn
  <2>4. /\ buf'[i].ptr = NoBlock
        /\ \A j \in Buffers : j # i => buf'[j] = buf[j]
    BY <1>5, <1>b DEF DeleterReturn, Buffer
  <2>5. heap[b] = c
    BY <2>1 DEF Placed, HeldFits
  <2>6. \A j \in Buffers : buf'[j].ptr # b
    BY <2>1, <2>4 DEF Placed, OneHolder
  <2>7. \A d \in Classes : \A k \in 1..Len(free_blocks[d]) : free_blocks[d][k].ptr # b
    BY DEF Placed, FreeListsSound
  <2>8. b \notin adrift
    BY DEF Placed, AdriftGone
  <2> HIDE DEF c, b, e
  <2>9. /\ n \in Nat
        /\ \A d \in Classes : d # c => free_blocks'[d] = free_blocks[d]
        /\ Len(free_blocks'[c]) = n + 1
        /\ \A k \in 1..n : free_blocks'[c][k] = free_blocks[c][k]
        /\ free_blocks'[c][n + 1].ptr = b
    BY <1>f, <2>1, <2>2, <2>3, PushEffect
  <2>10. HeldFits'
    BY <2>3, <2>4 DEF Placed, HeldFits
  <2>11. OneHolder'
    BY <2>4 DEF Placed, OneHolder
  <2>12. FreeListsSound'
    <3>1. ASSUME NEW d \in Classes, NEW k \in 1..Len(free_blocks'[d])
          PROVE  \/ d = c /\ k = n + 1
                 \/ k \in 1..Len(free_blocks[d]) /\ free_blocks'[d][k] = free_blocks[d][k]
      BY <2>9
    <3> SUFFICES ASSUME NEW d \in Classes, NEW k \in 1..Len(free_blocks'[d])
                 PROVE  /\ heap'[free_blocks'[d][k].ptr] = d
                        /\ \A j \in Buffers : buf'[j].ptr # free_blocks'[d][k].ptr
                        /\ \A m \in 1..Len(free_blocks'[d]) :
                              free_blocks'[d][m].ptr = free_blocks'[d][k].ptr => m = k
      BY DEF FreeListsSound
    <3>2. CASE d = c /\ k = n + 1
      BY <2>3, <2>5, <2>6, <2>7, <2>9, <3>1, <3>2
    <3>3. CASE k \in 1..Len(free_blocks[d]) /\ free_blocks'[d][k] = free_blocks[d][k]
      <4>1. free_blocks[d][k].ptr \in Blocks /\ free_blocks[d][k].ptr # b
        BY <1>p, <2>7, <3>3
      <4>2. /\ heap[free_blocks[d][k].ptr] = d
            /\ \A j \in Buffers : buf[j].ptr # free_blocks[d][k].ptr
            /\ \A m \in 1..Len(free_blocks[d]) :
                  free_blocks[d][m].ptr = free_blocks[d][k].ptr => m = k
        BY <3>3 DEF Placed, FreeListsSound
      <4>3. \A j \in Buffers : buf'[j].ptr # free_blocks[d][k].ptr
        BY <2>4, <4>1, <4>2, NullAssumption
      <4> QED
        BY <2>3, <2>9, <3>1, <3>3, <4>1, <4>2, <4>3
    <3> QED
      BY <3>1, <3>2, <3>3
  <2>13. AdriftGone'
    <3>1. \A x \in Blocks : InBucket(x)' => InBucket(x) \/ x = b
      BY <2>9 DEF InBucket
    <3> QED
      BY <1>h, <2>3, <2>4, <2>8, <3>1, NullAssumption DEF Placed, AdriftGone
  <2> QED
    BY <2>10, <2>11, <2>12, <2>13 DEF Placed
<1>6. ASSUME NEW t \in Threads, NEW i \in Buffers, DeleterFails(t, i)
      PROVE  Placed'
  <2> DEFINE b == buf[i].ptr
  <2>1. b \in Blocks /\ b # NoBlock /\ buf[i].size_class \in Classes
    BY <1>6, <1>b DEF DeleterFails, At, HoldsBlock, Buffer
  <2>2. adrift' = adrift \cup {b} /\ UNCHANGED <<heap, free_blocks>>
    BY <1>6 DEF DeleterFails, implVars
  <2>3. /\ buf'[i].ptr = NoBlock
        /\ \A j \in Buffers : j # i => buf'[j] = buf[j]
    BY <1>6, <1>b DEF DeleterFails, Buffer
  <2>4. heap[b] # NoClass
    BY <2>1, NullAssumption DEF Placed, HeldFits
  <2>5. \A j \in Buffers : buf'[j].ptr # b
    BY <2>1, <2>3 DEF Placed, OneHolder
  <2>6. ~InBucket(b)
    BY DEF Placed, FreeListsSound, InBucket
  <2> HIDE DEF b
  <2>7. HeldFits' /\ OneHolder'
    BY <2>2, <2>3 DEF Placed, HeldFits, OneHolder
  <2>8. FreeListsSound'
    BY <1>p, <2>2, <2>3, NullAssumption DEF Placed, FreeListsSound
  <2>9. AdriftGone'
    BY <1>h, <2>2, <2>3, <2>4, <2>5, <2>6, NullAssumption
    DEF Placed, AdriftGone, InBucket
  <2> QED
    BY <2>7, <2>8, <2>9 DEF Placed
<1>7. ASSUME ReleaseImpl, UNCHANGED adrift,
             \A i \in Buffers : /\ buf'[i].ptr = buf[i].ptr
                                /\ buf'[i].size_class = buf[i].size_class
      PROVE  Placed'
  <2>1. CASE impl_refs = 1
    <3>1. /\ heap' = [x \in Blocks |-> IF InBucket(x) THEN NoClass ELSE heap[x]]
          /\ free_blocks' = [c \in Classes |-> <<>>]
      BY <1>7, <2>1 DEF ReleaseImpl
    <3>2. \A i \in Buffers : buf[i].ptr \in Blocks \cup {NoBlock}
      BY <1>b DEF Buffer
    <3>3. \A i \in Buffers : ~InBucket(buf[i].ptr)
      BY DEF Placed, FreeListsSound, InBucket
    <3>4. HeldFits' /\ OneHolder'
      BY <1>7, <3>1, <3>2, <3>3 DEF Placed, HeldFits, OneHolder
    <3>5. FreeListsSound' /\ \A x : ~InBucket(x)'
      BY <3>1 DEF FreeListsSound, InBucket
    <3>6. AdriftGone'
      BY <1>7, <1>h, <3>1, <3>5 DEF Placed, AdriftGone
    <3> QED
      BY <3>4, <3>5, <3>6 DEF Placed
  <2>2. CASE impl_refs # 1
    BY <1>7, <2>2, PlacedQuiet DEF ReleaseImpl
  <2> QED
    BY <2>1, <2>2
<1>8. ASSUME NEW t \in Threads, NEW i \in Buffers, DeleterRelease(t, i)
      PROVE  Placed'
  <2>1. \A j \in Buffers : /\ buf'[j].ptr = buf[j].ptr
                           /\ buf'[j].size_class = buf[j].size_class
    BY <1>8, <1>b DEF DeleterRelease, Buffer
  <2> QED
    BY <1>7, <1>8, <2>1 DEF DeleterRelease
<1>9. ASSUME NEW t \in Threads, DestroyPool(t)
      PROVE  Placed'
  BY <1>7, <1>9 DEF DestroyPool
<1>10. ASSUME NEW t \in Threads, NEW i \in Buffers,
              \/ Drop(t, i) \/ DropLast(t, i)
              \/ \E u \in Threads : Share(t, u, i)
              \/ \E e \in Events \cup {NoEvent} : DeleterRecord(t, i, e)
              \/ DeleterCount(t, i)
       PROVE  Placed'
  <2>1. \A j \in Buffers : /\ buf'[j].ptr = buf[j].ptr
                           /\ buf'[j].size_class = buf[j].size_class
    <3>1. CASE Drop(t, i)
      BY <3>1, <1>b DEF Drop, Buffer
    <3>2. CASE DropLast(t, i)
      BY <3>2, <1>b DEF DropLast, Buffer
    <3>3. CASE \E u \in Threads : Share(t, u, i)
      BY <3>3, <1>b DEF Share, Buffer
    <3>4. CASE \E e \in Events \cup {NoEvent} : DeleterRecord(t, i, e)
      BY <3>4, <1>b DEF DeleterRecord, Buffer
    <3>5. CASE DeleterCount(t, i)
      BY <3>5, <1>b DEF DeleterCount, Buffer
    <3> QED
      BY <1>10, <3>1, <3>2, <3>3, <3>4, <3>5
  <2>2. UNCHANGED <<free_blocks, heap, adrift>>
    BY <1>10 DEF Drop, DropLast, Share, DeleterRecord, DeleterCount, implVars
  <2> QED
    BY <2>1, <2>2, PlacedQuiet
<1>11. ASSUME NEW t \in Threads, NEW c \in Classes, NEW n \in 1..MaxFill,
              PreallocBegin(t, c, n)
       PROVE  Placed'
  BY <1>11, PlacedQuiet DEF PreallocBegin, implVars
<1>12. ASSUME NEW t \in Threads, PreallocEnd(t)
       PROVE  Placed'
  BY <1>12, PlacedQuiet DEF PreallocEnd, implVars
<1>13. CASE UNCHANGED vars
  BY <1>13, PlacedQuiet DEF vars, implVars
<1>16. ASSUME NEW c \in Classes, NEW b \in Blocks, raw_alloc(b, c),
              UNCHANGED <<free_blocks, buf>>, adrift' \subseteq adrift \cup {b}
       PROVE  Placed'
  <2>1. /\ \A d \in Classes : \A k \in 1..Len(free_blocks[d]) : free_blocks[d][k].ptr # b
        /\ \A j \in Buffers : buf[j].ptr # b
        /\ heap'[b] = c
        /\ \A x \in Blocks : x # b => heap'[x] = heap[x]
    BY <1>16, FreshBlock
  <2>2. \A j \in Buffers : buf[j].ptr \in Blocks \cup {NoBlock}
    BY <1>b DEF Buffer
  <2>3. HeldFits' /\ OneHolder'
    BY <1>16, <2>1, <2>2 DEF Placed, HeldFits, OneHolder
  <2>4. FreeListsSound'
    BY <1>p, <1>16, <2>1 DEF Placed, FreeListsSound
  <2>5. AdriftGone'
    BY <1>h, <1>16, <2>1, NullAssumption DEF Placed, AdriftGone, InBucket
  <2> QED
    BY <2>3, <2>4, <2>5 DEF Placed
<1>17. ASSUME NEW t \in Threads, NEW b \in Blocks, PreallocPushThrows(t, b)
       PROVE  Placed'
  <2>1. filling.class \in Classes
    BY DEF TypeOK
  <2> QED
    BY <1>16, <1>17, <2>1 DEF PreallocPushThrows
<1>18. ASSUME NEW t \in Threads, NEW c \in Classes, NEW b \in Blocks,
              AllocateFreshThrows(t, c, b)
       PROVE  Placed'
  BY <1>16, <1>18 DEF AllocateFreshThrows, Abandon
<1>19. ASSUME NEW t \in Threads, NEW c \in Classes, AllocateReuseThrows(t, c)
       PROVE  Placed'
  <2> DEFINE b == Back(c).ptr
  <2>1. /\ free_blocks[c] # <<>> /\ free_blocks' = Popped(c)
        /\ UNCHANGED <<heap, buf>> /\ adrift' = adrift \cup {b}
    BY <1>19 DEF AllocateReuseThrows, Abandon
  <2>2. /\ \A d \in Classes : \A k \in 1..Len(free_blocks'[d]) :
              /\ k \in 1..Len(free_blocks[d])
              /\ free_blocks'[d][k] = free_blocks[d][k]
              /\ free_blocks'[d][k].ptr # b
        /\ heap[b] = c
        /\ \A j \in Buffers : buf[j].ptr # b
    BY <1>f, <2>1, PopLeaves DEF Placed
  <2> HIDE DEF b
  <2>3. HeldFits' /\ OneHolder'
    BY <2>1 DEF Placed, HeldFits, OneHolder
  <2>4. FreeListsSound'
    BY SMTT(30), <2>1, <2>2 DEF Placed, FreeListsSound
  <2>5. AdriftGone'
    BY <2>1, <2>2, NullAssumption DEF Placed, AdriftGone, InBucket
  <2> QED
    BY <2>3, <2>4, <2>5 DEF Placed
<1>14. ASSUME NEW t \in Threads, Deleter(t) \/ Handle(t)
       PROVE  Placed'
  BY <1>5, <1>6, <1>8, <1>10, <1>14 DEF Deleter, Handle
<1>15. ASSUME NEW t \in Threads, Prealloc(t) \/ Allocate(t)
       PROVE  Placed'
  BY <1>1, <1>2, <1>3, <1>4, <1>11, <1>12, <1>15, <1>17, <1>18, <1>19
  DEF Prealloc, Allocate
<1> QED
  BY <1>9, <1>13, <1>14, <1>15 DEF Next, Finished

\* A block sits in one bucket at one place, of its own class, and never
\* there while a buffer has it: no interleaving of allocations, deleters,
\* warm-ups and destruction puts a block in two places.
THEOREM BlocksInOnePlace == Spec => []FreeListsSound
<1>1. Init => TypeOK /\ HoldsBlock /\ Placed
  BY TypeInit, PlacedInit
<1>2. TypeOK /\ HoldsBlock /\ Placed /\ [Next]_vars => (TypeOK /\ HoldsBlock /\ Placed)'
  BY TypeNext, HoldsBlockNext, PlacedNext
<1>3. Placed => FreeListsSound
  BY DEF Placed
<1> QED
  BY <1>1, <1>2, <1>3, PTL DEF Spec

-----------------------------------------------------------------------------
(***************************************************************************)
(* Refinement: handing out is Grant, the deleter's locked section Revoke,  *)
(* every other step leaves the holders as they are.                        *)
(***************************************************************************)
LEMMA StepRefines ==
    TypeOK /\ HoldsBlock /\ Placed /\ [Next]_vars => [A!Next]_Holds
<1> SUFFICES ASSUME TypeOK, HoldsBlock, Placed, [Next]_vars
             PROVE  A!Next \/ UNCHANGED Holds
  OBVIOUS
<1>b. buf \in [Buffers -> Buffer]
  BY DEF TypeOK
<1>1. ASSUME NEW t \in Threads, NEW c \in Classes, NEW i \in Buffers, NEW s \in Streams,
             NEW b \in Blocks, HandOut(t, i, c, s, b), \A j \in Buffers : buf[j].ptr # b
      PROVE  A!Next
  <2>1. Holds[i] = NoBlock
    BY <1>1, <1>b DEF HandOut, HoldsBlock, Holds
  <2>2. Holds' = [Holds EXCEPT ![i] = b]
    BY <1>1, <1>b DEF HandOut, Holds, Buffer
  <2>3. \A j \in Buffers : Holds[j] # b
    BY <1>1 DEF Holds
  <2> QED
    BY <2>1, <2>2, <2>3 DEF A!Next, A!Grant
<1>2. ASSUME NEW t \in Threads, NEW c \in Classes, NEW i \in Buffers, NEW s \in Streams,
             AllocateReuse(t, i, c, s)
      PROVE  A!Next
  <2>1. free_blocks \in [Classes -> Seq(PooledBlock)]
    BY DEF TypeOK
  <2>2. /\ free_blocks[c] # <<>> /\ free_blocks' = Popped(c)
        /\ HandOut(t, i, c, s, Back(c).ptr)
    BY <1>2 DEF AllocateReuse
  <2>3. Back(c) \in PooledBlock
    BY <2>1, <2>2, PopEffect
  <2>4. \A j \in Buffers : buf[j].ptr # Back(c).ptr
    BY <2>1, <2>2, PopLeaves DEF Placed
  <2> QED
    BY <1>1, <2>2, <2>3, <2>4 DEF PooledBlock
<1>3. ASSUME NEW t \in Threads, NEW c \in Classes, NEW i \in Buffers, NEW s \in Streams,
             NEW b \in Blocks, AllocateFresh(t, i, c, s, b)
      PROVE  A!Next
  BY <1>1, <1>3, FreshBlock DEF AllocateFresh
<1>4. ASSUME NEW t \in Threads, NEW i \in Buffers, DeleterReturn(t, i) \/ DeleterFails(t, i)
      PROVE  A!Next
  <2>1. Holds[i] # NoBlock
    BY <1>4 DEF DeleterReturn, DeleterFails, At, HoldsBlock, Holds
  <2>2. CASE DeleterReturn(t, i)
    BY <2>1, <2>2, <1>b DEF DeleterReturn, Holds, Buffer, A!Next, A!Revoke
  <2>3. CASE DeleterFails(t, i)
    BY <2>1, <2>3, <1>b DEF DeleterFails, Holds, Buffer, A!Next, A!Revoke
  <2> QED
    BY <1>4, <2>2, <2>3
<1>5. ASSUME NEW t \in Threads, NEW i \in Buffers,
             \/ Drop(t, i) \/ DropLast(t, i)
             \/ \E u \in Threads : Share(t, u, i)
             \/ \E e \in Events \cup {NoEvent} : DeleterRecord(t, i, e)
             \/ DeleterCount(t, i) \/ DeleterRelease(t, i)
      PROVE  UNCHANGED Holds
  <2>1. CASE Drop(t, i)
    BY <2>1, <1>b DEF Drop, Buffer, Holds
  <2>2. CASE DropLast(t, i)
    BY <2>2, <1>b DEF DropLast, Buffer, Holds
  <2>3. CASE \E u \in Threads : Share(t, u, i)
    BY <2>3, <1>b DEF Share, Buffer, Holds
  <2>4. CASE \E e \in Events \cup {NoEvent} : DeleterRecord(t, i, e)
    BY <2>4, <1>b DEF DeleterRecord, Buffer, Holds
  <2>5. CASE DeleterCount(t, i)
    BY <2>5, <1>b DEF DeleterCount, Buffer, Holds
  <2>6. CASE DeleterRelease(t, i)
    BY <2>6, <1>b DEF DeleterRelease, Buffer, Holds
  <2> QED
    BY <1>5, <2>1, <2>2, <2>3, <2>4, <2>5, <2>6
<1>6. ASSUME NEW t \in Threads, Prealloc(t) \/ DestroyPool(t)
      PROVE  UNCHANGED Holds
  BY <1>6 DEF Prealloc, PreallocBegin, PreallocPush, PreallocPushThrows, PreallocEnd,
              DestroyPool, Holds
<1>7. ASSUME NEW t \in Threads, NEW c \in Classes,
             \/ AllocateWaitFails(t, c) \/ AllocateReuseThrows(t, c)
             \/ \E b \in Blocks : AllocateFreshThrows(t, c, b)
      PROVE  UNCHANGED Holds
  BY <1>7 DEF AllocateWaitFails, AllocateReuseThrows, AllocateFreshThrows, Abandon, Holds
<1>8. CASE UNCHANGED vars
  BY <1>8 DEF vars, Holds
<1> QED
  BY <1>2, <1>3, <1>4, <1>5, <1>6, <1>7, <1>8
  DEF Next, Allocate, Deleter, Handle, Finished

\* MemoryPool implements BlockAllocator.
THEOREM PoolKeepsPromise == Spec => AbstractSpec
<1>1. Init => A!Init
  BY DEF Init, A!Init, Holds
<1>2. Init => TypeOK /\ HoldsBlock /\ Placed
  BY TypeInit, PlacedInit
<1>3. TypeOK /\ HoldsBlock /\ Placed /\ [Next]_vars => (TypeOK /\ HoldsBlock /\ Placed)'
  BY TypeNext, HoldsBlockNext, PlacedNext
<1> QED
  BY <1>1, <1>2, <1>3, StepRefines, PTL DEF Spec, AbstractSpec, A!Spec

-----------------------------------------------------------------------------
(***************************************************************************)
(* The two counters.  impl_refs counts the pool and the control blocks,    *)
(* outstanding_buffers the deleters yet to pass fetch_sub and those that   *)
(* never will.                                                             *)
(***************************************************************************)
Control == {i \in Buffers : buf[i].phase # "none"}
Counts == /\ impl_refs = (IF pool_alive THEN 1 ELSE 0) + Cardinality(Control)
          /\ OutstandingExact
          /\ IsFiniteSet(adrift)

LEMMA CountedSetsFinite ==
    /\ IsFiniteSet(Control) /\ Cardinality(Control) \in Nat
    /\ IsFiniteSet(Outstanding) /\ Cardinality(Outstanding) \in Nat
    /\ Outstanding \subseteq Control
<1>1. Control \in SUBSET Buffers /\ Outstanding \in SUBSET Buffers
  BY DEF Control, Outstanding
<1>2. Outstanding \subseteq Control
  BY DEF Control, Outstanding
<1> QED
  BY <1>1, <1>2, FiniteBuffers, FS_Subset, FS_CardinalityType

LEMMA CountsInit == Init => Counts
<1> SUFFICES ASSUME Init PROVE Counts
  OBVIOUS
<1>1. Control = {} /\ Outstanding = {} /\ adrift = {}
  BY DEF Init, Control, Outstanding
<1> QED
  BY <1>1, FS_EmptySet DEF Init, Counts, OutstandingExact

\* A step that changes neither counted set.
LEMMA CountsQuiet ==
    ASSUME Counts,
           UNCHANGED <<impl_refs, pool_alive, outstanding_buffers, adrift>>,
           Control' = Control, Outstanding' = Outstanding
    PROVE  Counts'
  BY DEF Counts, OutstandingExact

LEMMA CountsNext ==
    TypeOK /\ HoldsBlock /\ Placed /\ Counts /\ [Next]_vars => Counts'
<1> SUFFICES ASSUME TypeOK, HoldsBlock, Placed, Counts, [Next]_vars
             PROVE  Counts'
  OBVIOUS
<1>b. buf \in [Buffers -> Buffer] /\ outstanding_buffers \in Int /\ impl_refs \in Int
  BY DEF TypeOK
<1>1. ASSUME NEW t \in Threads, NEW c \in Classes, NEW i \in Buffers, NEW s \in Streams,
             NEW b \in Blocks, HandOut(t, i, c, s, b)
      PROVE  Counts'
  <2>1. /\ buf[i].phase = "none" /\ buf'[i].phase = "live"
        /\ \A j \in Buffers : j # i => buf'[j] = buf[j]
    BY <1>1, <1>b DEF HandOut
  <2>2. /\ Control' = Control \cup {i} /\ i \notin Control
        /\ Outstanding' = Outstanding \cup {i} /\ i \notin Outstanding
    BY <2>1 DEF Control, Outstanding
  <2>3. /\ Cardinality(Control') = Cardinality(Control) + 1
        /\ Cardinality(Outstanding') = Cardinality(Outstanding) + 1
    BY <2>2, CountedSetsFinite, FS_AddElement
  <2>4. /\ impl_refs' = impl_refs + 1 /\ outstanding_buffers' = outstanding_buffers + 1
        /\ UNCHANGED <<pool_alive, adrift>>
    BY <1>1 DEF HandOut
  <2>5. Cardinality(adrift) \in Nat
    BY FS_CardinalityType DEF Counts
  <2> QED
    BY <2>3, <2>4, <2>5, CountedSetsFinite DEF Counts, OutstandingExact
<1>2. ASSUME NEW t \in Threads, NEW c \in Classes, NEW i \in Buffers, NEW s \in Streams,
             AllocateReuse(t, i, c, s)
      PROVE  Counts'
  <2>1. Back(c) \in PooledBlock
    BY <1>2, PopEffect DEF AllocateReuse, TypeOK
  <2> QED
    BY <1>1, <1>2, <2>1 DEF AllocateReuse, PooledBlock
<1>3. ASSUME NEW t \in Threads, NEW c \in Classes, NEW i \in Buffers, NEW s \in Streams,
             NEW b \in Blocks, AllocateFresh(t, i, c, s, b)
      PROVE  Counts'
  BY <1>1, <1>3 DEF AllocateFresh
<1>11. ASSUME NEW c \in Classes, NEW b \in Blocks, Abandon(c, b), b \notin adrift
       PROVE  Counts'
  <2>1. /\ adrift' = adrift \cup {b} /\ outstanding_buffers' = outstanding_buffers + 1
        /\ UNCHANGED <<pool_alive, impl_refs, buf>>
    BY <1>11 DEF Abandon, lifeVars
  <2>2. Control' = Control /\ Outstanding' = Outstanding
    BY <2>1 DEF Control, Outstanding
  <2>3. Cardinality(adrift) \in Nat
    BY FS_CardinalityType DEF Counts
  <2>4. IsFiniteSet(adrift') /\ Cardinality(adrift') = Cardinality(adrift) + 1
    BY <1>11, <2>1, FS_AddElement DEF Counts
  <2> QED
    BY <2>1, <2>2, <2>3, <2>4, CountedSetsFinite DEF Counts, OutstandingExact
<1>12. ASSUME NEW t \in Threads, NEW c \in Classes, AllocateReuseThrows(t, c)
       PROVE  Counts'
  <2>1. /\ free_blocks \in [Classes -> Seq(PooledBlock)] /\ free_blocks[c] # <<>>
        /\ free_blocks' = Popped(c) /\ Abandon(c, Back(c).ptr)
    BY <1>12 DEF AllocateReuseThrows, TypeOK
  <2>2. Back(c).ptr \in Blocks
    BY <2>1, PopEffect DEF PooledBlock
  <2>3. Back(c).ptr \notin adrift
    BY <2>1, PopLeaves DEF Placed, AdriftGone
  <2> QED
    BY <1>11, <2>1, <2>2, <2>3
<1>13. ASSUME NEW t \in Threads, NEW c \in Classes, NEW b \in Blocks,
              AllocateFreshThrows(t, c, b)
       PROVE  Counts'
  BY <1>11, <1>13, FreshBlock DEF AllocateFreshThrows
<1>4. ASSUME NEW t \in Threads, NEW i \in Buffers, DeleterFails(t, i)
      PROVE  Counts'
  <2>1. /\ buf[i].phase = "return" /\ buf'[i].phase = "release"
        /\ \A j \in Buffers : j # i => buf'[j] = buf[j]
    BY <1>4, <1>b DEF DeleterFails, At, Buffer
  <2>2. /\ Control' = Control
        /\ Outstanding' = Outstanding \ {i} /\ i \in Outstanding
    BY <2>1 DEF Control, Outstanding
  <2>3. buf[i].ptr \notin adrift
    BY DEF Placed, AdriftGone
  <2>4. /\ adrift' = adrift \cup {buf[i].ptr}
        /\ UNCHANGED <<pool_alive, impl_refs, outstanding_buffers>>
    BY <1>4 DEF DeleterFails, implVars, lifeVars
  <2>5. Cardinality(adrift) \in Nat
    BY FS_CardinalityType DEF Counts
  <2>6. /\ IsFiniteSet(adrift')
        /\ Cardinality(adrift') = Cardinality(adrift) + 1
        /\ Cardinality(Outstanding') = Cardinality(Outstanding) - 1
    BY <2>2, <2>3, <2>4, CountedSetsFinite, FS_AddElement, FS_RemoveElement DEF Counts
  <2> QED
    BY <2>2, <2>4, <2>5, <2>6, CountedSetsFinite DEF Counts, OutstandingExact
<1>5. ASSUME NEW t \in Threads, NEW i \in Buffers, DeleterCount(t, i)
      PROVE  Counts'
  <2>1. /\ buf[i].phase = "count" /\ buf'[i].phase = "release"
        /\ \A j \in Buffers : j # i => buf'[j] = buf[j]
    BY <1>5, <1>b DEF DeleterCount, At, Buffer
  <2>2. /\ Control' = Control
        /\ Outstanding' = Outstanding \ {i} /\ i \in Outstanding
    BY <2>1 DEF Control, Outstanding
  <2>3. Cardinality(Outstanding') = Cardinality(Outstanding) - 1
    BY <2>2, CountedSetsFinite, FS_RemoveElement
  <2>4. /\ outstanding_buffers' = outstanding_buffers - 1
        /\ UNCHANGED <<pool_alive, impl_refs, adrift>>
    BY <1>5 DEF DeleterCount, lifeVars
  <2>5. Cardinality(adrift) \in Nat
    BY FS_CardinalityType DEF Counts
  <2> QED
    BY <2>2, <2>3, <2>4, <2>5, CountedSetsFinite DEF Counts, OutstandingExact
<1>6. ASSUME NEW t \in Threads, NEW i \in Buffers, DeleterRelease(t, i)
      PROVE  Counts'
  <2>1. /\ buf[i].phase = "release" /\ buf'[i].phase = "none"
        /\ \A j \in Buffers : j # i => buf'[j] = buf[j]
    BY <1>6, <1>b DEF DeleterRelease, At, Buffer
  <2>2. /\ Control' = Control \ {i} /\ i \in Control
        /\ Outstanding' = Outstanding
    BY <2>1 DEF Control, Outstanding
  <2>3. Cardinality(Control') = Cardinality(Control) - 1
    BY <2>2, CountedSetsFinite, FS_RemoveElement
  <2>4. impl_refs' = impl_refs - 1 /\ UNCHANGED <<pool_alive, outstanding_buffers, adrift>>
    BY <1>6 DEF DeleterRelease, ReleaseImpl
  <2> QED
    BY <2>2, <2>3, <2>4, CountedSetsFinite DEF Counts, OutstandingExact
<1>7. ASSUME NEW t \in Threads, DestroyPool(t)
      PROVE  Counts'
  <2>1. /\ pool_alive /\ ~pool_alive' /\ impl_refs' = impl_refs - 1
        /\ UNCHANGED <<buf, outstanding_buffers, adrift>>
    BY <1>7 DEF DestroyPool, ReleaseImpl
  <2>2. Control' = Control /\ Outstanding' = Outstanding
    BY <2>1 DEF Control, Outstanding
  <2> QED
    BY <2>1, <2>2, CountedSetsFinite DEF Counts, OutstandingExact
<1>8. ASSUME NEW t \in Threads, NEW i \in Buffers,
             \/ Drop(t, i) \/ DropLast(t, i)
             \/ \E u \in Threads : Share(t, u, i)
             \/ \E e \in Events \cup {NoEvent} : DeleterRecord(t, i, e)
             \/ DeleterReturn(t, i)
      PROVE  Counts'
  <2> DEFINE Back5 == {"live", "record", "return", "count"}
  <2>1. /\ \A j \in Buffers : j # i => buf'[j] = buf[j]
        /\ buf[i].phase \in Back5 /\ buf'[i].phase \in Back5
    <3>1. CASE Drop(t, i)
      BY <3>1, <1>b DEF Drop, Buffer, HoldsBlock
    <3>2. CASE DropLast(t, i)
      BY <3>2, <1>b DEF DropLast, Buffer, HoldsBlock
    <3>3. CASE \E u \in Threads : Share(t, u, i)
      BY <3>3, <1>b DEF Share, Buffer, HoldsBlock
    <3>4. CASE \E e \in Events \cup {NoEvent} : DeleterRecord(t, i, e)
      BY <3>4, <1>b DEF DeleterRecord, At, Buffer
    <3>5. CASE DeleterReturn(t, i)
      BY <3>5, <1>b DEF DeleterReturn, At, Buffer
    <3> QED
      BY <1>8, <3>1, <3>2, <3>3, <3>4, <3>5
  <2>2. Control' = Control /\ Outstanding' = Outstanding
    BY <2>1 DEF Control, Outstanding
  <2>3. UNCHANGED <<impl_refs, pool_alive, outstanding_buffers, adrift>>
    BY <1>8 DEF Drop, DropLast, Share, DeleterRecord, DeleterReturn, implVars, lifeVars
  <2> QED
    BY <2>2, <2>3, CountsQuiet
<1>9. ASSUME NEW t \in Threads,
             Prealloc(t) \/ \E c \in Classes : AllocateWaitFails(t, c)
      PROVE  Counts'
  <2>1. UNCHANGED <<impl_refs, pool_alive, outstanding_buffers, adrift, buf>>
    BY <1>9
    DEF Prealloc, PreallocBegin, PreallocPush, PreallocPushThrows, PreallocEnd,
        AllocateWaitFails, implVars, lifeVars
  <2> QED
    BY <2>1, CountsQuiet DEF Control, Outstanding
<1>10. CASE UNCHANGED vars
  BY <1>10, CountsQuiet DEF vars, implVars, lifeVars, Control, Outstanding
<1> QED
  BY <1>2, <1>3, <1>4, <1>5, <1>6, <1>7, <1>8, <1>9, <1>10, <1>12, <1>13
  DEF Next, Allocate, Deleter, Handle, Finished

LEMMA AllInvariants == Spec => [](TypeOK /\ HoldsBlock /\ Placed /\ Counts)
<1>1. Init => TypeOK /\ HoldsBlock /\ Placed /\ Counts
  BY TypeInit, PlacedInit, CountsInit
<1>2. TypeOK /\ HoldsBlock /\ Placed /\ Counts /\ [Next]_vars
          => (TypeOK /\ HoldsBlock /\ Placed /\ Counts)'
  BY TypeNext, HoldsBlockNext, PlacedNext, CountsNext
<1> QED
  BY <1>1, <1>2, PTL DEF Spec

\* outstanding_buffers is exact between any two steps of any threads.
THEOREM OutstandingIsExact == Spec => []OutstandingExact
  BY AllInvariants, PTL DEF Counts

\* Impl and its memory outlive every buffer, handle or running deleter.
THEOREM ImplOutlivesBuffers == Spec => []PoolOutlivesBuffers
<1>1. TypeOK /\ Placed /\ Counts => PoolOutlivesBuffers
  <2> SUFFICES ASSUME TypeOK, Placed, Counts PROVE PoolOutlivesBuffers
    OBVIOUS
  <2>1. ASSUME NEW i \in Buffers, buf[i].phase # "none"
        PROVE  impl_refs > 0
    <3>1. Control # {}
      BY <2>1 DEF Control
    <3>2. Cardinality(Control) > 0
      BY <3>1, CountedSetsFinite, FS_EmptySet
    <3> QED
      BY <3>2, CountedSetsFinite DEF Counts
  <2> QED
    BY <2>1 DEF PoolOutlivesBuffers, Placed, HeldFits
<1> QED
  BY <1>1, AllInvariants, PTL

\* The warning of ~Impl counts adrift returns and nothing else.
THEOREM WarningIsExact == Spec => []ImplDiesClean
<1>1. TypeOK /\ Counts => ImplDiesClean
  <2> SUFFICES ASSUME TypeOK, Counts, impl_refs = 0
               PROVE  outstanding_buffers = Cardinality(adrift)
    BY DEF ImplDiesClean
  <2>1. Control = {}
    BY CountedSetsFinite, FS_EmptySet DEF Counts
  <2>2. Cardinality(Outstanding) = 0
    BY <2>1, CountedSetsFinite, FS_EmptySet
  <2>3. Cardinality(adrift) \in Nat
    BY FS_CardinalityType DEF Counts
  <2> QED
    BY <2>2, <2>3 DEF Counts, OutstandingExact
<1> QED
  BY <1>1, AllInvariants, PTL

-----------------------------------------------------------------------------
(***************************************************************************)
(* No step but a throwing one makes a block unreachable.                   *)
(***************************************************************************)
LEMMA LostQuiet ==
    ASSUME UNCHANGED <<free_blocks, heap>>,
           \A i \in Buffers : buf'[i].ptr = buf[i].ptr
    PROVE  Lost' \subseteq Lost
  BY DEF Lost, InBucket

LEMMA LostNext ==
    TypeOK /\ HoldsBlock /\ Placed /\ [Next]_vars => Lost' \subseteq Lost \/ Losing
<1> SUFFICES ASSUME TypeOK, HoldsBlock, Placed, [Next]_vars, ~Losing
             PROVE  Lost' \subseteq Lost
  OBVIOUS
<1>b. buf \in [Buffers -> Buffer]
  BY DEF TypeOK
<1>f. free_blocks \in [Classes -> Seq(PooledBlock)]
  BY DEF TypeOK
<1>1. ASSUME NEW t \in Threads, NEW b \in Blocks, PreallocPush(t, b)
      PROVE  Lost' \subseteq Lost
  <2> DEFINE c == filling.class
             e == [ptr |-> b, event |-> NoEvent]
             n == Len(free_blocks[c])
  <2>1. /\ c \in Classes /\ raw_alloc(b, c) /\ free_blocks' = Pushed(c, e)
        /\ e \in PooledBlock /\ e.ptr = b /\ UNCHANGED buf
    BY <1>1 DEF PreallocPush, TypeOK, PooledBlock
  <2> HIDE DEF c, e
  <2>2. /\ n \in Nat
        /\ \A d \in Classes : d # c => free_blocks'[d] = free_blocks[d]
        /\ Len(free_blocks'[c]) = n + 1
        /\ \A k \in 1..n : free_blocks'[c][k] = free_blocks[c][k]
        /\ free_blocks'[c][n + 1].ptr = b
    BY <1>f, <2>1, PushEffect
  <2>3. InBucket(b)'
    BY <2>1, <2>2 DEF InBucket
  <2>4. \A x : InBucket(x) => InBucket(x)'
    BY SMTT(30), <2>2 DEF InBucket
  <2>5. \A x \in Blocks : x # b => heap'[x] = heap[x]
    BY <2>1, FreshBlock
  <2> QED
    BY <2>1, <2>3, <2>4, <2>5 DEF Lost
<1>2. ASSUME NEW t \in Threads, NEW c \in Classes, NEW i \in Buffers,
             NEW s \in Streams, AllocateReuse(t, i, c, s)
      PROVE  Lost' \subseteq Lost
  <2>1. /\ free_blocks[c] # <<>> /\ free_blocks' = Popped(c) /\ UNCHANGED heap
        /\ buf[i].phase = "none"
    BY <1>2 DEF AllocateReuse, HandOut
  <2>2. /\ buf'[i].ptr = Back(c).ptr
        /\ \A j \in Buffers : j # i => buf'[j] = buf[j]
    BY <1>2, <1>b DEF AllocateReuse, HandOut, Buffer
  <2>3. /\ \A d \in Classes : d # c => free_blocks'[d] = free_blocks[d]
        /\ Len(free_blocks[c]) \in Nat \ {0}
        /\ Len(free_blocks'[c]) = Len(free_blocks[c]) - 1
        /\ \A k \in 1..(Len(free_blocks[c]) - 1) : free_blocks'[c][k] = free_blocks[c][k]
    BY <1>f, <2>1, PopEffect
  <2>4. \A x : InBucket(x) => InBucket(x)' \/ x = Back(c).ptr
    BY SMTT(30), <2>3 DEF InBucket, Back
  <2>5. buf[i].ptr = NoBlock
    BY <2>1 DEF HoldsBlock
  <2> QED
    BY <2>1, <2>2, <2>4, <2>5, NullAssumption DEF Lost
<1>3. ASSUME NEW t \in Threads, NEW c \in Classes, NEW i \in Buffers,
             NEW s \in Streams, NEW b \in Blocks, AllocateFresh(t, i, c, s, b)
      PROVE  Lost' \subseteq Lost
  <2>1. raw_alloc(b, c) /\ UNCHANGED free_blocks /\ buf[i].phase = "none"
    BY <1>3 DEF AllocateFresh, HandOut
  <2>2. /\ buf'[i].ptr = b
        /\ \A j \in Buffers : j # i => buf'[j] = buf[j]
    BY <1>3, <1>b DEF AllocateFresh, HandOut, Buffer
  <2>3. \A x \in Blocks : x # b => heap'[x] = heap[x]
    BY <2>1, FreshBlock
  <2>4. buf[i].ptr = NoBlock
    BY <2>1 DEF HoldsBlock
  <2> QED
    BY <2>1, <2>2, <2>3, <2>4, NullAssumption DEF Lost, InBucket
<1>4. ASSUME NEW t \in Threads, NEW i \in Buffers, DeleterReturn(t, i)
      PROVE  Lost' \subseteq Lost
  <2> DEFINE c == buf[i].size_class
             b == buf[i].ptr
             e == [ptr |-> b, event |-> buf[i].event]
             n == Len(free_blocks[c])
  <2>1. c \in Classes /\ b \in Blocks
    BY <1>4, <1>b DEF DeleterReturn, At, HoldsBlock, Buffer
  <2>2. /\ e \in PooledBlock /\ e.ptr = b
        /\ free_blocks' = Pushed(c, e) /\ UNCHANGED heap
    BY <1>4, <1>b, <2>1 DEF DeleterReturn, PooledBlock, Buffer
  <2>3. /\ buf[i].ptr = b
        /\ \A j \in Buffers : j # i => buf'[j] = buf[j]
    BY <1>4, <1>b DEF DeleterReturn
  <2> HIDE DEF c, b, e
  <2>4. /\ n \in Nat
        /\ \A d \in Classes : d # c => free_blocks'[d] = free_blocks[d]
        /\ Len(free_blocks'[c]) = n + 1
        /\ \A k \in 1..n : free_blocks'[c][k] = free_blocks[c][k]
        /\ free_blocks'[c][n + 1].ptr = b
    BY <1>f, <2>1, <2>2, PushEffect
  <2>5. \A x : InBucket(x) \/ x = b => InBucket(x)'
    BY <2>1, <2>4 DEF InBucket
  <2> QED
    BY <2>2, <2>3, <2>5 DEF Lost
<1>5. ASSUME ReleaseImpl, \A i \in Buffers : buf'[i].ptr = buf[i].ptr
      PROVE  Lost' \subseteq Lost
  <2>1. CASE impl_refs = 1
    <3>1. heap' = [x \in Blocks |-> IF InBucket(x) THEN NoClass ELSE heap[x]]
      BY <1>5, <2>1 DEF ReleaseImpl
    <3> QED
      BY <1>5, <3>1 DEF Lost
  <2>2. CASE impl_refs # 1
    BY <1>5, <2>2, LostQuiet DEF ReleaseImpl
  <2> QED
    BY <2>1, <2>2
<1>6. ASSUME NEW t \in Threads, NEW i \in Buffers, DeleterRelease(t, i)
      PROVE  Lost' \subseteq Lost
  <2>1. \A j \in Buffers : buf'[j].ptr = buf[j].ptr
    BY <1>6, <1>b DEF DeleterRelease, Buffer
  <2> QED
    BY <1>5, <1>6, <2>1 DEF DeleterRelease
<1>7. ASSUME NEW t \in Threads, DestroyPool(t)
      PROVE  Lost' \subseteq Lost
  BY <1>5, <1>7 DEF DestroyPool
<1>8. ASSUME NEW t \in Threads, NEW i \in Buffers,
             \/ Drop(t, i) \/ DropLast(t, i)
             \/ \E u \in Threads : Share(t, u, i)
             \/ \E e \in Events \cup {NoEvent} : DeleterRecord(t, i, e)
             \/ DeleterCount(t, i)
      PROVE  Lost' \subseteq Lost
  <2>1. \A j \in Buffers : buf'[j].ptr = buf[j].ptr
    <3>1. CASE Drop(t, i)
      BY <3>1, <1>b DEF Drop, Buffer
    <3>2. CASE DropLast(t, i)
      BY <3>2, <1>b DEF DropLast, Buffer
    <3>3. CASE \E u \in Threads : Share(t, u, i)
      BY <3>3, <1>b DEF Share, Buffer
    <3>4. CASE \E e \in Events \cup {NoEvent} : DeleterRecord(t, i, e)
      BY <3>4, <1>b DEF DeleterRecord, Buffer
    <3>5. CASE DeleterCount(t, i)
      BY <3>5, <1>b DEF DeleterCount, Buffer
    <3> QED
      BY <1>8, <3>1, <3>2, <3>3, <3>4, <3>5
  <2>2. UNCHANGED <<free_blocks, heap>>
    BY <1>8 DEF Drop, DropLast, Share, DeleterRecord, DeleterCount, implVars
  <2> QED
    BY <2>1, <2>2, LostQuiet
<1>9. ASSUME NEW t \in Threads, NEW c \in Classes, NEW n \in 1..MaxFill,
             PreallocBegin(t, c, n) \/ PreallocEnd(t)
      PROVE  Lost' \subseteq Lost
  BY <1>9, LostQuiet DEF PreallocBegin, PreallocEnd, implVars
<1>10. ASSUME NEW t \in Threads, PreallocEnd(t)
       PROVE  Lost' \subseteq Lost
  BY <1>10, LostQuiet DEF PreallocEnd, implVars
<1>11. CASE UNCHANGED vars
  BY <1>11, LostQuiet DEF vars, implVars
<1>12. ASSUME NEW t \in Threads, Deleter(t) \/ Handle(t)
       PROVE  Lost' \subseteq Lost
  BY <1>4, <1>6, <1>8, <1>12 DEF Deleter, Handle, Losing
<1>13. ASSUME NEW t \in Threads, Prealloc(t) \/ Allocate(t)
       PROVE  Lost' \subseteq Lost
  BY <1>1, <1>2, <1>3, <1>9, <1>10, <1>13 DEF Prealloc, Allocate, Losing
<1> QED
  BY <1>7, <1>11, <1>12, <1>13 DEF Next, Finished

\* Only an exception after pop_back or inside the deleter loses a block.
THEOREM OnlyThrowsLose == Spec => LostOnlyByThrow
<1>1. TypeOK /\ HoldsBlock /\ Placed /\ [Next]_vars
          => [Lost' \subseteq Lost \/ Losing]_vars
  BY LostNext
<1> QED
  BY <1>1, AllInvariants, PTL DEF Spec, LostOnlyByThrow

-----------------------------------------------------------------------------
(***************************************************************************)
(* Sums over sets of blocks.  BytesOf folds a set by taking one element    *)
(* after the other; what it does when a block is added, whichever the fold *)
(* takes first, is by least counterexample: among the sets for which it    *)
(* fails, one of the fewest blocks.                                        *)
(***************************************************************************)
Some(s) == CHOOSE x \in s : TRUE
Sums(g, h, S) ==
    g = [s \in SUBSET S |->
            IF s = {} THEN 0 ELSE ClassBytes[h[Some(s)]] + g[s \ {Some(s)}]]

LEMMA SomeIn == \A s : s # {} => Some(s) \in s
  BY DEF Some

LEMMA Fewest ==
    ASSUME NEW F \in SUBSET SUBSET Blocks, F # {}
    PROVE  \E S \in F : \A T \in F : ~(Cardinality(T) < Cardinality(S))
<1> DEFINE N == {Cardinality(S) : S \in F}
<1>1. \A S \in F : Cardinality(S) \in Nat
  BY FiniteBlocks, FS_Subset, FS_CardinalityType
<1>2. N \subseteq Nat /\ N # {}
  BY <1>1
<1>n. \A n \in N : \E S \in F : n = Cardinality(S)
  OBVIOUS
<1>m. \A S \in F : Cardinality(S) \in N
  OBVIOUS
<1> HIDE DEF N
<1>3. PICK R : R = OpToRel(<, Nat)
  OBVIOUS
<1>4. IsWellFoundedOn(R, Nat)
  BY <1>3, NatLessThanWellFounded
<1>5. PICK n \in N : \A m \in N : <<m, n>> \notin R
  BY <1>2, <1>4, WFMin
<1>6. \A m \in N : <<m, n>> \in R <=> m < n
  BY <1>2, <1>3 DEF OpToRel
<1>7. PICK S \in F : n = Cardinality(S)
  BY <1>5, <1>n
<1>8. \A T \in F : ~(Cardinality(T) < n)
  BY <1>5, <1>6, <1>m
<1> QED
  BY <1>7, <1>8

\* One block less is fewer blocks.
LEMMA Fewer ==
    ASSUME NEW S \in SUBSET Blocks, NEW x \in S
    PROVE  /\ S \ {x} \in SUBSET Blocks
           /\ Cardinality(S \ {x}) < Cardinality(S)
<1>1. IsFiniteSet(S)
  BY FiniteBlocks, FS_Subset
<1>2. Cardinality(S) \in Nat /\ Cardinality(S \ {x}) = Cardinality(S) - 1
  BY <1>1, FS_CardinalityType, FS_RemoveElement
<1> QED
  BY <1>2

\* Two folds agree where both are defined.
LEMMA SumsAgree ==
    ASSUME NEW h, NEW f, NEW g, NEW S \in SUBSET Blocks, NEW T \in SUBSET Blocks,
           Sums(f, h, S), Sums(g, h, T)
    PROVE  \A R \in SUBSET (S \cap T) : f[R] = g[R]
<1> DEFINE F == {R \in SUBSET (S \cap T) : f[R] # g[R]}
<1> SUFFICES ASSUME F # {} PROVE FALSE
  OBVIOUS
<1>1. F \in SUBSET SUBSET Blocks
  OBVIOUS
<1>2. PICK R \in F : \A Q \in F : ~(Cardinality(Q) < Cardinality(R))
  BY <1>1, Fewest
<1>3. R \in SUBSET S /\ R \in SUBSET T /\ f[R] # g[R]
  OBVIOUS
<1>4. R # {}
  BY <1>3 DEF Sums
<1>5. Some(R) \in R /\ R \in SUBSET Blocks
  BY <1>3, <1>4, SomeIn
<1>6. R \ {Some(R)} \notin F
  BY <1>2, <1>5, Fewer
<1>7. f[R \ {Some(R)}] = g[R \ {Some(R)}]
  BY <1>3, <1>6
<1>8. /\ f[R] = ClassBytes[h[Some(R)]] + f[R \ {Some(R)}]
      /\ g[R] = ClassBytes[h[Some(R)]] + g[R \ {Some(R)}]
  BY <1>3, <1>4 DEF Sums
<1> QED
  BY <1>3, <1>7, <1>8

LEMMA BytesFold ==
    ASSUME NEW h, NEW S
    PROVE  BytesOf(h, S) = (CHOOSE g : Sums(g, h, S))[S]
<1>1. PICK f : f = CHOOSE g : Sums(g, h, S)
  OBVIOUS
<1>2. BytesOf(h, S) = f[S]
  BY <1>1 DEF BytesOf, MapThenSumSet, MapThenFoldSet, Sums, Some
<1> QED
  BY <1>1, <1>2

LEMMA BytesBy ==
    ASSUME NEW h, NEW S \in SUBSET Blocks, NEW g, Sums(g, h, S)
    PROVE  BytesOf(h, S) = g[S]
<1>1. PICK f : f = CHOOSE k : Sums(k, h, S)
  OBVIOUS
<1>2. Sums(f, h, S)
  BY <1>1
<1>3. BytesOf(h, S) = f[S]
  BY <1>1, BytesFold
<1> QED
  BY <1>2, <1>3, SumsAgree

\* The fold of a set of blocks is defined.
LEMMA SumsExist ==
    ASSUME NEW h
    PROVE  \A S \in SUBSET Blocks : \E g : Sums(g, h, S)
<1> DEFINE F == {S \in SUBSET Blocks : ~\E g : Sums(g, h, S)}
<1> SUFFICES ASSUME F # {} PROVE FALSE
  OBVIOUS
<1>1. PICK S \in F : \A Q \in F : ~(Cardinality(Q) < Cardinality(S))
  BY Fewest
<1> DEFINE rest(s) == s \ {Some(s)}
           g == [s \in SUBSET S |->
                    IF s = {} THEN 0 ELSE ClassBytes[h[Some(s)]] + BytesOf(h, rest(s))]
<1>2. ASSUME NEW r \in SUBSET S, r # S
      PROVE  \E f : Sums(f, h, r)
  <2>1. PICK x \in S : x \notin r
    BY <1>2
  <2>2. /\ IsFiniteSet(S) /\ IsFiniteSet(r) /\ IsFiniteSet(S \ {x})
        /\ r \in SUBSET (S \ {x})
    BY <1>1, <2>1, FiniteBlocks, FS_Subset
  <2>3. Cardinality(r) <= Cardinality(S \ {x})
    BY <2>2, FS_Subset
  <2>4. Cardinality(S \ {x}) < Cardinality(S)
    BY <1>1, <2>1, Fewer
  <2>5. Cardinality(r) \in Nat /\ Cardinality(S \ {x}) \in Nat /\ Cardinality(S) \in Nat
    BY <2>2, FS_CardinalityType
  <2>6. Cardinality(r) < Cardinality(S)
    BY <2>3, <2>4, <2>5
  <2>7. r \notin F
    BY <1>1, <2>6
  <2> QED
    BY <1>1, <2>7
<1>3. ASSUME NEW r \in SUBSET S, r # S
      PROVE  g[r] = BytesOf(h, r)
  <2>1. PICK f : Sums(f, h, r)
    BY <1>2, <1>3
  <2>2. r \in SUBSET Blocks
    BY <1>1
  <2>3. BytesOf(h, r) = f[r]
    BY <2>1, <2>2, BytesBy
  <2>4. CASE r = {}
    BY <2>1, <2>3, <2>4 DEF Sums
  <2>5. CASE r # {}
    <3>1. Some(r) \in r
      BY <2>5, SomeIn
    <3>2. rest(r) \in SUBSET r /\ rest(r) \in SUBSET S /\ rest(r) # S
      BY <3>1, <1>3
    <3>3. PICK k : Sums(k, h, rest(r))
      BY <1>2, <3>2
    <3>4. BytesOf(h, rest(r)) = k[rest(r)]
      BY <2>2, <3>2, <3>3, BytesBy
    <3>5. rest(r) \in SUBSET Blocks /\ rest(r) \in SUBSET (r \cap rest(r))
      BY <2>2, <3>2
    <3>6. f[rest(r)] = k[rest(r)]
      BY <2>1, <2>2, <3>3, <3>5, SumsAgree
    <3>7. f[r] = ClassBytes[h[Some(r)]] + f[rest(r)]
      BY <2>1, <2>5 DEF Sums
    <3>8. g[r] = ClassBytes[h[Some(r)]] + BytesOf(h, rest(r))
      BY <2>5
    <3> QED
      BY <2>3, <3>4, <3>6, <3>7, <3>8
  <2> QED
    BY <2>4, <2>5
<1>4. ASSUME NEW s \in SUBSET S, s # {}
      PROVE  rest(s) \in SUBSET S /\ rest(s) # S
  BY <1>4, SomeIn
<1>5. \A s \in SUBSET S : s # {} => BytesOf(h, rest(s)) = g[rest(s)]
  BY <1>3, <1>4
<1>6. g = [s \in SUBSET S |->
              IF s = {} THEN 0 ELSE ClassBytes[h[Some(s)]] + g[rest(s)]]
  BY <1>5
<1>7. Sums(g, h, S)
  BY <1>6 DEF Sums
<1> QED
  BY <1>1, <1>7

LEMMA BytesEmpty == \A h : BytesOf(h, {}) = 0
<1> SUFFICES ASSUME NEW h PROVE BytesOf(h, {}) = 0
  OBVIOUS
<1>1. PICK g : Sums(g, h, {})
  BY SumsExist
<1>2. BytesOf(h, {}) = g[{}]
  BY <1>1, BytesBy
<1> QED
  BY <1>1, <1>2 DEF Sums

\* One step of the fold.
LEMMA BytesStep ==
    ASSUME NEW h, NEW S \in SUBSET Blocks, S # {}
    PROVE  BytesOf(h, S) = ClassBytes[h[Some(S)]] + BytesOf(h, S \ {Some(S)})
<1>1. PICK g : Sums(g, h, S)
  BY SumsExist
<1>2. Some(S) \in S
  BY SomeIn
<1> DEFINE R == S \ {Some(S)}
<1>3. R \in SUBSET Blocks /\ R \in SUBSET (S \cap R)
  OBVIOUS
<1>4. PICK f : Sums(f, h, R)
  BY <1>3, SumsExist
<1>5. BytesOf(h, S) = g[S] /\ BytesOf(h, R) = f[R]
  BY <1>1, <1>3, <1>4, BytesBy
<1>6. g[R] = f[R]
  BY <1>1, <1>3, <1>4, SumsAgree
<1>7. g[S] = ClassBytes[h[Some(S)]] + g[R]
  BY <1>1 DEF Sums
<1> QED
  BY <1>5, <1>6, <1>7

Sized(h, S) == S \in SUBSET Blocks /\ \A b \in S : h[b] \in Classes

LEMMA SizedBytes ==
    ASSUME NEW h, NEW S, Sized(h, S), NEW b \in S
    PROVE  ClassBytes[h[b]] \in Nat /\ Sized(h, S \ {b})
  BY ClassAssumption DEF Sized

LEMMA BytesNat ==
    ASSUME NEW h
    PROVE  \A S : Sized(h, S) => BytesOf(h, S) \in Nat
<1> DEFINE F == {S \in SUBSET Blocks : Sized(h, S) /\ BytesOf(h, S) \notin Nat}
<1>f. F \in SUBSET SUBSET Blocks
  OBVIOUS
<1>0. SUFFICES ASSUME F # {} PROVE FALSE
  BY DEF Sized
<1>1. PICK S \in F : \A Q \in F : ~(Cardinality(Q) < Cardinality(S))
  BY <1>f, <1>0, Fewest
<1>2. S \in SUBSET Blocks /\ Sized(h, S) /\ BytesOf(h, S) \notin Nat
  BY <1>1
<1>3. S # {}
  BY <1>2, BytesEmpty
<1>4. Some(S) \in S
  BY <1>3, SomeIn
<1>5. S \ {Some(S)} \notin F
  BY <1>1, <1>2, <1>4, Fewer
<1>6. /\ S \ {Some(S)} \in SUBSET Blocks /\ Sized(h, S \ {Some(S)})
      /\ ClassBytes[h[Some(S)]] \in Nat
  BY <1>2, <1>4, SizedBytes
<1>7. BytesOf(h, S \ {Some(S)}) \in Nat
  BY <1>5, <1>6
<1> QED
  BY <1>2, <1>3, <1>6, <1>7, BytesStep

\* A block added adds its own bytes, whichever block the fold takes first.
Adds(h, S, x) == Sized(h, S \cup {x}) /\ x \notin S
                     => BytesOf(h, S \cup {x}) = BytesOf(h, S) + ClassBytes[h[x]]

LEMMA BytesAdd == \A h, S, x : Adds(h, S, x)
<1> SUFFICES ASSUME NEW h PROVE \A S, x : Adds(h, S, x)
  OBVIOUS
<1> DEFINE F == {S \in SUBSET Blocks : \E x : ~Adds(h, S, x)}
<1>f. F \in SUBSET SUBSET Blocks
  OBVIOUS
<1>0. SUFFICES ASSUME F # {} PROVE FALSE
  BY DEF Adds, Sized
<1>1. PICK S \in F : \A Q \in F : ~(Cardinality(Q) < Cardinality(S))
  BY <1>f, <1>0, Fewest
<1>p. PICK x : ~Adds(h, S, x)
  BY <1>1
<1> DEFINE T == S \cup {x}
           y == Some(T)
           R == S \ {y}
<1>2. /\ S \in SUBSET Blocks /\ T \in SUBSET Blocks /\ x \notin S
      /\ Sized(h, T) /\ Sized(h, S) /\ Sized(h, T \ {y})
      /\ BytesOf(h, T) # BytesOf(h, S) + ClassBytes[h[x]]
  BY <1>1, <1>p DEF Adds, Sized
<1>3. T # {} /\ y \in T
  BY SomeIn
<1> HIDE DEF y
<1>4. BytesOf(h, T) = ClassBytes[h[y]] + BytesOf(h, T \ {y})
  BY <1>2, <1>3, BytesStep DEF y
<1>5. ClassBytes[h[x]] \in Nat /\ ClassBytes[h[y]] \in Nat
  BY <1>2, <1>3, SizedBytes
<1>6. BytesOf(h, S) \in Nat /\ BytesOf(h, T \ {y}) \in Nat
  BY <1>2, BytesNat
<1>7. y # x
  <2>1. CASE y = x
    <3>1. T \ {y} = S
      BY <2>1, <1>2
    <3>2. BytesOf(h, T) = ClassBytes[h[x]] + BytesOf(h, S)
      BY <3>1, <2>1, <1>4
    <3> QED
      BY <3>2, <1>2, <1>5, <1>6
  <2> QED
    BY <2>1
<1>8. y \in S /\ T \ {y} = R \cup {x} /\ S = R \cup {y} /\ x \notin R /\ y \notin R
  BY <1>2, <1>3, <1>7
<1>9. R \in SUBSET Blocks /\ Cardinality(R) < Cardinality(S)
  BY <1>2, <1>8, Fewer
<1>10. Sized(h, R \cup {x}) /\ Sized(h, R \cup {y}) /\ Sized(h, R)
  BY <1>2, <1>8 DEF Sized
<1>11. \A z : Adds(h, R, z)
  BY <1>1, <1>9
<1>12. /\ BytesOf(h, R \cup {x}) = BytesOf(h, R) + ClassBytes[h[x]]
       /\ BytesOf(h, R \cup {y}) = BytesOf(h, R) + ClassBytes[h[y]]
  BY <1>8, <1>10, <1>11 DEF Adds
<1>13. BytesOf(h, R) \in Nat
  BY <1>10, BytesNat
<1>14. /\ BytesOf(h, T) = ClassBytes[h[y]] + (BytesOf(h, R) + ClassBytes[h[x]])
       /\ BytesOf(h, S) = BytesOf(h, R) + ClassBytes[h[y]]
  BY <1>4, <1>8, <1>12
<1> QED
  BY <1>2, <1>5, <1>13, <1>14

\* Disjoint sets of blocks.
LEMMA BytesUnion ==
    ASSUME NEW h, NEW S
    PROVE  \A T : Sized(h, S \cup T) /\ S \cap T = {}
                  => BytesOf(h, S \cup T) = BytesOf(h, S) + BytesOf(h, T)
<1> DEFINE F == {T \in SUBSET Blocks :
                    /\ Sized(h, S \cup T) /\ S \cap T = {}
                    /\ BytesOf(h, S \cup T) # BytesOf(h, S) + BytesOf(h, T)}
<1>f. F \in SUBSET SUBSET Blocks
  OBVIOUS
<1>0. SUFFICES ASSUME F # {} PROVE FALSE
  BY DEF Sized
<1>1. PICK T \in F : \A Q \in F : ~(Cardinality(Q) < Cardinality(T))
  BY <1>f, <1>0, Fewest
<1>2. /\ T \in SUBSET Blocks /\ Sized(h, S \cup T) /\ S \cap T = {}
      /\ BytesOf(h, S \cup T) # BytesOf(h, S) + BytesOf(h, T)
      /\ Sized(h, S) /\ Sized(h, T)
  BY <1>1 DEF Sized
<1>3. T # {}
  <2>1. CASE T = {}
    <3>1. S \cup T = S /\ BytesOf(h, T) = 0 /\ BytesOf(h, S) \in Nat
      BY <2>1, <1>2, BytesEmpty, BytesNat
    <3> QED
      BY <3>1, <1>2
  <2> QED
    BY <2>1
<1>4. PICK x \in T : TRUE
  BY <1>3
<1> DEFINE R == T \ {x}
<1>5. /\ R \in SUBSET Blocks /\ Cardinality(R) < Cardinality(T)
      /\ T = R \cup {x} /\ S \cup T = (S \cup R) \cup {x}
      /\ x \notin R /\ x \notin S \cup R /\ S \cap R = {}
  BY <1>2, <1>4, Fewer
<1>6. Sized(h, S \cup R) /\ Sized(h, R \cup {x}) /\ Sized(h, (S \cup R) \cup {x}) /\ Sized(h, R)
  BY <1>2, <1>5 DEF Sized
<1>7. BytesOf(h, S \cup R) = BytesOf(h, S) + BytesOf(h, R)
  BY <1>1, <1>5, <1>6
<1>8. /\ BytesOf(h, T) = BytesOf(h, R) + ClassBytes[h[x]]
      /\ BytesOf(h, S \cup T) = BytesOf(h, S \cup R) + ClassBytes[h[x]]
  BY ZenonT(30), <1>5, <1>6, BytesAdd DEF Adds
<1>9. BytesOf(h, S) \in Nat /\ BytesOf(h, R) \in Nat /\ ClassBytes[h[x]] \in Nat
  BY <1>2, <1>4, <1>6, BytesNat, SizedBytes
<1> QED
  BY <1>2, <1>7, <1>8, <1>9

\* The bytes of a set depend on its own blocks only.
LEMMA BytesSame ==
    ASSUME NEW h, NEW k
    PROVE  \A S \in SUBSET Blocks :
               (\A b \in S : h[b] = k[b]) => BytesOf(h, S) = BytesOf(k, S)
<1> DEFINE F == {S \in SUBSET Blocks :
                    (\A b \in S : h[b] = k[b]) /\ BytesOf(h, S) # BytesOf(k, S)}
<1>f. F \in SUBSET SUBSET Blocks
  OBVIOUS
<1>0. SUFFICES ASSUME F # {} PROVE FALSE
  OBVIOUS
<1>1. PICK S \in F : \A Q \in F : ~(Cardinality(Q) < Cardinality(S))
  BY <1>f, <1>0, Fewest
<1>2. /\ S \in SUBSET Blocks /\ BytesOf(h, S) # BytesOf(k, S)
      /\ \A b \in S : h[b] = k[b]
  BY <1>1
<1>3. S # {}
  BY <1>2, BytesEmpty
<1>4. Some(S) \in S
  BY <1>3, SomeIn
<1> DEFINE R == S \ {Some(S)}
<1>5. R \in SUBSET Blocks /\ R \notin F
  BY <1>1, <1>2, <1>4, Fewer
<1>6. BytesOf(h, R) = BytesOf(k, R)
  BY <1>2, <1>5
<1>7. /\ BytesOf(h, S) = ClassBytes[h[Some(S)]] + BytesOf(h, R)
      /\ BytesOf(k, S) = ClassBytes[k[Some(S)]] + BytesOf(k, R)
  BY <1>2, <1>3, BytesStep
<1> QED
  BY <1>2, <1>4, <1>6, <1>7


-----------------------------------------------------------------------------
(***************************************************************************)
(* The two byte counters.  total_reserved is the sum over all that was     *)
(* cudaMalloc'ed, wherever it is by now, as long as ~Impl has not run.     *)
(***************************************************************************)
Allocated == {b \in Blocks : heap[b] # NoClass}
Used == InBuffers \cup adrift
Accounted == impl_refs > 0 => /\ total_in_use = BytesOf(heap, Used)
                              /\ total_reserved = BytesOf(heap, Allocated)

LEMMA AllSized ==
    TypeOK /\ Placed => /\ Sized(heap, Allocated) /\ Sized(heap, Used)
                        /\ Used \subseteq Allocated
<1> SUFFICES ASSUME TypeOK, Placed
             PROVE  /\ Sized(heap, Allocated) /\ Sized(heap, Used)
                    /\ Used \subseteq Allocated
  OBVIOUS
<1>1. heap \in [Blocks -> Classes \cup {NoClass}] /\ adrift \subseteq Blocks
  BY DEF TypeOK
<1>2. \A i \in Buffers : buf[i].size_class \in Classes
  BY DEF TypeOK, Buffer
<1>3. \A b \in InBuffers : heap[b] # NoClass
  BY <1>2, NullAssumption DEF InBuffers, Placed, HeldFits
<1>4. Used \subseteq Allocated
  BY <1>1, <1>3 DEF Used, Allocated, InBuffers, Placed, AdriftGone
<1> QED
  BY <1>1, <1>4 DEF Sized, Allocated

LEMMA AllSizedAfter ==
    TypeOK' /\ Placed' => Sized(heap', Allocated') /\ Sized(heap', Used')
<1>1. (TypeOK /\ Placed => Sized(heap, Allocated) /\ Sized(heap, Used))'
  BY AllSized, PTL
<1> QED
  BY <1>1

\* A sum over one block more, in a heap that agrees on the others.
LEMMA BytesGrow ==
    ASSUME NEW h, NEW k, NEW S, NEW b, Sized(h, S), Sized(k, S \cup {b}), b \notin S,
           \A x \in S : h[x] = k[x]
    PROVE  BytesOf(k, S \cup {b}) = BytesOf(h, S) + ClassBytes[k[b]]
<1>1. BytesOf(h, S) = BytesOf(k, S)
  BY BytesSame DEF Sized
<1>2. Adds(k, S, b)
  BY BytesAdd
<1> QED
  BY <1>1, <1>2 DEF Adds

LEMMA RawAllocReserves ==
    ASSUME TypeOK, Placed, TypeOK', Placed', NEW b \in Blocks, NEW c \in Classes,
           raw_alloc(b, c), total_reserved = BytesOf(heap, Allocated)
    PROVE  total_reserved' = BytesOf(heap', Allocated')
<1>1. /\ heap'[b] = c /\ \A x \in Blocks : x # b => heap'[x] = heap[x]
      /\ heap[b] = NoClass
  BY FreshBlock DEF raw_alloc
<1>2. Allocated' = Allocated \cup {b} /\ b \notin Allocated
  BY <1>1, NullAssumption DEF Allocated
<1>3. Sized(heap, Allocated) /\ Sized(heap', Allocated \cup {b})
  BY <1>2, AllSized, AllSizedAfter
<1>4. BytesOf(heap', Allocated \cup {b}) = BytesOf(heap, Allocated) + ClassBytes[heap'[b]]
  BY <1>1, <1>2, <1>3, BytesGrow DEF Allocated
<1> QED
  BY <1>1, <1>2, <1>4 DEF raw_alloc

\* A block taken into use is counted once.
LEMMA UseGrows ==
    ASSUME TypeOK, Placed, TypeOK', Placed', NEW b \in Blocks,
           Used' = Used \cup {b}, b \notin Used, \A x \in Used : heap'[x] = heap[x],
           total_in_use = BytesOf(heap, Used),
           total_in_use' = total_in_use + ClassBytes[heap'[b]]
    PROVE  total_in_use' = BytesOf(heap', Used')
<1>1. Sized(heap, Used) /\ Sized(heap', Used \cup {b})
  BY AllSized, AllSizedAfter
<1> QED
  BY <1>1, BytesGrow

\* Nothing moves in or out of the sets that are summed.
LEMMA AccountedQuiet ==
    ASSUME Accounted, UNCHANGED <<heap, total_in_use, total_reserved, impl_refs>>,
           Used' = Used
    PROVE  Accounted'
  BY DEF Accounted, Allocated

LEMMA AccountedInit == Init => Accounted
<1> SUFFICES ASSUME Init PROVE Accounted
  OBVIOUS
<1>1. Used = {} /\ Allocated = {}
  BY NullAssumption DEF Init, Used, InBuffers, Allocated
<1> QED
  BY <1>1, BytesEmpty DEF Init, Accounted

LEMMA AccountedNext ==
    TypeOK /\ HoldsBlock /\ Placed /\ Counts /\ Accounted /\ [Next]_vars => Accounted'
<1> SUFFICES ASSUME TypeOK, HoldsBlock, Placed, Counts, Accounted, [Next]_vars
             PROVE  Accounted'
  OBVIOUS
<1>n. TypeOK' /\ Placed'
  BY TypeNext, PlacedNext
<1>b. buf \in [Buffers -> Buffer]
  BY DEF TypeOK
<1>f. free_blocks \in [Classes -> Seq(PooledBlock)]
  BY DEF TypeOK
<1>a. pool_alive => impl_refs > 0
  BY CountedSetsFinite DEF Counts
<1>1. ASSUME NEW t \in Threads, NEW c \in Classes, NEW i \in Buffers, NEW s \in Streams,
             NEW b \in Blocks, HandOut(t, i, c, s, b)
      PROVE  Used' = Used \cup {b} /\ total_in_use' = total_in_use + ClassBytes[c]
  <2>1. /\ buf[i].phase = "none" /\ buf'[i].ptr = b
        /\ \A j \in Buffers : j # i => buf'[j] = buf[j]
        /\ UNCHANGED adrift
    BY <1>1, <1>b DEF HandOut
  <2>2. buf[i].ptr = NoBlock
    BY <2>1 DEF HoldsBlock
  <2>3. InBuffers' = InBuffers \cup {b}
    BY <2>1, <2>2, NullAssumption DEF InBuffers
  <2> QED
    BY <1>1, <2>1, <2>3 DEF Used, HandOut
<1>2. ASSUME NEW c \in Classes, NEW b \in Blocks, Abandon(c, b)
      PROVE  Used' = Used \cup {b} /\ total_in_use' = total_in_use + ClassBytes[c]
  BY <1>2 DEF Abandon, Used, InBuffers
\* From a bucket: the block was in no buffer and not adrift.
<1>3. ASSUME NEW c \in Classes, free_blocks[c] # <<>>, free_blocks' = Popped(c),
             impl_refs > 0, UNCHANGED <<heap, total_reserved>>,
             Used' = Used \cup {Back(c).ptr},
             total_in_use' = total_in_use + ClassBytes[c]
      PROVE  Accounted'
  <2>1. Back(c).ptr \in Blocks
    BY <1>3, <1>f, PopEffect DEF PooledBlock
  <2>2. /\ heap[Back(c).ptr] = c /\ InBucket(Back(c).ptr)
        /\ \A i \in Buffers : buf[i].ptr # Back(c).ptr
    BY <1>3, <1>f, PopLeaves DEF Placed
  <2>3. Back(c).ptr \notin Used
    BY <2>2 DEF Used, InBuffers, Placed, AdriftGone
  <2>4. total_in_use = BytesOf(heap, Used) /\ total_reserved = BytesOf(heap, Allocated)
    BY <1>3 DEF Accounted
  <2>5. total_in_use' = BytesOf(heap', Used')
    BY <1>3, <1>n, <2>1, <2>2, <2>3, <2>4, UseGrows
  <2>6. total_reserved' = BytesOf(heap', Allocated')
    BY <1>3, <2>4 DEF Allocated
  <2> QED
    BY <2>5, <2>6 DEF Accounted
\* From cudaMalloc: the block was nowhere.
<1>4. ASSUME NEW c \in Classes, NEW b \in Blocks, raw_alloc(b, c), impl_refs > 0,
             Used' = Used \cup {b}, total_in_use' = total_in_use + ClassBytes[c]
      PROVE  Accounted'
  <2>1. /\ \A i \in Buffers : buf[i].ptr # b
        /\ b \notin adrift /\ heap'[b] = c
        /\ \A x \in Blocks : x # b => heap'[x] = heap[x]
    BY <1>4, FreshBlock
  <2>2. b \notin Used /\ Used \subseteq Blocks
    BY <2>1 DEF Used, InBuffers, TypeOK
  <2>3. total_in_use = BytesOf(heap, Used) /\ total_reserved = BytesOf(heap, Allocated)
    BY <1>4 DEF Accounted
  <2>4. \A x \in Used : heap'[x] = heap[x]
    BY <2>1, <2>2
  <2>5. total_in_use' = BytesOf(heap', Used')
    BY <1>4, <1>n, <2>1, <2>2, <2>3, <2>4, UseGrows
  <2>6. total_reserved' = BytesOf(heap', Allocated')
    BY <1>4, <1>n, <2>3, RawAllocReserves
  <2> QED
    BY <2>5, <2>6 DEF Accounted
<1>5. ASSUME NEW t \in Threads, NEW b \in Blocks,
             PreallocPush(t, b) \/ PreallocPushThrows(t, b)
      PROVE  Accounted'
  <2>1. /\ filling.class \in Classes /\ raw_alloc(b, filling.class)
        /\ UNCHANGED <<total_in_use, impl_refs, adrift, buf>>
    BY <1>5 DEF PreallocPush, PreallocPushThrows, TypeOK, lifeVars
  <2>2. /\ \A i \in Buffers : buf[i].ptr # b
        /\ b \notin adrift
        /\ \A x \in Blocks : x # b => heap'[x] = heap[x]
    BY <2>1, FreshBlock
  <2>3. Used' = Used /\ Used \in SUBSET Blocks /\ \A x \in Used : heap[x] = heap'[x]
    BY <2>1, <2>2 DEF Used, InBuffers, TypeOK
  <2>4. BytesOf(heap, Used) = BytesOf(heap', Used')
    BY <2>3, BytesSame
  <2>5. impl_refs > 0 => total_reserved' = BytesOf(heap', Allocated')
    BY <1>n, <2>1, RawAllocReserves DEF Accounted
  <2> QED
    BY <2>1, <2>4, <2>5 DEF Accounted
<1>6. ASSUME NEW t \in Threads, NEW i \in Buffers, DeleterReturn(t, i)
      PROVE  Accounted'
  <2> DEFINE b == buf[i].ptr
  <2>1. /\ b \in Blocks /\ buf'[i].ptr = NoBlock
        /\ \A j \in Buffers : j # i => buf'[j] = buf[j]
    BY <1>6, <1>b DEF DeleterReturn, At, HoldsBlock, Buffer
  <2>2. /\ \A j \in Buffers : j # i => buf[j].ptr # b
        /\ b \notin adrift /\ heap[b] = buf[i].size_class
    BY <2>1, NullAssumption DEF Placed, OneHolder, HeldFits, AdriftGone
  <2>3. /\ total_in_use' = total_in_use - ClassBytes[heap[b]]
        /\ UNCHANGED <<heap, total_reserved, impl_refs, adrift>>
    BY <1>6, <2>2 DEF DeleterReturn, lifeVars
  <2>4. InBuffers = InBuffers' \cup {b} /\ b \notin InBuffers'
    BY <2>1, <2>2, NullAssumption DEF InBuffers
  <2>5. Used = Used' \cup {b} /\ b \notin Used'
    BY <2>2, <2>3, <2>4 DEF Used
  <2>6. Sized(heap, Used) /\ Sized(heap, Used') /\ Sized(heap, Used' \cup {b})
    BY <2>5, AllSized DEF Sized
  <2>7. BytesOf(heap, Used) = BytesOf(heap, Used') + ClassBytes[heap[b]]
    <3>1. BytesOf(heap, Used' \cup {b}) = BytesOf(heap, Used') + ClassBytes[heap[b]]
      BY <2>5, <2>6, BytesAdd DEF Adds
    <3> QED
      BY <2>5, <3>1
  <2>8. BytesOf(heap, Used') \in Nat /\ ClassBytes[heap[b]] \in Nat
    BY <2>5, <2>6, BytesNat, SizedBytes
  <2>9. impl_refs > 0 => total_in_use' = BytesOf(heap, Used')
    BY <2>3, <2>7, <2>8 DEF Accounted
  <2> QED
    BY <2>3, <2>9 DEF Accounted, Allocated
<1>7. ASSUME NEW t \in Threads, NEW i \in Buffers, DeleterFails(t, i)
      PROVE  Accounted'
  <2>1. /\ buf[i].ptr \in Blocks /\ buf'[i].ptr = NoBlock
        /\ \A j \in Buffers : j # i => buf'[j] = buf[j]
        /\ adrift' = adrift \cup {buf[i].ptr}
    BY <1>7, <1>b DEF DeleterFails, At, HoldsBlock, Buffer
  <2>2. Used' = Used
    BY <2>1, NullAssumption DEF Used, InBuffers
  <2> QED
    BY <1>7, <2>2, AccountedQuiet DEF DeleterFails, implVars, lifeVars
<1>8. ASSUME ReleaseImpl, \A i \in Buffers : buf'[i].ptr = buf[i].ptr,
             UNCHANGED <<total_in_use, total_reserved, adrift>>
      PROVE  Accounted'
  <2>1. CASE impl_refs = 1
    BY <1>8, <2>1 DEF ReleaseImpl, Accounted
  <2>2. CASE impl_refs # 1
    <3>1. UNCHANGED heap /\ impl_refs' = impl_refs - 1 /\ impl_refs \in Int
      BY <1>8, <2>2 DEF ReleaseImpl, TypeOK
    <3>2. Used' = Used /\ Allocated' = Allocated
      BY <1>8, <3>1 DEF Used, InBuffers, Allocated
    <3> QED
      BY <1>8, <3>1, <3>2 DEF Accounted
  <2> QED
    BY <2>1, <2>2
<1>9. ASSUME NEW t \in Threads, NEW i \in Buffers, DeleterRelease(t, i)
      PROVE  Accounted'
  <2>1. \A j \in Buffers : buf'[j].ptr = buf[j].ptr
    BY <1>9, <1>b DEF DeleterRelease, Buffer
  <2> QED
    BY <1>8, <1>9, <2>1 DEF DeleterRelease
<1>10. ASSUME NEW t \in Threads, DestroyPool(t)
       PROVE  Accounted'
  BY <1>8, <1>10 DEF DestroyPool
<1>11. ASSUME NEW t \in Threads, NEW i \in Buffers,
              \/ Drop(t, i) \/ DropLast(t, i)
              \/ \E u \in Threads : Share(t, u, i)
              \/ \E e \in Events \cup {NoEvent} : DeleterRecord(t, i, e)
              \/ DeleterCount(t, i)
       PROVE  Accounted'
  <2>1. \A j \in Buffers : buf'[j].ptr = buf[j].ptr
    <3>1. CASE Drop(t, i)
      BY <3>1, <1>b DEF Drop, Buffer
    <3>2. CASE DropLast(t, i)
      BY <3>2, <1>b DEF DropLast, Buffer
    <3>3. CASE \E u \in Threads : Share(t, u, i)
      BY <3>3, <1>b DEF Share, Buffer
    <3>4. CASE \E e \in Events \cup {NoEvent} : DeleterRecord(t, i, e)
      BY <3>4, <1>b DEF DeleterRecord, Buffer
    <3>5. CASE DeleterCount(t, i)
      BY <3>5, <1>b DEF DeleterCount, Buffer
    <3> QED
      BY <1>11, <3>1, <3>2, <3>3, <3>4, <3>5
  <2>2. UNCHANGED <<heap, total_in_use, total_reserved, impl_refs, adrift>>
    BY <1>11 DEF Drop, DropLast, Share, DeleterRecord, DeleterCount, implVars, lifeVars
  <2>3. Used' = Used
    BY <2>1, <2>2 DEF Used, InBuffers
  <2> QED
    BY <2>2, <2>3, AccountedQuiet
<1>12. ASSUME \/ UNCHANGED vars
              \/ \E t \in Threads : \/ PreallocEnd(t)
                                    \/ \E c \in Classes : AllocateWaitFails(t, c)
                                    \/ \E c \in Classes, n \in 1..MaxFill :
                                          PreallocBegin(t, c, n)
       PROVE  Accounted'
  <2>1. UNCHANGED <<heap, total_in_use, total_reserved, impl_refs, adrift, buf>>
    BY <1>12
    DEF PreallocBegin, PreallocEnd, AllocateWaitFails, vars, implVars, lifeVars
  <2> QED
    BY <2>1, AccountedQuiet DEF Used, InBuffers
<1>13. ASSUME NEW t \in Threads, Allocate(t)
       PROVE  Accounted'
  <2>1. ASSUME NEW c \in Classes, NEW i \in Buffers, NEW s \in Streams,
               AllocateReuse(t, i, c, s)
        PROVE  Accounted'
    <3>1. Back(c).ptr \in Blocks
      BY <2>1, <1>f, PopEffect DEF AllocateReuse, PooledBlock
    <3> QED
      BY <1>1, <1>3, <1>a, <2>1, <3>1 DEF AllocateReuse
  <2>2. ASSUME NEW c \in Classes, NEW i \in Buffers, NEW s \in Streams, NEW b \in Blocks,
               AllocateFresh(t, i, c, s, b)
        PROVE  Accounted'
    BY <1>1, <1>4, <1>a, <2>2 DEF AllocateFresh
  <2>3. ASSUME NEW c \in Classes, AllocateReuseThrows(t, c)
        PROVE  Accounted'
    <3>1. Back(c).ptr \in Blocks
      BY <2>3, <1>f, PopEffect DEF AllocateReuseThrows, PooledBlock
    <3> QED
      BY <1>2, <1>3, <1>a, <2>3, <3>1 DEF AllocateReuseThrows
  <2>4. ASSUME NEW c \in Classes, NEW b \in Blocks, AllocateFreshThrows(t, c, b)
        PROVE  Accounted'
    BY <1>2, <1>4, <1>a, <2>4 DEF AllocateFreshThrows
  <2> QED
    BY <1>12, <1>13, <2>1, <2>2, <2>3, <2>4 DEF Allocate
<1> QED
  BY <1>5, <1>6, <1>7, <1>9, <1>10, <1>11, <1>12, <1>13
  DEF Next, Prealloc, Deleter, Handle, Finished

\* All that was cudaMalloc'ed is in a buffer, in a bucket or lost, and
\* nothing is in two of the three.
LEMMA AllAccountedFor ==
    ASSUME TypeOK, Placed
    PROVE  /\ Allocated = (InBuffers \cup InBuckets) \cup Lost
           /\ InBuffers \cap InBuckets = {}
           /\ (InBuffers \cup InBuckets) \cap Lost = {}
<1>1. InBuffers \subseteq Allocated
  BY AllSized DEF Used
<1>2. \A b \in InBuckets : heap[b] \in Classes /\ b \notin InBuffers
  BY DEF InBuckets, InBuffers, InBucket, Placed, FreeListsSound
<1>3. \A b \in Blocks : b \in InBuffers \/ b \in InBuckets \/ b \in Lost \/ heap[b] = NoClass
  BY DEF InBuffers, InBuckets, Lost
<1> QED
  BY <1>1, <1>2, <1>3, NullAssumption DEF Allocated, Lost, InBuffers, InBuckets

\* bytes_in_use and bytes_reserved are exact between any two steps.
THEOREM BytesAreExact == Spec => []BytesExact
<1>1. TypeOK /\ Placed /\ Accounted => BytesExact
  <2> SUFFICES ASSUME TypeOK, Placed, Accounted, impl_refs > 0
               PROVE  /\ total_in_use = BytesOf(heap, InBuffers \cup adrift)
                      /\ total_reserved = BytesOf(heap, InBuffers)
                                          + BytesOf(heap, InBuckets) + BytesOf(heap, Lost)
    BY DEF BytesExact
  <2>1. Sized(heap, Allocated)
    BY AllSized
  <2>2. Sized(heap, InBuffers \cup InBuckets)
    BY <2>1, AllAccountedFor DEF Sized
  <2>3. BytesOf(heap, Allocated) = BytesOf(heap, InBuffers \cup InBuckets) + BytesOf(heap, Lost)
    BY <2>1, AllAccountedFor, BytesUnion
  <2>4. BytesOf(heap, InBuffers \cup InBuckets)
            = BytesOf(heap, InBuffers) + BytesOf(heap, InBuckets)
    BY <2>2, AllAccountedFor, BytesUnion
  <2> QED
    BY <2>3, <2>4 DEF Accounted, Used
<1>2. TypeOK /\ HoldsBlock /\ Placed /\ Counts /\ Accounted /\ [Next]_vars => Accounted'
  BY AccountedNext
<1> QED
  BY <1>1, <1>2, AccountedInit, AllInvariants, PTL DEF Spec
=============================================================================
