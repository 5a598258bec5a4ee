--------------------------- MODULE BlockAllocator ---------------------------
(***************************************************************************)
(* What a caller of yadrakova::core::MemoryPool is promised: a buffer has  *)
(* at most one device block behind it, and no block is behind two buffers. *)
(* How the blocks are obtained, recycled or lost is not visible here.      *)
(***************************************************************************)
CONSTANTS
    Buffers,    \* identities of DeviceBuffer objects
    Blocks,     \* device addresses
    NoBlock     \* the buffer is not backed by a block

VARIABLE holds  \* holds[i]: the block behind buffer i

TypeOK == holds \in [Buffers -> Blocks \cup {NoBlock}]

Init == holds = [i \in Buffers |-> NoBlock]

\* MemoryPool::allocate hands out a block nobody holds.
Grant(i, b) ==
    /\ holds[i] = NoBlock
    /\ \A j \in Buffers : holds[j] # b
    /\ holds' = [holds EXCEPT ![i] = b]

\* The deleter of the last shared_ptr gives the block back.
Revoke(i) ==
    /\ holds[i] # NoBlock
    /\ holds' = [holds EXCEPT ![i] = NoBlock]

Next == \E i \in Buffers : Revoke(i) \/ \E b \in Blocks : Grant(i, b)

Spec == Init /\ [][Next]_holds
=============================================================================
