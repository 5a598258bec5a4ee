--------------------------- MODULE MatmulPipeline ---------------------------
(***************************************************************************)
(* One block of the matmul_wmma kernel: its warps copy the tiles of A and  *)
(* B asynchronously into one of two stages of shared memory while they     *)
(* multiply what is in the other, and at the end store their accumulators  *)
(* into Cs, which is the same shared memory (a union with the stages).     *)
(*                                                                         *)
(* A tile is a number: which TILE_K columns of A and rows of B it is.  An  *)
(* accumulator is the sequence of the tiles added to it.  What a warp      *)
(* copies of a tile is its slot of the stage; every warp reads the slots   *)
(* of others.  Copies past the edge of the matrices fill with zero, which  *)
(* adds nothing and is not shown.                                          *)
(***************************************************************************)
EXTENDS Integers, Sequences, FiniteSets

CONSTANTS
    Warps,
    MaxTiles    \* bound: tiles along K

ASSUME PipelineAssumption == /\ Warps # {}
                             /\ MaxTiles \in Nat

Stages == {0, 1}

\* Mutant of Other: a stage that is counted instead of flipped.
OtherCounts(stage) == stage + 1

Other(stage) == 1 - stage

\* What a slot holds when it is not one tile: never written, or overwritten
\* by the accumulators.
Junk == -1

VARIABLES
    tiles,          \* iterations of the loop over K, 0 when K = 0
    pc,             \* where each warp is
    k,              \* its iteration
    read_stage,
    write_stage,
    c_frag,         \* its accumulators
    pending,        \* asynchronous copies that have not landed
    shmem,          \* the slots of each stage
    Cs,             \* the slots of the accumulators, once stored
    C               \* what each warp wrote of the result

vars == <<tiles, pc, k, read_stage, write_stage, c_frag, pending, shmem, Cs, C>>
registers == <<k, read_stage, write_stage, c_frag>>

Barriers == {"loaded", "multiplied", "stored"}
Places == {"prologue", "load", "wait", "multiply", "store", "write", "done"} \cup Barriers

NotStored == <<Junk>>

TypeOK ==
    /\ tiles \in 0..MaxTiles
    /\ pc \in [Warps -> Places]
    /\ k \in [Warps -> 0..MaxTiles]
    /\ read_stage \in [Warps -> Stages]
    /\ write_stage \in [Warps -> Stages]
    /\ c_frag \in [Warps -> Seq(Nat \cup {Junk})]
    /\ pending \subseteq [warp : Warps, stage : Stages, tile : Nat]
    /\ shmem \in [Stages -> [Warps -> Nat \cup {Junk}]]
    /\ Cs \in [Warps -> Seq(Nat \cup {Junk})]
    /\ C \in [Warps -> {<<>>} \cup [Warps -> Seq(Nat \cup {Junk})]]

Init ==
    /\ tiles \in 0..MaxTiles
    /\ pc = [w \in Warps |-> "prologue"]
    /\ k = [w \in Warps |-> 0]
    /\ read_stage = [w \in Warps |-> 0]
    /\ write_stage = [w \in Warps |-> 0]
    /\ c_frag = [w \in Warps |-> <<>>]
    /\ pending = {}
    /\ shmem = [s \in Stages |-> [w \in Warps |-> Junk]]
    /\ Cs = [w \in Warps |-> NotStored]
    /\ C = [w \in Warps |-> <<>>]

-----------------------------------------------------------------------------
At(w, place) == pc[w] = place
Goes(w, place) == pc' = [pc EXCEPT ![w] = place]

\* The head of the loop over K.
LoopOr(i, exit) == IF i < tiles THEN "load" ELSE exit

\* load_tile_async: a warp's copies of one tile.
Copies(w, tile) == [warp |-> w, stage |-> write_stage[w], tile |-> tile]

Prologue(w) ==
    /\ At(w, "prologue")
    /\ pending' = pending \cup {Copies(w, 0)}
    /\ write_stage' = [write_stage EXCEPT ![w] = Other(@)]
    /\ Goes(w, LoopOr(0, "store"))
    /\ UNCHANGED <<tiles, k, read_stage, c_frag, shmem, Cs, C>>

LoadNext(w) ==
    /\ At(w, "load")
    /\ pending' = pending \cup (IF k[w] + 1 < tiles THEN {Copies(w, k[w] + 1)} ELSE {})
    /\ Goes(w, "wait")
    /\ UNCHANGED <<tiles, registers, shmem, Cs, C>>

Mine(w) == {p \in pending : p.warp = w}

\* Mutant of WaitGroup: cp.async.wait_group 1, which lets the newest group of
\* copies be, also in the last iteration, where that is the tile to multiply.
WaitGroupOne(w) ==
    /\ At(w, "wait")
    /\ Cardinality(Mine(w)) <= 1
    /\ Goes(w, "loaded")
    /\ UNCHANGED <<tiles, registers, pending, shmem, Cs, C>>

\* cp.async.wait_group 0, on the way to __syncthreads.
WaitGroup(w) ==
    /\ At(w, "wait")
    /\ Mine(w) = {}
    /\ Goes(w, "loaded")
    /\ UNCHANGED <<tiles, registers, pending, shmem, Cs, C>>

\* The tile that the slots of a stage make up.
TileIn(stage) ==
    LET slots == {shmem[stage][w] : w \in Warps}
    IN IF \E t \in slots : slots = {t} THEN CHOOSE t \in slots : TRUE ELSE Junk

MultiplyAdd(w) ==
    /\ At(w, "multiply")
    /\ c_frag' = [c_frag EXCEPT ![w] = Append(@, TileIn(read_stage[w]))]
    /\ Goes(w, "multiplied")
    /\ UNCHANGED <<tiles, k, read_stage, write_stage, pending, shmem, Cs, C>>

\* Mutant of StoreAccumulators: no __syncthreads before Cs is read.
StoreAccumulatorsRunsOn(w) ==
    /\ At(w, "store")
    /\ Cs' = [Cs EXCEPT ![w] = c_frag[w]]
    /\ shmem' = [s \in Stages |-> [v \in Warps |-> Junk]]
    /\ Goes(w, "write")
    /\ UNCHANGED <<tiles, registers, pending, C>>

\* store_matrix_sync: Cs lies over both stages.
StoreAccumulators(w) ==
    /\ At(w, "store")
    /\ Cs' = [Cs EXCEPT ![w] = c_frag[w]]
    /\ shmem' = [s \in Stages |-> [v \in Warps |-> Junk]]
    /\ Goes(w, "stored")
    /\ UNCHANGED <<tiles, registers, pending, C>>

\* The elements a thread writes out were stored by other warps.
WriteOut(w) ==
    /\ At(w, "write")
    /\ C' = [C EXCEPT ![w] = Cs]
    /\ Goes(w, "done")
    /\ UNCHANGED <<tiles, registers, pending, shmem, Cs>>

-----------------------------------------------------------------------------
Released(w) ==
    CASE At(w, "loaded") -> "multiply"
      [] At(w, "multiplied") -> LoopOr(k[w] + 1, "store")
      [] At(w, "stored") -> "write"

EndsIteration(w) == At(w, "multiplied")

\* __syncthreads: all warps of the block leave together, whichever call of it
\* each has come to.
Syncthreads ==
    /\ \A w \in Warps : pc[w] \in Barriers
    /\ pc' = [w \in Warps |-> Released(w)]
    /\ k' = [w \in Warps |-> IF EndsIteration(w) THEN k[w] + 1 ELSE k[w]]
    /\ read_stage' = [w \in Warps |-> IF EndsIteration(w) THEN Other(read_stage[w]) ELSE read_stage[w]]
    /\ write_stage' = [w \in Warps |-> IF EndsIteration(w) THEN Other(write_stage[w]) ELSE write_stage[w]]
    /\ UNCHANGED <<tiles, c_frag, pending, shmem, Cs, C>>

Stored(w) == pc[w] \in {"stored", "write", "done"}

\* A copy lands in its slot, and in what of Cs lies over it.  The copies of a
\* tile past the end of K are zeros, the sum of no tiles.
Landed(tile) == IF tile < tiles THEN <<Junk>> ELSE <<>>
Land(p) ==
    /\ pending' = pending \ {p}
    /\ shmem' = [shmem EXCEPT ![p.stage][p.warp] = p.tile]
    /\ Cs' = [w \in Warps |-> IF Stored(w) THEN Landed(p.tile) ELSE Cs[w]]
    /\ UNCHANGED <<tiles, pc, registers, C>>

Step(w) ==
    \/ Prologue(w)
    \/ LoadNext(w)
    \/ WaitGroup(w)
    \/ MultiplyAdd(w)
    \/ StoreAccumulators(w)
    \/ WriteOut(w)

BlockDone == \A w \in Warps : At(w, "done")

Next ==
    \/ \E w \in Warps : Step(w)
    \/ Syncthreads
    \/ \E p \in pending : Land(p)
    \/ BlockDone /\ UNCHANGED vars

Spec == Init /\ [][Next]_vars

-----------------------------------------------------------------------------
\* A copy never lands where a warp reads tiles or stores accumulators: none is
\* under way into the stage a warp multiplies, and, if there is anything to
\* multiply, none at all once a warp has left the loop; nor does a warp
\* multiply when another has put its accumulators over the tiles
\* (cp.async.wait_group and the three __syncthreads of the kernel).
NoRace ==
    /\ \A w \in Warps, p \in pending : At(w, "multiply") => p.stage # read_stage[w]
    /\ tiles > 0 => \A w \in Warps :
          At(w, "store") \/ Stored(w) => pending = {} /\ \A v \in Warps : ~At(v, "multiply")

\* The tiles of the first n iterations, each once and in order.
FirstTiles(n) == [i \in 1..n |-> i - 1]

\* Every warp writes to the result the whole sums of all warps: those of every
\* tile along K, none when K = 0, although late copies lie over Cs then (the
\* epilogue of wmma_matmul_tile_optimized).
ProductComplete ==
    \A w \in Warps : At(w, "done") => C[w] = [v \in Warps |-> FirstTiles(tiles)]
=============================================================================
