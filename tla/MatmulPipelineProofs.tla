------------------------ MODULE MatmulPipelineProofs ------------------------
(***************************************************************************)
(* Theorems about MatmulPipeline, for every number of warps and of tiles.  *)
(***************************************************************************)
EXTENDS MatmulPipeline, SequenceTheorems, TLAPS

Loading == {"prologue", "load", "wait", "loaded"}
Multiplying == {"multiply", "multiplied"}
Storing == {"store", "stored"}
Writing == {"write", "done"}

\* The warps are between the same two barriers; without tiles there is none
\* before the accumulators are stored.
All(places) == \A w \in Warps : pc[w] \in places
Together ==
    \/ tiles > 0 /\ All(Loading)
    \/ tiles > 0 /\ All(Multiplying)
    \/ tiles > 0 /\ All(Storing)
    \/ tiles = 0 /\ All({"prologue"} \cup Storing)
    \/ All(Writing)

\* They are in the same iteration, and flip the stages with it.
Turn ==
    /\ \A w, v \in Warps : k[w] = k[v] /\ read_stage[w] = read_stage[v]
    /\ \A w \in Warps :
          /\ At(w, "prologue") => k[w] = 0 /\ write_stage[w] = read_stage[w]
          /\ ~At(w, "prologue") => write_stage[w] = Other(read_stage[w])
          /\ ~At(w, "prologue") /\ pc[w] \in Loading \cup Multiplying => k[w] < tiles
          /\ pc[w] \in Storing \cup Writing => k[w] = tiles

\* An accumulator is the sum of the tiles of the iterations that are over.
Summed == \A w \in Warps :
    c_frag[w] = FirstTiles(IF At(w, "multiplied") THEN k[w] + 1 ELSE k[w])

\* A warp's copies of the tile to multiply next, and of the one after it.
Current(w) == [warp |-> w, stage |-> read_stage[w], tile |-> k[w]]
Ahead(w) == [warp |-> w, stage |-> Other(read_stage[w]), tile |-> k[w] + 1]

Due(w) == (IF pc[w] \in {"load", "wait"} THEN {Current(w)} ELSE {})
             \cup (IF pc[w] = "wait" THEN {Ahead(w)} ELSE {})

UnderWay == tiles > 0 => \A w \in Warps : Mine(w) \subseteq Due(w)

\* A copy begun is under way until it has landed; nothing lies over it.
Arrived(p) == p \in pending \/ shmem[p.stage][p.warp] = p.tile
Slots == tiles > 0 => \A w \in Warps :
    /\ pc[w] \in {"load", "wait", "loaded"} \cup Multiplying => Arrived(Current(w))
    /\ pc[w] \in {"wait", "loaded"} \cup Multiplying /\ k[w] + 1 < tiles => Arrived(Ahead(w))

\* What is stored and written out is the sum of all tiles.
Results == \A w \in Warps :
    /\ Stored(w) => Cs[w] = FirstTiles(tiles)
    /\ At(w, "done") => C[w] = [v \in Warps |-> FirstTiles(tiles)]

PipelineInv == TypeOK /\ Together /\ Turn /\ Summed /\ UnderWay /\ Slots /\ Results

-----------------------------------------------------------------------------
\* A step of one warp moves only that warp.
LEMMA Moves ==
    ASSUME PipelineInv, NEW w \in Warps, NEW place, Goes(w, place)
    PROVE  /\ pc'[w] = place
           /\ \A v \in Warps : v # w => pc'[v] = pc[v]
BY DEF PipelineInv, TypeOK, Goes

LEMMA TypeOfPc ==
    ASSUME PipelineInv, NEW w \in Warps, NEW place \in Places, Goes(w, place)
    PROVE  pc' \in [Warps -> Places]
BY DEF PipelineInv, TypeOK, Goes

LEMMA Types ==
    ASSUME PipelineInv, NEW w \in Warps
    PROVE  /\ k[w] \in Nat /\ tiles \in Nat /\ k[w] <= MaxTiles /\ tiles <= MaxTiles
           /\ read_stage[w] \in Stages /\ write_stage[w] \in Stages
           /\ Other(read_stage[w]) \in Stages
           /\ pc[w] \in Places
           /\ \A p \in pending : p.warp \in Warps /\ p.stage \in Stages /\ p.tile \in Nat
BY PipelineAssumption DEF PipelineInv, TypeOK, Stages, Other

\* The sums of tiles are sequences, and grow by one tile.
LEMMA SumTyped ==
    ASSUME NEW n \in Nat
    PROVE  FirstTiles(n) \in Seq(Nat \cup {Junk}) /\ Len(FirstTiles(n)) = n
BY DEF FirstTiles

LEMMA SumGrows ==
    ASSUME NEW n \in Nat
    PROVE  Append(FirstTiles(n), n) = FirstTiles(n + 1)
<1> DEFINE s == FirstTiles(n)
           t == FirstTiles(n + 1)
<1>1. /\ s \in Seq(Nat \cup {Junk}) /\ Len(s) = n /\ \A i \in 1..n : s[i] = i - 1
      /\ t \in Seq(Nat \cup {Junk}) /\ Len(t) = n + 1 /\ \A i \in 1..n + 1 : t[i] = i - 1
  BY SumTyped DEF FirstTiles
<1> HIDE DEF s, t
<1>2. /\ Append(s, n) \in Seq(Nat \cup {Junk}) /\ Len(Append(s, n)) = n + 1
      /\ \A i \in 1..n + 1 : Append(s, n)[i] = i - 1
  BY <1>1
<1>3. Append(s, n) = t
  BY <1>1, <1>2, SeqEqual
<1> QED  BY <1>3 DEF s, t

LEMMA NoTiles == FirstTiles(0) = <<>>
BY SumTyped, EmptySeq DEF FirstTiles

-----------------------------------------------------------------------------
LEMMA InitInv == Init => PipelineInv
<1> SUFFICES ASSUME Init PROVE PipelineInv
  OBVIOUS
<1>1. TypeOK
  <2>1. <<>> \in Seq(Nat \cup {Junk}) /\ NotStored \in Seq(Nat \cup {Junk})
    BY DEF NotStored
  <2> QED  BY <2>1, PipelineAssumption DEF Init, TypeOK, Stages, Places
<1>2. Together /\ Turn
  BY PipelineAssumption DEF Init, Together, All, Turn, At, Loading, Multiplying, Storing, Writing
<1>3. Summed
  BY NoTiles DEF Init, Summed, At
<1>4. UnderWay /\ Slots /\ Results
  BY DEF Init, UnderWay, Slots, Results, Mine, At, Stored, Multiplying
<1> QED  BY <1>1, <1>2, <1>3, <1>4 DEF PipelineInv

LEMMA PrologueStep ==
    ASSUME PipelineInv, NEW w \in Warps, Prologue(w)
    PROVE  PipelineInv'
<1>1. /\ pc'[w] = IF tiles > 0 THEN "load" ELSE "store"
      /\ \A v \in Warps : v # w => pc'[v] = pc[v]
      /\ pc[w] = "prologue"
      /\ pc' \in [Warps -> Places]
  <2>1. LoopOr(0, "store") = (IF tiles > 0 THEN "load" ELSE "store") /\ LoopOr(0, "store") \in Places
    BY Types DEF LoopOr, Places
  <2> QED  BY <2>1, Moves, TypeOfPc DEF Prologue, At
<1>2. /\ UNCHANGED <<tiles, k, read_stage, c_frag, shmem, Cs, C>>
      /\ pending' = pending \cup {Copies(w, 0)}
  BY DEF Prologue
<1>3. /\ write_stage'[w] = Other(read_stage[w])
      /\ \A v \in Warps : v # w => write_stage'[v] = write_stage[v]
      /\ write_stage' \in [Warps -> Stages]
      /\ k[w] = 0
      /\ Copies(w, 0) = Current(w)
      /\ Copies(w, 0) \in [warp : Warps, stage : Stages, tile : Nat]
  BY <1>1, Types DEF Prologue, PipelineInv, TypeOK, Turn, At, Copies, Current
<1>4. TypeOK'
  BY <1>1, <1>2, <1>3 DEF PipelineInv, TypeOK
<1>5. Together'
  <2>1. CASE tiles > 0 /\ All(Loading)
    BY <1>1, <1>2, <2>1 DEF Together, All, Loading
  <2>2. CASE tiles = 0 /\ All({"prologue"} \cup Storing)
    BY <1>1, <1>2, <2>2 DEF Together, All, Storing
  <2> QED
    BY <1>1, <2>1, <2>2 DEF PipelineInv, Together, All, Multiplying, Storing, Writing
<1>6. Turn'
  BY <1>1, <1>2, <1>3, Types DEF PipelineInv, Turn, At, Loading, Multiplying, Storing, Writing
<1>7. Summed'
  BY <1>1, <1>2 DEF PipelineInv, Summed, At
<1>8. UnderWay'
  <2> SUFFICES ASSUME tiles > 0, NEW v \in Warps, NEW p \in Mine(v)' PROVE p \in Due(v)'
    BY <1>2 DEF UnderWay
  <2>1. CASE v = w
    BY <1>1, <1>2, <1>3, <2>1 DEF PipelineInv, UnderWay, Due, Mine, At, Current
  <2>2. CASE v # w
    BY <1>1, <1>2, <1>3, <2>2 DEF PipelineInv, UnderWay, Due, Mine, At, Current, Ahead
  <2> QED  BY <2>1, <2>2
<1>9. Slots'
  BY <1>1, <1>2, <1>3 DEF PipelineInv, Slots, Arrived, Current, Ahead, Multiplying
<1>10. Results'
  BY <1>1, <1>2, NoTiles DEF PipelineInv, Results, Stored, At
<1> QED  BY <1>4, <1>5, <1>6, <1>7, <1>8, <1>9, <1>10 DEF PipelineInv

LEMMA LoadNextStep ==
    ASSUME PipelineInv, NEW w \in Warps, LoadNext(w)
    PROVE  PipelineInv'
<1>1. /\ pc'[w] = "wait"
      /\ \A v \in Warps : v # w => pc'[v] = pc[v]
      /\ pc[w] = "load"
      /\ pc' \in [Warps -> Places]
  BY Moves, TypeOfPc DEF LoadNext, At, Places
<1>2. /\ UNCHANGED <<tiles, k, read_stage, write_stage, c_frag, shmem, Cs, C>>
      /\ pending' = pending \cup (IF k[w] + 1 < tiles THEN {Copies(w, k[w] + 1)} ELSE {})
  BY DEF LoadNext, registers
<1>3. /\ Copies(w, k[w] + 1) = Ahead(w)
      /\ Copies(w, k[w] + 1) \in [warp : Warps, stage : Stages, tile : Nat]
  BY <1>1, Types DEF PipelineInv, Turn, At, Copies, Ahead
<1>4. TypeOK'
  BY <1>1, <1>2, <1>3 DEF PipelineInv, TypeOK
<1>5. Together'
  BY <1>1, <1>2 DEF PipelineInv, Together, All, Loading, Multiplying, Storing, Writing
<1>6. Turn'
  BY <1>1, <1>2, Types DEF PipelineInv, Turn, At, Loading, Multiplying, Storing, Writing
<1>7. Summed'
  BY <1>1, <1>2 DEF PipelineInv, Summed, At
<1>8. UnderWay'
  <2> SUFFICES ASSUME tiles > 0, NEW v \in Warps, NEW p \in Mine(v)' PROVE p \in Due(v)'
    BY <1>2 DEF UnderWay
  <2>1. CASE v = w
    BY <1>1, <1>2, <1>3, <2>1 DEF PipelineInv, UnderWay, Due, Mine, At, Current, Ahead
  <2>2. CASE v # w
    BY <1>1, <1>2, <1>3, <2>2 DEF PipelineInv, UnderWay, Due, Mine, At, Current, Ahead
  <2> QED  BY <2>1, <2>2
<1>9. Slots'
  BY <1>1, <1>2, <1>3 DEF PipelineInv, Slots, Arrived, Current, Ahead, Multiplying
<1>10. Results'
  BY <1>1, <1>2 DEF PipelineInv, Results, Stored, At
<1> QED  BY <1>4, <1>5, <1>6, <1>7, <1>8, <1>9, <1>10 DEF PipelineInv

LEMMA WaitGroupStep ==
    ASSUME PipelineInv, NEW w \in Warps, WaitGroup(w)
    PROVE  PipelineInv'
<1>1. /\ pc'[w] = "loaded"
      /\ \A v \in Warps : v # w => pc'[v] = pc[v]
      /\ pc[w] = "wait" /\ Mine(w) = {}
      /\ pc' \in [Warps -> Places]
  BY Moves, TypeOfPc DEF WaitGroup, At, Places, Barriers
<1>2. UNCHANGED <<tiles, k, read_stage, write_stage, c_frag, pending, shmem, Cs, C>>
  BY DEF WaitGroup, registers
<1>4. TypeOK'
  BY <1>1, <1>2 DEF PipelineInv, TypeOK
<1>5. Together'
  BY <1>1, <1>2 DEF PipelineInv, Together, All, Loading, Multiplying, Storing, Writing
<1>6. Turn'
  BY <1>1, <1>2, Types DEF PipelineInv, Turn, At, Loading, Multiplying, Storing, Writing
<1>7. Summed'
  BY <1>1, <1>2 DEF PipelineInv, Summed, At
<1>8. UnderWay'
  BY <1>1, <1>2 DEF PipelineInv, UnderWay, Due, Mine, At, Current, Ahead
<1>9. Slots'
  BY <1>1, <1>2 DEF PipelineInv, Slots, Arrived, Current, Ahead, Multiplying
<1>10. Results'
  BY <1>1, <1>2 DEF PipelineInv, Results, Stored, At
<1> QED  BY <1>4, <1>5, <1>6, <1>7, <1>8, <1>9, <1>10 DEF PipelineInv

\* While a warp multiplies, all copies have landed, and the slots of the
\* stage it reads make up the tile of its iteration.
LEMMA AllLanded ==
    ASSUME PipelineInv, tiles > 0,
           All({"loaded"}) \/ All(Multiplying) \/ All(Storing) \/ All(Writing)
    PROVE  pending = {}
<1> SUFFICES ASSUME NEW p \in pending PROVE FALSE
  OBVIOUS
<1>1. p \in Mine(p.warp) /\ p.warp \in Warps
  BY DEF Mine, PipelineInv, TypeOK
<1>2. pc[p.warp] \notin {"load", "wait"}
  BY <1>1 DEF All, Multiplying, Storing, Writing
<1>3. Mine(p.warp) = {}
  BY <1>1, <1>2 DEF PipelineInv, UnderWay, Due
<1> QED  BY <1>1, <1>3

LEMMA TileRead ==
    ASSUME PipelineInv, tiles > 0, All(Multiplying), NEW w \in Warps
    PROVE  TileIn(read_stage[w]) = k[w]
<1>1. \A v \in Warps : shmem[read_stage[w]][v] = k[w]
  BY AllLanded, Types DEF PipelineInv, Slots, Arrived, Current, All, Turn
<1>2. {shmem[read_stage[w]][v] : v \in Warps} = {k[w]}
  BY <1>1
<1> QED  BY <1>2 DEF TileIn

LEMMA MultiplyAddStep ==
    ASSUME PipelineInv, NEW w \in Warps, MultiplyAdd(w)
    PROVE  PipelineInv'
<1>1. /\ pc'[w] = "multiplied"
      /\ \A v \in Warps : v # w => pc'[v] = pc[v]
      /\ pc[w] = "multiply"
      /\ pc' \in [Warps -> Places]
  BY Moves, TypeOfPc DEF MultiplyAdd, At, Places, Barriers
<1>2. UNCHANGED <<tiles, k, read_stage, write_stage, pending, shmem, Cs, C>>
  BY DEF MultiplyAdd
<1>3. tiles > 0 /\ All(Multiplying)
  BY <1>1 DEF PipelineInv, Together, All, Loading, Storing, Writing
<1>a. /\ c_frag'[w] = FirstTiles(k[w] + 1)
      /\ \A v \in Warps : v # w => c_frag'[v] = c_frag[v]
      /\ c_frag' \in [Warps -> Seq(Nat \cup {Junk})]
  <2>1. c_frag[w] = FirstTiles(k[w])
    BY <1>1 DEF PipelineInv, Summed, At
  <2>2. Append(c_frag[w], TileIn(read_stage[w])) = FirstTiles(k[w] + 1)
    BY <2>1, <1>3, TileRead, SumGrows, Types
  <2>3. c_frag' = [c_frag EXCEPT ![w] = FirstTiles(k[w] + 1)]
    BY <2>2 DEF MultiplyAdd
  <2>4. FirstTiles(k[w] + 1) \in Seq(Nat \cup {Junk})
    BY SumTyped, Types
  <2> QED  BY <2>3, <2>4 DEF PipelineInv, TypeOK
<1>4. TypeOK'
  BY <1>1, <1>2, <1>a DEF PipelineInv, TypeOK
<1>5. Together'
  BY <1>1, <1>2, <1>3 DEF Together, All, Multiplying
<1>6. Turn'
  BY <1>1, <1>2, Types DEF PipelineInv, Turn, At, Loading, Multiplying, Storing, Writing
<1>7. Summed'
  BY <1>1, <1>2, <1>a DEF PipelineInv, Summed, At
<1>8. UnderWay'
  BY <1>1, <1>2 DEF PipelineInv, UnderWay, Due, Mine, At, Current, Ahead
<1>9. Slots'
  BY <1>1, <1>2 DEF PipelineInv, Slots, Arrived, Current, Ahead, Multiplying
<1>10. Results'
  BY <1>1, <1>2 DEF PipelineInv, Results, Stored, At
<1> QED  BY <1>4, <1>5, <1>6, <1>7, <1>8, <1>9, <1>10 DEF PipelineInv

LEMMA StoreStep ==
    ASSUME PipelineInv, NEW w \in Warps, StoreAccumulators(w)
    PROVE  PipelineInv'
<1>1. /\ pc'[w] = "stored"
      /\ \A v \in Warps : v # w => pc'[v] = pc[v]
      /\ pc[w] = "store"
      /\ pc' \in [Warps -> Places]
  BY Moves, TypeOfPc DEF StoreAccumulators, At, Places, Barriers
<1>2. /\ UNCHANGED <<tiles, k, read_stage, write_stage, c_frag, pending, C>>
      /\ shmem' = [s \in Stages |-> [v \in Warps |-> Junk]]
  BY DEF StoreAccumulators, registers
<1>3. /\ tiles > 0 => All(Storing)
      /\ tiles = 0 => All({"prologue"} \cup Storing)
  BY <1>1 DEF PipelineInv, Together, All, Loading, Multiplying, Writing
<1>a. /\ Cs'[w] = FirstTiles(tiles)
      /\ \A v \in Warps : v # w => Cs'[v] = Cs[v]
      /\ Cs' \in [Warps -> Seq(Nat \cup {Junk})]
  <2>1. c_frag[w] = FirstTiles(tiles)
    BY <1>1 DEF PipelineInv, Summed, At, Turn, Storing
  <2> QED  BY <2>1, Types, SumTyped DEF StoreAccumulators, PipelineInv, TypeOK
<1>4. TypeOK'
  BY <1>1, <1>2, <1>a DEF PipelineInv, TypeOK
<1>5. Together'
  BY <1>1, <1>2, <1>3, Types DEF Together, All, Storing
<1>6. Turn'
  BY <1>1, <1>2, Types DEF PipelineInv, Turn, At, Loading, Multiplying, Storing, Writing
<1>7. Summed'
  BY <1>1, <1>2 DEF PipelineInv, Summed, At
<1>8. UnderWay'
  BY <1>1, <1>2 DEF PipelineInv, UnderWay, Due, Mine, At, Current, Ahead
<1>9. Slots'
  BY <1>1, <1>2, <1>3 DEF Slots, All, Storing, Multiplying
<1>10. Results'
  BY <1>1, <1>2, <1>a DEF PipelineInv, Results, Stored, At
<1> QED  BY <1>4, <1>5, <1>6, <1>7, <1>8, <1>9, <1>10 DEF PipelineInv

LEMMA WriteOutStep ==
    ASSUME PipelineInv, NEW w \in Warps, WriteOut(w)
    PROVE  PipelineInv'
<1>1. /\ pc'[w] = "done"
      /\ \A v \in Warps : v # w => pc'[v] = pc[v]
      /\ pc[w] = "write"
      /\ pc' \in [Warps -> Places]
  BY Moves, TypeOfPc DEF WriteOut, At, Places
<1>2. UNCHANGED <<tiles, k, read_stage, write_stage, c_frag, pending, shmem, Cs>>
  BY DEF WriteOut, registers
<1>3. All(Writing)
  BY <1>1 DEF PipelineInv, Together, All, Loading, Multiplying, Storing
<1>a. /\ C'[w] = Cs
      /\ \A v \in Warps : v # w => C'[v] = C[v]
      /\ C' \in [Warps -> {<<>>} \cup [Warps -> Seq(Nat \cup {Junk})]]
  BY DEF WriteOut, PipelineInv, TypeOK
<1>b. Cs = [v \in Warps |-> FirstTiles(tiles)]
  BY <1>3 DEF PipelineInv, TypeOK, Results, Stored, All, Writing
<1>4. TypeOK'
  BY <1>1, <1>2, <1>a DEF PipelineInv, TypeOK
<1>5. Together'
  BY <1>1, <1>3 DEF Together, All, Writing
<1>6. Turn'
  BY <1>1, <1>2, Types DEF PipelineInv, Turn, At, Loading, Multiplying, Storing, Writing
<1>7. Summed'
  BY <1>1, <1>2 DEF PipelineInv, Summed, At
<1>8. UnderWay'
  BY <1>1, <1>2 DEF PipelineInv, UnderWay, Due, Mine, At, Current, Ahead
<1>9. Slots'
  BY <1>1, <1>2 DEF PipelineInv, Slots, Arrived, Current, Ahead, Multiplying
<1>10. Results'
  BY <1>1, <1>2, <1>a, <1>b DEF PipelineInv, Results, Stored, At
<1> QED  BY <1>4, <1>5, <1>6, <1>7, <1>8, <1>9, <1>10 DEF PipelineInv

-----------------------------------------------------------------------------
\* All warps of a block are at one barrier.
LEMMA OneBarrier ==
    ASSUME PipelineInv, Syncthreads
    PROVE  \/ tiles > 0 /\ All({"loaded"})
           \/ tiles > 0 /\ All({"multiplied"})
           \/ All({"stored"})
BY DEF PipelineInv, Syncthreads, Together, All, Barriers, Loading, Multiplying, Storing, Writing

LEMMA SyncLoaded ==
    ASSUME PipelineInv, Syncthreads, tiles > 0, All({"loaded"})
    PROVE  PipelineInv'
<1>1. pc' = [w \in Warps |-> "multiply"]
  BY DEF Syncthreads, Released, All, At
<1>2. UNCHANGED <<tiles, k, read_stage, write_stage, c_frag, pending, shmem, Cs, C>>
  BY DEF Syncthreads, EndsIteration, All, At, PipelineInv, TypeOK
<1>3. \A w \in Warps : pc[w] = "loaded" /\ pc'[w] = "multiply"
  BY <1>1 DEF All
<1>4. TypeOK'
  BY <1>1, <1>2 DEF PipelineInv, TypeOK, Places
<1>5. Together'
  BY <1>1, <1>2 DEF Together, All, Multiplying
<1>6. Turn'
  BY <1>2, <1>3 DEF PipelineInv, Turn, At, Loading, Multiplying, Storing, Writing
<1>7. Summed'
  BY <1>2, <1>3 DEF PipelineInv, Summed, At
<1>8. UnderWay'
  BY <1>2, AllLanded DEF UnderWay, Due, Mine
<1>9. Slots'
  BY <1>2, <1>3 DEF PipelineInv, Slots, Arrived, Current, Ahead, Multiplying
<1>10. Results'
  BY <1>2, <1>3 DEF Results, Stored, At
<1> QED  BY <1>4, <1>5, <1>6, <1>7, <1>8, <1>9, <1>10 DEF PipelineInv

LEMMA SyncMultiplied ==
    ASSUME PipelineInv, Syncthreads, tiles > 0, All({"multiplied"})
    PROVE  PipelineInv'
<1>1. PICK n \in Nat, r \in Stages :
         /\ \A w \in Warps : k[w] = n /\ read_stage[w] = r /\ write_stage[w] = Other(r)
         /\ n < tiles
  BY PipelineAssumption, Types DEF PipelineInv, Turn, All, At, Multiplying
<1>2. /\ UNCHANGED <<tiles, c_frag, pending, shmem, Cs, C>>
      /\ k' = [w \in Warps |-> n + 1]
      /\ read_stage' = [w \in Warps |-> Other(r)]
      /\ write_stage' = [w \in Warps |-> r]
      /\ pc' = [w \in Warps |-> IF n + 1 < tiles THEN "load" ELSE "store"]
  <2>1. Other(Other(r)) = r
    BY DEF Other, Stages
  <2> QED  BY <1>1, <2>1 DEF Syncthreads, EndsIteration, Released, LoopOr, All, At
<1>3. \A w \in Warps : pc[w] = "multiplied"
  BY DEF All
<1>a. tiles \in Nat /\ tiles <= MaxTiles /\ Other(r) \in Stages /\ Other(Other(r)) = r
  BY PipelineAssumption, Types DEF Other, Stages
<1>b. pending = {}
  BY AllLanded DEF All, Multiplying
<1>4. TypeOK'
  <2>1. n + 1 \in 0..MaxTiles
    BY <1>1, <1>a, PipelineAssumption
  <2> QED  BY <1>2, <1>a, <2>1 DEF PipelineInv, TypeOK, Places
<1>5. Together'
  BY <1>2 DEF Together, All, Loading, Storing
<1>6. Turn'
  BY <1>1, <1>2, <1>a DEF Turn, At, Loading, Multiplying, Storing, Writing
<1>7. Summed'
  BY <1>1, <1>2, <1>3 DEF PipelineInv, Summed, At
<1>8. UnderWay'
  BY <1>2, <1>b DEF UnderWay, Due, Mine
<1>9. Slots'
  <2>1. ASSUME n + 1 < tiles, NEW w \in Warps PROVE shmem[Other(r)][w] = n + 1
    BY <1>1, <1>3, <1>b, <2>1 DEF PipelineInv, Slots, Arrived, Ahead, Multiplying
  <2>2. \A w \in Warps : Current(w)' = [warp |-> w, stage |-> Other(r), tile |-> n + 1]
    BY <1>2 DEF Current
  <2> QED  BY <1>2, <2>1, <2>2 DEF Slots, Arrived, Multiplying
<1>10. Results'
  BY <1>2 DEF Results, Stored, At
<1> QED  BY <1>4, <1>5, <1>6, <1>7, <1>8, <1>9, <1>10 DEF PipelineInv

LEMMA SyncStored ==
    ASSUME PipelineInv, Syncthreads, All({"stored"})
    PROVE  PipelineInv'
<1>1. pc' = [w \in Warps |-> "write"]
  BY DEF Syncthreads, Released, All, At
<1>2. UNCHANGED <<tiles, k, read_stage, write_stage, c_frag, pending, shmem, Cs, C>>
  BY DEF Syncthreads, EndsIteration, All, At, PipelineInv, TypeOK
<1>3. \A w \in Warps : pc[w] = "stored" /\ pc'[w] = "write"
  BY <1>1 DEF All
<1>4. TypeOK'
  BY <1>1, <1>2 DEF PipelineInv, TypeOK, Places
<1>5. Together'
  BY <1>1, <1>2 DEF Together, All, Writing
<1>6. Turn'
  BY <1>2, <1>3 DEF PipelineInv, Turn, At, Loading, Multiplying, Storing, Writing
<1>7. Summed'
  BY <1>2, <1>3 DEF PipelineInv, Summed, At
<1>8. UnderWay'
  BY <1>2, <1>3 DEF PipelineInv, UnderWay, Due, Mine, At
<1>9. Slots'
  BY <1>2, <1>3 DEF Slots, Multiplying
<1>10. Results'
  BY <1>2, <1>3 DEF PipelineInv, Results, Stored, At
<1> QED  BY <1>4, <1>5, <1>6, <1>7, <1>8, <1>9, <1>10 DEF PipelineInv

LEMMA LandStep ==
    ASSUME PipelineInv, NEW p \in pending, Land(p)
    PROVE  PipelineInv'
<1>1. /\ UNCHANGED <<tiles, pc, k, read_stage, write_stage, c_frag, C>>
      /\ pending' = pending \ {p}
  BY DEF Land, registers
<1>2. p \in [warp : Warps, stage : Stages, tile : Nat]
  BY DEF PipelineInv, TypeOK
<1>3. /\ shmem' \in [Stages -> [Warps -> Nat \cup {Junk}]]
      /\ shmem'[p.stage][p.warp] = p.tile
      /\ \A s \in Stages, v \in Warps : s # p.stage \/ v # p.warp => shmem'[s][v] = shmem[s][v]
  BY <1>2 DEF Land, PipelineInv, TypeOK
<1>4. \A q \in pending : q \in [warp : Warps, stage : Stages, tile : Nat]
  BY DEF PipelineInv, TypeOK
<1>a. \A w \in Warps : IF Stored(w) THEN tiles = 0 /\ Cs'[w] = <<>> ELSE Cs'[w] = Cs[w]
  <2>1. ASSUME NEW w \in Warps, Stored(w) PROVE tiles = 0
    <3>1. tiles > 0 => pending = {}
      BY <2>1, AllLanded
         DEF Stored, PipelineInv, Together, All, Loading, Multiplying, Storing, Writing
    <3> QED  BY <3>1, PipelineAssumption, Types
  <2>2. ASSUME NEW w \in Warps, Stored(w) PROVE Cs'[w] = <<>>
    BY <1>2, <2>1, <2>2 DEF Land, Landed
  <2>3. ASSUME NEW w \in Warps, ~Stored(w) PROVE Cs'[w] = Cs[w]
    BY <2>3 DEF Land
  <2> QED  BY <2>1, <2>2, <2>3
<1>5. TypeOK'
  <2>1. \A w \in Warps : Cs'[w] \in Seq(Nat \cup {Junk})
    BY <1>a, EmptySeq DEF PipelineInv, TypeOK
  <2>2. Cs' \in [Warps -> Seq(Nat \cup {Junk})]
    BY <2>1 DEF Land
  <2> QED  BY <1>1, <1>3, <2>2 DEF PipelineInv, TypeOK
<1>6. Together' /\ Turn' /\ Summed'
  BY <1>1 DEF PipelineInv, Together, All, Turn, Summed, At
<1>7. UnderWay'
  BY <1>1 DEF PipelineInv, UnderWay, Due, Mine, At, Current, Ahead
<1>8. Slots'
  <2> SUFFICES ASSUME tiles > 0, NEW w \in Warps, NEW q, q \in {Current(w), Ahead(w)},
                      Arrived(q), pc[w] \in {"load", "wait", "loaded"} \cup Multiplying
               PROVE  Arrived(q)'
    BY <1>1 DEF PipelineInv, Slots, Current, Ahead
  <2>1. q.stage \in Stages /\ q.warp = w /\ q \in [warp : Warps, stage : Stages, tile : Nat]
    BY Types DEF Current, Ahead
  <2>2. CASE q = p
    BY <1>3, <2>2 DEF Arrived
  <2>3. CASE q # p /\ q \in pending
    BY <1>1, <2>3 DEF Arrived
  <2>4. CASE q # p /\ q \notin pending
    <3>1. ASSUME p.warp = w, p.stage = q.stage PROVE p = q
      <4>1. p \in Mine(w)
        BY <3>1 DEF Mine
      <4>2. p \in {Current(w), Ahead(w)}
        BY <4>1 DEF PipelineInv, UnderWay, Due
      <4>3. Current(w).stage # Ahead(w).stage
        BY Types DEF Current, Ahead, Other, Stages
      <4> QED  BY <3>1, <4>2, <4>3
    <3>2. p.stage # q.stage \/ p.warp # q.warp
      BY <2>1, <2>4, <3>1
    <3>3. shmem'[q.stage][q.warp] = shmem[q.stage][q.warp]
      BY <1>3, <2>1, <3>2
    <3> QED  BY <2>4, <3>3 DEF Arrived
  <2> QED  BY <2>2, <2>3, <2>4
<1>9. Results'
  BY <1>1, <1>a, NoTiles DEF PipelineInv, Results, Stored, At
<1> QED  BY <1>5, <1>6, <1>7, <1>8, <1>9 DEF PipelineInv

LEMMA NextInv == PipelineInv /\ [Next]_vars => PipelineInv'
<1> SUFFICES ASSUME PipelineInv, [Next]_vars PROVE PipelineInv'
  OBVIOUS
<1>1. CASE \E w \in Warps : Step(w)
  BY <1>1, PrologueStep, LoadNextStep, WaitGroupStep, MultiplyAddStep, StoreStep, WriteOutStep DEF Step
<1>2. CASE Syncthreads
  BY <1>2, OneBarrier, SyncLoaded, SyncMultiplied, SyncStored
<1>3. CASE \E p \in pending : Land(p)
  BY <1>3, LandStep
<1>4. CASE UNCHANGED vars
  BY <1>4 DEF vars, PipelineInv, TypeOK, Together, All, Turn, Summed, UnderWay, Due, Mine, At, Current, Ahead,
              Slots, Arrived, Results, Stored
<1> QED  BY <1>1, <1>2, <1>3, <1>4 DEF Next

LEMMA PipelineInvariant == Spec => []PipelineInv
BY InitInv, NextInv, PTL DEF Spec

\* Registers, stages, slots and copies keep their types.
THEOREM PipelineTyped == Spec => []TypeOK
BY PipelineInvariant, PTL DEF PipelineInv

\* However many warps and tiles, and whenever copies land: none lands in the
\* stage a warp multiplies nor over the accumulators, and no accumulator is
\* stored over a tile that another warp multiplies (matmul_wmma's waits and
\* its three __syncthreads).
THEOREM PipelineHasNoRace == Spec => []NoRace
<1>1. ASSUME PipelineInv PROVE NoRace
  <2>1. ASSUME NEW w \in Warps, At(w, "multiply") PROVE pending = {}
    BY <1>1, <2>1, AllLanded
       DEF At, PipelineInv, Together, All, Loading, Multiplying, Storing, Writing
  <2>2. ASSUME tiles > 0, NEW w \in Warps, At(w, "store") \/ Stored(w)
        PROVE  All(Storing) \/ All(Writing)
    BY <1>1, <2>2
       DEF At, Stored, PipelineInv, Together, All, Loading, Multiplying, Storing, Writing
  <2>3. ASSUME All(Storing) \/ All(Writing), NEW v \in Warps PROVE ~At(v, "multiply")
    BY <2>3 DEF At, All, Storing, Writing
  <2> QED  BY <1>1, <2>1, <2>2, <2>3, AllLanded DEF NoRace
<1> QED  BY <1>1, PipelineInvariant, PTL

\* What a warp writes out is the whole sum over K, of its own accumulators
\* and of those of the others, none when K = 0.
THEOREM ProductIsComplete == Spec => []ProductComplete
<1>1. ASSUME PipelineInv PROVE ProductComplete
  BY <1>1 DEF PipelineInv, Results, ProductComplete
<1> QED  BY <1>1, PipelineInvariant, PTL
=============================================================================
