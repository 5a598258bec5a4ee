---------------------------- MODULE KernelLaunch ----------------------------
(***************************************************************************)
(* What the kernels and the vendor libraries do to memory when they are    *)
(* launched on tensors.  An effect is a function: its domain is the set of *)
(* positions of the result that are written, and the value written is the  *)
(* sequence of the source elements it is computed from, each a tuple of    *)
(* one position per operand.                                               *)
(*                                                                         *)
(* scale is how many elements of the tensors one element of the computation *)
(* takes: more than 1 when the buffers are read as a wider dtype.          *)
(***************************************************************************)
EXTENDS TensorViews

CONSTANTS
    BlockThreads,   \* of a block of the elementwise kernels
    LaneBits,       \* a warp has 2^LaneBits lanes
    TileM, TileN,   \* of the result, per block of matmul_wmma
    GroupSizeM,
    WordBits        \* of an int

Word == 2^WordBits
Lanes == 2^LaneBits

\* A grid of no more threads than there are positive ints ends with them.
ASSUME LaunchAssumption ==
    /\ {BlockThreads, TileM, TileN, GroupSizeM, WordBits} \subseteq Nat \ {0}
    /\ LaneBits \in Nat
    /\ (Word \div 2) % BlockThreads = 0

\* What 2^n is.
ASSUME PowersAssumption ==
    \A n \in 0..(LaneBits + WordBits) : 2^n \in Nat /\ 2^(n + 1) = 2 * 2^n

CeilDiv(n, d) == (n + d - 1) \div d

\* The last position of element x from data() on.
At(t, x, scale) == t.offset + scale * x + scale - 1

-----------------------------------------------------------------------------
\* The global thread indices of an elementwise grid.
Threads(n) == 0..(CeilDiv(n, BlockThreads) * BlockThreads - 1)

\* add and mul count in int64_t, gelu in int, contiguous in unsigned int.
Signed(i) == IF i % Word < Word \div 2 THEN i % Word ELSE (i % Word) - Word
Unsigned(i) == i % Word

\* Mutant of Below: the test of the index against the size is left out.
BelowAny(indices, n) == indices

Below(indices, n) == {i \in indices : i < n}

BinaryKernel(a, b) ==
    [i \in Below(Threads(Numel(a.shape)), Numel(a.shape)) |-> <<<<At(a, i, 1), At(b, i, 1)>>>>]

GeluKernel(a) ==
    [i \in Below({Signed(x) : x \in Threads(Numel(a.shape))}, Numel(a.shape)) |-> <<<<At(a, i, 1)>>>>]

\* The index of the kernel is taken apart from the last dimension on.
SourceIndex(t, i) ==
    FoldRight(LAMBDA d, acc : [rest |-> acc.rest \div t.shape[d],
                               src |-> acc.src + (acc.rest % t.shape[d]) * t.strides[d]],
              [d \in DOMAIN t.shape |-> d], [rest |-> i, src |-> 0]).src

ContiguousKernel(t) ==
    [i \in Below({Unsigned(x) : x \in Threads(Numel(t.shape))}, Numel(t.shape)) |->
        <<<<At(t, SourceIndex(t, i), 1)>>>>]

-----------------------------------------------------------------------------
\* The columns of a row that a lane of the warp goes through.
LaneColumns(lane, cols) == {c \in 0..(cols - 1) : c % Lanes = lane}

\* warp_reduce_sum and warp_reduce_max: how often the value of each column is
\* in the value of each lane, from the lanes' own columns to the whole row.
\* The lanes past the end of the warp answer __shfl_down_sync with their own.
WarpReduce(cols) ==
    LET own == [lane \in 0..(Lanes - 1) |->
                   [c \in 0..(cols - 1) |-> IF c \in LaneColumns(lane, cols) THEN 1 ELSE 0]]
        from(lane, offset) == IF lane + offset < Lanes THEN lane + offset ELSE lane
        step(val, offset) == [lane \in DOMAIN val |->
            [c \in DOMAIN val[lane] |-> val[lane][c] + val[from(lane, offset)][c]]]
    IN FoldLeft(step, own, [i \in 1..LaneBits |-> 2^(LaneBits - i)])

\* An element and what its row was reduced over, in the value of lane 0, which
\* all lanes are given; for the vendor, each column once.
SoftmaxOf(t, i, cols, times, scale) ==
    LET row == (i \div cols) * cols
    IN <<<<At(t, i, scale)>>>> \o
       FlattenSeq([c \in 1..cols |-> [n \in 1..times[c - 1] |-> <<At(t, row + c - 1, scale)>>]])

SoftmaxKernel(t) ==
    LET cols == t.shape[2]
        written == UNION {{row * cols + c : c \in LaneColumns(lane, cols)} :
                             row \in 0..(t.shape[1] - 1), lane \in 0..(Lanes - 1)}
        times == WarpReduce(cols)[0]
    IN [i \in written |-> SoftmaxOf(t, i, cols, times, 1)]

-----------------------------------------------------------------------------
\* Mutant of BlockOf: every group of rows is taken to be full.
BlockOfFull(pid, grid_m, grid_n) ==
    LET first == (pid \div (GroupSizeM * grid_n)) * GroupSizeM
        in_group == pid % (GroupSizeM * grid_n)
    IN <<first + (in_group % GroupSizeM), in_group \div GroupSizeM>>

\* The tile of the result that the block with this index in the grid computes:
\* blocks go down groups of GroupSizeM rows of tiles.
BlockOf(pid, grid_m, grid_n) ==
    LET first == (pid \div (GroupSizeM * grid_n)) * GroupSizeM
        size == Min({grid_m - first, GroupSizeM})
        in_group == pid % (GroupSizeM * grid_n)
    IN <<first + (in_group % size), in_group \div size>>

\* Row r of a times column c of b, both stored by rows.
Product(a, b, r, c, scale) ==
    LET K == a.shape[2]
        N == b.shape[2]
    IN [k \in 1..K |-> <<At(a, r * K + k - 1, scale), At(b, (k - 1) * N + c, scale)>>]

MatmulKernel(a, b) ==
    LET M == a.shape[1]
        N == b.shape[2]
        grid_m == CeilDiv(M, TileM)
        grid_n == CeilDiv(N, TileN)
        blocks == {BlockOf(pid, grid_m, grid_n) : pid \in 0..(grid_m * grid_n - 1)}
        written == {i \in 0..(M * N - 1) : <<(i \div N) \div TileM, (i % N) \div TileN>> \in blocks}
    IN [i \in written |-> Product(a, b, i \div N, i % N, 1)]

\* cp.async copies 16 bytes, vec elements, from an address that must be a
\* multiple of them; the rows of A and of B are copied in such pieces.
MatmulAligned(a, b, vec) ==
    LET pieces(t) == {t.offset + r * t.shape[2] + c :
                         r \in 0..(t.shape[1] - 1), c \in {x \in 0..(t.shape[2] - 1) : x % vec = 0}}
    IN \A piece \in pieces(a) \cup pieces(b) : piece % vec = 0

-----------------------------------------------------------------------------
\* cutensorElementwiseBinaryExecute on descriptors of one dimension, stride 1.
Widened(effect, scale) ==
    LET at(i) == scale * i + scale - 1
    IN [i \in {at(x) : x \in DOMAIN effect} |-> effect[i \div scale]]

CuTensorElementwise(a, b, scale) ==
    Widened([i \in 0..(Numel(a.shape) - 1) |-> <<<<At(a, i, scale), At(b, i, scale)>>>>], scale)

\* How matmul_via_cublas calls cublasGemmEx, whose matrices are stored by
\* columns: the product of the transposes, in the other order.
GemmArguments(a, b) ==
    [m |-> b.shape[2], n |-> a.shape[1], k |-> a.shape[2], A |-> b, lda |-> b.shape[2],
     B |-> a, ldb |-> a.shape[2], ldc |-> b.shape[2]]

\* cublasGemmEx; the factors of a term are named in the order of the operands
\* of MatMul, b first here.
CublasGemm(a, b, scale) ==
    LET g == GemmArguments(a, b)
        term(i, j, l) == <<At(g.B, l + j * g.ldb, scale), At(g.A, i + l * g.lda, scale)>>
        cells == (0..(g.m - 1)) \X (0..(g.n - 1))
        cell(x) == CHOOSE c \in cells : c[1] + c[2] * g.ldc = x
    IN Widened([x \in {c[1] + c[2] * g.ldc : c \in cells} |->
                   [l \in 1..g.k |-> term(cell(x)[1], cell(x)[2], l - 1)]], scale)

\* cudnnSoftmaxForward, MODE_INSTANCE, on packed rows x cols x 1 x 1.
CudnnSoftmax(t, scale) ==
    LET cols == t.shape[2]
    IN Widened([i \in 0..(Numel(t.shape) - 1) |->
                   SoftmaxOf(t, i, cols, [c \in 0..(cols - 1) |-> 1], scale)], scale)
=============================================================================
