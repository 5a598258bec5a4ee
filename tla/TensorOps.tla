------------------------------ MODULE TensorOps ------------------------------
(***************************************************************************)
(* Operations on tensors: the functions that compile_kernel.py generates   *)
(* for each kernel, contiguous and the copies to the host, over the views  *)
(* of TensorViews, through the dispatch of OpsDispatch, to the kernels and *)
(* libraries of KernelLaunch.  call is the last call, as it returns.       *)
(***************************************************************************)
EXTENDS KernelLaunch, OpsDispatch

CONSTANTS
    AlignBytes,     \* of the copies of matmul_wmma and the pointers of cuTENSOR
    MaxDims         \* that the kernel of contiguous has room for

VARIABLES call

vars == <<views, dispatch, call>>

Binary == {"Add", "Mul"}
GeneratedOps == Binary \cup {"Gelu", "MatMul", "Softmax"}
Ops == GeneratedOps \cup {"Contiguous", "ToHost"}
Status == {"ok", "threw", "fault"}

NoCall == [op |-> "none"]

TypeOK ==
    /\ \A t \in ToSet(tensors) :
          /\ t.buf \in DOMAIN buffers
          /\ t.shape \in Seq(Nat \ {0}) /\ t.strides \in Seq(Nat) /\ t.offset \in Nat
          /\ Len(t.elems) = Numel(t.shape)
    /\ buffers \in Seq(Nat \ {0})
    /\ gpu \in Gpus /\ dtype \in DTypes
    /\ loaded \subseteq Kernels
    /\ modules \in [Kernels -> 0..MaxModules]
    /\ call # NoCall => call.op \in Ops /\ call.status \in Status /\ call.by \in Backend

Init ==
    /\ ViewsInit
    /\ DispatchInit
    /\ call = NoCall

-----------------------------------------------------------------------------
Width(d) == CASE d = "int8" -> 1 [] d = "fp32" -> 4 [] OTHER -> 2

\* The checks of the .yaml files.
ChecksPass(op, a, b) ==
    CASE op \in Binary -> a.shape = b.shape
      [] op = "Gelu" -> IsContiguous(a)
      [] op = "Softmax" -> Len(a.shape) = 2 /\ IsContiguous(a)
      [] op = "MatMul" -> /\ Len(a.shape) = 2 /\ Len(b.shape) = 2 /\ a.shape[2] = b.shape[1]
                          /\ IsContiguous(a) /\ IsContiguous(b)

KernelEffect(op, a, b) ==
    CASE op \in Binary -> BinaryKernel(a, b)
      [] op = "Gelu" -> GeluKernel(a)
      [] op = "Softmax" -> SoftmaxKernel(a)
      [] op = "MatMul" -> MatmulKernel(a, b)
      [] op = "Contiguous" -> ContiguousKernel(a)

VendorEffect(op, a, b, scale) ==
    CASE op \in Binary -> CuTensorElementwise(a, b, scale)
      [] op = "Softmax" -> CudnnSoftmax(a, scale)
      [] op = "MatMul" -> CublasGemm(a, b, scale)

Aligned(op, r, a, b) ==
    LET vec == AlignBytes \div Width(r.compute)
        scale == Width(r.compute) \div Width(dtype)
    IN CASE op = "MatMul" /\ r.backend = "Custom" -> MatmulAligned(a, b, vec)
         [] r.backend = "CuTensor" -> a.offset % (vec * scale) = 0 /\ b.offset % (vec * scale) = 0
         [] OTHER -> TRUE

\* The call of op on tensors x and y (the same when it takes one).
Called(op, requested, by, x, y, shape, status, effect) ==
    call' = [op |-> op, requested |-> requested, by |-> by, x |-> x, y |-> y,
             shape |-> shape, status |-> status, effect |-> effect]

Fails(op, requested, by, x, y, status) ==
    /\ Called(op, requested, by, x, y, <<>>, status, <<>>)
    /\ UNCHANGED <<tensors, buffers>>

Returns(op, requested, by, x, y, shape, effect) ==
    /\ Called(op, requested, by, x, y, shape, "ok", effect)
    /\ buffers' = Append(buffers, Numel(shape))
    /\ tensors' = Append(tensors, Fresh(Len(buffers) + 1, shape))

\* dispatch_op: Executor::execute or BackendRegistry::invoke.
Dispatch(op, requested, x, y, shape) ==
    LET a == tensors[x]
        b == tensors[y]
        r == Resolve(op, requested)
    IN IF r.backend = "Custom"
       THEN /\ GetFunction(KernelOf(op))
            /\ IF ~HasFunction(KernelOf(op)) THEN Fails(op, requested, "Custom", x, y, "threw")
               ELSE IF ~Aligned(op, r, a, b) THEN Fails(op, requested, "Custom", x, y, "fault")
               ELSE Returns(op, requested, "Custom", x, y, shape, KernelEffect(op, a, b))
       ELSE /\ UNCHANGED dispatch
            /\ IF <<op, r.backend, r.compute>> \notin Registered
               THEN Fails(op, requested, r.backend, x, y, "threw")
               ELSE IF ~Aligned(op, r, a, b) THEN Fails(op, requested, r.backend, x, y, "fault")
               ELSE Returns(op, requested, r.backend, x, y, shape,
                            VendorEffect(op, a, b, Width(r.compute) \div Width(dtype)))

\* A generated function: the result has the shape of the first input.
Generated(op, requested, x, y) ==
    /\ op \in Binary \cup {"MatMul"} \/ x = y
    /\ IF ~ChecksPass(op, tensors[x], tensors[y])
       THEN Fails(op, requested, "Auto", x, y, "threw") /\ UNCHANGED dispatch
       ELSE Dispatch(op, requested, x, y, tensors[x].shape)

\* Past the end of the strides of a broken tensor anything may be read, and past
\* MaxDims dimensions anything be overwritten: left out.
Contiguous(requested, x) ==
    LET t == tensors[x]
    IN IF IsContiguous(t)
       THEN /\ Called("Contiguous", requested, "Auto", x, x, t.shape, "ok",
                      [i \in 0..(Numel(t.shape) - 1) |-> <<<<At(t, i, 1)>>>>])
            /\ UNCHANGED <<tensors, buffers, dispatch>>
       ELSE /\ ~Broken(t) /\ Len(t.shape) <= MaxDims
            /\ Dispatch("Contiguous", requested, x, x, t.shape)

\* to_host and to_vector; to_device writes where this reads.
ToHost(x) ==
    LET t == tensors[x]
    IN /\ IF IsContiguous(t)
          THEN Called("ToHost", "Auto", "Auto", x, x, t.shape, "ok",
                      [i \in 0..(Numel(t.shape) - 1) |-> <<<<At(t, i, 1)>>>>])
          ELSE Called("ToHost", "Auto", "Auto", x, x, <<>>, "threw", <<>>)
       /\ UNCHANGED <<tensors, buffers, dispatch>>

Call ==
    \/ \E op \in GeneratedOps, requested \in Backends, x, y \in Handles : Generated(op, requested, x, y)
    \/ \E requested \in Backends, x \in Handles : Contiguous(requested, x)
    \/ \E x \in Handles : ToHost(x)

\* The caller goes on.
Resume == call # NoCall /\ call' = NoCall /\ UNCHANGED <<views, dispatch>>

Next ==
    \/ call = NoCall /\ ViewsNext /\ UNCHANGED <<dispatch, call>>
    \/ call = NoCall /\ Counted /\ Call
    \/ Resume

Spec == Init /\ [][Next]_vars

-----------------------------------------------------------------------------
X == tensors[call.x]
Y == tensors[call.y]
Made == call # NoCall
Done == Made /\ call.status = "ok"

\* What is known to go wrong.  A library was asked for and does not take INT8:
\* the call is downgraded to BF16, and reads and writes the buffers as that.
Reinterpreted == call.requested \notin {"Auto", "Custom"} /\ dtype = "int8" /\ call.op \in GeneratedOps
\* add and mul do not check that their operands are contiguous.
Strided == call.op \in Binary /\ ~(IsContiguous(X) /\ IsContiguous(Y))
\* More elements than the index of the kernel counts.
TooLong == \/ call.op = "Gelu" /\ Numel(X.shape) > Word \div 2
           \/ call.op = "Contiguous" /\ ~IsContiguous(X) /\ Numel(X.shape) > Word
\* The result of matmul has the shape of A, and the product no room in it.
Narrow == call.op = "MatMul" /\ X.shape[2] < Y.shape[2]

\* What element n of the result of a call should be computed from.
Row(t, n) == ((n - 1) \div t.shape[2]) * t.shape[2]
Wanted(n) ==
    CASE call.op \in Binary -> <<<<X.elems[n], Y.elems[n]>>>>
      [] call.op \in {"Gelu", "Contiguous", "ToHost"} -> <<<<X.elems[n]>>>>
      [] call.op = "Softmax" -> <<<<X.elems[n]>>>> \o
             [c \in 1..X.shape[2] |-> <<X.elems[Row(X, n) + c]>>]
      [] call.op = "MatMul" ->
             LET r == (n - 1) \div Y.shape[2]
                 c == (n - 1) % Y.shape[2]
             IN [k \in 1..X.shape[2] |-> <<X.elems[r * X.shape[2] + k], Y.elems[(k - 1) * Y.shape[2] + c + 1]>>]

WantedSize == IF call.op = "MatMul" THEN X.shape[1] * Y.shape[2] ELSE Numel(call.shape)

\* A call that returns has computed every element of its result from the right
\* elements of the tensors it was given, whatever views they are, whatever
\* back end it was sent to and however the kernel splits the work, and written
\* nothing else: unless it is one of those known to go wrong.  The product of
\* matmul is all there, by rows, though its shape may not be said right
\* (dispatch_op and everything under it).
OpsDenote ==
    Done /\ ~Reinterpreted /\ ~Strided /\ ~TooLong =>
        call.effect = [i \in 0..(WantedSize - 1) |-> Wanted(i + 1)]

\* No call reads or writes outside of the buffers of its tensors and of its
\* result, except reinterpreted buffers, indices that wrap around and results
\* of matmul wider than A; add and mul may on strided operands.
InBounds ==
    Done /\ ~Reinterpreted /\ ~Strided /\ ~TooLong /\ ~Narrow =>
        /\ DOMAIN call.effect \subseteq 0..(Numel(call.shape) - 1)
        /\ \A i \in DOMAIN call.effect : \A src \in ToSet(call.effect[i]) :
              /\ src[1] \in 0..(buffers[X.buf] - 1)
              /\ Len(src) = 2 => src[2] \in 0..(buffers[Y.buf] - 1)

\* Only a kernel computes it; contiguous of what is contiguous needs none.
NoLibrary == call.op = "Gelu" \/ (call.op = "Contiguous" /\ ~IsContiguous(X))

\* Left to Auto, an operation whose operands pass the checks finds someone who
\* computes it for every dtype but INT8, for which only contiguous has anyone,
\* and on every GPU but for gelu and contiguous, which no library computes and
\* which are compiled for one architecture: between the order of preference, the
\* capability table, what the back ends register, map_arch and the embedded
\* cubins there is no other gap (resolve, invoke and get_function).
AutoReachesWhatExists ==
    Made /\ call.requested = "Auto" /\ call.op \in GeneratedOps \cup {"Contiguous"} =>
        (call.status = "threw" <=>
            \/ call.op \in GeneratedOps /\ ~ChecksPass(call.op, X, Y)
            \/ call.op \in GeneratedOps /\ dtype = "int8"
            \/ gpu \notin Architectures /\ NoLibrary)

\* gelu, which the cuDNN back end does not register, is never sent to it
\* (cudnn_backend.cpp on the row of Gelu in BackendCaps).
GeluStaysOffCuDNN ==
    Made /\ call.op = "Gelu" => call.by # "CuDNN"

\* The result of matmul is M x N (test_pipeline.cpp).
MatmulShape ==
    Done /\ call.op = "MatMul" => call.shape = <<X.shape[1], Y.shape[2]>>
=============================================================================
