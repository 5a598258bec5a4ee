----------------------------- MODULE TensorViews -----------------------------
(***************************************************************************)
(* Tensors as views: a shape, strides and an offset over a buffer that     *)
(* other tensors share.  Positions of a buffer are counted in elements.    *)
(*                                                                         *)
(* elems is what a tensor means, its elements in row-major order, each as  *)
(* the position of the buffer where it was put.  It follows the meaning of *)
(* the operations, never the strides, and the code does not have it.       *)
(*                                                                         *)
(* Arguments are those the assertions of the code accept, and no dimension *)
(* is empty.                                                               *)
(***************************************************************************)
EXTENDS Integers, Sequences, FiniteSetsExt, SequencesExt

CONSTANTS
    FirstShapes,    \* of the first tensor
    Shapes,         \* that reshape is asked for
    MaxSteps        \* bound: views taken and operations called

ASSUME ShapesAssumption == FirstShapes \cup Shapes \subseteq Seq(Nat \ {0})

VARIABLES
    tensors,
    buffers,        \* how many elements each buffer has room for
    steps           \* views taken and operations called, for the bound

views == <<tensors, buffers, steps>>

Handles == DOMAIN tensors

Numel(shape) == FoldLeft(LAMBDA acc, n : acc * n, 1, shape)

ContiguousStrides(shape) ==
    [i \in DOMAIN shape |-> Numel(SubSeq(shape, i + 1, Len(shape)))]

\* Mutant of IsContiguous: only looks at the innermost stride.
IsContiguousRows(t) == Last(t.strides) = 1

IsContiguous(t) == t.strides = ContiguousStrides(t.shape)

\* The strides of a shape that was moved away before they were computed.
Broken(t) == Len(t.strides) # Len(t.shape)

-----------------------------------------------------------------------------
\* The n-th index of a shape in row-major order, and back.
Index(shape, n) == [i \in DOMAIN shape |-> (n \div ContiguousStrides(shape)[i]) % shape[i]]
Dot(index, strides) == MapThenSumSet(LAMBDA i : index[i] * strides[i], DOMAIN index)
Rank(shape, index) == Dot(index, ContiguousStrides(shape))

\* The elements of t at the indices that Old gives for those of a new shape.
Reindexed(t, shape, Old(_)) ==
    [n \in 1..Numel(shape) |-> t.elems[Rank(t.shape, Old(Index(shape, n - 1))) + 1]]

Fresh(buf, shape) ==
    [buf |-> buf, shape |-> shape, strides |-> ContiguousStrides(shape), offset |-> 0,
     elems |-> [n \in 1..Numel(shape) |-> n - 1]]

\* Tensor(buffer_, shape, strides, offset): one more handle on the buffer.
View(t, shape, strides, offset, elems) ==
    [t EXCEPT !.shape = shape, !.strides = strides, !.offset = offset, !.elems = elems]

Counted == steps < MaxSteps /\ steps' = steps + 1

Keeps(t) ==
    /\ tensors' = Append(tensors, t)
    /\ UNCHANGED buffers

ViewsInit ==
    /\ \E shape \in FirstShapes : tensors = <<Fresh(1, shape)>> /\ buffers = <<Numel(shape)>>
    /\ steps = 0

-----------------------------------------------------------------------------
Swapped(s, i, j) == [s EXCEPT ![i] = s[j], ![j] = s[i]]

Transpose(h, dim0, dim1) ==
    LET t == tensors[h]
        shape == Swapped(t.shape, dim0, dim1)
    IN /\ ~Broken(t)
       /\ {dim0, dim1} \subseteq DOMAIN t.shape
       /\ Keeps(View(t, shape, Swapped(t.strides, dim0, dim1), t.offset,
                     Reindexed(t, shape, LAMBDA index : Swapped(index, dim0, dim1))))

\* Mutant of Permute: the strides are permuted the other way.
PermuteMixed(h, dims) ==
    LET t == tensors[h]
        shape == [i \in DOMAIN dims |-> t.shape[dims[i]]]
        inverse == [i \in DOMAIN dims |-> CHOOSE j \in DOMAIN dims : dims[j] = i]
    IN /\ ~Broken(t)
       /\ Len(dims) = Len(t.shape)
       /\ Keeps(View(t, shape, [i \in DOMAIN dims |-> t.strides[inverse[i]]], t.offset,
                     Reindexed(t, shape, LAMBDA index : [d \in DOMAIN dims |-> index[inverse[d]]])))

Permute(h, dims) ==
    LET t == tensors[h]
        shape == [i \in DOMAIN dims |-> t.shape[dims[i]]]
        inverse == [i \in DOMAIN dims |-> CHOOSE j \in DOMAIN dims : dims[j] = i]
    IN /\ ~Broken(t)
       /\ Len(dims) = Len(t.shape)
       /\ Keeps(View(t, shape, [i \in DOMAIN dims |-> t.strides[dims[i]]], t.offset,
                     Reindexed(t, shape, LAMBDA index : [d \in DOMAIN dims |-> index[inverse[d]]])))

\* Mutant of Slice: start is taken to count from 1.
SliceFromOne(h, dim, start, length) ==
    LET t == tensors[h]
        shape == [t.shape EXCEPT ![dim] = length]
    IN /\ ~Broken(t)
       /\ start + length <= t.shape[dim]
       /\ Keeps(View(t, shape, t.strides, t.offset + (start - 1) * t.strides[dim],
                     Reindexed(t, shape, LAMBDA index : [index EXCEPT ![dim] = @ + start])))

\* Slices of one element along a dimension keep the dimension.
Slice(h, dim, start, length) ==
    LET t == tensors[h]
        shape == [t.shape EXCEPT ![dim] = length]
    IN /\ ~Broken(t)
       /\ start + length <= t.shape[dim]
       /\ Keeps(View(t, shape, t.strides, t.offset + start * t.strides[dim],
                     Reindexed(t, shape, LAMBDA index : [index EXCEPT ![dim] = @ + start])))

\* C++ leaves open whether the parameter shape takes new_shape before
\* contiguous_strides(new_shape) is called, which then sees no dimensions.
Reshape(h, new_shape) ==
    LET t == tensors[h]
    IN /\ IsContiguous(t)
       /\ Numel(new_shape) = Numel(t.shape)
       /\ \E strides \in {ContiguousStrides(new_shape), <<>>} :
             Keeps(View(t, new_shape, strides, t.offset, t.elems))

ViewsNext ==
    /\ Counted
    /\ \E h \in Handles : LET dims == DOMAIN tensors[h].shape IN
           \/ \E dim0, dim1 \in dims : dim0 < dim1 /\ Transpose(h, dim0, dim1)
           \/ \E order \in [dims -> dims] : IsInjective(order) /\ Permute(h, order)
           \/ \E dim \in dims : \E start \in 0..(tensors[h].shape[dim] - 1), length \in 1..tensors[h].shape[dim] :
                 Slice(h, dim, start, length)
           \/ \E shape \in Shapes : Reshape(h, shape)

-----------------------------------------------------------------------------
\* Where the strides say the elements are.
Addresses(t) == [n \in 1..Numel(t.shape) |-> t.offset + Dot(Index(t.shape, n - 1), t.strides)]

\* Whatever views were taken of views, the strides and the offset lead to the
\* elements the tensor means, inside of its buffer (transpose, permute, slice
\* and reshape compose).
ViewsDenote ==
    \A t \in ToSet(tensors) : ~Broken(t) =>
        /\ Addresses(t) = t.elems
        /\ \A n \in DOMAIN t.elems : t.elems[n] \in 0..(buffers[t.buf] - 1)

\* The elements of a tensor that is_contiguous accepts lie one after the other
\* from its data(): what the kernels, the vendor libraries and the copies that
\* check is_contiguous rely on.
ContiguousIsDense ==
    \A t \in ToSet(tensors) :
        IsContiguous(t) => \A n \in DOMAIN t.elems : t.elems[n] = t.offset + n - 1
=============================================================================
