----------------------------- MODULE OpsDispatch -----------------------------
(***************************************************************************)
(* Who computes an operation: the tables that compile_kernel.py generates  *)
(* from the kernels' .yaml files, the implementations that the back ends   *)
(* register when the library is loaded, the cubins embedded in it, and     *)
(* KernelRegistry, which loads their modules on demand.                    *)
(***************************************************************************)
EXTENDS Integers, Sequences, FiniteSets

CONSTANTS
    Gpus,           \* that the program may run on
    DTypes,         \* of tensors
    Backends,       \* that callers ask for
    MaxModules      \* bound: modules of one kernel and dtype ever loaded

DType == {"bf16", "fp32", "fp16", "int8"}
Backend == {"Auto", "Custom", "CuBLAS", "CuDNN", "CuTensor", "CuRAND"}

ASSUME DispatchAssumption ==
    /\ DTypes \subseteq DType /\ Backends \subseteq Backend
    /\ MaxModules \in Nat

VARIABLES
    gpu,            \* compute capability of the device
    dtype,          \* of all tensors: each operation is of one dtype
    loaded,         \* kernels with a CUfunction
    modules         \* modules loaded for each kernel

dispatch == <<gpu, dtype, loaded, modules>>

kDefaultDType == "bf16"
Floats == {"bf16", "fp32", "fp16"}

-----------------------------------------------------------------------------
\* get_preference_order
Preference(op) ==
    CASE op \in {"Add", "Mul"} -> <<"CuTensor", "Custom">>
      [] op = "MatMul" -> <<"CuBLAS", "CuTensor", "Custom">>
      [] op = "Softmax" -> <<"CuDNN", "Custom">>
      [] OTHER -> <<"Custom">>

\* get_supported_dtypes: the same for every generated operation and vendor.
SupportedDTypes(op, backend) ==
    IF backend = "Custom" THEN DType
    ELSE IF op # "Contiguous" THEN Floats
    ELSE {}

Resolution(backend, compute) == [backend |-> backend, compute |-> compute]

Downgrade(op, backend) ==
    IF kDefaultDType \in SupportedDTypes(op, backend)
    THEN Resolution(backend, kDefaultDType)
    ELSE Resolution("Custom", dtype)

\* Every order of preference ends in Custom, which takes every dtype.
Resolve(op, requested) ==
    LET supported(backend) == dtype \in SupportedDTypes(op, backend)
        order == Preference(op)
        first == CHOOSE i \in DOMAIN order :
                    supported(order[i]) /\ \A j \in 1..(i - 1) : ~supported(order[j])
    IN IF requested = "Auto" THEN Resolution(order[first], dtype)
       ELSE IF supported(requested) THEN Resolution(requested, dtype)
       ELSE Downgrade(op, requested)

\* What the vendor back ends register.
RegisteredCuBLAS == {"MatMul"} \X {"CuBLAS"} \X Floats
RegisteredCuDNN == {"Softmax"} \X {"CuDNN"} \X Floats

\* Mutant of RegisteredCuTensor: mul is not registered.
RegisteredCuTensorAdd == {"Add"} \X {"CuTensor"} \X Floats

RegisteredCuTensor == {"Add", "Mul"} \X {"CuTensor"} \X Floats
Registered == RegisteredCuBLAS \cup RegisteredCuDNN \cup RegisteredCuTensor

-----------------------------------------------------------------------------
KernelOf(op) ==
    CASE op = "Add" -> "add"
      [] op = "Mul" -> "mul"
      [] op = "MatMul" -> "matmul_wmma"
      [] op = "Softmax" -> "softmax"
      [] op = "Gelu" -> "gelu"
      [] op = "Contiguous" -> "contiguous"

\* Device::map_arch: what Device::instance() does not throw for; and what the
\* kernels are compiled for.
Arch == {"sm_86", "sm_100"}
Architectures == {"sm_86"}

\* The embedded images: for which dtypes, and the entry point they export.
Image(dtypes, entry) == [dtypes |-> dtypes, entry |-> entry]
AddImage == Image(DType, "add")
MulImage == Image(DType, "mul")
ContiguousImage == Image(DType, "contiguous_kernel")
GeluImage == Image(Floats, "gelu_kernel")
SoftmaxImage == Image(Floats, "softmax_kernel")
MatmulImage == Image({"bf16", "fp16"}, "matmul_wmma_kernel")

ImageOf(kernel) ==
    CASE kernel = "add" -> AddImage
      [] kernel = "mul" -> MulImage
      [] kernel = "contiguous" -> ContiguousImage
      [] kernel = "gelu" -> GeluImage
      [] kernel = "softmax" -> SoftmaxImage
      [] kernel = "matmul_wmma" -> MatmulImage

Kernels == {"add", "mul", "contiguous", "gelu", "softmax", "matmul_wmma"}

HasCubin(kernel) == gpu \in Architectures /\ dtype \in ImageOf(kernel).dtypes
HasEntry(kernel) == ImageOf(kernel).entry = kernel \o "_kernel"
HasFunction(kernel) == gpu \in Arch /\ HasCubin(kernel) /\ HasEntry(kernel)

\* The entry points of add and mul are not named as get_function expects.
ASSUME EntriesAssumption ==
    {kernel \in Kernels : HasEntry(kernel)} = Kernels \ {"add", "mul"}

DispatchInit ==
    /\ gpu \in Gpus
    /\ dtype \in DTypes
    /\ loaded = {}
    /\ modules = [kernel \in Kernels |-> 0]

\* Mutant of GetFunction: does not remember what it loaded.
GetFunctionForgets(kernel) ==
    /\ modules[kernel] < MaxModules
    /\ IF gpu \in Arch /\ HasCubin(kernel) /\ kernel \notin loaded
       THEN modules' = [modules EXCEPT ![kernel] = @ + 1]
       ELSE UNCHANGED modules
    /\ UNCHANGED <<gpu, dtype, loaded>>

\* Device::instance() and KernelRegistry::get_function, under its lock.  They
\* throw for want of an architecture, of a cubin, or of the entry point in the
\* module, which then stays loaded.
GetFunction(kernel) ==
    /\ modules[kernel] < MaxModules
    /\ IF gpu \in Arch /\ HasCubin(kernel) /\ kernel \notin loaded
       THEN modules' = [modules EXCEPT ![kernel] = @ + 1]
       ELSE UNCHANGED modules
    /\ loaded' = IF HasFunction(kernel) THEN loaded \cup {kernel} ELSE loaded
    /\ UNCHANGED <<gpu, dtype>>

-----------------------------------------------------------------------------
\* The module of a kernel is loaded when its function is first asked for, and
\* not again; the modules that get_function loads and loses are those of the
\* kernels whose entry point is not called <name>_kernel (registry.hpp).
ModuleOncePerKernel ==
    \A kernel \in Kernels :
        HasEntry(kernel) => modules[kernel] = (IF kernel \in loaded THEN 1 ELSE 0)
=============================================================================
