---------------------------- MODULE GraphCapture ----------------------------
(***************************************************************************)
(* Graph and GraphManager: named CUDA graphs, captured on a stream of      *)
(* their own by GraphManager::capture, then launched any number of times.  *)
(* Each thread has a GraphManager (it has no lock); all of them share one  *)
(* MemoryPool and one device.                                              *)
(*                                                                         *)
(* Captures are made in cudaStreamCaptureModeGlobal: until every capture   *)
(* has ended, cudaMalloc fails on every thread, and the attempt            *)
(* invalidates captures.  A capture is known by a number; a CUDA graph, and *)
(* an executable graph, by the capture it holds.                           *)
(***************************************************************************)
EXTENDS Naturals, Sequences, FiniteSets

CONSTANTS
    Threads,
    Graphs,         \* names; GraphManager::stream_for gives each a stream
    Owner,          \* the thread whose GraphManager has the name
    Strict,         \* whether a name is captured in strict mode
    MaxCaptures,    \* bound: calls of GraphManager::capture
    MaxReserved,    \* bound: blocks the pool reserves
    MaxDepth        \* bound: captures nested in the functions of captures

ASSUME GraphAssumption == /\ Owner \in [Graphs -> Threads]
                          /\ Strict \in [Graphs -> BOOLEAN]
                          /\ {MaxCaptures, MaxReserved, MaxDepth} \subseteq Nat

None == 0
Captures == 1..MaxCaptures

VARIABLES
    graph,      \* Graph::graph_
    exec,       \* Graph::graph_exec_
    capturing,  \* Graph::capturing_
    before,     \* Graph::bytes_reserved_before_
    stream,     \* the capture each name's stream is in, if any
    broken,     \* captures under way that the driver has invalidated
    objects,    \* CUDA graphs that exist
    reserved,   \* MemoryPool::bytes_reserved()
    calls,      \* each thread's nested calls of GraphManager::capture
    thrown,     \* whether an exception is on its way through them
    updated,    \* history: names whose graph_exec_ was last written by update_from
    log         \* history: of each capture its name and what became of it

vars == <<graph, exec, capturing, before, stream, broken, objects,
          reserved, calls, thrown, updated, log>>

graphVars == <<graph, exec, updated, objects>>
captureVars == <<capturing, stream, broken>>
poolVars == <<before, reserved>>
callVars == <<calls, thrown>>

Fates == {"none", "called", "open", "ended", "accepted", "rejected", "lost"}
Call == [name : Graphs, at : {"begin", "fn", "ended"}, capture : Captures]
Log == [name : Graphs, fate : Fates]

TypeOK ==
    /\ graph \in [Graphs -> {None} \cup Captures]
    /\ exec \in [Graphs -> {None} \cup Captures]
    /\ capturing \in [Graphs -> BOOLEAN]
    /\ before \in [Graphs -> 0..MaxReserved]
    /\ stream \in [Graphs -> {None} \cup Captures]
    /\ broken \subseteq Captures
    /\ objects \subseteq Captures
    /\ reserved \in 0..MaxReserved
    /\ calls \in [Threads -> Seq(Call)]
    /\ thrown \in [Threads -> BOOLEAN]
    /\ updated \subseteq Graphs
    /\ log \in Seq(Log)

\* What graph_exec_ is before it is instantiated.  Its mutant: nothing is.
Uninitialized == MaxCaptures + 1
NotInstantiated == None

Init ==
    /\ graph = [g \in Graphs |-> None]
    /\ exec = [g \in Graphs |-> NotInstantiated]
    /\ capturing = [g \in Graphs |-> FALSE]
    /\ before = [g \in Graphs |-> 0]
    /\ stream = [g \in Graphs |-> None]
    /\ broken = {}
    /\ objects = {}
    /\ reserved = 0
    /\ calls = [t \in Threads |-> <<>>]
    /\ thrown = [t \in Threads |-> FALSE]
    /\ updated = {}
    /\ log = <<>>

-----------------------------------------------------------------------------
Depth(t) == Len(calls[t])
Top(t) == calls[t][Depth(t)].name
This(t) == calls[t][Depth(t)].capture
At(t, p) == Depth(t) > 0 /\ calls[t][Depth(t)].at = p
Moved(t, p) == [calls EXCEPT ![t][Depth(t)].at = p]
Left(t) == [calls EXCEPT ![t] = SubSeq(@, 1, Depth(t) - 1)]
Fate(t, f) == [log EXCEPT ![This(t)].fate = f]

\* User code of t is running: outside of any capture, or in its function.
InUserCode(t) == ~thrown[t] /\ (Depth(t) = 0 \/ At(t, "fn"))
\* An exception leaves the innermost n calls; past the last it has left
\* GraphManager for the caller to handle.
ThrownPast(t, n) == thrown' = [thrown EXCEPT ![t] = Depth(t) > n]
OnDevice == {stream[g] : g \in Graphs} \ {None}

\* capture: get_or_create, stream_for, and begin_capture up to the reading
\* of the pool.
CaptureBegin(t, g) ==
    /\ InUserCode(t) /\ Owner[g] = t /\ Depth(t) < MaxDepth /\ Len(log) < MaxCaptures
    /\ ~capturing[g]
    /\ before' = [before EXCEPT ![g] = reserved]
    /\ calls' = [calls EXCEPT ![t] = Append(@, [name |-> g, at |-> "begin", capture |-> Len(log) + 1])]
    /\ log' = Append(log, [name |-> g, fate |-> "called"])
    /\ UNCHANGED <<reserved, thrown, graphVars, captureVars>>

\* Mutant of CaptureAgain: begin_capture is inside of the try, so that the
\* capture under way is aborted.
CaptureAgainAborts(t, g) ==
    /\ InUserCode(t) /\ Owner[g] = t
    /\ capturing[g]
    /\ capturing' = [capturing EXCEPT ![g] = FALSE]
    /\ stream' = [stream EXCEPT ![g] = None]
    /\ ThrownPast(t, 0)
    /\ UNCHANGED <<broken, calls, log, graphVars, poolVars>>

\* "a capture is already in progress": begin_capture is outside of the try.
CaptureAgain(t, g) ==
    /\ InUserCode(t) /\ Owner[g] = t
    /\ capturing[g]
    /\ ThrownPast(t, 0)
    /\ UNCHANGED <<calls, log, graphVars, captureVars, poolVars>>

StreamBeginCapture(t) ==
    /\ At(t, "begin")
    /\ stream' = [stream EXCEPT ![Top(t)] = This(t)]
    /\ capturing' = [capturing EXCEPT ![Top(t)] = TRUE]
    /\ calls' = Moved(t, "fn")
    /\ log' = Fate(t, "open")
    /\ UNCHANGED <<broken, thrown, graphVars, poolVars>>

StreamBeginCaptureFails(t) ==
    /\ At(t, "begin")
    /\ calls' = Left(t) /\ ThrownPast(t, 1)
    /\ log' = Fate(t, "lost")
    /\ UNCHANGED <<graphVars, captureVars, poolVars>>

-----------------------------------------------------------------------------
(* What user code does meanwhile *)

\* allocate on an empty bucket, or preallocate, when no capture is under way.
Malloc(t) ==
    /\ InUserCode(t) /\ OnDevice = {} /\ reserved < MaxReserved
    /\ reserved' = reserved + 1
    /\ UNCHANGED <<before, log, graphVars, captureVars, callVars>>

MallocFails(t) ==
    /\ InUserCode(t) /\ OnDevice # {}
    /\ \E hit \in SUBSET OnDevice : broken' = broken \cup hit
    /\ ThrownPast(t, 0)
    /\ UNCHANGED <<capturing, stream, calls, log, graphVars, poolVars>>

\* A call that the capturing stream of g does not allow: synchronising it
\* (synchronize_all does), waiting for an event of before the capture
\* (allocate does, for a recycled block).  Its result may go unchecked.
BadCall(t, g) ==
    /\ InUserCode(t) /\ Owner[g] = t /\ stream[g] # None
    /\ broken' = broken \cup {stream[g]}
    /\ ThrownPast(t, 0) \/ UNCHANGED thrown
    /\ UNCHANGED <<capturing, stream, calls, log, graphVars, poolVars>>

\* The function throws (launch of a graph never instantiated does, too), or
\* catches what a nested call threw.
FnThrows(t) ==
    /\ At(t, "fn") /\ thrown' = [thrown EXCEPT ![t] = ~@]
    /\ UNCHANGED <<calls, log, graphVars, captureVars, poolVars>>

UpdateFrom(t, g, h) ==
    /\ InUserCode(t) /\ Owner[g] = t /\ Owner[h] = t
    /\ exec[g] # None /\ graph[h] # None
    /\ exec' = [exec EXCEPT ![g] = graph[h]]
    /\ updated' = updated \cup {g}
    /\ UNCHANGED <<graph, objects, log, captureVars, poolVars, callVars>>

-----------------------------------------------------------------------------
(* end_capture, from the return of the function *)

StreamEnded(t) ==
    /\ At(t, "fn") /\ ~thrown[t] /\ capturing[Top(t)]
    /\ capturing' = [capturing EXCEPT ![Top(t)] = FALSE]
    /\ stream' = [stream EXCEPT ![Top(t)] = None]
    /\ calls' = Moved(t, "ended")

\* Mutant of EndCapture: the graph of the last capture is not destroyed.
EndCaptureLeaks(t) ==
    /\ StreamEnded(t) /\ This(t) \notin broken
    /\ objects' = objects \cup {This(t)}
    /\ graph' = [graph EXCEPT ![Top(t)] = This(t)]
    /\ log' = Fate(t, "ended")
    /\ UNCHANGED <<exec, broken, thrown, updated, poolVars>>

EndCapture(t) ==
    /\ StreamEnded(t) /\ This(t) \notin broken
    /\ objects' = (objects \ {graph[Top(t)]}) \cup {This(t)}
    /\ graph' = [graph EXCEPT ![Top(t)] = This(t)]
    /\ log' = Fate(t, "ended")
    /\ UNCHANGED <<exec, broken, thrown, updated, poolVars>>

EndCaptureFails(t) ==
    /\ StreamEnded(t) /\ This(t) \in broken
    /\ objects' = objects \ {graph[Top(t)]}
    /\ graph' = [graph EXCEPT ![Top(t)] = None]
    /\ ThrownPast(t, 0)
    /\ log' = Fate(t, "lost")
    /\ broken' = broken \ {This(t)}
    /\ UNCHANGED <<exec, updated, poolVars>>

Grown(t) == Strict[Top(t)] /\ reserved # before[Top(t)]

\* Mutant of RejectGrowth: the check comes after instantiate().
RejectInstantiated(t) ==
    /\ At(t, "ended") /\ ~thrown[t] /\ Grown(t)
    /\ exec' = [exec EXCEPT ![Top(t)] = graph[Top(t)]]
    /\ ThrownPast(t, 0)
    /\ log' = Fate(t, "rejected")
    /\ UNCHANGED <<graph, objects, calls, updated, captureVars, poolVars>>

RejectGrowth(t) ==
    /\ At(t, "ended") /\ ~thrown[t] /\ Grown(t)
    /\ ThrownPast(t, 0)
    /\ log' = Fate(t, "rejected")
    /\ UNCHANGED <<calls, graphVars, captureVars, poolVars>>

Instantiate(t) ==
    /\ At(t, "ended") /\ ~thrown[t] /\ ~Grown(t)
    /\ exec' = [exec EXCEPT ![Top(t)] = graph[Top(t)]]
    /\ updated' = updated \ {Top(t)}
    /\ calls' = Left(t)
    /\ log' = Fate(t, "accepted")
    /\ UNCHANGED <<graph, objects, thrown, captureVars, poolVars>>

InstantiateFails(t) ==
    /\ At(t, "ended") /\ ~thrown[t] /\ ~Grown(t)
    /\ exec' = [exec EXCEPT ![Top(t)] = None]
    /\ updated' = updated \ {Top(t)}
    /\ ThrownPast(t, 0)
    /\ UNCHANGED <<graph, objects, calls, log, captureVars, poolVars>>

\* Mutant of Unwind: there is no abort_capture.
UnwindOnly(t) ==
    /\ thrown[t]
    /\ calls' = Left(t) /\ ThrownPast(t, 1)
    /\ UNCHANGED <<log, graphVars, captureVars, poolVars>>

\* catch (...): abort_capture, and on with the exception.
Unwind(t) ==
    /\ thrown[t]
    /\ calls' = Left(t) /\ ThrownPast(t, 1)
    /\ IF capturing[Top(t)]
       THEN /\ capturing' = [capturing EXCEPT ![Top(t)] = FALSE]
            /\ stream' = [stream EXCEPT ![Top(t)] = None]
            /\ broken' = broken \ {This(t)}
            /\ log' = Fate(t, "lost")
       ELSE UNCHANGED <<log, captureVars>>
    /\ UNCHANGED <<graphVars, poolVars>>

-----------------------------------------------------------------------------
\* The step by which the innermost call of capture goes on to its end.
Proceed(t) ==
    \/ StreamBeginCapture(t)
    \/ StreamBeginCaptureFails(t)
    \/ EndCapture(t)
    \/ EndCaptureFails(t)
    \/ RejectGrowth(t)
    \/ Instantiate(t)
    \/ InstantiateFails(t)
    \/ Unwind(t)

UserCode(t) ==
    \/ \E g \in Graphs : \/ CaptureBegin(t, g)
                         \/ CaptureAgain(t, g)
                         \/ BadCall(t, g)
                         \/ \E h \in Graphs : UpdateFrom(t, g, h)
    \/ Malloc(t)
    \/ MallocFails(t)
    \/ FnThrows(t)

\* The program makes no further calls.
Finished == (\A t \in Threads : Depth(t) = 0) /\ UNCHANGED vars

Next == Finished \/ \E t \in Threads : Proceed(t) \/ UserCode(t)

Spec == Init /\ [][Next]_vars

\* The function given to capture ends, at every depth.
FairSpec == Spec /\ \A t \in Threads, d \in 1..MaxDepth :
                        WF_vars(Depth(t) = d /\ Proceed(t))

-----------------------------------------------------------------------------
(* Properties *)

\* A graph is capturing, and its stream is, exactly while its capture waits
\* for its function: however captures are nested and fail, none is aborted
\* by another and none is left open.
CaptureOpen ==
    \A g \in Graphs :
        LET open == {i \in 1..Depth(Owner[g]) : /\ calls[Owner[g]][i].name = g
                                                /\ calls[Owner[g]][i].at = "fn"}
        IN  /\ capturing[g] <=> open # {}
            /\ stream[g] # None <=> open # {}
            /\ \A i \in open : calls[Owner[g]][i].capture = stream[g]

\* Every CUDA graph is graph_ of exactly one Graph: none leaks, none is
\* destroyed while a Graph has it.
GraphsOwned ==
    /\ objects = {graph[g] : g \in Graphs} \ {None}
    /\ \A g, h \in Graphs : g # h /\ graph[g] # None => graph[g] # graph[h]

\* What launch(g) replays is the last capture of g that capture() returned
\* from, whatever failed since; update_from alone puts another there, which
\* is one that the device ended as it should.
LastAccepted(g) ==
    LET all == {c \in 1..Len(log) : log[c].name = g /\ log[c].fate = "accepted"}
    IN  CHOOSE c \in all : \A d \in all : d <= c
ExecSound ==
    \A g \in Graphs : exec[g] # None =>
        IF g \in updated
        THEN log[exec[g]].fate \in {"ended", "accepted", "rejected"}
        ELSE log[exec[g]].fate = "accepted" /\ exec[g] = LastAccepted(g)

\* Captures under way make cudaMalloc fail on every thread; that ends.
MallocAgain == OnDevice # {} ~> OnDevice = {}
=============================================================================
