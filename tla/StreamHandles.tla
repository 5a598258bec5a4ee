---------------------------- MODULE StreamHandles ----------------------------
(***************************************************************************)
(* Stream objects, the raw streams they own, each thread's default stream, *)
(* and BackendContext: the vendor handles kept for each raw stream.  The   *)
(* driver gives the address of a destroyed stream to a new one; whoever is *)
(* asked for the handles of an address gets those of the table, in steps   *)
(* of which only the first is under the lock.                              *)
(*                                                                         *)
(* One kind of vendor handle stands for the four, which differ in nothing  *)
(* but the function that creates them.  Callers keep to the lifetime of    *)
(* objects: nobody destroys or moves a stream another thread is using.     *)
(***************************************************************************)
EXTENDS Integers, Sequences, FiniteSets

CONSTANTS
    Threads,
    Objects,        \* where Stream objects are constructed
    Raws,           \* addresses of raw streams
    NullStream,     \* the raw stream of a moved-from object
    Handles,        \* vendor handles ever created: a bound
    None,
    MaxGuards       \* bound: StreamGuards of a thread at once

NoEntry == "no entry"

ASSUME NullAssumption == /\ NullStream \notin Raws
                         /\ None \notin Objects \cup Raws \cup Handles \cup {NullStream, NoEntry}
                         /\ NoEntry \notin Handles
ASSUME BoundAssumption == MaxGuards \in Nat

VARIABLES
    handle_,        \* Stream::handle_ of each object, None where there is none
    live,           \* raw streams created and not destroyed
    lazy_stream,    \* of each thread that has called default_stream
    current,        \* g_current_stream
    guards,         \* previous_ of each StreamGuard of the thread
    table,          \* BackendContext: NoEntry, an entry with None, or with a handle
    handles,        \* vendor handles created and not destroyed
    fresh,          \* vendor handles not created yet
    call,           \* what each thread is doing
    dangling,       \* threads whose entry was erased under them
    raced           \* whether two threads have ever been at one entry at once

vars == <<handle_, live, lazy_stream, current, guards, table, handles, fresh, call, dangling, raced>>
streams == <<handle_, live>>
defaults == <<lazy_stream, current, guards>>
context == <<table, handles, fresh, dangling, raced>>

Keys == Raws \cup {NullStream}
Idle == [at |-> "idle"]
Doing(at, o) == [at |-> at, o |-> o]
Assigning(at, to, from) == [at |-> at, o |-> to, from |-> from]
CallPlaces == {"found", "create", "bind"}
Places == {"idle", "destroy", "assign_destroy", "assign_take"} \cup CallPlaces

TypeOK ==
    /\ handle_ \in [Objects -> Keys \cup {None}]
    /\ live \subseteq Raws
    /\ lazy_stream \in [Threads -> Objects \cup {None}]
    /\ current \in [Threads -> Objects \cup {None}]
    /\ \A t \in Threads : Len(guards[t]) <= MaxGuards /\ (current[t] = None <=> guards[t] = <<>>)
    /\ table \in [Keys -> Handles \cup {None, NoEntry}]
    /\ handles \subseteq Handles \ fresh
    /\ \A t \in Threads : call[t].at \in Places

Init ==
    /\ handle_ = [o \in Objects |-> None]
    /\ live = {}
    /\ lazy_stream = [t \in Threads |-> None]
    /\ current = [t \in Threads |-> None]
    /\ guards = [t \in Threads |-> <<>>]
    /\ table = [r \in Keys |-> NoEntry]
    /\ handles = {}
    /\ fresh = Handles
    /\ call = [t \in Threads |-> Idle]
    /\ dangling = {}
    /\ raced = FALSE

-----------------------------------------------------------------------------
At(t, place) == call[t].at = place
Become(t, c) == call' = [call EXCEPT ![t] = c]

Uses(t) == IF At(t, "idle") THEN {} ELSE
    {call[t].o} \cup (IF call[t].at \in {"assign_destroy", "assign_take"} THEN {call[t].from} ELSE {})
Users(o) == {t \in Threads : o \in Uses(t)}
Lazies == {lazy_stream[t] : t \in Threads}
Guarded(o) == \E t \in Threads : current[t] = o \/ \E i \in DOMAIN guards[t] : guards[t][i] = o

\* Streams that the program constructs and may do away with.
Own(o) == handle_[o] # None /\ o \notin Lazies /\ Users(o) = {}

\* cudaStreamCreateWithFlags gives any address no live stream has.
CreateRaw(o) == \E r \in Raws \ live :
    /\ live' = live \cup {r}
    /\ handle_' = [handle_ EXCEPT ![o] = r]

Construct(t, o) ==
    /\ At(t, "idle")
    /\ handle_[o] = None
    /\ CreateRaw(o)
    /\ UNCHANGED <<defaults, context, call>>

\* The first default_stream() of a thread, also when a StreamGuard is active.
FirstDefault(t, o) ==
    /\ At(t, "idle")
    /\ lazy_stream[t] = None
    /\ handle_[o] = None
    /\ CreateRaw(o)
    /\ lazy_stream' = [lazy_stream EXCEPT ![t] = o]
    /\ UNCHANGED <<current, guards, context, call>>

DefaultStream(t) == IF current[t] # None THEN current[t] ELSE lazy_stream[t]

EnterGuard(t, o) ==
    /\ At(t, "idle")
    /\ Len(guards[t]) < MaxGuards
    /\ handle_[o] # None /\ o \notin Lazies
    /\ Users(o) \subseteq {u \in Threads : call[u].at \in CallPlaces}
    /\ guards' = [guards EXCEPT ![t] = Append(@, current[t])]
    /\ current' = [current EXCEPT ![t] = o]
    /\ UNCHANGED <<streams, lazy_stream, context, call>>

\* Mutant of LeaveGuard: the guard does not restore what it found.
LeaveGuardKeeps(t) ==
    /\ At(t, "idle")
    /\ guards[t] # <<>>
    /\ guards' = [guards EXCEPT ![t] = SubSeq(@, 1, Len(@) - 1)]
    /\ UNCHANGED <<streams, lazy_stream, current, context, call>>

LeaveGuard(t) ==
    /\ At(t, "idle")
    /\ guards[t] # <<>>
    /\ current' = [current EXCEPT ![t] = guards[t][Len(guards[t])]]
    /\ guards' = [guards EXCEPT ![t] = SubSeq(@, 1, Len(@) - 1)]
    /\ UNCHANGED <<streams, lazy_stream, context, call>>

-----------------------------------------------------------------------------
Key(t) == handle_[call[t].o]
AtEntry(r) == {t \in Threads : call[t].at \in CallPlaces /\ Key(t) = r}

\* handles_for, under the lock: any thread, on its default stream or on a
\* stream it was given.
HandlesFor(t, o) ==
    /\ At(t, "idle")
    /\ o = DefaultStream(t) \/ o \notin Lazies
    /\ o # None /\ handle_[o] # None
    /\ Users(o) \subseteq {u \in Threads : call[u].at \in CallPlaces}
    /\ table' = [table EXCEPT ![handle_[o]] = IF @ = NoEntry THEN None ELSE @]
    /\ raced' = (raced \/ AtEntry(handle_[o]) # {})
    /\ Become(t, Doing("found", o))
    /\ UNCHANGED <<streams, defaults, handles, fresh, dangling>>

\* if (!h.cublas)
Look(t) ==
    /\ At(t, "found")
    /\ Become(t, Doing(IF table[Key(t)] = None THEN "create" ELSE "bind", call[t].o))
    /\ UNCHANGED <<streams, defaults, context>>

\* cublasCreate, and the handle is put into the entry whatever it holds by now.
Create(t) ==
    /\ At(t, "create")
    /\ \E h \in fresh :
          /\ fresh' = fresh \ {h}
          /\ handles' = handles \cup {h}
          /\ table' = [table EXCEPT ![Key(t)] = h]
    /\ Become(t, Doing("bind", call[t].o))
    /\ UNCHANGED <<streams, defaults, dangling, raced>>

CreateThrows(t) ==
    /\ At(t, "create")
    /\ Become(t, Idle)
    /\ UNCHANGED <<streams, defaults, context>>

\* cublasSetStream and the call of the library.
Run(t) ==
    /\ At(t, "bind")
    /\ Become(t, Idle)
    /\ UNCHANGED <<streams, defaults, context>>

-----------------------------------------------------------------------------
\* Mutant of Reset: the entry is erased and its handle is not destroyed.
ResetKeepsHandle(r) ==
    /\ table' = [table EXCEPT ![r] = NoEntry]
    /\ dangling' = dangling \cup AtEntry(r)
    /\ UNCHANGED <<handles, fresh, raced>>

\* BackendContext::reset, under the lock.
Reset(r) ==
    /\ table' = [table EXCEPT ![r] = NoEntry]
    /\ handles' = handles \ {table[r]}
    /\ dangling' = dangling \cup AtEntry(r)
    /\ UNCHANGED <<fresh, raced>>

\* Mutant of Destroy: the raw stream is destroyed and its handles are kept.
DestroyKeepsHandles(t, o) ==
    IF handle_[o] = NullStream
    THEN handle_' = [handle_ EXCEPT ![o] = None] /\ UNCHANGED <<live, call, context>>
    ELSE Become(t, Doing("destroy", o)) /\ UNCHANGED <<streams, context>>

\* ~Stream; nothing to do for a moved-from object.
Destroy(t, o) ==
    IF handle_[o] = NullStream
    THEN handle_' = [handle_ EXCEPT ![o] = None] /\ UNCHANGED <<live, call, context>>
    ELSE Reset(handle_[o]) /\ Become(t, Doing("destroy", o)) /\ UNCHANGED streams

DestroyObject(t, o) ==
    /\ At(t, "idle")
    /\ Own(o) /\ ~Guarded(o)
    /\ Destroy(t, o)
    /\ UNCHANGED defaults

\* cudaStreamDestroy
DestroyRaw(t) ==
    /\ At(t, "destroy")
    /\ live' = live \ {handle_[call[t].o]}
    /\ handle_' = [handle_ EXCEPT ![call[t].o] = None]
    /\ Become(t, Idle)
    /\ UNCHANGED <<defaults, context>>

\* The destructor of lazy_stream when the thread ends; another may start.
ThreadExits(t) ==
    /\ At(t, "idle")
    /\ guards[t] = <<>>
    /\ lazy_stream[t] # None
    /\ Destroy(t, lazy_stream[t])
    /\ lazy_stream' = [lazy_stream EXCEPT ![t] = None]
    /\ UNCHANGED <<current, guards>>

\* Mutant of Moved: the object moved from keeps its raw stream.
MovedCopies(to, from) == [handle_ EXCEPT ![to] = handle_[from]]

Moved(to, from) == [handle_ EXCEPT ![to] = handle_[from], ![from] = NullStream]

MoveConstruct(t, to, from) ==
    /\ At(t, "idle")
    /\ Own(from) /\ handle_[to] = None
    /\ handle_' = Moved(to, from)
    /\ UNCHANGED <<live, defaults, context, call>>

\* operator=(Stream&&): the handles, the raw stream, and then the new one.
MoveAssign(t, to, from) ==
    /\ At(t, "idle")
    /\ to # from /\ Own(to) /\ Own(from)
    /\ IF handle_[to] = NullStream
       THEN Become(t, Assigning("assign_take", to, from)) /\ UNCHANGED context
       ELSE Reset(handle_[to]) /\ Become(t, Assigning("assign_destroy", to, from))
    /\ UNCHANGED <<streams, defaults>>

MoveAssignDestroy(t) ==
    /\ At(t, "assign_destroy")
    /\ live' = live \ {handle_[call[t].o]}
    /\ handle_' = [handle_ EXCEPT ![call[t].o] = NullStream]
    /\ Become(t, Assigning("assign_take", call[t].o, call[t].from))
    /\ UNCHANGED <<defaults, context>>

MoveAssignTake(t) ==
    /\ At(t, "assign_take")
    /\ handle_' = Moved(call[t].o, call[t].from)
    /\ Become(t, Idle)
    /\ UNCHANGED <<live, defaults, context>>

-----------------------------------------------------------------------------
Step(t) ==
    \/ \E o \in Objects :
          \/ Construct(t, o) \/ FirstDefault(t, o)
          \/ EnterGuard(t, o) \/ HandlesFor(t, o) \/ DestroyObject(t, o)
          \/ \E from \in Objects : MoveConstruct(t, o, from) \/ MoveAssign(t, o, from)
    \/ LeaveGuard(t)
    \/ Look(t) \/ Create(t) \/ CreateThrows(t) \/ Run(t)
    \/ DestroyRaw(t) \/ ThreadExits(t)
    \/ MoveAssignDestroy(t) \/ MoveAssignTake(t)

Next == \E t \in Threads : Step(t)

Spec == Init /\ [][Next]_vars

-----------------------------------------------------------------------------
\* Whatever is moved where, no two streams have one raw stream, each has one
\* that is live, and no two threads have one default stream (the moves of
\* Stream; stream.cpp on default_stream: two threads never compete for one
\* cudaStream_t unless the program shares it).
StreamsApart ==
    /\ \A o \in Objects : handle_[o] \in Raws /\ (\A t \in Users(o) : call[t].at \in CallPlaces) =>
          /\ handle_[o] \in live
          /\ \A p \in Objects \ {o} : handle_[p] # handle_[o]
    /\ \A t, u \in Threads : t # u /\ lazy_stream[t] # None => lazy_stream[t] # lazy_stream[u]

\* Handles follow streams: no address that a new stream may get has handles of
\* an old one, and no thread is left with the entry of a stream that went away
\* while it was looking at it (the order of ~Stream and operator=).
HandlesFollowStreams ==
    /\ \A r \in Raws : table[r] # NoEntry => r \in live
    /\ dangling = {}

\* A stream has one vendor handle, freed with it: a handle is lost only if two
\* threads have been at one entry at once, between the lock of handles_for and
\* the assignment of the handle (cublas_backend.cpp: once per stream).
OneHandlePerStream ==
    \A h \in handles : h \in {table[r] : r \in Keys} \/ raced
=============================================================================
