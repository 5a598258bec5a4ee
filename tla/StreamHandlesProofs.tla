------------------------- MODULE StreamHandlesProofs -------------------------
(***************************************************************************)
(* Theorems about StreamHandles, for every number of threads, streams,     *)
(* addresses, vendor handles and guards.                                   *)
(***************************************************************************)
EXTENDS StreamHandles, SequenceTheorems, TLAPS

Ending == {"destroy", "assign_destroy", "assign_take"}
Assigns == {"assign_destroy", "assign_take"}
Calls == {Idle} \cup [at : CallPlaces \cup {"destroy"}, o : Objects]
                \cup [at : Assigns, o : Objects, from : Objects]

Typed ==
    /\ handle_ \in [Objects -> Keys \cup {None}]
    /\ live \subseteq Raws
    /\ lazy_stream \in [Threads -> Objects \cup {None}]
    /\ current \in [Threads -> Objects \cup {None}]
    /\ guards \in [Threads -> Seq(Objects \cup {None})]
    /\ table \in [Keys -> Handles \cup {None, NoEntry}]
    /\ handles \subseteq Handles \ fresh
    /\ fresh \subseteq Handles
    /\ call \in [Threads -> Calls]

\* The first guard of a thread found no override, the others one.
GuardStack == \A t \in Threads :
    /\ Len(guards[t]) <= MaxGuards
    /\ current[t] = None <=> guards[t] = <<>>
    /\ guards[t] # <<>> => guards[t][1] = None
    /\ \A i \in 2..Len(guards[t]) : guards[t][i] # None

\* A raw stream is live and has one owner, also while it is being destroyed.
OneOwner == \A o \in Objects : handle_[o] \in Raws =>
    /\ handle_[o] \in live
    /\ \A p \in Objects : p # o => handle_[p] # handle_[o]

\* A default stream is there and belongs to its thread.
OwnDefault == \A t \in Threads : lazy_stream[t] # None =>
    /\ handle_[lazy_stream[t]] # None
    /\ \A u \in Threads : u # t => lazy_stream[u] # lazy_stream[t]

\* An override is a stream of the program, and it is there.
Lent(o) == /\ handle_[o] # None
           /\ o \notin Lazies
           /\ \A u \in Threads : At(u, "destroy") => call[u].o # o
GuardsLent == \A o \in Objects : Guarded(o) => Lent(o)

\* Who calls a library keeps the stream; who ends a stream has it alone.
Caller(t) == call[t].at \in CallPlaces
CallsKeep == \A t \in Threads : Caller(t) =>
    /\ handle_[call[t].o] # None
    /\ call[t].o \in Lazies => call[t].o = lazy_stream[t]
EndsAlone == \A t \in Threads : call[t].at \in Ending =>
    /\ \A o \in Uses(t) : Users(o) = {t} /\ o \notin Lazies /\ handle_[o] # None
    /\ At(t, "assign_take") => handle_[call[t].o] = NullStream
    /\ ~At(t, "assign_take") => handle_[call[t].o] \in Raws
    /\ ~At(t, "destroy") => call[t].from # call[t].o

\* An entry of the table is there as long as its stream, or its caller.
Entries ==
    /\ \A r \in Raws : table[r] # NoEntry => r \in live
    /\ \A t \in Threads : call[t].at \in {"destroy", "assign_destroy"} =>
          table[handle_[call[t].o]] = NoEntry
    /\ \A t \in Threads : Caller(t) => table[Key(t)] # NoEntry
    /\ dangling = {}

\* Alone at an entry, a thread finds what it has seen.
Unraced == raced \/
    /\ \A t, u \in Threads : Caller(t) /\ Caller(u) /\ t # u => Key(t) # Key(u)
    /\ \A t \in Threads : At(t, "create") => table[Key(t)] = None
    /\ \A h \in handles : \E r \in Keys : table[r] = h

StreamInv ==
    /\ Typed
    /\ GuardStack
    /\ OneOwner
    /\ OwnDefault
    /\ GuardsLent
    /\ CallsKeep
    /\ EndsAlone
    /\ Entries
    /\ Unraced

-----------------------------------------------------------------------------
\* What an assignment to one thread's call leaves and gives.
LEMMA CallStep ==
    ASSUME Typed, NEW t \in Threads, NEW c, Become(t, c)
    PROVE  /\ call'[t] = c
           /\ \A u \in Threads : u # t => call'[u] = call[u]
BY DEF Typed, Become

\* What a thread does is an object's name, and where it stands in it.
LEMMA CallTyped ==
    ASSUME Typed, NEW t \in Threads
    PROVE  /\ call[t].at \in Places
           /\ call[t].at # "idle" => call[t].o \in Objects
           /\ call[t].at \in Assigns => call[t].from \in Objects
BY DEF Typed, Calls, Idle, Assigns, CallPlaces, Places

\* Keys: an object there has one, and it indexes the table.
LEMMA KeyTyped ==
    ASSUME Typed, NEW o \in Objects, handle_[o] # None
    PROVE  handle_[o] \in Keys
BY DEF Typed

\* The states of the calls, whichever one begins.
LEMMA CallsTyped ==
    ASSUME Typed, NEW t \in Threads, NEW c \in Calls, Become(t, c)
    PROVE  call' \in [Threads -> Calls]
BY DEF Typed, Become

LEMMA PlaceOfCall ==
    /\ Idle \in Calls
    /\ \A o \in Objects, a \in CallPlaces \cup {"destroy"} : Doing(a, o) \in Calls
    /\ \A o, f \in Objects, a \in Assigns : Assigning(a, o, f) \in Calls
BY DEF Calls, Doing, Assigning

LEMMA TypedInit == Init => Typed
BY NullAssumption DEF Init, Typed, Calls, Keys

LEMMA TypedStep ==
    ASSUME Typed, OwnDefault, EndsAlone, NEW t \in Threads, Step(t)
    PROVE  Typed'
PROOF
<1> USE DEF streams, defaults, context
<1>1. ASSUME NEW o \in Objects, CreateRaw(o)
      PROVE  handle_' \in [Objects -> Keys \cup {None}] /\ live' \subseteq Raws
  BY <1>1 DEF CreateRaw, Typed, Keys
<1>2. ASSUME NEW to \in Objects, NEW from \in Objects, handle_[from] # None,
             handle_' = Moved(to, from)
      PROVE  handle_' \in [Objects -> Keys \cup {None}]
  BY <1>2 DEF Moved, Typed, Keys
<1>3. ASSUME NEW o \in Objects, Construct(t, o) \/ FirstDefault(t, o)
      PROVE  Typed'
  BY <1>1, <1>3 DEF Construct, FirstDefault, Typed
<1>4. ASSUME NEW o \in Objects, EnterGuard(t, o) PROVE Typed'
  <2>1. guards[t] \in Seq(Objects \cup {None}) /\ current[t] \in Objects \cup {None}
    BY DEF Typed
  <2>2. Append(guards[t], current[t]) \in Seq(Objects \cup {None})
    BY <2>1
  <2> QED  BY <2>2, <1>4 DEF EnterGuard, Typed
<1>5. ASSUME NEW o \in Objects, HandlesFor(t, o) PROVE Typed'
  <2>1. call' \in [Threads -> Calls]
    BY <1>5, CallsTyped, PlaceOfCall DEF HandlesFor, CallPlaces
  <2>2. table' \in [Keys -> Handles \cup {None, NoEntry}]
    BY <1>5 DEF HandlesFor, Typed
  <2> QED  BY <2>1, <2>2, <1>5 DEF HandlesFor, Typed
<1>6. ASSUME NEW o \in Objects, handle_[o] # None, Destroy(t, o)
      PROVE  /\ handle_' \in [Objects -> Keys \cup {None}]
             /\ live' \subseteq Raws
             /\ table' \in [Keys -> Handles \cup {None, NoEntry}]
             /\ handles' \subseteq Handles \ fresh' /\ fresh' \subseteq Handles
             /\ call' \in [Threads -> Calls]
  <2>1. CASE handle_[o] = NullStream
    BY <1>6, <2>1 DEF Destroy, Typed
  <2>2. CASE handle_[o] # NullStream
    <3>1. call' \in [Threads -> Calls]
      BY <1>6, <2>2, CallsTyped, PlaceOfCall DEF Destroy
    <3> QED  BY <3>1, <1>6, <2>2 DEF Destroy, Reset, Typed
  <2> QED  BY <2>1, <2>2
<1>7. ASSUME NEW o \in Objects, DestroyObject(t, o) PROVE Typed'
  BY <1>6, <1>7 DEF DestroyObject, Own, Typed
<1>8. ASSUME NEW o \in Objects, NEW from \in Objects, MoveConstruct(t, o, from)
      PROVE  Typed'
  BY <1>2, <1>8 DEF MoveConstruct, Own, Typed
<1>9. ASSUME NEW o \in Objects, NEW from \in Objects, MoveAssign(t, o, from)
      PROVE  Typed'
  <2>1. call' \in [Threads -> Calls]
    BY <1>9, CallsTyped, PlaceOfCall DEF MoveAssign, Assigns
  <2> QED  BY <2>1, <1>9 DEF MoveAssign, Reset, Typed
<1>10. ASSUME LeaveGuard(t) PROVE Typed'
  <2>1. guards[t] \in Seq(Objects \cup {None}) /\ Len(guards[t]) \in Nat \ {0}
    BY <1>10, EmptySeq DEF LeaveGuard, Typed
  <2>2. guards[t][Len(guards[t])] \in Objects \cup {None}
    BY <2>1, ElementOfSeq
  <2>3. SubSeq(guards[t], 1, Len(guards[t]) - 1) \in Seq(Objects \cup {None})
    BY <2>1, ElementOfSeq, SubSeqProperties
  <2> QED  BY <2>2, <2>3, <1>10 DEF LeaveGuard, Typed
<1>11. ASSUME Look(t) \/ CreateThrows(t) \/ Run(t) PROVE Typed'
  <2>1. call' \in [Threads -> Calls]
    BY <1>11, CallsTyped, CallTyped, PlaceOfCall DEF Look, CreateThrows, Run, CallPlaces, At
  <2> QED  BY <2>1, <1>11 DEF Look, CreateThrows, Run, Typed
<1>12. ASSUME Create(t) PROVE Typed'
  <2>1. call' \in [Threads -> Calls]
    BY <1>12, CallsTyped, CallTyped, PlaceOfCall DEF Create, CallPlaces, At
  <2> QED  BY <2>1, <1>12 DEF Create, Typed
<1>13. ASSUME DestroyRaw(t) PROVE Typed'
  <2>1. call' \in [Threads -> Calls]
    BY <1>13, CallsTyped, PlaceOfCall DEF DestroyRaw
  <2> QED  BY <2>1, <1>13 DEF DestroyRaw, Typed
<1>14. ASSUME ThreadExits(t) PROVE Typed'
  <2>1. lazy_stream[t] \in Objects /\ handle_[lazy_stream[t]] # None
    BY <1>14 DEF ThreadExits, Typed, OwnDefault
  <2> QED  BY <2>1, <1>6, <1>14 DEF ThreadExits, Typed
<1>15. ASSUME MoveAssignDestroy(t) PROVE Typed'
  <2>1. call' \in [Threads -> Calls]
    BY <1>15, CallsTyped, CallTyped, PlaceOfCall DEF MoveAssignDestroy, Assigns, At
  <2> QED  BY <2>1, <1>15 DEF MoveAssignDestroy, Typed, Keys
<1>16. ASSUME MoveAssignTake(t) PROVE Typed'
  <2>1. call' \in [Threads -> Calls]
    BY <1>16, CallsTyped, PlaceOfCall DEF MoveAssignTake
  <2>2. call[t].o \in Objects /\ call[t].from \in Objects /\ handle_[call[t].from] # None
    BY <1>16, CallTyped DEF MoveAssignTake, At, Assigns, EndsAlone, Ending, Uses
  <2> QED  BY <2>1, <2>2, <1>2, <1>16 DEF MoveAssignTake, Typed
<1> QED
  BY <1>3, <1>4, <1>5, <1>7, <1>8, <1>9, <1>10, <1>11, <1>12, <1>13, <1>14, <1>15, <1>16
     DEF Step

-----------------------------------------------------------------------------
\* An idle thread's default stream has no user: only its thread calls on it.
LEMMA LazyUnused ==
    ASSUME StreamInv, NEW t \in Threads, At(t, "idle"), lazy_stream[t] # None
    PROVE  Users(lazy_stream[t]) = {}
<1> SUFFICES ASSUME NEW u \in Threads, lazy_stream[t] \in Uses(u) PROVE FALSE
  BY DEF Users
<1>1. lazy_stream[t] \in Lazies /\ u # t
  BY DEF Lazies, Uses
<1>2. call[u].at \notin Ending
  BY <1>1 DEF StreamInv, EndsAlone
<1>3. Caller(u) /\ call[u].o = lazy_stream[t]
  BY <1>2, CallTyped DEF StreamInv, Uses, At, Ending, Caller, Places
<1> QED  BY <1>1, <1>3 DEF StreamInv, CallsKeep, OwnDefault

LEMMA LazyOwn ==
    ASSUME StreamInv, NEW t \in Threads, At(t, "idle"), lazy_stream[t] # None
    PROVE  /\ lazy_stream[t] \in Objects
           /\ handle_[lazy_stream[t]] \in Keys
           /\ Users(lazy_stream[t]) = {}
           /\ ~Guarded(lazy_stream[t])
<1>1. lazy_stream[t] \in Objects
  BY DEF StreamInv, Typed
<1>2. handle_[lazy_stream[t]] \in Keys
  BY <1>1, KeyTyped DEF StreamInv, OwnDefault
<1>3. ~Guarded(lazy_stream[t])
  BY <1>1 DEF StreamInv, GuardsLent, Lent, Lazies
<1> QED  BY <1>1, <1>2, <1>3, LazyUnused

\* The streams that a thread uses have an address.
LEMMA UsesThere ==
    ASSUME StreamInv, NEW u \in Threads, NEW o \in Uses(u)
    PROVE  /\ o \in Objects
           /\ handle_[o] \in Keys
           /\ call[u].at \in CallPlaces \cup Ending
<1>1. call[u].at \in CallPlaces \cup Ending
  BY CallTyped DEF StreamInv, Uses, At, Places, Ending
<1>2. o \in Objects
  BY CallTyped DEF StreamInv, Uses, At, Assigns
<1>3. CASE Caller(u)
  <2>1. o = call[u].o
    BY <1>3 DEF Caller, CallPlaces, Uses, At
  <2> QED  BY <2>1, <1>1, <1>2, <1>3, KeyTyped DEF StreamInv, CallsKeep
<1>4. CASE ~Caller(u)
  BY <1>4, <1>1, <1>2, KeyTyped DEF StreamInv, EndsAlone, Caller
<1> QED  BY <1>3, <1>4

\* Whoever uses a raw stream uses the object that owns it.
LEMMA OneObject ==
    ASSUME StreamInv, NEW o \in Objects, NEW p \in Objects,
           handle_[o] = handle_[p], handle_[o] \in Raws
    PROVE  o = p
BY DEF StreamInv, OneOwner

\* A step of one thread leaves the streams that another is using.
LEMMA Undisturbed ==
    ASSUME StreamInv, NEW t \in Threads, Step(t), NEW u \in Threads, u # t
    PROVE  /\ call'[u] = call[u]
           /\ Uses(u)' = Uses(u)
           /\ \A o \in Uses(u) : handle_'[o] = handle_[o]
<1> USE DEF streams, defaults, context
<1>1. call'[u] = call[u]
  <2>1. ASSUME NEW c, Become(t, c) PROVE call'[u] = call[u]
    BY <2>1, CallStep DEF StreamInv
  <2> QED
    BY <2>1 DEF Step, Construct, FirstDefault, EnterGuard, HandlesFor, DestroyObject, Destroy,
                MoveConstruct, MoveAssign, LeaveGuard, Look, Create, CreateThrows, Run, DestroyRaw,
                ThreadExits, MoveAssignDestroy, MoveAssignTake
<1>2. Uses(u)' = Uses(u)
  BY <1>1 DEF Uses, At
<1>3. ASSUME NEW o \in Uses(u) PROVE handle_'[o] = handle_[o]
  <2>1. o \in Objects /\ handle_[o] # None /\ u \in Users(o)
    BY UsesThere, NullAssumption DEF Users, Keys
  <2>2. ASSUME NEW p \in Objects, p # o, NEW h, handle_' = [handle_ EXCEPT ![p] = h]
        PROVE  handle_'[o] = handle_[o]
    BY <2>2
  <2>3. ASSUME NEW p \in Objects, NEW from \in Objects, p # o, from # o, handle_' = Moved(p, from)
        PROVE  handle_'[o] = handle_[o]
    BY <2>1, <2>3 DEF Moved, StreamInv, Typed
  <2>4. ASSUME NEW p \in Objects, handle_[p] = None, CreateRaw(p) PROVE handle_'[o] = handle_[o]
    BY <2>1, <2>4, <2>2 DEF CreateRaw
  <2>5. ASSUME NEW p \in Objects, Users(p) = {}, Destroy(t, p) PROVE handle_'[o] = handle_[o]
    BY <2>1, <2>5, <2>2 DEF Destroy
  <2>6. ASSUME call[t].at \in Ending, NEW p \in Uses(t) PROVE p # o
    BY <2>6, <2>1 DEF StreamInv, EndsAlone
  <2>7. ASSUME call[t].at \in Ending
        PROVE  call[t].o \in Uses(t) /\ call[t].o \in Objects
    BY <2>7, CallTyped DEF Ending, Uses, At, StreamInv
  <2>8. ASSUME call[t].at \in Assigns
        PROVE  call[t].from \in Uses(t) /\ call[t].from \in Objects
    BY <2>8, CallTyped DEF Assigns, Uses, At, StreamInv
  <2>9. ASSUME NEW p \in Objects,
               \/ Construct(t, p) \/ FirstDefault(t, p)
               \/ EnterGuard(t, p) \/ HandlesFor(t, p) \/ DestroyObject(t, p)
        PROVE  handle_'[o] = handle_[o]
    BY <2>9, <2>4, <2>5
       DEF Construct, FirstDefault, EnterGuard, HandlesFor, DestroyObject, Own
  <2>10. ASSUME NEW p \in Objects, NEW from \in Objects,
                MoveConstruct(t, p, from) \/ MoveAssign(t, p, from)
         PROVE  handle_'[o] = handle_[o]
    BY <2>10, <2>1, <2>3 DEF MoveConstruct, MoveAssign, Own
  <2>11. ASSUME LeaveGuard(t) \/ Look(t) \/ Create(t) \/ CreateThrows(t) \/ Run(t)
         PROVE  handle_'[o] = handle_[o]
    BY <2>11 DEF LeaveGuard, Look, Create, CreateThrows, Run
  <2>12. ASSUME DestroyRaw(t) \/ MoveAssignDestroy(t) PROVE handle_'[o] = handle_[o]
    BY <2>12, <2>2, <2>6, <2>7 DEF DestroyRaw, MoveAssignDestroy, At, Ending
  <2>13. CASE ThreadExits(t)
    BY <2>13, <2>5, LazyOwn DEF ThreadExits
  <2>14. CASE MoveAssignTake(t)
    BY <2>14, <2>3, <2>6, <2>7, <2>8 DEF MoveAssignTake, At, Ending, Assigns
  <2> QED
    BY <2>9, <2>10, <2>11, <2>12, <2>13, <2>14 DEF Step
<1> QED  BY <1>1, <1>2, <1>3

-----------------------------------------------------------------------------
LEMMA GuardStackStep ==
    ASSUME StreamInv, NEW t \in Threads, Step(t)
    PROVE  GuardStack'
<1> USE DEF streams, defaults, context
<1>1. ASSUME UNCHANGED <<current, guards>> PROVE GuardStack'
  BY <1>1 DEF StreamInv, GuardStack
<1>2. /\ guards[t] \in Seq(Objects \cup {None}) /\ Len(guards[t]) \in Nat
      /\ Len(guards[t]) <= MaxGuards
      /\ current[t] = None <=> guards[t] = <<>>
      /\ guards[t] # <<>> => guards[t][1] = None
      /\ \A i \in 2..Len(guards[t]) : guards[t][i] # None
  <2>1. guards[t] \in Seq(Objects \cup {None})
    BY DEF StreamInv, Typed
  <2> QED  BY <2>1 DEF StreamInv, GuardStack
<1>3. ASSUME NEW c, NEW g,
             guards' = [guards EXCEPT ![t] = g], current' = [current EXCEPT ![t] = c],
             Len(g) <= MaxGuards,
             c = None <=> g = <<>>,
             g # <<>> => g[1] = None,
             \A i \in 2..Len(g) : g[i] # None
      PROVE  GuardStack'
  <2>1. /\ guards'[t] = g /\ current'[t] = c
        /\ \A u \in Threads \ {t} : guards'[u] = guards[u] /\ current'[u] = current[u]
    BY <1>3 DEF StreamInv, Typed
  <2> QED  BY <1>3, <2>1 DEF StreamInv, GuardStack
<1>4. ASSUME NEW o \in Objects, EnterGuard(t, o) PROVE GuardStack'
  <2>1. PICK n \in Nat : n = Len(guards[t])
    BY <1>2
  <2>2. PICK g : g = Append(guards[t], current[t])
    OBVIOUS
  <2>3. /\ Len(g) = n + 1
        /\ \A i \in 1..n : g[i] = guards[t][i]
        /\ g[n + 1] = current[t]
    BY <1>2, <2>1, <2>2
  <2>4. Len(g) <= MaxGuards
    BY <1>4, <2>1, <2>3, BoundAssumption DEF EnterGuard
  <2>5. g # <<>> /\ o # None
    BY <2>3, NullAssumption
  <2>6. n = 0 <=> current[t] = None
    BY <1>2, <2>1, EmptySeq
  <2>7. g[1] = None
    BY <1>2, <2>1, <2>3, <2>6, EmptySeq
  <2>8. \A i \in 2..Len(g) : g[i] # None
    BY <1>2, <2>1, <2>3, <2>6
  <2> QED  BY <1>3, <1>4, <2>2, <2>4, <2>5, <2>7, <2>8 DEF EnterGuard
<1>5. ASSUME LeaveGuard(t) PROVE GuardStack'
  <2>1. PICK n \in Nat \ {0} : n = Len(guards[t])
    BY <1>2, <1>5, EmptySeq DEF LeaveGuard
  <2>2. PICK g : g = SubSeq(guards[t], 1, n - 1)
    OBVIOUS
  <2>3. Len(g) = n - 1 /\ \A i \in 1..n - 1 : g[i] = guards[t][i]
    BY <1>2, <2>1, <2>2
  <2>4. g \in Seq(Objects \cup {None})
    <3>1. \A i \in 1..n - 1 : guards[t][i] \in Objects \cup {None}
      BY <1>2, <2>1, ElementOfSeq
    <3> QED  BY <3>1, <2>2, SubSeqProperties
  <2>5. g = <<>> <=> n = 1
    <3>1. g # <<>> => Len(g) \in Nat \ {0}
      BY <2>4, EmptySeq
    <3>2. g = <<>> => Len(g) = 0
      BY EmptySeq, Zenon
    <3>3. Len(g) = 0 <=> n = 1
      BY <2>1, <2>3
    <3>4. Len(g) \in Nat \ {0} => Len(g) # 0
      OBVIOUS
    <3> QED  BY <3>1, <3>2, <3>3, <3>4, Zenon
  <2>6. PICK c : c = guards[t][n]
    OBVIOUS
  <2>7. c = None <=> n = 1
    <3>1. guards[t][1] = None
      BY <1>2, <1>5, Zenon DEF LeaveGuard
    <3>2. n # 1 => n \in 2..n
      <4>1. n \in Nat \ {0}
        BY <2>1
      <4> QED  BY <4>1
    <3>3. n # 1 => guards[t][n] # None
      BY <3>2, <1>2, <2>1
    <3> QED  BY <3>1, <3>3, <2>6
  <2>8. Len(g) <= MaxGuards
    BY <1>2, <2>1, <2>3, BoundAssumption
  <2>9. n # 1 => g[1] = None
    <3>1. guards[t][1] = None
      BY <1>2, <1>5, Zenon DEF LeaveGuard
    <3>2. n \in Nat \ {0}
      BY <2>1
    <3>3. n # 1 => 1 \in 1..n - 1
      BY <3>2
    <3> QED  BY <3>1, <3>3, <2>3
  <2>10. \A i \in 2..Len(g) : g[i] # None
    BY <1>2, <2>1, <2>3
  <2>11. guards' = [guards EXCEPT ![t] = g] /\ current' = [current EXCEPT ![t] = c]
    BY <1>5, <2>1, <2>2, <2>6 DEF LeaveGuard
  <2> QED  BY <1>3, <2>5, <2>7, <2>8, <2>9, <2>10, <2>11
<1> QED
  BY <1>1, <1>4, <1>5
     DEF Step, Construct, FirstDefault, HandlesFor, DestroyObject, MoveConstruct, MoveAssign,
         Look, Create, CreateThrows, Run, DestroyRaw, ThreadExits, MoveAssignDestroy, MoveAssignTake

-----------------------------------------------------------------------------
\* Raw streams keep one owner when one is created, destroyed or moved.
LEMMA OwnerStep ==
    ASSUME StreamInv, NEW t \in Threads, Step(t)
    PROVE  OneOwner'
<1> USE DEF streams, defaults, context
<1>1. ASSUME UNCHANGED <<handle_, live>> PROVE OneOwner'
  BY <1>1 DEF StreamInv, OneOwner
<1>2. ASSUME NEW o \in Objects, CreateRaw(o) PROVE OneOwner'
  <2>1. PICK r \in Raws \ live : live' = live \cup {r} /\ handle_' = [handle_ EXCEPT ![o] = r]
    BY <1>2 DEF CreateRaw
  <2> QED  BY <2>1 DEF StreamInv, OneOwner, Typed
<1>3. ASSUME NEW o \in Objects, handle_[o] \in Raws, NEW h \in {None, NullStream},
             live' = live \ {handle_[o]}, handle_' = [handle_ EXCEPT ![o] = h]
      PROVE  OneOwner'
  BY <1>3, NullAssumption DEF StreamInv, OneOwner, Typed
<1>4. ASSUME NEW o \in Objects, handle_[o] = NullStream,
             live' = live, handle_' = [handle_ EXCEPT ![o] = None]
      PROVE  OneOwner'
  BY <1>4, NullAssumption DEF StreamInv, OneOwner, Typed
<1>5. ASSUME NEW to \in Objects, NEW from \in Objects, to # from,
             live' = live, handle_' = Moved(to, from)
      PROVE  OneOwner'
  BY <1>5, NullAssumption DEF Moved, StreamInv, OneOwner, Typed
<1>6. ASSUME NEW o \in Objects, Construct(t, o) \/ FirstDefault(t, o) PROVE OneOwner'
  BY <1>6, <1>2 DEF Construct, FirstDefault
<1>7. ASSUME NEW o \in Objects, Destroy(t, o) PROVE OneOwner'
  BY <1>7, <1>1, <1>4 DEF Destroy
<1>8. ASSUME NEW o \in Objects, NEW from \in Objects,
             MoveConstruct(t, o, from) \/ MoveAssign(t, o, from)
      PROVE  OneOwner'
  BY <1>8, <1>1, <1>5 DEF MoveConstruct, MoveAssign, Own
<1>9. ASSUME DestroyRaw(t) \/ MoveAssignDestroy(t) PROVE OneOwner'
  <2>1. call[t].o \in Objects /\ handle_[call[t].o] \in Raws
    BY <1>9, CallTyped DEF DestroyRaw, MoveAssignDestroy, At, StreamInv, EndsAlone, Ending
  <2> QED  BY <2>1, <1>9, <1>3 DEF DestroyRaw, MoveAssignDestroy
<1>10. ASSUME MoveAssignTake(t) PROVE OneOwner'
  <2>1. call[t].o \in Objects /\ call[t].from \in Objects /\ call[t].o # call[t].from
    BY <1>10, CallTyped DEF MoveAssignTake, At, StreamInv, EndsAlone, Ending, Assigns
  <2> QED  BY <2>1, <1>10, <1>5 DEF MoveAssignTake
<1> QED
  BY <1>1, <1>6, <1>7, <1>8, <1>9, <1>10, LazyOwn
     DEF Step, EnterGuard, HandlesFor, DestroyObject, LeaveGuard, Look, Create, CreateThrows, Run,
         ThreadExits

LEMMA DefaultStep ==
    ASSUME StreamInv, NEW t \in Threads, Step(t)
    PROVE  OwnDefault'
<1> USE DEF streams, defaults, context
<1>1. \A u \in Threads : lazy_stream[u] # None =>
         /\ lazy_stream[u] \in Objects /\ lazy_stream[u] \in Lazies
         /\ handle_[lazy_stream[u]] # None
  BY DEF StreamInv, Typed, OwnDefault, Lazies
<1>2. ASSUME UNCHANGED lazy_stream,
             \A o \in Lazies : o \in Objects /\ handle_[o] # None => handle_'[o] # None
      PROVE  OwnDefault'
  BY <1>1, <1>2 DEF StreamInv, OwnDefault
<1>3. ASSUME UNCHANGED <<handle_, lazy_stream>> PROVE OwnDefault'
  BY <1>2, <1>3
<1>4. ASSUME UNCHANGED lazy_stream, NEW o \in Objects, o \notin Lazies, NEW h,
             handle_' = [handle_ EXCEPT ![o] = h]
      PROVE  OwnDefault'
  BY <1>2, <1>4
<1>5. ASSUME UNCHANGED lazy_stream, NEW to \in Objects, NEW from \in Objects,
             to \notin Lazies, from \notin Lazies, handle_' = Moved(to, from)
      PROVE  OwnDefault'
  BY <1>2, <1>5 DEF Moved, StreamInv, Typed
<1>6. \A o \in Objects : handle_[o] = None => o \notin Lazies
  BY <1>1, NullAssumption DEF Lazies
<1>7. ASSUME NEW o \in Objects, Construct(t, o) PROVE OwnDefault'
  BY <1>7, <1>6, <1>4 DEF Construct, CreateRaw
<1>8. ASSUME NEW o \in Objects, FirstDefault(t, o) PROVE OwnDefault'
  <2>1. PICK r \in Raws : handle_' = [handle_ EXCEPT ![o] = r]
    BY <1>8 DEF FirstDefault, CreateRaw
  <2>2. lazy_stream' = [lazy_stream EXCEPT ![t] = o] /\ \A u \in Threads : lazy_stream[u] # o
    BY <1>8, <1>6 DEF FirstDefault, Lazies
  <2> QED  BY <2>1, <2>2, <1>1, NullAssumption DEF StreamInv, OwnDefault, Typed
<1>9. ASSUME NEW o \in Objects, DestroyObject(t, o) PROVE OwnDefault'
  BY <1>9, <1>3, <1>4 DEF DestroyObject, Destroy, Own
<1>10. ASSUME NEW o \in Objects, NEW from \in Objects,
              MoveConstruct(t, o, from) \/ MoveAssign(t, o, from)
       PROVE  OwnDefault'
  BY <1>10, <1>3, <1>5, <1>6 DEF MoveConstruct, MoveAssign, Own
<1>11. ASSUME DestroyRaw(t) \/ MoveAssignDestroy(t) PROVE OwnDefault'
  <2>1. call[t].o \in Objects /\ call[t].o \notin Lazies
    BY <1>11, CallTyped DEF DestroyRaw, MoveAssignDestroy, At, StreamInv, EndsAlone, Ending, Uses
  <2> QED  BY <2>1, <1>11, <1>4 DEF DestroyRaw, MoveAssignDestroy
<1>12. ASSUME MoveAssignTake(t) PROVE OwnDefault'
  <2>1. /\ call[t].o \in Objects /\ call[t].from \in Objects
        /\ call[t].o \notin Lazies /\ call[t].from \notin Lazies
    BY <1>12, CallTyped DEF MoveAssignTake, At, StreamInv, EndsAlone, Ending, Assigns, Uses
  <2> QED  BY <2>1, <1>12, <1>5 DEF MoveAssignTake
<1>13. ASSUME ThreadExits(t) PROVE OwnDefault'
  <2> DEFINE o == lazy_stream[t]
  <2>1. /\ lazy_stream' = [lazy_stream EXCEPT ![t] = None]
        /\ handle_' = handle_ \/ handle_' = [handle_ EXCEPT ![o] = None]
    BY <1>13 DEF ThreadExits, Destroy
  <2>2. \A u \in Threads \ {t} : lazy_stream[u] # None => lazy_stream[u] # o
    BY <1>13 DEF ThreadExits, StreamInv, OwnDefault
  <2>3. \A u \in Threads : lazy_stream'[u] # None =>
           u # t /\ lazy_stream'[u] = lazy_stream[u] /\ handle_'[lazy_stream[u]] # None
    BY <2>1, <2>2, <1>1 DEF StreamInv, Typed
  <2> QED  BY <2>3 DEF StreamInv, OwnDefault
<1> QED
  BY <1>3, <1>7, <1>8, <1>9, <1>10, <1>11, <1>12, <1>13
     DEF Step, EnterGuard, HandlesFor, LeaveGuard, Look, Create, CreateThrows, Run

-----------------------------------------------------------------------------
\* Only a new object becomes a default stream, and only its thread's.
LEMMA LazyStep ==
    ASSUME StreamInv, NEW t \in Threads, Step(t)
    PROVE  /\ \A u \in Threads \ {t} : lazy_stream'[u] = lazy_stream[u]
           /\ \A o \in Objects : o \in Lazies' /\ handle_[o] # None => o \in Lazies
<1> USE DEF streams, defaults, context
<1>1. ASSUME UNCHANGED lazy_stream
      PROVE  /\ \A u \in Threads \ {t} : lazy_stream'[u] = lazy_stream[u]
             /\ \A o \in Objects : o \in Lazies' /\ handle_[o] # None => o \in Lazies
  BY <1>1 DEF Lazies
<1>2. ASSUME NEW p, lazy_stream' = [lazy_stream EXCEPT ![t] = p], p \in Objects => handle_[p] = None,
             p \in Objects \cup {None}
      PROVE  /\ \A u \in Threads \ {t} : lazy_stream'[u] = lazy_stream[u]
             /\ \A o \in Objects : o \in Lazies' /\ handle_[o] # None => o \in Lazies
  BY <1>2, NullAssumption DEF Lazies, StreamInv, Typed
<1>3. ASSUME NEW p \in Objects, FirstDefault(t, p)
      PROVE  lazy_stream' = [lazy_stream EXCEPT ![t] = p] /\ handle_[p] = None
  BY <1>3 DEF FirstDefault
<1>4. ASSUME ThreadExits(t)
      PROVE  lazy_stream' = [lazy_stream EXCEPT ![t] = None]
  BY <1>4 DEF ThreadExits
<1>5. CASE UNCHANGED lazy_stream
  BY <1>5, <1>1
<1>6. CASE \E p \in Objects : FirstDefault(t, p)
  BY <1>6, <1>3, <1>2
<1>7. CASE ThreadExits(t)
  BY <1>7, <1>4, <1>2, NullAssumption
<1> QED
  BY <1>5, <1>6, <1>7
     DEF Step, Construct, EnterGuard, HandlesFor, DestroyObject, MoveConstruct, MoveAssign, LeaveGuard,
         Look, Create, CreateThrows, Run, DestroyRaw, MoveAssignDestroy, MoveAssignTake

\* What a step may make of the thread that takes it.
LEMMA CallAfter ==
    ASSUME StreamInv, NEW t \in Threads, Step(t)
    PROVE  \/ call'[t] = call[t] /\ At(t, "idle")
           \/ call'[t] = Idle
           \/ /\ Caller(t)' /\ Caller(t) /\ call'[t].o = call[t].o
              /\ UNCHANGED <<handle_, lazy_stream>>
           \/ \E o \in Objects : HandlesFor(t, o) /\ call'[t] = Doing("found", o)
           \/ \E o \in Objects : /\ handle_[o] \in Raws /\ Users(o) = {} /\ call'[t] = Doing("destroy", o)
                                 /\ DestroyObject(t, o) \/ (ThreadExits(t) /\ o = lazy_stream[t])
           \/ \E o, from \in Objects : MoveAssign(t, o, from)
           \/ MoveAssignDestroy(t)
<1> USE DEF streams, defaults, context
<1>1. ASSUME NEW c, Become(t, c) PROVE call'[t] = c
  BY <1>1, CallStep DEF StreamInv
<1>2. ASSUME NEW o \in Objects, Construct(t, o) \/ FirstDefault(t, o) \/ EnterGuard(t, o)
      PROVE  call'[t] = call[t] /\ At(t, "idle")
  BY <1>2 DEF Construct, FirstDefault, EnterGuard
<1>3. ASSUME NEW o \in Objects, NEW from \in Objects, MoveConstruct(t, o, from)
      PROVE  call'[t] = call[t] /\ At(t, "idle")
  BY <1>3 DEF MoveConstruct
<1>4. ASSUME LeaveGuard(t) PROVE call'[t] = call[t] /\ At(t, "idle")
  BY <1>4 DEF LeaveGuard
<1>5. ASSUME CreateThrows(t) \/ Run(t) \/ DestroyRaw(t) \/ MoveAssignTake(t) PROVE call'[t] = Idle
  BY <1>5, <1>1 DEF CreateThrows, Run, DestroyRaw, MoveAssignTake
<1>6. ASSUME Look(t) \/ Create(t)
      PROVE  /\ Caller(t)' /\ Caller(t) /\ call'[t].o = call[t].o
             /\ UNCHANGED <<handle_, lazy_stream>>
  BY <1>6, <1>1 DEF Look, Create, Caller, CallPlaces, At, Doing
<1>7. ASSUME NEW o \in Objects, HandlesFor(t, o) PROVE call'[t] = Doing("found", o)
  BY <1>7, <1>1 DEF HandlesFor
<1>8. ASSUME NEW o \in Objects, handle_[o] \in Keys, Destroy(t, o)
      PROVE  \/ call'[t] = call[t]
             \/ handle_[o] \in Raws /\ call'[t] = Doing("destroy", o)
  BY <1>8, <1>1 DEF Destroy, Keys
<1>9. ASSUME NEW o \in Objects, DestroyObject(t, o)
      PROVE  \/ call'[t] = call[t] /\ At(t, "idle")
             \/ handle_[o] \in Raws /\ Users(o) = {} /\ call'[t] = Doing("destroy", o)
  BY <1>9, <1>8, KeyTyped DEF DestroyObject, Own, StreamInv
<1>10. ASSUME ThreadExits(t)
       PROVE  \/ call'[t] = call[t] /\ At(t, "idle")
              \/ /\ lazy_stream[t] \in Objects
                 /\ handle_[lazy_stream[t]] \in Raws /\ Users(lazy_stream[t]) = {}
                 /\ call'[t] = Doing("destroy", lazy_stream[t])
  BY <1>10, <1>8, LazyOwn DEF ThreadExits
<1>11. CASE \E o \in Objects : \/ Construct(t, o) \/ FirstDefault(t, o) \/ EnterGuard(t, o)
                               \/ \E from \in Objects : MoveConstruct(t, o, from)
  BY <1>11, <1>2, <1>3
<1>12. CASE \E o \in Objects : HandlesFor(t, o)
  BY <1>12, <1>7
<1>13. CASE \E o \in Objects : DestroyObject(t, o)
  <2>1. PICK o \in Objects : DestroyObject(t, o)
    BY <1>13
  <2>2. \/ call'[t] = call[t] /\ At(t, "idle")
        \/ handle_[o] \in Raws /\ Users(o) = {} /\ call'[t] = Doing("destroy", o)
    BY <2>1, <1>9
  <2> QED  BY <2>1, <2>2
<1>14. CASE \E o, from \in Objects : MoveAssign(t, o, from)
  BY <1>14
<1>15. CASE ThreadExits(t)
  BY <1>15, <1>10 DEF ThreadExits
<1>16. CASE \/ LeaveGuard(t) \/ CreateThrows(t) \/ Run(t) \/ DestroyRaw(t) \/ MoveAssignTake(t)
            \/ MoveAssignDestroy(t)
  BY <1>16, <1>4, <1>5
<1>17. CASE Look(t) \/ Create(t)
  BY <1>17, <1>6
<1> QED
  BY <1>11, <1>12, <1>13, <1>14, <1>15, <1>16, <1>17 DEF Step

-----------------------------------------------------------------------------
LEMMA CallsKeepStep ==
    ASSUME StreamInv, NEW t \in Threads, Step(t)
    PROVE  CallsKeep'
<1> SUFFICES ASSUME NEW u \in Threads, Caller(u)'
             PROVE  /\ handle_'[call'[u].o] # None
                    /\ call'[u].o \in Lazies' => call'[u].o = lazy_stream'[u]
  BY DEF CallsKeep
<1> USE DEF streams, defaults, context
<1>1. CASE u # t
  <2>1. call'[u] = call[u] /\ Caller(u)
    BY <1>1, Undisturbed DEF Caller
  <2>2. call[u].o \in Uses(u)
    BY <2>1 DEF Caller, CallPlaces, Uses, At
  <2>3. handle_'[call[u].o] = handle_[call[u].o] /\ handle_[call[u].o] # None /\ call[u].o \in Objects
    BY <1>1, <2>2, UsesThere, Undisturbed, NullAssumption DEF Keys
  <2>4. call[u].o \in Lazies => call[u].o = lazy_stream[u]
    BY <2>1 DEF StreamInv, CallsKeep
  <2> QED  BY <1>1, <2>1, <2>3, <2>4, LazyStep
<1>2. CASE u = t
  <2>1. ~(call'[t] = call[t] /\ At(t, "idle")) /\ call'[t] # Idle
    BY <1>2 DEF Caller, CallPlaces, At, Idle
  <2>2. CASE /\ Caller(t)' /\ Caller(t) /\ call'[t].o = call[t].o
             /\ UNCHANGED <<handle_, lazy_stream>>
    BY <2>2, <1>2 DEF StreamInv, CallsKeep, Lazies
  <2>3. ASSUME NEW o \in Objects, HandlesFor(t, o), call'[t] = Doing("found", o)
        PROVE  handle_'[o] # None /\ (o \in Lazies' => o = lazy_stream'[t])
    <3>1. UNCHANGED <<handle_, lazy_stream>> /\ handle_[o] # None /\ o # None
      BY <2>3 DEF HandlesFor
    <3>2. ASSUME o = current[t] PROVE o \notin Lazies
      BY <3>2 DEF StreamInv, GuardsLent, Guarded, Lent
    <3>3. o \in Lazies => o = lazy_stream[t]
      BY <2>3, <3>2 DEF HandlesFor, DefaultStream
    <3> QED  BY <3>1, <3>3 DEF Lazies
  <2>4. \A o \in Objects : call'[t] # Doing("destroy", o)
    BY <1>2 DEF Doing, Caller, CallPlaces
  <2>5. ASSUME NEW o \in Objects, NEW from \in Objects, MoveAssign(t, o, from) PROVE FALSE
    <3>1. call'[t].at \in Assigns
      BY <2>5, CallStep DEF MoveAssign, Assigning, Assigns, StreamInv
    <3> QED  BY <3>1, <1>2 DEF Caller, CallPlaces, Assigns
  <2>6. ~MoveAssignDestroy(t)
    <3>1. MoveAssignDestroy(t) => call'[t].at = "assign_take"
      BY CallStep DEF MoveAssignDestroy, Assigning, StreamInv
    <3> QED  BY <3>1, <1>2 DEF Caller, CallPlaces
  <2>7. CASE \E o \in Objects : HandlesFor(t, o) /\ call'[t] = Doing("found", o)
    BY <1>2, <2>7, <2>3 DEF Doing
  <2> QED  BY <2>1, <2>2, <2>7, <2>4, <2>5, <2>6, CallAfter
<1> QED  BY <1>1, <1>2

-----------------------------------------------------------------------------
\* Who uses a stream after a step of t: whoever did, and perhaps t.
LEMMA UsersStep ==
    ASSUME StreamInv, NEW t \in Threads, Step(t), NEW o \in Objects
    PROVE  /\ Users(o)' \subseteq Users(o) \cup {t}
           /\ Users(o) \subseteq Users(o)' \cup {t}
           /\ t \in Users(o)' <=> o \in Uses(t)'
BY Undisturbed DEF Users

\* A thread gets to use a stream that is its alone, or only called on.
LEMMA UsesAfter ==
    ASSUME StreamInv, NEW t \in Threads, Step(t), NEW o \in Objects, o \in Uses(t)'
    PROVE  \/ o \in Uses(t)
           \/ Users(o) = {}
           \/ Users(o) \subseteq {u \in Threads : Caller(u)}
<1>1. CASE call'[t] = call[t] \/ call'[t] = Idle
  BY <1>1 DEF Uses, At, Idle
<1>2. CASE Caller(t)' /\ Caller(t) /\ call'[t].o = call[t].o
  BY <1>2 DEF Uses, At, Caller, CallPlaces
<1>3. ASSUME NEW p \in Objects, HandlesFor(t, p), call'[t] = Doing("found", p) PROVE o = p
  BY <1>3 DEF Uses, At, Doing
<1>4. ASSUME NEW p \in Objects, call'[t] = Doing("destroy", p) PROVE o = p
  BY <1>4 DEF Uses, At, Doing
<1>5. ASSUME NEW p \in Objects, NEW from \in Objects, MoveAssign(t, p, from)
      PROVE  o \in {p, from} /\ Users(p) = {} /\ Users(from) = {}
  <2>1. call'[t] = Assigning("assign_take", p, from) \/ call'[t] = Assigning("assign_destroy", p, from)
    BY <1>5, CallStep DEF MoveAssign, StreamInv
  <2> QED  BY <1>5, <2>1 DEF Uses, At, Assigning, MoveAssign, Own
<1>6. ASSUME MoveAssignDestroy(t) PROVE o \in Uses(t)
  <2>1. call'[t] = Assigning("assign_take", call[t].o, call[t].from)
    BY <1>6, CallStep DEF MoveAssignDestroy, StreamInv
  <2> QED  BY <1>6, <2>1 DEF Uses, At, Assigning, MoveAssignDestroy
<1>7. CASE \E p \in Objects : HandlesFor(t, p) /\ call'[t] = Doing("found", p)
  BY <1>7, <1>3 DEF HandlesFor, Caller
<1>8. CASE \E p \in Objects : Users(p) = {} /\ call'[t] = Doing("destroy", p)
  BY <1>8, <1>4
<1>9. CASE \E p, from \in Objects : MoveAssign(t, p, from)
  BY <1>9, <1>5
<1>10. CASE MoveAssignDestroy(t)
  BY <1>10, <1>6
<1> QED  BY <1>1, <1>2, <1>7, <1>8, <1>9, <1>10, CallAfter

\* What is asked of a thread that ends a stream.
EndsWell(u) ==
    /\ \A o \in Uses(u) : Users(o) = {u} /\ o \notin Lazies /\ handle_[o] # None
    /\ At(u, "assign_take") => handle_[call[u].o] = NullStream
    /\ ~At(u, "assign_take") => handle_[call[u].o] \in Raws
    /\ ~At(u, "destroy") => call[u].from # call[u].o

LEMMA EndsAloneStep ==
    ASSUME StreamInv, NEW t \in Threads, Step(t)
    PROVE  EndsAlone'
<1> SUFFICES ASSUME NEW u \in Threads, call'[u].at \in Ending PROVE EndsWell(u)'
  BY DEF EndsAlone, EndsWell
<1> USE DEF streams, defaults, context
<1>1. CASE u # t
  <2>1. /\ call'[u] = call[u] /\ Uses(u)' = Uses(u) /\ call[u].at \in Ending
        /\ \A o \in Uses(u) : handle_'[o] = handle_[o] /\ o \in Objects
    BY <1>1, Undisturbed, UsesThere
  <2>2. EndsWell(u)
    BY <2>1 DEF StreamInv, EndsAlone, EndsWell
  <2>3. call[u].o \in Uses(u)
    BY <2>1 DEF Uses, At, Ending
  <2>4. ASSUME NEW o \in Uses(u) PROVE Users(o)' = {u}
    <3>1. Users(o) = {u} /\ o \in Objects
      BY <2>1, <2>2 DEF EndsWell
    <3>2. o \notin Uses(t) /\ Users(o) # {} /\ ~Caller(u)
      BY <1>1, <2>1, <3>1 DEF Users, Caller, CallPlaces, Ending
    <3>3. o \notin Uses(t)'
      BY <3>1, <3>2, UsesAfter
    <3> QED  BY <1>1, <3>1, <3>3, UsersStep
  <2>5. \A o \in Uses(u) : o \notin Lazies'
    BY <2>1, <2>2, LazyStep DEF EndsWell
  <2> QED  BY <2>1, <2>2, <2>3, <2>4, <2>5 DEF EndsWell, At
<1>2. CASE u = t
  <2>1. ~(call'[t] = call[t] /\ At(t, "idle")) /\ call'[t] # Idle
    BY <1>2 DEF Ending, At, Idle
  <2>2. ~Caller(t)' /\ \A o \in Objects : call'[t] # Doing("found", o)
    BY <1>2 DEF Caller, CallPlaces, Ending, Doing
  <2>3. ASSUME NEW o \in Objects, handle_[o] \in Raws, Users(o) = {}, call'[t] = Doing("destroy", o),
               DestroyObject(t, o) \/ (ThreadExits(t) /\ o = lazy_stream[t])
        PROVE  EndsWell(t)'
    <3>1. Uses(t)' = {o}
      BY <2>3 DEF Uses, At, Doing
    <3>2. Users(o)' = {t}
      BY <2>3, <3>1, UsersStep
    <3>3. handle_' = handle_
      BY <2>3, NullAssumption DEF DestroyObject, ThreadExits, Destroy
    <3>4. o \notin Lazies'
      <4>1. CASE DestroyObject(t, o)
        BY <4>1 DEF DestroyObject, Own, Lazies
      <4>2. CASE ThreadExits(t) /\ o = lazy_stream[t]
        <5>1. lazy_stream' = [lazy_stream EXCEPT ![t] = None] /\ o # None
          BY <4>2 DEF ThreadExits
        <5>2. \A v \in Threads : lazy_stream'[v] # o
          BY <4>2, <5>1 DEF StreamInv, OwnDefault, Typed
        <5> QED  BY <5>2 DEF Lazies
      <4> QED  BY <2>3, <4>1, <4>2
    <3> QED  BY <2>3, <3>1, <3>2, <3>3, <3>4, NullAssumption DEF EndsWell, At, Doing
  <2>4. ASSUME NEW o \in Objects, NEW from \in Objects, MoveAssign(t, o, from)
        PROVE  EndsWell(t)'
    <3>1. /\ handle_' = handle_ /\ Lazies' = Lazies /\ o # from
          /\ Own(o) /\ Own(from) /\ handle_[o] \in Keys
      BY <2>4, KeyTyped DEF MoveAssign, Lazies, Own, StreamInv
    <3>2. IF handle_[o] = NullStream THEN call'[t] = Assigning("assign_take", o, from)
                                     ELSE call'[t] = Assigning("assign_destroy", o, from)
      BY <2>4, CallStep DEF MoveAssign, StreamInv
    <3>3. Uses(t)' = {o, from} /\ call'[t].o = o /\ call'[t].from = from
      BY <3>2 DEF Uses, At, Assigning
    <3>4. Users(o)' = {t} /\ Users(from)' = {t}
      BY <3>1, <3>3, UsersStep DEF Own
    <3>5. IF At(t, "assign_take")' THEN handle_[o] = NullStream ELSE handle_[o] \in Raws
      BY <3>1, <3>2 DEF At, Assigning, Keys
    <3> QED  BY <3>1, <3>3, <3>4, <3>5 DEF EndsWell, Own, At
  <2>5. ASSUME MoveAssignDestroy(t) PROVE EndsWell(t)'
    <3>1. /\ call'[t] = Assigning("assign_take", call[t].o, call[t].from)
          /\ Lazies' = Lazies
      BY <2>5, CallStep DEF MoveAssignDestroy, StreamInv, Lazies
    <3>2. EndsWell(t) /\ call[t].at = "assign_destroy" /\ call[t].o \in Objects /\ call[t].from \in Objects
      BY <2>5, CallTyped DEF MoveAssignDestroy, At, StreamInv, EndsAlone, EndsWell, Ending, Assigns
    <3>3. Uses(t) = {call[t].o, call[t].from} /\ Uses(t)' = Uses(t)
      BY <3>1, <3>2 DEF Uses, At, Assigning
    <3>4. \A o \in Uses(t) : Users(o)' = {t}
      BY <3>2, <3>3, UsersStep DEF EndsWell
    <3>5. handle_'[call[t].o] = NullStream /\ handle_'[call[t].from] = handle_[call[t].from]
      BY <2>5, <3>2 DEF MoveAssignDestroy, StreamInv, Typed, EndsWell, At
    <3> QED  BY <3>1, <3>2, <3>3, <3>4, <3>5, NullAssumption DEF EndsWell, At, Assigning
  <2> QED  BY <1>2, <2>1, <2>2, <2>3, <2>4, <2>5, CallAfter
<1> QED  BY <1>1, <1>2

-----------------------------------------------------------------------------
\* A step changes which streams are overrides, or the streams themselves.
LEMMA GuardedStep ==
    ASSUME StreamInv, NEW t \in Threads, Step(t), NEW o \in Objects, Guarded(o)'
    PROVE  \/ /\ Guarded(o)
              /\ UNCHANGED <<current, guards>>
           \/ /\ Guarded(o) \/ EnterGuard(t, o)
              /\ UNCHANGED <<handle_, lazy_stream, call>>
<1> USE DEF streams, defaults, context
<1>1. CASE UNCHANGED <<current, guards>>
  BY <1>1 DEF Guarded
<1>2. ASSUME \A u \in Threads \ {t} : guards'[u] = guards[u] /\ current'[u] = current[u],
             current'[t] = o => Guarded(o),
             \A i \in DOMAIN guards'[t] : guards'[t][i] = o => Guarded(o)
      PROVE  Guarded(o)
  <2>1. PICK u \in Threads : current'[u] = o \/ \E i \in DOMAIN guards'[u] : guards'[u][i] = o
    BY DEF Guarded
  <2>2. CASE u = t
    BY <2>1, <2>2, <1>2
  <2>3. CASE u # t
    BY <2>1, <2>3, <1>2 DEF Guarded
  <2> QED  BY <2>2, <2>3
<1>3. guards[t] \in Seq(Objects \cup {None}) /\ Len(guards[t]) \in Nat
  BY DEF StreamInv, Typed
<1>4. ASSUME NEW p \in Objects, EnterGuard(t, p), p # o PROVE Guarded(o)
  <2>1. PICK g : g = Append(guards[t], current[t])
    OBVIOUS
  <2>2. \A i \in DOMAIN g : IF i \in DOMAIN guards[t] THEN g[i] = guards[t][i] ELSE g[i] = current[t]
    BY <1>3, <2>1
  <2>3. \A i \in DOMAIN g : g[i] = o => Guarded(o)
    BY <2>2 DEF Guarded
  <2>4. /\ guards'[t] = g /\ current'[t] = p
        /\ \A u \in Threads \ {t} : guards'[u] = guards[u] /\ current'[u] = current[u]
    BY <1>4, <2>1 DEF EnterGuard, StreamInv, Typed
  <2> QED  BY <1>2, <1>4, <2>3, <2>4
<1>5. ASSUME LeaveGuard(t) PROVE Guarded(o)
  <2>1. Len(guards[t]) \in Nat \ {0}
    BY <1>3, <1>5, EmptySeq DEF LeaveGuard
  <2>2. PICK n \in Nat \ {0} : n = Len(guards[t])
    BY <2>1
  <2>3. PICK g : g = SubSeq(guards[t], 1, n - 1)
    OBVIOUS
  <2>4. DOMAIN g = 1..n - 1 /\ \A i \in 1..n - 1 : g[i] = guards[t][i]
    BY <1>3, <2>2, <2>3
  <2>5. DOMAIN guards[t] = 1..n
    BY <1>3, <2>2, LenProperties
  <2>6. n \in DOMAIN guards[t] /\ \A i \in DOMAIN g : i \in DOMAIN guards[t]
    <3>1. n \in Nat \ {0}
      BY <2>2
    <3> QED  BY <3>1, <2>4, <2>5
  <2>7. PICK c : c = guards[t][n]
    OBVIOUS
  <2>8. c = o => Guarded(o)
    BY <2>6, <2>7 DEF Guarded
  <2>9. \A i \in DOMAIN g : g[i] = o => Guarded(o)
    BY <2>4, <2>6 DEF Guarded
  <2>10. /\ guards'[t] = g /\ current'[t] = c
         /\ \A u \in Threads \ {t} : guards'[u] = guards[u] /\ current'[u] = current[u]
    BY <1>5, <2>2, <2>3, <2>7 DEF LeaveGuard, StreamInv, Typed
  <2> QED  BY <1>2, <2>8, <2>9, <2>10
<1>6. ASSUME NEW p \in Objects, EnterGuard(t, p)
      PROVE  UNCHANGED <<handle_, lazy_stream, call>> /\ (Guarded(o) \/ EnterGuard(t, o))
  BY <1>4, <1>6 DEF EnterGuard
<1>7. ASSUME LeaveGuard(t) PROVE UNCHANGED <<handle_, lazy_stream, call>>
  BY <1>7 DEF LeaveGuard
<1>8. CASE \E p \in Objects : EnterGuard(t, p)
  BY <1>8, <1>6
<1>9. CASE LeaveGuard(t)
  BY <1>9, <1>5, <1>7
<1> QED
  BY <1>1, <1>8, <1>9
     DEF Step, Construct, FirstDefault, HandlesFor, DestroyObject, MoveConstruct, MoveAssign,
         Look, Create, CreateThrows, Run, DestroyRaw, ThreadExits, MoveAssignDestroy, MoveAssignTake

\* The object of an override is not done away with.
LEMMA LentStep ==
    ASSUME StreamInv, NEW t \in Threads, Step(t), NEW o \in Objects, Guarded(o)
    PROVE  Lent(o)'
<1> USE DEF streams, defaults, context
<1>1. Lent(o)
  BY DEF StreamInv, GuardsLent
<1>2. o \notin Lazies'
  BY <1>1, LazyStep DEF Lent
<1>3. handle_'[o] # None
  <2>1. ASSUME UNCHANGED handle_ PROVE handle_'[o] # None
    BY <2>1, <1>1 DEF Lent
  <2>2. ASSUME NEW p \in Objects, NEW h, h # None \/ p # o, handle_' = [handle_ EXCEPT ![p] = h]
        PROVE  handle_'[o] # None
    BY <2>2, <1>1 DEF Lent, StreamInv, Typed
  <2>3. ASSUME NEW p \in Objects, NEW from \in Objects, handle_[from] # None, handle_' = Moved(p, from)
        PROVE  handle_'[o] # None
    BY <2>3, <1>1, NullAssumption DEF Moved, Lent, StreamInv, Typed
  <2>4. ASSUME NEW p \in Objects, CreateRaw(p) PROVE handle_'[o] # None
    BY <2>4, <2>2, NullAssumption DEF CreateRaw
  <2>5. ASSUME NEW p \in Objects, p # o, Destroy(t, p) PROVE handle_'[o] # None
    BY <2>5, <2>1, <2>2 DEF Destroy
  <2>6. ASSUME NEW p \in Objects, Construct(t, p) \/ FirstDefault(t, p) \/ DestroyObject(t, p)
        PROVE  handle_'[o] # None
    BY <2>6, <2>4, <2>5 DEF Construct, FirstDefault, DestroyObject
  <2>7. ASSUME NEW p \in Objects, NEW from \in Objects,
               MoveConstruct(t, p, from) \/ MoveAssign(t, p, from)
        PROVE  handle_'[o] # None
    BY <2>7, <2>1, <2>3 DEF MoveConstruct, MoveAssign, Own
  <2>8. ASSUME DestroyRaw(t) PROVE handle_'[o] # None
    <3>1. call[t].o \in Objects /\ call[t].o # o
      BY <2>8, <1>1, CallTyped DEF DestroyRaw, At, Lent, StreamInv
    <3> QED  BY <2>8, <3>1, <2>2 DEF DestroyRaw
  <2>9. ASSUME MoveAssignDestroy(t) PROVE handle_'[o] # None
    <3>1. call[t].o \in Objects
      BY <2>9, CallTyped DEF MoveAssignDestroy, At, StreamInv
    <3> QED  BY <2>9, <3>1, <2>2, NullAssumption DEF MoveAssignDestroy
  <2>10. ASSUME MoveAssignTake(t) PROVE handle_'[o] # None
    <3>1. call[t].o \in Objects /\ call[t].from \in Objects /\ handle_[call[t].from] # None
      BY <2>10, CallTyped DEF MoveAssignTake, At, StreamInv, EndsAlone, Ending, Assigns, Uses
    <3> QED  BY <2>10, <3>1, <2>3 DEF MoveAssignTake
  <2>11. ASSUME ThreadExits(t) PROVE handle_'[o] # None
    BY <2>11, <2>5, LazyOwn DEF ThreadExits
  <2> QED
    BY <2>1, <2>6, <2>7, <2>8, <2>9, <2>10, <2>11
       DEF Step, EnterGuard, HandlesFor, LeaveGuard, Look, Create, CreateThrows, Run
<1>4. ASSUME NEW u \in Threads, At(u, "destroy")' PROVE call'[u].o # o
  <2>1. CASE u # t
    BY <1>1, <1>4, <2>1, Undisturbed DEF At, Lent
  <2>2. CASE u = t
    <3>1. ASSUME NEW p \in Objects, call'[t] = Doing("destroy", p),
                 DestroyObject(t, p) \/ (ThreadExits(t) /\ p = lazy_stream[t])
          PROVE  p # o
      BY <3>1, LazyOwn DEF DestroyObject, ThreadExits
    <3>2. ASSUME NEW p \in Objects, NEW from \in Objects, MoveAssign(t, p, from)
          PROVE  ~At(t, "destroy")'
      BY <3>2, CallStep DEF MoveAssign, Assigning, At, StreamInv
    <3>3. MoveAssignDestroy(t) => ~At(t, "destroy")'
      BY CallStep DEF MoveAssignDestroy, Assigning, At, StreamInv
    <3>4. /\ ~(call'[t] = call[t] /\ At(t, "idle")) /\ call'[t] # Idle /\ ~Caller(t)'
          /\ \A p \in Objects : call'[t] # Doing("found", p)
      BY <1>4, <2>2 DEF At, Idle, Caller, CallPlaces, Doing
    <3>5. PICK p \in Objects : /\ call'[t] = Doing("destroy", p)
                               /\ DestroyObject(t, p) \/ (ThreadExits(t) /\ p = lazy_stream[t])
      BY <1>4, <2>2, <3>2, <3>3, <3>4, CallAfter
    <3> QED  BY <3>1, <3>5, <2>2 DEF Doing
  <2> QED  BY <2>1, <2>2
<1> QED  BY <1>2, <1>3, <1>4 DEF Lent

LEMMA GuardsLentStep ==
    ASSUME StreamInv, NEW t \in Threads, Step(t)
    PROVE  GuardsLent'
<1> SUFFICES ASSUME NEW o \in Objects, Guarded(o)' PROVE Lent(o)'
  BY DEF GuardsLent
<1>1. CASE Guarded(o)
  BY <1>1, LentStep
<1>2. CASE EnterGuard(t, o)
  <2>1. Lent(o)
    BY <1>2, NullAssumption DEF EnterGuard, Lent, Users, Uses, At, CallPlaces
  <2>2. UNCHANGED <<handle_, lazy_stream, call>>
    BY <1>2 DEF EnterGuard, streams, context
  <2> QED  BY <2>1, <2>2 DEF Lent, Lazies, At
<1> QED  BY <1>1, <1>2, GuardedStep

-----------------------------------------------------------------------------
\* Nobody is at the entry of a raw stream whose object nobody uses.
LEMMA ResetSafe ==
    ASSUME StreamInv, NEW o \in Objects, handle_[o] \in Raws, Users(o) = {}
    PROVE  AtEntry(handle_[o]) = {}
<1> SUFFICES ASSUME NEW u \in Threads, Caller(u), Key(u) = handle_[o] PROVE FALSE
  BY DEF AtEntry, Caller
<1>1. call[u].o \in Uses(u) /\ call[u].o \in Objects
  BY CallTyped DEF Caller, CallPlaces, Uses, At, StreamInv
<1>2. call[u].o = o
  BY <1>1, OneObject DEF Key
<1> QED  BY <1>1, <1>2 DEF Users

\* The clauses of Entries, named.
EntryLive == \A r \in Raws : table[r] # NoEntry => r \in live
Erased(u) == table[handle_[call[u].o]] = NoEntry
Found(u) == table[Key(u)] # NoEntry

\* A thread that is at an entry, or has erased one, in the next state too.
LEMMA OthersKeep ==
    ASSUME StreamInv, NEW t \in Threads, Step(t), NEW u \in Threads, u # t
    PROVE  /\ Caller(u)' <=> Caller(u)
           /\ Caller(u) => Key(u)' = Key(u) /\ Key(u) \in Keys
           /\ call[u].at \in Ending =>
                 /\ handle_'[call[u].o] = handle_[call[u].o]
                 /\ \A o \in Uses(t) : o # call[u].o
<1>1. call'[u] = call[u]
  BY Undisturbed
<1>2. ASSUME call[u].at \in CallPlaces \cup Ending
      PROVE  /\ handle_'[call[u].o] = handle_[call[u].o]
             /\ call[u].o \in Uses(u) /\ handle_[call[u].o] \in Keys
  <2>1. call[u].o \in Uses(u)
    BY <1>2 DEF Uses, At, CallPlaces, Ending
  <2> QED  BY <2>1, Undisturbed, UsesThere
<1>3. ASSUME call[u].at \in Ending, NEW o \in Uses(t) PROVE o # call[u].o
  BY <1>2, <1>3 DEF StreamInv, EndsAlone, Users
<1> QED  BY <1>1, <1>2, <1>3 DEF Caller, Key

\* Entries for raw streams only: those of a step that leaves streams alone.
LEMMA EntriesStep ==
    ASSUME StreamInv, NEW t \in Threads, Step(t)
    PROVE  Entries'
<1> USE DEF streams, defaults, context
<1> DEFINE Erasing(u) == call[u].at \in {"destroy", "assign_destroy"}
<1>0. /\ EntryLive /\ dangling = {}
      /\ \A u \in Threads : Erasing(u) => Erased(u)
      /\ \A u \in Threads : Caller(u) => Found(u)
  BY DEF StreamInv, Entries, EntryLive, Erased, Found
<1>a. \A u \in Threads \ {t} :
         /\ Caller(u)' <=> Caller(u)
         /\ Caller(u) => Key(u)' = Key(u)
         /\ Erasing(u)' <=> Erasing(u)
         /\ Erasing(u) => handle_'[call'[u].o] = handle_[call[u].o]
  BY OthersKeep, Undisturbed DEF Ending
<1> SUFFICES /\ EntryLive' /\ dangling' = {}
             /\ \A u \in Threads : Erasing(u)' => Erased(u)'
             /\ \A u \in Threads : Caller(u)' => Found(u)'
  BY DEF Entries, EntryLive, Erased, Found
<1> HIDE DEF Erasing
<1>b. ASSUME UNCHANGED table
      PROVE  /\ \A u \in Threads \ {t} : Erasing(u)' => Erased(u)'
             /\ \A u \in Threads \ {t} : Caller(u)' => Found(u)'
  BY <1>0, <1>a, <1>b DEF Erased, Found
<1>c. call'[t] = Idle \/ (At(t, "idle") /\ call'[t] = call[t]) => ~Erasing(t)' /\ ~Caller(t)'
  BY DEF Erasing, Caller, CallPlaces, At, Idle
<1>1. ASSUME NEW o \in Objects, Construct(t, o) \/ FirstDefault(t, o)
      PROVE  /\ EntryLive' /\ dangling' = {}
             /\ \A u \in Threads : Erasing(u)' => Erased(u)'
             /\ \A u \in Threads : Caller(u)' => Found(u)'
  <2>1. /\ UNCHANGED <<table, dangling>> /\ live \subseteq live'
        /\ At(t, "idle") /\ call'[t] = call[t]
    BY <1>1 DEF Construct, FirstDefault, CreateRaw
  <2> QED  BY <1>0, <1>b, <1>c, <2>1 DEF EntryLive
<1>2. ASSUME UNCHANGED <<table, dangling, live>>, call'[t] = Idle \/ (At(t, "idle") /\ call'[t] = call[t])
      PROVE  /\ EntryLive' /\ dangling' = {}
             /\ \A u \in Threads : Erasing(u)' => Erased(u)'
             /\ \A u \in Threads : Caller(u)' => Found(u)'
  BY <1>0, <1>b, <1>c, <1>2 DEF EntryLive
<1>3. ASSUME NEW o \in Objects, NEW from \in Objects, EnterGuard(t, o) \/ MoveConstruct(t, o, from)
      PROVE  UNCHANGED <<table, dangling, live>> /\ At(t, "idle") /\ call'[t] = call[t]
  BY <1>3 DEF EnterGuard, MoveConstruct
<1>4. ASSUME LeaveGuard(t)
      PROVE  UNCHANGED <<table, dangling, live>> /\ At(t, "idle") /\ call'[t] = call[t]
  BY <1>4 DEF LeaveGuard
<1>5. ASSUME CreateThrows(t) \/ Run(t) \/ MoveAssignTake(t)
      PROVE  UNCHANGED <<table, dangling, live>> /\ call'[t] = Idle
  BY <1>5, CallStep DEF CreateThrows, Run, MoveAssignTake, StreamInv
<1>6. ASSUME NEW o \in Objects, HandlesFor(t, o)
      PROVE  /\ EntryLive' /\ dangling' = {}
             /\ \A u \in Threads : Erasing(u)' => Erased(u)'
             /\ \A u \in Threads : Caller(u)' => Found(u)'
  <2>1. /\ UNCHANGED <<handle_, live, dangling>> /\ call'[t] = Doing("found", o)
        /\ handle_[o] \in Keys
        /\ table' = [table EXCEPT ![handle_[o]] = IF @ = NoEntry THEN None ELSE @]
    BY <1>6, CallStep, KeyTyped DEF HandlesFor, StreamInv
  <2>2. /\ table'[handle_[o]] # NoEntry
        /\ \A r \in Keys \ {handle_[o]} : table'[r] = table[r]
        /\ \A r \in Keys : table[r] # NoEntry => table'[r] # NoEntry
    BY <2>1, NullAssumption DEF StreamInv, Typed
  <2>3. EntryLive'
    BY <1>0, <2>1, <2>2 DEF EntryLive, StreamInv, OneOwner, Keys
  <2>4. ~Erasing(t)' /\ Found(t)'
    BY <2>1, <2>2 DEF Erasing, Doing, Found, Key
  <2>5. ASSUME NEW u \in Threads, u # t, Erasing(u)' PROVE Erased(u)'
    <3>1. Erasing(u) /\ call'[u] = call[u]
      BY <2>5, <1>a, Undisturbed
    <3>2. /\ handle_[call[u].o] \in Raws /\ call[u].o \in Objects
          /\ Users(call[u].o) = {u} /\ ~Caller(u)
      BY <3>1, CallTyped DEF Erasing, StreamInv, EndsAlone, Ending, At, Uses, Caller, CallPlaces
    <3>3. o # call[u].o
      BY <1>6, <3>2 DEF HandlesFor, Caller
    <3>4. handle_[o] # handle_[call[u].o]
      BY <3>2, <3>3, OneObject
    <3> QED  BY <1>0, <2>1, <2>2, <3>1, <3>2, <3>4 DEF Erased, Keys
  <2>6. ASSUME NEW u \in Threads, u # t, Caller(u)' PROVE Found(u)'
    BY <1>0, <1>a, <2>2, <2>6, OthersKeep DEF Found
  <2> QED  BY <2>1, <2>3, <2>4, <2>5, <2>6, <1>0
<1>7. ASSUME Look(t)
      PROVE  /\ EntryLive' /\ dangling' = {}
             /\ \A u \in Threads : Erasing(u)' => Erased(u)'
             /\ \A u \in Threads : Caller(u)' => Found(u)'
  <2>1. /\ UNCHANGED <<handle_, live, table, dangling>>
        /\ call'[t].o = call[t].o /\ Caller(t) /\ ~Erasing(t)'
    BY <1>7, CallStep DEF Look, Doing, StreamInv, At, Caller, CallPlaces, Erasing
  <2> QED  BY <1>0, <1>b, <2>1 DEF EntryLive, Found, Key
<1>8. ASSUME Create(t)
      PROVE  /\ EntryLive' /\ dangling' = {}
             /\ \A u \in Threads : Erasing(u)' => Erased(u)'
             /\ \A u \in Threads : Caller(u)' => Found(u)'
  <2>1. PICK h \in fresh : table' = [table EXCEPT ![Key(t)] = h]
    BY <1>8 DEF Create
  <2>2. /\ UNCHANGED <<handle_, live, dangling>>
        /\ call'[t] = Doing("bind", call[t].o) /\ Caller(t)
    BY <1>8, CallStep DEF Create, StreamInv, At, Caller, CallPlaces
  <2>3. call[t].o \in Objects /\ Key(t) \in Keys /\ t \in Users(call[t].o)
    BY <2>2, CallTyped, KeyTyped DEF Caller, CallPlaces, StreamInv, CallsKeep, Key, Users, Uses, At
  <2>4. /\ table'[Key(t)] # NoEntry
        /\ \A r \in Keys \ {Key(t)} : table'[r] = table[r]
        /\ \A r \in Keys : table[r] # NoEntry => table'[r] # NoEntry
    BY <2>1, <2>3, NullAssumption DEF StreamInv, Typed
  <2>5. EntryLive'
    BY <1>0, <2>2, <2>4 DEF EntryLive, Found, Keys
  <2>6. ~Erasing(t)' /\ Found(t)'
    BY <2>2, <2>4 DEF Erasing, Doing, Found, Key
  <2>7. ASSUME NEW u \in Threads, u # t, Erasing(u)' PROVE Erased(u)'
    <3>1. Erasing(u) /\ call'[u] = call[u]
      BY <2>7, <1>a, Undisturbed
    <3>2. /\ handle_[call[u].o] \in Raws /\ call[u].o \in Objects
          /\ Users(call[u].o) = {u}
      BY <3>1, CallTyped DEF Erasing, StreamInv, EndsAlone, Ending, At, Uses
    <3>3. Key(t) # handle_[call[u].o]
      BY <2>3, <2>7, <3>2, OneObject DEF Key
    <3> QED  BY <1>0, <2>2, <2>4, <3>1, <3>2, <3>3 DEF Erased, Keys
  <2>8. ASSUME NEW u \in Threads, u # t, Caller(u)' PROVE Found(u)'
    BY <1>0, <1>a, <2>4, <2>8, OthersKeep DEF Found
  <2> QED  BY <2>2, <2>5, <2>6, <2>7, <2>8, <1>0
<1>9. ASSUME NEW o \in Objects, handle_[o] \in Raws, Users(o) = {}, Reset(handle_[o]),
             UNCHANGED <<handle_, live>>, Caller(t)' => FALSE, Erasing(t)' => call'[t].o = o
      PROVE  /\ EntryLive' /\ dangling' = {}
             /\ \A u \in Threads : Erasing(u)' => Erased(u)'
             /\ \A u \in Threads : Caller(u)' => Found(u)'
  <2>1. /\ dangling' = {} /\ table' = [table EXCEPT ![handle_[o]] = NoEntry]
        /\ AtEntry(handle_[o]) = {}
    BY <1>0, <1>9, ResetSafe DEF Reset
  <2>2. /\ table'[handle_[o]] = NoEntry
        /\ \A r \in Keys \ {handle_[o]} : table'[r] = table[r]
        /\ \A r \in Keys : table[r] = NoEntry => table'[r] = NoEntry
    BY <2>1, <1>9 DEF StreamInv, Typed, Keys
  <2>3. EntryLive'
    BY <1>0, <1>9, <2>2 DEF EntryLive, Keys
  <2>4. ASSUME NEW u \in Threads, Erasing(u)' PROVE Erased(u)'
    <3>1. CASE u = t
      BY <1>9, <2>2, <2>4, <3>1 DEF Erased
    <3>2. CASE u # t
      <4>1. Erasing(u) /\ call'[u] = call[u]
        BY <2>4, <3>2, <1>a, Undisturbed
      <4>2. handle_[call[u].o] \in Keys
        BY <4>1 DEF Erasing, StreamInv, EndsAlone, Ending, At, Keys
      <4> QED  BY <1>0, <1>9, <2>2, <4>1, <4>2 DEF Erased
    <3> QED  BY <3>1, <3>2
  <2>5. ASSUME NEW u \in Threads, Caller(u)' PROVE Found(u)'
    <3>1. u # t /\ Caller(u) /\ Key(u)' = Key(u) /\ Key(u) \in Keys
      BY <1>9, <2>5, <1>a, OthersKeep
    <3>2. Key(u) # handle_[o]
      BY <2>1, <3>1 DEF AtEntry, Caller
    <3> QED  BY <1>0, <2>2, <3>1, <3>2 DEF Found
  <2> QED  BY <2>1, <2>3, <2>4, <2>5
<1>10. ASSUME NEW o \in Objects, handle_[o] \in Keys, Users(o) = {}, At(t, "idle"), Destroy(t, o)
       PROVE  /\ EntryLive' /\ dangling' = {}
              /\ \A u \in Threads : Erasing(u)' => Erased(u)'
              /\ \A u \in Threads : Caller(u)' => Found(u)'
  <2>1. CASE handle_[o] = NullStream
    BY <1>10, <1>2, <2>1 DEF Destroy
  <2>2. CASE handle_[o] # NullStream
    <3>1. call'[t] = Doing("destroy", o) /\ Reset(handle_[o]) /\ UNCHANGED <<handle_, live>>
      BY <1>10, <2>2, CallStep DEF Destroy, StreamInv
    <3>2. ~Caller(t)' /\ call'[t].o = o
      BY <3>1 DEF Caller, CallPlaces, Doing
    <3> QED  BY <1>9, <1>10, <2>2, <3>1, <3>2 DEF Keys
  <2> QED  BY <2>1, <2>2
<1>11. ASSUME NEW o \in Objects, DestroyObject(t, o)
       PROVE  handle_[o] \in Keys /\ Users(o) = {} /\ At(t, "idle") /\ Destroy(t, o)
  BY <1>11, KeyTyped DEF DestroyObject, Own, StreamInv
<1>12. ASSUME ThreadExits(t)
       PROVE  /\ lazy_stream[t] \in Objects /\ handle_[lazy_stream[t]] \in Keys
              /\ Users(lazy_stream[t]) = {} /\ At(t, "idle") /\ Destroy(t, lazy_stream[t])
  BY <1>12, LazyOwn DEF ThreadExits
<1>13. ASSUME NEW o \in Objects, NEW from \in Objects, MoveAssign(t, o, from)
       PROVE  /\ EntryLive' /\ dangling' = {}
              /\ \A u \in Threads : Erasing(u)' => Erased(u)'
              /\ \A u \in Threads : Caller(u)' => Found(u)'
  <2>1. handle_[o] \in Keys /\ Users(o) = {} /\ UNCHANGED <<handle_, live>>
    BY <1>13, KeyTyped DEF MoveAssign, Own, StreamInv
  <2>2. CASE handle_[o] = NullStream
    <3>1. UNCHANGED <<table, dangling>> /\ call'[t] = Assigning("assign_take", o, from)
      BY <1>13, <2>2, CallStep DEF MoveAssign, StreamInv
    <3>2. ~Caller(t)' /\ ~Erasing(t)'
      BY <3>1 DEF Caller, CallPlaces, Assigning, Erasing
    <3> QED  BY <1>0, <1>b, <2>1, <3>1, <3>2 DEF EntryLive
  <2>3. CASE handle_[o] # NullStream
    <3>1. Reset(handle_[o]) /\ call'[t] = Assigning("assign_destroy", o, from)
      BY <1>13, <2>3, CallStep DEF MoveAssign, StreamInv
    <3>2. ~Caller(t)' /\ call'[t].o = o
      BY <3>1 DEF Caller, CallPlaces, Assigning
    <3> QED  BY <1>9, <2>1, <2>3, <3>1, <3>2 DEF Keys
  <2> QED  BY <2>2, <2>3
<1>14. ASSUME DestroyRaw(t) \/ MoveAssignDestroy(t)
       PROVE  /\ EntryLive' /\ dangling' = {}
              /\ \A u \in Threads : Erasing(u)' => Erased(u)'
              /\ \A u \in Threads : Caller(u)' => Found(u)'
  <2>1. /\ UNCHANGED <<table, dangling>> /\ live' = live \ {handle_[call[t].o]}
        /\ ~Caller(t)' /\ ~Erasing(t)'
    BY <1>14, CallStep
       DEF DestroyRaw, MoveAssignDestroy, StreamInv, Idle, Assigning, Caller, CallPlaces, Erasing
  <2>2. table[handle_[call[t].o]] = NoEntry
    BY <1>0, <1>14 DEF DestroyRaw, MoveAssignDestroy, At, Erasing, Erased
  <2>3. EntryLive'
    BY <1>0, <2>1, <2>2 DEF EntryLive
  <2> QED  BY <1>0, <1>b, <2>1, <2>3
<1>15. CASE \E o \in Objects : Construct(t, o) \/ FirstDefault(t, o)
  BY <1>15, <1>1
<1>16. CASE \/ \E o \in Objects : EnterGuard(t, o)
            \/ \E o, from \in Objects : MoveConstruct(t, o, from)
            \/ LeaveGuard(t) \/ CreateThrows(t) \/ Run(t) \/ MoveAssignTake(t)
  BY <1>16, <1>2, <1>3, <1>4, <1>5
<1>17. CASE \E o \in Objects : HandlesFor(t, o)
  BY <1>17, <1>6
<1>18. CASE (\E o \in Objects : DestroyObject(t, o)) \/ ThreadExits(t)
  BY <1>18, <1>10, <1>11, <1>12
<1>19. CASE \E o, from \in Objects : MoveAssign(t, o, from)
  BY <1>19, <1>13
<1>20. CASE Look(t) \/ Create(t) \/ DestroyRaw(t) \/ MoveAssignDestroy(t)
  BY <1>20, <1>7, <1>8, <1>14
<1> QED
  BY <1>15, <1>16, <1>17, <1>18, <1>19, <1>20 DEF Step

-----------------------------------------------------------------------------
\* The clauses of Unraced, named.
NoCompany == \A t, u \in Threads : Caller(t) /\ Caller(u) /\ t # u => Key(t) # Key(u)
Unfilled == \A t \in Threads : At(t, "create") => table[Key(t)] = None
Kept == \A h \in handles : \E r \in Keys : table[r] = h

LEMMA UnracedStep ==
    ASSUME StreamInv, NEW t \in Threads, Step(t)
    PROVE  Unraced'
<1> SUFFICES ASSUME ~raced' PROVE NoCompany' /\ Unfilled' /\ Kept'
  BY DEF Unraced, NoCompany, Unfilled, Kept
<1> USE DEF streams, defaults, context
<1>0. ASSUME ~raced PROVE NoCompany /\ Unfilled /\ Kept
  BY <1>0 DEF StreamInv, Unraced, NoCompany, Unfilled, Kept
<1>a. \A u \in Threads \ {t} :
         /\ Caller(u)' <=> Caller(u)
         /\ Caller(u) => Key(u)' = Key(u) /\ Key(u) \in Keys
         /\ At(u, "create")' <=> At(u, "create")
  BY OthersKeep, Undisturbed DEF At
<1>b. \A u \in Threads : At(u, "create") => Caller(u)
  BY DEF At, Caller, CallPlaces
<1>c. \A h \in handles : h \in Handles /\ h # None /\ h # NoEntry
  BY NullAssumption DEF StreamInv, Typed
<1>d. \A h \in fresh : h \in Handles /\ h # None /\ h # NoEntry
  BY NullAssumption DEF StreamInv, Typed
<1>1. ASSUME UNCHANGED <<table, handles, raced>>,
             Caller(t)' => Caller(t) /\ Key(t)' = Key(t),
             At(t, "create")' => table[Key(t)'] = None
      PROVE  NoCompany' /\ Unfilled' /\ Kept'
  <2>1. NoCompany'
    BY <1>0, <1>1, <1>a DEF NoCompany
  <2>2. Unfilled'
    BY <1>0, <1>1, <1>a, <1>b DEF Unfilled
  <2>3. Kept'
    BY <1>0, <1>1 DEF Kept
  <2> QED  BY <2>1, <2>2, <2>3
<1>2. ASSUME call'[t] = Idle \/ (At(t, "idle") /\ call'[t] = call[t])
      PROVE  ~Caller(t)' /\ ~At(t, "create")'
  BY <1>2 DEF Caller, CallPlaces, At, Idle
<1>3. ASSUME NEW o \in Objects, NEW from \in Objects,
             \/ Construct(t, o) \/ FirstDefault(t, o)
             \/ EnterGuard(t, o) \/ MoveConstruct(t, o, from)
      PROVE  UNCHANGED <<table, handles, raced>> /\ At(t, "idle") /\ call'[t] = call[t]
  BY <1>3 DEF Construct, FirstDefault, EnterGuard, MoveConstruct
<1>4. ASSUME LeaveGuard(t)
      PROVE  UNCHANGED <<table, handles, raced>> /\ At(t, "idle") /\ call'[t] = call[t]
  BY <1>4 DEF LeaveGuard
<1>5. ASSUME CreateThrows(t) \/ Run(t) \/ MoveAssignTake(t) \/ DestroyRaw(t)
      PROVE  UNCHANGED <<table, handles, raced>> /\ call'[t] = Idle
  BY <1>5, CallStep DEF CreateThrows, Run, MoveAssignTake, DestroyRaw, StreamInv
<1>6. ASSUME MoveAssignDestroy(t)
      PROVE  UNCHANGED <<table, handles, raced>> /\ ~Caller(t)' /\ ~At(t, "create")'
  BY <1>6, CallStep DEF MoveAssignDestroy, Assigning, Caller, CallPlaces, At, StreamInv
<1>7. ASSUME Look(t) PROVE NoCompany' /\ Unfilled' /\ Kept'
  <2>1. /\ UNCHANGED <<table, handles, raced>> /\ Caller(t) /\ Key(t)' = Key(t)
        /\ call'[t].at = IF table[Key(t)] = None THEN "create" ELSE "bind"
    BY <1>7, CallStep DEF Look, Doing, Caller, CallPlaces, At, Key, StreamInv
  <2> QED  BY <1>1, <2>1 DEF At
<1>8. ASSUME NEW o \in Objects, HandlesFor(t, o) PROVE NoCompany' /\ Unfilled' /\ Kept'
  <2>1. /\ UNCHANGED <<handle_, handles>> /\ call'[t] = Doing("found", o)
        /\ handle_[o] \in Keys
        /\ table' = [table EXCEPT ![handle_[o]] = IF @ = NoEntry THEN None ELSE @]
        /\ ~raced /\ AtEntry(handle_[o]) = {}
    BY <1>8, CallStep, KeyTyped DEF HandlesFor, StreamInv
  <2>2. \A r \in Keys : table[r] # NoEntry => table'[r] = table[r]
    BY <2>1 DEF StreamInv, Typed
  <2>3. Key(t)' = handle_[o] /\ ~At(t, "create")'
    BY <2>1 DEF Key, Doing, At
  <2>4. \A u \in Threads : Caller(u) => Key(u) # handle_[o]
    BY <2>1 DEF AtEntry, Caller
  <2>5. NoCompany'
    BY <1>0, <1>a, <2>1, <2>3, <2>4 DEF NoCompany
  <2>6. Unfilled'
    <3>1. \A u \in Threads : At(u, "create")' => u # t /\ At(u, "create") /\ Caller(u)
      BY <1>a, <1>b, <2>3
    <3> QED  BY <3>1, <1>0, <1>a, <2>1, <2>2, NullAssumption DEF Unfilled
  <2>7. Kept'
    BY <1>0, <1>c, <2>1, <2>2 DEF Kept
  <2> QED  BY <2>5, <2>6, <2>7
<1>9. ASSUME Create(t) PROVE NoCompany' /\ Unfilled' /\ Kept'
  <2>1. PICK h \in fresh : /\ handles' = handles \cup {h}
                           /\ table' = [table EXCEPT ![Key(t)] = h]
    BY <1>9 DEF Create
  <2>2. /\ UNCHANGED <<handle_, raced>> /\ call'[t] = Doing("bind", call[t].o)
        /\ Caller(t) /\ At(t, "create")
    BY <1>9, CallStep DEF Create, StreamInv, At, Caller, CallPlaces
  <2>3. Key(t)' = Key(t) /\ ~At(t, "create")' /\ Key(t) \in Keys
    BY <2>2, CallTyped, KeyTyped DEF Key, Doing, At, Caller, StreamInv, CallsKeep
  <2>4. /\ table'[Key(t)] = h
        /\ \A r \in Keys \ {Key(t)} : table'[r] = table[r]
    BY <2>1, <2>3 DEF StreamInv, Typed
  <2>5. table[Key(t)] = None /\ \A u \in Threads \ {t} : Caller(u) => Key(u) # Key(t)
    BY <1>0, <2>2 DEF Unfilled, NoCompany
  <2>6. NoCompany'
    BY <1>0, <1>a, <2>2, <2>3 DEF NoCompany
  <2>7. Unfilled'
    <3>1. \A u \in Threads : At(u, "create")' => u # t /\ At(u, "create") /\ Caller(u)
      BY <1>a, <1>b, <2>3
    <3> QED  BY <3>1, <1>0, <1>a, <2>2, <2>4, <2>5 DEF Unfilled
  <2>8. Kept'
    <3>1. ASSUME NEW k \in handles PROVE \E r \in Keys : table'[r] = k
      <4>1. PICK r \in Keys : table[r] = k
        BY <1>0, <2>2, <3>1 DEF Kept
      <4> QED  BY <4>1, <1>c, <2>4, <2>5
    <3> QED  BY <3>1, <2>1, <2>3, <2>4 DEF Kept
  <2> QED  BY <2>6, <2>7, <2>8
<1>10. ASSUME NEW o \in Objects, handle_[o] \in Raws, Users(o) = {}, Reset(handle_[o]),
              ~Caller(t)', ~At(t, "create")'
       PROVE  NoCompany' /\ Unfilled' /\ Kept'
  <2>1. /\ table' = [table EXCEPT ![handle_[o]] = NoEntry]
        /\ handles' = handles \ {table[handle_[o]]}
        /\ AtEntry(handle_[o]) = {} /\ ~raced
    BY <1>10, ResetSafe DEF Reset
  <2>2. \A r \in Keys \ {handle_[o]} : table'[r] = table[r]
    BY <2>1 DEF StreamInv, Typed
  <2>3. \A u \in Threads : Caller(u) => Key(u) # handle_[o]
    BY <2>1 DEF AtEntry, Caller
  <2>4. NoCompany'
    BY <1>0, <1>a, <1>10, <2>1 DEF NoCompany
  <2>5. Unfilled'
    <3>1. \A u \in Threads : At(u, "create")' => u # t /\ At(u, "create") /\ Caller(u)
      BY <1>a, <1>b, <1>10
    <3> QED  BY <3>1, <1>0, <1>a, <2>1, <2>2, <2>3 DEF Unfilled
  <2>6. Kept'
    <3>1. ASSUME NEW k \in handles' PROVE \E r \in Keys : table'[r] = k
      <4>1. k \in handles /\ k # table[handle_[o]]
        BY <2>1
      <4>2. PICK r \in Keys : table[r] = k
        BY <1>0, <2>1, <4>1 DEF Kept
      <4> QED  BY <2>2, <4>1, <4>2
    <3> QED  BY <3>1 DEF Kept
  <2> QED  BY <2>4, <2>5, <2>6
<1>11. ASSUME NEW o \in Objects, handle_[o] \in Keys, Users(o) = {}, At(t, "idle"), Destroy(t, o)
       PROVE  NoCompany' /\ Unfilled' /\ Kept'
  <2>1. CASE handle_[o] = NullStream
    <3>1. UNCHANGED <<table, handles, raced>> /\ call'[t] = call[t]
      BY <1>11, <2>1 DEF Destroy
    <3> QED  BY <1>1, <1>2, <1>11, <3>1
  <2>2. CASE handle_[o] # NullStream
    <3>1. call'[t] = Doing("destroy", o) /\ Reset(handle_[o])
      BY <1>11, <2>2, CallStep DEF Destroy, StreamInv
    <3>2. ~Caller(t)' /\ ~At(t, "create")'
      BY <3>1 DEF Caller, CallPlaces, Doing, At
    <3> QED  BY <1>10, <1>11, <2>2, <3>1, <3>2 DEF Keys
  <2> QED  BY <2>1, <2>2
<1>12. ASSUME NEW o \in Objects, DestroyObject(t, o)
       PROVE  handle_[o] \in Keys /\ Users(o) = {} /\ At(t, "idle") /\ Destroy(t, o)
  BY <1>12, KeyTyped DEF DestroyObject, Own, StreamInv
<1>13. ASSUME ThreadExits(t)
       PROVE  /\ lazy_stream[t] \in Objects /\ handle_[lazy_stream[t]] \in Keys
              /\ Users(lazy_stream[t]) = {} /\ At(t, "idle") /\ Destroy(t, lazy_stream[t])
  BY <1>13, LazyOwn DEF ThreadExits
<1>14. ASSUME NEW o \in Objects, NEW from \in Objects, MoveAssign(t, o, from)
       PROVE  NoCompany' /\ Unfilled' /\ Kept'
  <2>1. handle_[o] \in Keys /\ Users(o) = {}
    BY <1>14, KeyTyped DEF MoveAssign, Own, StreamInv
  <2>2. call'[t].at \in Assigns
    BY <1>14, CallStep DEF MoveAssign, Assigning, Assigns, StreamInv
  <2>3. ~Caller(t)' /\ ~At(t, "create")'
    BY <2>2 DEF Caller, CallPlaces, At, Assigns
  <2>4. CASE handle_[o] = NullStream
    BY <1>1, <1>14, <2>3, <2>4 DEF MoveAssign
  <2>5. CASE handle_[o] # NullStream
    BY <1>10, <1>14, <2>1, <2>3, <2>5 DEF MoveAssign, Keys
  <2> QED  BY <2>4, <2>5
<1>15. CASE \/ \E o \in Objects : \/ Construct(t, o) \/ FirstDefault(t, o) \/ EnterGuard(t, o)
                                  \/ \E from \in Objects : MoveConstruct(t, o, from)
            \/ LeaveGuard(t) \/ CreateThrows(t) \/ Run(t) \/ MoveAssignTake(t) \/ DestroyRaw(t)
            \/ MoveAssignDestroy(t)
  BY <1>15, <1>1, <1>2, <1>3, <1>4, <1>5, <1>6
<1>16. CASE \E o \in Objects : HandlesFor(t, o)
  BY <1>16, <1>8
<1>17. CASE (\E o \in Objects : DestroyObject(t, o)) \/ ThreadExits(t)
  BY <1>17, <1>11, <1>12, <1>13
<1>18. CASE \E o, from \in Objects : MoveAssign(t, o, from)
  BY <1>18, <1>14
<1>19. CASE Look(t) \/ Create(t)
  BY <1>19, <1>7, <1>9
<1> QED
  BY <1>15, <1>16, <1>17, <1>18, <1>19 DEF Step

-----------------------------------------------------------------------------
LEMMA StreamInvInit == Init => StreamInv
<1> SUFFICES ASSUME Init PROVE StreamInv
  OBVIOUS
<1>1. Typed
  BY TypedInit
<1>2. \A t \in Threads : /\ guards[t] = <<>> /\ current[t] = None /\ lazy_stream[t] = None
                         /\ call[t] = Idle
  BY DEF Init
<1>3. GuardStack
  <2>1. Len(<<>>) = 0 /\ <<>> = <<>>
    BY EmptySeq
  <2> QED  BY <1>2, <2>1, BoundAssumption DEF GuardStack
<1>4. OneOwner /\ Entries /\ Unraced
  BY <1>2, NullAssumption DEF Init, OneOwner, Entries, Unraced, Caller, CallPlaces, Idle, At, Keys
<1>5. OwnDefault /\ CallsKeep /\ EndsAlone
  BY <1>2 DEF OwnDefault, CallsKeep, EndsAlone, Caller, CallPlaces, Ending, Idle
<1>6. \A o \in Objects : ~Guarded(o)
  BY <1>2, NullAssumption DEF Guarded
<1>7. GuardsLent
  BY <1>6 DEF GuardsLent
<1> QED  BY <1>1, <1>3, <1>4, <1>5, <1>7 DEF StreamInv

LEMMA StreamInvStep == StreamInv /\ [Next]_vars => StreamInv'
<1> SUFFICES ASSUME StreamInv, [Next]_vars PROVE StreamInv'
  OBVIOUS
<1>1. ASSUME NEW t \in Threads, Step(t) PROVE StreamInv'
  <2>1. Typed'
    BY <1>1, TypedStep DEF StreamInv
  <2> QED
    BY <1>1, <2>1, GuardStackStep, OwnerStep, DefaultStep, GuardsLentStep, CallsKeepStep, EndsAloneStep,
       EntriesStep, UnracedStep DEF StreamInv
<1>2. CASE UNCHANGED vars
  <2> USE <1>2 DEF vars
  <2>1. Typed' /\ GuardStack' /\ OneOwner' /\ OwnDefault'
    BY DEF StreamInv, Typed, GuardStack, OneOwner, OwnDefault
  <2>2. GuardsLent' /\ CallsKeep'
    BY DEF StreamInv, GuardsLent, Guarded, Lent, Lazies, At, CallsKeep, Caller
  <2>3. EndsAlone'
    BY DEF StreamInv, EndsAlone, Uses, Users, Lazies, At
  <2>4. Entries' /\ Unraced'
    BY DEF StreamInv, Entries, Unraced, Caller, Key, At
  <2> QED  BY <2>1, <2>2, <2>3, <2>4 DEF StreamInv
<1> QED  BY <1>1, <1>2 DEF Next

LEMMA StreamInvariant == Spec => []StreamInv
BY StreamInvInit, StreamInvStep, PTL DEF Spec

\* Objects, default streams, overrides, handles and calls keep their types,
\* and an override is set exactly while a guard is there.
THEOREM StreamsTyped == Spec => []TypeOK
<1>1. ASSUME StreamInv PROVE TypeOK
  <2>1. \A t \in Threads : call[t].at \in Places
    BY <1>1, CallTyped DEF StreamInv
  <2> QED  BY <1>1, <2>1 DEF StreamInv, Typed, GuardStack, TypeOK
<1> QED  BY <1>1, StreamInvariant, PTL

\* However objects are moved, assigned and destroyed, and whichever addresses
\* the driver gives again, no raw stream has two owners or outlives its owner,
\* and no two threads have one default stream (stream.cpp).
THEOREM StreamsKeepApart == Spec => []StreamsApart
<1>1. ASSUME StreamInv PROVE StreamsApart
  BY <1>1 DEF StreamInv, OneOwner, OwnDefault, StreamsApart
<1> QED  BY <1>1, StreamInvariant, PTL

\* No address that the driver may give again has vendor handles, and no thread
\* holds an entry that was erased (~Stream and operator= reset the handles
\* before they destroy the raw stream).
THEOREM HandlesKeepToStreams == Spec => []HandlesFollowStreams
<1>1. ASSUME StreamInv PROVE HandlesFollowStreams
  BY <1>1 DEF StreamInv, Entries, HandlesFollowStreams
<1> QED  BY <1>1, StreamInvariant, PTL

\* A vendor handle is lost only when two threads have been at one entry at
\* once (cublas_backend.cpp: the check of the handle is not under the lock).
THEOREM HandlesNotLost == Spec => []OneHandlePerStream
<1>1. ASSUME StreamInv PROVE OneHandlePerStream
  BY <1>1 DEF StreamInv, Unraced, OneHandlePerStream
<1> QED  BY <1>1, StreamInvariant, PTL
=============================================================================
