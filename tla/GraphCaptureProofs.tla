------------------------- MODULE GraphCaptureProofs -------------------------
(***************************************************************************)
(* Theorems about GraphCapture, for every number of threads, names and     *)
(* captures, and every depth to which captures are nested.                 *)
(***************************************************************************)
EXTENDS GraphCapture, SequenceTheorems, TLAPS

Bounded == Len(log) <= MaxCaptures

\* An exception is on its way through a call.
Thrown == \A t \in Threads : thrown[t] => Depth(t) > 0

\* The calls of a thread are of its own names, each name once, and all but
\* the innermost are in their functions.
Nested == \A t \in Threads : \A i \in 1..Depth(t) :
    /\ Owner[calls[t][i].name] = t
    /\ i < Depth(t) => calls[t][i].at = "fn"
    /\ \A j \in 1..Depth(t) : j # i => calls[t][j].name # calls[t][i].name

\* A call is the last there was for its name, and the log says where it is.
Logged == \A t \in Threads : \A i \in 1..Depth(t) :
    LET call == calls[t][i]
    IN  /\ call.capture \in 1..Len(log)
        /\ log[call.capture].name = call.name
        /\ \A d \in 1..Len(log) : log[d].name = call.name => d <= call.capture
        /\ call.at = "begin" => log[call.capture].fate = "called"
        /\ call.at = "fn" => log[call.capture].fate = "open"

\* Until it has been rejected or instantiated, what ended is the graph.
JustEnded == \A t \in Threads : \A i \in 1..Depth(t) :
    calls[t][i].at = "ended" /\ ~thrown[t] =>
        /\ graph[calls[t][i].name] = calls[t][i].capture
        /\ log[calls[t][i].capture].fate = "ended"

\* A name's stream is in the capture of the call that waits for its function.
Waiting(g, i) == calls[Owner[g]][i].name = g /\ calls[Owner[g]][i].at = "fn"
Streams == \A g \in Graphs :
    /\ capturing[g] <=> \E i \in 1..Depth(Owner[g]) : Waiting(g, i)
    /\ capturing[g] <=> stream[g] # None
    /\ \A i \in 1..Depth(Owner[g]) : Waiting(g, i) => stream[g] = calls[Owner[g]][i].capture

Complete == {"ended", "accepted", "rejected"}

\* A graph is a capture of its name that the device ended; none leaks.
Held == \A g \in Graphs : graph[g] # None =>
    /\ graph[g] \in 1..Len(log)
    /\ log[graph[g]].name = g
    /\ log[graph[g]].fate \in Complete

Owned == objects = {graph[g] : g \in Graphs} \ {None}

Accepted(g) == {c \in 1..Len(log) : log[c].name = g /\ log[c].fate = "accepted"}
Launchable == \A g \in Graphs : exec[g] # None =>
    /\ exec[g] \in 1..Len(log)
    /\ g \in updated => log[exec[g]].fate \in Complete
    /\ g \notin updated => exec[g] \in Accepted(g) /\ \A c \in Accepted(g) : c <= exec[g]

GraphInv ==
    /\ TypeOK
    /\ Bounded
    /\ Thrown
    /\ Nested
    /\ Logged
    /\ JustEnded
    /\ Streams
    /\ Held
    /\ Owned
    /\ Launchable

-----------------------------------------------------------------------------
(* What is called and what the log holds *)

LEMMA CallTypes ==
    ASSUME GraphInv, NEW u \in Threads
    PROVE  /\ calls[u] \in Seq(Call) /\ Depth(u) \in Nat
           /\ \A i \in 1..Depth(u) : /\ calls[u][i] \in Call
                                     /\ calls[u][i].name \in Graphs
                                     /\ calls[u][i].capture \in Captures
<1>1. calls[u] \in Seq(Call)
  BY DEF GraphInv, TypeOK
<1>2. \A i \in 1..Len(calls[u]) : calls[u][i] \in Call
  BY <1>1, ElementOfSeq
<1> QED  BY <1>1, <1>2 DEF Depth, Call

LEMMA LogTypes ==
    ASSUME GraphInv
    PROVE  /\ log \in Seq(Log) /\ Len(log) \in Nat /\ Len(log) <= MaxCaptures /\ MaxCaptures \in Nat
           /\ \A c \in 1..Len(log) : /\ log[c] \in Log /\ c \in Captures /\ c # None
                                     /\ log[c].name \in Graphs /\ log[c].fate \in Fates
<1>1. log \in Seq(Log) /\ Len(log) <= MaxCaptures /\ MaxCaptures \in Nat
  BY GraphAssumption DEF GraphInv, TypeOK, Bounded
<1>2. \A c \in 1..Len(log) : log[c] \in Log
  BY <1>1, ElementOfSeq
<1>3. Len(log) \in Nat
  BY <1>1
<1> QED  BY <1>1, <1>2, <1>3 DEF Log, Captures, None

\* A capture is of one call.
LEMMA OneCall ==
    ASSUME GraphInv, NEW t \in Threads, NEW i \in 1..Depth(t), NEW u \in Threads, NEW j \in 1..Depth(u),
           calls[t][i].capture = calls[u][j].capture
    PROVE  t = u /\ i = j
<1>1. calls[t][i].name = calls[u][j].name
  BY DEF GraphInv, Logged
<1>2. t = u
  BY <1>1 DEF GraphInv, Nested
<1> QED  BY <1>1, <1>2 DEF GraphInv, Nested

\* The innermost call.
LEMMA Innermost ==
    ASSUME GraphInv, NEW t \in Threads, Depth(t) > 0
    PROVE  /\ Depth(t) \in 1..Depth(t)
           /\ Top(t) \in Graphs /\ Owner[Top(t)] = t
           /\ This(t) \in 1..Len(log) /\ This(t) \in Captures /\ log[This(t)].name = Top(t)
           /\ \A d \in 1..Len(log) : log[d].name = Top(t) => d <= This(t)
           /\ At(t, "begin") => log[This(t)].fate = "called"
           /\ At(t, "fn") => log[This(t)].fate = "open"
           /\ At(t, "ended") /\ ~thrown[t] =>
                 graph[Top(t)] = This(t) /\ log[This(t)].fate = "ended"
<1>1. Depth(t) \in 1..Depth(t)
  BY CallTypes
<1>2. Top(t) \in Graphs /\ Owner[Top(t)] = t /\ This(t) \in Captures
  BY <1>1, CallTypes DEF GraphInv, Nested, Top, This
<1>3. /\ This(t) \in 1..Len(log) /\ log[This(t)].name = Top(t)
      /\ \A d \in 1..Len(log) : log[d].name = Top(t) => d <= This(t)
      /\ At(t, "begin") => log[This(t)].fate = "called"
      /\ At(t, "fn") => log[This(t)].fate = "open"
  BY <1>1 DEF GraphInv, Logged, Top, This, At
<1>4. At(t, "ended") /\ ~thrown[t] => graph[Top(t)] = This(t) /\ log[This(t)].fate = "ended"
  BY <1>1 DEF GraphInv, JustEnded, Top, This, At
<1> QED  BY <1>1, <1>2, <1>3, <1>4

-----------------------------------------------------------------------------
(* What a step makes of the log and of the calls *)

LEMMA FateSet ==
    ASSUME GraphInv, NEW t \in Threads, Depth(t) > 0, NEW f \in Fates, log' = Fate(t, f)
    PROVE  /\ log' \in Seq(Log) /\ Len(log') = Len(log)
           /\ \A c \in 1..Len(log) : /\ log'[c].name = log[c].name
                                     /\ c # This(t) => log'[c].fate = log[c].fate
           /\ log'[This(t)].fate = f
<1> DEFINE n == This(t)
<1>1. n \in 1..Len(log) /\ log \in Seq(Log) /\ \A c \in 1..Len(log) : log[c] \in Log
  BY Innermost, LogTypes
<1>2. PICK r : r = [log[n] EXCEPT !.fate = f]
  OBVIOUS
<1>3. r \in Log /\ r.name = log[n].name /\ r.fate = f
  BY <1>1, <1>2 DEF Log
<1>4. log' = [log EXCEPT ![n] = r]
  BY <1>2 DEF Fate
<1> HIDE DEF n
<1>5. /\ log' \in Seq(Log) /\ Len(log') = Len(log)
      /\ \A c \in 1..Len(log) : log'[c] = IF c = n THEN r ELSE log[c]
  BY <1>1, <1>3, <1>4, ExceptSeq
<1> QED  BY <1>1, <1>3, <1>5 DEF n

LEMMA CallMoved ==
    ASSUME GraphInv, NEW t \in Threads, Depth(t) > 0, NEW p \in {"begin", "fn", "ended"},
           calls' = Moved(t, p)
    PROVE  /\ calls' \in [Threads -> Seq(Call)]
           /\ \A u \in Threads : Depth(u)' = Depth(u)
           /\ \A u \in Threads : \A i \in 1..Depth(u) :
                 /\ calls'[u][i].name = calls[u][i].name
                 /\ calls'[u][i].capture = calls[u][i].capture
                 /\ ~(u = t /\ i = Depth(t)) => calls'[u][i].at = calls[u][i].at
           /\ calls'[t][Depth(t)].at = p
<1> DEFINE n == Depth(t)
<1>1. n \in 1..Len(calls[t]) /\ calls[t] \in Seq(Call) /\ calls[t][n] \in Call
  BY Innermost, CallTypes DEF Depth
<1>2. PICK r : r = [calls[t][n] EXCEPT !.at = p]
  OBVIOUS
<1>3. r \in Call /\ r.name = calls[t][n].name /\ r.capture = calls[t][n].capture /\ r.at = p
  BY <1>1, <1>2 DEF Call
<1>4. PICK s : s = [calls[t] EXCEPT ![n] = r]
  OBVIOUS
<1>5. calls' = [calls EXCEPT ![t] = s]
  BY <1>2, <1>4 DEF Moved
<1> HIDE DEF n
<1>6. /\ s \in Seq(Call) /\ Len(s) = Len(calls[t])
      /\ \A c \in 1..Len(calls[t]) : s[c] = IF c = n THEN r ELSE calls[t][c]
  BY <1>1, <1>3, <1>4, ExceptSeq
<1>7. /\ calls' \in [Threads -> Seq(Call)]
      /\ calls'[t] = s
      /\ \A u \in Threads : u # t => calls'[u] = calls[u]
  BY <1>5, <1>6 DEF GraphInv, TypeOK
<1>8. \A u \in Threads : Depth(u)' = Depth(u)
  BY <1>6, <1>7 DEF Depth
<1>9. ASSUME NEW u \in Threads, NEW i \in 1..Depth(u)
      PROVE  /\ calls'[u][i].name = calls[u][i].name
             /\ calls'[u][i].capture = calls[u][i].capture
             /\ ~(u = t /\ i = Depth(t)) => calls'[u][i].at = calls[u][i].at
  <2>1. CASE u # t
    BY <1>7, <2>1
  <2>2. CASE u = t
    BY <1>3, <1>6, <1>7, <2>2 DEF n, Depth
  <2> QED  BY <2>1, <2>2
<1>10. calls'[t][Depth(t)].at = p
  BY <1>1, <1>3, <1>6, <1>7 DEF n
<1> QED  BY <1>7, <1>8, <1>9, <1>10

LEMMA CallLeft ==
    ASSUME GraphInv, NEW t \in Threads, Depth(t) > 0, calls' = Left(t)
    PROVE  /\ calls' \in [Threads -> Seq(Call)]
           /\ \A u \in Threads : Depth(u)' = IF u = t THEN Depth(t) - 1 ELSE Depth(u)
           /\ \A u \in Threads : \A i \in 1..Depth(u)' : i \in 1..Depth(u) /\ calls'[u][i] = calls[u][i]
<1>1. PICK n \in Nat : n = Depth(t) /\ n > 0
  BY CallTypes
<1>2. PICK s : s = SubSeq(calls[t], 1, n - 1)
  OBVIOUS
<1>3. calls' = [calls EXCEPT ![t] = s]
  BY <1>1, <1>2 DEF Left
<1>4. \A i \in 1..n - 1 : calls[t][i] \in Call
  BY <1>1, CallTypes
<1>5. s \in Seq(Call) /\ Len(s) = n - 1 /\ \A i \in 1..n - 1 : s[i] = calls[t][i]
  <2>1. /\ s \in Seq(Call)
        /\ Len(s) = IF 1 <= n - 1 THEN n - 1 - 1 + 1 ELSE 0
        /\ \A i \in 1 .. n - 1 - 1 + 1 : s[i] = calls[t][1 + i - 1]
    BY <1>1, <1>2, <1>4, SubSeqProperties
  <2>2. n \in Nat /\ n > 0
    BY <1>1
  <2> QED  BY <2>1, <2>2
<1>6. /\ calls' \in [Threads -> Seq(Call)]
      /\ calls'[t] = s
      /\ \A u \in Threads : u # t => calls'[u] = calls[u]
  BY <1>3, <1>5 DEF GraphInv, TypeOK
<1>7. \A u \in Threads : Depth(u)' = IF u = t THEN Depth(t) - 1 ELSE Depth(u)
  BY <1>1, <1>5, <1>6 DEF Depth
<1>8. ASSUME NEW u \in Threads, NEW i \in 1..Depth(u)'
      PROVE  i \in 1..Depth(u) /\ calls'[u][i] = calls[u][i]
  <2>1. CASE u # t
    BY <1>6, <1>7, <1>8, <2>1
  <2>2. CASE u = t
    <3>1. i \in 1..n - 1
      BY <1>1, <1>7, <1>8, <2>2
    <3>2. n \in Nat
      BY <1>1
    <3>3. i \in 1..n
      BY <3>1, <3>2
    <3> QED  BY <1>1, <1>5, <1>6, <2>2, <3>1, <3>3
  <2> QED  BY <2>1, <2>2
<1> QED  BY <1>6, <1>7, <1>8

-----------------------------------------------------------------------------
(* What keeps each part of the invariant *)

\* Calls are moved on, or left.
Narrowed ==
    \A u \in Threads : \A i \in 1..Depth(u)' :
        /\ i \in 1..Depth(u)
        /\ calls'[u][i].name = calls[u][i].name
        /\ calls'[u][i].capture = calls[u][i].capture
        /\ i < Depth(u) => calls'[u][i].at = calls[u][i].at
Others(t) ==
    \A u \in Threads : \A i \in 1..Depth(u)' :
        ~(u = t /\ i = Depth(t)) => calls'[u][i].at = calls[u][i].at

LEMMA LeftNarrows ==
    ASSUME GraphInv, NEW t \in Threads, Depth(t) > 0, calls' = Left(t)
    PROVE  /\ calls' \in [Threads -> Seq(Call)] /\ Narrowed /\ Others(t)
           /\ Depth(t) \notin 1..Depth(t)'
           /\ \A u \in Threads : Depth(u)' <= Depth(u)
<1>1. \A u \in Threads : Depth(u) \in Nat
  BY CallTypes
<1>2. Depth(t)' = Depth(t) - 1
  BY CallLeft
<1>3. \A u \in Threads : Depth(u)' <= Depth(u)
  <2> SUFFICES ASSUME NEW u \in Threads PROVE Depth(u)' <= Depth(u)
    OBVIOUS
  <2>1. Depth(u)' = IF u = t THEN Depth(t) - 1 ELSE Depth(u)
    BY CallLeft
  <2>2. Depth(u) \in Nat
    BY <1>1
  <2> QED  BY <2>1, <2>2
<1> QED  BY <1>1, <1>2, <1>3, CallLeft DEF Narrowed, Others

LEMMA MovedNarrows ==
    ASSUME GraphInv, NEW t \in Threads, Depth(t) > 0, NEW p \in {"begin", "fn", "ended"},
           calls' = Moved(t, p)
    PROVE  /\ calls' \in [Threads -> Seq(Call)] /\ Narrowed /\ Others(t)
           /\ calls'[t][Depth(t)].at = p
           /\ \A u \in Threads : Depth(u)' = Depth(u)
<1>1. \A u \in Threads : Depth(u) \in Nat
  BY CallTypes
<1> QED  BY <1>1, CallMoved DEF Narrowed, Others

LEMMA SameNarrows ==
    ASSUME GraphInv, UNCHANGED calls
    PROVE  /\ calls' \in [Threads -> Seq(Call)] /\ Narrowed /\ \A t \in Threads : Others(t)
           /\ \A u \in Threads : Depth(u)' = Depth(u)
BY DEF GraphInv, TypeOK, Narrowed, Others, Depth

LEMMA NestedKept ==
    ASSUME GraphInv, Narrowed, \A u \in Threads : Depth(u)' <= Depth(u) /\ Depth(u)' \in Nat
    PROVE  Nested'
<1> SUFFICES ASSUME NEW u \in Threads, NEW i \in 1..Depth(u)'
             PROVE  /\ Owner[calls'[u][i].name] = u
                    /\ i < Depth(u)' => calls'[u][i].at = "fn"
                    /\ \A j \in 1..Depth(u)' : j # i => calls'[u][j].name # calls'[u][i].name
  BY DEF Nested
<1>1. i \in 1..Depth(u) /\ calls'[u][i].name = calls[u][i].name
  BY DEF Narrowed
<1>2. i < Depth(u)' => i < Depth(u) /\ calls'[u][i].at = calls[u][i].at
  BY <1>1, CallTypes DEF Narrowed
<1>3. \A j \in 1..Depth(u)' : j \in 1..Depth(u) /\ calls'[u][j].name = calls[u][j].name
  BY DEF Narrowed
<1> QED  BY <1>1, <1>2, <1>3 DEF GraphInv, Nested

LEMMA LoggedKept ==
    ASSUME GraphInv, UNCHANGED log, Narrowed, NEW t \in Threads, Others(t),
           Depth(t) \in 1..Depth(t)' => calls'[t][Depth(t)].at \in {calls[t][Depth(t)].at, "ended"}
    PROVE  Logged'
<1> SUFFICES ASSUME NEW u \in Threads, NEW i \in 1..Depth(u)'
             PROVE  /\ calls'[u][i].capture \in 1..Len(log)
                    /\ log[calls'[u][i].capture].name = calls'[u][i].name
                    /\ \A d \in 1..Len(log) :
                          log[d].name = calls'[u][i].name => d <= calls'[u][i].capture
                    /\ calls'[u][i].at = "begin" => log[calls'[u][i].capture].fate = "called"
                    /\ calls'[u][i].at = "fn" => log[calls'[u][i].capture].fate = "open"
  BY DEF Logged
<1>1. /\ i \in 1..Depth(u) /\ calls'[u][i].name = calls[u][i].name
      /\ calls'[u][i].capture = calls[u][i].capture
  BY DEF Narrowed
<1>2. calls'[u][i].at \in {calls[u][i].at, "ended"}
  BY DEF Others
<1> QED  BY <1>1, <1>2 DEF GraphInv, Logged

LEMMA LoggedFate ==
    ASSUME GraphInv, NEW t \in Threads, Depth(t) > 0, NEW f \in Fates, log' = Fate(t, f),
           Narrowed, Others(t),
           Depth(t) \in 1..Depth(t)' =>
              \/ calls'[t][Depth(t)].at = "fn" /\ f = "open"
              \/ calls'[t][Depth(t)].at = "ended"
    PROVE  Logged'
<1> SUFFICES ASSUME NEW u \in Threads, NEW i \in 1..Depth(u)'
             PROVE  /\ calls'[u][i].capture \in 1..Len(log')
                    /\ log'[calls'[u][i].capture].name = calls'[u][i].name
                    /\ \A d \in 1..Len(log') :
                          log'[d].name = calls'[u][i].name => d <= calls'[u][i].capture
                    /\ calls'[u][i].at = "begin" => log'[calls'[u][i].capture].fate = "called"
                    /\ calls'[u][i].at = "fn" => log'[calls'[u][i].capture].fate = "open"
  BY DEF Logged
<1>1. /\ i \in 1..Depth(u) /\ calls'[u][i].name = calls[u][i].name
      /\ calls'[u][i].capture = calls[u][i].capture
  BY DEF Narrowed
<1>2. /\ Len(log') = Len(log)
      /\ \A c \in 1..Len(log) : /\ log'[c].name = log[c].name
                                /\ c # This(t) => log'[c].fate = log[c].fate
      /\ log'[This(t)].fate = f
  BY FateSet
<1>3. calls[u][i].capture \in 1..Len(log) /\ log[calls[u][i].capture].name = calls[u][i].name
  BY <1>1 DEF GraphInv, Logged
<1>4. \A d \in 1..Len(log) : log[d].name = calls[u][i].name => d <= calls[u][i].capture
  BY <1>1 DEF GraphInv, Logged
<1>5. CASE u = t /\ i = Depth(t)
  <2>1. calls[u][i].capture = This(t)
    BY <1>5 DEF This
  <2>2. (calls'[u][i].at = "fn" /\ f = "open") \/ calls'[u][i].at = "ended"
    BY <1>5
  <2> QED  BY <1>1, <1>2, <1>3, <1>4, <2>1, <2>2
<1>6. CASE ~(u = t /\ i = Depth(t))
  <2>1. calls[u][i].capture # This(t)
    BY <1>1, <1>6, OneCall, Innermost DEF This
  <2>2. calls'[u][i].at = calls[u][i].at
    BY <1>6 DEF Others
  <2>3. /\ calls[u][i].at = "begin" => log[calls[u][i].capture].fate = "called"
        /\ calls[u][i].at = "fn" => log[calls[u][i].capture].fate = "open"
    BY <1>1 DEF GraphInv, Logged
  <2> QED  BY <1>1, <1>2, <1>3, <1>4, <2>1, <2>2, <2>3
<1> QED  BY <1>5, <1>6

\* Only an innermost call has ended.
LEMMA EndedIsInnermost ==
    ASSUME GraphInv, NEW u \in Threads, NEW i \in 1..Depth(u), calls[u][i].at = "ended"
    PROVE  i = Depth(u)
BY CallTypes DEF GraphInv, Nested

LEMMA HeldKept ==
    ASSUME GraphInv, UNCHANGED <<graph, log>>
    PROVE  Held'
BY DEF GraphInv, Held

LEMMA HeldFate ==
    ASSUME GraphInv, NEW t \in Threads, Depth(t) > 0, NEW f \in Fates, log' = Fate(t, f),
           f \in Complete \/ log[This(t)].fate \notin Complete, UNCHANGED graph
    PROVE  Held'
<1> SUFFICES ASSUME NEW g \in Graphs, graph[g] # None
             PROVE  /\ graph[g] \in 1..Len(log')
                    /\ log'[graph[g]].name = g
                    /\ log'[graph[g]].fate \in Complete
  BY DEF Held
<1>1. graph[g] \in 1..Len(log) /\ log[graph[g]].name = g /\ log[graph[g]].fate \in Complete
  BY DEF GraphInv, Held
<1> QED  BY <1>1, FateSet

LEMMA LaunchableKept ==
    ASSUME GraphInv, UNCHANGED <<exec, updated, log>>
    PROVE  Launchable'
BY DEF GraphInv, Launchable, Accepted

LEMMA LaunchableFate ==
    ASSUME GraphInv, NEW t \in Threads, Depth(t) > 0, NEW f \in Fates, log' = Fate(t, f),
           f \in Complete \/ log[This(t)].fate \notin Complete,
           f # "accepted", log[This(t)].fate # "accepted",
           UNCHANGED <<exec, updated>>
    PROVE  Launchable'
<1>1. \A g \in Graphs : Accepted(g)' = Accepted(g)
  BY FateSet DEF Accepted
<1> SUFFICES ASSUME NEW g \in Graphs, exec[g] # None
             PROVE  /\ exec[g] \in 1..Len(log')
                    /\ g \in updated => log'[exec[g]].fate \in Complete
                    /\ g \notin updated => exec[g] \in Accepted(g) /\ \A c \in Accepted(g) : c <= exec[g]
  BY <1>1 DEF Launchable
<1> QED  BY FateSet DEF GraphInv, Launchable

LEMMA StreamsKept ==
    ASSUME GraphInv, UNCHANGED <<capturing, stream>>, Narrowed,
           \A u \in Threads : \A i \in 1..Depth(u) :
              calls[u][i].at = "fn" => i \in 1..Depth(u)' /\ calls'[u][i].at = "fn",
           \A u \in Threads : \A i \in 1..Depth(u)' :
              calls'[u][i].at = "fn" => calls[u][i].at = "fn"
    PROVE  Streams'
<1>1. \A g \in Graphs : Owner[g] \in Threads
  BY GraphAssumption
<1>2. \A g \in Graphs : \A i : (i \in 1..Depth(Owner[g])' /\ Waiting(g, i)') <=>
                               (i \in 1..Depth(Owner[g]) /\ Waiting(g, i))
  BY <1>1 DEF Narrowed, Waiting
<1>3. \A g \in Graphs : \A i \in 1..Depth(Owner[g])' :
         calls'[Owner[g]][i].capture = calls[Owner[g]][i].capture
  BY <1>1 DEF Narrowed
<1> QED  BY <1>2, <1>3 DEF GraphInv, Streams

LEMMA ThrownTypes ==
    ASSUME GraphInv, NEW t \in Threads, NEW n \in Nat, ThrownPast(t, n)
    PROVE  /\ thrown' \in [Threads -> BOOLEAN]
           /\ \A u \in Threads \ {t} : thrown'[u] = thrown[u]
           /\ thrown'[t] <=> Depth(t) > n
<1>1. thrown \in [Threads -> BOOLEAN]
  BY DEF GraphInv, TypeOK
<1>2. CASE Depth(t) > n
  <2>1. thrown' = [thrown EXCEPT ![t] = TRUE]
    BY <1>2 DEF ThrownPast
  <2> QED  BY <1>1, <1>2, <2>1
<1>3. CASE ~(Depth(t) > n)
  <2>1. thrown' = [thrown EXCEPT ![t] = FALSE]
    <3>1. (Depth(t) > n) = FALSE
      BY <1>3, CallTypes
    <3> QED  BY <3>1, Zenon DEF ThrownPast
  <2> QED  BY <1>1, <1>3, <2>1
<1> QED  BY <1>2, <1>3

\* In user code every call waits for its function.
LEMMA UserCodeInFn ==
    ASSUME GraphInv, NEW t \in Threads, InUserCode(t)
    PROVE  \A i \in 1..Depth(t) : calls[t][i].at = "fn"
BY CallTypes DEF GraphInv, Nested, InUserCode, At

\* What a thread does to its own names says nothing of what others ended.
LEMMA JustEndedKept ==
    ASSUME GraphInv, NEW t \in Threads, Narrowed, Others(t),
           \A u \in Threads \ {t} : thrown'[u] = thrown[u],
           \A g \in Graphs : Owner[g] # t => graph'[g] = graph[g],
           \A c \in 1..Len(log) : Owner[log[c].name] # t => log'[c].fate = log[c].fate,
           \A i \in 1..Depth(t)' : calls'[t][i].at = "ended" /\ ~thrown'[t] =>
              graph'[calls'[t][i].name] = calls'[t][i].capture /\ log'[calls'[t][i].capture].fate = "ended"
    PROVE  JustEnded'
<1> SUFFICES ASSUME NEW u \in Threads, NEW i \in 1..Depth(u)',
                    calls'[u][i].at = "ended", ~thrown'[u]
             PROVE  /\ graph'[calls'[u][i].name] = calls'[u][i].capture
                    /\ log'[calls'[u][i].capture].fate = "ended"
  BY DEF JustEnded
<1>1. CASE u = t
  BY <1>1
<1>2. CASE u # t
  <2>1. /\ i \in 1..Depth(u) /\ calls'[u][i].name = calls[u][i].name
        /\ calls'[u][i].capture = calls[u][i].capture /\ calls'[u][i].at = calls[u][i].at
    BY <1>2 DEF Narrowed, Others
  <2>2. calls[u][i].name \in Graphs /\ Owner[calls[u][i].name] = u
    BY <2>1, CallTypes DEF GraphInv, Nested
  <2>3. calls[u][i].capture \in 1..Len(log) /\ log[calls[u][i].capture].name = calls[u][i].name
    BY <2>1 DEF GraphInv, Logged
  <2>4. ~thrown[u]
    BY <1>2
  <2>5. graph[calls[u][i].name] = calls[u][i].capture /\ log[calls[u][i].capture].fate = "ended"
    BY <2>1, <2>4 DEF GraphInv, JustEnded
  <2> QED  BY <1>2, <2>1, <2>2, <2>3, <2>5
<1> QED  BY <1>1, <1>2

\* User code outside of capture(): what it may do to the pool, to captures
\* under way and to exceptions.
LEMMA Quiet ==
    ASSUME GraphInv, NEW t \in Threads, \A i \in 1..Depth(t) : calls[t][i].at = "fn",
           UNCHANGED <<calls, log, graph, objects, capturing, stream>>,
           \A u \in Threads \ {t} : thrown'[u] = thrown[u],
           thrown'[t] => Depth(t) > 0
    PROVE  /\ Bounded' /\ Thrown' /\ Nested' /\ Logged' /\ JustEnded' /\ Streams' /\ Held' /\ Owned'
           /\ calls' \in [Threads -> Seq(Call)]
<1>1. /\ calls' \in [Threads -> Seq(Call)] /\ Narrowed /\ Others(t)
      /\ \A u \in Threads : Depth(u)' = Depth(u)
  BY SameNarrows
<1>2. Bounded' /\ Owned'
  BY DEF GraphInv, Bounded, Owned
<1>3. Thrown'
  BY <1>1 DEF GraphInv, Thrown
<1>4. Nested'
  BY <1>1, CallTypes, NestedKept
<1>5. Logged'
  BY <1>1, LoggedKept
<1>6. JustEnded'
  <2>1. \A i \in 1..Depth(t)' : calls'[t][i].at # "ended"
    BY <1>1
  <2> QED  BY <1>1, <2>1, JustEndedKept
<1>7. Streams'
  BY <1>1, StreamsKept
<1>8. Held'
  BY HeldKept
<1> QED  BY <1>1, <1>2, <1>3, <1>4, <1>5, <1>6, <1>7, <1>8

-----------------------------------------------------------------------------
(* User code *)

LEMMA InvAgain ==
    ASSUME GraphInv, NEW t \in Threads, NEW g \in Graphs, CaptureAgain(t, g)
    PROVE  GraphInv'
<1>1. /\ thrown' \in [Threads -> BOOLEAN] /\ \A u \in Threads \ {t} : thrown'[u] = thrown[u]
      /\ thrown'[t] <=> Depth(t) > 0
  BY ThrownTypes DEF CaptureAgain
<1>2. \A i \in 1..Depth(t) : calls[t][i].at = "fn"
  BY UserCodeInFn DEF CaptureAgain
<1>3. UNCHANGED <<graph, exec, updated, objects, capturing, stream, broken, before, reserved, calls, log>>
  BY DEF CaptureAgain, graphVars, captureVars, poolVars
<1>4. /\ Bounded' /\ Thrown' /\ Nested' /\ Logged' /\ JustEnded' /\ Streams' /\ Held' /\ Owned'
      /\ calls' \in [Threads -> Seq(Call)]
  BY <1>1, <1>2, <1>3, Quiet
<1>5. TypeOK'
  BY <1>1, <1>3 DEF GraphInv, TypeOK
<1> QED  BY <1>3, <1>4, <1>5, LaunchableKept DEF GraphInv

LEMMA InvMalloc ==
    ASSUME GraphInv, NEW t \in Threads, Malloc(t)
    PROVE  GraphInv'
<1>1. \A i \in 1..Depth(t) : calls[t][i].at = "fn"
  BY UserCodeInFn DEF Malloc
<1>2. UNCHANGED <<graph, exec, updated, objects, capturing, stream, broken, before, calls, thrown, log>>
  BY DEF Malloc, graphVars, captureVars, callVars
<1>3. thrown'[t] => Depth(t) > 0
  BY <1>2 DEF GraphInv, Thrown
<1>4. /\ Bounded' /\ Thrown' /\ Nested' /\ Logged' /\ JustEnded' /\ Streams' /\ Held' /\ Owned'
      /\ calls' \in [Threads -> Seq(Call)]
  BY <1>1, <1>2, <1>3, Quiet
<1>5. reserved' \in 0..MaxReserved
  BY GraphAssumption DEF GraphInv, TypeOK, Malloc
<1>6. TypeOK'
  BY <1>2, <1>5 DEF GraphInv, TypeOK
<1> QED  BY <1>2, <1>4, <1>6, LaunchableKept DEF GraphInv

LEMMA InvMallocFails ==
    ASSUME GraphInv, NEW t \in Threads, MallocFails(t)
    PROVE  GraphInv'
<1>1. /\ thrown' \in [Threads -> BOOLEAN] /\ \A u \in Threads \ {t} : thrown'[u] = thrown[u]
      /\ thrown'[t] <=> Depth(t) > 0
  BY ThrownTypes DEF MallocFails
<1>2. \A i \in 1..Depth(t) : calls[t][i].at = "fn"
  BY UserCodeInFn DEF MallocFails
<1>3. UNCHANGED <<graph, exec, updated, objects, capturing, stream, before, reserved, calls, log>>
  BY DEF MallocFails, graphVars, poolVars
<1>4. /\ Bounded' /\ Thrown' /\ Nested' /\ Logged' /\ JustEnded' /\ Streams' /\ Held' /\ Owned'
      /\ calls' \in [Threads -> Seq(Call)]
  BY <1>1, <1>2, <1>3, Quiet
<1>5. broken' \subseteq Captures
  BY DEF GraphInv, TypeOK, MallocFails, OnDevice
<1>6. TypeOK'
  BY <1>1, <1>3, <1>5 DEF GraphInv, TypeOK
<1> QED  BY <1>3, <1>4, <1>6, LaunchableKept DEF GraphInv

LEMMA InvBadCall ==
    ASSUME GraphInv, NEW t \in Threads, NEW g \in Graphs, BadCall(t, g)
    PROVE  GraphInv'
<1>1. /\ thrown' \in [Threads -> BOOLEAN] /\ \A u \in Threads \ {t} : thrown'[u] = thrown[u]
      /\ thrown'[t] => Depth(t) > 0
  <2>1. CASE ThrownPast(t, 0)
    BY <2>1, ThrownTypes
  <2>2. CASE UNCHANGED thrown
    BY <2>2 DEF GraphInv, TypeOK, Thrown
  <2> QED  BY <2>1, <2>2 DEF BadCall
<1>2. \A i \in 1..Depth(t) : calls[t][i].at = "fn"
  BY UserCodeInFn DEF BadCall
<1>3. UNCHANGED <<graph, exec, updated, objects, capturing, stream, before, reserved, calls, log>>
  BY DEF BadCall, graphVars, poolVars
<1>4. /\ Bounded' /\ Thrown' /\ Nested' /\ Logged' /\ JustEnded' /\ Streams' /\ Held' /\ Owned'
      /\ calls' \in [Threads -> Seq(Call)]
  BY <1>1, <1>2, <1>3, Quiet
<1>5. broken' \subseteq Captures
  BY DEF GraphInv, TypeOK, BadCall
<1>6. TypeOK'
  BY <1>1, <1>3, <1>5 DEF GraphInv, TypeOK
<1> QED  BY <1>3, <1>4, <1>6, LaunchableKept DEF GraphInv

LEMMA InvFnThrows ==
    ASSUME GraphInv, NEW t \in Threads, FnThrows(t)
    PROVE  GraphInv'
<1>1. /\ thrown' \in [Threads -> BOOLEAN] /\ \A u \in Threads \ {t} : thrown'[u] = thrown[u]
  BY DEF GraphInv, TypeOK, FnThrows
<1>2. Depth(t) > 0 /\ calls[t][Depth(t)].at = "fn"
  BY DEF FnThrows, At
<1>3. \A i \in 1..Depth(t) : calls[t][i].at = "fn"
  BY <1>2, CallTypes DEF GraphInv, Nested
<1>4. UNCHANGED <<graph, exec, updated, objects, capturing, stream, broken, before, reserved, calls, log>>
  BY DEF FnThrows, graphVars, captureVars, poolVars
<1>5. /\ Bounded' /\ Thrown' /\ Nested' /\ Logged' /\ JustEnded' /\ Streams' /\ Held' /\ Owned'
      /\ calls' \in [Threads -> Seq(Call)]
  BY <1>1, <1>2, <1>3, <1>4, Quiet
<1>6. TypeOK'
  BY <1>1, <1>4 DEF GraphInv, TypeOK
<1> QED  BY <1>4, <1>5, <1>6, LaunchableKept DEF GraphInv

LEMMA InvUpdateFrom ==
    ASSUME GraphInv, NEW t \in Threads, NEW g \in Graphs, NEW h \in Graphs, UpdateFrom(t, g, h)
    PROVE  GraphInv'
<1>1. \A i \in 1..Depth(t) : calls[t][i].at = "fn"
  BY UserCodeInFn DEF UpdateFrom
<1>2. UNCHANGED <<graph, objects, capturing, stream, broken, before, reserved, calls, thrown, log>>
  BY DEF UpdateFrom, captureVars, poolVars, callVars
<1>3. thrown'[t] => Depth(t) > 0
  BY <1>2 DEF GraphInv, Thrown
<1>4. /\ Bounded' /\ Thrown' /\ Nested' /\ Logged' /\ JustEnded' /\ Streams' /\ Held' /\ Owned'
      /\ calls' \in [Threads -> Seq(Call)]
  BY <1>1, <1>2, <1>3, Quiet
<1>5. /\ exec' = [exec EXCEPT ![g] = graph[h]] /\ updated' = updated \cup {g} /\ graph[h] # None
      /\ exec \in [Graphs -> {None} \cup Captures]
  BY DEF UpdateFrom, GraphInv, TypeOK
<1>6. TypeOK'
  BY <1>2, <1>5 DEF GraphInv, TypeOK
<1>7. Launchable'
  <2>1. \A k \in Graphs : Accepted(k)' = Accepted(k)
    BY <1>2 DEF Accepted
  <2> SUFFICES ASSUME NEW k \in Graphs, exec'[k] # None
               PROVE  /\ exec'[k] \in 1..Len(log)
                      /\ k \in updated' => log[exec'[k]].fate \in Complete
                      /\ k \notin updated' =>
                            exec'[k] \in Accepted(k) /\ \A c \in Accepted(k) : c <= exec'[k]
    BY <1>2, <2>1 DEF Launchable
  <2>2. CASE k = g
    BY <1>5, <2>2 DEF GraphInv, Held
  <2>3. CASE k # g
    BY <1>5, <2>3 DEF GraphInv, Launchable
  <2> QED  BY <2>2, <2>3
<1> QED  BY <1>4, <1>6, <1>7 DEF GraphInv

\* A name that is not capturing has no call; its new capture is the last.
LEMMA InvBegin ==
    ASSUME GraphInv, NEW t \in Threads, NEW g \in Graphs, CaptureBegin(t, g)
    PROVE  GraphInv'
<1>1. PICK r : r = [name |-> g, at |-> "begin", capture |-> Len(log) + 1]
  OBVIOUS
<1>2. PICK e : e = [name |-> g, fate |-> "called"]
  OBVIOUS
<1>3. PICK m \in Nat : m = Len(log) /\ m < MaxCaptures /\ MaxCaptures \in Nat
  BY LogTypes DEF CaptureBegin
<1>4. PICK n \in Nat : n = Depth(t)
  BY CallTypes
<1>5. r \in Call /\ r.name = g /\ r.at = "begin" /\ r.capture = m + 1
  BY <1>1, <1>3 DEF Call, Captures
<1>6. e \in Log /\ e.name = g /\ e.fate = "called"
  BY <1>2 DEF Log, Fates
<1>7. /\ log' \in Seq(Log) /\ Len(log') = m + 1
      /\ \A c \in 1..m : log'[c] = log[c]
      /\ log'[m + 1] = e
  <2>1. log' = Append(log, e) /\ log \in Seq(Log)
    BY <1>2, LogTypes DEF CaptureBegin
  <2> QED  BY <2>1, <1>3, <1>6, AppendProperties
<1>8. PICK s : s = Append(calls[t], r)
  OBVIOUS
<1>9. s \in Seq(Call) /\ Len(s) = n + 1 /\ s[n + 1] = r /\ \A i \in 1..n : s[i] = calls[t][i]
  <2>1. calls[t] \in Seq(Call) /\ Len(calls[t]) = n
    BY <1>4, CallTypes DEF Depth
  <2> QED  BY <2>1, <1>5, <1>8, AppendProperties
<1>10. /\ calls' \in [Threads -> Seq(Call)]
       /\ calls'[t] = s
       /\ \A u \in Threads : u # t => calls'[u] = calls[u]
  <2>1. calls' = [calls EXCEPT ![t] = s]
    BY <1>1, <1>8 DEF CaptureBegin
  <2> QED  BY <2>1, <1>9 DEF GraphInv, TypeOK
<1>11. \A u \in Threads : Depth(u)' = IF u = t THEN n + 1 ELSE Depth(u)
  BY <1>9, <1>10 DEF Depth
<1>12. \A i \in 1..n : calls[t][i].at = "fn" /\ calls[t][i].name # g
  <2>1. \A i \in 1..n : calls[t][i].at = "fn"
    BY <1>4, UserCodeInFn DEF CaptureBegin
  <2>2. Owner[g] = t /\ ~capturing[g]
    BY DEF CaptureBegin
  <2> QED  BY <1>4, <2>1, <2>2 DEF GraphInv, Streams, Waiting
<1>13. UNCHANGED <<graph, exec, updated, objects, capturing, stream, broken, reserved, thrown>>
  BY DEF CaptureBegin, graphVars, captureVars
<1>14. \A u \in Threads : \A i \in 1..Depth(u)' :
          \/ u = t /\ i = n + 1 /\ calls'[u][i] = r
          \/ (i \in 1..Depth(u) /\ calls'[u][i] = calls[u][i])
  <2> SUFFICES ASSUME NEW u \in Threads, NEW i \in 1..Depth(u)'
               PROVE  \/ u = t /\ i = n + 1 /\ calls'[u][i] = r
                      \/ (i \in 1..Depth(u) /\ calls'[u][i] = calls[u][i])
    OBVIOUS
  <2>1. CASE u # t
    BY <1>10, <1>11, <2>1
  <2>2. CASE u = t
    <3>1. i \in 1..n + 1
      BY <1>11, <2>2
    <3> QED  BY <1>4, <1>9, <1>10, <2>2, <3>1
  <2> QED  BY <2>1, <2>2
<1>15. \A u \in Threads : \A i \in 1..Depth(u) :
          /\ i \in 1..Depth(u)' /\ calls'[u][i] = calls[u][i]
          /\ calls[u][i].capture \in 1..m /\ calls[u][i].name # g
  <2> SUFFICES ASSUME NEW u \in Threads, NEW i \in 1..Depth(u)
               PROVE  /\ i \in 1..Depth(u)' /\ calls'[u][i] = calls[u][i]
                      /\ calls[u][i].capture \in 1..m /\ calls[u][i].name # g
    OBVIOUS
  <2>1. calls[u][i].capture \in 1..m
    BY <1>3 DEF GraphInv, Logged
  <2>2. CASE u # t
    <3>1. Owner[g] = t /\ Owner[calls[u][i].name] = u
      BY DEF CaptureBegin, GraphInv, Nested
    <3> QED  BY <1>10, <1>11, <2>1, <2>2, <3>1
  <2>3. CASE u = t
    <3>1. i \in 1..n
      BY <1>4, <2>3
    <3> QED  BY <1>9, <1>10, <1>11, <1>12, <2>1, <2>3, <3>1
  <2> QED  BY <2>2, <2>3
<1>16. TypeOK'
  <2>1. before' \in [Graphs -> 0..MaxReserved]
    BY DEF CaptureBegin, GraphInv, TypeOK
  <2> QED  BY <1>7, <1>10, <1>13, <2>1 DEF GraphInv, TypeOK
<1>17. Bounded'
  BY <1>3, <1>7 DEF Bounded
<1>18. Thrown'
  BY <1>4, <1>11, <1>13 DEF GraphInv, Thrown
<1>19. Nested'
  <2> SUFFICES ASSUME NEW u \in Threads, NEW i \in 1..Depth(u)'
               PROVE  /\ Owner[calls'[u][i].name] = u
                      /\ i < Depth(u)' => calls'[u][i].at = "fn"
                      /\ \A j \in 1..Depth(u)' : j # i => calls'[u][j].name # calls'[u][i].name
    BY DEF Nested
  <2>1. Owner[calls'[u][i].name] = u
    <3>1. CASE u = t /\ i = n + 1 /\ calls'[u][i] = r
      BY <1>5, <3>1 DEF CaptureBegin
    <3>2. CASE i \in 1..Depth(u) /\ calls'[u][i] = calls[u][i]
      BY <3>2 DEF GraphInv, Nested
    <3> QED  BY <1>14, <3>1, <3>2
  <2>2. i < Depth(u)' => calls'[u][i].at = "fn"
    <3>1. CASE u # t
      BY <1>10, <1>11, <3>1 DEF GraphInv, Nested
    <3>2. CASE u = t
      <4>1. i < Depth(u)' => i \in 1..n
        BY <1>11, <3>2
      <4> QED  BY <1>9, <1>10, <1>12, <3>2, <4>1
    <3> QED  BY <3>1, <3>2
  <2>3. ASSUME NEW j \in 1..Depth(u)', j # i
        PROVE  calls'[u][j].name # calls'[u][i].name
    <3>1. CASE i \in 1..Depth(u) /\ j \in 1..Depth(u)
      BY <1>15, <2>3, <3>1 DEF GraphInv, Nested
    <3>2. CASE i \notin 1..Depth(u)
      <4>1. i = n + 1 /\ u = t /\ calls'[u][i] = r
        BY <1>14, <3>2
      <4>2. j \in 1..Depth(u)
        BY <1>14, <2>3, <4>1
      <4> QED  BY <1>5, <1>15, <4>1, <4>2
    <3>3. CASE j \notin 1..Depth(u)
      <4>1. j = n + 1 /\ u = t /\ calls'[u][j] = r
        BY <1>14, <2>3, <3>3
      <4>2. i \in 1..Depth(u)
        BY <1>14, <2>3, <4>1
      <4> QED  BY <1>5, <1>15, <4>1, <4>2
    <3> QED  BY <3>1, <3>2, <3>3
  <2> QED  BY <2>1, <2>2, <2>3
<1>20. Logged'
  <2> SUFFICES ASSUME NEW u \in Threads, NEW i \in 1..Depth(u)'
               PROVE  /\ calls'[u][i].capture \in 1..m + 1
                      /\ log'[calls'[u][i].capture].name = calls'[u][i].name
                      /\ \A d \in 1..m + 1 :
                            log'[d].name = calls'[u][i].name => d <= calls'[u][i].capture
                      /\ calls'[u][i].at = "begin" => log'[calls'[u][i].capture].fate = "called"
                      /\ calls'[u][i].at = "fn" => log'[calls'[u][i].capture].fate = "open"
    BY <1>7 DEF Logged
  <2>1. CASE calls'[u][i] = r
    BY <1>5, <1>6, <1>7, <2>1
  <2>2. CASE i \in 1..Depth(u) /\ calls'[u][i] = calls[u][i]
    <3>1. /\ calls[u][i].capture \in 1..m
          /\ log[calls[u][i].capture].name = calls[u][i].name
          /\ \A d \in 1..m : log[d].name = calls[u][i].name => d <= calls[u][i].capture
          /\ calls[u][i].at = "begin" => log[calls[u][i].capture].fate = "called"
          /\ calls[u][i].at = "fn" => log[calls[u][i].capture].fate = "open"
      BY <1>3, <2>2 DEF GraphInv, Logged
    <3>2. \A d \in 1..m + 1 : log'[d].name = calls[u][i].name => d \in 1..m /\ log'[d] = log[d]
      BY <1>6, <1>7, <1>15, <2>2
    <3> QED  BY <1>7, <2>2, <3>1, <3>2
  <2> QED  BY <1>14, <2>1, <2>2
<1>21. JustEnded'
  <2> SUFFICES ASSUME NEW u \in Threads, NEW i \in 1..Depth(u)',
                      calls'[u][i].at = "ended", ~thrown'[u]
               PROVE  /\ graph'[calls'[u][i].name] = calls'[u][i].capture
                      /\ log'[calls'[u][i].capture].fate = "ended"
    BY DEF JustEnded
  <2>1. i \in 1..Depth(u) /\ calls'[u][i] = calls[u][i]
    BY <1>5, <1>14
  <2> QED  BY <1>7, <1>13, <1>15, <2>1 DEF GraphInv, JustEnded
<1>22. Streams'
  <2>1. \A h \in Graphs : Owner[h] \in Threads
    BY GraphAssumption
  <2>2. \A h \in Graphs : \A i : (i \in 1..Depth(Owner[h])' /\ Waiting(h, i)') <=>
                                 (i \in 1..Depth(Owner[h]) /\ Waiting(h, i))
    <3> SUFFICES ASSUME NEW h \in Graphs, NEW i
                 PROVE  (i \in 1..Depth(Owner[h])' /\ Waiting(h, i)') <=>
                        (i \in 1..Depth(Owner[h]) /\ Waiting(h, i))
      OBVIOUS
    <3>1. ASSUME i \in 1..Depth(Owner[h])', Waiting(h, i)'
          PROVE  i \in 1..Depth(Owner[h]) /\ Waiting(h, i)
      BY <1>5, <1>14, <2>1, <3>1 DEF Waiting
    <3>2. ASSUME i \in 1..Depth(Owner[h]), Waiting(h, i)
          PROVE  i \in 1..Depth(Owner[h])' /\ Waiting(h, i)'
      BY <1>15, <2>1, <3>2 DEF Waiting
    <3> QED  BY <3>1, <3>2
  <2>3. \A h \in Graphs : \A i \in 1..Depth(Owner[h]) : calls'[Owner[h]][i] = calls[Owner[h]][i]
    BY <1>15, <2>1
  <2> QED  BY <1>13, <2>2, <2>3 DEF GraphInv, Streams
<1>23. Held'
  BY <1>3, <1>7, <1>13 DEF GraphInv, Held
<1>24. Owned'
  BY <1>13 DEF GraphInv, Owned
<1>25. Launchable'
  <2>1. \A h \in Graphs : Accepted(h)' = Accepted(h)
    BY <1>3, <1>6, <1>7 DEF Accepted
  <2> QED  BY <1>3, <1>7, <1>13, <2>1 DEF GraphInv, Launchable
<1> QED  BY <1>16, <1>17, <1>18, <1>19, <1>20, <1>21, <1>22, <1>23, <1>24, <1>25 DEF GraphInv

-----------------------------------------------------------------------------
(* The end of a capture *)

\* What is left of a thread's calls waits for its functions.
LEMMA LeftInFn ==
    ASSUME GraphInv, NEW t \in Threads, Depth(t) > 0, calls' = Left(t)
    PROVE  /\ \A i \in 1..Depth(t)' : calls'[t][i].at = "fn"
           /\ \A u \in Threads : \A i \in 1..Depth(u) :
                 ~(u = t /\ i = Depth(t)) => i \in 1..Depth(u)' /\ calls'[u][i] = calls[u][i]
<1>1. /\ \A u \in Threads : Depth(u)' = IF u = t THEN Depth(t) - 1 ELSE Depth(u)
      /\ \A u \in Threads : \A i \in 1..Depth(u)' : i \in 1..Depth(u) /\ calls'[u][i] = calls[u][i]
  BY CallLeft
<1>2. \A u \in Threads : Depth(u) \in Nat
  BY CallTypes
<1>3. ASSUME NEW i \in 1..Depth(t)'
      PROVE  calls'[t][i].at = "fn"
  <2>1. i \in 1..Depth(t) /\ i < Depth(t)
    BY <1>1, <1>2
  <2> QED  BY <1>1, <2>1 DEF GraphInv, Nested
<1>4. ASSUME NEW u \in Threads, NEW i \in 1..Depth(u), ~(u = t /\ i = Depth(t))
      PROVE  i \in 1..Depth(u)'
  BY <1>1, <1>2, <1>4
<1> QED  BY <1>1, <1>3, <1>4

\* The stream of the innermost call leaves its capture, and no other does.
LEMMA StreamsClosed ==
    ASSUME GraphInv, NEW t \in Threads, Depth(t) > 0, Narrowed, Others(t),
           Depth(t) \in 1..Depth(t)' => calls'[t][Depth(t)].at # "fn",
           \A u \in Threads : \A i \in 1..Depth(u) :
              ~(u = t /\ i = Depth(t)) => i \in 1..Depth(u)',
           capturing' = [capturing EXCEPT ![Top(t)] = FALSE],
           stream' = [stream EXCEPT ![Top(t)] = None]
    PROVE  Streams'
<1>1. /\ Depth(t) \in 1..Depth(t) /\ Top(t) \in Graphs /\ Owner[Top(t)] = t
      /\ calls[t][Depth(t)].name = Top(t)
  BY Innermost DEF Top
<1>2. capturing \in [Graphs -> BOOLEAN] /\ stream \in [Graphs -> {None} \cup Captures]
  BY DEF GraphInv, TypeOK
<1>3. /\ capturing'[Top(t)] = FALSE /\ stream'[Top(t)] = None
      /\ \A g \in Graphs : g # Top(t) => capturing'[g] = capturing[g] /\ stream'[g] = stream[g]
  BY <1>1, <1>2
<1>4. \A g \in Graphs : Owner[g] \in Threads
  BY GraphAssumption
<1>5. PICK k \in Graphs : k = Top(t) /\ Owner[k] = t
  BY <1>1
<1>6. \A i \in 1..Depth(t)' : ~Waiting(k, i)'
  <2> SUFFICES ASSUME NEW i \in 1..Depth(t)', calls'[t][i].name = k, calls'[t][i].at = "fn"
               PROVE  FALSE
    BY <1>5 DEF Waiting
  <2>1. i \in 1..Depth(t) /\ calls[t][i].name = calls[t][Depth(t)].name
    BY <1>1, <1>5 DEF Narrowed
  <2>2. i = Depth(t)
    BY <1>1, <2>1 DEF GraphInv, Nested
  <2> QED  BY <2>2
<1> SUFFICES ASSUME NEW g \in Graphs
             PROVE  /\ capturing'[g] <=> \E i \in 1..Depth(Owner[g])' : Waiting(g, i)'
                    /\ capturing'[g] <=> stream'[g] # None
                    /\ \A i \in 1..Depth(Owner[g])' :
                          Waiting(g, i)' => stream'[g] = calls'[Owner[g]][i].capture
  BY DEF Streams
<1>7. CASE g = k
  BY <1>3, <1>5, <1>6, <1>7
<1>8. CASE g # k
  <2>1. \A i : (i \in 1..Depth(Owner[g])' /\ Waiting(g, i)') <=>
               (i \in 1..Depth(Owner[g]) /\ Waiting(g, i))
    BY <1>1, <1>4, <1>5, <1>8 DEF Narrowed, Others, Waiting
  <2>2. \A i \in 1..Depth(Owner[g])' :
           i \in 1..Depth(Owner[g]) /\ calls'[Owner[g]][i].capture = calls[Owner[g]][i].capture
    BY <1>4 DEF Narrowed
  <2> QED  BY <1>3, <1>5, <1>8, <2>1, <2>2 DEF GraphInv, Streams
<1> QED  BY <1>7, <1>8

-----------------------------------------------------------------------------
(* The steps of capture *)

LEMMA InvStreamBegin ==
    ASSUME GraphInv, NEW t \in Threads, StreamBeginCapture(t)
    PROVE  GraphInv'
<1>1. Depth(t) > 0 /\ calls[t][Depth(t)].at = "begin" /\ At(t, "begin")
  BY DEF StreamBeginCapture, At
<1>2. PICK k \in Graphs : k = Top(t) /\ Owner[k] = t
  BY <1>1, Innermost
<1>3. PICK c \in 1..Len(log) : c = This(t) /\ c \in Captures /\ c # None /\ log[c].fate = "called"
  BY <1>1, Innermost, LogTypes
<1>4. calls' = Moved(t, "fn") /\ log' = Fate(t, "open")
  BY DEF StreamBeginCapture
<1>5. /\ calls' \in [Threads -> Seq(Call)] /\ Narrowed /\ Others(t)
      /\ calls'[t][Depth(t)].at = "fn"
      /\ \A u \in Threads : Depth(u)' = Depth(u)
  BY <1>1, <1>4, MovedNarrows
<1>6. /\ log' \in Seq(Log) /\ Len(log') = Len(log)
      /\ \A d \in 1..Len(log) : log'[d].name = log[d].name /\ (d # c => log'[d].fate = log[d].fate)
  BY <1>1, <1>3, <1>4, FateSet DEF Fates
<1>7. UNCHANGED <<graph, exec, updated, objects, broken, before, reserved, thrown>>
  BY DEF StreamBeginCapture, graphVars, poolVars
<1>8. capturing' = [capturing EXCEPT ![k] = TRUE] /\ stream' = [stream EXCEPT ![k] = c]
  BY <1>2, <1>3 DEF StreamBeginCapture
<1>9. TypeOK'
  BY <1>3, <1>5, <1>6, <1>7, <1>8 DEF GraphInv, TypeOK
<1>10. Bounded' /\ Owned'
  BY <1>6, <1>7 DEF GraphInv, Bounded, Owned
<1>11. Thrown'
  BY <1>5, <1>7 DEF GraphInv, Thrown
<1>12. Nested'
  BY <1>5, CallTypes, NestedKept
<1>13. Logged'
  BY <1>1, <1>4, <1>5, LoggedFate DEF Fates
<1>14. JustEnded'
  <2>1. \A i \in 1..Depth(t)' : calls'[t][i].at # "ended"
    BY <1>1, <1>5, EndedIsInnermost DEF Others
  <2>2. \A d \in 1..Len(log) : Owner[log[d].name] # t => log'[d].fate = log[d].fate
    BY <1>1, <1>2, <1>3, <1>6, Innermost
  <2> QED  BY <1>5, <1>7, <2>1, <2>2, JustEndedKept
<1>15. Streams'
  <2>1. Depth(t) \in 1..Depth(t) /\ calls[t][Depth(t)].name = k /\ calls[t][Depth(t)].capture = c
    BY <1>1, <1>2, <1>3, Innermost DEF Top, This
  <2>2. Depth(t) \in 1..Depth(t)' /\ calls'[t][Depth(t)].name = k /\ calls'[t][Depth(t)].capture = c
    BY <1>5, <2>1 DEF Narrowed
  <2>3. \A i \in 1..Depth(t)' : calls'[t][i].name = k => i = Depth(t)
    BY <1>5, <2>1 DEF GraphInv, Nested, Narrowed
  <2>4. /\ capturing'[k] = TRUE /\ stream'[k] = c
        /\ \A g \in Graphs : g # k => capturing'[g] = capturing[g] /\ stream'[g] = stream[g]
    BY <1>2, <1>8 DEF GraphInv, TypeOK
  <2> SUFFICES ASSUME NEW g \in Graphs
               PROVE  /\ capturing'[g] <=> \E i \in 1..Depth(Owner[g])' : Waiting(g, i)'
                      /\ capturing'[g] <=> stream'[g] # None
                      /\ \A i \in 1..Depth(Owner[g])' :
                            Waiting(g, i)' => stream'[g] = calls'[Owner[g]][i].capture
    BY DEF Streams
  <2>5. CASE g = k
    <3>1. \A i \in 1..Depth(t)' : Waiting(k, i)' <=> i = Depth(t)
      BY <1>2, <1>5, <2>2, <2>3 DEF Waiting
    <3> QED  BY <1>2, <1>3, <2>2, <2>4, <2>5, <3>1
  <2>6. CASE g # k
    <3>1. Owner[g] \in Threads
      BY GraphAssumption
    <3>2. \A i : (i \in 1..Depth(Owner[g])' /\ Waiting(g, i)') <=>
                 (i \in 1..Depth(Owner[g]) /\ Waiting(g, i))
      BY SMTT(30), <1>5, <2>1, <2>6, <3>1 DEF Narrowed, Others, Waiting
    <3>3. \A i \in 1..Depth(Owner[g])' :
             i \in 1..Depth(Owner[g]) /\ calls'[Owner[g]][i].capture = calls[Owner[g]][i].capture
      BY <3>1, <1>5 DEF Narrowed
    <3> QED  BY <2>4, <2>6, <3>2, <3>3 DEF GraphInv, Streams
  <2> QED  BY <2>5, <2>6
<1>16. Held' /\ Launchable'
  BY <1>1, <1>3, <1>4, <1>7, HeldFate, LaunchableFate DEF Fates, Complete
<1> QED  BY <1>9, <1>10, <1>11, <1>12, <1>13, <1>14, <1>15, <1>16 DEF GraphInv

LEMMA InvStreamBeginFails ==
    ASSUME GraphInv, NEW t \in Threads, StreamBeginCaptureFails(t)
    PROVE  GraphInv'
<1>1. Depth(t) > 0 /\ calls[t][Depth(t)].at = "begin" /\ At(t, "begin")
  BY DEF StreamBeginCaptureFails, At
<1>2. PICK c \in 1..Len(log) : c = This(t) /\ Owner[log[c].name] = t /\ log[c].fate = "called"
  BY <1>1, Innermost
<1>3. calls' = Left(t) /\ log' = Fate(t, "lost") /\ ThrownPast(t, 1)
  BY DEF StreamBeginCaptureFails
<1>4. /\ calls' \in [Threads -> Seq(Call)] /\ Narrowed /\ Others(t)
      /\ Depth(t) \notin 1..Depth(t)'
      /\ \A u \in Threads : Depth(u)' <= Depth(u)
  BY <1>1, <1>3, LeftNarrows
<1>5. /\ \A i \in 1..Depth(t)' : calls'[t][i].at = "fn"
      /\ \A u \in Threads : \A i \in 1..Depth(u) :
            ~(u = t /\ i = Depth(t)) => i \in 1..Depth(u)' /\ calls'[u][i] = calls[u][i]
  BY <1>1, <1>3, LeftInFn
<1>6. /\ log' \in Seq(Log) /\ Len(log') = Len(log)
      /\ \A d \in 1..Len(log) : log'[d].name = log[d].name /\ (d # c => log'[d].fate = log[d].fate)
  BY <1>1, <1>2, <1>3, FateSet DEF Fates
<1>7. UNCHANGED <<graph, exec, updated, objects, capturing, stream, broken, before, reserved>>
  BY DEF StreamBeginCaptureFails, graphVars, captureVars, poolVars
<1>8. /\ thrown' \in [Threads -> BOOLEAN] /\ \A u \in Threads \ {t} : thrown'[u] = thrown[u]
      /\ thrown'[t] <=> Depth(t) > 1
  BY <1>3, ThrownTypes
<1>9. \A u \in Threads : Depth(u)' = IF u = t THEN Depth(t) - 1 ELSE Depth(u)
  BY <1>1, <1>3, CallLeft
<1>10. \A u \in Threads : Depth(u) \in Nat /\ Depth(u)' \in Nat
  BY <1>1, <1>9, CallTypes
<1>11. TypeOK'
  BY <1>4, <1>6, <1>7, <1>8 DEF GraphInv, TypeOK
<1>12. Bounded' /\ Owned'
  BY <1>6, <1>7 DEF GraphInv, Bounded, Owned
<1>13. Thrown'
  BY <1>8, <1>9, <1>10 DEF GraphInv, Thrown
<1>14. Nested'
  BY <1>4, <1>10, NestedKept
<1>15. Logged'
  BY <1>1, <1>3, <1>4, LoggedFate DEF Fates
<1>16. JustEnded'
  <2>1. \A d \in 1..Len(log) : Owner[log[d].name] # t => log'[d].fate = log[d].fate
    BY <1>2, <1>6
  <2>2. \A i \in 1..Depth(t)' : calls'[t][i].at # "ended"
    BY <1>5
  <2> QED  BY <1>4, <1>7, <1>8, <2>1, <2>2, JustEndedKept
<1>17. Streams'
  <2>1. \A u \in Threads : \A i \in 1..Depth(u) :
           calls[u][i].at = "fn" => i \in 1..Depth(u)' /\ calls'[u][i].at = "fn"
    BY <1>1, <1>5
  <2>2. \A u \in Threads : \A i \in 1..Depth(u)' : calls'[u][i].at = "fn" => calls[u][i].at = "fn"
    BY <1>4 DEF Others
  <2> QED  BY <1>4, <1>7, <2>1, <2>2, StreamsKept
<1>18. Held' /\ Launchable'
  BY <1>1, <1>2, <1>3, <1>7, HeldFate, LaunchableFate DEF Fates, Complete
<1> QED  BY <1>11, <1>12, <1>13, <1>14, <1>15, <1>16, <1>17, <1>18 DEF GraphInv

\* The end of the device's capture, whether it has a graph to show or not.
LEMMA Ends ==
    ASSUME GraphInv, NEW t \in Threads, StreamEnded(t), NEW f \in Fates, f # "accepted",
           log' = Fate(t, f),
           \A g \in Graphs : Owner[g] # t => graph'[g] = graph[g],
           UNCHANGED <<exec, updated>>,
           \A u \in Threads \ {t} : thrown'[u] = thrown[u],
           \/ f = "ended" /\ graph'[Top(t)] = This(t)
           \/ f = "lost" /\ thrown'[t]
    PROVE  /\ calls' \in [Threads -> Seq(Call)] /\ log' \in Seq(Log)
           /\ capturing' \in [Graphs -> BOOLEAN] /\ stream' \in [Graphs -> {None} \cup Captures]
           /\ Bounded' /\ Thrown' /\ Nested' /\ Logged' /\ JustEnded' /\ Streams' /\ Launchable'
<1>1. Depth(t) > 0 /\ calls[t][Depth(t)].at = "fn" /\ At(t, "fn") /\ ~thrown[t]
  BY DEF StreamEnded, At
<1>2. PICK k \in Graphs : k = Top(t) /\ Owner[k] = t
  BY <1>1, Innermost
<1>3. PICK c \in 1..Len(log) : c = This(t) /\ log[c].name = k /\ log[c].fate = "open"
  BY <1>1, <1>2, Innermost
<1>4. calls' = Moved(t, "ended")
  BY DEF StreamEnded
<1>5. /\ calls' \in [Threads -> Seq(Call)] /\ Narrowed /\ Others(t)
      /\ calls'[t][Depth(t)].at = "ended"
      /\ \A u \in Threads : Depth(u)' = Depth(u)
  BY <1>1, <1>4, MovedNarrows
<1>6. /\ log' \in Seq(Log) /\ Len(log') = Len(log)
      /\ \A d \in 1..Len(log) : log'[d].name = log[d].name /\ (d # c => log'[d].fate = log[d].fate)
      /\ log'[c].fate = f
  BY <1>1, <1>3, FateSet
<1>7. Depth(t) \in 1..Depth(t) /\ calls[t][Depth(t)].name = k /\ calls[t][Depth(t)].capture = c
  BY <1>1, <1>2, <1>3, Innermost DEF Top, This
<1>8. capturing' \in [Graphs -> BOOLEAN] /\ stream' \in [Graphs -> {None} \cup Captures]
  BY DEF GraphInv, TypeOK, StreamEnded
<1>9. Bounded'
  BY <1>6 DEF GraphInv, Bounded
<1>10. Thrown'
  BY <1>1, <1>5 DEF GraphInv, Thrown
<1>11. Nested'
  BY <1>5, CallTypes, NestedKept
<1>12. Logged'
  BY <1>1, <1>5, LoggedFate
<1>13. JustEnded'
  <2>1. \A d \in 1..Len(log) : Owner[log[d].name] # t => log'[d].fate = log[d].fate
    BY <1>2, <1>3, <1>6
  <2>2. ASSUME NEW i \in 1..Depth(t)', calls'[t][i].at = "ended", ~thrown'[t]
        PROVE  /\ graph'[calls'[t][i].name] = calls'[t][i].capture
               /\ log'[calls'[t][i].capture].fate = "ended"
    <3>1. i = Depth(t)
      <4>1. i \in 1..Depth(t)
        BY <1>5
      <4>2. CASE i # Depth(t)
        BY <1>1, <1>5, <2>2, <4>1, <4>2, EndedIsInnermost DEF Others
      <4> QED  BY <4>2
    <3>2. calls'[t][i].name = k /\ calls'[t][i].capture = c
      BY <1>5, <1>7, <3>1 DEF Narrowed
    <3>3. f = "ended" /\ graph'[k] = c
      BY <1>2, <1>3, <2>2
    <3> QED  BY <1>6, <3>2, <3>3
  <2> QED  BY <1>5, <2>1, <2>2, JustEndedKept
<1>14. Streams'
  <2>1. /\ capturing' = [capturing EXCEPT ![Top(t)] = FALSE]
        /\ stream' = [stream EXCEPT ![Top(t)] = None]
    BY DEF StreamEnded
  <2> QED  BY <1>1, <1>5, <2>1, StreamsClosed
<1>15. Launchable'
  BY <1>1, <1>3, LaunchableFate DEF Complete
<1> QED  BY <1>5, <1>6, <1>8, <1>9, <1>10, <1>11, <1>12, <1>13, <1>14, <1>15

LEMMA InvEndCapture ==
    ASSUME GraphInv, NEW t \in Threads, EndCapture(t)
    PROVE  GraphInv'
<1>1. StreamEnded(t) /\ log' = Fate(t, "ended") /\ Depth(t) > 0 /\ At(t, "fn")
  BY DEF EndCapture, StreamEnded, At
<1>2. PICK k \in Graphs : k = Top(t) /\ Owner[k] = t
  BY <1>1, Innermost
<1>3. PICK c \in 1..Len(log) :
         c = This(t) /\ c \in Captures /\ c # None /\ log[c].name = k /\ log[c].fate = "open"
  BY <1>1, <1>2, Innermost, LogTypes
<1>4. graph \in [Graphs -> {None} \cup Captures] /\ graph' = [graph EXCEPT ![k] = c]
  BY <1>2, <1>3 DEF GraphInv, TypeOK, EndCapture
<1>5. graph'[k] = c /\ \A g \in Graphs : g # k => graph'[g] = graph[g]
  BY <1>4
<1>6. UNCHANGED <<exec, updated, broken, thrown, before, reserved>>
  BY DEF EndCapture, poolVars
<1>7. /\ calls' \in [Threads -> Seq(Call)] /\ log' \in Seq(Log)
      /\ capturing' \in [Graphs -> BOOLEAN] /\ stream' \in [Graphs -> {None} \cup Captures]
      /\ Bounded' /\ Thrown' /\ Nested' /\ Logged' /\ JustEnded' /\ Streams' /\ Launchable'
  <2>1. graph'[Top(t)] = This(t)
    BY <1>2, <1>3, <1>5
  <2>2. \A g \in Graphs : Owner[g] # t => graph'[g] = graph[g]
    BY <1>2, <1>5
  <2> QED  BY <1>1, <1>6, <2>1, <2>2, Ends DEF Fates
<1>8. /\ Len(log') = Len(log)
      /\ \A d \in 1..Len(log) : log'[d].name = log[d].name /\ (d # c => log'[d].fate = log[d].fate)
      /\ log'[c].fate = "ended"
  BY <1>1, <1>3, FateSet DEF Fates
<1>9. objects' = (objects \ {graph[k]}) \cup {c}
  BY <1>2, <1>3 DEF EndCapture
<1>10. TypeOK'
  BY <1>3, <1>4, <1>6, <1>7, <1>9 DEF GraphInv, TypeOK
<1>11. Held'
  BY <1>3, <1>5, <1>8 DEF GraphInv, Held, Complete
<1>12. Owned'
  <2>1. \A g \in Graphs : g # k /\ graph[g] # None => graph[g] # graph[k]
    BY DEF GraphInv, Held
  <2>2. \A x : x \in objects' <=> x # None /\ \E g \in Graphs : x = graph'[g]
    BY <1>3, <1>5, <1>9, <2>1 DEF GraphInv, Owned
  <2> QED  BY <2>2 DEF Owned
<1> QED  BY <1>7, <1>10, <1>11, <1>12 DEF GraphInv

LEMMA InvEndCaptureFails ==
    ASSUME GraphInv, NEW t \in Threads, EndCaptureFails(t)
    PROVE  GraphInv'
<1>1. StreamEnded(t) /\ log' = Fate(t, "lost") /\ Depth(t) > 0 /\ At(t, "fn")
  BY DEF EndCaptureFails, StreamEnded, At
<1>2. PICK k \in Graphs : k = Top(t) /\ Owner[k] = t
  BY <1>1, Innermost
<1>3. PICK c \in 1..Len(log) : c = This(t) /\ log[c].name = k /\ log[c].fate = "open"
  BY <1>1, <1>2, Innermost
<1>4. graph \in [Graphs -> {None} \cup Captures] /\ graph' = [graph EXCEPT ![k] = None]
  BY <1>2 DEF GraphInv, TypeOK, EndCaptureFails
<1>5. graph'[k] = None /\ \A g \in Graphs : g # k => graph'[g] = graph[g]
  BY <1>4
<1>6. UNCHANGED <<exec, updated, before, reserved>> /\ broken' = broken \ {c}
  BY <1>3 DEF EndCaptureFails, poolVars
<1>7. /\ thrown' \in [Threads -> BOOLEAN] /\ \A u \in Threads \ {t} : thrown'[u] = thrown[u]
      /\ thrown'[t]
  BY <1>1, ThrownTypes DEF EndCaptureFails
<1>8. /\ calls' \in [Threads -> Seq(Call)] /\ log' \in Seq(Log)
      /\ capturing' \in [Graphs -> BOOLEAN] /\ stream' \in [Graphs -> {None} \cup Captures]
      /\ Bounded' /\ Thrown' /\ Nested' /\ Logged' /\ JustEnded' /\ Streams' /\ Launchable'
  <2>1. \A g \in Graphs : Owner[g] # t => graph'[g] = graph[g]
    BY <1>2, <1>5
  <2> QED  BY <1>1, <1>6, <1>7, <2>1, Ends DEF Fates
<1>9. /\ Len(log') = Len(log)
      /\ \A d \in 1..Len(log) : log'[d].name = log[d].name /\ (d # c => log'[d].fate = log[d].fate)
  BY <1>1, <1>3, FateSet DEF Fates
<1>10. objects' = objects \ {graph[k]}
  BY <1>2 DEF EndCaptureFails
<1>11. TypeOK'
  BY <1>4, <1>6, <1>7, <1>8, <1>10 DEF GraphInv, TypeOK
<1>12. Held'
  BY <1>3, <1>5, <1>9 DEF GraphInv, Held, Complete
<1>13. Owned'
  <2>1. \A g \in Graphs : g # k /\ graph[g] # None => graph[g] # graph[k]
    BY DEF GraphInv, Held
  <2>2. \A x : x \in objects' <=> x # None /\ \E g \in Graphs : x = graph'[g]
    BY <1>5, <1>10, <2>1 DEF GraphInv, Owned
  <2> QED  BY <2>2 DEF Owned
<1> QED  BY <1>8, <1>11, <1>12, <1>13 DEF GraphInv

LEMMA InvRejectGrowth ==
    ASSUME GraphInv, NEW t \in Threads, RejectGrowth(t)
    PROVE  GraphInv'
<1>1. /\ Depth(t) > 0 /\ calls[t][Depth(t)].at = "ended" /\ At(t, "ended") /\ ~thrown[t]
      /\ log' = Fate(t, "rejected") /\ ThrownPast(t, 0)
  BY DEF RejectGrowth, At
<1>2. PICK c \in 1..Len(log) : c = This(t) /\ Owner[log[c].name] = t /\ log[c].fate = "ended"
  BY <1>1, Innermost
<1>3. UNCHANGED <<graph, exec, updated, objects, capturing, stream, broken, before, reserved, calls>>
  BY DEF RejectGrowth, graphVars, captureVars, poolVars
<1>4. /\ calls' \in [Threads -> Seq(Call)] /\ Narrowed /\ Others(t)
      /\ \A u \in Threads : Depth(u)' = Depth(u)
  BY <1>3, SameNarrows
<1>5. /\ log' \in Seq(Log) /\ Len(log') = Len(log)
      /\ \A d \in 1..Len(log) : log'[d].name = log[d].name /\ (d # c => log'[d].fate = log[d].fate)
  BY <1>1, <1>2, FateSet DEF Fates
<1>6. /\ thrown' \in [Threads -> BOOLEAN] /\ \A u \in Threads \ {t} : thrown'[u] = thrown[u]
      /\ thrown'[t]
  BY <1>1, ThrownTypes
<1>7. TypeOK'
  BY <1>3, <1>4, <1>5, <1>6 DEF GraphInv, TypeOK
<1>8. Bounded' /\ Owned'
  BY <1>3, <1>5 DEF GraphInv, Bounded, Owned
<1>9. Thrown'
  BY <1>1, <1>4, <1>6 DEF GraphInv, Thrown
<1>10. Nested'
  BY <1>4, CallTypes, NestedKept
<1>11. Logged'
  <2>1. calls'[t][Depth(t)].at = "ended"
    BY <1>1, <1>3
  <2> QED  BY <1>1, <1>4, <2>1, LoggedFate DEF Fates
<1>12. JustEnded'
  <2>1. \A d \in 1..Len(log) : Owner[log[d].name] # t => log'[d].fate = log[d].fate
    BY <1>2, <1>5
  <2> QED  BY <1>3, <1>4, <1>6, <2>1, JustEndedKept
<1>13. Streams'
  BY <1>3, <1>4, StreamsKept
<1>14. Held' /\ Launchable'
  BY <1>1, <1>2, <1>3, HeldFate, LaunchableFate DEF Fates, Complete
<1> QED  BY <1>7, <1>8, <1>9, <1>10, <1>11, <1>12, <1>13, <1>14 DEF GraphInv

\* The capture accepted is the last of its name, and the graph is its graph.
LEMMA InvInstantiate ==
    ASSUME GraphInv, NEW t \in Threads, Instantiate(t)
    PROVE  GraphInv'
<1>1. /\ Depth(t) > 0 /\ calls[t][Depth(t)].at = "ended" /\ At(t, "ended") /\ ~thrown[t]
      /\ log' = Fate(t, "accepted") /\ calls' = Left(t)
  BY DEF Instantiate, At
<1>2. PICK k \in Graphs : k = Top(t) /\ Owner[k] = t
  BY <1>1, Innermost
<1>3. PICK c \in 1..Len(log) : /\ c = This(t) /\ c \in Captures /\ log[c].name = k
                               /\ log[c].fate = "ended" /\ graph[k] = c
                               /\ \A d \in 1..Len(log) : log[d].name = k => d <= c
  BY <1>1, <1>2, Innermost
<1>4. UNCHANGED <<graph, objects, thrown, capturing, stream, broken, before, reserved>>
  BY DEF Instantiate, captureVars, poolVars
<1>5. /\ calls' \in [Threads -> Seq(Call)] /\ Narrowed /\ Others(t)
      /\ Depth(t) \notin 1..Depth(t)'
      /\ \A u \in Threads : Depth(u)' <= Depth(u)
  BY <1>1, LeftNarrows
<1>6. /\ \A i \in 1..Depth(t)' : calls'[t][i].at = "fn"
      /\ \A u \in Threads : \A i \in 1..Depth(u) :
            ~(u = t /\ i = Depth(t)) => i \in 1..Depth(u)' /\ calls'[u][i] = calls[u][i]
  BY <1>1, LeftInFn
<1>7. /\ log' \in Seq(Log) /\ Len(log') = Len(log)
      /\ \A d \in 1..Len(log) : log'[d].name = log[d].name /\ (d # c => log'[d].fate = log[d].fate)
      /\ log'[c].fate = "accepted"
  BY <1>1, <1>3, FateSet DEF Fates
<1>8. \A u \in Threads : Depth(u)' = IF u = t THEN Depth(t) - 1 ELSE Depth(u)
  BY <1>1, CallLeft
<1>9. \A u \in Threads : Depth(u) \in Nat /\ Depth(u)' \in Nat
  BY <1>1, <1>8, CallTypes
<1>10. /\ exec \in [Graphs -> {None} \cup Captures]
       /\ exec' = [exec EXCEPT ![k] = c] /\ updated' = updated \ {k}
  BY <1>2, <1>3 DEF GraphInv, TypeOK, Instantiate
<1>11. TypeOK'
  BY <1>3, <1>4, <1>5, <1>7, <1>10 DEF GraphInv, TypeOK
<1>12. Bounded' /\ Owned'
  BY <1>4, <1>7 DEF GraphInv, Bounded, Owned
<1>13. Thrown'
  BY <1>1, <1>4, <1>8, <1>9 DEF GraphInv, Thrown
<1>14. Nested'
  BY <1>5, <1>9, NestedKept
<1>15. Logged'
  BY <1>1, <1>5, LoggedFate DEF Fates
<1>16. JustEnded'
  <2>1. \A d \in 1..Len(log) : Owner[log[d].name] # t => log'[d].fate = log[d].fate
    BY <1>2, <1>3, <1>7
  <2>2. \A i \in 1..Depth(t)' : calls'[t][i].at # "ended"
    BY <1>6
  <2> QED  BY <1>4, <1>5, <2>1, <2>2, JustEndedKept
<1>17. Streams'
  <2>1. \A u \in Threads : \A i \in 1..Depth(u) :
           calls[u][i].at = "fn" => i \in 1..Depth(u)' /\ calls'[u][i].at = "fn"
    BY <1>1, <1>6
  <2>2. \A u \in Threads : \A i \in 1..Depth(u)' : calls'[u][i].at = "fn" => calls[u][i].at = "fn"
    BY <1>5 DEF Others
  <2> QED  BY <1>4, <1>5, <2>1, <2>2, StreamsKept
<1>18. Held'
  BY <1>1, <1>4, HeldFate DEF Fates, Complete
<1>19. Launchable'
  <2> SUFFICES ASSUME NEW g \in Graphs, exec'[g] # None
               PROVE  /\ exec'[g] \in 1..Len(log)
                      /\ g \in updated' => log'[exec'[g]].fate \in Complete
                      /\ g \notin updated' =>
                            exec'[g] \in Accepted(g)' /\ \A d \in Accepted(g)' : d <= exec'[g]
    BY <1>7 DEF Launchable
  <2>1. CASE g = k
    <3>1. exec'[k] = c /\ k \notin updated'
      BY <1>10
    <3>2. Accepted(k)' = Accepted(k) \cup {c}
      BY <1>3, <1>7 DEF Accepted
    <3> QED  BY <1>3, <2>1, <3>1, <3>2 DEF Accepted
  <2>2. CASE g # k
    <3>1. exec'[g] = exec[g] /\ (g \in updated' <=> g \in updated)
      BY <1>10, <2>2
    <3>2. Accepted(g)' = Accepted(g)
      BY <1>3, <1>7, <2>2 DEF Accepted
    <3>3. exec[g] \in 1..Len(log) /\ (g \in updated => log'[exec[g]].fate \in Complete)
      BY <1>7, <3>1 DEF GraphInv, Launchable, Complete
    <3> QED  BY <3>1, <3>2, <3>3 DEF GraphInv, Launchable
  <2> QED  BY <2>1, <2>2
<1> QED  BY <1>11, <1>12, <1>13, <1>14, <1>15, <1>16, <1>17, <1>18, <1>19 DEF GraphInv

LEMMA InvInstantiateFails ==
    ASSUME GraphInv, NEW t \in Threads, InstantiateFails(t)
    PROVE  GraphInv'
<1>1. Depth(t) > 0 /\ calls[t][Depth(t)].at = "ended" /\ At(t, "ended") /\ ThrownPast(t, 0)
  BY DEF InstantiateFails, At
<1>2. PICK k \in Graphs : k = Top(t)
  BY <1>1, Innermost
<1>3. UNCHANGED <<graph, objects, capturing, stream, broken, before, reserved, calls, log>>
  BY DEF InstantiateFails, captureVars, poolVars
<1>4. /\ calls' \in [Threads -> Seq(Call)] /\ Narrowed /\ Others(t)
      /\ \A u \in Threads : Depth(u)' = Depth(u)
  BY <1>3, SameNarrows
<1>5. /\ thrown' \in [Threads -> BOOLEAN] /\ \A u \in Threads \ {t} : thrown'[u] = thrown[u]
      /\ thrown'[t]
  BY <1>1, ThrownTypes
<1>6. /\ exec \in [Graphs -> {None} \cup Captures]
      /\ exec' = [exec EXCEPT ![k] = None] /\ updated' = updated \ {k}
  BY <1>2 DEF GraphInv, TypeOK, InstantiateFails
<1>7. TypeOK'
  BY <1>3, <1>4, <1>5, <1>6 DEF GraphInv, TypeOK
<1>8. Bounded' /\ Owned' /\ Held'
  BY <1>3, HeldKept DEF GraphInv, Bounded, Owned
<1>9. Thrown'
  BY <1>1, <1>4, <1>5 DEF GraphInv, Thrown
<1>10. Nested'
  BY <1>4, CallTypes, NestedKept
<1>11. Logged'
  BY <1>3, <1>4, LoggedKept
<1>12. JustEnded'
  BY <1>3, <1>4, <1>5, JustEndedKept
<1>13. Streams'
  BY <1>3, <1>4, StreamsKept
<1>14. Launchable'
  <2>1. \A g \in Graphs : Accepted(g)' = Accepted(g)
    BY <1>3 DEF Accepted
  <2>2. \A g \in Graphs : exec'[g] # None => g # k /\ exec'[g] = exec[g]
    BY <1>6
  <2> QED  BY <1>3, <1>6, <2>1, <2>2 DEF GraphInv, Launchable
<1> QED  BY <1>7, <1>8, <1>9, <1>10, <1>11, <1>12, <1>13, <1>14 DEF GraphInv

\* Only a call that waits for its function is aborted.
LEMMA InvUnwind ==
    ASSUME GraphInv, NEW t \in Threads, Unwind(t)
    PROVE  GraphInv'
<1>1. Depth(t) > 0 /\ calls' = Left(t) /\ ThrownPast(t, 1)
  BY DEF GraphInv, Thrown, Unwind
<1>2. PICK k \in Graphs : k = Top(t) /\ Owner[k] = t
  BY <1>1, Innermost
<1>3. PICK c \in 1..Len(log) : c = This(t) /\ Owner[log[c].name] = t
  BY <1>1, Innermost
<1>4. Depth(t) \in 1..Depth(t) /\ calls[t][Depth(t)].name = k
  BY <1>1, <1>2, Innermost DEF Top
<1>5. capturing[k] <=> calls[t][Depth(t)].at = "fn"
  BY <1>2, <1>4 DEF GraphInv, Streams, Nested, Waiting
<1>6. UNCHANGED <<graph, exec, updated, objects, before, reserved>>
  BY DEF Unwind, graphVars, poolVars
<1>7. /\ calls' \in [Threads -> Seq(Call)] /\ Narrowed /\ Others(t)
      /\ Depth(t) \notin 1..Depth(t)'
      /\ \A u \in Threads : Depth(u)' <= Depth(u)
  BY <1>1, LeftNarrows
<1>8. /\ \A i \in 1..Depth(t)' : calls'[t][i].at = "fn"
      /\ \A u \in Threads : \A i \in 1..Depth(u) :
            ~(u = t /\ i = Depth(t)) => i \in 1..Depth(u)' /\ calls'[u][i] = calls[u][i]
  BY <1>1, LeftInFn
<1>9. /\ thrown' \in [Threads -> BOOLEAN] /\ \A u \in Threads \ {t} : thrown'[u] = thrown[u]
      /\ thrown'[t] <=> Depth(t) > 1
  BY <1>1, ThrownTypes
<1>10. \A u \in Threads : Depth(u)' = IF u = t THEN Depth(t) - 1 ELSE Depth(u)
  BY <1>1, CallLeft
<1>11. \A u \in Threads : Depth(u) \in Nat /\ Depth(u)' \in Nat
  BY <1>1, <1>10, CallTypes
<1>12. Owned'
  BY <1>6 DEF GraphInv, Owned
<1>13. Thrown'
  BY <1>9, <1>10, <1>11 DEF GraphInv, Thrown
<1>14. Nested'
  BY <1>7, <1>11, NestedKept
<1>15. \A i \in 1..Depth(t)' : calls'[t][i].at # "ended"
  BY <1>8
<1>16. CASE capturing[k]
  <2>1. /\ capturing' = [capturing EXCEPT ![Top(t)] = FALSE]
        /\ stream' = [stream EXCEPT ![Top(t)] = None]
        /\ broken' = broken \ {c} /\ log' = Fate(t, "lost")
    BY <1>2, <1>3, <1>16 DEF Unwind
  <2>2. log[c].fate = "open"
    BY <1>1, <1>3, <1>5, <1>16, Innermost DEF At
  <2>3. /\ log' \in Seq(Log) /\ Len(log') = Len(log)
        /\ \A d \in 1..Len(log) : log'[d].name = log[d].name /\ (d # c => log'[d].fate = log[d].fate)
    BY <1>1, <1>3, <2>1, FateSet DEF Fates
  <2>4. capturing' \in [Graphs -> BOOLEAN] /\ stream' \in [Graphs -> {None} \cup Captures]
    BY <2>1 DEF GraphInv, TypeOK
  <2>5. TypeOK'
    BY <1>6, <1>7, <1>9, <2>1, <2>3, <2>4 DEF GraphInv, TypeOK
  <2>6. Bounded'
    BY <2>3 DEF GraphInv, Bounded
  <2>7. Logged'
    BY <1>1, <1>7, <2>1, LoggedFate DEF Fates
  <2>8. JustEnded'
    <3>1. \A d \in 1..Len(log) : Owner[log[d].name] # t => log'[d].fate = log[d].fate
      BY <1>3, <2>3
    <3> QED  BY <1>6, <1>7, <1>9, <1>15, <3>1, JustEndedKept
  <2>9. Streams'
    BY <1>1, <1>7, <1>8, <2>1, StreamsClosed
  <2>10. Held' /\ Launchable'
    BY <1>1, <1>3, <1>6, <2>1, <2>2, HeldFate, LaunchableFate DEF Fates, Complete
  <2> QED  BY <1>12, <1>13, <1>14, <2>5, <2>6, <2>7, <2>8, <2>9, <2>10 DEF GraphInv
<1>17. CASE ~capturing[k]
  <2>1. UNCHANGED <<log, capturing, stream, broken>>
    BY <1>2, <1>17 DEF Unwind, captureVars
  <2>2. TypeOK'
    BY <1>6, <1>7, <1>9, <2>1 DEF GraphInv, TypeOK
  <2>3. Bounded' /\ Held' /\ Launchable'
    BY <1>6, <2>1, HeldKept, LaunchableKept DEF GraphInv, Bounded
  <2>4. Logged'
    BY <1>7, <2>1, LoggedKept
  <2>5. JustEnded'
    BY <1>6, <1>7, <1>9, <1>15, <2>1, JustEndedKept
  <2>6. Streams'
    <3>1. \A u \in Threads : \A i \in 1..Depth(u) :
             calls[u][i].at = "fn" => i \in 1..Depth(u)' /\ calls'[u][i].at = "fn"
      BY <1>5, <1>8, <1>17
    <3>2. \A u \in Threads : \A i \in 1..Depth(u)' : calls'[u][i].at = "fn" => calls[u][i].at = "fn"
      BY <1>7 DEF Others
    <3> QED  BY <1>7, <2>1, <3>1, <3>2, StreamsKept
  <2> QED  BY <1>12, <1>13, <1>14, <2>2, <2>3, <2>4, <2>5, <2>6 DEF GraphInv
<1> QED  BY <1>16, <1>17

-----------------------------------------------------------------------------
(* The invariant and what follows from it *)

LEMMA InvInit == Init => GraphInv
<1> SUFFICES ASSUME Init PROVE GraphInv
  OBVIOUS
<1>1. \A t \in Threads : calls[t] = <<>> /\ Depth(t) = 0 /\ 1..Depth(t) = {}
  BY DEF Init, Depth
<1>2. \A g \in Graphs : /\ Owner[g] \in Threads /\ graph[g] = None /\ exec[g] = None
                        /\ ~capturing[g] /\ stream[g] = None
  BY GraphAssumption DEF Init, NotInstantiated
<1>3. Len(log) = 0 /\ log \in Seq(Log) /\ MaxCaptures \in Nat /\ MaxReserved \in Nat
  BY GraphAssumption DEF Init
<1>4. TypeOK
  <2>1. calls \in [Threads -> Seq(Call)]
    BY DEF Init
  <2> QED  BY <1>3, <2>1 DEF Init, TypeOK, NotInstantiated
<1>5. Bounded /\ Thrown /\ Nested /\ Logged /\ JustEnded
  BY <1>1, <1>3 DEF Init, Bounded, Thrown, Nested, Logged, JustEnded
<1>6. Streams
  BY <1>1, <1>2 DEF Streams
<1>7. Held /\ Launchable /\ Owned
  BY <1>2 DEF Init, Held, Launchable, Owned
<1> QED  BY <1>4, <1>5, <1>6, <1>7 DEF GraphInv

LEMMA InvNext == GraphInv /\ [Next]_vars => GraphInv'
<1> SUFFICES ASSUME GraphInv, [Next]_vars PROVE GraphInv'
  OBVIOUS
<1>1. CASE UNCHANGED vars
  <2>1. TypeOK' /\ Bounded' /\ Thrown'
    BY <1>1 DEF vars, GraphInv, TypeOK, Bounded, Thrown, Depth
  <2>2. Nested' /\ Logged'
    BY <1>1 DEF vars, GraphInv, Nested, Logged, Depth
  <2>3. JustEnded'
    BY <1>1 DEF vars, GraphInv, JustEnded, Depth
  <2>4. Streams'
    BY <1>1 DEF vars, GraphInv, Streams, Waiting, Accepted, Depth
  <2>5. Held' /\ Owned'
    BY <1>1 DEF vars, GraphInv, Held, Owned, Depth
  <2>6. Launchable'
    BY <1>1 DEF vars, GraphInv, Launchable, Accepted
  <2> QED  BY <2>1, <2>2, <2>3, <2>4, <2>5, <2>6 DEF GraphInv
<1>2. ASSUME NEW t \in Threads, Proceed(t)
      PROVE  GraphInv'
  BY <1>2, InvStreamBegin, InvStreamBeginFails, InvEndCapture, InvEndCaptureFails,
     InvRejectGrowth, InvInstantiate, InvInstantiateFails, InvUnwind DEF Proceed
<1>3. ASSUME NEW t \in Threads, UserCode(t)
      PROVE  GraphInv'
  BY <1>3, InvBegin, InvAgain, InvBadCall, InvUpdateFrom, InvMalloc, InvMallocFails, InvFnThrows
     DEF UserCode
<1> QED  BY <1>1, <1>2, <1>3 DEF Next, Finished

\* Every reachable state satisfies the inductive invariant: captures, exceptions
\* and device objects as Graph and GraphManager::capture leave them.
THEOREM GraphInvariant == Spec => []GraphInv
BY InvInit, InvNext, PTL DEF Spec

\* Every variable keeps its type: in particular the exception that leaves the
\* last call of a thread is no longer on its way, and what a Graph holds is a
\* capture or nothing.
THEOREM GraphsTyped == Spec => []TypeOK
<1>1. GraphInv => TypeOK
  BY DEF GraphInv
<1> QED  BY <1>1, GraphInvariant, PTL

\* However captures are nested, fail and throw, a graph and its stream are
\* capturing exactly while a capture of that name waits for its function
\* (Graph::begin_capture, end_capture, abort_capture and GraphManager::capture).
THEOREM CapturesOpenInTheirFunctions == Spec => []CaptureOpen
<1>1. GraphInv => CaptureOpen
  <2> SUFFICES ASSUME GraphInv, NEW g \in Graphs,
                      NEW open, open = {i \in 1..Depth(Owner[g]) : Waiting(g, i)}
               PROVE  /\ capturing[g] <=> open # {}
                      /\ stream[g] # None <=> open # {}
                      /\ \A i \in open : calls[Owner[g]][i].capture = stream[g]
    BY DEF CaptureOpen, Waiting
  <2>1. /\ capturing[g] <=> \E i \in 1..Depth(Owner[g]) : Waiting(g, i)
        /\ capturing[g] <=> stream[g] # None
        /\ \A i \in 1..Depth(Owner[g]) : Waiting(g, i) => stream[g] = calls[Owner[g]][i].capture
    BY DEF GraphInv, Streams
  <2> QED  BY <2>1
<1> QED  BY <1>1, GraphInvariant, PTL

\* Graph::graph_ is a device object of this Graph alone, and every device
\* object is some Graph's: end_capture and the failed end_capture leak none.
THEOREM NoGraphLeaks == Spec => []GraphsOwned
<1>1. GraphInv => GraphsOwned
  BY DEF GraphInv, Owned, Held, GraphsOwned
<1> QED  BY <1>1, GraphInvariant, PTL

\* What launch replays is the last capture of the name that capture()
\* returned from, whatever was rejected, lost or failed to instantiate since,
\* and a whole capture where update_from put it.
THEOREM LaunchReplaysLastAccepted == Spec => []ExecSound
<1>1. GraphInv => ExecSound
  <2> SUFFICES ASSUME GraphInv, NEW g \in Graphs, exec[g] # None
               PROVE  IF g \in updated
                      THEN log[exec[g]].fate \in {"ended", "accepted", "rejected"}
                      ELSE log[exec[g]].fate = "accepted" /\ exec[g] = LastAccepted(g)
    BY DEF ExecSound
  <2>1. CASE g \in updated
    BY <2>1 DEF GraphInv, Launchable, Complete
  <2>2. CASE g \notin updated
    <3>1. exec[g] \in Accepted(g) /\ \A c \in Accepted(g) : c <= exec[g]
      BY <2>2 DEF GraphInv, Launchable
    <3>2. \A c \in Accepted(g) : c \in Nat
      BY LogTypes DEF Accepted
    <3>3. LastAccepted(g) = CHOOSE c \in Accepted(g) : \A d \in Accepted(g) : d <= c
      BY DEF LastAccepted, Accepted
    <3>4. LastAccepted(g) \in Accepted(g) /\ \A d \in Accepted(g) : d <= LastAccepted(g)
      BY <3>1, <3>3
    <3>5. exec[g] = LastAccepted(g)
      BY <3>1, <3>2, <3>4
    <3> QED  BY <2>2, <3>1, <3>5 DEF Accepted
  <2> QED  BY <2>1, <2>2
<1> QED  BY <1>1, GraphInvariant, PTL
=============================================================================
