----------------------------- MODULE Telemetry ------------------------------
(***************************************************************************)
(* Telemetry, used by one thread: operations measured by a pair of CUDA    *)
(* events (TelemetryScope) or recorded with a duration the caller has, the *)
(* batch in which resolve_pending turns events into records, the groups    *)
(* that benchmark opens, and the windows print_summary cuts records into.  *)
(*                                                                         *)
(* Operations are numbered as they begin; the number also stands for the   *)
(* operation's start and end event.  Scopes are C++ objects on the stack:  *)
(* the last that was opened is the first to end.                           *)
(***************************************************************************)
EXTENDS Naturals, Sequences, FiniteSets, SequencesExt

CONSTANTS
    Groups,         \* labels given to benchmark
    Ops,            \* the ops_per_iteration each is given
    NoGroup,        \* the empty current_group_label_
    Hints,          \* Stream objects, whose addresses serve as hints
    SyncInGroups,   \* whether iterations also call record()
    MaxOps,         \* bound: operations measured or recorded
    MaxAfterCut,    \* bound: the same, once a handle is no longer valid
    MaxIterations,  \* bound: iterations of all benchmarks
    MaxSessions     \* bound: calls of start_session

ASSUME TelemetryAssumption ==
    /\ Ops \in [Groups -> Nat \ {0}]
    /\ NoGroup \notin Groups
    /\ SyncInGroups \in BOOLEAN
    /\ {MaxOps, MaxAfterCut, MaxIterations, MaxSessions} \subseteq Nat

VARIABLES
    log,            \* records_, next_sequence_ and stream_id_map_
    pending,        \* pending_
    in_flight,      \* in_flight_
    current,        \* current_group_label_
    group_ops,      \* the labels group_ops_per_iter_ has
    scopes,         \* the open TelemetryScopes, each with its handle_
    bench,          \* the benchmark that runs, if any
    events,         \* start and end events that exist
    misused,        \* whether a call was given an event destroyed before
    halted,         \* std::terminate, or CUDA failed in resolve_pending
    history,        \* history: each operation's iteration, and the group at its end
    iterations,     \* history: iterations begun
    sessions,       \* history: calls of start_session
    cut,            \* history: scopes that were open during resolve_pending
    spoilt,         \* history: groups that lost part of an iteration
    cleared         \* history: operations whose records clear() removed

vars == <<log, pending, in_flight, current, group_ops, scopes, bench, events,
          misused, halted, history, iterations, sessions, cut, spoilt, cleared>>

Operations == 1..MaxOps
Labels == Groups \cup {NoGroup}
Start(n) == <<"start", n>>
End(n) == <<"end", n>>
NoBench == [group |-> NoGroup, ops |-> 0, base |-> 0]

Record == [sequence_id : Nat, op : Operations, start : Operations, group : Labels,
           hint : Hints, stream_id : Nat, session : 0..MaxSessions]
Pending == [op : Operations, start : Operations, group : Labels, hint : Hints]

TypeOK ==
    /\ log \in [records : Seq(Record), next_sequence : 0..MaxOps, streams : Seq(Hints)]
    /\ pending \in Seq(Pending)
    /\ in_flight \in Seq(Operations)
    /\ current \in Labels /\ group_ops \subseteq Groups
    /\ scopes \in Seq([op : Operations, handle : 1..MaxOps, hint : Hints])
    /\ bench \in [group : Labels, ops : 0..MaxOps, base : 0..MaxOps]
    /\ events \subseteq {Start(n) : n \in Operations} \cup {End(n) : n \in Operations}
    /\ misused \in BOOLEAN /\ halted \in BOOLEAN
    /\ history \in Seq([iteration : 0..MaxIterations, ended : BOOLEAN, group : Labels])
    /\ iterations \in 0..MaxIterations /\ sessions \in 0..MaxSessions
    /\ cut \subseteq Operations /\ spoilt \subseteq Groups /\ cleared \subseteq Operations

Init ==
    /\ log = [records |-> <<>>, next_sequence |-> 0, streams |-> <<>>]
    /\ pending = <<>> /\ in_flight = <<>>
    /\ current = NoGroup /\ group_ops = {}
    /\ scopes = <<>> /\ bench = NoBench
    /\ events = {} /\ misused = FALSE /\ halted = FALSE
    /\ history = <<>> /\ iterations = 0 /\ sessions = 0
    /\ cut = {} /\ spoilt = {} /\ cleared = {}

-----------------------------------------------------------------------------
(* Operations *)

InBench == bench # NoBench
MayBegin ==
    /\ ~halted
    /\ Len(history) < MaxOps /\ (cut # {} => Len(history) < MaxAfterCut)
    /\ InBench => bench.ops + Len(scopes) - bench.base < Ops[bench.group]
New == Len(history) + 1
Began(ended) == Append(history, [iteration |-> IF InBench THEN iterations ELSE 0,
                                 ended |-> ended, group |-> current])
Counted(b) == IF InBench THEN [b EXCEPT !.ops = @ + 1] ELSE b

\* resolve_stream_id: the place at which the map first saw the hint.
StreamsWith(streams, h) == IF Contains(streams, h) THEN streams ELSE Append(streams, h)

\* Mutant of Recorded: the group is the one active when the operation is
\* resolved.
RecordedInCurrent(l, p) ==
    LET streams == StreamsWith(l.streams, p.hint)
    IN  [records |-> Append(l.records,
                        [sequence_id |-> l.next_sequence, op |-> p.op, start |-> p.start,
                         group |-> current, hint |-> p.hint, session |-> sessions,
                         stream_id |-> CHOOSE i \in DOMAIN streams : streams[i] = p.hint]),
         next_sequence |-> l.next_sequence + 1,
         streams |-> streams]

\* record_with_group
Recorded(l, p) ==
    LET streams == StreamsWith(l.streams, p.hint)
    IN  [records |-> Append(l.records,
                        [sequence_id |-> l.next_sequence, op |-> p.op, start |-> p.start,
                         group |-> p.group, hint |-> p.hint, session |-> sessions,
                         stream_id |-> CHOOSE i \in DOMAIN streams : streams[i] = p.hint]),
         next_sequence |-> l.next_sequence + 1,
         streams |-> streams]

\* ... for the first n pending operations.
RecordedFirst(n) ==
    LET upTo[k \in 0..n] == IF k = 0 THEN log ELSE Recorded(upTo[k - 1], pending[k])
    IN  upTo[n]

\* record, with a duration the caller has measured.
RecordNow(h) ==
    /\ MayBegin /\ (InBench => SyncInGroups)
    /\ log' = Recorded(log, [op |-> New, start |-> New, group |-> current, hint |-> h])
    /\ history' = Began(TRUE)
    /\ bench' = Counted(bench)
    /\ UNCHANGED <<pending, in_flight, current, group_ops, scopes, events, misused,
                   halted, iterations, sessions, cut, spoilt, cleared>>

\* Mutant of ScopeBegin: the handle is taken before the event is stored.
ScopeBeginEarly(h) ==
    /\ MayBegin
    /\ events' = events \cup {Start(New)}
    /\ in_flight' = Append(in_flight, New)
    /\ scopes' = Append(scopes, [op |-> New, handle |-> Len(in_flight), hint |-> h])
    /\ history' = Began(FALSE)
    /\ UNCHANGED <<log, pending, current, group_ops, bench, misused, halted,
                   iterations, sessions, cut, spoilt, cleared>>

\* TelemetryScope's constructor with begin_async.  When an event call fails
\* there is no scope and no change.
ScopeBegin(h) ==
    /\ MayBegin
    /\ events' = events \cup {Start(New)}
    /\ in_flight' = Append(in_flight, New)
    /\ scopes' = Append(scopes, [op |-> New, handle |-> Len(in_flight) + 1, hint |-> h])
    /\ history' = Began(FALSE)
    /\ UNCHANGED <<log, pending, current, group_ops, bench, misused, halted,
                   iterations, sessions, cut, spoilt, cleared>>

\* The innermost scope ends, inside the benchmark it was opened in.
Ending == ~halted /\ Len(scopes) > bench.base
Innermost == Last(scopes)

ScopeLeft ==
    /\ scopes' = Front(scopes)
    /\ bench' = Counted(bench)
    /\ history' = [history EXCEPT ![Innermost.op].ended = TRUE,
                                  ![Innermost.op].group = current]
    /\ UNCHANGED <<log, in_flight, current, group_ops, misused, halted,
                   iterations, sessions, cut, cleared>>

\* ~TelemetryScope with end_async.
ScopeEnd ==
    /\ Ending /\ Innermost.handle <= Len(in_flight)
    /\ events' = events \cup {End(Innermost.op)}
    /\ pending' = Append(pending, [op |-> Innermost.op, start |-> in_flight[Innermost.handle],
                                   group |-> current, hint |-> Innermost.hint])
    /\ ScopeLeft /\ UNCHANGED spoilt

\* resolve_pending has cleared in_flight_ since: end_async returns.
ScopeEndIgnored ==
    /\ Ending /\ Innermost.handle > Len(in_flight)
    /\ spoilt' = spoilt \cup ({current} \ {NoGroup})
    /\ ScopeLeft /\ UNCHANGED <<pending, events>>

\* An event call of end_async fails: the exception leaves a destructor.
ScopeEndFails ==
    /\ Ending /\ Innermost.handle <= Len(in_flight)
    /\ halted' = TRUE
    /\ events' = events \ {Start(in_flight[Innermost.handle])}
    /\ UNCHANGED <<log, pending, in_flight, current, group_ops, scopes, bench, misused,
                   history, iterations, sessions, cut, spoilt, cleared>>

-----------------------------------------------------------------------------
(* resolve_pending, for the first n pending operations and, when it fails,  *)
(* for the events of one more.                                              *)

Spent(n) == {Start(pending[k].start) : k \in 1..n} \cup {End(pending[k].op) : k \in 1..n}
Reused(n) ==
    \E k \in 1..n : \/ Start(pending[k].start) \notin events
                    \/ \E j \in 1..k - 1 : pending[j].start = pending[k].start
Resolved(n) ==
    /\ ~halted
    /\ events' = events \ Spent(n)
    /\ misused' = (misused \/ Reused(n))
    /\ UNCHANGED <<current, group_ops, scopes, bench, history, iterations, sessions,
                   spoilt, cleared>>

\* Mutants of ResolvePending: the resolved operations stay pending; the
\* events are not destroyed.
ResolveKeepsPending ==
    /\ Resolved(Len(pending))
    /\ log' = RecordedFirst(Len(pending))
    /\ in_flight' = <<>>
    /\ cut' = cut \cup {scopes[i].op : i \in DOMAIN scopes}
    /\ UNCHANGED <<pending, halted>>
ResolveLeaksEvents ==
    /\ Resolved(0)
    /\ log' = RecordedFirst(Len(pending))
    /\ pending' = <<>> /\ in_flight' = <<>>
    /\ cut' = cut \cup {scopes[i].op : i \in DOMAIN scopes}
    /\ UNCHANGED halted

ResolvePending ==
    /\ Resolved(Len(pending))
    /\ log' = RecordedFirst(Len(pending))
    /\ pending' = <<>> /\ in_flight' = <<>>
    /\ cut' = cut \cup {scopes[i].op : i \in DOMAIN scopes}
    /\ UNCHANGED halted

ResolveFails(n) ==
    /\ n \in 1..Len(pending) /\ Resolved(n)
    /\ log' = RecordedFirst(n - 1)
    /\ halted' = TRUE
    /\ UNCHANGED <<pending, in_flight, cut>>

-----------------------------------------------------------------------------
(* Groups and sessions *)

\* benchmark: begin_group, and the first iteration.
BenchmarkBegin(g) ==
    /\ ~halted /\ ~InBench /\ iterations < MaxIterations
    /\ bench' = [group |-> g, ops |-> 0, base |-> Len(scopes)]
    /\ current' = g /\ group_ops' = group_ops \cup {g}
    /\ iterations' = iterations + 1
    /\ UNCHANGED <<log, pending, in_flight, scopes, events, misused, halted, history,
                   sessions, cut, spoilt, cleared>>

\* Between two iterations, each of as many operations as the group was told.
IterationDone == ~halted /\ InBench /\ Len(scopes) = bench.base /\ bench.ops = Ops[bench.group]

BenchmarkNext ==
    /\ IterationDone /\ iterations < MaxIterations
    /\ bench' = [bench EXCEPT !.ops = 0]
    /\ iterations' = iterations + 1
    /\ UNCHANGED <<log, pending, in_flight, current, group_ops, scopes, events, misused,
                   halted, history, sessions, cut, spoilt, cleared>>

\* Mutant of BenchmarkEnd: without end_group.
BenchmarkEndOpen ==
    /\ IterationDone
    /\ bench' = NoBench
    /\ UNCHANGED <<log, pending, in_flight, current, group_ops, scopes, events, misused,
                   halted, history, iterations, sessions, cut, spoilt, cleared>>

BenchmarkEnd ==
    /\ IterationDone
    /\ bench' = NoBench /\ current' = NoGroup
    /\ UNCHANGED <<log, pending, in_flight, group_ops, scopes, events, misused, halted,
                   history, iterations, sessions, cut, spoilt, cleared>>

\* The function throws: end_group is not called.
BenchmarkThrows ==
    /\ ~halted /\ InBench /\ Len(scopes) = bench.base
    /\ bench' = NoBench
    /\ spoilt' = spoilt \cup {bench.group}
    /\ UNCHANGED <<log, pending, in_flight, current, group_ops, scopes, events, misused,
                   halted, history, iterations, sessions, cut, cleared>>

StartSession ==
    /\ ~halted /\ sessions < MaxSessions
    /\ log' = [log EXCEPT !.next_sequence = 0, !.streams = <<>>]
    /\ current' = NoGroup /\ group_ops' = {}
    /\ sessions' = sessions + 1
    /\ spoilt' = spoilt \cup ({bench.group} \ {NoGroup})
    /\ UNCHANGED <<pending, in_flight, scopes, bench, events, misused, halted, history,
                   iterations, cut, cleared>>

\* clear: the part of an iteration that is still pending stays.
Clear ==
    /\ ~halted /\ log.records # <<>>
    /\ log' = [log EXCEPT !.records = <<>>]
    /\ cleared' = cleared \cup {log.records[i].op : i \in DOMAIN log.records}
    /\ spoilt' = (spoilt \cup {bench.group} \cup {pending[i].group : i \in DOMAIN pending}) \ {NoGroup}
    /\ UNCHANGED <<pending, in_flight, current, group_ops, scopes, bench, events, misused,
                   halted, history, iterations, sessions, cut>>

Finished == scopes = <<>> /\ ~InBench /\ UNCHANGED vars
Halted == halted /\ UNCHANGED vars

Next ==
    \/ \E h \in Hints : RecordNow(h) \/ ScopeBegin(h)
    \/ ScopeEnd \/ ScopeEndIgnored \/ ScopeEndFails
    \/ ResolvePending \/ \E n \in Operations : ResolveFails(n)
    \/ \E g \in Groups : BenchmarkBegin(g)
    \/ BenchmarkNext \/ BenchmarkEnd \/ BenchmarkThrows
    \/ StartSession \/ Clear
    \/ Finished \/ Halted

Spec == Init /\ [][Next]_vars

-----------------------------------------------------------------------------
(* Properties.  cut = {} says that resolve_pending was never called with a  *)
(* scope open, which leaves the scope with a handle to nothing, or to the   *)
(* event of another.                                                        *)

\* The events that exist are those of open scopes and pending operations,
\* each destroyed once, never used after; every handle leads to the event of
\* its own scope.
EventsSound ==
    cut = {} /\ ~halted =>
        /\ events = {Start(scopes[i].op) : i \in DOMAIN scopes} \cup Spent(Len(pending))
        /\ ~misused
        /\ \A i \in DOMAIN scopes : /\ scopes[i].handle <= Len(in_flight)
                                    /\ in_flight[scopes[i].handle] = scopes[i].op

\* Every operation that has ended is measured between its own events, and is
\* pending, recorded or cleared, once.
Places(n) ==
    {<<"pending", i>> : i \in {j \in DOMAIN pending : pending[j].op = n}}
    \cup {<<"record", i>> : i \in {j \in DOMAIN log.records : log.records[j].op = n}}
    \cup {<<"cleared", m>> : m \in cleared \cap {n}}
EachOnce ==
    cut = {} /\ ~halted =>
        /\ \A n \in DOMAIN history : Cardinality(Places(n)) = IF history[n].ended THEN 1 ELSE 0
        /\ \A i \in DOMAIN pending : pending[i].start = pending[i].op
        /\ \A i \in DOMAIN log.records : log.records[i].start = log.records[i].op

\* What a record is labelled with: the group that was active when its operation
\* ended, whenever it was resolved; and, within a session, sequence ids in the
\* order of the records and stream ids that tell streams apart exactly.
LabelsKept ==
    /\ \A i \in DOMAIN log.records : log.records[i].group = history[log.records[i].op].group
    /\ \A i, j \in DOMAIN log.records :
          LET r == log.records[i]
              s == log.records[j]
          IN  r.session = s.session =>
                  /\ s.sequence_id - r.sequence_id = j - i
                  /\ r.stream_id = s.stream_id <=> r.hint = s.hint

\* print_summary counts the records of a group and closes a window with every
\* ops_per_iteration-th of them: what it has counted up to the i-th record, and
\* the operations it sums from one count to another.
CountUpTo(s, g, i) == Cardinality({j \in 1..i : s[j].group = g})
Summed(s, g, from, to) ==
    {s[i].op : i \in {j \in DOMAIN s : s[j].group = g /\ CountUpTo(s, g, j) \in from + 1 .. to}}
Windows(s, g) == CountUpTo(s, g, Len(s)) \div Ops[g]
Iteration(n) == {m \in DOMAIN history : history[m].iteration = n}

\* Each window is one whole iteration.
WindowsAreIterations ==
    cut = {} =>
        \A g \in group_ops \ spoilt : \A k \in 1 .. Windows(log.records, g) :
            \E n \in 1..iterations :
                Summed(log.records, g, (k - 1) * Ops[g], k * Ops[g]) = Iteration(n)
=============================================================================
