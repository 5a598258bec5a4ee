--------------------------- MODULE TelemetryProofs ---------------------------
(***************************************************************************)
(* Theorems about Telemetry, for any groups, operations per iteration and  *)
(* streams, and any number of operations, iterations and sessions.         *)
(***************************************************************************)
EXTENDS Telemetry, WellFoundedInduction, SequenceTheorems, FiniteSetTheorems, TLAPS

\* Scopes are of operations that have not ended, each its own.
Nesting ==
    /\ \A i \in 1 .. Len(scopes) : /\ scopes[i].op \in 1 .. Len(history)
                                   /\ ~history[scopes[i].op].ended
    /\ \A i, j \in 1 .. Len(scopes) : scopes[i].op = scopes[j].op => i = j

\* What there is was begun.
Tally ==
    /\ Len(history) <= MaxOps
    /\ Len(in_flight) <= Len(history)
    /\ bench.ops + Len(scopes) <= Len(history)
    /\ ~halted => log.next_sequence + Len(pending) + Len(scopes) <= Len(history)
    /\ bench.group = NoGroup => bench = NoBench

\* Operations are pending, recorded or cleared after they ended, with the
\* group of that moment.
Listed ==
    /\ \A i \in 1 .. Len(pending) :
          LET n == pending[i].op
          IN  n \in 1 .. Len(history) /\ history[n].ended /\ history[n].group = pending[i].group
    /\ \A i \in 1 .. Len(log.records) :
          LET n == log.records[i].op
          IN  n \in 1 .. Len(history) /\ history[n].ended /\ history[n].group = log.records[i].group
    /\ \A n \in cleared : n \in 1 .. Len(history) /\ history[n].ended

\* In one of these places, once, unless resolve_pending was left half-way.
Apart == ~halted =>
    /\ \A i, j \in 1 .. Len(pending) : pending[i].op = pending[j].op => i = j
    /\ \A i, j \in 1 .. Len(log.records) : log.records[i].op = log.records[j].op => i = j
    /\ \A i \in 1 .. Len(pending) : \A j \in 1 .. Len(log.records) : pending[i].op # log.records[j].op
    /\ \A i \in 1 .. Len(pending) : pending[i].op \notin cleared
    /\ \A j \in 1 .. Len(log.records) : log.records[j].op \notin cleared

\* The ids that a log has given: those of this session go on from
\* next_sequence and lead into the map of streams.
Lasting(l) ==
    \A i \in 1 .. Len(l.records) :
        LET r == l.records[i]
        IN  /\ r.session <= sessions
            /\ r.session = sessions =>
                  /\ r.sequence_id + Len(l.records) + 1 = l.next_sequence + i
                  /\ r.stream_id \in 1 .. Len(l.streams) /\ l.streams[r.stream_id] = r.hint
Mapped(l) == \A i, j \in 1 .. Len(l.streams) : l.streams[i] = l.streams[j] => i = j
Labelled(l) ==
    \A i, j \in 1 .. Len(l.records) :
        LET r == l.records[i]
            s == l.records[j]
        IN  r.session = s.session =>
                /\ s.sequence_id - r.sequence_id = j - i
                /\ r.stream_id = s.stream_id <=> r.hint = s.hint
Ids(l) == Lasting(l) /\ Mapped(l) /\ Labelled(l)

\* Without a cut the events are those there should be, and nothing is lost.
Whole == cut = {} /\ ~halted =>
    /\ events = {Start(scopes[i].op) : i \in 1 .. Len(scopes)} \cup Spent(Len(pending))
    /\ ~misused
    /\ \A i \in 1 .. Len(scopes) : /\ scopes[i].handle <= Len(in_flight)
                                   /\ in_flight[scopes[i].handle] = scopes[i].op
    /\ \A i \in 1 .. Len(pending) : pending[i].start = pending[i].op
    /\ \A i \in 1 .. Len(log.records) : log.records[i].start = log.records[i].op
    /\ \A n \in 1 .. Len(history) : history[n].ended =>
          \/ \E i \in 1 .. Len(pending) : pending[i].op = n
          \/ \E i \in 1 .. Len(log.records) : log.records[i].op = n
          \/ n \in cleared

TelemetryInv ==
    /\ TypeOK
    /\ Nesting
    /\ Tally
    /\ Listed
    /\ Apart
    /\ Ids(log)
    /\ Whole

-----------------------------------------------------------------------------
(* record_with_group, once and for a batch *)

Log == [records : Seq(Record), next_sequence : Nat, streams : Seq(Hints)]

LEMMA SequenceFacts ==
    ASSUME NEW S, NEW s \in Seq(S), NEW e \in S
    PROVE  /\ Len(s) \in Nat /\ DOMAIN s = 1 .. Len(s) /\ \A i \in 1 .. Len(s) : s[i] \in S
           /\ Append(s, e) \in Seq(S) /\ Len(Append(s, e)) = Len(s) + 1
           /\ \A i \in 1 .. Len(s) : Append(s, e)[i] = s[i]
           /\ Append(s, e)[Len(s) + 1] = e
           /\ 1 .. Len(s) + 1 = (1 .. Len(s)) \cup {Len(s) + 1}
<1>1. Len(s) \in Nat /\ DOMAIN s = 1 .. Len(s) /\ \A i \in 1 .. Len(s) : s[i] \in S
  BY LenProperties
<1>2. 1 .. Len(s) + 1 = (1 .. Len(s)) \cup {Len(s) + 1}
  BY <1>1
<1> QED  BY <1>1, <1>2, AppendProperties

\* found has the streams of a map where they were, and h at id.
Finds(streams, h, found, id) ==
    /\ found \in Seq(Hints) /\ Len(streams) <= Len(found)
    /\ \A i \in 1 .. Len(streams) : found[i] = streams[i]
    /\ \A i, j \in 1 .. Len(found) : found[i] = found[j] => i = j
    /\ id \in 1 .. Len(found) /\ found[id] = h
Position(found, h) == CHOOSE i \in DOMAIN found : found[i] = h

LEMMA StreamFound ==
    ASSUME NEW streams \in Seq(Hints), NEW h \in Hints,
           \A i, j \in 1 .. Len(streams) : streams[i] = streams[j] => i = j
    PROVE  Finds(streams, h, StreamsWith(streams, h), Position(StreamsWith(streams, h), h))
<1>0. PICK found, id : found = StreamsWith(streams, h) /\ id = Position(found, h)
  OBVIOUS
<1>1. /\ found \in Seq(Hints) /\ Len(streams) <= Len(found)
      /\ \A i \in 1 .. Len(streams) : found[i] = streams[i]
      /\ \A i, j \in 1 .. Len(found) : found[i] = found[j] => i = j
      /\ \E i \in 1 .. Len(found) : found[i] = h
  <2>1. CASE Contains(streams, h)
    <3>1. found = streams /\ \E i \in 1 .. Len(streams) : streams[i] = h
      BY <1>0, <2>1 DEF StreamsWith, Contains
    <3>2. Len(streams) \in Nat
      BY SequenceFacts
    <3> QED  BY <3>1, <3>2
  <2>2. CASE ~Contains(streams, h)
    <3>1. found = Append(streams, h) /\ \A i \in 1 .. Len(streams) : streams[i] # h
      BY <1>0, <2>2 DEF StreamsWith, Contains
    <3>2. /\ Len(streams) \in Nat /\ found \in Seq(Hints) /\ Len(found) = Len(streams) + 1
          /\ \A i \in 1 .. Len(streams) : found[i] = streams[i]
          /\ found[Len(streams) + 1] = h
          /\ 1 .. Len(found) = (1 .. Len(streams)) \cup {Len(streams) + 1}
      BY <3>1, SequenceFacts
    <3>3. \A i, j \in 1 .. Len(found) : found[i] = found[j] => i = j
      BY <3>1, <3>2
    <3> QED  BY <3>2, <3>3
  <2> QED  BY <2>1, <2>2
<1>2. DOMAIN found = 1 .. Len(found)
  BY <1>1, LenProperties
<1>3. id \in 1 .. Len(found) /\ found[id] = h
  BY <1>0, <1>1, <1>2 DEF Position
<1> QED  BY <1>0, <1>1, <1>3 DEF Finds

\* m is l with a record of p.
Extended(l, p, m) ==
    /\ m \in Log /\ Ids(m)
    /\ m.next_sequence = l.next_sequence + 1 /\ Len(m.records) = Len(l.records) + 1
    /\ \A i \in 1 .. Len(l.records) : m.records[i] = l.records[i]
    /\ m.records[Len(l.records) + 1].op = p.op
    /\ m.records[Len(l.records) + 1].start = p.start
    /\ m.records[Len(l.records) + 1].group = p.group

LEMMA RecordedExtends ==
    ASSUME NEW l \in Log, NEW p \in Pending, Ids(l), sessions \in 0 .. MaxSessions
    PROVE  Extended(l, p, Recorded(l, p))
<1>0. PICK m : m = Recorded(l, p)
  OBVIOUS
<1>1. PICK found : found = StreamsWith(l.streams, p.hint)
  OBVIOUS
<1>2. PICK id : id = Position(found, p.hint) /\ id = CHOOSE i \in DOMAIN found : found[i] = p.hint
  BY DEF Position
<1>3. /\ l.records \in Seq(Record) /\ l.next_sequence \in Nat /\ l.streams \in Seq(Hints)
      /\ p.op \in Operations /\ p.start \in Operations /\ p.group \in Labels /\ p.hint \in Hints
  BY DEF Log, Pending
<1>4. /\ found \in Seq(Hints) /\ Len(l.streams) <= Len(found)
      /\ \A i \in 1 .. Len(l.streams) : found[i] = l.streams[i]
      /\ \A i, j \in 1 .. Len(found) : found[i] = found[j] => i = j
      /\ id \in 1 .. Len(found) /\ found[id] = p.hint
  <2>1. \A i, j \in 1 .. Len(l.streams) : l.streams[i] = l.streams[j] => i = j
    BY DEF Ids, Mapped
  <2>2. Finds(l.streams, p.hint, found, id)
    BY <1>1, <1>2, <1>3, <2>1, StreamFound
  <2> QED  BY <2>2 DEF Finds
<1>5. Len(found) \in Nat /\ Len(l.streams) \in Nat /\ id \in Nat
  BY <1>3, <1>4, LenProperties
<1>6. PICK r : r = [sequence_id |-> l.next_sequence, op |-> p.op, start |-> p.start,
                    group |-> p.group, hint |-> p.hint, session |-> sessions, stream_id |-> id]
  OBVIOUS
<1>7. /\ r \in Record /\ r.sequence_id = l.next_sequence /\ r.op = p.op /\ r.start = p.start
      /\ r.group = p.group /\ r.hint = p.hint /\ r.session = sessions /\ r.stream_id = id
  BY <1>3, <1>5, <1>6 DEF Record
<1>8. m = [records |-> Append(l.records, r), next_sequence |-> l.next_sequence + 1, streams |-> found]
  BY <1>0, <1>1, <1>2, <1>6 DEF Recorded
<1>9. /\ m.records = Append(l.records, r) /\ m.next_sequence = l.next_sequence + 1 /\ m.streams = found
      /\ Len(l.records) \in Nat /\ m.records \in Seq(Record) /\ Len(m.records) = Len(l.records) + 1
      /\ \A i \in 1 .. Len(l.records) : m.records[i] = l.records[i] /\ l.records[i] \in Record
      /\ m.records[Len(l.records) + 1] = r
      /\ 1 .. Len(m.records) = (1 .. Len(l.records)) \cup {Len(l.records) + 1}
  BY <1>3, <1>7, <1>8, SequenceFacts
<1>10. m \in Log
  BY <1>3, <1>4, <1>8, <1>9 DEF Log
<1>11. PICK old, recs, len, next :
          old = l.records /\ recs = m.records /\ len = Len(l.records) /\ next = l.next_sequence
  OBVIOUS
<1>12. /\ len \in Nat /\ next \in Nat /\ Len(recs) = len + 1
       /\ \A i \in 1 .. len : recs[i] = old[i] /\ old[i] \in Record
       /\ recs[len + 1] = r
       /\ 1 .. len + 1 = (1 .. len) \cup {len + 1}
  BY <1>3, <1>9, <1>11
<1>13. ASSUME NEW i \in 1 .. len
       PROVE  /\ old[i].session <= sessions
              /\ old[i].session = sessions =>
                    /\ old[i].sequence_id + len + 1 = next + i
                    /\ old[i].sequence_id \in Nat /\ old[i].stream_id \in 1 .. Len(found)
                    /\ found[old[i].stream_id] = old[i].hint
  <2>1. /\ old[i].session <= sessions
        /\ old[i].session = sessions =>
              /\ old[i].sequence_id + len + 1 = next + i
              /\ old[i].stream_id \in 1 .. Len(l.streams)
              /\ l.streams[old[i].stream_id] = old[i].hint
    BY <1>11 DEF Ids, Lasting
  <2>2. old[i].sequence_id \in Nat
    BY <1>12 DEF Record
  <2> QED  BY <1>4, <1>5, <2>1, <2>2
<1>14. Lasting(m)
  <2>1. ASSUME NEW i \in 1 .. len + 1
        PROVE  /\ recs[i].session <= sessions
               /\ recs[i].session = sessions =>
                     /\ recs[i].sequence_id + (len + 1) + 1 = (next + 1) + i
                     /\ recs[i].stream_id \in 1 .. Len(found)
                     /\ found[recs[i].stream_id] = recs[i].hint
    <3>1. CASE i \in 1 .. len
      <4>1. recs[i] = old[i]
        BY <1>12, <3>1
      <4>2. recs[i].session = sessions => recs[i].sequence_id + (len + 1) + 1 = (next + 1) + i
        BY <1>12, <1>13, <3>1, <4>1
      <4> QED  BY <1>13, <3>1, <4>1, <4>2
    <3>2. CASE i = len + 1
      <4>1. recs[i] = r /\ r.sequence_id = next
        BY <1>7, <1>11, <1>12, <3>2
      <4>2. r.sequence_id + (len + 1) + 1 = (next + 1) + (len + 1)
        BY <1>12, <4>1
      <4>3. sessions <= sessions
        OBVIOUS
      <4> QED  BY <1>4, <1>7, <3>2, <4>1, <4>2, <4>3
    <3> QED  BY <1>12, <3>1, <3>2
  <2> QED  BY <1>9, <1>11, <1>12, <2>1 DEF Lasting
<1>15. Mapped(m)
  BY <1>4, <1>9 DEF Mapped
<1>16. ASSUME NEW i \in 1 .. len, recs[i].session = sessions
       PROVE  /\ r.sequence_id - recs[i].sequence_id = (len + 1) - i
              /\ recs[i].sequence_id - r.sequence_id = i - (len + 1)
              /\ recs[i].stream_id = r.stream_id <=> recs[i].hint = r.hint
  <2>1. recs[i] = old[i] /\ r.sequence_id = next
    BY <1>7, <1>11, <1>12
  <2>2. /\ old[i].sequence_id + len + 1 = next + i
        /\ old[i].sequence_id \in Nat /\ old[i].stream_id \in 1 .. Len(found)
        /\ found[old[i].stream_id] = old[i].hint
    BY <1>13, <1>16, <2>1
  <2>3. r.sequence_id - recs[i].sequence_id = (len + 1) - i /\ recs[i].sequence_id - r.sequence_id = i - (len + 1)
    <3>1. PICK a \in Nat : a = old[i].sequence_id /\ a + len + 1 = next + i
      BY <2>2
    <3>2. len \in Nat /\ next \in Nat /\ i \in Nat
      BY <1>12
    <3>3. next - a = (len + 1) - i
      BY <3>1, <3>2
    <3>4. a - next = i - (len + 1)
      BY <3>1, <3>2
    <3> QED  BY <2>1, <3>1, <3>3, <3>4
  <2> QED  BY <1>4, <1>7, <2>1, <2>2, <2>3
<1>17. Labelled(m)
  <2>1. ASSUME NEW i \in 1 .. len + 1, NEW j \in 1 .. len + 1, recs[i].session = recs[j].session
        PROVE  /\ recs[j].sequence_id - recs[i].sequence_id = j - i
               /\ recs[i].stream_id = recs[j].stream_id <=> recs[i].hint = recs[j].hint
    <3>1. CASE i \in 1 .. len /\ j \in 1 .. len
      <4>1. recs[i] = l.records[i] /\ recs[j] = l.records[j]
        BY <1>11, <1>12, <3>1
      <4> QED  BY SMTT(30), <1>11, <2>1, <3>1, <4>1 DEF Ids, Labelled
    <3>2. CASE i \in 1 .. len /\ j = len + 1
      BY <1>7, <1>12, <1>16, <2>1, <3>2
    <3>3. CASE j \in 1 .. len /\ i = len + 1
      BY <1>7, <1>12, <1>16, <2>1, <3>3
    <3>4. CASE i = len + 1 /\ j = len + 1
      BY <1>3, <1>7, <1>12, <3>4
    <3> QED  BY <1>12, <3>1, <3>2, <3>3, <3>4
  <2>2. Len(m.records) = len + 1 /\ recs = m.records
    BY <1>11, <1>12
  <2> QED  BY <2>1, <2>2 DEF Labelled
<1> QED  BY <1>0, <1>7, <1>9, <1>10, <1>14, <1>15, <1>17 DEF Ids, Extended

\* l is the log after the first n of ps.
Grown(l, ps, n) ==
    /\ l \in Log /\ Ids(l)
    /\ l.next_sequence = log.next_sequence + n /\ Len(l.records) = Len(log.records) + n
    /\ \A i \in 1 .. Len(log.records) : l.records[i] = log.records[i]
    /\ \A i \in 1 .. n :
          LET r == l.records[Len(log.records) + i]
          IN  r.op = ps[i].op /\ r.start = ps[i].start /\ r.group = ps[i].group

LEMMA GrownStep ==
    ASSUME NEW l, NEW ps \in Seq(Pending), NEW n \in Nat, n + 1 <= Len(ps), Grown(l, ps, n),
           log \in Log, sessions \in 0 .. MaxSessions
    PROVE  Grown(Recorded(l, ps[n + 1]), ps, n + 1)
<1>1. PICK p : p = ps[n + 1] /\ p \in Pending
  <2>1. Len(ps) \in Nat
    BY SequenceFacts
  <2>2. n + 1 \in 1 .. Len(ps)
    BY <2>1
  <2> QED  BY <2>2, LenProperties
<1>2. PICK m : m = Recorded(l, p)
  OBVIOUS
<1>3. l \in Log /\ Ids(l)
  BY DEF Grown
<1>4. Extended(l, p, m)
  BY <1>1, <1>2, <1>3, RecordedExtends
<1>5. PICK len, next : /\ len = Len(log.records) /\ next = log.next_sequence
                       /\ len \in Nat /\ next \in Nat
  BY LenProperties DEF Log
<1>6. /\ Len(l.records) = len + n /\ l.next_sequence = next + n
      /\ \A i \in 1 .. len : l.records[i] = log.records[i]
      /\ \A i \in 1 .. n : /\ l.records[len + i].op = ps[i].op
                           /\ l.records[len + i].start = ps[i].start
                           /\ l.records[len + i].group = ps[i].group
  BY <1>5 DEF Grown
<1>7. /\ Len(m.records) = len + (n + 1) /\ m.next_sequence = next + (n + 1)
      /\ Len(l.records) + 1 = len + (n + 1)
  <2>1. Len(m.records) = Len(l.records) + 1 /\ m.next_sequence = l.next_sequence + 1
    BY <1>4 DEF Extended
  <2>2. len \in Nat /\ next \in Nat /\ Len(l.records) = len + n /\ l.next_sequence = next + n
    BY <1>5, <1>6
  <2>3. Len(l.records) + 1 = len + (n + 1)
    BY <2>2
  <2>4. l.next_sequence + 1 = next + (n + 1)
    BY <2>2
  <2> QED  BY <2>1, <2>3, <2>4
<1>8. \A i \in 1 .. len : m.records[i] = log.records[i]
  <2>1. \A i \in 1 .. len : i \in 1 .. Len(l.records)
    BY <1>5, <1>6
  <2> QED  BY <1>4, <1>6, <2>1 DEF Extended
<1>9. ASSUME NEW i \in 1 .. n + 1
      PROVE  /\ m.records[len + i].op = ps[i].op
             /\ m.records[len + i].start = ps[i].start
             /\ m.records[len + i].group = ps[i].group
  <2>1. CASE i \in 1 .. n
    <3>1. len + i \in 1 .. Len(l.records)
      BY SMTT(30), <1>5, <1>6, <2>1
    <3>2. m.records[len + i] = l.records[len + i]
      BY <1>4, <3>1 DEF Extended
    <3> QED  BY <1>6, <2>1, <3>2
  <2>2. CASE i = n + 1
    <3>1. len + i = Len(l.records) + 1
      BY <1>7, <2>2
    <3> QED  BY <1>1, <1>4, <2>2, <3>1 DEF Extended
  <2> QED  BY <2>1, <2>2
<1> QED  BY <1>1, <1>2, <1>4, <1>5, <1>7, <1>8, <1>9 DEF Grown, Extended

LEMMA LeastOf ==
    ASSUME NEW T \in SUBSET Nat, T # {}
    PROVE  \E x \in T : \A y \in T : x <= y
<1>1. PICK R : R = OpToRel(<, Nat)
  OBVIOUS
<1>2. IsWellFoundedOn(R, Nat)
  BY <1>1, NatLessThanWellFounded
<1>3. PICK x \in T : \A y \in T : <<y, x>> \notin R
  BY <1>2, WFMin
<1>4. \A y \in T : <<y, x>> \in R <=> y < x
  BY <1>1 DEF OpToRel
<1>5. \A y \in T : y \in Nat
  OBVIOUS
<1>6. \A y \in T : ~(y < x)
  BY <1>3, <1>4
<1> QED  BY <1>5, <1>6

LEMMA BatchGrown ==
    ASSUME log \in Log, Ids(log), pending \in Seq(Pending), sessions \in 0 .. MaxSessions,
           NEW n \in 0 .. Len(pending)
    PROVE  Grown(RecordedFirst(n), pending, n)
<1> DEFINE Batch(f, k) == f = [i \in 0 .. k |-> IF i = 0 THEN log ELSE Recorded(f[i - 1], pending[i])]
<1>1. n \in Nat /\ Len(pending) \in Nat /\ n <= Len(pending)
  BY LenProperties
<1>2. \E f : Batch(f, n)
  <2> SUFFICES ASSUME ~ \E f : Batch(f, n)
               PROVE  FALSE
    OBVIOUS
  <2> DEFINE T == {k \in Nat : ~ \E f : Batch(f, k)}
  <2>1. n \in T
    BY <1>1
  <2> HIDE DEF Batch
  <2>2. PICK k \in T : \A j \in T : k <= j
    BY <2>1, LeastOf
  <2>3. k \in Nat /\ ~ \E f : Batch(f, k)
    BY <2>2
  <2>4. k # 0
    <3>1. Batch([i \in 0 .. 0 |-> log], 0)
      BY DEF Batch
    <3> QED  BY <2>3, <3>1
  <2>5. k - 1 \in Nat /\ k - 1 \notin T
    BY <2>2, <2>3, <2>4
  <2>6. PICK f : Batch(f, k - 1)
    BY <2>5
  <2>7. PICK g : g = [i \in 0 .. k |-> IF i < k THEN f[i] ELSE Recorded(f[k - 1], pending[k])]
    OBVIOUS
  <2>8. ASSUME NEW i \in 0 .. k
        PROVE  g[i] = IF i = 0 THEN log ELSE Recorded(g[i - 1], pending[i])
    <3>1. CASE i = 0
      BY <2>3, <2>4, <2>6, <2>7, <3>1 DEF Batch
    <3>2. CASE i # 0 /\ i < k
      <4>1. i \in 0 .. k - 1 /\ i - 1 \in 0 .. k /\ i - 1 < k
        BY <2>3, <3>2
      <4>2. g[i] = f[i] /\ g[i - 1] = f[i - 1]
        BY <2>7, <3>2, <4>1
      <4>3. f[i] = Recorded(f[i - 1], pending[i])
        BY <2>6, <3>2, <4>1 DEF Batch
      <4> QED  BY <3>2, <4>2, <4>3
    <3>3. CASE i = k
      <4>1. k - 1 \in 0 .. k /\ k - 1 < k /\ ~(k < k)
        BY <2>3, <2>4
      <4>2. g[k - 1] = f[k - 1] /\ g[k] = Recorded(f[k - 1], pending[k])
        BY <2>7, <3>3, <4>1
      <4> QED  BY <2>4, <3>3, <4>2
    <3> QED  BY <2>3, <3>1, <3>2, <3>3
  <2>9. Batch(g, k)
    BY <2>7, <2>8 DEF Batch
  <2> QED  BY <2>3, <2>9
<1>3. PICK f : f = CHOOSE g : Batch(g, n)
  OBVIOUS
<1>4. Batch(f, n)
  BY <1>2, <1>3
<1>5. RecordedFirst(n) = f[n]
  BY <1>3 DEF RecordedFirst
<1>6. f[0] = log /\ \A i \in 1 .. n : f[i] = Recorded(f[i - 1], pending[i])
  BY <1>1, <1>4
<1> HIDE DEF Batch
<1>7. \A k \in 0 .. n : Grown(f[k], pending, k)
  <2> SUFFICES ASSUME NEW h \in 0 .. n, ~Grown(f[h], pending, h)
               PROVE  FALSE
    OBVIOUS
  <2> DEFINE T == {k \in 0 .. n : ~Grown(f[k], pending, k)}
  <2>1. T \in SUBSET Nat /\ T # {}
    BY <1>1
  <2>2. PICK k \in T : \A j \in T : k <= j
    BY <2>1, LeastOf
  <2>3. k \in Nat /\ k <= n /\ ~Grown(f[k], pending, k)
    BY <1>1, <2>2
  <2>4. k # 0
    <3>1. Grown(log, pending, 0)
      <4>1. Len(log.records) \in Nat /\ log.next_sequence \in Nat
        BY LenProperties DEF Log
      <4>2. log \in Log /\ Ids(log)
        BY <1>1
      <4>3. 1 .. 0 = {}
        OBVIOUS
      <4>4. \A i \in 1 .. 0 :
                LET r == log.records[Len(log.records) + i]
                IN  /\ r.op = pending[i].op /\ r.start = pending[i].start
                    /\ r.group = pending[i].group
        BY <4>3
      <4>5. /\ log.next_sequence = log.next_sequence + 0
            /\ Len(log.records) = Len(log.records) + 0
        BY <4>1
      <4> QED  BY <4>2, <4>4, <4>5 DEF Grown
    <3> QED  BY <1>6, <2>3, <3>1
  <2>5. PICK j \in Nat : j + 1 = k
    BY <2>3, <2>4
  <2>6. Grown(f[j], pending, j)
    <3>1. j \in 0 .. n /\ j \notin T
      BY <1>1, <2>2, <2>3, <2>5
    <3> QED  BY <3>1
  <2>7. j + 1 <= Len(pending)
    BY <1>1, <2>3, <2>5
  <2>8. Grown(Recorded(f[j], pending[j + 1]), pending, j + 1)
    BY <2>5, <2>6, <2>7, GrownStep
  <2>9. f[k] = Recorded(f[j], pending[j + 1])
    <3>1. k \in 1 .. n /\ k - 1 = j
      BY <1>1, <2>3, <2>4, <2>5
    <3> QED  BY <1>6, <2>5, <3>1
  <2> QED  BY <2>3, <2>5, <2>8, <2>9
<1> QED  BY <1>1, <1>5, <1>7

-----------------------------------------------------------------------------
(* Steps of the benchmark: no operation begins or ends *)

LEMMA Sizes ==
    ASSUME TypeOK
    PROVE  /\ Len(history) \in Nat /\ Len(scopes) \in Nat /\ Len(pending) \in Nat
           /\ Len(in_flight) \in Nat /\ Len(log.records) \in Nat /\ log.next_sequence \in Nat
           /\ bench.ops \in Nat /\ bench.base \in Nat /\ MaxOps \in Nat /\ log \in Log
           /\ log.records \in Seq(Record) /\ log.streams \in Seq(Hints)
<1>1. MaxOps \in Nat
  BY TelemetryAssumption
<1>2. /\ log \in [records : Seq(Record), next_sequence : 0..MaxOps, streams : Seq(Hints)]
      /\ bench \in [group : Labels, ops : 0..MaxOps, base : 0..MaxOps]
  BY DEF TypeOK
<1>3. /\ log.records \in Seq(Record) /\ log.next_sequence \in Nat /\ log.streams \in Seq(Hints)
      /\ log = [records |-> log.records, next_sequence |-> log.next_sequence, streams |-> log.streams]
      /\ bench.ops \in Nat /\ bench.base \in Nat
  BY <1>1, <1>2
<1>4. log \in Log
  BY <1>3 DEF Log
<1>5. Len(log.records) \in Nat
  BY <1>3, LenProperties
<1> QED  BY <1>1, <1>3, <1>4, <1>5, LenProperties DEF TypeOK

LEMMA Aside ==
    ASSUME TelemetryInv, TypeOK', bench'.ops + Len(scopes) <= Len(history),
           bench'.group = NoGroup => bench' = NoBench,
           UNCHANGED <<log, pending, in_flight, scopes, events, misused, halted, history,
                       cut, cleared, sessions>>
    PROVE  TelemetryInv'
<1>1. Nesting' /\ Listed' /\ Apart'
  <2>1. Nesting'
    BY DEF TelemetryInv, Nesting
  <2>2. Listed'
    BY DEF TelemetryInv, Listed
  <2>3. Apart'
    BY DEF TelemetryInv, Apart
  <2> QED  BY <2>1, <2>2, <2>3
<1>2. Tally'
  BY DEF TelemetryInv, Tally, NoBench
<1>3. Ids(log)'
  BY SMTT(30) DEF TelemetryInv, Ids, Lasting, Mapped, Labelled
<1>4. Whole'
  <2>1. Spent(Len(pending))' = Spent(Len(pending))
    BY DEF Spent, Start, End
  <2>2. {Start(scopes[i].op) : i \in 1 .. Len(scopes)}' = {Start(scopes[i].op) : i \in 1 .. Len(scopes)}
    OBVIOUS
  <2> HIDE DEF Spent
  <2> QED  BY SMTT(30), <2>1, <2>2 DEF TelemetryInv, Whole
<1> QED  BY <1>1, <1>2, <1>3, <1>4 DEF TelemetryInv

LEMMA InvBenchmarkBegin ==
    ASSUME TelemetryInv, NEW g \in Groups, BenchmarkBegin(g)
    PROVE  TelemetryInv'
<1>1. TypeOK /\ Len(scopes) \in Nat /\ Len(history) \in Nat /\ MaxOps \in Nat
  BY Sizes DEF TelemetryInv
<1>2. bench' = [group |-> g, ops |-> 0, base |-> Len(scopes)]
  BY DEF BenchmarkBegin
<1>3. Len(scopes) <= Len(history) /\ Len(history) <= MaxOps
  <2>1. /\ bench.ops + Len(scopes) <= Len(history) /\ bench.ops \in Nat
        /\ Len(history) <= MaxOps
    BY <1>1, Sizes DEF TelemetryInv, Tally
  <2> QED  BY <1>1, <2>1
<1>4. bench' \in [group : Labels, ops : 0..MaxOps, base : 0..MaxOps]
  BY <1>1, <1>2, <1>3 DEF Labels
<1>5. iterations' \in 0 .. MaxIterations
  BY SMTT(30), <1>1, TelemetryAssumption DEF BenchmarkBegin, TypeOK
<1>6. TypeOK'
  BY <1>1, <1>4, <1>5 DEF BenchmarkBegin, TypeOK, Labels
<1>7. /\ bench'.ops + Len(scopes) <= Len(history)
      /\ bench'.group = NoGroup => bench' = NoBench
  BY <1>1, <1>2, <1>3, TelemetryAssumption
<1> QED  BY <1>6, <1>7, Aside DEF BenchmarkBegin

LEMMA InvBenchmarkSteps ==
    ASSUME TelemetryInv, BenchmarkNext \/ BenchmarkEnd \/ BenchmarkThrows
    PROVE  TelemetryInv'
<1>1. TypeOK /\ Len(scopes) \in Nat /\ Len(history) \in Nat /\ MaxOps \in Nat /\ bench.ops \in Nat
  BY Sizes DEF TelemetryInv
<1>2. /\ bench.ops + Len(scopes) <= Len(history) /\ Len(scopes) <= Len(history)
      /\ bench.group = NoGroup => bench = NoBench
  BY <1>1 DEF TelemetryInv, Tally
<1>3. bench # NoBench /\ bench.group \in Groups
  BY <1>1, <1>2 DEF BenchmarkNext, BenchmarkEnd, BenchmarkThrows, IterationDone, InBench, TypeOK, Labels
<1>4. CASE BenchmarkNext
  <2>1. bench' = [bench EXCEPT !.ops = 0] /\ iterations < MaxIterations /\ iterations' = iterations + 1
    BY <1>4 DEF BenchmarkNext
  <2>2. /\ bench' \in [group : Labels, ops : 0..MaxOps, base : 0..MaxOps]
        /\ bench'.ops = 0 /\ bench'.group = bench.group
    <3>1. bench \in [group : Labels, ops : 0..MaxOps, base : 0..MaxOps]
      BY <1>1 DEF TypeOK
    <3> QED  BY <1>1, <2>1, <3>1
  <2>3. iterations' \in 0 .. MaxIterations
    BY SMTT(30), <1>1, <2>1, TelemetryAssumption DEF TypeOK
  <2>4. TypeOK'
    BY <1>1, <1>4, <2>2, <2>3 DEF BenchmarkNext, TypeOK
  <2>5. bench'.ops + Len(scopes) <= Len(history) /\ (bench'.group = NoGroup => bench' = NoBench)
    BY <1>1, <1>2, <1>3, <2>2, TelemetryAssumption
  <2> QED  BY <1>4, <2>4, <2>5, Aside DEF BenchmarkNext
<1>5. CASE BenchmarkEnd \/ BenchmarkThrows
  <2>1. bench' = NoBench
    BY <1>5 DEF BenchmarkEnd, BenchmarkThrows
  <2>2. bench' \in [group : Labels, ops : 0..MaxOps, base : 0..MaxOps] /\ bench'.ops = 0
    BY <1>1, <2>1 DEF NoBench, Labels
  <2>3. /\ current' \in Labels /\ spoilt' \subseteq Groups
        /\ UNCHANGED <<log, pending, in_flight, group_ops, scopes, events, misused, halted, history,
                       iterations, sessions, cut, cleared>>
    BY <1>1, <1>3, <1>5 DEF BenchmarkEnd, BenchmarkThrows, TypeOK, Labels
  <2>4. TypeOK'
    BY <1>1, <2>2, <2>3 DEF TypeOK
  <2>5. bench'.ops + Len(scopes) <= Len(history)
    BY <1>1, <1>2, <2>2
  <2> QED  BY <2>1, <2>3, <2>4, <2>5, Aside
<1> QED  BY <1>4, <1>5

-----------------------------------------------------------------------------
(* Sessions, clear, and the exception that leaves a scope *)

LEMMA InvStartSession ==
    ASSUME TelemetryInv, StartSession
    PROVE  TelemetryInv'
<1>1. /\ ~halted /\ sessions < MaxSessions /\ sessions' = sessions + 1
      /\ log' = [log EXCEPT !.next_sequence = 0, !.streams = <<>>]
      /\ current' = NoGroup /\ group_ops' = {}
      /\ spoilt' = spoilt \cup ({bench.group} \ {NoGroup})
      /\ UNCHANGED <<pending, in_flight, scopes, bench, events, misused, halted, history,
                     iterations, cut, cleared>>
  BY DEF StartSession
<1>2. TypeOK /\ Len(scopes) \in Nat /\ Len(history) \in Nat /\ MaxOps \in Nat /\ Len(pending) \in Nat
  BY Sizes DEF TelemetryInv
<1>3. log \in [records : Seq(Record), next_sequence : 0..MaxOps, streams : Seq(Hints)]
  BY <1>2 DEF TypeOK
<1>4. /\ log' \in [records : Seq(Record), next_sequence : 0..MaxOps, streams : Seq(Hints)]
      /\ log'.records = log.records /\ log'.next_sequence = 0 /\ log'.streams = <<>>
      /\ log.next_sequence \in Nat
  <2>1. log' = [records |-> log.records, next_sequence |-> 0, streams |-> <<>>]
    BY <1>1, <1>3
  <2>2. <<>> \in Seq(Hints) /\ 0 \in 0 .. MaxOps /\ log.records \in Seq(Record) /\ log.next_sequence \in Nat
    BY <1>2, <1>3
  <2> QED  BY <2>1, <2>2
<1>5. sessions \in Nat /\ sessions' \in 0 .. MaxSessions
  BY SMTT(30), <1>1, <1>2, TelemetryAssumption DEF TypeOK
<1>6. TypeOK'
  BY <1>1, <1>2, <1>4, <1>5 DEF TypeOK, Labels
<1>7. Nesting' /\ Listed' /\ Apart'
  BY <1>1, <1>4 DEF TelemetryInv, Nesting, Listed, Apart
<1>8. Tally'
  <2>1. log.next_sequence + Len(pending) + Len(scopes) <= Len(history)
    BY <1>1 DEF TelemetryInv, Tally
  <2>2. log'.next_sequence + Len(pending) + Len(scopes) <= Len(history)
    BY <1>2, <1>4, <2>1
  <2> QED  BY <1>1, <2>2 DEF TelemetryInv, Tally, NoBench
<1>9. Ids(log)'
  <2>1. ASSUME NEW i \in 1 .. Len(log.records)
        PROVE  log.records[i].session <= sessions' /\ log.records[i].session # sessions'
    <3>1. log.records[i].session <= sessions
      BY DEF TelemetryInv, Ids, Lasting
    <3>2. log.records[i] \in Record
      BY <1>3, LenProperties
    <3>3. log.records[i].session \in Nat
      BY <3>2, TelemetryAssumption DEF Record
    <3> QED  BY <1>1, <1>5, <3>1, <3>3
  <2>2. Lasting(log)'
    BY <1>4, <2>1 DEF Lasting
  <2>3. Mapped(log)'
    <3>1. Len(log'.streams) = 0
      BY <1>4
    <3> QED  BY <3>1 DEF Mapped
  <2>4. Labelled(log)'
    BY <1>4 DEF TelemetryInv, Ids, Labelled
  <2> QED  BY <2>2, <2>3, <2>4 DEF Ids
<1>10. Whole'
  BY <1>1, <1>4 DEF TelemetryInv, Whole, Spent, Start, End
<1> QED  BY <1>6, <1>7, <1>8, <1>9, <1>10 DEF TelemetryInv

LEMMA InvClear ==
    ASSUME TelemetryInv, Clear
    PROVE  TelemetryInv'
<1>1. /\ ~halted /\ log' = [log EXCEPT !.records = <<>>]
      /\ cleared' = cleared \cup {log.records[i].op : i \in DOMAIN log.records}
      /\ spoilt' = (spoilt \cup {bench.group} \cup {pending[i].group : i \in DOMAIN pending}) \ {NoGroup}
      /\ UNCHANGED <<pending, in_flight, current, group_ops, scopes, bench, events, misused,
                     halted, history, iterations, sessions, cut>>
  BY DEF Clear
<1>2. /\ TypeOK /\ log.records \in Seq(Record) /\ DOMAIN log.records = 1 .. Len(log.records)
      /\ DOMAIN pending = 1 .. Len(pending) /\ \A i \in 1 .. Len(pending) : pending[i] \in Pending
      /\ \A i \in 1 .. Len(log.records) : log.records[i] \in Record
  <2>1. TypeOK /\ log.records \in Seq(Record) /\ pending \in Seq(Pending)
    BY Sizes DEF TelemetryInv, TypeOK
  <2> QED  BY <2>1, LenProperties
<1>3. /\ log' \in [records : Seq(Record), next_sequence : 0..MaxOps, streams : Seq(Hints)]
      /\ log'.records = <<>> /\ log'.next_sequence = log.next_sequence /\ log'.streams = log.streams
      /\ Len(log'.records) = 0
  <2>1. log \in [records : Seq(Record), next_sequence : 0..MaxOps, streams : Seq(Hints)]
    BY <1>2 DEF TypeOK
  <2>2. log' = [records |-> <<>>, next_sequence |-> log.next_sequence, streams |-> log.streams]
    BY <1>1, <2>1
  <2>3. <<>> \in Seq(Record) /\ Len(<<>>) = 0
    OBVIOUS
  <2> QED  BY <2>1, <2>2, <2>3
<1>4. TypeOK'
  <2>1. cleared' \subseteq Operations
    <3>1. \A i \in DOMAIN log.records : log.records[i].op \in Operations
      BY <1>2 DEF Record
    <3>2. cleared \subseteq Operations
      BY <1>2 DEF TypeOK
    <3> QED  BY <1>1, <3>1, <3>2
  <2>2. spoilt' \subseteq Groups
    BY <1>1, <1>2 DEF TypeOK, Pending, Labels
  <2> QED  BY <1>1, <1>2, <1>3, <2>1, <2>2 DEF TypeOK
<1>5. Nesting' /\ Tally'
  BY <1>1, <1>3 DEF TelemetryInv, Nesting, Tally, NoBench
<1>6. Listed'
  <2>1. \A n \in cleared' : n \in 1 .. Len(history) /\ history[n].ended
    BY <1>1, <1>2 DEF TelemetryInv, Listed
  <2> QED  BY <1>1, <1>3, <2>1 DEF TelemetryInv, Listed
<1>7. Apart'
  <2>1. \A i \in 1 .. Len(pending) : pending[i].op \notin cleared'
    BY <1>1, <1>2 DEF TelemetryInv, Apart
  <2> QED  BY <1>1, <1>3, <2>1 DEF TelemetryInv, Apart
<1>8. Ids(log)'
  BY <1>1, <1>3 DEF TelemetryInv, Ids, Lasting, Mapped, Labelled
<1>9. Whole'
  <2> SUFFICES ASSUME cut = {}
               PROVE  Whole'
    BY <1>1 DEF Whole
  <2>1. \A n \in 1 .. Len(history) : history[n].ended =>
            (\E i \in 1 .. Len(pending) : pending[i].op = n) \/ n \in cleared'
    BY <1>1, <1>2 DEF TelemetryInv, Whole
  <2> QED  BY <1>1, <1>3, <2>1 DEF TelemetryInv, Whole, Spent, Start, End
<1> QED  BY <1>4, <1>5, <1>6, <1>7, <1>8, <1>9 DEF TelemetryInv

LEMMA InvScopeEndFails ==
    ASSUME TelemetryInv, ScopeEndFails
    PROVE  TelemetryInv'
<1>1. /\ halted' = TRUE /\ events' \subseteq events
      /\ UNCHANGED <<log, pending, in_flight, current, group_ops, scopes, bench, misused,
                     history, iterations, sessions, cut, spoilt, cleared>>
  BY DEF ScopeEndFails
<1>2. TypeOK'
  BY <1>1 DEF TelemetryInv, TypeOK
<1>3. Nesting' /\ Listed' /\ Apart' /\ Whole'
  BY <1>1 DEF TelemetryInv, Nesting, Listed, Apart, Whole
<1>4. Tally'
  BY <1>1 DEF TelemetryInv, Tally, NoBench
<1>5. Ids(log)'
  BY SMTT(30), <1>1 DEF TelemetryInv, Ids, Lasting, Mapped, Labelled
<1> QED  BY <1>2, <1>3, <1>4, <1>5 DEF TelemetryInv

-----------------------------------------------------------------------------
(* An operation begins *)

History == [iteration : 0..MaxIterations, ended : BOOLEAN, group : Labels]

LEMMA HistoryGrows ==
    ASSUME TelemetryInv, MayBegin, NEW e \in BOOLEAN, history' = Began(e)
    PROVE  /\ history' \in Seq(History) /\ Len(history') = Len(history) + 1
           /\ \A n \in 1 .. Len(history) : history'[n] = history[n]
           /\ history'[New].ended = e /\ history'[New].group = current
           /\ New \in Operations /\ New = Len(history) + 1 /\ New \notin 1 .. Len(history)
           /\ 1 .. Len(history') = (1 .. Len(history)) \cup {New} /\ ~halted
<1>1. TypeOK /\ Len(history) \in Nat /\ MaxOps \in Nat
  BY Sizes DEF TelemetryInv
<1>2. PICK r : r = [iteration |-> IF InBench THEN iterations ELSE 0, ended |-> e, group |-> current]
  OBVIOUS
<1>3. r \in History /\ r.ended = e /\ r.group = current
  BY <1>1, <1>2, TelemetryAssumption DEF History, TypeOK
<1>4. history' = Append(history, r) /\ history \in Seq(History)
  BY <1>1, <1>2 DEF Began, TypeOK, History
<1>5. Len(history) < MaxOps /\ ~halted
  BY DEF MayBegin
<1>6. New = Len(history) + 1 /\ New \in Operations /\ New \notin 1 .. Len(history)
  BY <1>1, <1>5 DEF New, Operations
<1> QED  BY <1>3, <1>4, <1>5, <1>6, SequenceFacts

LEMMA BenchCounts ==
    ASSUME TelemetryInv, bench' = Counted(bench), bench.ops + 1 <= MaxOps
    PROVE  /\ bench' \in [group : Labels, ops : 0..MaxOps, base : 0..MaxOps]
           /\ bench'.ops <= bench.ops + 1 /\ bench'.ops \in Nat
           /\ bench'.group = NoGroup => bench' = NoBench
<1>1. /\ bench \in [group : Labels, ops : 0..MaxOps, base : 0..MaxOps] /\ bench.ops \in Nat /\ MaxOps \in Nat
      /\ bench.group = NoGroup => bench = NoBench
  BY Sizes DEF TelemetryInv, TypeOK, Tally
<1>2. CASE bench = NoBench
  BY <1>1, <1>2 DEF Counted, InBench
<1>3. CASE bench # NoBench
  <2>1. bench' = [bench EXCEPT !.ops = bench.ops + 1]
    BY <1>3 DEF Counted, InBench
  <2>2. bench.ops + 1 \in 0 .. MaxOps
    BY <1>1
  <2>3. bench'.ops = bench.ops + 1 /\ bench'.group = bench.group
    BY <1>1, <2>1
  <2>4. bench' \in [group : Labels, ops : 0..MaxOps, base : 0..MaxOps]
    BY <1>1, <2>1, <2>2
  <2> QED  BY <1>1, <1>3, <2>3, <2>4
<1> QED  BY <1>2, <1>3

LEMMA InvScopeBegin ==
    ASSUME TelemetryInv, NEW h \in Hints, ScopeBegin(h)
    PROVE  TelemetryInv'
<1>1. /\ MayBegin /\ events' = events \cup {Start(New)} /\ in_flight' = Append(in_flight, New)
      /\ history' = Began(FALSE)
      /\ UNCHANGED <<log, pending, current, group_ops, bench, misused, halted, iterations,
                     sessions, cut, spoilt, cleared>>
  BY DEF ScopeBegin
<1>2. /\ TypeOK /\ Len(history) \in Nat /\ Len(scopes) \in Nat /\ Len(pending) \in Nat
      /\ Len(in_flight) \in Nat /\ log.next_sequence \in Nat /\ bench.ops \in Nat /\ MaxOps \in Nat
  BY Sizes DEF TelemetryInv
<1>3. /\ history' \in Seq(History) /\ Len(history') = Len(history) + 1
      /\ \A n \in 1 .. Len(history) : history'[n] = history[n]
      /\ history'[New].ended = FALSE
      /\ New \in Operations /\ New = Len(history) + 1 /\ New \notin 1 .. Len(history)
      /\ 1 .. Len(history') = (1 .. Len(history)) \cup {New} /\ ~halted
  BY <1>1, HistoryGrows
<1>4. /\ Len(history) + 1 <= MaxOps /\ Len(in_flight) <= Len(history)
      /\ bench.ops + Len(scopes) <= Len(history)
      /\ log.next_sequence + Len(pending) + Len(scopes) <= Len(history)
      /\ bench.group = NoGroup => bench = NoBench
  BY <1>2, <1>3 DEF TelemetryInv, Tally, Operations
<1>5. PICK r : /\ r = [op |-> New, handle |-> Len(in_flight) + 1, hint |-> h]
               /\ scopes' = Append(scopes, r)
  BY DEF ScopeBegin
<1> DEFINE Scope == [op : Operations, handle : 1..MaxOps, hint : Hints]
<1>6. r \in Scope /\ r.op = New /\ r.handle = Len(in_flight) + 1
  <2>1. Len(in_flight) + 1 \in 1 .. MaxOps
    BY <1>2, <1>4
  <2> QED  BY <1>3, <1>5, <2>1
<1>7. /\ scopes \in Seq(Scope) /\ scopes' \in Seq(Scope) /\ Len(scopes') = Len(scopes) + 1
      /\ \A i \in 1 .. Len(scopes) : scopes'[i] = scopes[i] /\ scopes[i] \in Scope
      /\ scopes'[Len(scopes) + 1] = r
      /\ 1 .. Len(scopes') = (1 .. Len(scopes)) \cup {Len(scopes) + 1}
  <2>1. scopes \in Seq(Scope)
    BY <1>2 DEF TypeOK
  <2> HIDE DEF Scope
  <2> QED  BY <1>5, <1>6, <2>1, SequenceFacts
<1>8. /\ in_flight' \in Seq(Operations) /\ Len(in_flight') = Len(in_flight) + 1
      /\ \A i \in 1 .. Len(in_flight) : in_flight'[i] = in_flight[i]
      /\ in_flight'[Len(in_flight) + 1] = New
  <2>1. in_flight \in Seq(Operations)
    BY <1>2 DEF TypeOK
  <2> QED  BY <1>1, <1>3, <2>1, SequenceFacts
<1>9. TypeOK'
  <2>1. events' \subseteq {Start(n) : n \in Operations} \cup {End(n) : n \in Operations}
    BY <1>1, <1>2, <1>3 DEF TypeOK
  <2> QED  BY <1>1, <1>2, <1>3, <1>7, <1>8, <2>1 DEF TypeOK, History, Start, End
<1> HIDE DEF Scope
<1>10. Nesting'
  <2>1. \A i \in 1 .. Len(scopes) : /\ scopes[i].op \in 1 .. Len(history)
                                    /\ ~history[scopes[i].op].ended
    BY DEF TelemetryInv, Nesting
  <2>2. ASSUME NEW i \in 1 .. Len(scopes')
        PROVE  scopes'[i].op \in 1 .. Len(history') /\ ~history'[scopes'[i].op].ended
    <3>1. CASE i \in 1 .. Len(scopes)
      BY <1>3, <1>7, <2>1, <3>1
    <3>2. CASE i = Len(scopes) + 1
      BY <1>3, <1>6, <1>7, <3>2
    <3> QED  BY <1>7, <3>1, <3>2
  <2>3. ASSUME NEW i \in 1 .. Len(scopes'), NEW j \in 1 .. Len(scopes'), scopes'[i].op = scopes'[j].op
        PROVE  i = j
    <3>1. \A k \in 1 .. Len(scopes) : scopes'[k].op # New
      BY SMTT(30), <1>3, <1>7, <2>1
    <3>2. scopes'[Len(scopes) + 1].op = New
      BY <1>6, <1>7
    <3>3. CASE i \in 1 .. Len(scopes) /\ j \in 1 .. Len(scopes)
      BY <1>7, <2>3, <3>3 DEF TelemetryInv, Nesting
    <3> QED  BY <1>7, <2>3, <3>1, <3>2, <3>3
  <2> QED  BY <2>2, <2>3 DEF Nesting
<1>11. Tally'
  <2>1. Len(history') <= MaxOps /\ Len(in_flight') <= Len(history')
    BY <1>2, <1>3, <1>4, <1>8
  <2>2. bench.ops + Len(scopes') <= Len(history')
    BY SMTT(30), <1>2, <1>3, <1>4, <1>7
  <2>3. log.next_sequence + Len(pending) + Len(scopes') <= Len(history')
    BY <1>2, <1>3, <1>4, <1>7
  <2> QED  BY <1>1, <1>4, <2>1, <2>2, <2>3 DEF Tally, NoBench
<1>12. Listed'
  <2>1. \A n \in 1 .. Len(history) : n \in 1 .. Len(history') /\ history'[n] = history[n]
    BY <1>3
  <2>2. log' = log /\ pending' = pending /\ cleared' = cleared
    BY <1>1
  <2>3. \A i \in 1 .. Len(pending') :
           LET m == pending'[i].op
           IN  m \in 1 .. Len(history') /\ history'[m].ended /\ history'[m].group = pending'[i].group
    BY <2>1, <2>2 DEF TelemetryInv, Listed
  <2>4. \A i \in 1 .. Len(log'.records) :
           LET m == log'.records[i].op
           IN  m \in 1 .. Len(history') /\ history'[m].ended /\ history'[m].group = log'.records[i].group
    BY <2>1, <2>2 DEF TelemetryInv, Listed
  <2>5. \A m \in cleared' : m \in 1 .. Len(history') /\ history'[m].ended
    BY <2>1, <2>2 DEF TelemetryInv, Listed
  <2> QED  BY <2>3, <2>4, <2>5 DEF Listed
<1>13. Apart' /\ Ids(log)'
  BY <1>1 DEF TelemetryInv, Apart, Ids, Lasting, Mapped, Labelled
<1>14. Whole'
  <2> SUFFICES ASSUME cut = {}
               PROVE  /\ events' = {Start(scopes'[i].op) : i \in 1 .. Len(scopes')} \cup Spent(Len(pending))
                      /\ \A i \in 1 .. Len(scopes') : /\ scopes'[i].handle <= Len(in_flight')
                                                      /\ in_flight'[scopes'[i].handle] = scopes'[i].op
                      /\ \A n \in 1 .. Len(history') : history'[n].ended =>
                            \/ \E i \in 1 .. Len(pending) : pending[i].op = n
                            \/ \E i \in 1 .. Len(log.records) : log.records[i].op = n
                            \/ n \in cleared
    <3>1. Spent(Len(pending))' = Spent(Len(pending))
      BY <1>1 DEF Spent, Start, End
    <3>2. cut = {} => /\ ~misused /\ \A i \in 1 .. Len(pending) : pending[i].start = pending[i].op
                      /\ \A i \in 1 .. Len(log.records) : log.records[i].start = log.records[i].op
      BY <1>3 DEF TelemetryInv, Whole
    <3> QED  BY <1>1, <1>3, <3>1, <3>2 DEF Whole, Start
  <2>1. /\ events = {Start(scopes[i].op) : i \in 1 .. Len(scopes)} \cup Spent(Len(pending))
        /\ \A i \in 1 .. Len(scopes) : /\ scopes[i].handle <= Len(in_flight)
                                       /\ in_flight[scopes[i].handle] = scopes[i].op
        /\ \A n \in 1 .. Len(history) : history[n].ended =>
              \/ \E i \in 1 .. Len(pending) : pending[i].op = n
              \/ \E i \in 1 .. Len(log.records) : log.records[i].op = n
              \/ n \in cleared
    BY <1>3 DEF TelemetryInv, Whole
  <2>2. {Start(scopes'[i].op) : i \in 1 .. Len(scopes')} =
            {Start(scopes[i].op) : i \in 1 .. Len(scopes)} \cup {Start(New)}
    BY <1>6, <1>7
  <2>3. ASSUME NEW i \in 1 .. Len(scopes')
        PROVE  scopes'[i].handle <= Len(in_flight') /\ in_flight'[scopes'[i].handle] = scopes'[i].op
    <3>1. CASE i \in 1 .. Len(scopes)
      <4>1. scopes[i].handle \in 1 .. MaxOps
        BY <1>7, <3>1 DEF Scope
      <4>2. scopes[i].handle \in 1 .. Len(in_flight)
        BY <1>2, <2>1, <3>1, <4>1
      <4>3. scopes'[i] = scopes[i] /\ in_flight'[scopes[i].handle] = scopes[i].op
        BY <1>7, <1>8, <2>1, <3>1, <4>2
      <4>4. scopes[i].handle <= Len(in_flight')
        BY <1>2, <1>8, <4>2
      <4> QED  BY <4>3, <4>4
    <3>2. CASE i = Len(scopes) + 1
      BY <1>2, <1>6, <1>7, <1>8, <3>2
    <3> QED  BY <1>7, <3>1, <3>2
  <2>4. \A n \in 1 .. Len(history') : history'[n].ended => n \in 1 .. Len(history) /\ history[n].ended
    BY <1>3
  <2> QED  BY <1>1, <2>1, <2>2, <2>3, <2>4
<1> QED  BY <1>9, <1>10, <1>11, <1>12, <1>13, <1>14 DEF TelemetryInv

LEMMA InvRecordNow ==
    ASSUME TelemetryInv, NEW h \in Hints, RecordNow(h)
    PROVE  TelemetryInv'
<1>1. /\ MayBegin /\ history' = Began(TRUE) /\ bench' = Counted(bench)
      /\ UNCHANGED <<pending, in_flight, current, group_ops, scopes, events, misused,
                     halted, iterations, sessions, cut, spoilt, cleared>>
  BY DEF RecordNow
<1>2. /\ TypeOK /\ Len(history) \in Nat /\ Len(scopes) \in Nat /\ Len(pending) \in Nat
      /\ Len(in_flight) \in Nat /\ log.next_sequence \in Nat /\ bench.ops \in Nat /\ MaxOps \in Nat
      /\ Len(log.records) \in Nat /\ log \in Log
  BY Sizes DEF TelemetryInv
<1>3. /\ history' \in Seq(History) /\ Len(history') = Len(history) + 1
      /\ \A n \in 1 .. Len(history) : history'[n] = history[n]
      /\ history'[New].ended = TRUE /\ history'[New].group = current
      /\ New \in Operations /\ New = Len(history) + 1 /\ New \notin 1 .. Len(history)
      /\ 1 .. Len(history') = (1 .. Len(history)) \cup {New} /\ ~halted
  BY <1>1, HistoryGrows
<1>4. /\ Len(history) + 1 <= MaxOps /\ Len(in_flight) <= Len(history)
      /\ bench.ops + Len(scopes) <= Len(history)
      /\ log.next_sequence + Len(pending) + Len(scopes) <= Len(history)
  BY <1>2, <1>3 DEF TelemetryInv, Tally, Operations
<1>5. PICK p : p = [op |-> New, start |-> New, group |-> current, hint |-> h] /\ log' = Recorded(log, p)
  BY DEF RecordNow
<1>6. p \in Pending /\ p.op = New /\ p.start = New /\ p.group = current
  BY <1>2, <1>3, <1>5 DEF Pending, TypeOK
<1>7. PICK l : l = Recorded(log, p)
  OBVIOUS
<1>8. Extended(log, p, l)
  BY <1>2, <1>6, <1>7, RecordedExtends DEF TelemetryInv, TypeOK
<1>9. PICK len : len = Len(log.records) /\ len \in Nat
  BY <1>2
<1>10. /\ l \in Log /\ Ids(l) /\ Len(l.records) = len + 1 /\ l.next_sequence = log.next_sequence + 1
       /\ \A i \in 1 .. len : l.records[i] = log.records[i]
       /\ l.records[len + 1].op = New /\ l.records[len + 1].start = New
       /\ l.records[len + 1].group = current /\ log' = l
       /\ 1 .. len + 1 = (1 .. len) \cup {len + 1}
  <2>1. 1 .. len + 1 = (1 .. len) \cup {len + 1}
    BY <1>9
  <2> QED  BY <1>5, <1>6, <1>7, <1>8, <1>9, <2>1 DEF Extended
<1>11. l \in [records : Seq(Record), next_sequence : 0..MaxOps, streams : Seq(Hints)]
  <2>1. l.next_sequence \in 0 .. MaxOps
    BY SMTT(30), <1>2, <1>4, <1>10
  <2> QED  BY <1>10, <2>1 DEF Log
<1>12. /\ bench' \in [group : Labels, ops : 0..MaxOps, base : 0..MaxOps]
       /\ bench'.ops <= bench.ops + 1 /\ bench'.ops \in Nat
       /\ bench'.group = NoGroup => bench' = NoBench
  <2>1. bench.ops + 1 <= MaxOps
    BY <1>2, <1>4
  <2> QED  BY <1>1, <2>1, BenchCounts
<1>13. TypeOK'
  BY <1>1, <1>2, <1>3, <1>10, <1>11, <1>12 DEF TypeOK, History
<1>14. Nesting'
  <2>1. \A n \in 1 .. Len(history) : n \in 1 .. Len(history') /\ history'[n] = history[n]
    BY <1>3
  <2> QED  BY <1>1, <2>1 DEF TelemetryInv, Nesting
<1>15. Tally'
  <2>1. Len(history') <= MaxOps /\ Len(in_flight) <= Len(history')
    BY <1>2, <1>3, <1>4
  <2>2. bench'.ops + Len(scopes) <= Len(history')
    BY <1>2, <1>3, <1>4, <1>12
  <2>3. l.next_sequence + Len(pending) + Len(scopes) <= Len(history')
    BY <1>2, <1>3, <1>4, <1>10
  <2> QED  BY <1>1, <1>10, <1>12, <2>1, <2>2, <2>3 DEF Tally, NoBench
<1>16. Listed'
  <2>1. \A n \in 1 .. Len(history) : n \in 1 .. Len(history') /\ history'[n] = history[n]
    BY <1>3
  <2>2. ASSUME NEW i \in 1 .. len + 1
        PROVE  LET n == l.records[i].op
               IN  n \in 1 .. Len(history') /\ history'[n].ended /\ history'[n].group = l.records[i].group
    <3>1. CASE i \in 1 .. len
      <4>1. l.records[i] = log.records[i] /\ i \in 1 .. Len(log.records)
        BY <1>9, <1>10, <3>1
      <4> QED  BY <2>1, <4>1 DEF TelemetryInv, Listed
    <3>2. CASE i = len + 1
      BY <1>3, <1>10, <3>2
    <3> QED  BY <1>10, <3>1, <3>2
  <2> QED  BY ZenonT(30), <1>1, <1>10, <2>1, <2>2 DEF TelemetryInv, Listed
<1>17. Apart'
  <2>1. /\ \A i \in 1 .. Len(pending) : pending[i].op # New
        /\ \A i \in 1 .. len : l.records[i].op # New
        /\ New \notin cleared
    <3>1. \A i \in 1 .. len : l.records[i] = log.records[i] /\ i \in 1 .. Len(log.records)
      BY <1>9, <1>10
    <3>2. \A i \in 1 .. Len(log.records) : log.records[i].op # New
      BY <1>3 DEF TelemetryInv, Listed
    <3>3. \A i \in 1 .. Len(pending) : pending[i].op # New
      BY <1>3 DEF TelemetryInv, Listed
    <3>4. New \notin cleared
      BY <1>3 DEF TelemetryInv, Listed
    <3> QED  BY <3>1, <3>2, <3>3, <3>4
  <2>2. ASSUME NEW i \in 1 .. len + 1
        PROVE  /\ l.records[i].op \notin cleared
               /\ \A j \in 1 .. Len(pending) : pending[j].op # l.records[i].op
               /\ \A j \in 1 .. len + 1 : l.records[i].op = l.records[j].op => i = j
    <3>1. CASE i \in 1 .. len
      <4>1. \A j \in 1 .. len : l.records[j] = log.records[j] /\ j \in 1 .. Len(log.records)
        BY <1>9, <1>10
      <4>2. l.records[i] = log.records[i] /\ i \in 1 .. Len(log.records) /\ ~halted
        BY <1>3, <3>1, <4>1
      <4>3. l.records[i].op \notin cleared
        BY <4>2 DEF TelemetryInv, Apart
      <4>4. \A j \in 1 .. Len(pending) : pending[j].op # l.records[i].op
        BY <4>2 DEF TelemetryInv, Apart
      <4>5. \A j \in 1 .. len : l.records[i].op = l.records[j].op => i = j
        BY <4>1, <4>2 DEF TelemetryInv, Apart
      <4> QED  BY <1>10, <2>1, <3>1, <4>3, <4>4, <4>5
    <3>2. CASE i = len + 1
      BY <1>10, <2>1, <3>2
    <3> QED  BY <1>10, <3>1, <3>2
  <2> QED  BY <1>1, <1>3, <1>10, <2>2 DEF TelemetryInv, Apart
<1>18. Ids(log)'
  <2>1. log' = l /\ sessions' = sessions /\ Lasting(l) /\ Mapped(l) /\ Labelled(l)
    BY <1>1, <1>10 DEF Ids
  <2>2. Lasting(log)'
    BY <2>1 DEF Lasting
  <2>3. Mapped(log)'
    BY <2>1 DEF Mapped
  <2>4. Labelled(log)'
    BY SMTT(30), <2>1 DEF Labelled
  <2> QED  BY <2>2, <2>3, <2>4 DEF Ids
<1>19. Whole'
  <2>1. Spent(Len(pending))' = Spent(Len(pending))
    BY <1>1 DEF Spent, Start, End
  <2>2. ASSUME cut = {}
        PROVE  /\ events = {Start(scopes[i].op) : i \in 1 .. Len(scopes)} \cup Spent(Len(pending))
               /\ ~misused
               /\ \A i \in 1 .. Len(scopes) : /\ scopes[i].handle <= Len(in_flight)
                                              /\ in_flight[scopes[i].handle] = scopes[i].op
               /\ \A i \in 1 .. Len(pending) : pending[i].start = pending[i].op
               /\ \A i \in 1 .. len : log.records[i].start = log.records[i].op
               /\ \A n \in 1 .. Len(history) : history[n].ended =>
                     \/ \E i \in 1 .. Len(pending) : pending[i].op = n
                     \/ \E i \in 1 .. len : log.records[i].op = n
                     \/ n \in cleared
    BY <1>3, <1>9, <2>2 DEF TelemetryInv, Whole
  <2>3. ASSUME cut = {}, NEW i \in 1 .. len + 1
        PROVE  l.records[i].start = l.records[i].op
    BY <1>10, <2>2, <2>3
  <2>4. ASSUME cut = {}, NEW n \in 1 .. Len(history'), history'[n].ended
        PROVE  \/ \E i \in 1 .. Len(pending) : pending[i].op = n
               \/ \E i \in 1 .. len + 1 : l.records[i].op = n
               \/ n \in cleared
    <3>1. CASE n = New
      BY <1>10, <3>1
    <3>2. CASE n \in 1 .. Len(history)
      BY <1>3, <1>10, <2>2, <2>4, <3>2
    <3> QED  BY <1>3, <3>1, <3>2
  <2> QED  BY ZenonT(30), <1>1, <1>10, <2>1, <2>2, <2>3, <2>4 DEF Whole, Start
<1> QED  BY <1>13, <1>14, <1>15, <1>16, <1>17, <1>18, <1>19 DEF TelemetryInv

-----------------------------------------------------------------------------
(* A scope ends *)

\* What end_async, done or ignored, does to the stack and the history.
Popped(n) ==
    /\ Len(scopes) \in Nat \ {0} /\ Innermost = scopes[Len(scopes)] /\ n = Innermost.op
    /\ Innermost \in [op : Operations, handle : 1..MaxOps, hint : Hints]
    /\ n \in 1 .. Len(history) /\ ~history[n].ended /\ ~halted
    /\ \A i \in 1 .. Len(pending) : pending[i].op # n
    /\ \A i \in 1 .. Len(log.records) : log.records[i].op # n
    /\ n \notin cleared
    /\ Len(scopes') = Len(scopes) - 1
    /\ \A i \in 1 .. Len(scopes) - 1 : scopes'[i] = scopes[i] /\ scopes[i].op # n
    /\ Len(history') = Len(history) /\ history'[n].ended /\ history'[n].group = current
    /\ \A m \in 1 .. Len(history) : m # n => history'[m] = history[m]

LEMMA ScopePopped ==
    ASSUME TelemetryInv, Ending, ScopeLeft
    PROVE  /\ Popped(Innermost.op)
           /\ scopes' \in Seq([op : Operations, handle : 1..MaxOps, hint : Hints])
           /\ history' \in Seq(History)
           /\ bench' \in [group : Labels, ops : 0..MaxOps, base : 0..MaxOps]
           /\ bench'.ops + Len(scopes') <= Len(history')
           /\ bench'.group = NoGroup => bench' = NoBench
           /\ Nesting'
<1> DEFINE Scope == [op : Operations, handle : 1..MaxOps, hint : Hints]
<1>1. /\ TypeOK /\ Len(history) \in Nat /\ Len(scopes) \in Nat /\ bench.ops \in Nat /\ bench.base \in Nat
      /\ MaxOps \in Nat /\ scopes \in Seq(Scope) /\ history \in Seq(History) /\ ~halted
      /\ current \in Labels
  BY Sizes DEF TelemetryInv, TypeOK, History, Ending
<1>2. PICK len : len = Len(scopes) /\ len \in Nat \ {0}
  BY SMTT(30), <1>1 DEF Ending
<1>3. PICK o \in Scope : o = Innermost /\ o = scopes[len]
  <2>1. Innermost = scopes[len]
    BY <1>2 DEF Innermost, Last
  <2>2. len \in 1 .. Len(scopes) /\ scopes \in Seq(Scope)
    BY <1>1, <1>2
  <2> HIDE DEF Scope
  <2>3. scopes[len] \in Scope
    BY <2>2, LenProperties
  <2> QED  BY <2>1, <2>3
<1>4. PICK n : n = o.op
  OBVIOUS
<1>5. n \in 1 .. Len(history) /\ ~history[n].ended
  BY <1>2, <1>3, <1>4 DEF TelemetryInv, Nesting
<1>6. /\ scopes' \in Seq(Scope) /\ Len(scopes') = len - 1
      /\ \A i \in 1 .. len - 1 : scopes'[i] = scopes[i]
  <2>1. scopes' = SubSeq(scopes, 1, len - 1)
    BY <1>2 DEF ScopeLeft, Front
  <2>2. scopes \in Seq(Scope) /\ len - 1 \in Nat /\ len - 1 <= Len(scopes)
    BY <1>1, <1>2
  <2> HIDE DEF Scope
  <2> QED  BY <2>1, <2>2
<1>7. /\ history' \in Seq(History) /\ Len(history') = Len(history)
      /\ history'[n].ended /\ history'[n].group = current
      /\ \A m \in 1 .. Len(history) : m # n => history'[m] = history[m]
  <2>1. history' = [history EXCEPT ![n].ended = TRUE, ![n].group = current]
    BY <1>3, <1>4 DEF ScopeLeft
  <2>2. history[n] \in History
    BY <1>1, <1>5, LenProperties
  <2>3. PICK r : r = [history[n] EXCEPT !.ended = TRUE, !.group = current]
    OBVIOUS
  <2>4. r \in History /\ r.ended = TRUE /\ r.group = current
    BY <1>1, <2>2, <2>3 DEF History
  <2>5. history' = [history EXCEPT ![n] = r]
    BY <1>1, <1>5, <2>1, <2>3, LenProperties
  <2> QED  BY <1>1, <1>5, <2>4, <2>5, LenProperties
<1>8. /\ bench' \in [group : Labels, ops : 0..MaxOps, base : 0..MaxOps]
      /\ bench'.ops <= bench.ops + 1 /\ bench'.ops \in Nat
      /\ bench'.group = NoGroup => bench' = NoBench
      /\ bench.ops + Len(scopes) <= Len(history)
  <2>1. bench.ops + Len(scopes) <= Len(history) /\ Len(history) <= MaxOps
    BY DEF TelemetryInv, Tally
  <2>2. bench.ops + 1 <= MaxOps
    BY <1>1, <1>2, <2>1
  <2> QED  BY <2>1, <2>2, BenchCounts DEF ScopeLeft
<1>9. bench'.ops + Len(scopes') <= Len(history')
  BY SMTT(30), <1>1, <1>2, <1>6, <1>7, <1>8
<1>10. \A i \in 1 .. len - 1 : scopes[i].op # n /\ i \in 1 .. len
  <2>1. \A i \in 1 .. len - 1 : i \in 1 .. len /\ i # len
    BY <1>2
  <2> QED  BY SMTT(30), <1>2, <1>3, <1>4, <2>1 DEF TelemetryInv, Nesting
<1>11. Popped(n)
  <2>1. /\ \A i \in 1 .. Len(pending) : pending[i].op # n
        /\ \A i \in 1 .. Len(log.records) : log.records[i].op # n
        /\ n \notin cleared
    BY <1>5 DEF TelemetryInv, Listed
  <2> QED  BY <1>1, <1>2, <1>3, <1>4, <1>5, <1>6, <1>7, <1>10, <2>1 DEF Popped
<1>12. Nesting'
  <2>1. \A i \in 1 .. len - 1 : /\ scopes'[i].op \in 1 .. Len(history)
                                /\ ~history'[scopes'[i].op].ended
    <3> SUFFICES ASSUME NEW i \in 1 .. len - 1
                 PROVE  /\ scopes'[i].op \in 1 .. Len(history)
                        /\ ~history'[scopes'[i].op].ended
      OBVIOUS
    <3>1. scopes'[i] = scopes[i] /\ scopes[i].op # n /\ i \in 1 .. Len(scopes)
      BY <1>2, <1>6, <1>10
    <3>2. scopes[i].op \in 1 .. Len(history) /\ ~history[scopes[i].op].ended
      BY <3>1 DEF TelemetryInv, Nesting
    <3> QED  BY <1>7, <3>1, <3>2
  <2>2. \A i, j \in 1 .. len - 1 : scopes'[i].op = scopes'[j].op => i = j
    BY <1>2, <1>6, <1>10 DEF TelemetryInv, Nesting
  <2> QED  BY <1>6, <1>7, <2>1, <2>2 DEF Nesting
<1> QED  BY <1>3, <1>4, <1>6, <1>7, <1>8, <1>9, <1>11, <1>12

\* Every operation is still listed: the one that ended was not.
LEMMA PoppedKeeps ==
    ASSUME TelemetryInv, NEW n, Popped(n), UNCHANGED <<log, cleared>>
    PROVE  /\ \A i \in 1 .. Len(pending) :
                 LET m == pending[i].op
                 IN  m \in 1 .. Len(history') /\ history'[m].ended /\ history'[m].group = pending[i].group
           /\ \A i \in 1 .. Len(log'.records) :
                 LET m == log'.records[i].op
                 IN  m \in 1 .. Len(history') /\ history'[m].ended /\ history'[m].group = log'.records[i].group
           /\ \A m \in cleared' : m \in 1 .. Len(history') /\ history'[m].ended
<1>1. /\ Len(history') = Len(history)
      /\ \A m \in 1 .. Len(history) : m # n => history'[m] = history[m]
      /\ \A i \in 1 .. Len(pending) : pending[i].op # n
      /\ \A i \in 1 .. Len(log.records) : log.records[i].op # n
      /\ n \notin cleared
  BY DEF Popped
<1>2. ASSUME NEW i \in 1 .. Len(pending)
      PROVE  LET m == pending[i].op
             IN  m \in 1 .. Len(history') /\ history'[m].ended /\ history'[m].group = pending[i].group
  BY <1>1 DEF TelemetryInv, Listed
<1>3. ASSUME NEW i \in 1 .. Len(log.records)
      PROVE  LET m == log.records[i].op
             IN  m \in 1 .. Len(history') /\ history'[m].ended /\ history'[m].group = log.records[i].group
  BY <1>1 DEF TelemetryInv, Listed
<1>4. ASSUME NEW m \in cleared
      PROVE  m \in 1 .. Len(history') /\ history'[m].ended
  BY <1>1 DEF TelemetryInv, Listed
<1> QED  BY <1>2, <1>3, <1>4

LEMMA InvScopeEndIgnored ==
    ASSUME TelemetryInv, ScopeEndIgnored
    PROVE  TelemetryInv'
<1>1. /\ Ending /\ ScopeLeft /\ Innermost.handle > Len(in_flight)
      /\ spoilt' = spoilt \cup ({current} \ {NoGroup})
      /\ UNCHANGED <<pending, events, log, in_flight, current, group_ops, misused, halted,
                     iterations, sessions, cut, cleared>>
  BY DEF ScopeEndIgnored, ScopeLeft
<1>2. PICK n : n = Innermost.op
  OBVIOUS
<1>3. /\ Popped(n)
      /\ scopes' \in Seq([op : Operations, handle : 1..MaxOps, hint : Hints])
      /\ history' \in Seq(History)
      /\ bench' \in [group : Labels, ops : 0..MaxOps, base : 0..MaxOps]
      /\ bench'.ops + Len(scopes') <= Len(history')
      /\ bench'.group = NoGroup => bench' = NoBench
      /\ Nesting'
  BY <1>1, <1>2, ScopePopped
<1>4. /\ TypeOK /\ Len(history) \in Nat /\ Len(scopes) \in Nat /\ Len(pending) \in Nat
      /\ log.next_sequence \in Nat /\ Len(in_flight) \in Nat /\ MaxOps \in Nat
  BY Sizes DEF TelemetryInv
<1>5. TypeOK'
  <2>1. spoilt' \subseteq Groups
    BY <1>1, <1>4 DEF TypeOK, Labels
  <2> QED  BY <1>1, <1>3, <1>4, <2>1 DEF TypeOK, History
<1>6. Tally'
  <2>1. /\ Len(history) <= MaxOps /\ Len(in_flight) <= Len(history)
        /\ log.next_sequence + Len(pending) + Len(scopes) <= Len(history)
        /\ Len(history') = Len(history) /\ Len(scopes') = Len(scopes) - 1
    BY <1>3 DEF TelemetryInv, Tally, Popped
  <2>2. log.next_sequence + Len(pending) + Len(scopes') <= Len(history')
    BY <1>4, <2>1
  <2> QED  BY <1>1, <1>3, <2>1, <2>2 DEF Tally, NoBench
<1>7. Listed'
  BY <1>1, <1>3, PoppedKeeps DEF Listed
<1>8. Apart' /\ Ids(log)'
  BY <1>1 DEF TelemetryInv, Apart, Ids, Lasting, Mapped, Labelled
<1>9. cut # {}
  <2> SUFFICES ASSUME cut = {}
               PROVE  FALSE
    OBVIOUS
  <2>1. \A i \in 1 .. Len(scopes) : scopes[i].handle <= Len(in_flight)
    BY <1>3 DEF TelemetryInv, Whole, Popped
  <2>2. PICK k : k = scopes[Len(scopes)].handle /\ k \in 1 .. MaxOps /\ k > Len(in_flight)
    BY <1>1, <1>3 DEF Popped
  <2>3. k <= Len(in_flight)
    BY <1>3, <2>1, <2>2 DEF Popped
  <2> QED  BY <1>4, <2>2, <2>3
<1>10. Whole'
  BY <1>1, <1>9 DEF Whole
<1> QED  BY <1>3, <1>5, <1>6, <1>7, <1>8, <1>10 DEF TelemetryInv

LEMMA InvScopeEnd ==
    ASSUME TelemetryInv, ScopeEnd
    PROVE  TelemetryInv'
<1>1. /\ Ending /\ ScopeLeft /\ Innermost.handle <= Len(in_flight)
      /\ events' = events \cup {End(Innermost.op)}
      /\ UNCHANGED <<log, in_flight, current, group_ops, misused, halted,
                     iterations, sessions, cut, cleared, spoilt>>
  BY DEF ScopeEnd, ScopeLeft
<1>2. PICK n : n = Innermost.op
  OBVIOUS
<1>3. /\ Popped(n)
      /\ scopes' \in Seq([op : Operations, handle : 1..MaxOps, hint : Hints])
      /\ history' \in Seq(History)
      /\ bench' \in [group : Labels, ops : 0..MaxOps, base : 0..MaxOps]
      /\ bench'.ops + Len(scopes') <= Len(history')
      /\ bench'.group = NoGroup => bench' = NoBench
      /\ Nesting'
  BY <1>1, <1>2, ScopePopped
<1>4. /\ TypeOK /\ Len(history) \in Nat /\ Len(scopes) \in Nat \ {0} /\ Len(pending) \in Nat
      /\ log.next_sequence \in Nat /\ Len(in_flight) \in Nat /\ MaxOps \in Nat
  BY <1>3, Sizes DEF TelemetryInv, Popped
<1>5. PICK p : /\ p = [op |-> n, start |-> in_flight[Innermost.handle], group |-> current,
                       hint |-> Innermost.hint]
               /\ pending' = Append(pending, p)
  BY <1>2 DEF ScopeEnd
<1>6. /\ p \in Pending /\ p.op = n /\ p.group = current
      /\ p.start = in_flight[scopes[Len(scopes)].handle]
  <2>1. PICK k : k = Innermost.handle /\ k \in 1 .. Len(in_flight)
    BY SMTT(30), <1>1, <1>3, <1>4 DEF Popped
  <2>2. in_flight[k] \in Operations
    BY SMTT(30), <1>4, <2>1, LenProperties DEF TypeOK
  <2>3. n \in Operations /\ Innermost.hint \in Hints /\ current \in Labels
    BY <1>3, <1>4 DEF Popped, TypeOK
  <2> QED  BY <1>3, <1>5, <2>1, <2>2, <2>3 DEF Pending, Popped
<1>7. PICK len : len = Len(pending) /\ len \in Nat
  BY <1>4
<1>8. /\ pending' \in Seq(Pending) /\ Len(pending') = len + 1
      /\ \A i \in 1 .. len : pending'[i] = pending[i]
      /\ pending'[len + 1] = p
      /\ 1 .. len + 1 = (1 .. len) \cup {len + 1}
  <2>1. pending \in Seq(Pending)
    BY <1>4 DEF TypeOK
  <2> QED  BY <1>5, <1>6, <1>7, <2>1, SequenceFacts
<1>9. TypeOK'
  <2>1. n \in Operations /\ events \subseteq {Start(m) : m \in Operations} \cup {End(m) : m \in Operations}
    BY <1>3, <1>4 DEF TypeOK, Popped
  <2>2. events' \subseteq {Start(m) : m \in Operations} \cup {End(m) : m \in Operations}
    BY <1>1, <1>2, <2>1
  <2> QED  BY <1>1, <1>3, <1>4, <1>8, <2>2 DEF TypeOK, History
<1>10. Tally'
  <2>1. /\ Len(history) <= MaxOps /\ Len(in_flight) <= Len(history)
        /\ log.next_sequence + Len(pending) + Len(scopes) <= Len(history)
        /\ Len(history') = Len(history) /\ Len(scopes') = Len(scopes) - 1
    BY <1>3 DEF TelemetryInv, Tally, Popped
  <2>2. log.next_sequence + Len(pending') + Len(scopes') <= Len(history')
    BY SMTT(30), <1>4, <1>7, <1>8, <2>1
  <2> QED  BY <1>1, <1>3, <2>1, <2>2 DEF Tally, NoBench
<1>11. n \in 1 .. Len(history') /\ history'[n].ended /\ history'[n].group = current
  BY <1>3 DEF Popped
<1>12. Listed'
  <2>1. \A i \in 1 .. len + 1 :
           LET m == pending'[i].op
           IN  m \in 1 .. Len(history') /\ history'[m].ended /\ history'[m].group = pending'[i].group
    <3> SUFFICES ASSUME NEW i \in 1 .. len + 1
                 PROVE  LET m == pending'[i].op
                        IN  m \in 1 .. Len(history') /\ history'[m].ended /\ history'[m].group = pending'[i].group
      OBVIOUS
    <3>1. CASE i \in 1 .. len
      <4>1. pending'[i] = pending[i] /\ i \in 1 .. Len(pending)
        BY <1>7, <1>8, <3>1
      <4>2. LET m == pending[i].op
            IN  m \in 1 .. Len(history') /\ history'[m].ended /\ history'[m].group = pending[i].group
        BY <1>1, <1>3, <4>1, PoppedKeeps
      <4> QED  BY <4>1, <4>2
    <3>2. CASE i = len + 1
      BY <1>6, <1>8, <1>11, <3>2
    <3> QED  BY <1>8, <3>1, <3>2
  <2> QED  BY <1>1, <1>3, <1>8, <2>1, PoppedKeeps DEF Listed
<1>13. Apart'
  <2>1. /\ \A i \in 1 .. len : pending[i].op # n
        /\ \A i \in 1 .. Len(log.records) : log.records[i].op # n
        /\ n \notin cleared /\ ~halted
    BY <1>3, <1>7 DEF Popped
  <2>2. \A i, j \in 1 .. len + 1 : pending'[i].op = pending'[j].op => i = j
    BY <1>6, <1>7, <1>8, <2>1 DEF TelemetryInv, Apart
  <2>3. \A i \in 1 .. len + 1 : \A j \in 1 .. Len(log.records) : pending'[i].op # log.records[j].op
    BY <1>6, <1>7, <1>8, <2>1 DEF TelemetryInv, Apart
  <2>4. \A i \in 1 .. len + 1 : pending'[i].op \notin cleared
    BY <1>6, <1>7, <1>8, <2>1 DEF TelemetryInv, Apart
  <2> QED  BY <1>1, <1>8, <2>1, <2>2, <2>3, <2>4 DEF TelemetryInv, Apart
<1>14. Ids(log)'
  BY <1>1 DEF TelemetryInv, Ids, Lasting, Mapped, Labelled
<1>15. Whole'
  <2> SUFFICES ASSUME cut = {}
               PROVE  Whole'
    BY <1>1 DEF Whole
  <2>1. /\ events = {Start(scopes[i].op) : i \in 1 .. Len(scopes)} \cup Spent(Len(pending))
        /\ ~misused
        /\ \A i \in 1 .. Len(scopes) : in_flight[scopes[i].handle] = scopes[i].op
        /\ \A i \in 1 .. Len(scopes) : scopes[i].handle <= Len(in_flight)
        /\ \A i \in 1 .. len : pending[i].start = pending[i].op
        /\ \A i \in 1 .. Len(log.records) : log.records[i].start = log.records[i].op
        /\ \A m \in 1 .. Len(history) : history[m].ended =>
              \/ \E i \in 1 .. len : pending[i].op = m
              \/ \E i \in 1 .. Len(log.records) : log.records[i].op = m
              \/ m \in cleared
    BY <1>3, <1>7 DEF TelemetryInv, Whole, Popped
  <2>2. PICK top : top = Len(scopes) /\ top \in Nat \ {0} /\ scopes[top].op = n
    BY <1>3, <1>4 DEF Popped
  <2>3. /\ Len(scopes') = top - 1
        /\ \A i \in 1 .. top - 1 : scopes'[i] = scopes[i] /\ i \in 1 .. top
        /\ 1 .. top = (1 .. top - 1) \cup {top}
    BY SMTT(30), <1>3, <2>2 DEF Popped
  <2>4. p.start = n
    BY <1>6, <2>1, <2>2
  <2>5. {Start(scopes[i].op) : i \in 1 .. top} =
            {Start(scopes'[i].op) : i \in 1 .. top - 1} \cup {Start(n)}
    BY <2>2, <2>3
  <2>6. Spent(Len(pending))' = Spent(Len(pending)) \cup {Start(n), End(n)}
    <3>1. {Start(pending'[k].start) : k \in 1 .. len + 1} =
              {Start(pending[k].start) : k \in 1 .. len} \cup {Start(n)}
      BY <1>8, <2>4
    <3>2. {End(pending'[k].op) : k \in 1 .. len + 1} = {End(pending[k].op) : k \in 1 .. len} \cup {End(n)}
      BY <1>6, <1>8
    <3> QED  BY <1>7, <1>8, <3>1, <3>2 DEF Spent, Start, End
  <2>7. events' = {Start(scopes'[i].op) : i \in 1 .. Len(scopes')} \cup Spent(Len(pending))'
    BY <1>1, <1>2, <2>1, <2>2, <2>3, <2>5, <2>6
  <2>8. \A i \in 1 .. Len(scopes') : /\ scopes'[i].handle <= Len(in_flight')
                                     /\ in_flight'[scopes'[i].handle] = scopes'[i].op
    BY <1>1, <2>1, <2>2, <2>3
  <2>9. \A i \in 1 .. len + 1 : pending'[i].start = pending'[i].op
    BY <1>6, <1>8, <2>1, <2>4
  <2>10. ASSUME NEW m \in 1 .. Len(history'), history'[m].ended
         PROVE  \/ \E i \in 1 .. len + 1 : pending'[i].op = m
                \/ \E i \in 1 .. Len(log.records) : log.records[i].op = m
                \/ m \in cleared
    <3>1. CASE m = n
      BY <1>6, <1>8, <3>1
    <3>2. CASE m # n
      <4>1. m \in 1 .. Len(history) /\ history[m].ended
        BY <1>3, <2>10, <3>2 DEF Popped
      <4> QED  BY <1>8, <2>1, <4>1
    <3> QED  BY <3>1, <3>2
  <2> QED  BY <1>1, <1>8, <2>1, <2>7, <2>8, <2>9, <2>10 DEF Whole, Start
<1> QED  BY <1>3, <1>9, <1>10, <1>12, <1>13, <1>14, <1>15 DEF TelemetryInv

-----------------------------------------------------------------------------
(* The batch is resolved *)

\* l is the log with records of the first n pending operations.
Batched(l, n) ==
    /\ l \in [records : Seq(Record), next_sequence : 0..MaxOps, streams : Seq(Hints)]
    /\ Ids(l)
    /\ l.next_sequence = log.next_sequence + n /\ Len(l.records) = Len(log.records) + n
    /\ \A i \in 1 .. Len(log.records) : i \in 1 .. Len(l.records) /\ l.records[i] = log.records[i]
    /\ \A j \in 1 .. n :
          LET r == l.records[Len(log.records) + j]
          IN  /\ Len(log.records) + j \in 1 .. Len(l.records) /\ j \in 1 .. Len(pending)
              /\ r.op = pending[j].op /\ r.start = pending[j].start /\ r.group = pending[j].group
    /\ \A i \in 1 .. Len(l.records) :
          i \in 1 .. Len(log.records) \/ \E j \in 1 .. n : i = Len(log.records) + j
    /\ \A i \in 1 .. Len(l.records) :
          LET m == l.records[i].op
          IN  m \in 1 .. Len(history) /\ history[m].ended /\ history[m].group = l.records[i].group

LEMMA RecordedBatch ==
    ASSUME TelemetryInv, ~halted, NEW n \in 0 .. Len(pending)
    PROVE  Batched(RecordedFirst(n), n)
<1>1. PICK l : l = RecordedFirst(n)
  OBVIOUS
<1>2. /\ TypeOK /\ log \in Log /\ Len(log.records) \in Nat /\ log.next_sequence \in Nat
      /\ Len(pending) \in Nat /\ Len(scopes) \in Nat /\ Len(history) \in Nat /\ MaxOps \in Nat
      /\ pending \in Seq(Pending) /\ sessions \in 0 .. MaxSessions /\ Ids(log)
  BY Sizes DEF TelemetryInv, TypeOK
<1>3. Grown(l, pending, n)
  BY <1>1, <1>2, BatchGrown
<1>4. PICK len : len = Len(log.records) /\ len \in Nat
  BY <1>2
<1>5. /\ l \in Log /\ Ids(l) /\ l.next_sequence = log.next_sequence + n /\ Len(l.records) = len + n
      /\ \A i \in 1 .. len : l.records[i] = log.records[i]
      /\ \A j \in 1 .. n : /\ l.records[len + j].op = pending[j].op
                           /\ l.records[len + j].start = pending[j].start
                           /\ l.records[len + j].group = pending[j].group
  BY <1>3, <1>4 DEF Grown
<1>6. n \in Nat /\ n <= Len(pending)
  BY <1>2
<1>7. l \in [records : Seq(Record), next_sequence : 0..MaxOps, streams : Seq(Hints)]
  <2>1. /\ Len(history) <= MaxOps
        /\ log.next_sequence + Len(pending) + Len(scopes) <= Len(history)
    BY DEF TelemetryInv, Tally
  <2>2. l.next_sequence \in 0 .. MaxOps
    BY <1>2, <1>5, <1>6, <2>1
  <2> QED  BY <1>5, <2>2 DEF Log
<1>8. /\ \A i \in 1 .. len : i \in 1 .. len + n
      /\ \A j \in 1 .. n : len + j \in 1 .. len + n /\ j \in 1 .. Len(pending)
  BY <1>2, <1>4, <1>6
<1>9. ASSUME NEW i \in 1 .. len + n
      PROVE  i \in 1 .. len \/ \E j \in 1 .. n : i = len + j
  <2>1. CASE i <= len
    BY <2>1
  <2>2. CASE i > len
    <3>1. i - len \in 1 .. n /\ i = len + (i - len)
      BY <1>4, <1>6, <2>2
    <3> QED  BY <3>1
  <2> QED  BY <1>4, <2>1, <2>2
<1>10. ASSUME NEW i \in 1 .. len + n
       PROVE  LET m == l.records[i].op
              IN  m \in 1 .. Len(history) /\ history[m].ended /\ history[m].group = l.records[i].group
  <2>1. CASE i \in 1 .. len
    <3>1. l.records[i] = log.records[i] /\ i \in 1 .. Len(log.records)
      BY <1>4, <1>5, <2>1
    <3>2. LET m == log.records[i].op
          IN  m \in 1 .. Len(history) /\ history[m].ended /\ history[m].group = log.records[i].group
      BY <3>1 DEF TelemetryInv, Listed
    <3> QED  BY <3>1, <3>2
  <2>2. CASE \E j \in 1 .. n : i = len + j
    BY SMTT(30), <1>5, <1>8, <2>2 DEF TelemetryInv, Listed
  <2> QED  BY <1>9, <2>1, <2>2
<1> QED  BY <1>1, <1>4, <1>5, <1>7, <1>8, <1>9, <1>10 DEF Batched

LEMMA InvResolveFails ==
    ASSUME TelemetryInv, NEW n \in Operations, ResolveFails(n)
    PROVE  TelemetryInv'
<1>1. /\ ~halted /\ n \in 1 .. Len(pending) /\ log' = RecordedFirst(n - 1) /\ halted' = TRUE
      /\ events' = events \ Spent(n) /\ misused' = (misused \/ Reused(n))
      /\ UNCHANGED <<current, group_ops, scopes, bench, history, iterations, sessions, spoilt,
                     cleared, pending, in_flight, cut>>
  BY DEF ResolveFails, Resolved
<1>2. TypeOK /\ Len(pending) \in Nat
  BY Sizes DEF TelemetryInv
<1>3. PICK l : l = RecordedFirst(n - 1)
  OBVIOUS
<1>4. Batched(l, n - 1)
  <2>1. n - 1 \in 0 .. Len(pending)
    BY <1>1, <1>2
  <2> QED  BY <1>1, <1>3, <2>1, RecordedBatch
<1>5. log' = l
  BY <1>1, <1>3
<1>6. TypeOK'
  <2>1. misused' \in BOOLEAN
    <3>1. CASE misused \/ Reused(n)
      <4>1. (misused \/ Reused(n)) = TRUE
        BY <3>1
      <4> QED  BY <1>1, <4>1
    <3>2. CASE ~(misused \/ Reused(n))
      <4>1. (misused \/ Reused(n)) = FALSE
        BY <3>2
      <4> QED  BY <1>1, <4>1
    <3> QED  BY <3>1, <3>2
  <2>2. log' \in [records : Seq(Record), next_sequence : 0..MaxOps, streams : Seq(Hints)]
    BY <1>4, <1>5 DEF Batched
  <2>3. events' \subseteq events
    BY <1>1
  <2> QED  BY <1>1, <1>2, <2>1, <2>2, <2>3 DEF TypeOK
<1>7. Nesting' /\ Tally' /\ Apart' /\ Whole'
  BY <1>1 DEF TelemetryInv, Nesting, Tally, Apart, Whole, NoBench
<1>8. Listed'
  BY <1>1, <1>4, <1>5 DEF TelemetryInv, Listed, Batched
<1>9. Ids(log)'
  <2>1. sessions' = sessions /\ Lasting(l) /\ Mapped(l) /\ Labelled(l)
    BY <1>1, <1>4 DEF Ids, Batched
  <2>2. Lasting(log)'
    BY <1>5, <2>1 DEF Lasting
  <2>3. Mapped(log)'
    BY <1>5, <2>1 DEF Mapped
  <2>4. Labelled(log)'
    BY <1>5, <2>1 DEF Labelled
  <2> QED  BY <2>2, <2>3, <2>4 DEF Ids
<1> QED  BY <1>6, <1>7, <1>8, <1>9 DEF TelemetryInv

LEMMA InvResolvePending ==
    ASSUME TelemetryInv, ResolvePending
    PROVE  TelemetryInv'
<1>1. /\ ~halted /\ log' = RecordedFirst(Len(pending)) /\ pending' = <<>> /\ in_flight' = <<>>
      /\ events' = events \ Spent(Len(pending)) /\ misused' = (misused \/ Reused(Len(pending)))
      /\ cut' = cut \cup {scopes[i].op : i \in DOMAIN scopes}
      /\ UNCHANGED <<current, group_ops, scopes, bench, history, iterations, sessions, spoilt,
                     cleared, halted>>
  BY DEF ResolvePending, Resolved
<1>2. /\ TypeOK /\ Len(pending) \in Nat /\ Len(scopes) \in Nat /\ Len(history) \in Nat
      /\ log.next_sequence \in Nat /\ DOMAIN scopes = 1 .. Len(scopes)
      /\ Len(pending') = 0 /\ Len(in_flight') = 0
  <2>1. TypeOK /\ scopes \in Seq([op : Operations, handle : 1..MaxOps, hint : Hints])
    BY DEF TelemetryInv, TypeOK
  <2>2. DOMAIN scopes = 1 .. Len(scopes)
    BY <2>1, LenProperties
  <2> QED  BY <1>1, <2>1, <2>2, Sizes
<1>3. PICK l : l = RecordedFirst(Len(pending))
  OBVIOUS
<1>4. Batched(l, Len(pending)) /\ log' = l
  <2>1. Len(pending) \in 0 .. Len(pending)
    BY <1>2
  <2> QED  BY <1>1, <1>3, <2>1, RecordedBatch
<1>5. PICK len, many : /\ len = Len(log.records) /\ many = Len(pending)
                       /\ len \in Nat /\ many \in Nat
  BY <1>2, Sizes
<1>6. /\ l \in [records : Seq(Record), next_sequence : 0..MaxOps, streams : Seq(Hints)]
      /\ Ids(l) /\ l.next_sequence = log.next_sequence + many
      /\ \A i \in 1 .. len : i \in 1 .. Len(l.records) /\ l.records[i] = log.records[i]
      /\ \A j \in 1 .. many : /\ len + j \in 1 .. Len(l.records)
                              /\ l.records[len + j].op = pending[j].op
                              /\ l.records[len + j].start = pending[j].start
      /\ \A i \in 1 .. Len(l.records) : i \in 1 .. len \/ \E j \in 1 .. many : i = len + j
      /\ \A i \in 1 .. Len(l.records) :
            LET m == l.records[i].op
            IN  m \in 1 .. Len(history) /\ history[m].ended /\ history[m].group = l.records[i].group
  BY <1>4, <1>5 DEF Batched
<1>7. TypeOK'
  <2>1. misused' \in BOOLEAN
    <3>1. CASE misused \/ Reused(Len(pending))
      <4>1. (misused \/ Reused(Len(pending))) = TRUE
        BY <3>1
      <4> QED  BY <1>1, <4>1
    <3>2. CASE ~(misused \/ Reused(Len(pending)))
      <4>1. (misused \/ Reused(Len(pending))) = FALSE
        BY <3>2
      <4> QED  BY <1>1, <4>1
    <3> QED  BY <3>1, <3>2
  <2>2. cut' \subseteq Operations
    <3>1. scopes \in Seq([op : Operations, handle : 1..MaxOps, hint : Hints]) /\ cut \subseteq Operations
      BY <1>2 DEF TypeOK
    <3>2. \A i \in 1 .. Len(scopes) : scopes[i] \in [op : Operations, handle : 1..MaxOps, hint : Hints]
      BY <3>1, LenProperties
    <3>3. \A i \in 1 .. Len(scopes) : scopes[i].op \in Operations
      BY <3>2
    <3> QED  BY <1>1, <1>2, <3>1, <3>3
  <2>3. events' \subseteq events
    BY <1>1
  <2>4. pending' \in Seq(Pending) /\ in_flight' \in Seq(Operations)
    BY <1>1
  <2> QED  BY <1>1, <1>2, <1>4, <1>6, <2>1, <2>2, <2>3, <2>4 DEF TypeOK
<1>8. Nesting'
  BY <1>1 DEF TelemetryInv, Nesting
<1>9. Tally'
  <2>1. log.next_sequence + Len(pending) + Len(scopes) <= Len(history)
    BY <1>1 DEF TelemetryInv, Tally
  <2>2. l.next_sequence + 0 + Len(scopes) <= Len(history)
    BY <1>2, <1>5, <1>6, <2>1
  <2>3. 0 <= Len(history)
    BY <1>2
  <2> QED  BY <1>1, <1>2, <1>4, <2>2, <2>3 DEF TelemetryInv, Tally, NoBench
<1>10. Listed'
  BY <1>1, <1>2, <1>4, <1>6 DEF TelemetryInv, Listed
<1>11. Apart'
  <2>1. /\ \A i, j \in 1 .. many : pending[i].op = pending[j].op => i = j
        /\ \A i, j \in 1 .. len : log.records[i].op = log.records[j].op => i = j
        /\ \A i \in 1 .. many : \A j \in 1 .. len : pending[i].op # log.records[j].op
        /\ \A i \in 1 .. many : pending[i].op \notin cleared
        /\ \A j \in 1 .. len : log.records[j].op \notin cleared
    BY <1>1, <1>5 DEF TelemetryInv, Apart
  <2>2. ASSUME NEW i \in 1 .. Len(l.records)
        PROVE  /\ l.records[i].op \notin cleared
               /\ \A j \in 1 .. Len(l.records) : l.records[i].op = l.records[j].op => i = j
    <3>1. ASSUME NEW j \in 1 .. Len(l.records), l.records[i].op = l.records[j].op
          PROVE  i = j
      <4>1. CASE i \in 1 .. len /\ j \in 1 .. len
        <5>1. l.records[i] = log.records[i] /\ l.records[j] = log.records[j]
          BY <1>6, <4>1
        <5> QED  BY <2>1, <3>1, <4>1, <5>1
      <4>2. CASE i \in 1 .. len /\ \E k \in 1 .. many : j = len + k
        <5>1. PICK k \in 1 .. many : j = len + k
          BY <4>2
        <5>2. l.records[i] = log.records[i] /\ l.records[j].op = pending[k].op
          BY <1>6, <4>2, <5>1
        <5> QED  BY <2>1, <3>1, <4>2, <5>1, <5>2
      <4>3. CASE j \in 1 .. len /\ \E k \in 1 .. many : i = len + k
        <5>1. PICK k \in 1 .. many : i = len + k
          BY <4>3
        <5>2. l.records[j] = log.records[j] /\ l.records[i].op = pending[k].op
          BY <1>6, <4>3, <5>1
        <5> QED  BY <2>1, <3>1, <4>3, <5>1, <5>2
      <4>4. CASE (\E k \in 1 .. many : i = len + k) /\ (\E k \in 1 .. many : j = len + k)
        <5>1. PICK h \in 1 .. many : i = len + h
          BY <4>4
        <5>2. PICK k \in 1 .. many : j = len + k
          BY <4>4
        <5>3. l.records[i].op = pending[h].op /\ l.records[j].op = pending[k].op
          BY <1>6, <5>1, <5>2
        <5>4. h = k
          BY <2>1, <3>1, <5>1, <5>2, <5>3
        <5> QED  BY <5>1, <5>2, <5>4
      <4>5. /\ i \in 1 .. len \/ \E k \in 1 .. many : i = len + k
            /\ j \in 1 .. len \/ \E k \in 1 .. many : j = len + k
        BY <1>6
      <4> QED  BY <4>1, <4>2, <4>3, <4>4, <4>5
    <3>2. l.records[i].op \notin cleared
      <4>1. CASE i \in 1 .. len
        <5>1. l.records[i] = log.records[i]
          BY <1>6, <4>1
        <5> QED  BY <2>1, <4>1, <5>1
      <4>2. CASE \E k \in 1 .. many : i = len + k
        <5>1. PICK k \in 1 .. many : i = len + k
          BY <4>2
        <5>2. l.records[i].op = pending[k].op
          BY <1>6, <5>1
        <5> QED  BY <2>1, <5>1, <5>2
      <4> QED  BY <1>6, <4>1, <4>2
    <3> QED  BY <3>1, <3>2
  <2> QED  BY <1>1, <1>2, <1>4, <2>2 DEF Apart
<1>12. Ids(log)'
  <2>1. log' = l /\ sessions' = sessions /\ Lasting(l) /\ Mapped(l) /\ Labelled(l)
    BY <1>1, <1>4, <1>6 DEF Ids
  <2>2. Lasting(log)'
    BY <2>1 DEF Lasting
  <2>3. Mapped(log)'
    BY <2>1 DEF Mapped
  <2>4. Labelled(log)'
    BY <2>1 DEF Labelled
  <2> QED  BY <2>2, <2>3, <2>4 DEF Ids
<1>13. Whole'
  <2> SUFFICES ASSUME cut' = {}
               PROVE  Whole'
    BY DEF Whole
  <2>1. cut = {} /\ ~(\E i \in 1 .. Len(scopes) : TRUE)
    BY <1>1, <1>2
  <2>2. Len(scopes) = 0
    <3>1. CASE Len(scopes) # 0
      <4>1. 1 \in 1 .. Len(scopes)
        BY <1>2, <3>1
      <4> QED  BY <2>1, <4>1
    <3> QED  BY <3>1
  <2>3. /\ events = {Start(scopes[i].op) : i \in 1 .. Len(scopes)} \cup Spent(Len(pending))
        /\ ~misused
        /\ \A i \in 1 .. many : pending[i].start = pending[i].op
        /\ \A i \in 1 .. len : log.records[i].start = log.records[i].op
        /\ \A m \in 1 .. Len(history) : history[m].ended =>
              \/ \E i \in 1 .. many : pending[i].op = m
              \/ \E i \in 1 .. len : log.records[i].op = m
              \/ m \in cleared
    BY <1>1, <1>5, <2>1 DEF TelemetryInv, Whole
  <2>4. events' = {}
    BY <1>1, <2>1, <2>3
  <2>5. {Start(scopes[i].op) : i \in 1 .. Len(scopes)} = {} /\ Spent(Len(pending))' = {}
    BY <1>2, <2>2 DEF Spent
  <2>6. ~misused'
    <3> SUFFICES ASSUME Reused(Len(pending))
                 PROVE  FALSE
      BY <1>1, <2>3
    <3>1. PICK k \in 1 .. many : \/ Start(pending[k].start) \notin events
                                 \/ \E j \in 1 .. k - 1 : pending[j].start = pending[k].start
      BY <1>5 DEF Reused
    <3>2. Start(pending[k].start) \in events
      BY <1>5, <2>3, <3>1 DEF Spent
    <3>3. PICK j \in 1 .. k - 1 : pending[j].start = pending[k].start
      BY <3>1, <3>2
    <3>4. j \in 1 .. many /\ j # k
      BY <1>5, <3>1, <3>3
    <3>5. pending[j].op = pending[k].op
      BY <2>3, <3>1, <3>3, <3>4
    <3> QED  BY <1>1, <1>5, <3>1, <3>4, <3>5 DEF TelemetryInv, Apart
  <2>7. ASSUME NEW i \in 1 .. Len(l.records)
        PROVE  l.records[i].start = l.records[i].op
    <3>1. CASE i \in 1 .. len
      <4>1. l.records[i] = log.records[i]
        BY <1>6, <3>1
      <4> QED  BY <2>3, <3>1, <4>1
    <3>2. CASE \E k \in 1 .. many : i = len + k
      <4>1. PICK k \in 1 .. many : i = len + k
        BY <3>2
      <4>2. l.records[i].op = pending[k].op /\ l.records[i].start = pending[k].start
        BY <1>6, <4>1
      <4> QED  BY <2>3, <4>1, <4>2
    <3> QED  BY <1>6, <3>1, <3>2
  <2>8. ASSUME NEW m \in 1 .. Len(history), history[m].ended
        PROVE  (\E i \in 1 .. Len(l.records) : l.records[i].op = m) \/ m \in cleared
    <3>1. ASSUME NEW i \in 1 .. len, log.records[i].op = m
          PROVE  i \in 1 .. Len(l.records) /\ l.records[i].op = m
      <4>1. i \in 1 .. Len(l.records) /\ l.records[i] = log.records[i]
        BY <1>6, <3>1
      <4> QED  BY <3>1, <4>1
    <3>2. ASSUME NEW i \in 1 .. many, pending[i].op = m
          PROVE  len + i \in 1 .. Len(l.records) /\ l.records[len + i].op = m
      BY <1>6, <3>2
    <3> QED  BY <2>3, <2>8, <3>1, <3>2
  <2>9. /\ events' = {Start(scopes'[i].op) : i \in 1 .. Len(scopes')} \cup Spent(Len(pending))'
    BY <1>1, <2>4, <2>5
  <2>10. ASSUME NEW i \in 1 .. Len(scopes')
         PROVE  FALSE
    BY <1>1, <2>1
  <2>11. ASSUME NEW i \in 1 .. Len(pending')
         PROVE  FALSE
    BY <1>2
  <2> QED  BY <1>1, <1>4, <2>6, <2>7, <2>8, <2>9, <2>10, <2>11 DEF Whole, Start
<1> QED  BY <1>7, <1>8, <1>9, <1>10, <1>11, <1>12, <1>13 DEF TelemetryInv

-----------------------------------------------------------------------------
(* The theorems *)

LEMMA InvInit ==
    ASSUME Init
    PROVE  TelemetryInv
<1>1. /\ log = [records |-> <<>>, next_sequence |-> 0, streams |-> <<>>]
      /\ pending = <<>> /\ in_flight = <<>> /\ current = NoGroup /\ group_ops = {}
      /\ scopes = <<>> /\ bench = NoBench /\ events = {} /\ misused = FALSE /\ halted = FALSE
      /\ history = <<>> /\ iterations = 0 /\ sessions = 0 /\ cut = {} /\ spoilt = {} /\ cleared = {}
  BY DEF Init
<1>2. MaxOps \in Nat /\ MaxIterations \in Nat /\ MaxSessions \in Nat
  BY TelemetryAssumption
<1>3. /\ log.records = <<>> /\ log.next_sequence = 0 /\ log.streams = <<>>
      /\ Len(log.records) = 0 /\ Len(pending) = 0 /\ Len(in_flight) = 0 /\ Len(scopes) = 0
      /\ Len(history) = 0 /\ Len(log.streams) = 0
      /\ bench = [group |-> NoGroup, ops |-> 0, base |-> 0]
  BY <1>1 DEF NoBench
<1>4. TypeOK
  <2>1. /\ log \in [records : Seq(Record), next_sequence : 0..MaxOps, streams : Seq(Hints)]
        /\ bench \in [group : Labels, ops : 0..MaxOps, base : 0..MaxOps]
    <3>1. <<>> \in Seq(Record) /\ <<>> \in Seq(Hints) /\ 0 \in 0 .. MaxOps /\ NoGroup \in Labels
      BY <1>2 DEF Labels
    <3> QED  BY <1>1, <1>3, <3>1
  <2>2. /\ pending \in Seq(Pending) /\ in_flight \in Seq(Operations)
        /\ scopes \in Seq([op : Operations, handle : 1..MaxOps, hint : Hints])
        /\ history \in Seq([iteration : 0..MaxIterations, ended : BOOLEAN, group : Labels])
    BY <1>1
  <2>3. /\ current \in Labels /\ iterations \in 0 .. MaxIterations /\ sessions \in 0 .. MaxSessions
    BY <1>1, <1>2 DEF Labels
  <2> QED  BY <1>1, <2>1, <2>2, <2>3 DEF TypeOK
<1>5. Nesting /\ Apart
  BY <1>1, <1>3 DEF Nesting, Apart
<1>6. Tally
  BY <1>1, <1>2, <1>3 DEF Tally
<1>7. Listed
  BY <1>1, <1>3 DEF Listed
<1>8. Ids(log)
  BY <1>3 DEF Ids, Lasting, Mapped, Labelled
<1>9. Whole
  BY <1>1, <1>3 DEF Whole, Spent
<1> QED  BY <1>4, <1>5, <1>6, <1>7, <1>8, <1>9 DEF TelemetryInv

LEMMA InvStutter ==
    ASSUME TelemetryInv, UNCHANGED vars
    PROVE  TelemetryInv'
<1>1. UNCHANGED <<log, pending, in_flight, current, group_ops, scopes, bench, events, misused,
                  halted, history, iterations, sessions, cut, spoilt, cleared>>
  BY DEF vars
<1>2. TypeOK'
  BY <1>1 DEF TelemetryInv, TypeOK
<1>3. bench'.ops + Len(scopes) <= Len(history) /\ (bench'.group = NoGroup => bench' = NoBench)
  BY <1>1 DEF TelemetryInv, Tally
<1> QED  BY <1>1, <1>2, <1>3, Aside

\* Every step of the one thread that uses Telemetry, begin_async to clear,
\* keeps the invariant.
LEMMA InvNext ==
    ASSUME TelemetryInv, [Next]_vars
    PROVE  TelemetryInv'
<1>1. ASSUME NEW h \in Hints, RecordNow(h) \/ ScopeBegin(h)
      PROVE  TelemetryInv'
  BY <1>1, InvRecordNow, InvScopeBegin
<1>2. CASE ScopeEnd \/ ScopeEndIgnored \/ ScopeEndFails
  BY <1>2, InvScopeEnd, InvScopeEndIgnored, InvScopeEndFails
<1>3. CASE ResolvePending
  BY <1>3, InvResolvePending
<1>4. ASSUME NEW n \in Operations, ResolveFails(n)
      PROVE  TelemetryInv'
  BY <1>4, InvResolveFails
<1>5. ASSUME NEW g \in Groups, BenchmarkBegin(g)
      PROVE  TelemetryInv'
  BY <1>5, InvBenchmarkBegin
<1>6. CASE BenchmarkNext \/ BenchmarkEnd \/ BenchmarkThrows
  BY <1>6, InvBenchmarkSteps
<1>7. CASE StartSession \/ Clear
  BY <1>7, InvStartSession, InvClear
<1>8. CASE Finished \/ Halted \/ UNCHANGED vars
  BY <1>8, InvStutter DEF Finished, Halted
<1> QED  BY <1>1, <1>2, <1>3, <1>4, <1>5, <1>6, <1>7, <1>8 DEF Next

\* However scopes nest around and inside benchmarks, and wherever
\* resolve_pending, start_session, clear or an exception comes between, the
\* parts of the invariant hold: operations are in one place, ids go on from
\* next_sequence_, and without a cut events are those there should be.
THEOREM TelemetryInvariant == Spec => []TelemetryInv
<1> QED  BY InvInit, InvNext, PTL DEF Spec

\* The members of Telemetry, its scopes and its records stay what they are.
THEOREM TelemetryTyped == Spec => []TypeOK
<1>1. TelemetryInv => TypeOK
  BY DEF TelemetryInv
<1> QED  BY <1>1, TelemetryInvariant, PTL

LEMMA SoundEvents == TelemetryInv => EventsSound
<1> SUFFICES ASSUME TelemetryInv, cut = {}, ~halted
             PROVE  /\ events = {Start(scopes[i].op) : i \in DOMAIN scopes} \cup Spent(Len(pending))
                    /\ ~misused
                    /\ \A i \in DOMAIN scopes : /\ scopes[i].handle <= Len(in_flight)
                                                /\ in_flight[scopes[i].handle] = scopes[i].op
  BY DEF EventsSound
<1>1. scopes \in Seq([op : Operations, handle : 1..MaxOps, hint : Hints])
  BY DEF TelemetryInv, TypeOK
<1>2. DOMAIN scopes = 1 .. Len(scopes)
  BY <1>1, LenProperties
<1> QED  BY <1>2 DEF TelemetryInv, Whole

\* begin_async, end_async and resolve_pending create, use and destroy the two
\* events of every operation once each, and a handle_ leads to the event of
\* its own scope, unless resolve_pending is called while a scope is open.
THEOREM EventsAreSound == Spec => []EventsSound
<1> QED  BY SoundEvents, TelemetryInvariant, PTL

LEMMA OncePlaced == TelemetryInv => EachOnce
<1> SUFFICES ASSUME TelemetryInv, cut = {}, ~halted
             PROVE  /\ \A n \in DOMAIN history :
                          Cardinality(Places(n)) = IF history[n].ended THEN 1 ELSE 0
                    /\ \A i \in DOMAIN pending : pending[i].start = pending[i].op
                    /\ \A i \in DOMAIN log.records : log.records[i].start = log.records[i].op
  BY DEF EachOnce
<1>1. /\ DOMAIN history = 1 .. Len(history) /\ DOMAIN pending = 1 .. Len(pending)
      /\ DOMAIN log.records = 1 .. Len(log.records)
  <2>1. /\ pending \in Seq(Pending) /\ log.records \in Seq(Record)
        /\ history \in Seq(History)
    BY Sizes DEF TelemetryInv, TypeOK, History
  <2> QED  BY <2>1, LenProperties
<1>2. /\ \A i, j \in DOMAIN pending : pending[i].op = pending[j].op => i = j
      /\ \A i, j \in DOMAIN log.records : log.records[i].op = log.records[j].op => i = j
      /\ \A i \in DOMAIN pending : \A j \in DOMAIN log.records : pending[i].op # log.records[j].op
      /\ \A i \in DOMAIN pending : pending[i].op \notin cleared
      /\ \A j \in DOMAIN log.records : log.records[j].op \notin cleared
  BY <1>1 DEF TelemetryInv, Apart
<1>3. /\ \A i \in DOMAIN pending : history[pending[i].op].ended
      /\ \A i \in DOMAIN log.records : history[log.records[i].op].ended
      /\ \A n \in cleared : history[n].ended
  BY <1>1 DEF TelemetryInv, Listed
<1>4. /\ \A i \in DOMAIN pending : pending[i].start = pending[i].op
      /\ \A i \in DOMAIN log.records : log.records[i].start = log.records[i].op
      /\ \A n \in DOMAIN history : history[n].ended =>
            \/ \E i \in DOMAIN pending : pending[i].op = n
            \/ \E i \in DOMAIN log.records : log.records[i].op = n
            \/ n \in cleared
  BY <1>1 DEF TelemetryInv, Whole
<1>5. ASSUME NEW n \in DOMAIN history
      PROVE  Cardinality(Places(n)) = IF history[n].ended THEN 1 ELSE 0
  <2>1. CASE ~history[n].ended
    <3>1. Places(n) = {}
      BY <1>3, <2>1 DEF Places
    <3> QED  BY <2>1, <3>1, FS_EmptySet
  <2>2. CASE history[n].ended
    <3>1. \E x : Places(n) = {x}
      <4>1. CASE n \in cleared
        <5>1. Places(n) = {<<"cleared", n>>}
          BY <1>2, <4>1 DEF Places
        <5> QED  BY <5>1
      <4>2. ASSUME NEW i \in DOMAIN pending, pending[i].op = n
            PROVE  Places(n) = {<<"pending", i>>}
        BY <1>2, <4>2 DEF Places
      <4>3. ASSUME NEW i \in DOMAIN log.records, log.records[i].op = n
            PROVE  Places(n) = {<<"record", i>>}
        BY <1>2, <4>3 DEF Places
      <4> QED  BY <1>4, <2>2, <4>1, <4>2, <4>3
    <3> QED  BY <2>2, <3>1, FS_Singleton
  <2> QED  BY <2>1, <2>2
<1> QED  BY <1>4, <1>5

\* time and record lose no operation and count none twice: one that has ended
\* is in pending_, in records_ or was cleared, once, with the times of its own
\* two events, unless resolve_pending is called while a scope is open.
THEOREM MeasuredOnce == Spec => []EachOnce
<1> QED  BY OncePlaced, TelemetryInvariant, PTL

LEMMA KeptLabels == TelemetryInv => LabelsKept
<1> SUFFICES ASSUME TelemetryInv
             PROVE  LabelsKept
  OBVIOUS
<1>1. log.records \in Seq(Record)
  BY Sizes DEF TelemetryInv
<1>2. DOMAIN log.records = 1 .. Len(log.records)
  BY <1>1, LenProperties
<1>3. \A i \in DOMAIN log.records : log.records[i].group = history[log.records[i].op].group
  BY <1>2 DEF TelemetryInv, Listed
<1>4. Labelled(log)
  BY DEF TelemetryInv, Ids
<1> QED  BY <1>2, <1>3, <1>4 DEF LabelsKept, Labelled

\* A record of record_with_group has the group its operation ended in, however
\* late resolve_pending is; within a session sequence ids follow the order of
\* records_, and two records have one stream_id if and only if their hints are
\* one stream: also across clear, and after a batch that failed half-way.
THEOREM RecordsKeepLabels == Spec => []LabelsKept
<1> QED  BY KeptLabels, TelemetryInvariant, PTL

-----------------------------------------------------------------------------
(* What print_summary counts and sums *)

LEMMA CountType ==
    ASSUME NEW s, NEW g, NEW i \in Nat
    PROVE  /\ IsFiniteSet({j \in 1 .. i : s[j].group = g})
           /\ CountUpTo(s, g, i) \in Nat
<1>1. IsFiniteSet(1 .. i)
  BY FS_Interval
<1>2. PICK S : S = {j \in 1 .. i : s[j].group = g} /\ S \in SUBSET (1 .. i)
  OBVIOUS
<1>3. IsFiniteSet(S)
  BY <1>1, <1>2, FS_Subset
<1> QED  BY <1>2, <1>3, FS_CardinalityType DEF CountUpTo

LEMMA CountStep ==
    ASSUME NEW s, NEW g, NEW i \in Nat
    PROVE  CountUpTo(s, g, i + 1) = CountUpTo(s, g, i) + (IF s[i + 1].group = g THEN 1 ELSE 0)
<1>1. PICK S : S = {j \in 1 .. i : s[j].group = g} /\ CountUpTo(s, g, i) = Cardinality(S)
  BY DEF CountUpTo
<1>2. PICK T : T = {j \in 1 .. i + 1 : s[j].group = g} /\ CountUpTo(s, g, i + 1) = Cardinality(T)
  BY DEF CountUpTo
<1>3. IsFiniteSet(S) /\ CountUpTo(s, g, i) \in Nat
  BY <1>1, CountType
<1>4. 1 .. i + 1 = (1 .. i) \cup {i + 1} /\ i + 1 \notin 1 .. i
  OBVIOUS
<1>5. CASE s[i + 1].group = g
  <2>1. T = S \cup {i + 1} /\ i + 1 \notin S
    BY <1>1, <1>2, <1>4, <1>5
  <2>2. Cardinality(T) = Cardinality(S) + 1
    BY <1>3, <2>1, FS_AddElement
  <2> QED  BY <1>1, <1>2, <1>5, <2>2
<1>6. CASE s[i + 1].group # g
  <2>1. T = S
    BY <1>1, <1>2, <1>4, <1>6
  <2> QED  BY <1>1, <1>2, <1>3, <1>6, <2>1
<1> QED  BY <1>5, <1>6

LEMMA CountNone ==
    ASSUME NEW s, NEW g
    PROVE  CountUpTo(s, g, 0) = 0
<1>1. {j \in 1 .. 0 : s[j].group = g} = {}
  OBVIOUS
<1> QED  BY <1>1, FS_EmptySet DEF CountUpTo

LEMMA CountGrows ==
    ASSUME NEW s, NEW g, NEW i \in Nat, NEW j \in Nat, i <= j
    PROVE  CountUpTo(s, g, i) <= CountUpTo(s, g, j)
<1>1. PICK S : S = {k \in 1 .. i : s[k].group = g} /\ CountUpTo(s, g, i) = Cardinality(S)
  BY DEF CountUpTo
<1>2. PICK T : T = {k \in 1 .. j : s[k].group = g} /\ CountUpTo(s, g, j) = Cardinality(T)
  BY DEF CountUpTo
<1>3. IsFiniteSet(T)
  BY <1>2, CountType
<1>4. S \in SUBSET T
  BY <1>1, <1>2
<1> QED  BY <1>1, <1>2, <1>3, <1>4, FS_Subset

\* A record of the group is counted.
LEMMA CountPasses ==
    ASSUME NEW s, NEW g, NEW i \in Nat, NEW j \in Nat, i < j, s[j].group = g
    PROVE  CountUpTo(s, g, i) < CountUpTo(s, g, j)
<1>1. PICK k \in Nat : k + 1 = j /\ i <= k
  <2>1. j - 1 \in Nat /\ (j - 1) + 1 = j /\ i <= j - 1
    OBVIOUS
  <2> QED  BY <2>1
<1>2. CountUpTo(s, g, i) <= CountUpTo(s, g, k)
  BY <1>1, CountGrows
<1>3. CountUpTo(s, g, j) = CountUpTo(s, g, k) + 1
  BY <1>1, CountStep
<1>4. CountUpTo(s, g, i) \in Nat /\ CountUpTo(s, g, k) \in Nat
  BY <1>1, CountType
<1> QED  BY <1>2, <1>3, <1>4

\* s has the operations and the groups of the first n of t.
Starts(s, t, n) == \A i \in 1 .. n : s[i].op = t[i].op /\ s[i].group = t[i].group

LEMMA CountSame ==
    ASSUME NEW s, NEW t, NEW g, NEW n \in Nat, Starts(s, t, n), NEW i \in 0 .. n
    PROVE  CountUpTo(s, g, i) = CountUpTo(t, g, i)
<1>1. \A j \in 1 .. i : s[j].group = t[j].group
  <2>1. \A j \in 1 .. i : j \in 1 .. n
    OBVIOUS
  <2> QED  BY <2>1 DEF Starts
<1>2. {j \in 1 .. i : s[j].group = g} = {j \in 1 .. i : t[j].group = g}
  BY <1>1
<1> QED  BY <1>2 DEF CountUpTo

\* What has been counted when s ends is summed the same way in t.
LEMMA SummedStarts ==
    ASSUME NEW s, NEW t, NEW g, NEW n \in Nat, NEW len \in Nat, n <= len,
           DOMAIN s = 1 .. n, DOMAIN t = 1 .. len, Starts(s, t, n),
           NEW from \in Nat, NEW to \in Nat, to <= CountUpTo(s, g, n)
    PROVE  Summed(s, g, from, to) = Summed(t, g, from, to)
<1>1. \A i \in 1 .. n : CountUpTo(s, g, i) = CountUpTo(t, g, i)
  <2>1. \A i \in 1 .. n : i \in 0 .. n
    OBVIOUS
  <2> QED  BY <2>1, CountSame
<1>2. CountUpTo(s, g, n) = CountUpTo(t, g, n) /\ CountUpTo(t, g, n) \in Nat
  <2>1. n \in 0 .. n
    OBVIOUS
  <2>2. CountUpTo(s, g, n) = CountUpTo(t, g, n)
    BY <2>1, CountSame
  <2> QED  BY <2>2, CountType
<1>3. ASSUME NEW j \in 1 .. len, t[j].group = g, CountUpTo(t, g, j) \in from + 1 .. to
      PROVE  j \in 1 .. n
  <2>1. CASE j <= n
    BY <2>1
  <2>2. CASE n < j
    <3>1. CountUpTo(t, g, n) < CountUpTo(t, g, j)
      BY <1>3, <2>2, CountPasses
    <3>2. CountUpTo(t, g, j) \in Nat /\ CountUpTo(t, g, j) <= to
      BY <1>3, CountType
    <3> QED  BY <1>2, <3>1, <3>2
  <2> QED  BY <2>1, <2>2
<1>4. {j \in DOMAIN s : s[j].group = g /\ CountUpTo(s, g, j) \in from + 1 .. to}
        = {j \in DOMAIN t : t[j].group = g /\ CountUpTo(t, g, j) \in from + 1 .. to}
  <2>1. \A j \in 1 .. n : j \in 1 .. len /\ s[j].group = t[j].group
    BY DEF Starts
  <2> QED  BY <1>1, <1>3, <2>1
<1>5. \A j \in 1 .. n : s[j].op = t[j].op
  BY DEF Starts
<1>6. \A j \in {k \in DOMAIN s : s[k].group = g /\ CountUpTo(s, g, k) \in from + 1 .. to} : s[j].op = t[j].op
  BY <1>5
<1> QED  BY <1>4, <1>6 DEF Summed

\* print_summary sees the same in t as in s.
Alike(s, len, t, len2, g) ==
    /\ CountUpTo(t, g, len2) = CountUpTo(s, g, len)
    /\ \A from, to \in Nat : Summed(t, g, from, to) = Summed(s, g, from, to)

\* In t it sees one more operation.
Longer(s, len, t, g, n) ==
    /\ CountUpTo(t, g, len + 1) = CountUpTo(s, g, len) + 1
    /\ \A from \in Nat : from <= CountUpTo(s, g, len) =>
          Summed(t, g, from, CountUpTo(s, g, len) + 1) = Summed(s, g, from, CountUpTo(s, g, len)) \cup {n}

\* t is s with one more item after the first p.
Inserted(s, len, t, p) ==
    /\ DOMAIN s = 1 .. len /\ DOMAIN t = 1 .. len + 1 /\ Starts(s, t, p)
    /\ \A i \in p + 1 .. len : s[i].op = t[i + 1].op /\ s[i].group = t[i + 1].group

LEMMA CountAfter ==
    ASSUME NEW s, NEW t, NEW g, NEW len \in Nat, NEW p \in 0 .. len,
           Inserted(s, len, t, p), t[p + 1].group # g, NEW i \in p .. len
    PROVE  CountUpTo(t, g, i + 1) = CountUpTo(s, g, i)
<1> SUFFICES ASSUME CountUpTo(t, g, i + 1) # CountUpTo(s, g, i)
             PROVE  FALSE
  OBVIOUS
<1> DEFINE T == {k \in p .. len : CountUpTo(t, g, k + 1) # CountUpTo(s, g, k)}
<1>1. T \in SUBSET Nat /\ T # {}
  OBVIOUS
<1>2. PICK k \in T : \A j \in T : k <= j
  BY <1>1, LeastOf
<1>3. k \in p .. len /\ k \in Nat /\ CountUpTo(t, g, k + 1) # CountUpTo(s, g, k)
  BY <1>2
<1>4. CASE k = p
  <2>0. p \in Nat /\ CountUpTo(t, g, p) \in Nat
    <3>1. p \in Nat
      OBVIOUS
    <3> QED  BY <3>1, CountType
  <2>1. CountUpTo(t, g, p + 1) = CountUpTo(t, g, p)
    <3>1. CountUpTo(t, g, p + 1) = CountUpTo(t, g, p) + (IF t[p + 1].group = g THEN 1 ELSE 0)
      BY <2>0, CountStep
    <3> QED  BY <2>0, <3>1
  <2>2. Starts(s, t, p) /\ p \in Nat /\ p \in 0 .. p
    BY DEF Inserted
  <2>3. CountUpTo(s, g, p) = CountUpTo(t, g, p)
    BY <2>2, CountSame
  <2> QED  BY <1>3, <1>4, <2>1, <2>3
<1>5. CASE k # p
  <2>1. PICK j \in Nat : j + 1 = k /\ j \in p .. len /\ k \in p + 1 .. len
    <3>1. k - 1 \in Nat /\ (k - 1) + 1 = k /\ k - 1 \in p .. len /\ k \in p + 1 .. len
      BY <1>3, <1>5
    <3> QED  BY <3>1
  <2>2. CountUpTo(t, g, k) = CountUpTo(s, g, j)
    <3>1. ~(k <= j)
      BY <2>1
    <3>2. j \notin T
      BY <1>2, <3>1
    <3> QED  BY <2>1, <3>2
  <2>3. s[k].group = t[k + 1].group
    BY <2>1 DEF Inserted
  <2>4. /\ CountUpTo(t, g, k + 1) = CountUpTo(t, g, k) + (IF t[k + 1].group = g THEN 1 ELSE 0)
        /\ CountUpTo(s, g, j + 1) = CountUpTo(s, g, j) + (IF s[j + 1].group = g THEN 1 ELSE 0)
    BY <1>3, <2>1, CountStep
  <2> QED  BY <1>3, <2>1, <2>2, <2>3, <2>4
<1> QED  BY <1>4, <1>5

\* One more record, of another group or of this one.
LEMMA SummedOther ==
    ASSUME NEW s, NEW t, NEW g, NEW len \in Nat, NEW p \in 0 .. len,
           Inserted(s, len, t, p), t[p + 1].group # g
    PROVE  Alike(s, len, t, len + 1, g)
<1>1. Starts(s, t, p) /\ p \in Nat /\ DOMAIN s = 1 .. len /\ DOMAIN t = 1 .. len + 1
  BY DEF Inserted
<1>2. \A i \in 1 .. p : /\ CountUpTo(s, g, i) = CountUpTo(t, g, i)
                        /\ s[i].op = t[i].op /\ s[i].group = t[i].group
  <2>1. \A i \in 1 .. p : i \in 0 .. p
    OBVIOUS
  <2>2. \A i \in 1 .. p : CountUpTo(s, g, i) = CountUpTo(t, g, i)
    BY <1>1, <2>1, CountSame
  <2> QED  BY <1>1, <2>2 DEF Starts
<1>3. \A i \in p + 1 .. len : /\ CountUpTo(s, g, i) = CountUpTo(t, g, i + 1)
                              /\ s[i].op = t[i + 1].op /\ s[i].group = t[i + 1].group
  <2>1. \A i \in p + 1 .. len : i \in p .. len
    OBVIOUS
  <2>2. \A i \in p + 1 .. len : CountUpTo(s, g, i) = CountUpTo(t, g, i + 1)
    BY <2>1, CountAfter
  <2> QED  BY <2>2 DEF Inserted
<1>4. CountUpTo(t, g, len + 1) = CountUpTo(s, g, len)
  <2>1. len \in p .. len
    OBVIOUS
  <2> QED  BY <2>1, CountAfter
<1>5. ASSUME NEW from \in Nat, NEW to \in Nat
      PROVE  Summed(t, g, from, to) = Summed(s, g, from, to)
  <2>1. PICK S : S = {j \in DOMAIN s : s[j].group = g /\ CountUpTo(s, g, j) \in from + 1 .. to}
    OBVIOUS
  <2>2. PICK T : T = {j \in DOMAIN t : t[j].group = g /\ CountUpTo(t, g, j) \in from + 1 .. to}
    OBVIOUS
  <2>3. ASSUME NEW j \in S
        PROVE  \E i \in T : t[i].op = s[j].op
    <3>1. CASE j \in 1 .. p
      <4>1. j \in T /\ t[j].op = s[j].op
        BY <1>1, <1>2, <2>1, <2>2, <3>1
      <4> QED  BY <4>1
    <3>2. CASE j \in p + 1 .. len
      <4>1. j + 1 \in T /\ t[j + 1].op = s[j].op
        BY <1>1, <1>3, <2>1, <2>2, <3>2
      <4> QED  BY <4>1
    <3> QED  BY <1>1, <2>1, <3>1, <3>2
  <2>4. ASSUME NEW i \in T
        PROVE  \E j \in S : s[j].op = t[i].op
    <3>1. CASE i \in 1 .. p
      <4>1. i \in S /\ t[i].op = s[i].op
        BY <1>1, <1>2, <2>1, <2>2, <3>1
      <4> QED  BY <4>1
    <3>2. CASE i \in p + 2 .. len + 1
      <4>1. PICK j \in p + 1 .. len : j + 1 = i
        <5>1. i - 1 \in p + 1 .. len /\ (i - 1) + 1 = i
          BY <3>2
        <5> QED  BY <5>1
      <4>2. j \in S /\ t[i].op = s[j].op
        BY <1>1, <1>3, <2>1, <2>2, <4>1
      <4> QED  BY <4>2
    <3>3. i # p + 1
      BY <2>2
    <3> QED  BY <1>1, <2>2, <3>1, <3>2, <3>3
  <2>5. {s[j].op : j \in S} = {t[j].op : j \in T}
    BY <2>3, <2>4
  <2> QED  BY <2>1, <2>2, <2>5 DEF Summed
<1> QED  BY <1>4, <1>5 DEF Alike

LEMMA SummedMore ==
    ASSUME NEW s, NEW t, NEW g, NEW n \in Nat, DOMAIN s = 1 .. n, DOMAIN t = 1 .. n + 1,
           Starts(s, t, n), t[n + 1].group = g
    PROVE  Longer(s, n, t, g, t[n + 1].op)
<1>1. PICK c : c = CountUpTo(s, g, n)
  OBVIOUS
<1>2. c \in Nat
  BY <1>1, CountType
<1>3. \A i \in 1 .. n : CountUpTo(s, g, i) = CountUpTo(t, g, i) /\ CountUpTo(s, g, i) \in Nat
  <2>1. \A i \in 1 .. n : i \in 0 .. n /\ i \in Nat
    OBVIOUS
  <2>2. \A i \in 1 .. n : CountUpTo(s, g, i) = CountUpTo(t, g, i)
    BY <2>1, CountSame
  <2> QED  BY <2>1, <2>2, CountType
<1>4. CountUpTo(t, g, n + 1) = c + 1
  <2>1. n \in 0 .. n
    OBVIOUS
  <2>2. CountUpTo(s, g, n) = CountUpTo(t, g, n)
    BY <2>1, CountSame
  <2>3. CountUpTo(t, g, n + 1) = CountUpTo(t, g, n) + 1
    BY CountStep
  <2> QED  BY <1>1, <2>2, <2>3
<1>5. \A i \in 1 .. n : CountUpTo(s, g, i) <= c
  <2>1. \A i \in 1 .. n : i \in Nat /\ i <= n
    OBVIOUS
  <2> QED  BY <1>1, <2>1, CountGrows
<1>6. 1 .. n + 1 = (1 .. n) \cup {n + 1} /\ n + 1 \notin 1 .. n
  OBVIOUS
<1>7. \A j \in 1 .. n : s[j].op = t[j].op /\ s[j].group = t[j].group
  BY DEF Starts
<1>8. ASSUME NEW from \in Nat, from <= c
      PROVE  Summed(t, g, from, c + 1) = Summed(s, g, from, c) \cup {t[n + 1].op}
  <2>1. PICK S : S = {j \in DOMAIN s : s[j].group = g /\ CountUpTo(s, g, j) \in from + 1 .. c}
    OBVIOUS
  <2>2. PICK T : T = {j \in DOMAIN t : t[j].group = g /\ CountUpTo(t, g, j) \in from + 1 .. c + 1}
    OBVIOUS
  <2>3. ASSUME NEW j \in 1 .. n
        PROVE  j \in T <=> j \in S
    <3>1. CountUpTo(t, g, j) \in from + 1 .. c + 1 <=> CountUpTo(s, g, j) \in from + 1 .. c
      <4>1. /\ CountUpTo(t, g, j) = CountUpTo(s, g, j) /\ CountUpTo(s, g, j) \in Nat
            /\ CountUpTo(s, g, j) <= c
        BY <1>3, <1>5
      <4> QED  BY <1>2, <4>1
    <3>2. j \in 1 .. n + 1
      BY <1>6
    <3> QED  BY <1>7, <2>1, <2>2, <3>1, <3>2
  <2>4. n + 1 \in T
    <3>1. c + 1 \in from + 1 .. c + 1
      BY <1>2, <1>8
    <3> QED  BY <1>4, <1>6, <2>2, <3>1
  <2>5. T = S \cup {n + 1}
    <3>1. S \subseteq 1 .. n /\ T \subseteq 1 .. n + 1
      BY <2>1, <2>2
    <3> QED  BY <1>6, <2>3, <2>4, <3>1
  <2>6. \A j \in S : s[j].op = t[j].op
    BY <1>7, <2>1
  <2>7. {t[j].op : j \in T} = {s[j].op : j \in S} \cup {t[n + 1].op}
    BY <2>5, <2>6
  <2> QED  BY <2>1, <2>2, <2>7 DEF Summed
<1> QED  BY <1>1, <1>4, <1>8 DEF Longer

LEMMA SummedNone ==
    ASSUME NEW s, NEW g, NEW from \in Nat
    PROVE  Summed(s, g, from, from) = {}
<1>1. from + 1 .. from = {}
  OBVIOUS
<1> QED  BY <1>1 DEF Summed

-----------------------------------------------------------------------------
(* A trail of records: whole iterations, and what there is of one more *)

Of(h, n) == {i \in 1 .. Len(h) : h[i].iteration = n}

\* The first m windows of s are iterations up to done, and open records are
\* left, of the operations in tail.
Cut(s, len, g, h, done, open, tail, m) ==
    /\ CountUpTo(s, g, len) = m * Ops[g] + open
    /\ \A k \in 1 .. m : \E n \in 1 .. done : Summed(s, g, (k - 1) * Ops[g], k * Ops[g]) = Of(h, n)
    /\ Summed(s, g, m * Ops[g], m * Ops[g] + open) = tail
Trail(s, len, g, h, done, open, tail) == \E m \in Nat : Cut(s, len, g, h, done, open, tail, m)

LEMMA Products ==
    ASSUME NEW m \in Nat, NEW o \in Nat
    PROVE  /\ m * o \in Nat /\ (m + 1) * o = m * o + o
           /\ \A k \in 1 .. m : /\ (k - 1) * o \in Nat /\ k * o \in Nat
                                /\ k * o <= m * o /\ k * o = (k - 1) * o + o
<1>1. m * o \in Nat /\ (m + 1) * o = m * o + o
  OBVIOUS
<1>2. ASSUME NEW k \in 1 .. m
      PROVE  (k - 1) * o \in Nat /\ k * o \in Nat /\ k * o <= m * o /\ k * o = (k - 1) * o + o
  <2>1. PICK j \in Nat, d \in Nat : k = j + 1 /\ m = k + d
    <3>1. k - 1 \in Nat /\ m - k \in Nat /\ k = (k - 1) + 1 /\ m = k + (m - k)
      OBVIOUS
    <3> QED  BY <3>1
  <2>2. j * o \in Nat /\ (j + 1) * o = j * o + o /\ d * o \in Nat /\ k * o \in Nat
    BY <2>1
  <2>3. m * o = k * o + d * o
    BY <2>1
  <2>4. k - 1 = j /\ k * o <= k * o + d * o
    BY <2>1, <2>2
  <2> QED  BY <2>1, <2>2, <2>3, <2>4
<1> QED  BY <1>1, <1>2

LEMMA TrailKept ==
    ASSUME NEW s, NEW len, NEW t, NEW len2, NEW g \in Groups, NEW h, NEW h2, NEW done \in Nat, NEW done2 \in Nat,
           NEW open \in Nat, NEW tail, Trail(s, len, g, h, done, open, tail), Alike(s, len, t, len2, g),
           done <= done2, \A n \in 1 .. done : Of(h2, n) = Of(h, n)
    PROVE  Trail(t, len2, g, h2, done2, open, tail)
<1>1. PICK m \in Nat : Cut(s, len, g, h, done, open, tail, m)
  BY DEF Trail
<1>2. PICK o : o = Ops[g] /\ o \in Nat
  BY TelemetryAssumption
<1>3. /\ m * o \in Nat /\ m * o + open \in Nat
      /\ \A k \in 1 .. m : (k - 1) * o \in Nat /\ k * o \in Nat
  BY <1>2, Products
<1>4. CountUpTo(t, g, len2) = m * o + open /\ Summed(t, g, m * o, m * o + open) = tail
  BY <1>1, <1>2, <1>3 DEF Cut, Alike
<1>5. ASSUME NEW k \in 1 .. m
      PROVE  \E n \in 1 .. done2 : Summed(t, g, (k - 1) * o, k * o) = Of(h2, n)
  <2>1. PICK n \in 1 .. done : Summed(s, g, (k - 1) * o, k * o) = Of(h, n)
    BY <1>1, <1>2 DEF Cut
  <2>2. Summed(t, g, (k - 1) * o, k * o) = Summed(s, g, (k - 1) * o, k * o)
    BY <1>3 DEF Alike
  <2>3. n \in 1 .. done2
    OBVIOUS
  <2> QED  BY <2>1, <2>2, <2>3
<1>6. Cut(t, len2, g, h2, done2, open, tail, m)
  BY <1>2, <1>4, <1>5 DEF Cut
<1> QED  BY <1>6 DEF Trail

\* t is s with one more item, of g.
Lengthened(s, len, t, g) ==
    /\ DOMAIN s = 1 .. len /\ DOMAIN t = 1 .. len + 1 /\ Starts(s, t, len)
    /\ t[len + 1].group = g

\* The iterations up to done are the same in h and h2.
Settled(h, h2, done) == \A n \in 1 .. done : Of(h2, n) = Of(h, n)

\* One more operation of the iteration that is open.
LEMMA TrailMore ==
    ASSUME NEW s, NEW t, NEW len \in Nat, NEW g \in Groups, NEW h, NEW h2, NEW done \in Nat,
           NEW open \in Nat, NEW tail, Trail(s, len, g, h, done, open, tail),
           Lengthened(s, len, t, g), Settled(h, h2, done)
    PROVE  Trail(t, len + 1, g, h2, done, open + 1, tail \cup {t[len + 1].op})
<1>0. /\ DOMAIN s = 1 .. len /\ DOMAIN t = 1 .. len + 1 /\ Starts(s, t, len) /\ t[len + 1].group = g
      /\ \A n \in 1 .. done : Of(h2, n) = Of(h, n)
  BY DEF Lengthened, Settled
<1>1. PICK m \in Nat : Cut(s, len, g, h, done, open, tail, m)
  BY DEF Trail
<1>2. PICK o : o = Ops[g] /\ o \in Nat
  BY TelemetryAssumption
<1>3. PICK c : c = m * o /\ c \in Nat /\ CountUpTo(s, g, len) = c + open
  <2>1. m * o \in Nat
    BY <1>2, Products
  <2> QED  BY <1>1, <1>2, <2>1 DEF Cut
<1>4. /\ CountUpTo(t, g, len + 1) = (c + open) + 1
      /\ \A from \in Nat : from <= c + open =>
            Summed(t, g, from, (c + open) + 1) = Summed(s, g, from, c + open) \cup {t[len + 1].op}
  <2>1. PICK d : d = CountUpTo(s, g, len) /\ d = c + open
    BY <1>3
  <2>2. Longer(s, len, t, g, t[len + 1].op)
    BY <1>0, SummedMore
  <2>3. /\ CountUpTo(t, g, len + 1) = d + 1
        /\ \A from \in Nat : from <= d => Summed(t, g, from, d + 1) = Summed(s, g, from, d) \cup {t[len + 1].op}
    BY <2>1, <2>2 DEF Longer
  <2> QED  BY <2>1, <2>3
<1>5. c <= c + open /\ (c + open) + 1 = c + (open + 1)
  BY <1>3
<1>6. Summed(s, g, c, c + open) = tail
  BY <1>1, <1>2, <1>3 DEF Cut
<1>7. Summed(t, g, c, c + (open + 1)) = tail \cup {t[len + 1].op}
  BY <1>3, <1>4, <1>5, <1>6
<1>8. ASSUME NEW k \in 1 .. m
      PROVE  \E n \in 1 .. done : Summed(t, g, (k - 1) * o, k * o) = Of(h2, n)
  <2>1. PICK n \in 1 .. done : Summed(s, g, (k - 1) * o, k * o) = Of(h, n)
    BY <1>1, <1>2 DEF Cut
  <2>2. PICK from \in Nat, to \in Nat : from = (k - 1) * o /\ to = k * o /\ to <= c
    BY <1>2, <1>3, Products
  <2>3. to <= CountUpTo(s, g, len)
    BY <1>3, <2>2
  <2>4. len <= len + 1 /\ len + 1 \in Nat
    OBVIOUS
  <2>5. Summed(s, g, from, to) = Summed(t, g, from, to)
    BY <1>0, <2>3, <2>4, SummedStarts
  <2> QED  BY <1>0, <2>1, <2>2, <2>5
<1>9. Cut(t, len + 1, g, h2, done, open + 1, tail \cup {t[len + 1].op}, m)
  <2>1. CountUpTo(t, g, len + 1) = c + (open + 1)
    BY <1>4, <1>5
  <2> QED  BY <1>2, <1>3, <1>7, <1>8, <2>1 DEF Cut
<1> QED  BY <1>9 DEF Trail

\* The iteration that was open is whole.
LEMMA TrailClosed ==
    ASSUME NEW s, NEW len, NEW g \in Groups, NEW h, NEW done \in Nat,
           Trail(s, len, g, h, done, Ops[g], Of(h, done + 1))
    PROVE  Trail(s, len, g, h, done + 1, 0, {})
<1>1. PICK m \in Nat : Cut(s, len, g, h, done, Ops[g], Of(h, done + 1), m)
  BY DEF Trail
<1>2. PICK o : o = Ops[g] /\ o \in Nat
  BY TelemetryAssumption
<1>3. PICK c : c = (m + 1) * o /\ c = m * o + o /\ m * o \in Nat /\ c \in Nat
  BY <1>2, Products
<1>4. CountUpTo(s, g, len) = c /\ Summed(s, g, m * o, c) = Of(h, done + 1)
  BY <1>1, <1>2, <1>3 DEF Cut
<1>5. ASSUME NEW k \in 1 .. m + 1
      PROVE  \E n \in 1 .. done + 1 : Summed(s, g, (k - 1) * o, k * o) = Of(h, n)
  <2>1. CASE k \in 1 .. m
    <3>1. PICK n \in 1 .. done : Summed(s, g, (k - 1) * o, k * o) = Of(h, n)
      BY <1>1, <1>2, <2>1 DEF Cut
    <3>2. n \in 1 .. done + 1
      OBVIOUS
    <3> QED  BY <3>1, <3>2
  <2>2. CASE k = m + 1
    <3>1. k - 1 = m /\ k * o = c /\ done + 1 \in 1 .. done + 1
      BY <1>3, <2>2
    <3> QED  BY <1>4, <3>1
  <2>3. k \in 1 .. m \/ k = m + 1
    OBVIOUS
  <2> QED  BY <2>1, <2>2, <2>3
<1>6. Cut(s, len, g, h, done + 1, 0, {}, m + 1)
  <2>1. c + 0 = c /\ Summed(s, g, c, c) = {}
    BY <1>3, SummedNone
  <2> QED  BY <1>2, <1>3, <1>4, <1>5, <2>1 DEF Cut
<1>7. m + 1 \in Nat
  OBVIOUS
<1> QED  BY <1>6, <1>7 DEF Trail

LEMMA Quotient ==
    ASSUME NEW e \in Nat, NEW o \in Nat \ {0}, NEW k \in 1 .. e \div o
    PROVE  k * o <= e
<1>1. PICK q : q = e \div o
  OBVIOUS
<1>2. q \in Nat /\ q * o <= e
  BY <1>1
<1>3. k * o <= q * o /\ k * o \in Nat /\ q * o \in Nat
  BY <1>1, <1>2, Products
<1> QED  BY <1>2, <1>3

\* What is open is less than an iteration, or the last one.
Fits(g, h, last, open, tail) ==
    /\ open <= Ops[g]
    /\ open = Ops[g] => tail = Of(h, last) /\ last # 0

\* Also when the records are cut off somewhere.
LEMMA TrailWindows ==
    ASSUME NEW s, NEW len \in Nat, DOMAIN s = 1 .. len,
           NEW t, NEW n \in Nat, n <= len, DOMAIN t = 1 .. n, Starts(t, s, n),
           NEW g \in Groups, NEW h, NEW done \in Nat, NEW last \in Nat, NEW open \in Nat, NEW tail,
           Trail(s, len, g, h, done, open, tail), done <= last, Fits(g, h, last, open, tail),
           NEW k \in 1 .. CountUpTo(t, g, n) \div Ops[g]
    PROVE  \E i \in 1 .. last : Summed(t, g, (k - 1) * Ops[g], k * Ops[g]) = Of(h, i)
<1>1. PICK m \in Nat : Cut(s, len, g, h, done, open, tail, m)
  BY DEF Trail
<1>2. PICK o : o = Ops[g] /\ o \in Nat \ {0} /\ open <= o
  BY TelemetryAssumption DEF Fits
<1>3. PICK c : c = m * o /\ c \in Nat /\ (m + 1) * o = c + o /\ ((m + 1) + 1) * o = (c + o) + o
  <2>1. m * o \in Nat /\ (m + 1) * o = m * o + o
    BY <1>2, Products
  <2>2. m + 1 \in Nat
    OBVIOUS
  <2>3. ((m + 1) + 1) * o = (m + 1) * o + o
    BY <1>2, <2>2, Products
  <2> QED  BY <2>1, <2>3
<1>4. k \in Nat \ {0} /\ k * o <= CountUpTo(t, g, n) /\ CountUpTo(t, g, n) \in Nat
  <2>1. CountUpTo(t, g, n) \in Nat
    BY CountType
  <2>2. k * o <= CountUpTo(t, g, n)
    BY <1>2, <2>1, Quotient
  <2>3. CountUpTo(t, g, n) \div o \in Nat
    BY <1>2, <2>1
  <2> QED  BY <2>1, <2>2
<1>5. PICK from \in Nat, to \in Nat : /\ from = (k - 1) * o /\ to = k * o /\ to = from + o
                                      /\ to <= CountUpTo(t, g, n)
  <2>1. k \in 1 .. k /\ k \in Nat
    BY <1>4
  <2>2. (k - 1) * o \in Nat /\ k * o \in Nat /\ k * o = (k - 1) * o + o
    BY <1>2, <2>1, Products
  <2> QED  BY <1>4, <2>2
<1>6. Summed(t, g, from, to) = Summed(s, g, from, to)
  BY <1>5, SummedStarts
<1>7. to <= c + open
  <2>1. CountUpTo(t, g, n) <= CountUpTo(s, g, len)
    <3>1. CountUpTo(t, g, n) = CountUpTo(s, g, n)
      <4>1. n \in 0 .. n
        OBVIOUS
      <4> QED  BY <4>1, CountSame
    <3> QED  BY <3>1, CountGrows
  <2>2. CountUpTo(s, g, len) = c + open
    BY <1>1, <1>2, <1>3 DEF Cut
  <2> QED  BY <1>3, <1>4, <1>5, <2>1, <2>2
<1>8. CASE k <= m
  <2>1. k \in 1 .. m
    BY <1>4, <1>8
  <2>2. PICK i \in 1 .. done : Summed(s, g, (k - 1) * o, k * o) = Of(h, i)
    BY <1>1, <1>2, <2>1 DEF Cut
  <2>3. i \in 1 .. last
    OBVIOUS
  <2> QED  BY <1>2, <1>5, <1>6, <2>2, <2>3
<1>9. CASE m < k
  <2>1. c + o <= to
    <3>1. m + 1 \in 1 .. k
      BY <1>4, <1>9
    <3>2. (m + 1) * o <= k * o
      BY <1>2, <1>4, <3>1, Products
    <3> QED  BY <1>3, <1>5, <3>2
  <2>0. /\ c \in Nat /\ o \in Nat /\ o # 0 /\ open \in Nat /\ open <= o /\ from \in Nat /\ to \in Nat
        /\ to = from + o
    BY <1>2, <1>3, <1>5
  <2>2. open = o /\ to = c + o
    <3>1. o <= open
      BY <1>7, <2>0, <2>1
    <3> QED  BY <1>7, <2>0, <2>1, <3>1
  <2>3. k = m + 1
    <3>1. CASE k = m + 1
      BY <3>1
    <3>2. CASE k # m + 1
      <4>1. (m + 1) + 1 \in 1 .. k
        BY <1>4, <1>9, <3>2
      <4>2. ((m + 1) + 1) * o <= k * o
        BY <1>2, <1>4, <4>1, Products
      <4>3. (c + o) + o <= c + o
        BY <1>3, <1>5, <2>2, <4>2
      <4> QED  BY <2>0, <4>3
    <3> QED  BY <3>1, <3>2
  <2>5. from = c /\ to = c + open
    BY <2>0, <2>2
  <2>6. Summed(s, g, c, c + open) = tail
    BY <1>1, <1>2, <1>3 DEF Cut
  <2>7. tail = Of(h, last) /\ last \in 1 .. last
    BY <1>2, <2>2 DEF Fits
  <2> QED  BY <1>2, <1>5, <1>6, <2>5, <2>6, <2>7
<1> QED  BY <1>4, <1>8, <1>9

-----------------------------------------------------------------------------
(* The trail of a run: what is recorded and what is pending *)

Item(r) == [op |-> r.op, group |-> r.group]
Long == Len(log.records) + Len(pending)
Trace == [i \in 1 .. Long |-> IF i <= Len(log.records) THEN Item(log.records[i])
                              ELSE Item(pending[i - Len(log.records)])]

\* Operations that have not ended have their scope, and those of the iteration
\* that runs are those of the scopes above base.  The group that is active
\* is that of the benchmark, unless part of an iteration of it was lost.
Belong ==
    /\ bench.group \in Groups => iterations # 0
    /\ bench.base <= Len(scopes)
    /\ \A n \in 1 .. Len(history) : history[n].iteration <= iterations
    /\ \A n \in 1 .. Len(history) : ~history[n].ended => \E i \in 1 .. Len(scopes) : scopes[i].op = n
    /\ \A i \in 1 .. Len(scopes) :
          history[scopes[i].op].iteration =
              IF bench.group \in Groups /\ bench.base < i THEN iterations ELSE 0
    /\ bench.group \in Groups => bench.ops + Len(scopes) <= Ops[bench.group] + bench.base
    /\ current \in {NoGroup, bench.group} \cup spoilt
    /\ bench.group \in Groups \ spoilt => current = bench.group

\* The iterations that are whole, and what there is of the one that is not.
Done == IF bench.group \in Groups THEN iterations - 1 ELSE iterations
Open(g) == IF bench.group = g THEN bench.ops ELSE 0
Begun(g) == IF bench.group = g
            THEN {n \in 1 .. Len(history) : history[n].iteration = iterations /\ history[n].ended}
            ELSE {}
TrailOf(g) == Trail(Trace, Long, g, history, Done, Open(g), Begun(g))
Trails == cut = {} /\ ~halted => \A g \in Groups \ spoilt : TrailOf(g)

WindowsInv == TelemetryInv /\ Belong /\ Trails /\ WindowsAreIterations

LEMMA WindowSizes ==
    ASSUME TelemetryInv, Belong
    PROVE  /\ TypeOK /\ Len(history) \in Nat /\ Len(scopes) \in Nat /\ Len(pending) \in Nat
           /\ Len(log.records) \in Nat /\ Long \in Nat /\ bench.ops \in Nat /\ bench.base \in Nat
           /\ iterations \in Nat /\ Done \in Nat /\ Done <= iterations
           /\ \A g \in Groups : Open(g) \in Nat
           /\ \A n \in 1 .. Len(history) : history[n].iteration \in Nat /\ history[n].ended \in BOOLEAN
           /\ bench.group \in Groups <=> InBench
           /\ bench.group \in Groups \/ bench = NoBench
           /\ spoilt \subseteq Groups /\ group_ops \subseteq Groups /\ NoGroup \notin Groups
<1>1. TypeOK
  BY DEF TelemetryInv
<1>2. /\ Len(history) \in Nat /\ Len(scopes) \in Nat /\ Len(pending) \in Nat
      /\ Len(log.records) \in Nat /\ bench.ops \in Nat /\ bench.base \in Nat
  BY <1>1, Sizes
<1>3. Long \in Nat
  BY <1>2 DEF Long
<1>4. iterations \in Nat
  BY <1>1, TelemetryAssumption DEF TypeOK
<1>5. Done \in Nat /\ Done <= iterations
  BY <1>4 DEF Done, Belong
<1>6. \A g \in Groups : Open(g) \in Nat
  BY <1>2 DEF Open
<1>7. \A n \in 1 .. Len(history) : history[n].iteration \in Nat /\ history[n].ended \in BOOLEAN
  <2>1. history \in Seq([iteration : 0..MaxIterations, ended : BOOLEAN, group : Labels])
    BY <1>1 DEF TypeOK
  <2>2. \A n \in 1 .. Len(history) : history[n] \in [iteration : 0..MaxIterations, ended : BOOLEAN, group : Labels]
    BY <2>1, LenProperties
  <2>3. MaxIterations \in Nat
    BY TelemetryAssumption
  <2> QED  BY <2>2, <2>3
<1>8. /\ bench.group \in Groups <=> InBench
      /\ bench.group \in Groups \/ bench = NoBench
  <2>1. bench.group \in Labels
    BY <1>1 DEF TypeOK
  <2>2. bench.group = NoGroup => bench = NoBench
    BY DEF TelemetryInv, Tally
  <2> QED  BY <2>1, <2>2, TelemetryAssumption DEF InBench, NoBench, Labels
<1>9. spoilt \subseteq Groups /\ group_ops \subseteq Groups /\ NoGroup \notin Groups
  BY <1>1, TelemetryAssumption DEF TypeOK
<1> QED  BY <1>1, <1>2, <1>3, <1>4, <1>5, <1>6, <1>7, <1>8, <1>9

\* Where records and pending operations are on the trail.
Traced ==
    /\ DOMAIN Trace = 1 .. Long /\ Long = Len(log.records) + Len(pending)
    /\ Len(log.records) \in Nat /\ Len(pending) \in Nat
    /\ \A i \in 1 .. Len(log.records) : /\ Trace[i].op = log.records[i].op
                                        /\ Trace[i].group = log.records[i].group
    /\ \A i \in 1 .. Len(pending) : /\ Trace[Len(log.records) + i].op = pending[i].op
                                    /\ Trace[Len(log.records) + i].group = pending[i].group

LEMMA TraceIs == TelemetryInv => Traced
<1> SUFFICES ASSUME TelemetryInv
             PROVE  Traced
  OBVIOUS
<1>1. Len(pending) \in Nat /\ Len(log.records) \in Nat
  BY Sizes DEF TelemetryInv
<1>2. PICK len, more : len = Len(log.records) /\ more = Len(pending) /\ len \in Nat /\ more \in Nat
  BY <1>1
<1>3. Trace = [i \in 1 .. len + more |-> IF i <= len THEN Item(log.records[i]) ELSE Item(pending[i - len])]
  BY <1>2 DEF Trace, Long
<1>4. ASSUME NEW i \in 1 .. len
      PROVE  Trace[i].op = log.records[i].op /\ Trace[i].group = log.records[i].group
  <2>1. i \in 1 .. len + more /\ i <= len
    BY <1>2
  <2>2. Trace[i] = Item(log.records[i])
    BY <1>3, <2>1
  <2> QED  BY <2>2 DEF Item
<1>5. ASSUME NEW i \in 1 .. more
      PROVE  Trace[len + i].op = pending[i].op /\ Trace[len + i].group = pending[i].group
  <2>1. len + i \in 1 .. len + more /\ ~(len + i <= len) /\ (len + i) - len = i
    BY <1>2
  <2>2. Trace[len + i] = Item(pending[i])
    BY <1>3, <2>1
  <2> QED  BY <2>2 DEF Item
<1> QED  BY <1>2, <1>3, <1>4, <1>5 DEF Long, Traced

\* When no operation of the iteration is open, all of its operations have ended.
LEMMA AllEnded ==
    ASSUME TelemetryInv, Belong, bench.group \in Groups, Len(scopes) = bench.base
    PROVE  Begun(bench.group) = Of(history, iterations)
<1>1. /\ Len(scopes) \in Nat /\ iterations \in Nat /\ iterations # 0
      /\ \A n \in 1 .. Len(history) : history[n].ended \in BOOLEAN
  BY WindowSizes DEF Belong
<1>2. ASSUME NEW n \in 1 .. Len(history), history[n].iteration = iterations, ~history[n].ended
      PROVE  FALSE
  <2>1. PICK i \in 1 .. Len(scopes) : scopes[i].op = n
    BY <1>2 DEF Belong
  <2>2. ~(bench.base < i)
    BY <1>1
  <2>3. history[scopes[i].op].iteration = 0
    BY <2>2 DEF Belong
  <2> QED  BY <1>1, <1>2, <2>1, <2>3
<1>3. \A n \in 1 .. Len(history) : history[n].iteration = iterations => history[n].ended
  BY <1>2
<1> QED  BY <1>3 DEF Begun, Of

\* The records are the beginning of the trail, or were when it was longer.
LEMMA CutOff ==
    ASSUME TelemetryInv, Belong, Trails, ~halted, cut = {}, NEW g \in Groups \ spoilt,
           NEW t, NEW n \in Nat, n <= Long, DOMAIN t = 1 .. n, Starts(t, Trace, n),
           NEW k \in 1 .. CountUpTo(t, g, n) \div Ops[g]
    PROVE  \E i \in 1 .. iterations : Summed(t, g, (k - 1) * Ops[g], k * Ops[g]) = Of(history, i)
<1>1. PICK s, len, done, open, tail : /\ s = Trace /\ len = Long /\ done = Done
                                      /\ open = Open(g) /\ tail = Begun(g)
  OBVIOUS
<1>2. /\ len \in Nat /\ done \in Nat /\ open \in Nat /\ iterations \in Nat /\ done <= iterations
      /\ Len(scopes) \in Nat /\ bench.base \in Nat /\ bench.ops \in Nat /\ Ops[g] \in Nat \ {0}
  BY <1>1, WindowSizes, TelemetryAssumption
<1>3. DOMAIN s = 1 .. len /\ Starts(t, s, n) /\ n <= len
  BY <1>1, TraceIs DEF Traced
<1>4. Trail(s, len, g, history, done, open, tail)
  BY <1>1 DEF Trails, TrailOf
<1>5. open <= Ops[g] /\ (open = Ops[g] => tail = Of(history, iterations) /\ iterations # 0)
  <2>1. CASE bench.group = g
    <3>1. /\ bench.ops + Len(scopes) <= Ops[g] + bench.base /\ bench.base <= Len(scopes)
          /\ iterations # 0
      BY <2>1 DEF Belong
    <3>2. open = bench.ops /\ tail = Begun(bench.group)
      BY <1>1, <2>1 DEF Open
    <3>3. bench.ops = Ops[g] => Len(scopes) = bench.base
      BY <1>2, <3>1
    <3>4. bench.ops = Ops[g] => tail = Of(history, iterations)
      BY <2>1, <3>2, <3>3, AllEnded
    <3> QED  BY <1>2, <3>1, <3>2, <3>4
  <2>2. CASE bench.group # g
    <3>1. open = 0
      BY <1>1, <2>2 DEF Open
    <3> QED  BY <1>2, <3>1
  <2> QED  BY <2>1, <2>2
<1>6. PICK h, last : h = history /\ last = iterations
  OBVIOUS
<1>7. /\ last \in Nat /\ done <= last /\ Trail(s, len, g, h, done, open, tail)
      /\ Fits(g, h, last, open, tail) /\ g \in Groups
  BY <1>2, <1>4, <1>5, <1>6 DEF Fits
<1>8. \E i \in 1 .. last : Summed(t, g, (k - 1) * Ops[g], k * Ops[g]) = Of(h, i)
  BY <1>2, <1>3, <1>7, TrailWindows
<1> QED  BY <1>6, <1>8

LEMMA WindowsFollow == TelemetryInv /\ Belong /\ Trails /\ ~halted => WindowsAreIterations
<1> SUFFICES ASSUME TelemetryInv, Belong, Trails, ~halted, cut = {}, NEW g \in group_ops \ spoilt,
                    NEW k \in 1 .. Windows(log.records, g)
             PROVE  \E n \in 1 .. iterations :
                        Summed(log.records, g, (k - 1) * Ops[g], k * Ops[g]) = Iteration(n)
  BY DEF WindowsAreIterations
<1>1. PICK t, n : t = log.records /\ n = Len(log.records)
  OBVIOUS
<1>2. /\ n \in Nat /\ n <= Long /\ g \in Groups \ spoilt /\ DOMAIN t = 1 .. n
      /\ DOMAIN history = 1 .. Len(history)
  <2>1. TypeOK /\ n \in Nat /\ Len(pending) \in Nat /\ Long = n + Len(pending) /\ g \in Groups
    BY <1>1, WindowSizes DEF Long
  <2>2. t \in Seq(Record)
    BY <1>1, <2>1, Sizes
  <2>3. DOMAIN t = 1 .. n
    BY <1>1, <2>2, LenProperties
  <2>4. DOMAIN history = 1 .. Len(history)
    BY <2>1, LenProperties DEF TypeOK
  <2> QED  BY <2>1, <2>3, <2>4
<1>3. Starts(t, Trace, n)
  BY <1>1, TraceIs DEF Traced, Starts
<1>4. k \in 1 .. CountUpTo(t, g, n) \div Ops[g]
  BY <1>1 DEF Windows
<1>5. \E i \in 1 .. iterations : Summed(t, g, (k - 1) * Ops[g], k * Ops[g]) = Of(history, i)
  BY <1>2, <1>3, <1>4, CutOff
<1> QED  BY <1>1, <1>2, <1>5 DEF Iteration, Of

-----------------------------------------------------------------------------
(* Operations stay where they belong *)

LEMMA BelongSame ==
    ASSUME Belong, UNCHANGED <<scopes, bench, history, iterations, current>>, spoilt \subseteq spoilt'
    PROVE  Belong'
BY DEF Belong

LEMMA BelongBenchmark ==
    ASSUME TelemetryInv, Belong, NEW g \in Groups, BenchmarkBegin(g)
    PROVE  Belong'
<1>1. /\ bench = NoBench /\ iterations' = iterations + 1 /\ current' = g
      /\ bench' = [group |-> g, ops |-> 0, base |-> Len(scopes)]
      /\ UNCHANGED <<scopes, history, spoilt>>
  BY DEF BenchmarkBegin, InBench
<1>2. /\ Len(scopes) \in Nat /\ iterations \in Nat /\ NoGroup \notin Groups /\ Ops[g] \in Nat
      /\ \A n \in 1 .. Len(history) : history[n].iteration \in Nat
  BY WindowSizes, TelemetryAssumption
<1>3. /\ bench'.group = g /\ bench'.ops = 0 /\ bench'.base = Len(scopes)
      /\ bench.group \notin Groups
  BY <1>1, <1>2 DEF NoBench
<1>4. /\ iterations' # 0 /\ bench'.base <= Len(scopes)
      /\ bench'.ops + Len(scopes) <= Ops[g] + bench'.base
  BY <1>1, <1>2, <1>3
<1>5. \A n \in 1 .. Len(history) : history[n].iteration <= iterations'
  BY <1>1, <1>2 DEF Belong
<1>6. \A i \in 1 .. Len(scopes) : history[scopes[i].op].iteration = 0 /\ ~(bench'.base < i)
  BY <1>2, <1>3 DEF Belong
<1> QED  BY <1>1, <1>3, <1>4, <1>5, <1>6 DEF Belong

LEMMA BelongNext ==
    ASSUME TelemetryInv, Belong, BenchmarkNext
    PROVE  Belong'
<1>1. /\ bench.group \in Groups /\ Len(scopes) = bench.base /\ iterations' = iterations + 1
      /\ bench' = [bench EXCEPT !.ops = 0]
      /\ UNCHANGED <<scopes, history, spoilt, current>>
  BY WindowSizes DEF BenchmarkNext, IterationDone
<1>2. /\ Len(scopes) \in Nat /\ iterations \in Nat /\ Ops[bench.group] \in Nat
      /\ \A n \in 1 .. Len(history) : history[n].iteration \in Nat
  BY <1>1, WindowSizes, TelemetryAssumption
<1>3. bench'.group = bench.group /\ bench'.ops = 0 /\ bench'.base = Len(scopes)
  <2>1. bench \in [group : Labels, ops : 0..MaxOps, base : 0..MaxOps]
    BY DEF TelemetryInv, TypeOK
  <2> QED  BY <1>1, <2>1
<1>4. /\ iterations' # 0 /\ bench'.base <= Len(scopes)
      /\ bench'.ops + Len(scopes) <= Ops[bench'.group] + bench'.base
  BY <1>1, <1>2, <1>3
<1>5. \A n \in 1 .. Len(history) : history[n].iteration <= iterations'
  BY <1>1, <1>2 DEF Belong
<1>6. \A i \in 1 .. Len(scopes) : history[scopes[i].op].iteration = 0 /\ ~(bench'.base < i)
  BY <1>1, <1>2, <1>3 DEF Belong
<1> QED  BY <1>1, <1>3, <1>4, <1>5, <1>6 DEF Belong

LEMMA BelongEnd ==
    ASSUME TelemetryInv, Belong, BenchmarkEnd \/ BenchmarkThrows
    PROVE  Belong'
<1>1. /\ bench.group \in Groups /\ Len(scopes) = bench.base /\ bench' = NoBench
      /\ UNCHANGED <<scopes, history, iterations>>
      /\ \/ current' = NoGroup /\ UNCHANGED spoilt
         \/ UNCHANGED current /\ spoilt' = spoilt \cup {bench.group}
  BY WindowSizes DEF BenchmarkEnd, BenchmarkThrows, IterationDone
<1>2. Len(scopes) \in Nat /\ NoGroup \notin Groups
  BY WindowSizes
<1>3. bench'.group = NoGroup /\ bench'.base = 0
  BY <1>1 DEF NoBench
<1>4. \A i \in 1 .. Len(scopes) : history[scopes[i].op].iteration = 0
  BY <1>1, <1>2 DEF Belong
<1>5. current' \in {NoGroup} \cup spoilt'
  BY <1>1 DEF Belong
<1> QED  BY <1>1, <1>2, <1>3, <1>4, <1>5 DEF Belong

LEMMA BelongSession ==
    ASSUME TelemetryInv, Belong, StartSession
    PROVE  Belong'
<1>1. /\ current' = NoGroup /\ spoilt' = spoilt \cup ({bench.group} \ {NoGroup})
      /\ UNCHANGED <<scopes, bench, history, iterations>>
  BY DEF StartSession
<1>2. bench.group \notin Groups \ spoilt'
  BY <1>1, WindowSizes
<1> QED  BY <1>1, <1>2 DEF Belong

\* A new operation belongs to the iteration that runs.
LEMMA BegunIn ==
    ASSUME TelemetryInv, Belong, MayBegin, NEW e \in BOOLEAN, history' = Began(e)
    PROVE  /\ Len(history') = Len(history) + 1
           /\ \A n \in 1 .. Len(history) : history'[n] = history[n]
           /\ history'[Len(history) + 1].ended = e
           /\ history'[Len(history) + 1].iteration = IF bench.group \in Groups THEN iterations ELSE 0
           /\ 1 .. Len(history') = (1 .. Len(history)) \cup {Len(history) + 1}
           /\ Len(history) \in Nat
<1>1. /\ history \in Seq(History) /\ current \in Labels /\ Len(history) \in Nat
      /\ iterations \in 0 .. MaxIterations
  BY WindowSizes DEF TypeOK, History
<1>2. PICK r : r = [iteration |-> IF InBench THEN iterations ELSE 0, ended |-> e, group |-> current]
  OBVIOUS
<1>3. r \in History /\ r.ended = e /\ r.iteration = IF bench.group \in Groups THEN iterations ELSE 0
  <2>1. MaxIterations \in Nat /\ (bench.group \in Groups <=> InBench)
    BY WindowSizes, TelemetryAssumption
  <2> QED  BY <1>1, <1>2, <2>1 DEF History
<1>4. history' = Append(history, r)
  BY <1>2 DEF Began
<1> QED  BY <1>1, <1>3, <1>4, SequenceFacts

LEMMA BelongScopeBegin ==
    ASSUME TelemetryInv, Belong, NEW h \in Hints, ScopeBegin(h)
    PROVE  Belong'
<1>1. PICK r : r = [op |-> New, handle |-> Len(in_flight) + 1, hint |-> h] /\ scopes' = Append(scopes, r)
  BY DEF ScopeBegin
<1>2. MayBegin /\ history' = Began(FALSE) /\ UNCHANGED <<current, bench, iterations, spoilt>>
  BY DEF ScopeBegin
<1>3. PICK n : n = Len(history) /\ n \in Nat
  BY WindowSizes
<1>4. /\ Len(history') = n + 1 /\ \A i \in 1 .. n : history'[i] = history[i]
      /\ ~history'[n + 1].ended
      /\ history'[n + 1].iteration = IF bench.group \in Groups THEN iterations ELSE 0
      /\ 1 .. n + 1 = (1 .. n) \cup {n + 1}
  BY <1>2, <1>3, BegunIn
<1>5. PICK len : len = Len(scopes) /\ len \in Nat
  BY WindowSizes
<1>6. /\ Len(scopes') = len + 1 /\ \A i \in 1 .. len : scopes'[i] = scopes[i]
      /\ scopes'[len + 1].op = n + 1 /\ 1 .. len + 1 = (1 .. len) \cup {len + 1}
  <2> DEFINE Scope == [op : Operations, handle : 1..MaxOps, hint : Hints]
  <2>1. scopes \in Seq(Scope) /\ Len(in_flight) \in Nat /\ MaxOps \in Nat
    BY WindowSizes, Sizes DEF TypeOK
  <2>2. r \in Scope
    <3>1. Len(in_flight) <= n /\ n < MaxOps
      BY <1>2, <1>3 DEF MayBegin, TelemetryInv, Tally
    <3>2. New \in Operations /\ Len(in_flight) + 1 \in 1 .. MaxOps
      BY <1>3, <2>1, <3>1 DEF New, Operations
    <3> QED  BY <1>1, <3>2
  <2>3. r.op = n + 1
    BY <1>1, <1>3 DEF New
  <2> HIDE DEF Scope
  <2> QED  BY <1>1, <1>5, <2>1, <2>2, <2>3, SequenceFacts
<1>7. /\ bench.base \in Nat /\ bench.base <= len /\ iterations \in Nat
      /\ bench.group \in Groups => /\ bench.ops + (len + 1) <= Ops[bench.group] + bench.base
                                   /\ bench.base < len + 1
  <2>1. bench.base \in Nat /\ bench.ops \in Nat /\ iterations \in Nat /\ bench.base <= len
    BY <1>5, WindowSizes DEF Belong
  <2>2. ASSUME bench.group \in Groups
        PROVE  bench.ops + (len + 1) <= Ops[bench.group] + bench.base
    <3>1. bench.ops + len - bench.base < Ops[bench.group]
      BY <1>2, <1>5, <2>2, WindowSizes DEF MayBegin
    <3>2. Ops[bench.group] \in Nat
      BY <2>2, TelemetryAssumption
    <3> QED  BY <1>5, <2>1, <3>1, <3>2
  <2> QED  BY <1>5, <2>1, <2>2
<1>8. \A i \in 1 .. n + 1 : history'[i].iteration <= iterations
  <2>1. \A i \in 1 .. n : history'[i].iteration <= iterations
    BY <1>3, <1>4 DEF Belong
  <2>2. history'[n + 1].iteration <= iterations
    BY <1>4, <1>7
  <2> QED  BY <1>4, <2>1, <2>2
<1>9. ASSUME NEW i \in 1 .. n + 1, ~history'[i].ended
      PROVE  \E j \in 1 .. len + 1 : scopes'[j].op = i
  <2>1. CASE i \in 1 .. n
    <3>1. PICK j \in 1 .. len : scopes[j].op = i
      BY <1>3, <1>4, <1>5, <1>9, <2>1 DEF Belong
    <3> QED  BY <1>6, <3>1
  <2>2. CASE i = n + 1
    <3>1. len + 1 \in 1 .. len + 1
      BY <1>5
    <3> QED  BY <1>6, <2>2, <3>1
  <2> QED  BY <1>4, <2>1, <2>2
<1>10. ASSUME NEW i \in 1 .. len + 1
       PROVE  history'[scopes'[i].op].iteration =
                  IF bench.group \in Groups /\ bench.base < i THEN iterations ELSE 0
  <2>1. CASE i \in 1 .. len
    <3>1. scopes[i].op \in 1 .. n
      BY <1>3, <1>5, <2>1 DEF TelemetryInv, Nesting
    <3>2. history[scopes[i].op].iteration = IF bench.group \in Groups /\ bench.base < i THEN iterations ELSE 0
      BY <1>5, <2>1 DEF Belong
    <3> QED  BY <1>4, <1>6, <2>1, <3>1, <3>2
  <2>2. CASE i = len + 1
    BY <1>4, <1>6, <1>7, <2>2
  <2> QED  BY <1>6, <2>1, <2>2
<1>11. bench.base <= len + 1
  BY <1>5, <1>7
<1> QED  BY <1>2, <1>4, <1>6, <1>7, <1>8, <1>9, <1>10, <1>11 DEF Belong

LEMMA BelongRecordNow ==
    ASSUME TelemetryInv, Belong, SyncInGroups = FALSE, NEW h \in Hints, RecordNow(h)
    PROVE  Belong' /\ bench' = bench /\ bench.group \notin Groups
<1>1. /\ MayBegin /\ (InBench => SyncInGroups) /\ history' = Began(TRUE) /\ bench' = Counted(bench)
      /\ UNCHANGED <<scopes, iterations, current, spoilt>>
  BY DEF RecordNow
<1>2. bench.group \notin Groups /\ bench' = bench
  BY <1>1, WindowSizes DEF Counted
<1>3. PICK n : n = Len(history) /\ n \in Nat
  BY WindowSizes
<1>4. /\ Len(history') = n + 1 /\ \A i \in 1 .. n : history'[i] = history[i]
      /\ history'[n + 1].ended /\ history'[n + 1].iteration = 0
      /\ 1 .. n + 1 = (1 .. n) \cup {n + 1} /\ 0 <= iterations
  <2>1. history'[Len(history) + 1].ended = TRUE
    BY <1>1, BegunIn
  <2>2. iterations \in Nat
    BY WindowSizes
  <2>3. /\ Len(history') = Len(history) + 1 /\ \A i \in 1 .. Len(history) : history'[i] = history[i]
        /\ history'[Len(history) + 1].iteration = IF bench.group \in Groups THEN iterations ELSE 0
        /\ 1 .. Len(history') = (1 .. Len(history)) \cup {Len(history) + 1}
    BY <1>1, BegunIn
  <2> QED  BY <1>2, <1>3, <2>1, <2>2, <2>3
<1>5. \A i \in 1 .. n + 1 : history'[i].iteration <= iterations
  BY <1>3, <1>4 DEF Belong
<1>6. \A i \in 1 .. n + 1 : ~history'[i].ended => \E j \in 1 .. Len(scopes) : scopes[j].op = i
  BY <1>3, <1>4 DEF Belong
<1>7. \A i \in 1 .. Len(scopes) : history'[scopes[i].op] = history[scopes[i].op]
  <2>1. \A i \in 1 .. Len(scopes) : scopes[i].op \in 1 .. n
    BY <1>3 DEF TelemetryInv, Nesting
  <2> QED  BY <1>4, <2>1
<1>8. Belong'
  BY <1>1, <1>2, <1>4, <1>5, <1>6, <1>7 DEF Belong
<1> QED  BY <1>2, <1>8

\* The operation of the scope that ends stays in its iteration.
Left(n) ==
    /\ n \in 1 .. Len(history) /\ Len(history') = Len(history)
    /\ history'[n].ended /\ ~history[n].ended
    /\ \A m \in 1 .. Len(history) : m # n => history'[m] = history[m]
    /\ \A m \in 1 .. Len(history) : history'[m].iteration = history[m].iteration
    /\ bench'.group = bench.group /\ bench'.base = bench.base
    /\ bench'.ops = IF bench.group \in Groups THEN bench.ops + 1 ELSE bench.ops
    /\ bench.group \in Groups => history[n].iteration = iterations

LEMMA ScopeIsLeft ==
    ASSUME TelemetryInv, Belong, Ending, ScopeLeft
    PROVE  Left(Innermost.op)
<1>1. PICK n : n = Innermost.op /\ Popped(n)
  BY ScopePopped
<1>2. PICK len : len = Len(scopes) /\ len \in Nat \ {0} /\ scopes[len].op = n /\ n \in 1 .. Len(history)
  BY <1>1 DEF Popped
<1>3. \A m \in 1 .. Len(history) : history'[m].iteration = history[m].iteration
  <2>1. history' = [history EXCEPT ![n].ended = TRUE, ![n].group = current]
    BY <1>1 DEF ScopeLeft
  <2>2. history \in Seq(History)
    BY WindowSizes DEF TypeOK, History
  <2>3. \A m \in 1 .. Len(history) : history[m] \in History
    BY <2>2, LenProperties
  <2>4. PICK r : r = [history[n] EXCEPT !.ended = TRUE, !.group = current]
    OBVIOUS
  <2>5. r.iteration = history[n].iteration
    BY <1>2, <2>3, <2>4 DEF History
  <2>6. history' = [history EXCEPT ![n] = r]
    BY <1>2, <2>1, <2>2, <2>4, LenProperties
  <2> QED  BY <1>2, <2>2, <2>5, <2>6, LenProperties
<1>4. /\ bench'.group = bench.group /\ bench'.base = bench.base
      /\ bench'.ops = IF bench.group \in Groups THEN bench.ops + 1 ELSE bench.ops
  <2>1. bench \in [group : Labels, ops : 0..MaxOps, base : 0..MaxOps]
    BY DEF TelemetryInv, TypeOK
  <2>2. bench' = Counted(bench) /\ (bench.group \in Groups <=> InBench)
    BY WindowSizes DEF ScopeLeft
  <2>3. CASE bench.group \in Groups
    <3>1. bench' = [bench EXCEPT !.ops = bench.ops + 1]
      BY <2>2, <2>3 DEF Counted
    <3> QED  BY <2>1, <2>3, <3>1
  <2>4. CASE bench.group \notin Groups
    BY <2>2, <2>4 DEF Counted
  <2> QED  BY <2>3, <2>4
<1>5. bench.group \in Groups => history[n].iteration = iterations
  <2>1. len \in 1 .. Len(scopes) /\ bench.base < len
    BY <1>2, WindowSizes DEF Ending
  <2> QED  BY <1>2, <2>1 DEF Belong
<1>6. /\ Len(history') = Len(history) /\ history'[n].ended /\ ~history[n].ended
      /\ \A m \in 1 .. Len(history) : m # n => history'[m] = history[m]
  BY <1>1 DEF Popped
<1> QED  BY <1>1, <1>2, <1>3, <1>4, <1>5, <1>6 DEF Left

LEMMA BelongLeft ==
    ASSUME TelemetryInv, Belong, Ending, ScopeLeft, spoilt \subseteq spoilt'
    PROVE  Belong'
<1>1. PICK n : n = Innermost.op /\ Popped(n) /\ Left(n)
  BY ScopePopped, ScopeIsLeft
<1>2. PICK len : len = Len(scopes) /\ len \in Nat \ {0} /\ scopes[len].op = n
  BY <1>1 DEF Popped
<1>3. /\ Len(scopes') = len - 1 /\ \A i \in 1 .. len - 1 : scopes'[i] = scopes[i]
      /\ Len(history') = Len(history) /\ history'[n].ended
      /\ \A m \in 1 .. Len(history) : m # n => history'[m] = history[m]
      /\ \A m \in 1 .. Len(history) : history'[m].iteration = history[m].iteration
      /\ bench'.group = bench.group /\ bench'.base = bench.base
      /\ bench'.ops = IF bench.group \in Groups THEN bench.ops + 1 ELSE bench.ops
  BY <1>1, <1>2 DEF Popped, Left
<1>4. UNCHANGED <<current, iterations>>
  BY DEF ScopeLeft
<1>5. /\ bench'.base <= len - 1 /\ bench.base \in Nat /\ bench.ops \in Nat
  BY <1>2, <1>3, WindowSizes DEF Ending
<1>6. bench'.group \in Groups => bench'.ops + (len - 1) <= Ops[bench'.group] + bench'.base
  <2> SUFFICES ASSUME bench.group \in Groups
               PROVE  (bench.ops + 1) + (len - 1) <= Ops[bench.group] + bench.base
    BY <1>3
  <2>1. bench.ops + len <= Ops[bench.group] + bench.base
    BY <1>2 DEF Belong
  <2> QED  BY <1>2, <1>5, <2>1
<1>7. \A m \in 1 .. Len(history) : ~history'[m].ended => \E i \in 1 .. len - 1 : scopes'[i].op = m
  <2> SUFFICES ASSUME NEW m \in 1 .. Len(history), ~history'[m].ended
               PROVE  \E i \in 1 .. len - 1 : scopes'[i].op = m
    OBVIOUS
  <2>1. m # n /\ ~history[m].ended
    BY <1>3
  <2>2. PICK i \in 1 .. len : scopes[i].op = m
    BY <1>2, <2>1 DEF Belong
  <2>3. i \in 1 .. len - 1
    BY <1>2, <2>1, <2>2
  <2> QED  BY <1>3, <2>2, <2>3
<1>8. ASSUME NEW i \in 1 .. len - 1
      PROVE  history'[scopes'[i].op].iteration =
                 IF bench'.group \in Groups /\ bench'.base < i THEN iterations ELSE 0
  <2>1. scopes'[i] = scopes[i] /\ i \in 1 .. Len(scopes)
    BY <1>2, <1>3
  <2>2. scopes[i].op \in 1 .. Len(history)
    BY <2>1 DEF TelemetryInv, Nesting
  <2>3. history[scopes[i].op].iteration = IF bench.group \in Groups /\ bench.base < i THEN iterations ELSE 0
    BY <2>1 DEF Belong
  <2> QED  BY <1>3, <2>1, <2>2, <2>3
<1>9. \A m \in 1 .. Len(history) : history'[m].iteration <= iterations
  BY <1>3 DEF Belong
<1>10. /\ bench'.group \in Groups => iterations # 0
       /\ current \in {NoGroup, bench'.group} \cup spoilt'
       /\ bench'.group \in Groups \ spoilt' => current = bench'.group
  BY <1>3 DEF Belong
<1> QED  BY <1>3, <1>4, <1>5, <1>6, <1>7, <1>8, <1>9, <1>10 DEF Belong

-----------------------------------------------------------------------------
(* Trails go on *)

LEMMA TrailAside ==
    ASSUME TelemetryInv, Belong, NEW g \in Groups, TrailOf(g),
           Alike(Trace, Long, Trace', Long', g), Done' \in Nat, Done <= Done',
           \A n \in 1 .. Done : Of(history', n) = Of(history, n),
           Open(g)' = Open(g), Begun(g)' = Begun(g)
    PROVE  TrailOf(g)'
<1>1. PICK s, len, h, done, open, tail : /\ s = Trace /\ len = Long /\ h = history /\ done = Done
                                         /\ open = Open(g) /\ tail = Begun(g)
  OBVIOUS
<1>2. PICK t, len2, h2, done2 : t = Trace' /\ len2 = Long' /\ h2 = history' /\ done2 = Done'
  OBVIOUS
<1>3. /\ done \in Nat /\ done2 \in Nat /\ done <= done2 /\ open \in Nat
      /\ \A n \in 1 .. done : Of(h2, n) = Of(h, n)
  BY <1>1, <1>2, WindowSizes
<1>4. Trail(s, len, g, h, done, open, tail) /\ Alike(s, len, t, len2, g)
  BY <1>1, <1>2 DEF TrailOf
<1>5. Trail(t, len2, g, h2, done2, open, tail)
  BY <1>3, <1>4, TrailKept
<1> QED  BY <1>1, <1>2, <1>5 DEF TrailOf

LEMMA TraceSame ==
    ASSUME log'.records = log.records, pending' = pending
    PROVE  Trace' = Trace /\ Long' = Long /\ \A g : Alike(Trace, Long, Trace', Long', g)
<1>1. Long' = Long
  BY DEF Long
<1>2. Trace' = Trace
  BY <1>1 DEF Trace
<1> QED  BY <1>1, <1>2 DEF Alike

LEMMA TrailsBenchmark ==
    ASSUME TelemetryInv, Belong, Belong', Trails, NEW b \in Groups, BenchmarkBegin(b)
    PROVE  Trails'
<1>1. /\ ~halted /\ bench = NoBench /\ iterations' = iterations + 1
      /\ bench' = [group |-> b, ops |-> 0, base |-> Len(scopes)]
      /\ UNCHANGED <<log, pending, history, spoilt, cut, halted>>
  BY DEF BenchmarkBegin, InBench
<1>2. /\ Len(scopes) \in Nat /\ iterations \in Nat /\ NoGroup \notin Groups
      /\ \A n \in 1 .. Len(history) : history[n].iteration \in Nat /\ history[n].iteration <= iterations
  BY WindowSizes DEF Belong
<1>3. Done = iterations /\ Done' = iterations
  BY <1>1, <1>2 DEF Done, NoBench
<1>4. ASSUME cut' = {}, ~halted', NEW g \in Groups \ spoilt'
      PROVE  TrailOf(g)'
  <2>1. TrailOf(g)
    BY <1>1, <1>4 DEF Trails
  <2>2. Open(g) = 0 /\ Open(g)' = 0 /\ Begun(g) = {}
    BY <1>1, <1>2 DEF Open, Begun, NoBench
  <2>3. Begun(g)' = {}
    <3>1. \A n \in 1 .. Len(history) : history[n].iteration # iterations'
      BY <1>1, <1>2
    <3> QED  BY <1>1, <3>1 DEF Begun
  <2>4. Alike(Trace, Long, Trace', Long', g)
    BY <1>1, TraceSame
  <2>5. /\ Done' \in Nat /\ Done <= Done' /\ Open(g)' = Open(g) /\ Begun(g)' = Begun(g)
        /\ \A n \in 1 .. Done : Of(history', n) = Of(history, n)
    BY <1>1, <1>2, <1>3, <2>2, <2>3
  <2> QED  BY <2>1, <2>4, <2>5, TrailAside
<1> QED  BY <1>4 DEF Trails

\* An iteration that is done has all of its operations on the trail.
LEMMA TrailIsClosed ==
    ASSUME TelemetryInv, Belong, bench.group \in Groups, Len(scopes) = bench.base,
           bench.ops = Ops[bench.group], TrailOf(bench.group)
    PROVE  Trail(Trace, Long, bench.group, history, iterations, 0, {})
<1>1. PICK g, s, len, h, done : /\ g = bench.group /\ s = Trace /\ len = Long /\ h = history /\ done = Done
                                /\ g \in Groups /\ done \in Nat
  BY WindowSizes
<1>2. done + 1 = iterations
  BY <1>1, WindowSizes DEF Belong, Done
<1>3. Open(g) = Ops[g] /\ Begun(g) = Of(h, done + 1)
  BY <1>1, <1>2, AllEnded DEF Open
<1>4. Trail(s, len, g, h, done, Ops[g], Of(h, done + 1))
  BY <1>1, <1>3 DEF TrailOf
<1>5. Trail(s, len, g, h, done + 1, 0, {})
  BY <1>1, <1>4, TrailClosed
<1> QED  BY <1>1, <1>2, <1>5

LEMMA TrailsNext ==
    ASSUME TelemetryInv, Belong, Belong', Trails, BenchmarkNext
    PROVE  Trails'
<1>1. /\ ~halted /\ bench.group \in Groups /\ Len(scopes) = bench.base /\ bench.ops = Ops[bench.group]
      /\ iterations' = iterations + 1
      /\ bench' = [bench EXCEPT !.ops = 0]
      /\ UNCHANGED <<log, pending, history, spoilt, cut, halted>>
  BY WindowSizes DEF BenchmarkNext, IterationDone
<1>2. bench'.group = bench.group /\ bench'.ops = 0
  <2>1. bench \in [group : Labels, ops : 0..MaxOps, base : 0..MaxOps]
    BY DEF TelemetryInv, TypeOK
  <2> QED  BY <1>1, <2>1
<1>3. /\ iterations \in Nat /\ Done \in Nat /\ Done <= iterations
      /\ \A n \in 1 .. Len(history) : history[n].iteration \in Nat /\ history[n].iteration <= iterations
  BY WindowSizes DEF Belong
<1>4. Done' = iterations
  BY <1>1, <1>2, <1>3 DEF Done
<1>5. \A g \in Groups : Open(g)' = 0 /\ Begun(g)' = {}
  <2>1. \A n \in 1 .. Len(history) : history[n].iteration # iterations'
    BY <1>1, <1>3
  <2> QED  BY <1>1, <1>2, <2>1 DEF Open, Begun
<1>6. /\ Trace' = Trace /\ Long' = Long /\ \A g : Alike(Trace, Long, Trace', Long', g)
  BY <1>1, TraceSame
<1>7. ASSUME cut' = {}, ~halted', NEW g \in Groups \ spoilt'
      PROVE  TrailOf(g)'
  <2>1. TrailOf(g)
    BY <1>1, <1>7 DEF Trails
  <2>2. CASE g = bench.group
    <3>1. Trail(Trace, Long, g, history, iterations, 0, {})
      BY <1>1, <2>1, <2>2, TrailIsClosed
    <3> QED  BY <1>1, <1>4, <1>5, <1>6, <3>1 DEF TrailOf
  <2>3. CASE g # bench.group
    <3>1. Open(g) = 0 /\ Begun(g) = {}
      BY <2>3 DEF Open, Begun
    <3>2. /\ Done' \in Nat /\ Done <= Done' /\ Open(g)' = Open(g) /\ Begun(g)' = Begun(g)
          /\ \A n \in 1 .. Done : Of(history', n) = Of(history, n)
      BY <1>1, <1>3, <1>4, <1>5, <3>1
    <3>3. Alike(Trace, Long, Trace', Long', g)
      BY <1>6
    <3> QED  BY <2>1, <3>2, <3>3, TrailAside
  <2> QED  BY <2>2, <2>3
<1> QED  BY <1>7 DEF Trails

LEMMA TrailsEnd ==
    ASSUME TelemetryInv, Belong, Belong', Trails, BenchmarkEnd \/ BenchmarkThrows
    PROVE  Trails'
<1>1. /\ ~halted /\ bench.group \in Groups /\ Len(scopes) = bench.base /\ bench' = NoBench
      /\ UNCHANGED <<log, pending, history, cut, halted, iterations>> /\ spoilt \subseteq spoilt'
      /\ bench.ops = Ops[bench.group] \/ bench.group \in spoilt'
  BY WindowSizes DEF BenchmarkEnd, BenchmarkThrows, IterationDone
<1>2. iterations \in Nat /\ Done \in Nat /\ Done <= iterations /\ NoGroup \notin Groups
  BY WindowSizes
<1>3. Done' = iterations /\ \A g \in Groups : Open(g)' = 0 /\ Begun(g)' = {}
  BY <1>1, <1>2 DEF Done, Open, Begun, NoBench
<1>4. /\ Trace' = Trace /\ Long' = Long /\ \A g : Alike(Trace, Long, Trace', Long', g)
  BY <1>1, TraceSame
<1>5. ASSUME cut' = {}, ~halted', NEW g \in Groups \ spoilt'
      PROVE  TrailOf(g)'
  <2>1. TrailOf(g)
    BY <1>1, <1>5 DEF Trails
  <2>2. CASE g = bench.group
    <3>1. Trail(Trace, Long, g, history, iterations, 0, {})
      BY <1>1, <1>5, <2>1, <2>2, TrailIsClosed
    <3> QED  BY <1>1, <1>3, <1>4, <3>1 DEF TrailOf
  <2>3. CASE g # bench.group
    <3>1. Open(g) = 0 /\ Begun(g) = {}
      BY <2>3 DEF Open, Begun
    <3>2. /\ Done' \in Nat /\ Done <= Done' /\ Open(g)' = Open(g) /\ Begun(g)' = Begun(g)
          /\ \A n \in 1 .. Done : Of(history', n) = Of(history, n)
      BY <1>1, <1>2, <1>3, <3>1
    <3>3. Alike(Trace, Long, Trace', Long', g)
      BY <1>4
    <3> QED  BY <2>1, <3>2, <3>3, TrailAside
  <2> QED  BY <2>2, <2>3
<1> QED  BY <1>5 DEF Trails

LEMMA TrailsSession ==
    ASSUME TelemetryInv, Belong, Belong', Trails, StartSession
    PROVE  Trails'
<1>1. /\ ~halted /\ spoilt \subseteq spoilt' /\ log'.records = log.records
      /\ UNCHANGED <<pending, history, cut, halted, iterations, bench>>
  <2>1. log \in [records : Seq(Record), next_sequence : 0..MaxOps, streams : Seq(Hints)]
    BY DEF TelemetryInv, TypeOK
  <2> QED  BY <2>1 DEF StartSession
<1>2. Done \in Nat /\ Done' = Done /\ \A g : Open(g)' = Open(g) /\ Begun(g)' = Begun(g)
  BY <1>1, WindowSizes DEF Done, Open, Begun
<1>3. ASSUME cut' = {}, ~halted', NEW g \in Groups \ spoilt'
      PROVE  TrailOf(g)'
  <2>1. TrailOf(g) /\ Alike(Trace, Long, Trace', Long', g)
    BY <1>1, <1>3, TraceSame DEF Trails
  <2>2. /\ Done' \in Nat /\ Done <= Done' /\ Open(g)' = Open(g) /\ Begun(g)' = Begun(g)
        /\ \A n \in 1 .. Done : Of(history', n) = Of(history, n)
    BY <1>1, <1>2
  <2> QED  BY <2>1, <2>2, TrailAside
<1> QED  BY <1>3 DEF Trails

LEMMA TraceAppended ==
    ASSUME TelemetryInv, TelemetryInv', log' = log, Len(pending') = Len(pending) + 1,
           \A i \in 1 .. Len(pending) : pending'[i] = pending[i]
    PROVE  /\ Long' = Long + 1 /\ Long \in Nat
           /\ DOMAIN Trace = 1 .. Long /\ DOMAIN Trace' = 1 .. Long + 1
           /\ Starts(Trace, Trace', Long)
           /\ Trace'[Long + 1].op = pending'[Len(pending) + 1].op
           /\ Trace'[Long + 1].group = pending'[Len(pending) + 1].group
<1>1. Traced /\ Traced'
  <2>1. (TelemetryInv => Traced)'
    BY TraceIs, PTL
  <2> QED  BY <2>1, TraceIs
<1>2. PICK s, t, len, more : /\ s = Trace /\ t = Trace' /\ len = Len(log.records) /\ more = Len(pending)
                             /\ len \in Nat /\ more \in Nat
  BY <1>1 DEF Traced
<1>3. /\ Long = len + more /\ Long' = len + (more + 1) /\ (len + more) + 1 = len + (more + 1)
      /\ DOMAIN s = 1 .. len + more /\ DOMAIN t = 1 .. len + (more + 1)
  <2>1. /\ Long = Len(log.records) + Len(pending) /\ Long' = Len(log.records') + Len(pending')
        /\ DOMAIN s = 1 .. Long /\ DOMAIN t = 1 .. Long'
    BY <1>1, <1>2 DEF Traced
  <2>2. Long = len + more /\ Long' = len + (more + 1)
    BY <1>2, <2>1
  <2>3. (len + more) + 1 = len + (more + 1)
    <3>1. len \in Nat /\ more \in Nat
      BY <1>2
    <3> QED  BY <3>1
  <2> QED  BY <2>1, <2>2, <2>3
<1>4. /\ \A i \in 1 .. len : s[i].op = t[i].op /\ s[i].group = t[i].group
      /\ \A i \in 1 .. more : /\ s[len + i].op = pending[i].op /\ s[len + i].group = pending[i].group
      /\ \A i \in 1 .. more + 1 : /\ t[len + i].op = pending'[i].op /\ t[len + i].group = pending'[i].group
  BY <1>1, <1>2 DEF Traced
<1>5. Starts(s, t, len + more)
  <2> SUFFICES ASSUME NEW i \in 1 .. len + more
               PROVE  s[i].op = t[i].op /\ s[i].group = t[i].group
    BY DEF Starts
  <2>1. CASE i \in 1 .. len
    BY <1>4, <2>1
  <2>2. CASE i \notin 1 .. len
    <3>1. PICK j \in 1 .. more : len + j = i
      <4>1. i - len \in 1 .. more /\ len + (i - len) = i
        BY <1>2, <2>2
      <4> QED  BY <4>1
    <3>2. j \in 1 .. more + 1 /\ pending'[j] = pending[j]
      BY <1>2, <3>1
    <3> QED  BY <1>4, <3>1, <3>2
  <2> QED  BY <2>1, <2>2
<1>6. more + 1 \in 1 .. more + 1
  BY <1>2
<1>7. t[len + (more + 1)].op = pending'[more + 1].op /\ t[len + (more + 1)].group = pending'[more + 1].group
  BY <1>4, <1>6
<1>8. /\ Long + 1 = len + (more + 1) /\ Long \in Nat /\ Starts(s, t, Long)
      /\ DOMAIN s = 1 .. Long /\ DOMAIN t = 1 .. Long + 1 /\ Long' = Long + 1
  <2>1. Long + 1 = len + (more + 1) /\ Long = len + more /\ Long' = len + (more + 1)
    BY <1>3
  <2>2. Long \in Nat
    BY <1>2, <2>1
  <2>3. DOMAIN s = 1 .. Long /\ DOMAIN t = 1 .. Long + 1
    BY <1>3, <2>1
  <2>4. Starts(s, t, Long)
    BY <1>5, <2>1
  <2> QED  BY <2>1, <2>2, <2>3, <2>4
<1> QED  BY <1>2, <1>7, <1>8

LEMMA TraceInserted ==
    ASSUME TelemetryInv, TelemetryInv', pending' = pending, Len(log'.records) = Len(log.records) + 1,
           \A i \in 1 .. Len(log.records) : log'.records[i] = log.records[i]
    PROVE  /\ Long' = Long + 1 /\ Long \in Nat /\ Len(log.records) \in 0 .. Long
           /\ Inserted(Trace, Long, Trace', Len(log.records))
           /\ Trace'[Len(log.records) + 1].group = log'.records[Len(log.records) + 1].group
<1>1. Traced /\ Traced'
  <2>1. (TelemetryInv => Traced)'
    BY TraceIs, PTL
  <2> QED  BY <2>1, TraceIs
<1>2. PICK s, t, len, more : /\ s = Trace /\ t = Trace' /\ len = Len(log.records) /\ more = Len(pending)
                             /\ len \in Nat /\ more \in Nat
  BY <1>1 DEF Traced
<1>3. /\ Long = len + more /\ Long' = (len + 1) + more /\ (len + 1) + more = (len + more) + 1
      /\ DOMAIN s = 1 .. len + more /\ DOMAIN t = 1 .. (len + 1) + more
  BY <1>1, <1>2 DEF Traced
<1>4. /\ \A i \in 1 .. len : s[i].op = log.records[i].op /\ s[i].group = log.records[i].group
      /\ \A i \in 1 .. len + 1 : t[i].op = log'.records[i].op /\ t[i].group = log'.records[i].group
      /\ \A i \in 1 .. more : /\ s[len + i].op = pending[i].op /\ s[len + i].group = pending[i].group
                              /\ t[(len + 1) + i].op = pending[i].op /\ t[(len + 1) + i].group = pending[i].group
  BY <1>1, <1>2 DEF Traced
<1>5. Starts(s, t, len)
  <2>1. \A i \in 1 .. len : i \in 1 .. len + 1 /\ log'.records[i] = log.records[i]
    BY <1>2
  <2> QED  BY <1>4, <2>1 DEF Starts
<1>6. ASSUME NEW i \in len + 1 .. len + more
      PROVE  s[i].op = t[i + 1].op /\ s[i].group = t[i + 1].group
  <2>1. PICK j \in 1 .. more : len + j = i
    <3>1. i - len \in 1 .. more /\ len + (i - len) = i
      BY <1>2
    <3> QED  BY <3>1
  <2>2. (len + 1) + j = i + 1
    <3>1. len \in Nat /\ j \in Nat
      BY <1>2
    <3>2. (len + 1) + j = (len + j) + 1
      BY <3>1
    <3> QED  BY <2>1, <3>2
  <2> QED  BY <1>4, <2>1, <2>2
<1>7. Inserted(s, len + more, t, len)
  BY <1>3, <1>5, <1>6 DEF Inserted
<1>8. len + 1 \in 1 .. len + 1 /\ len \in 0 .. len + more
  BY <1>2
<1>9. t[len + 1].group = log'.records[len + 1].group
  BY <1>4, <1>8
<1> QED  BY <1>2, <1>3, <1>7, <1>8, <1>9

\* The first n of the batch are recorded where they were on the trail.
LEMMA TraceRecorded ==
    ASSUME TelemetryInv, ~halted, NEW n \in 0 .. Len(pending), NEW l, l = RecordedFirst(n)
    PROVE  /\ Len(l.records) = Len(log.records) + n
           /\ Starts(l.records, Trace, Len(log.records) + n)
<1>1. Traced
  BY TraceIs
<1>2. Batched(l, n)
  BY RecordedBatch
<1>3. PICK s, len, more : /\ s = Trace /\ len = Len(log.records) /\ more = Len(pending)
                          /\ len \in Nat /\ more \in Nat
  BY <1>1 DEF Traced
<1>4. /\ Len(l.records) = len + n
      /\ \A i \in 1 .. len : l.records[i] = log.records[i]
      /\ \A j \in 1 .. n : /\ l.records[len + j].op = pending[j].op
                           /\ l.records[len + j].group = pending[j].group
      /\ \A i \in 1 .. len + n : i \in 1 .. len \/ \E j \in 1 .. n : i = len + j
  BY <1>2, <1>3 DEF Batched
<1>5. /\ \A i \in 1 .. len : s[i].op = log.records[i].op /\ s[i].group = log.records[i].group
      /\ \A i \in 1 .. more : s[len + i].op = pending[i].op /\ s[len + i].group = pending[i].group
  BY <1>1, <1>3 DEF Traced
<1>6. ASSUME NEW i \in 1 .. len + n
      PROVE  l.records[i].op = s[i].op /\ l.records[i].group = s[i].group
  <2>1. CASE i \in 1 .. len
    BY <1>4, <1>5, <2>1
  <2>2. CASE \E j \in 1 .. n : i = len + j
    <3>1. PICK j \in 1 .. n : i = len + j
      BY <2>2
    <3>2. j \in 1 .. more
      BY <1>3
    <3> QED  BY <1>4, <1>5, <3>1, <3>2
  <2> QED  BY <1>4, <2>1, <2>2
<1> QED  BY <1>3, <1>4, <1>6 DEF Starts

\* Iterations that are whole get no new operation.
LEMMA NoneJoins ==
    ASSUME TelemetryInv, Belong, MayBegin, NEW e \in BOOLEAN, history' = Began(e)
    PROVE  \A n \in 1 .. Done : Of(history', n) = Of(history, n)
<1>1. PICK len : len = Len(history) /\ len \in Nat
  BY WindowSizes
<1>2. /\ Len(history') = len + 1 /\ \A n \in 1 .. len : history'[n] = history[n]
      /\ history'[len + 1].iteration = IF bench.group \in Groups THEN iterations ELSE 0
      /\ 1 .. len + 1 = (1 .. len) \cup {len + 1}
  BY <1>1, BegunIn
<1>3. \A n \in 1 .. Done : history'[len + 1].iteration # n
  <2>1. iterations \in Nat /\ Done = IF bench.group \in Groups THEN iterations - 1 ELSE iterations
    BY WindowSizes DEF Done
  <2> QED  BY <1>2, <2>1
<1> QED  BY <1>1, <1>2, <1>3 DEF Of

LEMMA TrailsScopeBegin ==
    ASSUME TelemetryInv, Belong, Belong', Trails, NEW h \in Hints, ScopeBegin(h)
    PROVE  Trails'
<1>1. /\ MayBegin /\ ~halted /\ history' = Began(FALSE)
      /\ UNCHANGED <<log, pending, bench, cut, halted, iterations, spoilt>>
  BY DEF ScopeBegin, MayBegin
<1>2. Done \in Nat /\ Done' = Done /\ \A g : Open(g)' = Open(g)
  BY <1>1, WindowSizes DEF Done, Open
<1>3. \A n \in 1 .. Done : Of(history', n) = Of(history, n)
  BY <1>1, NoneJoins
<1>4. \A g : Begun(g)' = Begun(g)
  <2>1. PICK len : len = Len(history) /\ len \in Nat
    BY WindowSizes
  <2>2. ~history'[len + 1].ended
    <3>1. history'[Len(history) + 1].ended = FALSE
      BY <1>1, BegunIn
    <3> QED  BY <2>1, <3>1
  <2>3. /\ Len(history') = len + 1 /\ \A n \in 1 .. len : history'[n] = history[n]
        /\ 1 .. len + 1 = (1 .. len) \cup {len + 1}
    BY <1>1, <2>1, BegunIn
  <2> QED  BY <1>1, <2>1, <2>2, <2>3 DEF Begun
<1>5. ASSUME cut' = {}, ~halted', NEW g \in Groups \ spoilt'
      PROVE  TrailOf(g)'
  <2>1. TrailOf(g) /\ Alike(Trace, Long, Trace', Long', g)
    BY <1>1, <1>5, TraceSame DEF Trails
  <2>2. /\ Done' \in Nat /\ Done <= Done' /\ Open(g)' = Open(g) /\ Begun(g)' = Begun(g)
    BY <1>2, <1>4
  <2> QED  BY <1>3, <2>1, <2>2, TrailAside
<1> QED  BY <1>5 DEF Trails

LEMMA TrailsRecordNow ==
    ASSUME TelemetryInv, TelemetryInv', Belong, Belong', Trails, SyncInGroups = FALSE,
           NEW h \in Hints, RecordNow(h)
    PROVE  Trails'
<1>1. /\ MayBegin /\ ~halted /\ history' = Began(TRUE)
      /\ UNCHANGED <<pending, cut, halted, iterations, spoilt, current>>
  BY DEF RecordNow, MayBegin
<1>2. bench' = bench /\ bench.group \notin Groups
  BY BelongRecordNow
<1>3. Done \in Nat /\ Done' = Done
  BY <1>1, <1>2, WindowSizes DEF Done
<1>4. \A n \in 1 .. Done : Of(history', n) = Of(history, n)
  BY <1>1, NoneJoins
<1>5. PICK p : p = [op |-> New, start |-> New, group |-> current, hint |-> h]
  OBVIOUS
<1>6. p \in Pending /\ p.group = current
  <2>1. New \in Operations
    BY <1>1, HistoryGrows
  <2>2. current \in Labels
    BY WindowSizes DEF TypeOK
  <2> QED  BY <1>5, <2>1, <2>2 DEF Pending
<1>7. PICK m : m = Recorded(log, p) /\ log' = m
  BY <1>5 DEF RecordNow
<1>8. Extended(log, p, m)
  <2>1. log \in Log /\ Ids(log) /\ sessions \in 0 .. MaxSessions
    BY WindowSizes, Sizes DEF TelemetryInv, TypeOK
  <2> QED  BY <1>6, <1>7, <2>1, RecordedExtends
<1>9. /\ Len(log'.records) = Len(log.records) + 1
      /\ \A i \in 1 .. Len(log.records) : log'.records[i] = log.records[i]
      /\ log'.records[Len(log.records) + 1].group = current
  BY <1>6, <1>7, <1>8 DEF Extended
<1>10. /\ Long' = Long + 1 /\ Long \in Nat /\ Len(log.records) \in 0 .. Long
       /\ Inserted(Trace, Long, Trace', Len(log.records))
       /\ Trace'[Len(log.records) + 1].group = log'.records[Len(log.records) + 1].group
  BY <1>1, <1>9, TraceInserted
<1>11. ASSUME cut' = {}, ~halted', NEW g \in Groups \ spoilt'
       PROVE  TrailOf(g)'
  <2>1. TrailOf(g)
    BY <1>1, <1>11 DEF Trails
  <2>2. current # g
    BY <1>1, <1>2, WindowSizes DEF Belong
  <2>3. PICK s, t, len, q : s = Trace /\ t = Trace' /\ len = Long /\ q = Len(log.records)
    OBVIOUS
  <2>4. Alike(s, len, t, len + 1, g)
    <3>1. len \in Nat /\ q \in 0 .. len /\ Inserted(s, len, t, q) /\ t[q + 1].group # g
      BY <1>9, <1>10, <2>2, <2>3
    <3> QED  BY <3>1, SummedOther
  <2>5. Alike(Trace, Long, Trace', Long', g)
    BY <1>10, <2>3, <2>4
  <2>6. Open(g) = 0 /\ Open(g)' = 0 /\ Begun(g) = {} /\ Begun(g)' = {}
    BY <1>2 DEF Open, Begun
  <2>7. /\ Done' \in Nat /\ Done <= Done' /\ Open(g)' = Open(g) /\ Begun(g)' = Begun(g)
    BY <1>3, <2>6
  <2> QED  BY <1>4, <2>1, <2>5, <2>7, TrailAside
<1> QED  BY <1>11 DEF Trails

LEMMA TrailsScopeEnd ==
    ASSUME TelemetryInv, TelemetryInv', Belong, Belong', Trails, ScopeEnd
    PROVE  Trails'
<1>1. /\ Ending /\ ScopeLeft /\ ~halted /\ UNCHANGED <<log, cut, halted, iterations, spoilt, current>>
  BY DEF ScopeEnd, ScopeLeft, Ending
<1>2. PICK n : n = Innermost.op /\ Left(n)
  BY <1>1, ScopeIsLeft
<1>3. /\ n \in 1 .. Len(history) /\ Len(history') = Len(history) /\ history'[n].ended /\ ~history[n].ended
      /\ \A m \in 1 .. Len(history) : m # n => history'[m] = history[m]
      /\ \A m \in 1 .. Len(history) : history'[m].iteration = history[m].iteration
      /\ bench'.group = bench.group /\ bench'.base = bench.base
      /\ bench'.ops = IF bench.group \in Groups THEN bench.ops + 1 ELSE bench.ops
      /\ bench.group \in Groups => history[n].iteration = iterations
  BY <1>2 DEF Left
<1>4. PICK x : /\ x = [op |-> n, start |-> in_flight[Innermost.handle], group |-> current, hint |-> Innermost.hint]
               /\ pending' = Append(pending, x)
  BY <1>2 DEF ScopeEnd
<1>5. PICK more : /\ more = Len(pending) /\ more \in Nat /\ Len(pending') = more + 1
                  /\ \A i \in 1 .. more : pending'[i] = pending[i]
                  /\ pending'[more + 1].op = n /\ pending'[more + 1].group = current
  <2>1. pending \in Seq(Pending)
    BY DEF TelemetryInv, TypeOK
  <2>2. pending \in Seq(Pending \cup {x})
    <3>1. Len(pending) \in Nat /\ pending = [i \in 1 .. Len(pending) |-> pending[i]]
          /\ \A i \in 1 .. Len(pending) : pending[i] \in Pending
      BY <2>1, LenProperties
    <3> QED  BY <3>1, IsASeq
  <2>3. x \in Pending \cup {x} /\ x.op = n /\ x.group = current
    BY <1>4
  <2>4. PICK S : S = Pending \cup {x}
    OBVIOUS
  <2>5. pending \in Seq(S) /\ x \in S
    BY <2>2, <2>3, <2>4
  <2>6. /\ Len(pending) \in Nat /\ Len(pending') = Len(pending) + 1
        /\ \A i \in 1 .. Len(pending) : pending'[i] = pending[i]
        /\ pending'[Len(pending) + 1] = x
    BY <1>4, <2>5, SequenceFacts
  <2> QED  BY <2>3, <2>6
<1>6. /\ Long' = Long + 1 /\ Long \in Nat
      /\ DOMAIN Trace = 1 .. Long /\ DOMAIN Trace' = 1 .. Long + 1
      /\ Starts(Trace, Trace', Long)
      /\ Trace'[Long + 1].op = n /\ Trace'[Long + 1].group = current
  BY <1>1, <1>5, TraceAppended
<1>7. /\ Done \in Nat /\ Done' = Done /\ \A k \in 1 .. Done : Of(history', k) = Of(history, k)
  BY <1>1, <1>3, WindowSizes DEF Done, Of
<1>8. PICK s, t, len : s = Trace /\ t = Trace' /\ len = Long
  OBVIOUS
<1>9. /\ len \in Nat /\ DOMAIN s = 1 .. len /\ DOMAIN t = 1 .. len + 1 /\ Starts(s, t, len)
      /\ t[len + 1].op = n /\ t[len + 1].group = current
  BY <1>6, <1>8
<1>10. ASSUME cut' = {}, ~halted', NEW g \in Groups \ spoilt'
       PROVE  TrailOf(g)'
  <2>1. TrailOf(g)
    BY <1>1, <1>10 DEF Trails
  <2>2. CASE current = g
    <3>1. bench.group = g
      BY <1>1, <2>2, WindowSizes DEF Belong
    <3>2. PICK h, h2, done, open, tail : /\ h = history /\ h2 = history' /\ done = Done
                                         /\ open = Open(g) /\ tail = Begun(g)
      OBVIOUS
    <3>3. /\ done \in Nat /\ open \in Nat /\ Trail(s, len, g, h, done, open, tail)
          /\ \A k \in 1 .. done : Of(h2, k) = Of(h, k) /\ t[len + 1].group = g
      BY <1>7, <1>8, <1>9, <2>1, <2>2, <3>2, WindowSizes DEF TrailOf
    <3>4. Trail(t, len + 1, g, h2, done, open + 1, tail \cup {t[len + 1].op})
      <4>1. Lengthened(s, len, t, g)
        BY <1>9, <2>2 DEF Lengthened
      <4>2. Settled(h, h2, done)
        BY <3>3 DEF Settled
      <4>3. len \in Nat /\ g \in Groups
        BY <1>9
      <4> QED  BY <3>3, <4>1, <4>2, <4>3, TrailMore
    <3>5. Open(g)' = open + 1
      BY <1>3, <3>1, <3>2 DEF Open
    <3>6. Begun(g)' = tail \cup {n}
      <4>1. Begun(g)' = {m \in 1 .. Len(history) : history'[m].iteration = iterations /\ history'[m].ended}
        BY <1>1, <1>3, <3>1 DEF Begun
      <4>2. tail = {m \in 1 .. Len(history) : history[m].iteration = iterations /\ history[m].ended}
        BY <3>1, <3>2 DEF Begun
      <4>3. history'[n].iteration = iterations
        BY <1>3, <3>1
      <4> QED  BY <1>3, <4>1, <4>2, <4>3
    <3>7. Trail(Trace', Long', g, history', Done', Open(g)', Begun(g)')
      BY <1>6, <1>7, <1>8, <1>9, <3>2, <3>4, <3>5, <3>6
    <3> QED  BY <3>7 DEF TrailOf
  <2>3. CASE current # g
    <3>1. bench.group # g
      BY <1>1, <1>10, <2>3 DEF Belong
    <3>2. /\ Open(g) = 0 /\ Open(g)' = 0 /\ Begun(g) = {} /\ Begun(g)' = {}
      BY <1>3, <3>1 DEF Open, Begun
    <3>3. Inserted(s, len, t, len)
      <4>1. len + 1 .. len = {}
        BY <1>9
      <4> QED  BY <1>9, <4>1 DEF Inserted
    <3>4. Alike(s, len, t, len + 1, g)
      <4>1. len \in 0 .. len /\ t[len + 1].group # g
        BY <1>9, <2>3
      <4> QED  BY <1>9, <3>3, <4>1, SummedOther
    <3>5. Alike(Trace, Long, Trace', Long', g)
      BY <1>6, <1>8, <3>4
    <3>6. Done' \in Nat /\ Done <= Done' /\ Open(g)' = Open(g) /\ Begun(g)' = Begun(g)
      BY <1>7, <3>2
    <3> QED  BY <1>7, <2>1, <3>5, <3>6, TrailAside
  <2> QED  BY <2>2, <2>3
<1> QED  BY <1>10 DEF Trails

\* resolve_pending moves the batch to where it was on the trail.
LEMMA TrailsResolve ==
    ASSUME TelemetryInv, TelemetryInv', Belong, Belong', Trails, ResolvePending
    PROVE  Trails'
<1>1. /\ ~halted /\ log' = RecordedFirst(Len(pending)) /\ pending' = <<>> /\ cut \subseteq cut'
      /\ UNCHANGED <<bench, history, iterations, spoilt, halted>>
  BY DEF ResolvePending, Resolved
<1>2. Done \in Nat /\ Done' = Done /\ \A g : Open(g)' = Open(g) /\ Begun(g)' = Begun(g)
  BY <1>1, WindowSizes DEF Done, Open, Begun
<1>3. Traced
  BY TraceIs
<1>4. PICK l, len, more : /\ l = RecordedFirst(Len(pending)) /\ len = Len(log.records) /\ more = Len(pending)
                          /\ len \in Nat /\ more \in Nat
  BY <1>3 DEF Traced
<1>5. /\ Len(l.records) = len + more /\ Starts(l.records, Trace, len + more)
  <2>1. more \in 0 .. Len(pending) /\ l = RecordedFirst(more)
    BY <1>4
  <2> QED  BY <1>1, <1>4, <2>1, TraceRecorded
<1>6. Long = len + more /\ Long' = len + more
  BY <1>1, <1>4, <1>5 DEF Long
<1>7. ASSUME NEW i \in 1 .. len + more
      PROVE  Trace'[i] = Trace[i]
  <2>1. l.records[i].op = Trace[i].op /\ l.records[i].group = Trace[i].group
    BY <1>5 DEF Starts
  <2>2. Trace'[i] = Item(l.records[i])
    <3>1. Trace' = [j \in 1 .. Long' |-> IF j <= Len(log'.records) THEN Item(log'.records[j])
                                        ELSE Item(pending'[j - Len(log'.records)])]
      BY DEF Trace, Item
    <3>2. i \in 1 .. Long' /\ i <= Len(log'.records) /\ log' = l
      BY <1>1, <1>4, <1>5, <1>6
    <3> QED  BY <3>1, <3>2
  <2>3. PICK r : Trace[i] = Item(r)
    <3>1. i \in 1 .. Long
      BY <1>6
    <3> QED  BY <3>1 DEF Trace
  <2> QED  BY <2>1, <2>2, <2>3 DEF Item
<1>8. Trace' = Trace
  <2>1. /\ Trace = [i \in 1 .. len + more |-> Trace[i]]
        /\ Trace' = [i \in 1 .. len + more |-> Trace'[i]]
    BY <1>6 DEF Trace
  <2> QED  BY <1>7, <2>1
<1>9. ASSUME cut' = {}, ~halted', NEW g \in Groups \ spoilt'
      PROVE  TrailOf(g)'
  <2>1. TrailOf(g)
    BY <1>1, <1>9 DEF Trails
  <2>2. Alike(Trace, Long, Trace', Long', g)
    BY <1>6, <1>8 DEF Alike
  <2>3. /\ Done' \in Nat /\ Done <= Done' /\ Open(g)' = Open(g) /\ Begun(g)' = Begun(g)
        /\ \A n \in 1 .. Done : Of(history', n) = Of(history, n)
    BY <1>1, <1>2
  <2> QED  BY <2>1, <2>2, <2>3, TrailAside
<1> QED  BY <1>9 DEF Trails

\* clear leaves nothing of the groups that it does not spoil.
LEMMA TrailsClear ==
    ASSUME TelemetryInv, TelemetryInv', Belong, Belong', Trails, Clear
    PROVE  Trails'
<1>1. /\ ~halted /\ log' = [log EXCEPT !.records = <<>>]
      /\ spoilt' = (spoilt \cup {bench.group} \cup {pending[i].group : i \in DOMAIN pending}) \ {NoGroup}
      /\ UNCHANGED <<pending, bench, history, iterations, halted, cut>>
  BY DEF Clear
<1>2. Traced'
  <2>1. (TelemetryInv => Traced)'
    BY TraceIs, PTL
  <2> QED  BY <2>1
<1>3. log'.records = <<>> /\ pending \in Seq(Pending)
  <2>1. /\ log \in [records : Seq(Record), next_sequence : 0..MaxOps, streams : Seq(Hints)]
        /\ pending \in Seq(Pending)
    BY DEF TelemetryInv, TypeOK
  <2> QED  BY <1>1, <2>1
<1>4. PICK t, len : /\ t = Trace' /\ len = Len(pending) /\ len \in Nat /\ Long' = len /\ DOMAIN pending = 1 .. len
  <2>1. Len(pending) \in Nat /\ DOMAIN pending = 1 .. Len(pending)
    BY <1>3, LenProperties
  <2>2. Long' = Len(pending)
    BY <1>1, <1>3, <2>1 DEF Long
  <2> QED  BY <2>1, <2>2
<1>5. \A i \in 1 .. len : t[i].group = pending[i].group
  <2>1. \A i \in 1 .. len : t[0 + i].group = pending[i].group
    BY <1>1, <1>3, <1>4, <1>2 DEF Traced
  <2>2. \A i \in 1 .. len : 0 + i = i
    OBVIOUS
  <2> QED  BY <2>1, <2>2
<1>6. Done' \in Nat
  <2>1. Done' = Done
    BY <1>1 DEF Done
  <2> QED  BY <2>1, WindowSizes
<1>7. ASSUME cut' = {}, ~halted', NEW g \in Groups \ spoilt'
      PROVE  TrailOf(g)'
  <2>1. bench.group # g /\ \A i \in 1 .. len : t[i].group # g
    BY <1>1, <1>4, <1>5, <1>7, WindowSizes
  <2>2. Open(g)' = 0 /\ Begun(g)' = {}
    BY <1>1, <2>1 DEF Open, Begun
  <2>3. PICK h, done : h = history' /\ done = Done'
    OBVIOUS
  <2>4. CountUpTo(t, g, len) = 0
    <3>1. {i \in 1 .. len : t[i].group = g} = {}
      BY <2>1
    <3> QED  BY <3>1, FS_EmptySet DEF CountUpTo
  <2>5. Cut(t, len, g, h, done, 0, {}, 0)
    <3>1. PICK o : o = Ops[g] /\ o \in Nat
      BY TelemetryAssumption
    <3>2. 0 * o = 0 /\ 0 + 0 = 0 /\ 1 .. 0 = {} /\ Summed(t, g, 0, 0) = {}
      BY <3>1, SummedNone
    <3> QED  BY <2>4, <3>1, <3>2 DEF Cut
  <2>6. Trail(t, len, g, h, done, 0, {})
    BY <2>5 DEF Trail
  <2> QED  BY <1>4, <2>2, <2>3, <2>6 DEF TrailOf
<1> QED  BY <1>7 DEF Trails

-----------------------------------------------------------------------------
(* Whole windows *)

LEMMA WindowsInit == Init => WindowsInv
<1> SUFFICES ASSUME Init
             PROVE  WindowsInv
  OBVIOUS
<1>1. TelemetryInv
  BY InvInit
<1>2. /\ log.records = <<>> /\ pending = <<>> /\ scopes = <<>> /\ history = <<>> /\ iterations = 0
      /\ bench.group = NoGroup /\ bench.ops = 0 /\ bench.base = 0 /\ current = NoGroup /\ ~halted
      /\ group_ops = {}
  BY DEF Init, NoBench
<1>3. Len(scopes) = 0 /\ Len(history) = 0 /\ Len(log.records) = 0 /\ Len(pending) = 0 /\ 1 .. 0 = {}
  BY <1>2
<1>4. NoGroup \notin Groups
  BY TelemetryAssumption
<1>5. Belong
  BY <1>2, <1>3, <1>4 DEF Belong
<1>6. ASSUME NEW g \in Groups
      PROVE  TrailOf(g)
  <2>1. Long = 0 /\ Open(g) = 0 /\ Begun(g) = {}
    BY <1>2, <1>3, <1>4 DEF Long, Open, Begun
  <2>2. PICK s, h, done : s = Trace /\ h = history /\ done = Done
    OBVIOUS
  <2>3. Cut(s, 0, g, h, done, 0, {}, 0)
    <3>1. PICK o : o = Ops[g] /\ o \in Nat
      BY TelemetryAssumption
    <3>2. 0 * o = 0 /\ 0 + 0 = 0 /\ 1 .. 0 = {} /\ Summed(s, g, 0, 0) = {} /\ CountUpTo(s, g, 0) = 0
      BY <3>1, SummedNone, CountNone
    <3> QED  BY <3>1, <3>2 DEF Cut
  <2>4. Trail(s, 0, g, h, done, 0, {})
    BY <2>3 DEF Trail
  <2> QED  BY <2>1, <2>2, <2>4 DEF TrailOf
<1>7. Trails
  BY <1>6 DEF Trails
<1>8. WindowsAreIterations
  BY <1>2 DEF WindowsAreIterations
<1> QED  BY <1>1, <1>5, <1>7, <1>8 DEF WindowsInv

\* When resolve_pending fails, what it has recorded is still cut into whole
\* iterations.
LEMMA WindowsResolveFails ==
    ASSUME WindowsInv, NEW n \in Operations, ResolveFails(n)
    PROVE  WindowsInv'
<1>1. /\ ~halted /\ n \in 1 .. Len(pending) /\ log' = RecordedFirst(n - 1) /\ halted' = TRUE
      /\ UNCHANGED <<current, group_ops, scopes, bench, history, iterations, spoilt, cut>>
  BY DEF ResolveFails, Resolved
<1>2. TelemetryInv /\ Belong /\ Trails
  BY DEF WindowsInv
<1>3. TelemetryInv'
  BY <1>2, InvResolveFails
<1>4. Belong' /\ Trails'
  BY <1>1, <1>2, BelongSame DEF Trails
<1>5. PICK t, len : t = log'.records /\ len = Len(log.records) + (n - 1)
  OBVIOUS
<1>6. len \in Nat /\ len <= Long /\ Len(t) = len /\ DOMAIN t = 1 .. len /\ Starts(t, Trace, len)
  <2>1. Len(log.records) \in Nat /\ Len(pending) \in Nat /\ Long = Len(log.records) + Len(pending)
    BY <1>2, TraceIs DEF Traced
  <2>2. PICK m : m = n - 1 /\ m \in 0 .. Len(pending) /\ m <= Len(pending) /\ m \in Nat
    BY <1>1, <2>1
  <2>3. Len(t) = len /\ Starts(t, Trace, len)
    BY <1>1, <1>2, <1>5, <2>2, TraceRecorded
  <2>4. t \in Seq(Record)
    BY <1>3, <1>5 DEF TelemetryInv, TypeOK
  <2>5. DOMAIN t = 1 .. Len(t)
    BY <2>4, LenProperties
  <2> QED  BY <1>5, <2>1, <2>2, <2>3, <2>5
<1>7. WindowsAreIterations'
  <2> SUFFICES ASSUME cut' = {}, NEW g \in group_ops' \ spoilt', NEW k \in 1 .. Windows(t, g)
               PROVE  \E i \in 1 .. iterations' : Summed(t, g, (k - 1) * Ops[g], k * Ops[g]) = Iteration(i)'
    BY <1>5 DEF WindowsAreIterations
  <2>1. cut = {} /\ g \in Groups \ spoilt /\ k \in 1 .. CountUpTo(t, g, len) \div Ops[g]
    BY <1>1, <1>2, <1>6, WindowSizes DEF Windows
  <2>2. \E i \in 1 .. iterations : Summed(t, g, (k - 1) * Ops[g], k * Ops[g]) = Of(history, i)
    BY <1>1, <1>2, <1>6, <2>1, CutOff
  <2>3. DOMAIN history = 1 .. Len(history)
    BY <1>2, WindowSizes, LenProperties DEF TypeOK
  <2> QED  BY <1>1, <2>2, <2>3 DEF Iteration, Of
<1> QED  BY <1>3, <1>4, <1>7 DEF WindowsInv

\* Steps after which resolve_pending has not failed.
LEMMA WindowsGo ==
    ASSUME TelemetryInv', Belong', Trails', ~halted'
    PROVE  WindowsInv'
<1>1. (TelemetryInv /\ Belong /\ Trails /\ ~halted => WindowsAreIterations)'
  BY WindowsFollow, PTL
<1> QED  BY <1>1 DEF WindowsInv

LEMMA WindowsStay ==
    ASSUME WindowsInv, TelemetryInv', halted' = TRUE \/ UNCHANGED <<halted, pending>>,
           UNCHANGED <<log, scopes, bench, history, iterations, current, spoilt, cut, group_ops>>
    PROVE  WindowsInv'
<1>1. Belong'
  BY BelongSame DEF WindowsInv
<1>2. Trails'
  <2>1. CASE halted' = TRUE
    BY <2>1 DEF Trails
  <2>2. CASE UNCHANGED <<halted, pending>>
    <3>1. Trace' = Trace /\ Long' = Long
      BY <2>2, TraceSame
    <3>2. \A g : TrailOf(g)' = TrailOf(g)
      BY <3>1 DEF TrailOf, Done, Open, Begun
    <3> QED  BY <2>2, <3>2 DEF Trails, WindowsInv
  <2> QED  BY <2>1, <2>2
<1>3. WindowsAreIterations'
  BY DEF WindowsInv, WindowsAreIterations, Iteration
<1> QED  BY <1>1, <1>2, <1>3 DEF WindowsInv

LEMMA WindowsNext ==
    ASSUME WindowsInv, [Next]_vars, SyncInGroups = FALSE
    PROVE  WindowsInv'
<1>1. TelemetryInv /\ Belong /\ Trails /\ TelemetryInv'
  BY InvNext DEF WindowsInv
<1>2. ASSUME NEW h \in Hints, RecordNow(h)
      PROVE  WindowsInv'
  <2>1. Belong' /\ ~halted'
    BY <1>1, <1>2, BelongRecordNow DEF RecordNow, MayBegin
  <2> QED  BY <1>1, <1>2, <2>1, TrailsRecordNow, WindowsGo
<1>3. ASSUME NEW h \in Hints, ScopeBegin(h)
      PROVE  WindowsInv'
  <2>1. Belong' /\ ~halted'
    BY <1>1, <1>3, BelongScopeBegin DEF ScopeBegin, MayBegin
  <2> QED  BY <1>1, <1>3, <2>1, TrailsScopeBegin, WindowsGo
<1>4. CASE ScopeEnd
  <2>1. Belong' /\ ~halted'
    <3>1. Ending /\ ScopeLeft /\ spoilt \subseteq spoilt' /\ ~halted'
      BY <1>4 DEF ScopeEnd, ScopeLeft, Ending
    <3> QED  BY <1>1, <3>1, BelongLeft
  <2> QED  BY <1>1, <1>4, <2>1, TrailsScopeEnd, WindowsGo
<1>5. CASE ScopeEndIgnored
  <2>1. Ending /\ ScopeLeft /\ spoilt \subseteq spoilt' /\ ~halted' /\ ~halted /\ cut' = cut
    BY <1>5 DEF ScopeEndIgnored, ScopeLeft, Ending
  <2>2. Belong'
    BY <1>1, <2>1, BelongLeft
  <2>3. cut # {}
    <3> SUFFICES ASSUME cut = {}
                 PROVE  FALSE
      OBVIOUS
    <3>1. Popped(Innermost.op)
      BY <1>1, <2>1, ScopePopped
    <3>2. PICK i : i = Len(scopes) /\ i \in 1 .. Len(scopes) /\ Innermost = scopes[i]
      BY <3>1 DEF Popped
    <3>3. scopes[i].handle <= Len(in_flight)
      BY <1>1, <2>1, <3>2 DEF TelemetryInv, Whole
    <3>4. /\ Innermost.handle > Len(in_flight) /\ Innermost.handle \in 1 .. MaxOps
          /\ Len(in_flight) \in Nat /\ MaxOps \in Nat
      BY <1>1, <1>5, <3>1, Sizes DEF ScopeEndIgnored, Popped, TelemetryInv
    <3> QED  BY <3>2, <3>3, <3>4
  <2>4. Trails'
    BY <2>1, <2>3 DEF Trails
  <2> QED  BY <1>1, <2>1, <2>2, <2>4, WindowsGo
<1>6. CASE ScopeEndFails
  BY <1>1, <1>6, WindowsStay DEF ScopeEndFails
<1>7. CASE ResolvePending
  <2>1. ~halted' /\ UNCHANGED <<scopes, bench, history, iterations, current, spoilt>>
    BY <1>7 DEF ResolvePending, Resolved
  <2>2. Belong'
    BY <1>1, <2>1, BelongSame
  <2> QED  BY <1>1, <1>7, <2>1, <2>2, TrailsResolve, WindowsGo
<1>8. ASSUME NEW n \in Operations, ResolveFails(n)
      PROVE  WindowsInv'
  BY <1>8, WindowsResolveFails
<1>9. ASSUME NEW g \in Groups, BenchmarkBegin(g)
      PROVE  WindowsInv'
  <2>1. Belong' /\ ~halted'
    BY <1>1, <1>9, BelongBenchmark DEF BenchmarkBegin
  <2> QED  BY <1>1, <1>9, <2>1, TrailsBenchmark, WindowsGo
<1>10. CASE BenchmarkNext
  <2>1. Belong' /\ ~halted'
    BY <1>1, <1>10, BelongNext DEF BenchmarkNext, IterationDone
  <2> QED  BY <1>1, <1>10, <2>1, TrailsNext, WindowsGo
<1>11. CASE BenchmarkEnd \/ BenchmarkThrows
  <2>1. Belong' /\ ~halted'
    BY <1>1, <1>11, BelongEnd DEF BenchmarkEnd, BenchmarkThrows, IterationDone
  <2> QED  BY <1>1, <1>11, <2>1, TrailsEnd, WindowsGo
<1>12. CASE StartSession
  <2>1. Belong' /\ ~halted'
    BY <1>1, <1>12, BelongSession DEF StartSession
  <2> QED  BY <1>1, <1>12, <2>1, TrailsSession, WindowsGo
<1>13. CASE Clear
  <2>1. ~halted' /\ UNCHANGED <<scopes, bench, history, iterations, current>> /\ spoilt \subseteq spoilt'
    <3>1. NoGroup \notin spoilt
      BY <1>1, WindowSizes
    <3> QED  BY <1>13, <3>1 DEF Clear
  <2>2. Belong'
    BY <1>1, <2>1, BelongSame
  <2> QED  BY <1>1, <1>13, <2>1, <2>2, TrailsClear, WindowsGo
<1>14. CASE Finished \/ Halted \/ UNCHANGED vars
  BY <1>1, <1>14, WindowsStay DEF Finished, Halted, vars
<1> QED  BY <1>2, <1>3, <1>4, <1>5, <1>6, <1>7, <1>8, <1>9, <1>10, <1>11, <1>12, <1>13, <1>14 DEF Next

\* As long as iterations only use time(), and no scope is open during
\* resolve_pending, every window that print_summary sums is one whole
\* iteration of the benchmark: also when scopes nest, groups alternate, other
\* operations are recorded in between, resolve_pending stops half-way, or
\* iterations of other groups were lost.
THEOREM WindowsAreWhole ==
    ASSUME SyncInGroups = FALSE
    PROVE  Spec => []WindowsAreIterations
<1>1. WindowsInv => WindowsAreIterations
  BY DEF WindowsInv
<1>2. WindowsInv /\ [Next]_vars => WindowsInv'
  BY WindowsNext
<1> QED  BY <1>1, <1>2, WindowsInit, PTL DEF Spec
=============================================================================
