-------------------------- MODULE KernelCacheProofs --------------------------
(***************************************************************************)
(* Theorems about KernelCache, for every set of builds, every list of      *)
(* kernels and dtypes, and any number of edits and starts.                 *)
(***************************************************************************)
EXTENDS KernelCache, WellFoundedInduction, SequenceTheorems, TLAPS

Working == {"look", "prune", "nvcc", "writing", "unlinked"}
Compiling == Working \ {"look"}
InNvcc == {"nvcc", "writing", "unlinked"}

Dtypes == UNION {DtypeSet(k) : k \in KernelSet}
Build == [at : Places, alone : BOOLEAN, edited : SUBSET (KernelSet \cup {"header"}),
          stale : BOOLEAN, valid : SUBSET KernelSet, list : SUBSET KernelSet, left : Seq(Dtypes),
          head : Versions, cubins : SUBSET Names, key : Names \cup {None},
          image : Images \cup {None}, doomed : SUBSET Names, tainted : BOOLEAN]
Typed ==
    /\ build \in [Builds -> Build]
    /\ embedded = [k \in KernelSet |-> embedded[k]]
    /\ overlapped \in BOOLEAN /\ lost \in BOOLEAN

\* The loops of main: of the first source there is to do, each dtype is
\* either to do as well, once, or has its file.
Task(r) ==
    /\ r.list \subseteq r.valid
    /\ r.at \in Working =>
          /\ r.list # {}
          /\ r.left \in Seq(DtypeSet(First(r.list)))
          /\ \A i, j \in 1 .. Len(r.left) : r.left[i] = r.left[j] => i = j
          /\ \A f \in r.cubins : /\ f.kernel = First(r.list) /\ f.header = r.head
                                 /\ \A i \in 1 .. Len(r.left) : r.left[i] # f.dtype
          /\ \A d \in DtypeSet(First(r.list)) :
                \/ \E i \in 1 .. Len(r.left) : r.left[i] = d
                \/ \E f \in r.cubins : f.dtype = d
    /\ r.at \in Compiling =>
          /\ r.left # <<>>
          /\ r.key \in Names /\ r.key.kernel = First(r.list)
          /\ r.key.dtype = Head(r.left) /\ r.key.header = r.head
    /\ r.at \in InNvcc => r.image \in Images
    /\ r.doomed # {} => r.at \in {"prune", "orphans"}
    /\ r.at = "prune" =>
          \A g \in r.doomed : g.kernel = r.key.kernel /\ g.dtype = r.key.dtype /\ g # r.key
    /\ r.at = "orphans" => r.list = {}
Tasks == \A b \in Builds : Task(build[b])

\* What a build has read is what is there, unless there was an edit since;
\* what nvcc has read is what the key says, unless the edit came before.
Fresh(r) ==
    /\ r.at \in Working =>
          /\ "header" \notin r.edited => r.head = header
          /\ r.edited = {} => \A f \in r.cubins : f.text = source[f.kernel]
    /\ r.at \in Compiling => (r.edited = {} => r.key.text = source[r.key.kernel])
    /\ r.at = "prune" => (~r.stale => r.key.text = source[r.key.kernel] /\ r.key.header = header)
    /\ r.at \in InNvcc => (~r.stale => r.image = Meant(r.key))
AllFresh == \A b \in Builds : Fresh(build[b])

\* A build without company has none.
Solo ==
    /\ \A b, c \in Active : build[b].alone => b = c
    /\ ~overlapped => \A b \in Active : build[b].alone

\* It finds the files that it listed or hit.
Finds(r) == r.at # "off" /\ r.alone =>
    /\ r.doomed \subseteq Present
    /\ r.at \in Working => r.cubins \subseteq Present
    /\ r.at # "unlinked"
AllFind == \A b \in Builds : Finds(build[b])

\* There is one version while builds do not meet.
OneVersion == ~overlapped =>
    /\ \A f, g \in Present : f.kernel = g.kernel /\ f.dtype = g.dtype => f = g
    /\ \A b \in Builds : build[b].at \in {"prune", "nvcc", "writing"} =>
          OldVersions(build[b].key) \subseteq build[b].doomed

\* What it has embedded so far is what the sources say.
Done(r) == r.at # "off" /\ r.alone /\ r.edited = {} /\ ~r.tainted =>
    \A k \in r.valid \ r.list : \A d \in DtypeSet(k) : embedded[k][d] = Image(source[k], header)
AllDone == \A b \in Builds : Done(build[b])

CacheInv ==
    /\ TypeOK
    /\ Typed
    /\ Tasks
    /\ AllFresh
    /\ Solo
    /\ AllFind
    /\ ~lost
    /\ OneVersion
    /\ CacheMatchesKeys
    /\ AllDone

-----------------------------------------------------------------------------
(* The first of the sources, and what the cache may hold *)

LEMMA LeastOf ==
    ASSUME NEW T \in SUBSET Nat, T # {}
    PROVE  \E x \in T : \A y \in T : x <= y
<1>1. PICK R : R = OpToRel(<, Nat)
  OBVIOUS
<1>2. IsWellFoundedOn(R, Nat)
  BY <1>1, NatLessThanWellFounded
<1>3. PICK x \in T : \A y \in T : <<y, x>> \notin R
  BY <1>2, WFMin
<1>4. \A y \in T : <<y, x>> \in R <=> y < x
  BY <1>1 DEF OpToRel
<1>5. \A y \in T : y \in Nat
  OBVIOUS
<1>6. \A y \in T : ~(y < x)
  BY <1>3, <1>4
<1> QED  BY <1>5, <1>6

LEMMA FirstIn ==
    ASSUME NEW S \in SUBSET KernelSet, S # {}
    PROVE  First(S) \in S /\ First(S) \in KernelSet
<1> DEFINE I == {i \in DOMAIN Kernels : Kernels[i] \in S}
<1>1. DOMAIN Kernels = 1 .. Len(Kernels) /\ Len(Kernels) \in Nat
  BY CacheAssumption
<1>2. I \in SUBSET Nat /\ I # {}
  BY <1>1 DEF KernelSet
<1>3. Min(I) = CHOOSE x \in I : \A y \in I : x <= y
  BY DEF Min
<1> HIDE DEF I
<1>4. Min(I) \in I
  BY <1>2, <1>3, LeastOf
<1> QED  BY <1>4 DEF I, First

LEMMA Contents ==
    /\ Absent # Partial /\ Absent \notin Images
    /\ \A t, h \in Versions : Image(t, h) \in Images
    /\ \A f \in Names : /\ f.kernel \in KernelSet /\ f.dtype \in DtypeSet(f.kernel)
                        /\ f.text \in Versions /\ f.header \in Versions /\ Meant(f) \in Images
                        /\ f = [kernel |-> f.kernel, dtype |-> f.dtype, text |-> f.text, header |-> f.header]
    /\ \A k \in KernelSet : \A d \in DtypeSet(k) : \A t, h \in Versions :
          [kernel |-> k, dtype |-> d, text |-> t, header |-> h] \in Names
<1>1. Absent # Partial
  BY DEF Absent, Partial
<1>2. Absent \notin Images
  BY DEF Absent, Images
<1>3. \A t, h \in Versions : Image(t, h) \in Images
  BY DEF Image, Images
<1>4. ASSUME NEW f \in Names
      PROVE  /\ f.kernel \in KernelSet /\ f.dtype \in DtypeSet(f.kernel)
             /\ f.text \in Versions /\ f.header \in Versions
             /\ f = [kernel |-> f.kernel, dtype |-> f.dtype, text |-> f.text, header |-> f.header]
  <2>1. PICK k \in KernelSet :
           f \in [kernel : {k}, dtype : DtypeSet(k), text : Versions, header : Versions]
    BY DEF Names
  <2> QED  BY <2>1
<1>5. ASSUME NEW k \in KernelSet, NEW d \in DtypeSet(k), NEW t \in Versions, NEW h \in Versions
      PROVE  [kernel |-> k, dtype |-> d, text |-> t, header |-> h] \in Names
  BY DEF Names
<1> QED  BY <1>1, <1>2, <1>3, <1>4, <1>5 DEF Meant

-----------------------------------------------------------------------------
(* What a build's own step keeps *)

LEMMA OneBuild ==
    ASSUME CacheInv, NEW b \in Builds, NEW r \in Build, build' = [build EXCEPT ![b] = r]
    PROVE  /\ build' \in [Builds -> Build] /\ build'[b] = r
           /\ \A c \in Builds : c # b => build'[c] = build[c]
           /\ r.at \in Places /\ r.alone \in BOOLEAN /\ r.doomed \subseteq Names /\ r.cubins \subseteq Names
           /\ build[b] \in Build
BY DEF CacheInv, Typed, Build

LEMMA OwnStep ==
    ASSUME CacheInv, NEW b \in Builds, NEW r \in Build, build' = [build EXCEPT ![b] = r],
           build[b].at # "off", r.at = "off" \/ r.alone = build[b].alone,
           Task(r), Fresh(r), UNCHANGED <<source, header, overlapped, starts, edits>>,
           cache' \in [Names -> Images \cup {Absent, Partial}], Present \subseteq Present',
           embedded' = [k \in KernelSet |-> embedded'[k]],
           \A k \in KernelSet : \A d \in DOMAIN embedded'[k] :
              d \in DtypeSet(k) /\ embedded'[k][d] \in Images \cup {Partial},
           spoilt' \subseteq Names, ~lost', lost' \in BOOLEAN,
           r.at # "off" /\ r.alone =>
              /\ r.doomed \subseteq Present' /\ (r.at \in Working => r.cubins \subseteq Present')
              /\ r.at # "unlinked"
    PROVE  TypeOK' /\ Typed' /\ Tasks' /\ AllFresh' /\ Solo' /\ AllFind'
<1>1. /\ build' \in [Builds -> Build] /\ build'[b] = r
      /\ \A c \in Builds : c # b => build'[c] = build[c]
      /\ r.at \in Places /\ r.alone \in BOOLEAN /\ r.doomed \subseteq Names
  BY OneBuild
<1>2. TypeOK'
  <2>1. ASSUME NEW c \in Builds
        PROVE  /\ build'[c].at \in Places
               /\ build'[c].at \in {"prune", "nvcc", "writing", "unlinked"} =>
                     build'[c].key \in Names /\ build'[c].key.dtype = Head(build'[c].left)
               /\ build'[c].doomed \subseteq Names
    <3>1. CASE c = b
      BY <1>1, <3>1 DEF Task, Compiling, Working
    <3>2. CASE c # b
      BY <1>1, <3>2 DEF CacheInv, TypeOK
    <3> QED  BY <3>1, <3>2
  <2> QED  BY <2>1 DEF CacheInv, TypeOK
<1>3. Typed'
  BY <1>1 DEF CacheInv, Typed
<1>4. Tasks'
  BY <1>1 DEF CacheInv, Tasks
<1>5. AllFresh'
  <2>1. \A c \in Builds : Fresh(build'[c])
    BY <1>1 DEF CacheInv, AllFresh
  <2> QED  BY <2>1 DEF AllFresh, Fresh
<1>6. Solo'
  BY <1>1 DEF CacheInv, Solo, Active, At
<1>7. AllFind'
  <2>1. ASSUME NEW c \in Builds, build'[c].at # "off", build'[c].alone
        PROVE  /\ build'[c].doomed \subseteq Present'
               /\ build'[c].at \in Working => build'[c].cubins \subseteq Present'
               /\ build'[c].at # "unlinked"
    <3>1. CASE c = b
      BY <1>1, <2>1, <3>1
    <3>2. CASE c # b
      <4>1. build[c].at # "off" /\ build[c].alone /\ build'[c] = build[c]
        BY <1>1, <2>1, <3>2
      <4> QED  BY <4>1 DEF CacheInv, AllFind, Finds
    <3> QED  BY <3>1, <3>2
  <2> QED  BY <2>1 DEF AllFind, Finds
<1> QED  BY <1>2, <1>3, <1>4, <1>5, <1>6, <1>7

LEMMA DoneKept ==
    ASSUME CacheInv, NEW b \in Builds, NEW r \in Build, build' = [build EXCEPT ![b] = r],
           UNCHANGED <<source, header, embedded>>, Done(r)
    PROVE  AllDone'
<1>1. \A c \in Builds : Done(build'[c])
  BY OneBuild DEF CacheInv, AllDone
<1> QED  BY <1>1 DEF AllDone, Done

LEMMA FilesKept ==
    ASSUME CacheInv, NEW b \in Builds, NEW r \in Build, build' = [build EXCEPT ![b] = r],
           UNCHANGED <<cache, overlapped>>, spoilt \subseteq spoilt',
           build[b].at = "writing" => build[b].key \in spoilt',
           ~overlapped /\ r.at \in {"prune", "nvcc", "writing"} => OldVersions(r.key) \subseteq r.doomed
    PROVE  OneVersion' /\ CacheMatchesKeys'
<1>1. build'[b] = r /\ \A c \in Builds : c # b => build'[c] = build[c]
  BY OneBuild
<1>2. Present' = Present
  BY DEF Present
<1>3. OneVersion'
  <2>1. \A f : OldVersions(f)' = OldVersions(f)
    BY <1>2 DEF OldVersions
  <2> SUFFICES ASSUME ~overlapped
               PROVE  /\ \A f, g \in Present : f.kernel = g.kernel /\ f.dtype = g.dtype => f = g
                      /\ \A c \in Builds : build'[c].at \in {"prune", "nvcc", "writing"} =>
                            OldVersions(build'[c].key) \subseteq build'[c].doomed
    BY <1>2, <2>1 DEF OneVersion, OldVersions
  <2>2. \A c \in Builds : build'[c].at \in {"prune", "nvcc", "writing"} =>
            OldVersions(build'[c].key) \subseteq build'[c].doomed
    BY <1>1 DEF CacheInv, OneVersion
  <2> QED  BY <2>2 DEF CacheInv, OneVersion
<1>4. CacheMatchesKeys'
  <2> SUFFICES ASSUME NEW f \in Present, cache[f] # Meant(f), f \notin spoilt'
               PROVE  Writers(f)' # {}
    BY <1>2 DEF CacheMatchesKeys, Meant, Image
  <2>1. PICK w \in Builds : build[w].at = "writing" /\ build[w].key = f
    BY DEF CacheInv, CacheMatchesKeys, Writers, At
  <2>2. w # b
    BY <2>1
  <2> QED  BY <1>1, <2>1, <2>2 DEF Writers, At
<1> QED  BY <1>3, <1>4

\* Steps that leave the files alone.
LEMMA QuietStep ==
    ASSUME CacheInv, NEW b \in Builds, NEW r \in Build, build' = [build EXCEPT ![b] = r],
           build[b].at # "off", r.at = "off" \/ r.alone = build[b].alone,
           Task(r), Fresh(r), Finds(r), Done(r),
           UNCHANGED <<source, header, cache, embedded, overlapped, starts, edits>>,
           spoilt \subseteq spoilt', spoilt' \subseteq Names, ~lost', lost' \in BOOLEAN,
           build[b].at = "writing" => build[b].key \in spoilt',
           ~overlapped /\ r.at \in {"prune", "nvcc", "writing"} => OldVersions(r.key) \subseteq r.doomed
    PROVE  CacheInv'
<1>1. TypeOK' /\ Typed' /\ Tasks' /\ AllFresh' /\ Solo' /\ AllFind'
  <2>1. cache' \in [Names -> Images \cup {Absent, Partial}]
    BY DEF CacheInv, TypeOK
  <2>2. embedded' = [k \in KernelSet |-> embedded'[k]]
    BY DEF CacheInv, Typed
  <2>3. \A k \in KernelSet : \A d \in DOMAIN embedded'[k] :
           d \in DtypeSet(k) /\ embedded'[k][d] \in Images \cup {Partial}
    BY DEF CacheInv, TypeOK
  <2>4. Present' = Present
    BY DEF Present
  <2>5. r.at # "off" /\ r.alone =>
              /\ r.doomed \subseteq Present' /\ (r.at \in Working => r.cubins \subseteq Present')
              /\ r.at # "unlinked"
    BY <2>4 DEF Finds
  <2>6. Present \subseteq Present'
    BY <2>4
  <2> QED  BY <2>1, <2>2, <2>3, <2>5, <2>6, OwnStep
<1>2. OneVersion' /\ CacheMatchesKeys'
  BY FilesKept
<1>3. AllDone'
  BY DoneKept
<1> QED  BY <1>1, <1>2, <1>3 DEF CacheInv

\* The end of a build: nothing is promised about one that is off.
LEMMA EndStep ==
    ASSUME CacheInv, NEW b \in Builds, Ends(b), build[b].at # "off",
           UNCHANGED <<source, header, cache, embedded, overlapped, starts, edits>>,
           spoilt \subseteq spoilt', spoilt' \subseteq Names, ~lost', lost' \in BOOLEAN,
           build[b].at = "writing" => build[b].key \in spoilt'
    PROVE  CacheInv'
<1>1. PICK r : r = Off
  OBVIOUS
<1>2. build' = [build EXCEPT ![b] = r]
  BY <1>1 DEF Ends
<1>3. r \in Build /\ r.at = "off" /\ r.list = {} /\ r.valid = {} /\ r.doomed = {}
  <2>1. 1 \in Versions
    BY CacheAssumption DEF Versions
  <2> QED  BY <1>1, <2>1 DEF Off, Build, Places
<1>4. Task(r) /\ Fresh(r) /\ Finds(r) /\ Done(r)
  BY <1>3 DEF Task, Fresh, Finds, Done, Working, Compiling, InNvcc
<1> QED  BY <1>2, <1>3, <1>4, QuietStep

LEMMA InvFails ==
    ASSUME CacheInv, NEW b \in Builds, NvccFails(b) \/ Finish(b)
    PROVE  CacheInv'
<1>1. /\ Ends(b) /\ build[b].at \in {"prune", "orphans"}
      /\ UNCHANGED <<source, header, edits, cache, embedded, starts, spoilt, overlapped, lost>>
  BY DEF NvccFails, Finish, At, texts
<1>2. spoilt \subseteq Names /\ ~lost
  BY DEF CacheInv, TypeOK
<1>3. lost \in BOOLEAN
  BY DEF CacheInv, Typed
<1> QED  BY <1>1, <1>2, <1>3, EndStep

LEMMA InvKill ==
    ASSUME CacheInv, NEW b \in Builds, Kill(b)
    PROVE  CacheInv'
<1>1. /\ Ends(b) /\ build[b].at # "off"
      /\ UNCHANGED <<source, header, edits, cache, embedded, starts, overlapped, lost>>
      /\ spoilt' = IF build[b].at = "writing" THEN spoilt \cup {build[b].key} ELSE spoilt
  BY DEF Kill, At, texts, Active
<1>2. spoilt \subseteq Names /\ ~lost
  BY DEF CacheInv, TypeOK
<1>3. build[b].at = "writing" => build[b].key \in Names
  BY DEF CacheInv, TypeOK
<1>4. lost \in BOOLEAN
  BY DEF CacheInv, Typed
<1>5. spoilt' \subseteq Names /\ spoilt \subseteq spoilt' /\ ~lost' /\ lost' \in BOOLEAN
  BY <1>1, <1>2, <1>3, <1>4
<1> QED  BY <1>1, <1>5, EndStep

-----------------------------------------------------------------------------
(* One dtype of one source *)

\* A dtype has its file, whether it was hit or compiled.
LEMMA TaskTaken ==
    ASSUME NEW o \in Build, Task(o), o.at \in Working, o.left # <<>>, o.doomed = {},
           NEW f \in Names, f.kernel = First(o.list), f.dtype = Head(o.left), f.header = o.head,
           NEW r, r.at = "look", r.list = o.list, r.valid = o.valid, r.left = Tail(o.left),
           r.cubins = o.cubins \cup {f}, r.head = o.head, r.doomed = {}
    PROVE  Task(r) /\ Tail(o.left) \in Seq(Dtypes)
<1>1. PICK k \in KernelSet : k = First(o.list)
  BY FirstIn DEF Task, Build
<1>2. PICK s \in Seq(DtypeSet(k)) : s = o.left /\ s # <<>>
  BY <1>1 DEF Task
<1>3. PICK n \in Nat : n = Len(s) /\ n > 0
  BY <1>2
<1>4. /\ Tail(s) \in Seq(DtypeSet(k)) /\ Len(Tail(s)) = n - 1
      /\ \A i \in 1 .. n - 1 : Tail(s)[i] = s[i + 1]
      /\ Head(s) = s[1]
  BY <1>2, <1>3, HeadTailProperties
<1>5. Tail(o.left) \in Seq(Dtypes)
  <2>1. DtypeSet(k) \subseteq Dtypes
    BY <1>1 DEF Dtypes
  <2>2. \A i \in 1 .. n - 1 : s[i + 1] \in DtypeSet(k)
    BY <1>2, <1>3
  <2> QED  BY <1>2, <1>3, <1>4, <2>1, <2>2, SeqDef
<1>6. /\ \A i, j \in 1 .. n : s[i] = s[j] => i = j
      /\ \A g \in o.cubins : /\ g.kernel = k /\ g.header = o.head
                             /\ \A i \in 1 .. n : s[i] # g.dtype
      /\ \A d \in DtypeSet(k) : \/ \E i \in 1 .. n : s[i] = d
                                \/ \E g \in o.cubins : g.dtype = d
  BY <1>1, <1>2, <1>3 DEF Task
<1>7. \A i, j \in 1 .. n - 1 : Tail(s)[i] = Tail(s)[j] => i = j
  <2> SUFFICES ASSUME NEW i \in 1 .. n - 1, NEW j \in 1 .. n - 1, s[i + 1] = s[j + 1]
               PROVE  i = j
    BY <1>4
  <2>1. i + 1 \in 1 .. n /\ j + 1 \in 1 .. n
    OBVIOUS
  <2>2. i + 1 = j + 1
    BY <1>6, <2>1
  <2> QED  BY <2>2
<1>8. ASSUME NEW g \in o.cubins \cup {f}
      PROVE  /\ g.kernel = k /\ g.header = o.head
             /\ \A i \in 1 .. n - 1 : Tail(s)[i] # g.dtype
  <2>1. CASE g \in o.cubins
    BY <1>4, <1>6, <2>1
  <2>2. CASE g = f
    <3>1. \A i \in 1 .. n - 1 : i + 1 \in 1 .. n /\ i + 1 # 1 /\ 1 \in 1 .. n
      BY <1>3
    <3>2. \A i \in 1 .. n - 1 : s[i + 1] # s[1]
      BY <1>6, <3>1
    <3> QED  BY <1>1, <1>2, <1>4, <2>2, <3>2
  <2> QED  BY <2>1, <2>2
<1>9. ASSUME NEW d \in DtypeSet(k)
      PROVE  \/ \E i \in 1 .. n - 1 : Tail(s)[i] = d
             \/ \E g \in o.cubins \cup {f} : g.dtype = d
  <2>1. CASE \E g \in o.cubins : g.dtype = d
    BY <2>1
  <2>2. CASE d = s[1]
    BY <1>2, <1>4, <2>2
  <2>3. CASE \E i \in 1 .. n : s[i] = d /\ i # 1
    <3>1. PICK i \in 1 .. n : s[i] = d /\ i # 1
      BY <2>3
    <3>2. i - 1 \in 1 .. n - 1 /\ (i - 1) + 1 = i
      BY <3>1
    <3>3. Tail(s)[i - 1] = d
      BY <1>4, <3>1, <3>2
    <3> QED  BY <3>2, <3>3
  <2> QED  BY <1>6, <2>1, <2>2, <2>3
<1>10. r.list \subseteq r.valid /\ r.list # {}
  BY DEF Task
<1> QED  BY SMTT(30), <1>1, <1>2, <1>4, <1>5, <1>7, <1>8, <1>9, <1>10 DEF Task, Compiling, Working, InNvcc

\* The source and the dtype a build is at, and the name it looks for.
LEMMA KeyIsName ==
    ASSUME CacheInv, NEW b \in Builds, build[b].at \in Working, build[b].left # <<>>,
           source[First(build[b].list)] # Gone,
           NEW f, f = KeyOf(b, First(build[b].list), Head(build[b].left))
    PROVE  /\ f \in Names /\ f.kernel = First(build[b].list) /\ f.dtype = Head(build[b].left)
           /\ f.header = build[b].head /\ f.text = source[f.kernel]
<1>1. PICK o \in Build : o = build[b] /\ Task(o) /\ o.at \in Working /\ o.left # <<>>
  BY DEF CacheInv, Typed, Tasks
<1>2. PICK k \in KernelSet : k = First(o.list)
  BY <1>1, FirstIn DEF Task, Build
<1>3. Head(o.left) \in DtypeSet(k)
  BY <1>1, <1>2, HeadTailProperties DEF Task
<1>4. source[k] \in Versions /\ o.head \in Versions
  BY <1>1, <1>2 DEF CacheInv, TypeOK, Build
<1>5. f = [kernel |-> k, dtype |-> Head(o.left), text |-> source[k], header |-> o.head]
  BY <1>1, <1>2 DEF KeyOf
<1> QED  BY <1>1, <1>2, <1>3, <1>4, <1>5, Contents

LEMMA InvLook ==
    ASSUME CacheInv, NEW b \in Builds, Look(b)
    PROVE  CacheInv'
<1> DEFINE k == First(build[b].list)
           f == KeyOf(b, k, Head(build[b].left))
<1>1. /\ build[b].at = "look" /\ build[b].left # <<>>
      /\ UNCHANGED <<source, header, edits, cache, embedded, starts, spoilt, overlapped, lost>>
  BY DEF Look, At, texts
<1>2. PICK o \in Build : o = build[b]
  BY DEF CacheInv, Typed
<1>3. Task(o) /\ Fresh(o) /\ Finds(o) /\ Done(o)
  BY <1>2 DEF CacheInv, Tasks, AllFresh, AllFind, AllDone
<1>4. spoilt \subseteq Names /\ ~lost /\ lost \in BOOLEAN
  BY DEF CacheInv, TypeOK, Typed
<1>5. CASE source[k] = Gone
  <2>1. Ends(b)
    BY <1>5 DEF Look
  <2> QED  BY <1>1, <1>4, <2>1, EndStep
<1>6. CASE source[k] # Gone
  <2>1. PICK g : g = f
    OBVIOUS
  <2>2. /\ g \in Names /\ g.kernel = First(o.list) /\ g.dtype = Head(o.left)
        /\ g.header = o.head /\ g.text = source[g.kernel]
    BY <1>1, <1>2, <1>6, <2>1, KeyIsName DEF Working
  <2>3. o.doomed = {} /\ o.at = "look" /\ o.left # <<>> /\ o.at \in Working
    BY <1>1, <1>2, <1>3 DEF Task, Working
  <2>4. \/ g \in Present /\ build' = [build EXCEPT ![b].cubins = @ \cup {g}, ![b].left = Tail(@)]
        \/ /\ g \notin Present
           /\ build' = [build EXCEPT ![b].at = "prune", ![b].key = g,
                           ![b].doomed = OldVersions(g), ![b].stale = "header" \in build[b].edited]
    BY <1>6, <2>1 DEF Look, Hit
  <2>5. CASE g \in Present /\ build' = [build EXCEPT ![b].cubins = @ \cup {g}, ![b].left = Tail(@)]
    <3>1. PICK r : r = [o EXCEPT !.cubins = @ \cup {g}, !.left = Tail(@)]
      OBVIOUS
    <3>2. build' = [build EXCEPT ![b] = r]
      BY <1>2, <2>5, <3>1
    <3>3. /\ r.at = "look" /\ r.list = o.list /\ r.valid = o.valid /\ r.left = Tail(o.left)
          /\ r.cubins = o.cubins \cup {g} /\ r.head = o.head /\ r.doomed = {} /\ r.edited = o.edited
          /\ r.alone = o.alone /\ r.tainted = o.tainted
      BY <2>3, <3>1 DEF Build
    <3>4. Task(r) /\ Tail(o.left) \in Seq(Dtypes)
      BY <1>3, <2>2, <2>3, <3>3, TaskTaken
    <3>5. r \in Build
      BY <2>2, <3>1, <3>4 DEF Build
    <3>6. Fresh(r)
      BY <1>3, <2>2, <2>3, <3>3 DEF Fresh, Working, Compiling, InNvcc
    <3>7. Finds(r) /\ Done(r)
      BY <1>3, <2>3, <2>5, <3>3 DEF Finds, Done
    <3> QED  BY <1>1, <1>2, <1>4, <2>3, <3>2, <3>3, <3>4, <3>5, <3>6, <3>7, QuietStep
  <2>6. CASE /\ g \notin Present
             /\ build' = [build EXCEPT ![b].at = "prune", ![b].key = g,
                             ![b].doomed = OldVersions(g), ![b].stale = "header" \in build[b].edited]
    <3>1. PICK r : r = [o EXCEPT !.at = "prune", !.key = g, !.doomed = OldVersions(g),
                                 !.stale = "header" \in o.edited]
      OBVIOUS
    <3>2. build' = [build EXCEPT ![b] = r]
      BY <1>2, <2>6, <3>1
    <3>3. OldVersions(g) \subseteq Names /\ OldVersions(g) \subseteq Present
      BY DEF OldVersions, Present
    <3>4. /\ r.at = "prune" /\ r.list = o.list /\ r.valid = o.valid /\ r.left = o.left
          /\ r.cubins = o.cubins /\ r.head = o.head /\ r.doomed = OldVersions(g) /\ r.edited = o.edited
          /\ r.alone = o.alone /\ r.tainted = o.tainted /\ r.key = g
          /\ r.stale <=> "header" \in o.edited
      BY <3>1 DEF Build
    <3>5. r \in Build
      <4>1. PICK s \in BOOLEAN : s = ("header" \in o.edited)
        <5>1. CASE "header" \in o.edited
          <6>1. ("header" \in o.edited) = TRUE
            BY <5>1
          <6> QED  BY <6>1
        <5>2. CASE "header" \notin o.edited
          <6>1. ("header" \in o.edited) = FALSE
            BY <5>2
          <6> QED  BY <6>1
        <5> QED  BY <5>1, <5>2
      <4> QED  BY <2>2, <3>1, <3>3, <4>1 DEF Build, Places
    <3>6. Task(r)
      BY <1>3, <2>2, <2>3, <3>4 DEF Task, Working, Compiling, InNvcc, OldVersions
    <3>7. Fresh(r)
      BY <1>3, <2>2, <2>3, <3>4 DEF Fresh, Working, Compiling, InNvcc
    <3>8. Finds(r) /\ Done(r)
      BY <1>3, <2>3, <3>3, <3>4 DEF Finds, Done, Working
    <3> QED  BY <1>1, <1>2, <1>4, <2>3, <3>2, <3>4, <3>5, <3>6, <3>7, <3>8, QuietStep
  <2> QED  BY <2>4, <2>5, <2>6
<1> QED  BY <1>5, <1>6

LEMMA InvNvccReads ==
    ASSUME CacheInv, NEW b \in Builds, NvccReads(b)
    PROVE  CacheInv'
<1>1. /\ build[b].at = "prune" /\ build[b].doomed = {} /\ source[build[b].key.kernel] # Gone
      /\ build' = [build EXCEPT ![b].at = "nvcc",
                                ![b].image = Image(source[build[b].key.kernel], header)]
      /\ UNCHANGED <<source, header, edits, cache, embedded, starts, spoilt, overlapped, lost>>
  BY DEF NvccReads, At, texts
<1>2. PICK o \in Build : o = build[b]
  BY DEF CacheInv, Typed
<1>3. Task(o) /\ Fresh(o) /\ Finds(o) /\ Done(o) /\ o.at = "prune" /\ o.doomed = {}
  BY <1>1, <1>2 DEF CacheInv, Tasks, AllFresh, AllFind, AllDone
<1>4. spoilt \subseteq Names /\ ~lost /\ lost \in BOOLEAN
  BY DEF CacheInv, TypeOK, Typed
<1>5. PICK i : i = Image(source[o.key.kernel], header)
  OBVIOUS
<1>6. i \in Images
  <2>1. o.key \in Names
    BY <1>3 DEF Task, Compiling, Working
  <2>2. source[o.key.kernel] \in Versions
    BY <1>1, <1>2, <2>1, Contents DEF CacheInv, TypeOK
  <2> QED  BY <1>5, <2>2, Contents DEF CacheInv, TypeOK
<1>7. PICK r : r = [o EXCEPT !.at = "nvcc", !.image = i]
  OBVIOUS
<1>8. build' = [build EXCEPT ![b] = r]
  BY <1>1, <1>2, <1>5, <1>7
<1>9. /\ r.at = "nvcc" /\ r.list = o.list /\ r.valid = o.valid /\ r.left = o.left
      /\ r.cubins = o.cubins /\ r.head = o.head /\ r.doomed = {} /\ r.edited = o.edited
      /\ r.alone = o.alone /\ r.tainted = o.tainted /\ r.key = o.key /\ r.stale = o.stale
      /\ r.image = i
  BY <1>3, <1>7 DEF Build
<1>10. r \in Build
  BY <1>6, <1>7 DEF Build, Places
<1>11. Task(r)
  BY <1>3, <1>6, <1>9 DEF Task, Working, Compiling, InNvcc
<1>12. Fresh(r)
  BY <1>3, <1>5, <1>9 DEF Fresh, Working, Compiling, InNvcc, Meant
<1>13. Finds(r) /\ Done(r)
  BY <1>3, <1>9 DEF Finds, Done, Working
<1>14. ~overlapped => OldVersions(r.key) \subseteq r.doomed
  BY <1>1, <1>2, <1>9 DEF CacheInv, OneVersion
<1> QED  BY <1>1, <1>2, <1>3, <1>4, <1>8, <1>9, <1>10, <1>11, <1>12, <1>13, <1>14, QuietStep

\* nvcc is done: the build goes on to its next dtype with this file.
LEMMA CompiledStep ==
    ASSUME CacheInv, NEW b \in Builds, build[b].at \in {"writing", "unlinked"}, build' = Compiled(b)
    PROVE  \E r \in Build :
              /\ build' = [build EXCEPT ![b] = r]
              /\ Task(r) /\ Fresh(r) /\ Done(r)
              /\ r.at = "look" /\ r.alone = build[b].alone /\ r.doomed = {}
              /\ r.cubins = build[b].cubins \cup {build[b].key}
<1>1. PICK o \in Build : o = build[b]
  BY DEF CacheInv, Typed
<1>2. Task(o) /\ Fresh(o) /\ Done(o)
  BY <1>1 DEF CacheInv, Tasks, AllFresh, AllDone
<1>3. /\ o.at \in Working /\ o.at \in Compiling /\ o.at # "off" /\ o.doomed = {} /\ o.left # <<>>
      /\ o.key \in Names /\ o.key.kernel = First(o.list)
      /\ o.key.dtype = Head(o.left) /\ o.key.header = o.head
  BY <1>1, <1>2 DEF Task, Working, Compiling
<1>4. PICK r : r = [build[b] EXCEPT !.at = "look", !.cubins = @ \cup {build[b].key},
                                    !.left = Tail(@), !.key = None, !.image = None, !.stale = FALSE]
  OBVIOUS
<1>5. build' = [build EXCEPT ![b] = r]
  BY <1>4 DEF Compiled
<1>6. /\ r.at = "look" /\ r.list = o.list /\ r.valid = o.valid /\ r.left = Tail(o.left)
      /\ r.cubins = o.cubins \cup {o.key} /\ r.head = o.head /\ r.doomed = {} /\ r.edited = o.edited
      /\ r.alone = o.alone /\ r.tainted = o.tainted
  BY <1>1, <1>3, <1>4 DEF Build
<1>7. Task(r) /\ Tail(o.left) \in Seq(Dtypes)
  BY <1>2, <1>3, <1>6, TaskTaken
<1>8. r \in Build
  BY <1>1, <1>3, <1>4, <1>7 DEF Build, Places
<1>9. Fresh(r)
  BY <1>2, <1>3, <1>6 DEF Fresh, Working, Compiling, InNvcc
<1>10. Done(r)
  BY <1>2, <1>3, <1>6 DEF Done
<1> QED  BY <1>1, <1>5, <1>6, <1>7, <1>8, <1>9, <1>10

LEMMA InvNvccWritesUnlinked ==
    ASSUME CacheInv, NEW b \in Builds, NvccWritesUnlinked(b)
    PROVE  CacheInv'
<1>1. /\ build[b].at = "unlinked" /\ build' = Compiled(b)
      /\ UNCHANGED <<source, header, edits, cache, embedded, starts, spoilt, overlapped, lost>>
  BY DEF NvccWritesUnlinked, At, texts
<1>2. PICK r \in Build : /\ build' = [build EXCEPT ![b] = r]
                         /\ Task(r) /\ Fresh(r) /\ Done(r)
                         /\ r.at = "look" /\ r.alone = build[b].alone
  BY <1>1, CompiledStep
<1>3. spoilt \subseteq Names /\ ~lost /\ lost \in BOOLEAN
  BY DEF CacheInv, TypeOK, Typed
<1>4. Finds(r)
  BY <1>1, <1>2 DEF CacheInv, AllFind, Finds
<1> QED  BY <1>1, <1>2, <1>3, <1>4, QuietStep

-----------------------------------------------------------------------------
(* What nvcc writes *)

LEMMA WriteStep ==
    ASSUME CacheInv, NEW b \in Builds, NEW r \in Build, build' = [build EXCEPT ![b] = r],
           build[b].at \in {"nvcc", "writing"}, NEW x \in Images \cup {Partial},
           cache' = [cache EXCEPT ![build[b].key] = x],
           Task(r), Fresh(r), Done(r), r.alone = build[b].alone, r.doomed = {},
           r.at \in {"writing", "look"}, r.at = "writing" => r.key = build[b].key,
           r.cubins \subseteq build[b].cubins \cup {build[b].key},
           UNCHANGED <<source, header, embedded, overlapped, starts, edits, lost>>,
           spoilt \subseteq spoilt', spoilt' \subseteq Names,
           \/ x = Meant(build[b].key) \/ build[b].key \in spoilt'
           \/ \E w \in Builds : build'[w].at = "writing" /\ build'[w].key = build[b].key
    PROVE  CacheInv'
<1>1. build'[b] = r /\ \A c \in Builds : c # b => build'[c] = build[c]
  BY OneBuild
<1>2. PICK o \in Build : o = build[b] /\ o.at \in {"nvcc", "writing"}
  BY DEF CacheInv, Typed
<1>3. Task(o) /\ Finds(o) /\ o.doomed = {} /\ o.key \in Names /\ o.at \in Working /\ o.at # "off"
  <2>1. Task(o) /\ Finds(o)
    BY <1>2 DEF CacheInv, Tasks, AllFind
  <2> QED  BY <1>2, <2>1 DEF Task, Working, Compiling
<1>4. x # Absent /\ x \in Images \cup {Absent, Partial}
  BY Contents
<1>5. /\ cache' \in [Names -> Images \cup {Absent, Partial}] /\ cache'[o.key] = x
      /\ \A f \in Names : f # o.key => cache'[f] = cache[f]
  BY <1>2, <1>3, <1>4 DEF CacheInv, TypeOK
<1>6. Present' = Present \cup {o.key}
  BY <1>3, <1>4, <1>5 DEF Present
<1>7. TypeOK' /\ Typed' /\ Tasks' /\ AllFresh' /\ Solo' /\ AllFind'
  <2>1. embedded' = [k \in KernelSet |-> embedded'[k]] /\ lost' \in BOOLEAN /\ ~lost'
    BY DEF CacheInv, Typed
  <2>2. \A k \in KernelSet : \A d \in DOMAIN embedded'[k] :
           d \in DtypeSet(k) /\ embedded'[k][d] \in Images \cup {Partial}
    BY DEF CacheInv, TypeOK
  <2>3. r.at # "off" /\ r.alone =>
              /\ r.doomed \subseteq Present' /\ (r.at \in Working => r.cubins \subseteq Present')
              /\ r.at # "unlinked"
    BY <1>2, <1>3, <1>6 DEF Finds
  <2>4. Present \subseteq Present' /\ build[b].at # "off"
    BY <1>6
  <2> QED  BY <1>5, <2>1, <2>2, <2>3, <2>4, OwnStep
<1>8. OneVersion'
  <2> SUFFICES ASSUME ~overlapped
               PROVE  /\ \A f, g \in Present' : f.kernel = g.kernel /\ f.dtype = g.dtype => f = g
                      /\ \A c \in Builds : build'[c].at \in {"prune", "nvcc", "writing"} =>
                            {g \in Present' : /\ g.kernel = build'[c].key.kernel
                                              /\ g.dtype = build'[c].key.dtype} \ {build'[c].key}
                               \subseteq build'[c].doomed
    BY DEF OneVersion, OldVersions
  <2>1. \A g \in Present : g.kernel = o.key.kernel /\ g.dtype = o.key.dtype => g = o.key
    BY <1>2, <1>3 DEF CacheInv, OneVersion, OldVersions
  <2>2. \A f, g \in Present' : f.kernel = g.kernel /\ f.dtype = g.dtype => f = g
    BY <1>6, <2>1 DEF CacheInv, OneVersion
  <2>3. ASSUME NEW c \in Builds, build'[c].at \in {"prune", "nvcc", "writing"}
        PROVE  c = b /\ r.key = o.key
    <3>1. build[b].at # "off" /\ (c # b => build[c].at # "off")
      BY <1>1, <2>3
    <3>2. c = b
      BY <3>1 DEF CacheInv, Solo, Active, At
    <3> QED  BY <1>1, <1>2, <2>3, <3>2
  <2> QED  BY <1>1, <1>6, <2>1, <2>2, <2>3
<1>9. CacheMatchesKeys'
  <2> SUFFICES ASSUME NEW f \in Present', cache'[f] # Meant(f), f \notin spoilt'
               PROVE  \E w \in Builds : build'[w].at = "writing" /\ build'[w].key = f
    BY DEF CacheMatchesKeys, Meant, Image, Writers, At
  <2>1. CASE f = o.key
    BY <1>2, <1>5, <2>1
  <2>2. CASE f # o.key
    <3>1. f \in Present /\ cache[f] # Meant(f) /\ f \notin spoilt
      BY <1>5, <1>6, <2>2 DEF Present
    <3>2. PICK w \in Builds : build[w].at = "writing" /\ build[w].key = f
      BY <3>1 DEF CacheInv, CacheMatchesKeys, Writers, At
    <3>3. w # b
      BY <1>2, <2>2, <3>2
    <3> QED  BY <1>1, <3>2, <3>3
  <2> QED  BY <2>1, <2>2
<1>10. AllDone'
  BY DoneKept
<1>11. ~lost'
  BY DEF CacheInv
<1> QED  BY <1>7, <1>8, <1>9, <1>10, <1>11 DEF CacheInv

LEMMA InvNvccOpens ==
    ASSUME CacheInv, NEW b \in Builds, NvccOpens(b)
    PROVE  CacheInv'
<1>1. /\ build[b].at = "nvcc" /\ build' = [build EXCEPT ![b].at = "writing"]
      /\ cache' = [cache EXCEPT ![build[b].key] = Partial]
      /\ UNCHANGED <<source, header, edits, embedded, starts, spoilt, overlapped, lost>>
  BY DEF NvccOpens, At, texts
<1>2. PICK o \in Build : o = build[b]
  BY DEF CacheInv, Typed
<1>3. Task(o) /\ Fresh(o) /\ Done(o) /\ o.at = "nvcc" /\ o.doomed = {}
  <2>1. Task(o) /\ Fresh(o) /\ Done(o) /\ o.at = "nvcc"
    BY <1>1, <1>2 DEF CacheInv, Tasks, AllFresh, AllDone
  <2> QED  BY <2>1 DEF Task
<1>4. spoilt \subseteq Names
  BY DEF CacheInv, TypeOK
<1>5. PICK r : r = [o EXCEPT !.at = "writing"]
  OBVIOUS
<1>6. build' = [build EXCEPT ![b] = r]
  BY <1>1, <1>2, <1>5
<1>7. /\ r.at = "writing" /\ r.list = o.list /\ r.valid = o.valid /\ r.left = o.left
      /\ r.cubins = o.cubins /\ r.head = o.head /\ r.doomed = {} /\ r.edited = o.edited
      /\ r.alone = o.alone /\ r.tainted = o.tainted /\ r.key = o.key /\ r.stale = o.stale
      /\ r.image = o.image
  BY <1>3, <1>5 DEF Build
<1>8. r \in Build
  BY <1>5 DEF Build, Places
<1>9. Task(r)
  BY <1>3, <1>7 DEF Task, Working, Compiling, InNvcc
<1>10. Fresh(r)
  BY <1>3, <1>7 DEF Fresh, Working, Compiling, InNvcc
<1>11. Done(r)
  BY <1>3, <1>7 DEF Done
<1>12. build'[b].at = "writing" /\ build'[b].key = build[b].key
  BY <1>2, <1>6, <1>7, <1>8, OneBuild
<1> QED  BY <1>1, <1>2, <1>4, <1>6, <1>7, <1>8, <1>9, <1>10, <1>11, <1>12, WriteStep

LEMMA InvNvccWrites ==
    ASSUME CacheInv, NEW b \in Builds, NvccWrites(b)
    PROVE  CacheInv'
<1>1. /\ build[b].at = "writing" /\ build' = Compiled(b)
      /\ cache' = [cache EXCEPT ![build[b].key] =
                      IF Writers(build[b].key) = {b} THEN build[b].image ELSE Partial]
      /\ spoilt' = IF build[b].stale THEN spoilt \cup {build[b].key} ELSE spoilt
      /\ UNCHANGED <<source, header, edits, embedded, starts, overlapped, lost>>
  BY DEF NvccWrites, At, texts
<1>2. PICK r \in Build : /\ build' = [build EXCEPT ![b] = r]
                         /\ Task(r) /\ Fresh(r) /\ Done(r)
                         /\ r.at = "look" /\ r.alone = build[b].alone /\ r.doomed = {}
                         /\ r.cubins = build[b].cubins \cup {build[b].key}
  BY <1>1, CompiledStep
<1>3. build[b].key \in Names /\ build[b].image \in Images
  BY <1>1 DEF CacheInv, Tasks, Task, Compiling, Working, InNvcc
<1>4. spoilt' \subseteq Names /\ spoilt \subseteq spoilt'
  BY <1>1, <1>3 DEF CacheInv, TypeOK
<1>5. PICK x \in Images \cup {Partial} :
         x = IF Writers(build[b].key) = {b} THEN build[b].image ELSE Partial
  BY <1>3
<1>6. \/ x = Meant(build[b].key) \/ build[b].key \in spoilt'
      \/ \E w \in Builds : build'[w].at = "writing" /\ build'[w].key = build[b].key
  <2>1. CASE Writers(build[b].key) = {b}
    <3>1. ~build[b].stale => build[b].image = Meant(build[b].key)
      BY <1>1 DEF CacheInv, AllFresh, Fresh, InNvcc
    <3> QED  BY <1>1, <1>5, <2>1, <3>1
  <2>2. CASE Writers(build[b].key) # {b}
    <3>1. b \in Writers(build[b].key)
      BY <1>1 DEF Writers, At
    <3>2. PICK w \in Writers(build[b].key) : w # b
      BY <2>2, <3>1
    <3>3. w \in Builds /\ build[w].at = "writing" /\ build[w].key = build[b].key
      BY <3>2 DEF Writers, At
    <3> QED  BY <1>2, <3>2, <3>3, OneBuild
  <2> QED  BY <2>1, <2>2
<1> QED  BY <1>1, <1>2, <1>4, <1>5, <1>6, WriteStep

-----------------------------------------------------------------------------
(* What pruning removes *)

LEMMA InvUnlink ==
    ASSUME CacheInv, NEW b \in Builds, Unlink(b)
    PROVE  CacheInv'
<1>1. PICK f \in build[b].doomed :
         /\ IF cache[f] = Absent
            THEN CubinMissing(b) /\ UNCHANGED <<cache, spoilt>>
            ELSE /\ cache' = [cache EXCEPT ![f] = Absent]
                 /\ spoilt' = spoilt \ {f}
                 /\ build' = [c \in Builds |->
                                 IF c = b THEN [build[b] EXCEPT !.doomed = @ \ {f}]
                                 ELSE IF c \in Writers(f) THEN [build[c] EXCEPT !.at = "unlinked"]
                                 ELSE build[c]]
                 /\ UNCHANGED lost
         /\ UNCHANGED <<source, header, edits, embedded, starts, overlapped>>
  BY DEF Unlink, texts
<1>2. PICK o \in Build : o = build[b]
  BY DEF CacheInv, Typed
<1>3. Task(o) /\ Finds(o) /\ Fresh(o) /\ Done(o)
  BY <1>2 DEF CacheInv, Tasks, AllFind, AllFresh, AllDone
<1>4. o.at \in {"prune", "orphans"} /\ f \in o.doomed /\ o.doomed \subseteq Names
  BY <1>1, <1>2, <1>3 DEF Task, Build
<1>5. spoilt \subseteq Names /\ ~lost /\ lost \in BOOLEAN
  BY DEF CacheInv, TypeOK, Typed
<1>6. CASE cache[f] = Absent
  <2>1. ~o.alone
    BY <1>3, <1>4, <1>6 DEF Finds, Present
  <2>2. Ends(b) /\ UNCHANGED <<cache, spoilt, lost>>
    BY <1>1, <1>2, <1>5, <1>6, <2>1 DEF CubinMissing
  <2> QED  BY <1>1, <1>2, <1>4, <1>5, <2>2, EndStep
<1>7. CASE cache[f] # Absent
  <2>1. /\ cache' = [cache EXCEPT ![f] = Absent] /\ spoilt' = spoilt \ {f}
        /\ UNCHANGED <<source, header, edits, embedded, starts, overlapped, lost>>
    BY <1>1, <1>7
  <2>2. PICK r : r = [o EXCEPT !.doomed = @ \ {f}]
    OBVIOUS
  <2>3. r \in Build /\ r.doomed = o.doomed \ {f} /\ r.at = o.at /\ r.list = o.list
        /\ r.valid = o.valid /\ r.left = o.left /\ r.cubins = o.cubins /\ r.head = o.head
        /\ r.edited = o.edited /\ r.alone = o.alone /\ r.tainted = o.tainted /\ r.key = o.key
        /\ r.stale = o.stale /\ r.image = o.image
    BY <2>2 DEF Build
  <2>4. /\ build' \in [Builds -> Build] /\ build'[b] = r
        /\ \A c \in Builds : c # b => IF build[c].at = "writing" /\ build[c].key = f
                                       THEN build'[c] = [build[c] EXCEPT !.at = "unlinked"]
                                       ELSE build'[c] = build[c]
    <3>1. build \in [Builds -> Build]
      BY DEF CacheInv, Typed
    <3>2. build' = [c \in Builds |->
                       IF c = b THEN r
                       ELSE IF build[c].at = "writing" /\ build[c].key = f
                       THEN [build[c] EXCEPT !.at = "unlinked"]
                       ELSE build[c]]
      BY <1>1, <1>2, <1>7, <2>2 DEF Writers, At
    <3>3. \A c \in Builds : [build[c] EXCEPT !.at = "unlinked"] \in Build
      BY <3>1 DEF Build, Places
    <3> QED  BY <2>3, <3>1, <3>2, <3>3
  <2>5. \A c \in Builds : c # b =>
           /\ build'[c].alone = build[c].alone /\ build'[c].edited = build[c].edited
           /\ build'[c].stale = build[c].stale /\ build'[c].valid = build[c].valid
           /\ build'[c].list = build[c].list /\ build'[c].left = build[c].left
           /\ build'[c].head = build[c].head /\ build'[c].cubins = build[c].cubins
           /\ build'[c].key = build[c].key /\ build'[c].image = build[c].image
           /\ build'[c].doomed = build[c].doomed /\ build'[c].tainted = build[c].tainted
           /\ build'[c].at = IF build[c].at = "writing" /\ build[c].key = f THEN "unlinked"
                             ELSE build[c].at
    <3> SUFFICES ASSUME NEW c \in Builds, c # b
                 PROVE  /\ build'[c].alone = build[c].alone /\ build'[c].edited = build[c].edited
                        /\ build'[c].stale = build[c].stale /\ build'[c].valid = build[c].valid
                        /\ build'[c].list = build[c].list /\ build'[c].left = build[c].left
                        /\ build'[c].head = build[c].head /\ build'[c].cubins = build[c].cubins
                        /\ build'[c].key = build[c].key /\ build'[c].image = build[c].image
                        /\ build'[c].doomed = build[c].doomed /\ build'[c].tainted = build[c].tainted
                        /\ build'[c].at = IF build[c].at = "writing" /\ build[c].key = f THEN "unlinked"
                                          ELSE build[c].at
      OBVIOUS
    <3>1. build[c] \in Build
      BY DEF CacheInv, Typed
    <3> QED  BY <2>4, <3>1 DEF Build
  <2>6. Present' = Present \ {f}
    BY <1>4, <2>1 DEF CacheInv, TypeOK, Present
  <2>7. Task(r)
    BY <1>3, <1>4, <2>3 DEF Task, Working, Compiling, InNvcc
  <2>8. ASSUME NEW c \in Builds
        PROVE  Task(build'[c])
    <3>1. CASE c = b
      BY <2>4, <2>7, <3>1
    <3>2. CASE c # b
      <4>1. Task(build[c])
        BY DEF CacheInv, Tasks
      <4> QED  BY <2>5, <3>2, <4>1 DEF Task, Working, Compiling, InNvcc
    <3> QED  BY <3>1, <3>2
  <2>9. ASSUME NEW c \in Builds
        PROVE  Fresh(build'[c])
    <3>1. CASE c = b
      BY <1>3, <2>3, <2>4, <3>1 DEF Fresh
    <3>2. CASE c # b
      <4>1. Fresh(build[c])
        BY DEF CacheInv, AllFresh
      <4> QED  BY <2>5, <3>2, <4>1 DEF Fresh, Working, Compiling, InNvcc
    <3> QED  BY <3>1, <3>2
  <2>10. ASSUME NEW c \in Builds
         PROVE  Done(build'[c])
    <3>1. CASE c = b
      BY <1>3, <2>3, <2>4, <3>1 DEF Done
    <3>2. CASE c # b
      <4>1. Done(build[c])
        BY DEF CacheInv, AllDone
      <4> QED  BY <2>5, <3>2, <4>1 DEF Done
    <3> QED  BY <3>1, <3>2
  <2>11. TypeOK'
    <3>1. cache' \in [Names -> Images \cup {Absent, Partial}]
      BY <2>1 DEF CacheInv, TypeOK
    <3>2. \A c \in Builds : build'[c].at \in Places /\ build'[c].doomed \subseteq Names
      BY <2>4 DEF Build
    <3>3. \A c \in Builds : build'[c].at \in {"prune", "nvcc", "writing", "unlinked"} =>
              build'[c].key \in Names /\ build'[c].key.dtype = Head(build'[c].left)
      BY <2>8 DEF Task, Compiling, Working
    <3> QED  BY <1>5, <2>1, <3>1, <3>2, <3>3 DEF CacheInv, TypeOK
  <2>12. Typed'
    BY <2>1, <2>4 DEF CacheInv, Typed
  <2>13. Tasks'
    BY <2>8 DEF Tasks
  <2>14. AllFresh'
    BY <2>1, <2>9 DEF AllFresh, Fresh
  <2>15. Active' = Active /\ \A c \in Builds : build'[c].alone = build[c].alone
    BY <1>2, <2>3, <2>4, <2>5 DEF Active, At
  <2>16. Solo'
    <3>1. Active \subseteq Builds
      BY DEF Active
    <3> QED  BY <2>1, <2>15, <3>1 DEF CacheInv, Solo
  <2>17. AllFind'
    <3> SUFFICES ASSUME NEW c \in Builds, build'[c].at # "off", build'[c].alone
                 PROVE  /\ build'[c].doomed \subseteq Present'
                        /\ build'[c].at \in Working => build'[c].cubins \subseteq Present'
                        /\ build'[c].at # "unlinked"
      BY DEF AllFind, Finds
    <3>1. c = b
      <4>1. b \in Active /\ c \in Active /\ build[c].alone
        BY <1>2, <1>4, <2>15 DEF Active, At
      <4> QED  BY <4>1 DEF CacheInv, Solo
    <3>2. o.doomed \subseteq Present /\ (o.at \in Working => o.cubins \subseteq Present)
      BY <1>3, <1>4, <2>3, <2>4, <3>1 DEF Finds
    <3>3. o.at \in Working => f \notin o.cubins
      <4> SUFFICES ASSUME o.at \in Working, f \in o.cubins PROVE FALSE
        OBVIOUS
      <4>1. /\ o.at = "prune" /\ o.left \in Seq(DtypeSet(First(o.list))) /\ o.left # <<>>
            /\ f.dtype = o.key.dtype /\ o.key.dtype = Head(o.left)
            /\ \A i \in 1 .. Len(o.left) : o.left[i] # f.dtype
        BY <1>3, <1>4 DEF Task, Working, Compiling
      <4>2. 1 \in 1 .. Len(o.left) /\ Head(o.left) = o.left[1]
        BY <4>1
      <4> QED  BY <4>1, <4>2
    <3> QED  BY <1>4, <2>3, <2>4, <2>6, <3>1, <3>2, <3>3
  <2>18. OneVersion'
    <3> SUFFICES ASSUME ~overlapped
                 PROVE  /\ \A g, h \in Present' : g.kernel = h.kernel /\ g.dtype = h.dtype => g = h
                        /\ \A c \in Builds : build'[c].at \in {"prune", "nvcc", "writing"} =>
                              {g \in Present' : /\ g.kernel = build'[c].key.kernel
                                                /\ g.dtype = build'[c].key.dtype} \ {build'[c].key}
                                 \subseteq build'[c].doomed
      BY <2>1 DEF OneVersion, OldVersions
    <3>1. \A g, h \in Present' : g.kernel = h.kernel /\ g.dtype = h.dtype => g = h
      BY <2>6 DEF CacheInv, OneVersion
    <3>2. ASSUME NEW c \in Builds, build'[c].at \in {"prune", "nvcc", "writing"}
          PROVE  OldVersions(build'[c].key) \ {f} \subseteq build'[c].doomed
      <4>1. OldVersions(build[c].key) \subseteq build[c].doomed
        BY <1>2, <2>3, <2>4, <2>5, <3>2 DEF CacheInv, OneVersion
      <4> QED  BY <1>2, <2>3, <2>4, <2>5, <4>1
    <3>3. \A c \in Builds : build'[c].at \in {"prune", "nvcc", "writing"} =>
             {g \in Present' : g.kernel = build'[c].key.kernel /\ g.dtype = build'[c].key.dtype}
                \ {build'[c].key} \subseteq build'[c].doomed
      BY <2>6, <3>2 DEF OldVersions
    <3> QED  BY <3>1, <3>3
  <2>19. CacheMatchesKeys'
    <3> SUFFICES ASSUME NEW g \in Present', cache'[g] # Meant(g), g \notin spoilt'
                 PROVE  \E w \in Builds : build'[w].at = "writing" /\ build'[w].key = g
      BY DEF CacheMatchesKeys, Meant, Image, Writers, At
    <3>1. g # f /\ g \in Present /\ g \in Names
      BY <2>6 DEF Present
    <3>2. cache'[g] = cache[g]
      BY <2>1, <3>1 DEF CacheInv, TypeOK
    <3>3. PICK w \in Builds : build[w].at = "writing" /\ build[w].key = g
      BY <2>1, <3>1, <3>2 DEF CacheInv, CacheMatchesKeys, Writers, At
    <3>4. w # b
      BY <1>2, <1>4, <3>3
    <3> QED  BY <2>5, <3>1, <3>3, <3>4
  <2>20. AllDone'
    BY <2>1, <2>10 DEF AllDone, Done
  <2>21. ~lost'
    BY <1>5, <2>1
  <2> QED  BY <2>11, <2>12, <2>13, <2>14, <2>16, <2>17, <2>18, <2>19, <2>20, <2>21 DEF CacheInv
<1> QED  BY <1>6, <1>7

-----------------------------------------------------------------------------
(* One source after another *)

LEMMA DtypesTyped ==
    ASSUME NEW S \in SUBSET KernelSet, S # {}
    PROVE  DtypesOf[First(S)] \in Seq(Dtypes)
<1>1. PICK k \in KernelSet : k = First(S)
  BY FirstIn
<1>2. PICK s \in Seq(DtypeSet(k)) : s = DtypesOf[k]
  BY <1>1, CacheAssumption
<1>3. Len(s) \in Nat /\ DOMAIN s = 1 .. Len(s) /\ \A i \in 1 .. Len(s) : s[i] \in DtypeSet(k)
  BY <1>2
<1>4. DtypeSet(k) \subseteq Dtypes
  BY <1>1 DEF Dtypes
<1> QED  BY <1>1, <1>2, <1>3, <1>4, SeqDef

\* A build that comes to a source has all of its dtypes to do, each once.
LEMMA TaskBegun ==
    ASSUME NEW S \in SUBSET KernelSet, S # {}, NEW r, r.at = "look", r.list = S, S \subseteq r.valid,
           r.left = DtypesOf[First(S)], r.cubins = {}, r.doomed = {}
    PROVE  Task(r)
<1>1. PICK k \in KernelSet : k = First(S)
  BY FirstIn
<1>2. PICK s \in Seq(DtypeSet(k)) : s = DtypesOf[k]
  BY <1>1, CacheAssumption
<1>3. Len(s) \in Nat /\ DOMAIN s = 1 .. Len(s) /\ \A i \in 1 .. Len(s) : s[i] \in DtypeSet(k)
  BY <1>2
<1>4. \A i, j \in 1 .. Len(s) : s[i] = s[j] => i = j
  BY <1>2, <1>3, CacheAssumption
<1>5. \A d \in DtypeSet(k) : \E i \in 1 .. Len(s) : s[i] = d
  BY <1>2, <1>3 DEF DtypeSet
<1> QED  BY <1>1, <1>2, <1>4, <1>5 DEF Task, Working, Compiling, InNvcc

\* A build without company embeds what the sources say.
LEMMA DoneEmbedded ==
    ASSUME CacheInv, NEW b \in Builds, build[b].at = "look", build[b].left = <<>>,
           build[b].cubins \subseteq Present, build[b].alone, build[b].edited = {},
           build[b].cubins \cap spoilt = {},
           NEW d \in DtypeSet(First(build[b].list)),
           NEW f, f = CHOOSE g \in build[b].cubins : g.dtype = d
    PROVE  cache[f] = Image(source[First(build[b].list)], header)
<1>1. PICK o \in Build : o = build[b] /\ Task(o) /\ Fresh(o)
  BY DEF CacheInv, Typed, Tasks, AllFresh
<1>2. o.at = "look" /\ o.at \in Working /\ Len(o.left) = 0
  BY <1>1 DEF Working
<1>3. \E g \in o.cubins : g.dtype = d
  BY <1>1, <1>2 DEF Task
<1>4. f \in o.cubins /\ f.kernel = First(o.list) /\ f.header = o.head
  BY <1>1, <1>2, <1>3 DEF Task
<1>5. f.text = source[f.kernel] /\ o.head = header
  BY <1>1, <1>2, <1>4 DEF Fresh
<1>6. Writers(f) = {}
  <2> SUFFICES ASSUME NEW w \in Builds, build[w].at = "writing" PROVE FALSE
    BY DEF Writers, At
  <2>1. b \in Active /\ w \in Active
    BY DEF Active, At
  <2> QED  BY <2>1 DEF CacheInv, Solo
<1>7. cache[f] = Meant(f)
  BY <1>1, <1>4, <1>6 DEF CacheInv, CacheMatchesKeys
<1> QED  BY <1>1, <1>4, <1>5, <1>7 DEF Meant

LEMMA InvEmbed ==
    ASSUME CacheInv, NEW b \in Builds, Embed(b)
    PROVE  CacheInv'
<1>1. PICK o \in Build : o = build[b] /\ Task(o) /\ Fresh(o) /\ Finds(o) /\ Done(o)
  BY DEF CacheInv, Typed, Tasks, AllFresh, AllFind, AllDone
<1>2. o.at = "look" /\ o.at \in Working /\ o.left = <<>> /\ o.at # "off" /\ o.doomed = {}
  BY <1>1 DEF Embed, At, Task, Working
<1>3. UNCHANGED <<source, header, edits, cache, starts, spoilt, overlapped>>
  BY DEF Embed, texts
<1>4. spoilt \subseteq Names /\ ~lost /\ lost \in BOOLEAN
  BY DEF CacheInv, TypeOK, Typed
<1>5. PICK k \in KernelSet : k = First(o.list) /\ k \in o.list
  BY <1>1, <1>2, FirstIn DEF Task, Build
<1>6. PICK rest \in SUBSET KernelSet : rest = o.list \ {k}
  BY DEF Build
<1>7. CASE ~Readable(o.cubins)
  <2>1. ~o.alone
    BY <1>1, <1>2, <1>7 DEF Finds, Readable
  <2>2. CubinMissing(b) /\ UNCHANGED embedded
    BY <1>1, <1>7 DEF Embed
  <2>3. Ends(b) /\ UNCHANGED <<embedded, lost>>
    BY <1>1, <1>4, <2>1, <2>2 DEF CubinMissing
  <2> QED  BY <1>1, <1>2, <1>3, <1>4, <2>3, EndStep
<1>8. CASE Readable(o.cubins)
  <2>1. PICK tainted \in BOOLEAN :
           /\ tainted <=> o.tainted \/ o.cubins \cap spoilt # {}
           /\ tainted = (o.tainted \/ o.cubins \cap spoilt # {})
    <3>1. CASE o.tainted \/ o.cubins \cap spoilt # {}
      <4>1. (o.tainted \/ o.cubins \cap spoilt # {}) = TRUE
        BY <3>1
      <4> QED  BY <4>1
    <3>2. CASE ~(o.tainted \/ o.cubins \cap spoilt # {})
      <4>1. (o.tainted \/ o.cubins \cap spoilt # {}) = FALSE
        BY <3>2
      <4> QED  BY <4>1
    <3> QED  BY <3>1, <3>2
  <2>2. PICK next : next = [o EXCEPT !.list = rest, !.cubins = {}, !.tainted = tainted]
    OBVIOUS
  <2>3. /\ next \in Build /\ next.at = "look" /\ next.list = rest /\ next.cubins = {}
        /\ next.tainted = tainted /\ next.valid = o.valid /\ next.left = <<>> /\ next.head = o.head
        /\ next.doomed = {} /\ next.edited = o.edited /\ next.alone = o.alone
    BY <1>2, <2>2 DEF Build
  <2>4. PICK gone : gone = {f \in Present : f.kernel \notin o.valid}
    OBVIOUS
  <2>5. PICK r : r = IF rest # {} THEN [next EXCEPT !.left = DtypesOf[First(rest)]]
                     ELSE [next EXCEPT !.at = "orphans", !.doomed = gone]
    OBVIOUS
  <2>6. /\ build' = [build EXCEPT ![b] = r] /\ UNCHANGED lost
        /\ embedded' = [embedded EXCEPT ![k] =
                           [d \in DtypeSet(k) |-> cache[CHOOSE f \in o.cubins : f.dtype = d]]]
    <3>1. /\ embedded' = [embedded EXCEPT ![k] =
                             [d \in DtypeSet(k) |-> cache[CHOOSE f \in o.cubins : f.dtype = d]]]
          /\ build' = [build EXCEPT ![b] =
                IF rest # {}
                THEN [[o EXCEPT !.list = rest, !.cubins = {}, !.tainted = @ \/ o.cubins \cap spoilt # {}]
                         EXCEPT !.left = DtypesOf[First(rest)]]
                ELSE [[o EXCEPT !.list = rest, !.cubins = {}, !.tainted = @ \/ o.cubins \cap spoilt # {}]
                         EXCEPT !.at = "orphans",
                                !.doomed = {f \in Present : f.kernel \notin o.valid}]]
          /\ UNCHANGED lost
      BY <1>1, <1>5, <1>6, <1>8 DEF Embed
    <3>2. next = [o EXCEPT !.list = rest, !.cubins = {}, !.tainted = @ \/ o.cubins \cap spoilt # {}]
      BY <2>1, <2>2 DEF Build
    <3> QED  BY <2>4, <2>5, <3>1, <3>2
  <2>7. gone \subseteq Names /\ gone \subseteq Present
    BY <2>4 DEF Present
  <2>8. /\ r \in Build /\ Task(r) /\ Fresh(r) /\ Finds(r) /\ r.alone = o.alone /\ r.list = rest
        /\ r.valid = o.valid /\ r.edited = o.edited /\ r.tainted = tainted
        /\ r.at \in {"look", "orphans"}
    <3>1. CASE rest # {}
      <4>1. DtypesOf[First(rest)] \in Seq(Dtypes)
        BY <3>1, DtypesTyped
      <4>2. r = [next EXCEPT !.left = DtypesOf[First(rest)]]
        BY <2>5, <3>1
      <4>3. /\ r \in Build /\ r.at = "look" /\ r.list = rest /\ r.cubins = {} /\ r.doomed = {}
            /\ r.tainted = tainted /\ r.valid = o.valid /\ r.left = DtypesOf[First(rest)]
            /\ r.head = o.head /\ r.edited = o.edited /\ r.alone = o.alone
        BY <2>3, <4>1, <4>2 DEF Build
      <4>4. rest \subseteq r.valid
        BY <1>1, <1>6, <4>3 DEF Task
      <4>5. Task(r)
        BY <3>1, <4>3, <4>4, TaskBegun
      <4>6. Fresh(r) /\ Finds(r)
        BY <1>1, <1>2, <4>3 DEF Fresh, Finds, Working, Compiling, InNvcc
      <4> QED  BY <4>3, <4>5, <4>6
    <3>2. CASE rest = {}
      <4>1. r = [next EXCEPT !.at = "orphans", !.doomed = gone]
        BY <2>5, <3>2
      <4>2. /\ r \in Build /\ r.at = "orphans" /\ r.list = rest /\ r.doomed = gone
            /\ r.tainted = tainted /\ r.valid = o.valid /\ r.edited = o.edited /\ r.alone = o.alone
        BY <2>3, <2>7, <4>1 DEF Build, Places
      <4>3. Task(r)
        BY <3>2, <4>2 DEF Task, Working, Compiling, InNvcc
      <4>4. Fresh(r) /\ Finds(r)
        BY <2>7, <4>2 DEF Fresh, Finds, Working, Compiling, InNvcc
      <4> QED  BY <4>2, <4>3, <4>4
    <3> QED  BY <3>1, <3>2
  <2>9. /\ embedded'[k] = [d \in DtypeSet(k) |-> cache[CHOOSE f \in o.cubins : f.dtype = d]]
        /\ \A h \in KernelSet : h # k => embedded'[h] = embedded[h]
        /\ embedded' = [h \in KernelSet |-> embedded'[h]]
    <3>1. embedded = [h \in KernelSet |-> embedded[h]]
      BY DEF CacheInv, Typed
    <3> QED  BY <2>6, <3>1
  <2>10. \A h \in KernelSet : \A d \in DOMAIN embedded'[h] :
            d \in DtypeSet(h) /\ embedded'[h][d] \in Images \cup {Partial}
    <3> SUFFICES ASSUME NEW h \in KernelSet, NEW d \in DOMAIN embedded'[h]
                 PROVE  d \in DtypeSet(h) /\ embedded'[h][d] \in Images \cup {Partial}
      OBVIOUS
    <3>1. CASE h # k
      BY <2>9, <3>1 DEF CacheInv, TypeOK
    <3>2. CASE h = k
      <4>1. d \in DtypeSet(k)
        BY <2>9, <3>2
      <4>2. PICK f : f = CHOOSE g \in o.cubins : g.dtype = d
        OBVIOUS
      <4>3. f \in o.cubins
        <5>1. Len(o.left) = 0
          BY <1>2
        <5>2. \E g \in o.cubins : g.dtype = d
          BY <1>1, <1>2, <1>5, <4>1, <5>1 DEF Task
        <5> QED  BY <4>2, <5>2
      <4>4. cache[f] \in Images \cup {Partial}
        BY <1>8, <4>3 DEF Readable, Present, CacheInv, TypeOK
      <4> QED  BY <2>9, <3>2, <4>1, <4>2, <4>4
    <3> QED  BY <3>1, <3>2
  <2>11. TypeOK' /\ Typed' /\ Tasks' /\ AllFresh' /\ Solo' /\ AllFind'
    <3>1. Present' = Present /\ cache' \in [Names -> Images \cup {Absent, Partial}]
      BY <1>3 DEF Present, CacheInv, TypeOK
    <3>2. r.at # "off" /\ r.alone =>
              /\ r.doomed \subseteq Present' /\ (r.at \in Working => r.cubins \subseteq Present')
              /\ r.at # "unlinked"
      BY <2>8, <3>1 DEF Finds
    <3>3. spoilt' \subseteq Names /\ ~lost' /\ lost' \in BOOLEAN /\ Present \subseteq Present'
      BY <1>3, <1>4, <2>6, <3>1
    <3>4. build[b].at # "off" /\ r.alone = build[b].alone
      BY <1>1, <1>2, <2>8
    <3> QED  BY <1>3, <2>6, <2>8, <2>9, <2>10, <3>1, <3>2, <3>3, <3>4, OwnStep
  <2>12. OneVersion' /\ CacheMatchesKeys'
    <3>1. build[b].at # "writing" /\ r.at \notin {"prune", "nvcc", "writing"} /\ spoilt \subseteq spoilt'
      BY <1>1, <1>2, <1>3, <2>8
    <3> QED  BY <1>3, <2>6, <2>8, <3>1, FilesKept
  <2>13. AllDone'
    <3> SUFFICES ASSUME NEW c \in Builds, build'[c].at # "off", build'[c].alone,
                        build'[c].edited = {}, ~build'[c].tainted,
                        NEW h \in build'[c].valid \ build'[c].list, NEW d \in DtypeSet(h)
                 PROVE  embedded'[h][d] = Image(source[h], header)
      BY <1>3 DEF AllDone, Done, Image
    <3>1. build'[b] = r /\ (c # b => build'[c] = build[c])
      BY ZenonT(30), <2>6, <2>8, OneBuild
    <3>2. c = b
      <4>1. b \in Active /\ (c # b => c \in Active /\ build[c].alone)
        BY <1>1, <1>2, <3>1 DEF Active, At
      <4> QED  BY <4>1 DEF CacheInv, Solo
    <3>3. o.alone /\ o.edited = {} /\ ~o.tainted /\ o.cubins \cap spoilt = {} /\ h \in o.valid \ rest
      BY <2>1, <2>8, <3>1, <3>2
    <3>4. CASE h = k
      <4>1. embedded'[h][d] = cache[CHOOSE f \in o.cubins : f.dtype = d]
        BY <2>9, <3>4
      <4>2. PICK f : f = CHOOSE g \in o.cubins : g.dtype = d
        OBVIOUS
      <4>3. cache[f] = Image(source[k], header)
        BY <1>1, <1>2, <1>5, <1>8, <3>3, <3>4, <4>2, DoneEmbedded DEF Readable
      <4> QED  BY <3>4, <4>1, <4>2, <4>3
    <3>5. CASE h # k
      <4>1. h \in o.valid \ o.list /\ h \in KernelSet
        BY <1>6, <3>3, <3>5 DEF Build
      <4> QED  BY <1>1, <1>2, <2>9, <3>3, <3>5, <4>1 DEF Done
    <3> QED  BY <3>4, <3>5
  <2>14. ~lost'
    BY <1>4, <2>6
  <2> QED  BY <2>11, <2>12, <2>13, <2>14 DEF CacheInv
<1> QED  BY <1>7, <1>8

LEMMA InvStart ==
    ASSUME CacheInv, NEW b \in Builds, Start(b)
    PROVE  CacheInv'
<1>1. /\ build[b].at = "off" /\ starts < MaxStarts /\ starts' = starts + 1
      /\ UNCHANGED <<source, header, edits, cache, embedded, spoilt, lost>>
  BY DEF Start, At, texts
<1>2. PICK S \in SUBSET KernelSet : S = {k \in KernelSet : source[k] # Gone} /\ S # {}
  BY DEF Start
<1>3. PICK alone \in BOOLEAN : alone = (Active = {}) /\ (alone <=> Active = {})
  <2>1. CASE Active = {}
    <3>1. (Active = {}) = TRUE
      BY <2>1
    <3> QED  BY <3>1
  <2>2. CASE Active # {}
    <3>1. (Active = {}) = FALSE
      BY <2>2
    <3> QED  BY <3>1
  <2> QED  BY <2>1, <2>2
<1>4. PICK r : r = [Off EXCEPT !.at = "look", !.alone = alone, !.head = header, !.list = S,
                               !.valid = S, !.left = DtypesOf[First(S)]]
  OBVIOUS
<1>5. /\ build' = [c \in Builds |-> IF c = b THEN r
                                    ELSE [build[c] EXCEPT !.alone = @ /\ c \notin Active]]
      /\ overlapped' = (overlapped \/ ~alone)
  BY <1>2, <1>3, <1>4 DEF Start
<1>6. /\ r \in Build /\ r.at = "look" /\ r.alone = alone /\ r.edited = {} /\ r.list = S
      /\ r.valid = S /\ r.left = DtypesOf[First(S)] /\ r.head = header /\ r.cubins = {}
      /\ r.doomed = {}
  <2>1. header \in Versions /\ DtypesOf[First(S)] \in Seq(Dtypes)
    BY <1>2, DtypesTyped DEF CacheInv, TypeOK
  <2> QED  BY <1>2, <1>3, <1>4, <2>1 DEF Off, Build, Places
<1>7. Task(r) /\ Fresh(r)
  <2>1. Task(r)
    BY <1>2, <1>6, TaskBegun
  <2> QED  BY <1>6, <2>1 DEF Fresh, Working, Compiling, InNvcc
<1>8. ASSUME NEW c \in Builds, c # b
      PROVE  \/ c \in Active /\ build'[c] \in Build /\ build'[c] = [build[c] EXCEPT !.alone = FALSE]
             \/ c \notin Active /\ build'[c] = build[c]
  <2>1. build[c] \in Build
    BY DEF CacheInv, Typed
  <2>2. build'[c] = [build[c] EXCEPT !.alone = @ /\ c \notin Active]
    BY <1>5, <1>8
  <2>3. CASE c \in Active
    <3>1. (build[c].alone /\ c \notin Active) = FALSE
      BY <2>3
    <3>2. build'[c] = [build[c] EXCEPT !.alone = FALSE]
      BY <2>2, <3>1
    <3>3. build'[c] \in Build
      BY <2>1, <3>2 DEF Build
    <3> QED  BY <2>3, <3>2, <3>3
  <2>4. CASE c \notin Active
    <3>1. (build[c].alone /\ c \notin Active) = build[c].alone
      <4>1. build[c].alone \in BOOLEAN
        BY <2>1 DEF Build
      <4>2. CASE build[c].alone = TRUE
        BY <2>4, <4>2
      <4>3. CASE build[c].alone = FALSE
        BY <4>3
      <4> QED  BY <4>1, <4>2, <4>3
    <3>2. build'[c] = [build[c] EXCEPT !.alone = build[c].alone]
      BY <2>2, <3>1
    <3>3. build'[c] = build[c]
      BY <2>1, <3>2 DEF Build
    <3> QED  BY <2>4, <3>3
  <2> QED  BY <2>3, <2>4
<1>9. ASSUME NEW c \in Builds, c # b
      PROVE  /\ build'[c] \in Build /\ build'[c].edited = build[c].edited
             /\ build'[c].stale = build[c].stale /\ build'[c].valid = build[c].valid
             /\ build'[c].list = build[c].list /\ build'[c].left = build[c].left
             /\ build'[c].head = build[c].head /\ build'[c].cubins = build[c].cubins
             /\ build'[c].key = build[c].key /\ build'[c].image = build[c].image
             /\ build'[c].doomed = build[c].doomed /\ build'[c].tainted = build[c].tainted
             /\ build'[c].at = build[c].at
             /\ build'[c].alone => build[c].at = "off"
  <2>1. build[c] \in Build
    BY DEF CacheInv, Typed
  <2>2. c \in Active <=> build[c].at # "off"
    BY DEF Active, At
  <2>3. CASE c \in Active
    <3>1. build'[c] \in Build /\ build'[c] = [build[c] EXCEPT !.alone = FALSE]
      BY <1>8, <1>9, <2>3
    <3>2. build'[c].alone = FALSE
      BY <2>1, <3>1 DEF Build
    <3> QED  BY <2>1, <3>1, <3>2 DEF Build
  <2>4. CASE c \notin Active
    BY <1>8, <1>9, <2>1, <2>2, <2>4
  <2> QED  BY <2>3, <2>4
<1>10. /\ build'[b] = r /\ build' \in [Builds -> Build]
       /\ Present' = Present
  <2>1. build'[b] = r /\ build' = [c \in Builds |-> build'[c]]
    BY <1>5
  <2>2. \A c \in Builds : build'[c] \in Build
    BY <1>6, <1>9, <2>1
  <2> QED  BY <1>1, <2>1, <2>2 DEF Present
<1>11. ASSUME NEW c \in Builds
       PROVE  Task(build'[c]) /\ Fresh(build'[c])
  <2>1. CASE c = b
    BY <1>7, <1>10, <2>1
  <2>2. CASE c # b
    <3>1. Task(build[c]) /\ Fresh(build[c])
      BY DEF CacheInv, Tasks, AllFresh
    <3>2. Task(build'[c])
      BY <1>9, <2>2, <3>1 DEF Task
    <3>3. Fresh(build'[c])
      BY <1>9, <2>2, <3>1 DEF Fresh
    <3> QED  BY <3>2, <3>3
  <2> QED  BY <2>1, <2>2
<1>12. TypeOK'
  <2>1. \A c \in Builds : build'[c].at \in Places /\ build'[c].doomed \subseteq Names
    BY <1>10 DEF Build
  <2>2. \A c \in Builds : build'[c].at \in {"prune", "nvcc", "writing", "unlinked"} =>
            build'[c].key \in Names /\ build'[c].key.dtype = Head(build'[c].left)
    BY <1>11 DEF Task, Compiling, Working
  <2>3. starts' \in 0 .. MaxStarts
    BY <1>1, CacheAssumption DEF CacheInv, TypeOK
  <2> QED  BY <1>1, <2>1, <2>2, <2>3 DEF CacheInv, TypeOK
<1>13. overlapped' \in BOOLEAN /\ (~overlapped' => ~overlapped /\ Active = {})
  <2>1. CASE overlapped \/ ~alone
    <3>1. overlapped' = TRUE
      BY <1>5, <2>1
    <3> QED  BY <3>1
  <2>2. CASE ~(overlapped \/ ~alone)
    <3>1. overlapped' = FALSE
      <4>1. (overlapped \/ ~alone) = FALSE
        BY <2>2
      <4> QED  BY <1>5, <4>1
    <3> QED  BY <1>3, <2>2, <3>1
  <2> QED  BY <2>1, <2>2
<1>14. Typed'
  BY <1>1, <1>10, <1>13 DEF CacheInv, Typed
<1>15. Tasks' /\ AllFresh'
  BY <1>1, <1>11 DEF Tasks, AllFresh, Fresh, Meant
<1>16. Solo'
  <2>1. \A c \in Builds : c # b /\ build'[c].at # "off" => c \in Active /\ ~build'[c].alone
    BY <1>9 DEF Active, At
  <2>2. build'[b].alone => Active = {}
    BY <1>3, <1>6, <1>10
  <2>3. Active = {} => build'[b].alone
    BY <1>3, <1>6, <1>10
  <2> QED  BY <1>13, <2>1, <2>2, <2>3 DEF Solo, Active, At
<1>17. AllFind'
  <2> SUFFICES ASSUME NEW c \in Builds, build'[c].at # "off", build'[c].alone
               PROVE  /\ build'[c].doomed \subseteq Present
                      /\ build'[c].at \in Working => build'[c].cubins \subseteq Present
                      /\ build'[c].at # "unlinked"
    BY <1>10 DEF AllFind, Finds
  <2>1. c = b
    BY <1>9
  <2> QED  BY <1>6, <1>10, <2>1
<1>18. OneVersion'
  <2> SUFFICES ASSUME ~overlapped, Active = {}
               PROVE  /\ \A f, g \in Present : f.kernel = g.kernel /\ f.dtype = g.dtype => f = g
                      /\ \A c \in Builds : build'[c].at \notin {"prune", "nvcc", "writing"}
    BY <1>10, <1>13 DEF OneVersion, OldVersions
  <2>1. \A c \in Builds : build'[c].at \notin {"prune", "nvcc", "writing"}
    BY <1>6, <1>9, <1>10 DEF Active, At
  <2> QED  BY <2>1 DEF CacheInv, OneVersion
<1>19. CacheMatchesKeys'
  <2> SUFFICES ASSUME NEW f \in Present, cache[f] # Meant(f), f \notin spoilt
               PROVE  \E w \in Builds : build'[w].at = "writing" /\ build'[w].key = f
    BY <1>1, <1>10 DEF CacheMatchesKeys, Meant, Image, Writers, At
  <2>1. PICK w \in Builds : build[w].at = "writing" /\ build[w].key = f
    BY DEF CacheInv, CacheMatchesKeys, Writers, At
  <2>2. w # b
    BY <1>1, <2>1
  <2> QED  BY <1>9, <2>1, <2>2
<1>20. AllDone'
  <2> SUFFICES ASSUME NEW c \in Builds, build'[c].at # "off", build'[c].alone,
                      NEW h \in build'[c].valid \ build'[c].list
               PROVE  FALSE
    BY DEF AllDone, Done
  <2>1. c = b
    BY <1>9
  <2> QED  BY <1>6, <1>10, <2>1
<1>21. ~lost'
  BY <1>1 DEF CacheInv
<1> QED  BY <1>12, <1>14, <1>15, <1>16, <1>17, <1>18, <1>19, <1>20, <1>21 DEF CacheInv

-----------------------------------------------------------------------------
(* Edits *)

\* What an edit tells the builds that run, one by one.
LEMMA EditStep ==
    ASSUME CacheInv, source' \in [KernelSet -> Versions \cup {Gone}], header' \in Versions,
           edits' \in 0 .. MaxEdits, build' \in [Builds -> Build],
           UNCHANGED <<cache, embedded, starts, spoilt, overlapped, lost>>,
           \A c \in Builds :
              /\ build'[c].at = build[c].at /\ build'[c].alone = build[c].alone
              /\ build'[c].valid = build[c].valid /\ build'[c].list = build[c].list
              /\ build'[c].left = build[c].left /\ build'[c].head = build[c].head
              /\ build'[c].cubins = build[c].cubins /\ build'[c].key = build[c].key
              /\ build'[c].image = build[c].image /\ build'[c].doomed = build[c].doomed
              /\ build[c].at # "off" =>
                    /\ build'[c].edited # {}
                    /\ "header" \notin build'[c].edited => "header" \notin build[c].edited /\ header' = header
                    /\ ~build'[c].stale =>
                          /\ ~build[c].stale
                          /\ build[c].at = "prune" => /\ source'[build[c].key.kernel] = source[build[c].key.kernel]
                                                     /\ header' = header
    PROVE  CacheInv'
<1>1. Present' = Present
  BY DEF Present
<1>2. TypeOK'
  <2>1. \A c \in Builds : /\ build'[c].at \in Places /\ build'[c].doomed \subseteq Names
                         /\ build'[c].at \in {"prune", "nvcc", "writing", "unlinked"} =>
                               build'[c].key \in Names /\ build'[c].key.dtype = Head(build'[c].left)
    BY DEF CacheInv, TypeOK
  <2> QED  BY <2>1 DEF CacheInv, TypeOK
<1>3. Typed'
  BY DEF CacheInv, Typed
<1>4. Tasks'
  <2>1. \A c \in Builds : Task(build[c])
    BY DEF CacheInv, Tasks
  <2>2. ASSUME NEW c \in Builds
        PROVE  Task(build'[c])
    <3>1. Task(build[c])
      BY <2>1
    <3>2. PICK o, n : o = build[c] /\ n = build'[c]
      OBVIOUS
    <3>3. /\ n.at = o.at /\ n.valid = o.valid /\ n.list = o.list /\ n.left = o.left
          /\ n.head = o.head /\ n.cubins = o.cubins /\ n.key = o.key
          /\ n.image = o.image /\ n.doomed = o.doomed
      BY <3>2
    <3> QED  BY <3>1, <3>2, <3>3 DEF Task
  <2> QED  BY <2>2 DEF Tasks
<1>5. AllFresh'
  <2> SUFFICES ASSUME NEW c \in Builds
               PROVE  /\ build'[c].at \in Working =>
                            ("header" \notin build'[c].edited => build'[c].head = header')
                      /\ build'[c].at \in Working => build'[c].edited # {}
                      /\ build'[c].at = "prune" => (~build'[c].stale =>
                            build'[c].key.text = source'[build'[c].key.kernel] /\ build'[c].key.header = header')
                      /\ build'[c].at \in InNvcc => (~build'[c].stale => build'[c].image = Meant(build'[c].key))
    BY DEF AllFresh, Fresh, Compiling, Working, Meant, Image
  <2>1. Fresh(build[c])
    BY DEF CacheInv, AllFresh
  <2> QED  BY <2>1 DEF Fresh, Working, InNvcc
<1>6. Solo'
  BY DEF CacheInv, Solo, Active, At
<1>7. AllFind'
  <2>1. \A c \in Builds : Finds(build[c])
    BY DEF CacheInv, AllFind
  <2> QED  BY <1>1, <2>1 DEF AllFind, Finds
<1>8. OneVersion'
  <2>1. \A f : OldVersions(f)' = OldVersions(f)
    BY <1>1 DEF OldVersions
  <2> SUFFICES ASSUME ~overlapped
               PROVE  /\ \A f, g \in Present : f.kernel = g.kernel /\ f.dtype = g.dtype => f = g
                      /\ \A c \in Builds : build'[c].at \in {"prune", "nvcc", "writing"} =>
                            OldVersions(build'[c].key) \subseteq build'[c].doomed
    BY <1>1, <2>1 DEF OneVersion, OldVersions
  <2> QED  BY DEF CacheInv, OneVersion
<1>9. CacheMatchesKeys'
  <2> SUFFICES ASSUME NEW f \in Present, cache[f] # Meant(f), f \notin spoilt
               PROVE  \E w \in Builds : build'[w].at = "writing" /\ build'[w].key = f
    BY <1>1 DEF CacheMatchesKeys, Meant, Image, Writers, At
  <2> QED  BY DEF CacheInv, CacheMatchesKeys, Writers, At
<1>10. AllDone'
  <2> SUFFICES ASSUME NEW c \in Builds, build'[c].at # "off", build'[c].edited = {}
               PROVE  FALSE
    BY DEF AllDone, Done
  <2> QED  OBVIOUS
<1>11. ~lost'
  BY DEF CacheInv
<1> QED  BY <1>2, <1>3, <1>4, <1>5, <1>6, <1>7, <1>8, <1>9, <1>10, <1>11 DEF CacheInv

LEMMA InvEdit ==
    ASSUME CacheInv, NEW k \in KernelSet, Edit(k)
    PROVE  CacheInv'
<1>1. /\ edits < MaxEdits /\ edits' = edits + 1
      /\ UNCHANGED <<header, cache, embedded, starts, spoilt, overlapped, lost>>
  BY DEF Edit
<1>2. PICK v \in Versions \cup {Gone} : source' = [source EXCEPT ![k] = v]
  BY DEF Edit
<1>3. /\ source' \in [KernelSet -> Versions \cup {Gone}] /\ header' \in Versions
      /\ edits' \in 0 .. MaxEdits
      /\ \A h \in KernelSet : h # k => source'[h] = source[h]
  BY <1>1, <1>2, CacheAssumption DEF CacheInv, TypeOK
<1>4. ASSUME NEW c \in Builds
      PROVE  /\ build'[c] \in Build
             /\ build'[c].at = build[c].at /\ build'[c].alone = build[c].alone
             /\ build'[c].valid = build[c].valid /\ build'[c].list = build[c].list
             /\ build'[c].left = build[c].left /\ build'[c].head = build[c].head
             /\ build'[c].cubins = build[c].cubins /\ build'[c].key = build[c].key
             /\ build'[c].image = build[c].image /\ build'[c].doomed = build[c].doomed
             /\ build[c].at # "off" =>
                   /\ build'[c].edited # {}
                   /\ "header" \notin build'[c].edited => "header" \notin build[c].edited /\ header' = header
                   /\ ~build'[c].stale =>
                         /\ ~build[c].stale
                         /\ build[c].at = "prune" => /\ source'[build[c].key.kernel] = source[build[c].key.kernel]
                                                    /\ header' = header
  <2>1. build[c] \in Build
    BY DEF CacheInv, Typed
  <2>2. CASE build[c].at = "off"
    <3>1. build'[c] = build[c]
      BY <2>2 DEF Edit, Active, At
    <3> QED  BY <2>1, <2>2, <3>1
  <2>3. CASE build[c].at # "off"
    <3>1. PICK stale \in BOOLEAN : stale = (build[c].stale \/ (build[c].at = "prune" /\ build[c].key.kernel = k)) /\ (stale <=> (build[c].stale \/ (build[c].at = "prune" /\ build[c].key.kernel = k)))
      <4>1. CASE (build[c].stale \/ (build[c].at = "prune" /\ build[c].key.kernel = k))
        <5>1. (build[c].stale \/ (build[c].at = "prune" /\ build[c].key.kernel = k)) = TRUE
          BY <4>1
        <5> QED  BY <4>1, <5>1
      <4>2. CASE ~(build[c].stale \/ (build[c].at = "prune" /\ build[c].key.kernel = k))
        <5>1. (build[c].stale \/ (build[c].at = "prune" /\ build[c].key.kernel = k)) = FALSE
          BY <4>2
        <5> QED  BY <4>2, <5>1
      <4> QED  BY <4>1, <4>2
    <3>2. build'[c] = [build[c] EXCEPT !.edited = @ \cup {k}, !.stale = @ \/ (build[c].at = "prune" /\ build[c].key.kernel = k)]
      BY <2>3 DEF Edit, Active, At
    <3>3. PICK text \in KernelSet \cup {"header"} : text = k
      OBVIOUS
    <3>4. PICK o \in Build : o = build[c]
      BY <2>1
    <3>5. PICK n : n = [o EXCEPT !.edited = o.edited \cup {text}, !.stale = stale]
      OBVIOUS
    <3>6. build'[c] = n
      BY <3>1, <3>2, <3>3, <3>4, <3>5
    <3>7. /\ n \in Build /\ n.edited = o.edited \cup {text} /\ n.stale = stale
          /\ n.at = o.at /\ n.alone = o.alone /\ n.valid = o.valid /\ n.list = o.list
          /\ n.left = o.left /\ n.head = o.head /\ n.cubins = o.cubins /\ n.key = o.key
          /\ n.image = o.image /\ n.doomed = o.doomed
      <4>1. o.edited \cup {text} \in SUBSET (KernelSet \cup {"header"})
        BY <3>3, <3>4 DEF Build
      <4>2. n \in Build
        BY <3>1, <3>4, <3>5, <4>1 DEF Build
      <4> QED  BY <3>4, <3>5, <4>2 DEF Build
    <3>8. build[c].at = "prune" => build[c].key.kernel \in KernelSet
      BY Contents DEF CacheInv, TypeOK
    <3>9. ~n.stale => ~build[c].stale /\
             (build[c].at = "prune" => source'[build[c].key.kernel] = source[build[c].key.kernel])
      BY <1>3, <3>1, <3>7, <3>8
    <3> QED  BY <1>1, <3>3, <3>4, <3>6, <3>7, <3>9
  <2> QED  BY <2>2, <2>3
<1>5. build' \in [Builds -> Build]
  <2>1. build' = [c \in Builds |-> build'[c]]
    BY DEF Edit
  <2> QED  BY <1>4, <2>1
<1> QED  BY <1>1, <1>3, <1>4, <1>5, EditStep

LEMMA InvEditHeader ==
    ASSUME CacheInv, EditHeader
    PROVE  CacheInv'
<1>1. /\ edits < MaxEdits /\ edits' = edits + 1
      /\ UNCHANGED <<source, cache, embedded, starts, spoilt, overlapped, lost>>
  BY DEF EditHeader
<1>2. /\ source' \in [KernelSet -> Versions \cup {Gone}] /\ header' \in Versions
      /\ edits' \in 0 .. MaxEdits
  <2>1. source' \in [KernelSet -> Versions \cup {Gone}]
    BY <1>1 DEF CacheInv, TypeOK
  <2>2. header' \in Versions
    BY DEF EditHeader
  <2>3. edits' \in 0 .. MaxEdits
    BY <1>1, CacheAssumption DEF CacheInv, TypeOK
  <2> QED  BY <2>1, <2>2, <2>3
<1>3. ASSUME NEW c \in Builds
      PROVE  /\ build'[c] \in Build
             /\ build'[c].at = build[c].at /\ build'[c].alone = build[c].alone
             /\ build'[c].valid = build[c].valid /\ build'[c].list = build[c].list
             /\ build'[c].left = build[c].left /\ build'[c].head = build[c].head
             /\ build'[c].cubins = build[c].cubins /\ build'[c].key = build[c].key
             /\ build'[c].image = build[c].image /\ build'[c].doomed = build[c].doomed
             /\ build[c].at # "off" =>
                   /\ "header" \in build'[c].edited
                   /\ ~build'[c].stale => ~build[c].stale /\ build[c].at # "prune"
  <2>1. build[c] \in Build
    BY DEF CacheInv, Typed
  <2>2. CASE build[c].at = "off"
    <3>1. build'[c] = build[c]
      BY <2>2 DEF EditHeader, Active, At
    <3> QED  BY <2>1, <2>2, <3>1
  <2>3. CASE build[c].at # "off"
    <3>1. PICK stale \in BOOLEAN : stale = (build[c].stale \/ build[c].at = "prune") /\ (stale <=> (build[c].stale \/ build[c].at = "prune"))
      <4>1. CASE (build[c].stale \/ build[c].at = "prune")
        <5>1. (build[c].stale \/ build[c].at = "prune") = TRUE
          BY <4>1
        <5> QED  BY <4>1, <5>1
      <4>2. CASE ~(build[c].stale \/ build[c].at = "prune")
        <5>1. (build[c].stale \/ build[c].at = "prune") = FALSE
          BY <4>2
        <5> QED  BY <4>2, <5>1
      <4> QED  BY <4>1, <4>2
    <3>2. build'[c] = [build[c] EXCEPT !.edited = @ \cup {"header"}, !.stale = @ \/ (build[c].at = "prune")]
      BY <2>3 DEF EditHeader, Active, At
    <3>3. PICK text \in KernelSet \cup {"header"} : text = "header"
      OBVIOUS
    <3>4. PICK o \in Build : o = build[c]
      BY <2>1
    <3>5. PICK n : n = [o EXCEPT !.edited = o.edited \cup {text}, !.stale = stale]
      OBVIOUS
    <3>6. build'[c] = n
      BY <3>1, <3>2, <3>3, <3>4, <3>5
    <3>7. /\ n \in Build /\ n.edited = o.edited \cup {text} /\ n.stale = stale
          /\ n.at = o.at /\ n.alone = o.alone /\ n.valid = o.valid /\ n.list = o.list
          /\ n.left = o.left /\ n.head = o.head /\ n.cubins = o.cubins /\ n.key = o.key
          /\ n.image = o.image /\ n.doomed = o.doomed
      BY <3>1, <3>3, <3>4, <3>5 DEF Build
    <3> QED  BY <3>1, <3>3, <3>4, <3>6, <3>7
  <2> QED  BY <2>2, <2>3
<1>4. build' \in [Builds -> Build]
  <2>1. build' = [c \in Builds |-> build'[c]]
    BY DEF EditHeader
  <2> QED  BY <1>3, <2>1
<1>5. \A c \in Builds : build[c].at # "off" =>
         /\ build'[c].edited # {}
         /\ "header" \notin build'[c].edited => "header" \notin build[c].edited /\ header' = header
         /\ ~build'[c].stale =>
               /\ ~build[c].stale
               /\ build[c].at = "prune" => /\ source'[build[c].key.kernel] = source[build[c].key.kernel]
                                          /\ header' = header
  BY <1>3
<1> QED  BY <1>1, <1>2, <1>3, <1>4, <1>5, EditStep

-----------------------------------------------------------------------------
(* The theorems *)

LEMMA InvInit == Init => CacheInv
<1> SUFFICES ASSUME Init
             PROVE  CacheInv
  OBVIOUS
<1>1. 1 \in Versions
  BY CacheAssumption DEF Versions
<1>2. PICK r : r = Off
  OBVIOUS
<1>3. r \in Build /\ r.at = "off" /\ r.list = {} /\ r.valid = {} /\ r.doomed = {}
  BY <1>1, <1>2 DEF Off, Build, Places
<1>4. /\ build = [b \in Builds |-> r] /\ \A b \in Builds : build[b] = r
      /\ Present = {} /\ Active = {}
  <2>1. build = [b \in Builds |-> r]
    BY <1>2 DEF Init
  <2>2. Present = {}
    BY DEF Init, Present
  <2> QED  BY <1>3, <2>1, <2>2 DEF Active, At
<1>5. \A k \in KernelSet : DOMAIN embedded[k] = {}
  BY DEF Init
<1>6. TypeOK
  <2>1. edits \in 0 .. MaxEdits /\ starts \in 0 .. MaxStarts
    BY CacheAssumption DEF Init
  <2>2. \A b \in Builds : /\ build[b].at \in Places /\ build[b].doomed \subseteq Names
                         /\ build[b].at \notin {"prune", "nvcc", "writing", "unlinked"}
    BY <1>3, <1>4 DEF Places
  <2>3. /\ source \in [KernelSet -> Versions \cup {Gone}] /\ header \in Versions
        /\ cache \in [Names -> Images \cup {Absent, Partial}] /\ spoilt = {}
    BY <1>1 DEF Init
  <2> QED  BY <1>5, <2>1, <2>2, <2>3 DEF TypeOK
<1>7. Typed
  BY <1>3, <1>4 DEF Init, Typed
<1>8. Tasks /\ AllFresh
  <2>1. Task(r) /\ Fresh(r)
    BY <1>3 DEF Task, Fresh, Working, Compiling, InNvcc
  <2> QED  BY <1>4, <2>1 DEF Tasks, AllFresh
<1>9. Solo
  BY <1>4 DEF Solo
<1>10. AllFind /\ AllDone
  BY <1>3, <1>4 DEF AllFind, Finds, AllDone, Done
<1>11. OneVersion
  BY <1>3, <1>4 DEF OneVersion
<1>12. CacheMatchesKeys /\ ~lost
  BY <1>4 DEF CacheMatchesKeys, Init
<1> QED  BY <1>6, <1>7, <1>8, <1>9, <1>10, <1>11, <1>12 DEF CacheInv

LEMMA InvNext == CacheInv /\ [Next]_vars => CacheInv'
<1> SUFFICES ASSUME CacheInv, [Next]_vars
             PROVE  CacheInv'
  OBVIOUS
<1>1. ASSUME NEW k \in KernelSet, Edit(k)
      PROVE  CacheInv'
  BY <1>1, InvEdit
<1>2. CASE EditHeader
  BY <1>2, InvEditHeader
<1>3. ASSUME NEW b \in Builds, Start(b) \/ Kill(b)
      PROVE  CacheInv'
  BY <1>3, InvStart, InvKill
<1>4. ASSUME NEW b \in Builds, Look(b) \/ Unlink(b) \/ Embed(b) \/ Finish(b)
      PROVE  CacheInv'
  BY <1>4, InvLook, InvUnlink, InvEmbed, InvFails
<1>5. ASSUME NEW b \in Builds,
             NvccReads(b) \/ NvccFails(b) \/ NvccOpens(b) \/ NvccWrites(b) \/ NvccWritesUnlinked(b)
      PROVE  CacheInv'
  BY <1>5, InvNvccReads, InvFails, InvNvccOpens, InvNvccWrites, InvNvccWritesUnlinked
<1>6. CASE UNCHANGED vars
  <2>1. UNCHANGED <<source, header, cache, embedded, build, edits, starts, spoilt, overlapped, lost>>
    BY <1>6 DEF vars
  <2>2. TypeOK' /\ Typed' /\ Solo' /\ ~lost'
    BY <2>1 DEF CacheInv, TypeOK, Typed, Solo, Active, At
  <2>3. Tasks'
    BY <2>1 DEF CacheInv, Tasks
  <2>4. AllFresh'
    BY <2>1 DEF CacheInv, AllFresh, Fresh, Meant
  <2>5. AllFind'
    BY <2>1 DEF CacheInv, AllFind, Finds, Present
  <2>6. OneVersion'
    BY <2>1 DEF CacheInv, OneVersion, OldVersions, Present
  <2>7. CacheMatchesKeys'
    BY <2>1 DEF CacheInv, CacheMatchesKeys, Present, Writers, At, Meant
  <2>8. AllDone'
    BY <2>1 DEF CacheInv, AllDone, Done
  <2> QED  BY <2>2, <2>3, <2>4, <2>5, <2>6, <2>7, <2>8 DEF CacheInv
<1> QED  BY <1>1, <1>2, <1>3, <1>4, <1>5, <1>6 DEF Next, Step

\* Every reachable state satisfies the inductive invariant: what a build of
\* compile_kernel.py may rely on between two of its steps.
THEOREM CacheInvariant == Spec => []CacheInv
<1>1. Init => CacheInv
  BY InvInit
<1>2. CacheInv /\ [Next]_vars => CacheInv'
  BY InvNext
<1> QED  BY <1>1, <1>2, PTL DEF Spec

\* The cache holds images under the names of keys, an _embedded.cuh images of
\* its own dtypes, and a build that compiles has the key of what it compiles.
THEOREM CacheTyped == Spec => []TypeOK
<1>1. CacheInv => TypeOK
  BY DEF CacheInv
<1> QED  BY <1>1, CacheInvariant, PTL

\* A finished file of the cache is the image its name promises, whatever
\* builds raced for it, unless an edit or a kill spoilt it (compile_one).
THEOREM CacheKeepsItsWord == Spec => []CacheMatchesKeys
<1>1. CacheInv => CacheMatchesKeys
  BY DEF CacheInv
<1> QED  BY <1>1, CacheInvariant, PTL

\* What a build without company and without edits embeds is what the sources
\* say: every kernel and every dtype of it (main, write_cuh).
THEOREM EmbeddedIsCurrent == Spec => []EmbedsSources
<1>1. CacheInv => EmbedsSources
  <2> SUFFICES ASSUME CacheInv, NEW b \in Builds,
                      build[b].at = "orphans", build[b].alone, build[b].edited = {}, ~build[b].tainted,
                      NEW k \in build[b].valid, NEW d \in DtypeSet(k)
               PROVE  embedded[k][d] = Image(source[k], header)
    BY DEF EmbedsSources, At
  <2>1. build[b].list = {}
    BY DEF CacheInv, Tasks, Task
  <2>2. Done(build[b])
    BY DEF CacheInv, AllDone
  <2> QED  BY <2>1, <2>2 DEF Done
<1> QED  BY <1>1, CacheInvariant, PTL

\* Pruning takes nothing that a build without company needs, and leaves one
\* version of a kernel and dtype while builds do not meet (prune_old_versions).
THEOREM PruningTakesOnlyTheOld == Spec => []PruningIsSafe
<1>1. CacheInv => PruningIsSafe
  BY DEF CacheInv, OneVersion, PruningIsSafe
<1> QED  BY <1>1, CacheInvariant, PTL
=============================================================================
