----------------------------- MODULE KernelCache -----------------------------
(***************************************************************************)
(* scripts/compile_kernel.py: builds that share one .kernel_cache while    *)
(* the sources are edited.  A build hashes the shared headers once, when   *)
(* it starts, reads each source for its key, and leaves the compilation to *)
(* nvcc, which reads both again and writes straight into the cache.        *)
(*                                                                         *)
(* A text is the number of its version, and the hash of a text that        *)
(* number; one architecture, one set of flags and one nvcc.  The generated *)
(* C++ other than the embedded images depends on no cache and is left out. *)
(***************************************************************************)
EXTENDS Integers, Sequences, FiniteSets, FiniteSetsExt

CONSTANTS
    Builds,         \* processes
    Kernels,        \* in the order of sorted(glob("*.cu"))
    DtypesOf,       \* the dtypes of each, in order
    MaxVersion,     \* bound: versions of each text
    MaxEdits,       \* bound: edits
    MaxStarts,      \* bound: builds started
    None

KernelSet == {Kernels[i] : i \in DOMAIN Kernels}
DtypeSet(k) == {DtypesOf[k][i] : i \in DOMAIN DtypesOf[k]}

\* No source's dtypes name one twice: its header would define it twice.
ASSUME CacheAssumption ==
    /\ Kernels \in Seq(KernelSet)
    /\ \A k \in KernelSet :
          /\ DtypesOf[k] \in Seq(DtypeSet(k))
          /\ \A i, j \in DOMAIN DtypesOf[k] : DtypesOf[k][i] = DtypesOf[k][j] => i = j
    /\ MaxVersion \in Nat \ {0}
    /\ {MaxEdits, MaxStarts} \subseteq Nat

VARIABLES
    source,         \* of each kernel: the version, or Gone
    header,         \* version of the shared headers
    cache,          \* of each name: what the file holds, or Absent
    embedded,       \* of each kernel: what its _embedded.cuh holds, by dtype
    build,
    edits,
    starts,
    spoilt,         \* names spoilt by an edit or by a kill
    overlapped,     \* whether two builds have ever run at once
    lost            \* whether a build without company has ever missed a file

vars == <<source, header, cache, embedded, build, edits, starts, spoilt, overlapped, lost>>
texts == <<source, header, edits>>

Gone == 0
Absent == <<>>
Partial == <<"partial">>
Versions == 1 .. MaxVersion
Names == UNION {[kernel : {k}, dtype : DtypeSet(k), text : Versions, header : Versions] : k \in KernelSet}
Image(text, head) == <<text, head>>
Images == Versions \X Versions
Meant(f) == Image(f.text, f.header)

Places == {"off", "look", "prune", "nvcc", "writing", "unlinked", "orphans"}

TypeOK ==
    /\ source \in [KernelSet -> Versions \cup {Gone}]
    /\ header \in Versions
    /\ cache \in [Names -> Images \cup {Absent, Partial}]
    /\ \A k \in KernelSet : \A d \in DOMAIN embedded[k] :
          d \in DtypeSet(k) /\ embedded[k][d] \in Images \cup {Partial}
    /\ \A b \in Builds :
          /\ build[b].at \in Places
          /\ build[b].at \in {"prune", "nvcc", "writing", "unlinked"} =>
                build[b].key \in Names /\ build[b].key.dtype = Head(build[b].left)
          /\ build[b].doomed \subseteq Names
    /\ spoilt \subseteq Names
    /\ edits \in 0 .. MaxEdits /\ starts \in 0 .. MaxStarts

Off == [at |-> "off", alone |-> TRUE, edited |-> {}, stale |-> FALSE,
              valid |-> {}, list |-> {}, left |-> <<>>, head |-> 1, cubins |-> {},
              key |-> None, image |-> None, doomed |-> {}, tainted |-> FALSE]

Init ==
    /\ source = [k \in KernelSet |-> 1]
    /\ header = 1
    /\ cache = [f \in Names |-> Absent]
    /\ embedded = [k \in KernelSet |-> <<>>]
    /\ build = [b \in Builds |-> Off]
    /\ edits = 0
    /\ starts = 0
    /\ spoilt = {}
    /\ overlapped = FALSE
    /\ lost = FALSE

-----------------------------------------------------------------------------
At(b, place) == build[b].at = place
Active == {b \in Builds : ~At(b, "off")}
Present == {f \in Names : cache[f] # Absent}
Writers(f) == {b \in Builds : At(b, "writing") /\ build[b].key = f}

\* Edits of a source (or its removal) and of a header.
Edit(k) ==
    /\ edits < MaxEdits
    /\ edits' = edits + 1
    /\ \E v \in (Versions \cup {Gone}) \ {source[k]} : source' = [source EXCEPT ![k] = v]
    /\ build' = [b \in Builds |-> IF b \notin Active THEN build[b] ELSE
                    [build[b] EXCEPT !.edited = @ \cup {k},
                                     !.stale = @ \/ (At(b, "prune") /\ build[b].key.kernel = k)]]
    /\ UNCHANGED <<header, cache, embedded, starts, spoilt, overlapped, lost>>

EditHeader ==
    /\ edits < MaxEdits
    /\ edits' = edits + 1
    /\ \E v \in Versions \ {header} : header' = v
    /\ build' = [b \in Builds |-> IF b \notin Active THEN build[b] ELSE
                    [build[b] EXCEPT !.edited = @ \cup {"header"}, !.stale = @ \/ At(b, "prune")]]
    /\ UNCHANGED <<source, cache, embedded, starts, spoilt, overlapped, lost>>

-----------------------------------------------------------------------------
Ends(b) == build' = [build EXCEPT ![b] = Off]

\* FileNotFoundError for a file of the cache.
CubinMissing(b) == Ends(b) /\ lost' = (lost \/ build[b].alone)

\* The loop over the sources takes them in their order.
First(sources) == Kernels[Min({i \in DOMAIN Kernels : Kernels[i] \in sources})]

\* main, to the loop over the sources.
Start(b) ==
    /\ At(b, "off") /\ starts < MaxStarts
    /\ starts' = starts + 1
    /\ LET sources == {k \in KernelSet : source[k] # Gone}
           alone == Active = {}
           begun == [Off EXCEPT !.at = "look", !.alone = alone, !.head = header, !.list = sources,
                        !.valid = sources, !.left = DtypesOf[First(sources)]]
       IN /\ sources # {}
          /\ build' = [c \in Builds |-> IF c = b THEN begun
                                        ELSE [build[c] EXCEPT !.alone = @ /\ c \notin Active]]
          /\ overlapped' = (overlapped \/ ~alone)
    /\ UNCHANGED <<texts, cache, embedded, spoilt, lost>>

\* Mutant of KeyOf: the headers do not enter the key.
KeyWithoutHeader(b, k, d) == [kernel |-> k, dtype |-> d, text |-> source[k], header |-> 1]

KeyOf(b, k, d) == [kernel |-> k, dtype |-> d, text |-> source[k], header |-> build[b].head]

\* Mutant of Hit: any version in the cache will do.
HitOfAnyVersion(f) == {g \in Present : g.kernel = f.kernel /\ g.dtype = f.dtype}

Hit(f) == {f} \cap Present

\* Mutant of OldVersions: those of the other dtypes too.
VersionsOfKernel(f) == {g \in Present : g.kernel = f.kernel} \ {f}

OldVersions(f) == {g \in Present : g.kernel = f.kernel /\ g.dtype = f.dtype} \ {f}

\* compile_one up to the pruning: the key, a hit, or a miss.
Look(b) ==
    /\ At(b, "look") /\ build[b].left # <<>>
    /\ LET k == First(build[b].list)
           f == KeyOf(b, k, Head(build[b].left))
       IN IF source[k] = Gone THEN Ends(b) ELSE
          \/ \E g \in Hit(f) :
                build' = [build EXCEPT ![b].cubins = @ \cup {g}, ![b].left = Tail(@)]
          \/ /\ Hit(f) = {}
             /\ build' = [build EXCEPT ![b].at = "prune", ![b].key = f,
                             ![b].doomed = OldVersions(f),
                             ![b].stale = "header" \in build[b].edited]
    /\ UNCHANGED <<texts, cache, embedded, starts, spoilt, overlapped, lost>>

\* old_cubin.unlink(), here and in prune_orphaned_kernels, of a name that
\* glob() has listed; whoever writes the file goes on writing it.
Unlink(b) == \E f \in build[b].doomed :
    /\ IF cache[f] = Absent
       THEN CubinMissing(b) /\ UNCHANGED <<cache, spoilt>>
       ELSE /\ cache' = [cache EXCEPT ![f] = Absent]
            /\ spoilt' = spoilt \ {f}
            /\ build' = [c \in Builds |->
                            IF c = b THEN [build[b] EXCEPT !.doomed = @ \ {f}]
                            ELSE IF c \in Writers(f) THEN [build[c] EXCEPT !.at = "unlinked"]
                            ELSE build[c]]
            /\ UNCHANGED lost
    /\ UNCHANGED <<texts, embedded, starts, overlapped>>

\* nvcc reads the source and what it includes as they are by now.
NvccReads(b) ==
    /\ At(b, "prune") /\ build[b].doomed = {}
    /\ LET now == source[build[b].key.kernel]
       IN /\ now # Gone
          /\ build' = [build EXCEPT ![b].at = "nvcc", ![b].image = Image(now, header)]
    /\ UNCHANGED <<texts, cache, embedded, starts, spoilt, overlapped, lost>>

NvccFails(b) ==
    /\ At(b, "prune") /\ build[b].doomed = {}
    /\ Ends(b)
    /\ UNCHANGED <<texts, cache, embedded, starts, spoilt, overlapped, lost>>

\* It creates the file, or truncates the one another build has created.
NvccOpens(b) ==
    /\ At(b, "nvcc")
    /\ cache' = [cache EXCEPT ![build[b].key] = Partial]
    /\ build' = [build EXCEPT ![b].at = "writing"]
    /\ UNCHANGED <<texts, embedded, starts, spoilt, overlapped, lost>>

Compiled(b) == [build EXCEPT ![b] =
    [build[b] EXCEPT !.at = "look", !.cubins = @ \cup {build[b].key}, !.left = Tail(@),
                     !.key = None, !.image = None, !.stale = FALSE]]

NvccWrites(b) ==
    /\ At(b, "writing")
    /\ cache' = [cache EXCEPT ![build[b].key] =
                    IF Writers(build[b].key) = {b} THEN build[b].image ELSE Partial]
    /\ spoilt' = IF build[b].stale THEN spoilt \cup {build[b].key} ELSE spoilt
    /\ build' = Compiled(b)
    /\ UNCHANGED <<texts, embedded, starts, overlapped, lost>>

NvccWritesUnlinked(b) ==
    /\ At(b, "unlinked")
    /\ build' = Compiled(b)
    /\ UNCHANGED <<texts, cache, embedded, starts, spoilt, overlapped, lost>>

\* Mutant of Readable: a missing file is embedded as an empty one.
ReadableAnyway(files) == TRUE

Readable(files) == files \subseteq Present

\* write_cuh, and on to the next source or to prune_orphaned_kernels.
Embed(b) ==
    /\ At(b, "look") /\ build[b].left = <<>>
    /\ LET k == First(build[b].list)
           rest == build[b].list \ {k}
           files == build[b].cubins
           next == [build[b] EXCEPT !.list = rest, !.cubins = {}, !.tainted = @ \/ files \cap spoilt # {}]
       IN IF ~Readable(files)
          THEN CubinMissing(b) /\ UNCHANGED embedded
          ELSE /\ embedded' = [embedded EXCEPT ![k] =
                                  [d \in DtypeSet(k) |-> cache[CHOOSE f \in files : f.dtype = d]]]
               /\ build' = [build EXCEPT ![b] =
                               IF rest # {} THEN [next EXCEPT !.left = DtypesOf[First(rest)]]
                               ELSE [next EXCEPT !.at = "orphans",
                                                 !.doomed = {f \in Present : f.kernel \notin build[b].valid}]]
               /\ UNCHANGED lost
    /\ UNCHANGED <<texts, cache, starts, spoilt, overlapped>>

Finish(b) ==
    /\ At(b, "orphans") /\ build[b].doomed = {}
    /\ Ends(b)
    /\ UNCHANGED <<texts, cache, embedded, starts, spoilt, overlapped, lost>>

\* The build and its nvcc are killed.
Kill(b) ==
    /\ b \in Active
    /\ Ends(b)
    /\ spoilt' = IF At(b, "writing") THEN spoilt \cup {build[b].key} ELSE spoilt
    /\ UNCHANGED <<texts, cache, embedded, starts, overlapped, lost>>

-----------------------------------------------------------------------------
Step(b) ==
    \/ Look(b) \/ Unlink(b)
    \/ NvccReads(b) \/ NvccFails(b) \/ NvccOpens(b) \/ NvccWrites(b) \/ NvccWritesUnlinked(b)
    \/ Embed(b) \/ Finish(b)

Next ==
    \/ \E k \in KernelSet : Edit(k)
    \/ EditHeader
    \/ \E b \in Builds : Start(b) \/ Step(b) \/ Kill(b)

Spec == Init /\ [][Next]_vars

-----------------------------------------------------------------------------
\* A file of the cache holds what its name says, whatever builds race for it,
\* save while one writes it, or if an edit or a kill spoilt it: one between the
\* reading for the key and nvcc's own, or one that cut nvcc's writing short
\* (compile_one; common.cuh on how a changed header gives another key).
CacheMatchesKeys == \A f \in Present :
    cache[f] = Meant(f) \/ Writers(f) # {} \/ f \in spoilt

\* What a build without company embeds is what the sources say, unless they
\* were edited under it or it hit a file that was spoilt before (main).
EmbedsSources == \A b \in Builds :
    At(b, "orphans") /\ build[b].alone /\ build[b].edited = {} /\ ~build[b].tainted =>
        \A k \in build[b].valid : \A d \in DtypeSet(k) :
            embedded[k][d] = Image(source[k], header)

\* The pruning of a build without company never takes what it needs itself,
\* and while no two builds meet there is one version of a kernel and dtype
\* (prune_old_versions and its keep_path).
PruningIsSafe ==
    /\ ~lost
    /\ \A f, g \in Present : f.kernel = g.kernel /\ f.dtype = g.dtype /\ f # g =>
          overlapped \/ \E b \in Builds : f \in build[b].doomed \/ g \in build[b].doomed
=============================================================================
