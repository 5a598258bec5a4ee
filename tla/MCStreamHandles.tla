--------------------------- MODULE MCStreamHandles ---------------------------
(* Two threads and three streams, any of them a thread's default stream. *)
EXTENDS StreamHandles, TLC

CONSTANTS t1, t2, o1, o2, o3, r1, r2, h1, h2

MCThreads == {t1, t2}
MCObjects == {o1, o2, o3}
MCRaws == {r1, r2}
MCHandles == {h1, h2}
Symmetry == Permutations(MCThreads) \cup Permutations(MCObjects)
                \cup Permutations(MCRaws) \cup Permutations(MCHandles)
=============================================================================
