----------------------------- MODULE DefragPlan -----------------------------
(***************************************************************************)
(* What a defragmentation of the KV cache does, stated without its loops:  *)
(* llama_kv_cache_unified::defrag_prepare in                               *)
(* src/llyy.cpp/src/llama-kv-cache.cpp.  H is the set of holes, the free   *)
(* cells among the first n_used ones; a plan f gives the cell whose token  *)
(* fills each hole.                                                        *)
(***************************************************************************)
EXTENDS Integers, FiniteSets

\* h and g lie in one contiguous hole.
SameHole(H, h, g) == h .. g \subseteq H

\* Mutant of IsPlan: two holes may be filled from one cell.
IsPlanShared(H, f) == \A h, g \in H : h < g => (f[h] <= f[g] <=> SameHole(H, h, g))

\* The first hole takes the last tokens, in order; the next hole the tokens
\* before those.
IsPlan(H, f) ==
    \A h, g \in H :
        h < g => /\ f[h] # f[g]
                 /\ f[h] < f[g] <=> SameHole(H, h, g)

\* A move copies a contiguous block of cells; at most max moves are made, and
\* a block that was begun is copied to its end.
StartsMove(H, f, h) == h - 1 \notin H \/ f[h] # f[h - 1] + 1
Moved(H, f, max) ==
    {h \in H : Cardinality({g \in H : g <= h /\ StartsMove(H, f, g)}) <= max}
=============================================================================
