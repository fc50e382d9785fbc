------------------------------ MODULE GraphRun ------------------------------
(***************************************************************************)
(* What ggml_graph_compute() of src/llyy.cpp/ggml/src/ggml-cpu/ggml-cpu.c  *)
(* promises to its caller, however many threads take part: the nodes of    *)
(* the graph are computed one after the other, each part of a node once,   *)
(* and the call returns when all of them are computed, or all of those up  *)
(* to the node after which the abort callback asked to stop.               *)
(***************************************************************************)
EXTENDS Integers

CONSTANTS
    Last,           \* the nodes are 0 .. Last
    Parts(_, _)     \* the parts of a node, for a number of threads

VARIABLES
    busy,       \* whether a call is under way
    width,      \* its number of threads
    done,       \* done[k]: the parts of node k that are computed
    abort       \* no node from this one on is computed, -1: no abort

vars == <<busy, width, done, abort>>

Nodes == 0 .. Last
Complete(k) == done[k] = Parts(k, width)
Wanted == {k \in Nodes : abort = -1 \/ k < abort}

Begin ==
    /\ ~ busy /\ busy' = TRUE
    /\ width' \in Nat
    /\ done' = [k \in Nodes |-> {}]
    /\ abort' = -1

Compute(k, p) ==
    /\ busy /\ k \in Wanted
    /\ \A j \in 0 .. k - 1 : Complete(j)
    /\ p \in Parts(k, width) \ done[k]
    /\ done' = [done EXCEPT ![k] = @ \cup {p}]
    /\ UNCHANGED <<busy, width, abort>>

\* The callback is asked once per node, while the node is computed.
Abort(k) ==
    /\ busy /\ k \in Wanted
    /\ \A j \in 0 .. k - 1 : Complete(j)
    /\ \A j \in Nodes : j > k => done[j] = {}
    /\ abort' = k + 1
    /\ UNCHANGED <<busy, width, done>>

Return ==
    /\ busy /\ \A k \in Wanted : Complete(k)
    /\ busy' = FALSE
    /\ UNCHANGED <<width, done, abort>>

Init ==
    /\ busy = FALSE /\ width \in Nat
    /\ done = [k \in Nodes |-> {}] /\ abort = -1

Step == Return \/ \E k \in Nodes : Abort(k) \/ \E p \in Parts(k, width) : Compute(k, p)
Next == Begin \/ Step

\* Every call returns.
Spec == Init /\ [][Next]_vars /\ []<>(~ busy)
=============================================================================
