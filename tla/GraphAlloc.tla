----------------------------- MODULE GraphAlloc -----------------------------
(***************************************************************************)
(* The graph allocator, ggml_gallocr of src/llyy.cpp/ggml/src/ggml-alloc.c *)
(* with one buffer.  ggml_gallocr_reserve() walks through the nodes of a   *)
(* graph in the order in which they will be computed and gives each one a  *)
(* place: that of a parent which nobody needs any more, or a free block.   *)
(* It frees a parent with its last child.  ggml_gallocr_alloc_graph()      *)
(* uses these places for later graphs if they fit.                         *)
(*                                                                         *)
(* A graph is a sequence of tensors, the leafs first.  A view has no       *)
(* memory of its own.  The size of a tensor stands for its layout.         *)
(***************************************************************************)
EXTENDS FreeBlocks, FiniteSets

CONSTANTS
    Sizes,      \* sizes of tensors
    MaxNodes,   \* bound: nodes of a graph
    MaxOutputs, \* bound: nodes of it that are outputs
    MaxGraphs   \* bound: the first graph, and those that come when there is a buffer

\* "input" and "weight" are leafs; the data of a weight is not the allocator's.
\* An operation that "inplace" allows may overwrite a source of its layout.
Kinds == {"input", "weight", "op", "inplace", "view"}

Tensors(g) == 1 .. Len(g)
Leaf(g, t) == g[t].kind \in {"input", "weight"}
Tensor(kind, src, view, size, out) ==
    [kind |-> kind, src |-> src, view |-> view, size |-> size, out |-> out]
\* Whether t gets memory from the allocator.
Own(g, t) == g[t].kind \notin {"weight", "view"}
Root(g, t) == IF g[t].view = 0 THEN t ELSE g[t].view

ASSUME GraphAssumption ==
    /\ Sizes \subseteq Nat \ {0} /\ Sizes # {}
    /\ MaxNodes \in Nat \ {0} /\ MaxOutputs \in Nat /\ MaxGraphs \in Nat \ {0}

\* The first block, SIZE_MAX/2, is larger than any graph; the code aborts if it
\* is not.
ASSUME RoomAssumption == \E s \in Sizes : (\A r \in Sizes : r <= s) /\ (MaxNodes + 2) * s < Limit

VARIABLES
    graph,      \* graph[t].src: sources, .view: view_src or 0, .out: the flag OUTPUT
    fixed,      \* node_allocs: graph for which the places were reserved
    phase, i, j,
    children,   \* n_children
    views,      \* n_views
    allocated,
    offset,
    blocks, maxSize,
    buffer,     \* size of the buffer; 0: there is none
    calls

counters == <<children, views>>
tallocr == <<blocks, maxSize>>
vars == <<graph, fixed, phase, i, j, counters, allocated, offset, tallocr, buffer, calls>>

Zeros(g) == [t \in Tensors(g) |-> 0]

\* ggml_gallocr_reserve(): hash tables and allocator are reset.  node_allocs is
\* not read before it is written anew.
Reserve(g) ==
    /\ phase' = "leafs" /\ i' = 1 /\ j' = 1
    /\ children' = Zeros(g) /\ views' = Zeros(g)
    /\ allocated' = [t \in Tensors(g) |-> FALSE] /\ offset' = Zeros(g)
    /\ blocks' = Reset /\ maxSize' = 0
    /\ fixed' = << >>

Idle ==
    /\ i = 1 /\ j = 1
    /\ children = << >> /\ views = << >> /\ allocated = << >> /\ offset = << >>
    /\ blocks = Reset /\ maxSize = 0

Init ==
    /\ \E s \in Sizes :
          graph = <<Tensor("input", << >>, 0, s, FALSE), Tensor("weight", << >>, 0, s, FALSE)>>
    /\ fixed = << >> /\ phase = "build"
    /\ Idle
    /\ buffer = 0 /\ calls = 1

-----------------------------------------------------------------------------
(* The application builds a graph.                                         *)

Sources == {<<p>> : p \in Tensors(graph)} \cup {<<p, q>> : p \in Tensors(graph), q \in Tensors(graph)}
Outs == IF Cardinality({t \in Tensors(graph) : graph[t].out}) < MaxOutputs THEN BOOLEAN ELSE {FALSE}

\* An operation has a result of any size, one that works in place a result of
\* the layout of its first source; a view of a view is one of its root.
Nodes(kind) ==
    CASE kind = "op" -> {Tensor(kind, s, 0, k, o) : s \in Sources, k \in Sizes, o \in Outs}
      [] kind = "inplace" -> {Tensor(kind, s, 0, graph[s[1]].size, o) : s \in Sources, o \in Outs}
      [] kind = "view" -> {Tensor(kind, <<p>>, Root(graph, p), graph[p].size, FALSE) : p \in Tensors(graph)}

\* The order of the sources matters to operations that work in place only.
AddNode ==
    /\ phase = "build" /\ Len(graph) < MaxNodes + 2
    /\ \E kind \in {"op", "inplace", "view"} : \E n \in Nodes(kind) :
          /\ kind = "op" /\ Len(n.src) = 2 => n.src[1] < n.src[2]
          /\ graph' = Append(graph, n)
    /\ UNCHANGED <<fixed, phase, i, j, counters, allocated, offset, tallocr, buffer, calls>>

Source(g, t) == \E u \in Tensors(g) : \E k \in 1 .. Len(g[u].src) : g[u].src[k] = t

\* ggml_build_forward_expand() takes in the leafs that nodes need.
FirstReserve ==
    /\ phase = "build" /\ Len(graph) > 2 /\ Source(graph, 1)
    /\ Reserve(graph)
    /\ UNCHANGED <<graph, buffer, calls>>

-----------------------------------------------------------------------------
(* ggml_gallocr_allocate_node()                                            *)

Greater(a, b) == IF a > b THEN a ELSE b

\* Mutant of NewMax: the size of the tensor only.
NewMaxSize(o, size) == Greater(maxSize, size)
NewMax(o, size) == Greater(maxSize, o + size)

\* A place of its own.
Allocate(t) ==
    LET b == BestFit(blocks, graph[t].size)
    IN  /\ offset' = [offset EXCEPT ![t] = blocks[b].offset]
        /\ allocated' = [allocated EXCEPT ![t] = TRUE]
        /\ blocks' = Taken(blocks, b, graph[t].size)
        /\ maxSize' = NewMax(blocks[b].offset, graph[t].size)

\* Mutants of Reusable: a parent that has views; an output.
ReusableViewed(t, p) ==
    /\ allocated[p] /\ ~ graph[p].out
    /\ graph[p].size = graph[t].size
    /\ children[p] = 1
ReusableOutput(t, p) ==
    /\ allocated[p]
    /\ graph[p].size = graph[t].size
    /\ children[p] = 1 /\ views[p] = 0
\* Whether the place of parent p can be used for t.  A view is never
\* allocated, so the code's case of a parent that is one does not occur.
Reusable(t, p) ==
    /\ allocated[p] /\ ~ graph[p].out
    /\ graph[p].size = graph[t].size
    /\ children[p] = 1 /\ views[p] = 0

Reusables(t) ==
    IF graph[t].kind = "inplace"
    THEN {k \in 1 .. Len(graph[t].src) : Reusable(t, graph[t].src[k])} ELSE {}

AllocLeaf ==
    /\ phase = "leafs" /\ Leaf(graph, i)
    /\ IF graph[i].kind = "weight" THEN UNCHANGED <<offset, allocated, tallocr>> ELSE Allocate(i)
    /\ i' = i + 1
    /\ UNCHANGED <<graph, fixed, phase, j, counters, buffer, calls>>

\* The children and the views of each tensor.
CountChildren ==
    /\ phase = "leafs" /\ ~ Leaf(graph, i)
    /\ children' = [t \in Tensors(graph) |-> Cardinality(
            {r \in Tensors(graph) \X (1 .. 2) :
                r[2] <= Len(graph[r[1]].src) /\ graph[r[1]].src[r[2]] = t})]
    /\ views' = [t \in Tensors(graph) |-> Cardinality({v \in Tensors(graph) : graph[v].view = t})]
    /\ phase' = "node"
    /\ UNCHANGED <<graph, fixed, i, j, allocated, offset, tallocr, buffer, calls>>

\* Mutant of ReuseParent: the parent is still taken for allocated.
ReuseParentKept ==
    /\ phase = "node" /\ Reusables(i) # {}
    /\ LET k == CHOOSE k \in Reusables(i) : \A l \in Reusables(i) : k <= l
       IN  offset' = [offset EXCEPT ![i] = offset[graph[i].src[k]]]
    /\ allocated' = [allocated EXCEPT ![i] = TRUE]
    /\ phase' = "parents" /\ j' = 1
    /\ UNCHANGED <<graph, fixed, i, counters, tallocr, buffer, calls>>
ReuseParent ==
    /\ phase = "node" /\ Reusables(i) # {}
    /\ LET k == CHOOSE k \in Reusables(i) : \A l \in Reusables(i) : k <= l
           p == graph[i].src[k]
       IN  /\ offset' = [offset EXCEPT ![i] = offset[p]]
           /\ allocated' = [allocated EXCEPT ![i] = TRUE, ![p] = FALSE]
    /\ phase' = "parents" /\ j' = 1
    /\ UNCHANGED <<graph, fixed, i, counters, tallocr, buffer, calls>>

AllocNode ==
    /\ phase = "node" /\ Reusables(i) = {}
    /\ IF graph[i].kind = "view" THEN UNCHANGED <<offset, allocated, tallocr>> ELSE Allocate(i)
    /\ phase' = "parents" /\ j' = 1
    /\ UNCHANGED <<graph, fixed, i, counters, buffer, calls>>

-----------------------------------------------------------------------------
(* The parents of node i lose a child.                                     *)

\* ggml_gallocr_free_node()
FreeNode(t) ==
    IF graph[t].out THEN UNCHANGED <<allocated, blocks>>
    ELSE /\ blocks' = Freed(blocks, offset[t], graph[t].size)
         /\ allocated' = [allocated EXCEPT ![t] = FALSE]

Parent == graph[i].src[j]

UpdateParent ==
    /\ phase = "parents" /\ j <= Len(graph[i].src)
    /\ children' = [children EXCEPT ![Parent] = @ - 1]
    /\ LET v == graph[Parent].view
           unused == children'[Parent] = 0 /\ views[Parent] = 0
       IN  /\ views' = IF unused /\ v # 0 THEN [views EXCEPT ![v] = @ - 1] ELSE views
           /\ LET t == IF v = 0 THEN Parent ELSE v
              IN  IF unused /\ views'[t] = 0 /\ children'[t] = 0 /\ allocated[t]
                  THEN FreeNode(t) ELSE UNCHANGED <<allocated, blocks>>
    /\ j' = j + 1
    /\ UNCHANGED <<graph, fixed, phase, i, offset, maxSize, buffer, calls>>

NextNode ==
    /\ phase = "parents" /\ j > Len(graph[i].src) /\ i < Len(graph)
    /\ i' = i + 1
    /\ phase' = "node"
    /\ UNCHANGED <<graph, fixed, j, counters, allocated, offset, tallocr, buffer, calls>>

\* All nodes have their places, which are recorded.
Recorded ==
    /\ phase = "parents" /\ j > Len(graph[i].src) /\ i = Len(graph)
    /\ fixed' = graph
    /\ UNCHANGED <<graph, i, j, counters, allocated, offset, tallocr, calls>>

\* The buffer grows if it has to.
Reserved == Recorded /\ buffer' = Greater(buffer, maxSize) /\ phase' = "done"

\* The old buffer is freed and there is no memory for the new one: no buffer is
\* left, but the places are recorded.  The scheduler tries it once more for the
\* same graph, which ends as the first time, either way.
ReserveFails == Recorded /\ maxSize > buffer /\ buffer' = 0 /\ phase' = "failed"

-----------------------------------------------------------------------------
(* ggml_gallocr_alloc_graph()                                              *)

\* A node, or a source of one, is larger than its place; a leaf that is
\* nobody's source is not looked at.
NeedsRealloc(g) ==
    \E t \in Tensors(g) :
        Own(g, t) /\ (~ Leaf(g, t) \/ Source(g, t)) /\ g[t].size > fixed[t].size

\* Graphs of the same topology, in which tensors that had one layout have one.
Alike(g) == {[t \in Tensors(g) |-> [g[t] EXCEPT !.size = f[@]]] : f \in [Sizes -> Sizes]}

\* Whether there is a buffer is not looked at either: if no larger tensor has
\* the places reserved anew, a NULL pointer is followed.
AllocGraph ==
    /\ phase \in {"done", "failed"} /\ calls < MaxGraphs
    /\ graph' \in Alike(graph)
    /\ calls' = IF phase = "done" THEN calls + 1 ELSE calls
    /\ IF NeedsRealloc(graph') THEN Reserve(graph')
       ELSE /\ phase' = IF buffer = 0 THEN "crashed" ELSE "done"
            /\ UNCHANGED <<fixed, i, j, counters, allocated, offset, tallocr>>
    /\ UNCHANGED buffer

Next ==
    \/ AddNode \/ FirstReserve
    \/ AllocLeaf \/ CountChildren \/ ReuseParent \/ AllocNode
    \/ UpdateParent \/ NextNode
    \/ Reserved \/ ReserveFails \/ AllocGraph

Spec == Init /\ [][Next]_vars

-----------------------------------------------------------------------------
(* Correctness.                                                            *)

TypeOK ==
    /\ \A t \in Tensors(graph) :
          /\ graph[t].kind \in Kinds /\ graph[t].size \in Sizes /\ graph[t].out \in BOOLEAN
          /\ graph[t].src \in Seq(1 .. t - 1) /\ graph[t].view \in 0 .. t - 1
    /\ phase \in {"build", "leafs", "node", "parents", "done", "failed", "crashed"}
    /\ i \in Tensors(graph) /\ j \in 1 .. 3
    /\ phase # "build" =>
          /\ allocated \in [Tensors(graph) -> BOOLEAN]
          /\ offset \in [Tensors(graph) -> 0 .. Limit]
          /\ children \in [Tensors(graph) -> Nat] /\ views \in [Tensors(graph) -> Nat]
    /\ \A k \in 1 .. Len(blocks) : blocks[k].offset \in 0 .. Limit /\ blocks[k].size \in 1 .. Limit
    /\ maxSize \in 0 .. Limit /\ buffer \in 0 .. Limit /\ calls \in 1 .. MaxGraphs

\* Free blocks are sorted, and a gap is between any two of them: every merge
\* that can be made was made.
BlocksApart == \A k \in 1 .. Len(blocks) - 1 : End(blocks[k]) < blocks[k + 1].offset

\* The memory of tensor t in a graph g.
Place(g, t) == offset[t] .. offset[t] + g[t].size - 1
Live == {t \in Tensors(graph) : allocated[t]}

\* While places are reserved, each unit of memory is in one free block or in
\* one tensor: what is freed was allocated, with that size, and once.
Placing == phase \in {"leafs", "node", "parents"} \/ fixed = graph
MemoryPartition ==
    Placing => \A a \in 0 .. Limit - 1 :
        Cardinality({k \in 1 .. Len(blocks) : a \in blocks[k].offset .. End(blocks[k]) - 1})
        + Cardinality({t \in Live : a \in Place(graph, t)}) = 1

Overlap(t, u) == Place(graph, t) \cap Place(graph, u) # {}
Written(t) == IF Leaf(graph, t) THEN 0 ELSE t   \* leafs are set before node 1

\* When the graph is computed in the order of its nodes, every node finds its
\* sources as they were computed, through views too; it may itself overwrite a
\* source only if it works in place.
SourcesIntact ==
    phase = "done" => \A t \in Tensors(graph) : \A k \in 1 .. Len(graph[t].src) :
        LET r == Root(graph, graph[t].src[k])
        IN  Own(graph, r) =>
              /\ \A u \in Tensors(graph) \ {r} :
                    Own(graph, u) /\ Written(u) \in Written(r) .. t - 1 => ~ Overlap(u, r)
              /\ Own(graph, t) /\ Overlap(t, r) =>
                    graph[t].kind = "inplace" /\ Place(graph, t) = Place(graph, r)

\* "output tensors are never freed and never overwritten" (ggml-alloc.h).  An
\* output that is a view is excluded: the tensor it is a view of is freed when
\* the view has been read, as only the flags of that tensor are looked at.
OutputsKept ==
    phase = "done" => \A r \in Tensors(graph) : graph[r].out /\ Own(graph, r) =>
        \A u \in Tensors(graph) \ {r} : Own(graph, u) /\ Written(u) >= Written(r) => ~ Overlap(u, r)

\* When a graph has its memory, every tensor is within the buffer, also if the
\* buffer was reserved for another graph, or in place of one that was freed for
\* a larger one that could not be had.
FitsBuffer ==
    phase = "done" => \A t \in Tensors(graph) : Own(graph, t) => offset[t] + graph[t].size <= buffer
=============================================================================
