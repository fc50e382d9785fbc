-------------------------- MODULE GraphAlloc_proofs --------------------------
(***************************************************************************)
(* Proofs about GraphAlloc, for every number of nodes and of graphs and    *)
(* for all sizes of tensors.                                               *)
(*                                                                         *)
(* The inductive invariant is about the graph for which there are places,  *)
(* G: the graph itself while it is walked through, then the one for which  *)
(* places were reserved.  Its tensors up to Reached have been placed.      *)
(***************************************************************************)
EXTENDS GraphAlloc, FreeBlocks_proofs, FiniteSetTheorems

Largest == CHOOSE s \in Sizes : \A r \in Sizes : r <= s

Record == [kind : Kinds, src : Seq(Nat), view : Nat, size : Sizes, out : BOOLEAN]
NodeOK(g, t) ==
    /\ g[t].kind \in {"op", "inplace", "view"}
    /\ Len(g[t].src) \in 1 .. 2
    /\ \A k \in 1 .. Len(g[t].src) : g[t].src[k] \in 1 .. t - 1
    /\ g[t].view \in 0 .. t - 1
    /\ g[t].kind = "view" <=> g[t].view # 0
    /\ g[t].view # 0 => g[g[t].view].view = 0
GraphOK(g) ==
    /\ g \in Seq(Record) /\ Len(g) \in 2 .. MaxNodes + 2
    /\ g[1].kind = "input" /\ g[2].kind = "weight"
    /\ \A t \in 1 .. 2 : g[t].src = << >> /\ g[t].view = 0
    /\ \A t \in 3 .. Len(g) : NodeOK(g, t)

\* The graphs for which places are used differ from the one for which they were
\* reserved in sizes only, and no tensor is larger.
Resized(g, h) ==
    /\ Len(g) = Len(h)
    /\ \A t \in 1 .. Len(h) :
          /\ g[t].kind = h[t].kind /\ g[t].src = h[t].src
          /\ g[t].view = h[t].view /\ g[t].out = h[t].out
    /\ \A t, u \in 1 .. Len(h) : h[t].size = h[u].size => g[t].size = g[u].size
Fits(g, h) == \A t \in 1 .. Len(h) : Own(h, t) => g[t].size <= h[t].size

\* All places are recorded, with a buffer or without.
Settled == phase \in {"done", "failed", "crashed"}
G == IF Settled THEN fixed ELSE graph
Reached == IF phase = "parents" \/ Settled THEN i ELSE i - 1

PhaseOK ==
    /\ GraphOK(graph) /\ GraphOK(G)
    /\ phase \in {"build", "leafs", "node", "parents", "done", "failed", "crashed"}
    /\ i \in 1 .. Len(graph) /\ j \in 1 .. 3
    /\ phase = "build" => fixed = << >>
    /\ phase = "leafs" => i <= 3
    /\ phase \in {"node", "parents"} => i >= 3
    /\ phase = "parents" => j <= Len(graph[i].src) + 1
    /\ Settled => i = Len(graph) /\ Resized(graph, fixed) /\ Fits(graph, fixed)
    /\ phase = "done" => maxSize <= buffer
    /\ Settled /\ phase # "done" => buffer = 0
    /\ phase # "build" => Len(graph) > 2 /\ Source(graph, 1)
    /\ buffer \in 0 .. Limit /\ calls \in 1 .. MaxGraphs

TypesOK ==
    /\ allocated \in [Tensors(G) -> BOOLEAN] /\ offset \in [Tensors(G) -> 0 .. Limit]
    /\ children \in [Tensors(G) -> Nat] /\ views \in [Tensors(G) -> Nat]

-----------------------------------------------------------------------------
(* The memory.                                                             *)

\* Whether unit a belongs to tensor t, and whether two tensors share units.
At(t, a) == offset[t] <= a /\ a < offset[t] + G[t].size
Clash(t, u) == offset[t] < offset[u] + G[u].size /\ offset[u] < offset[t] + G[t].size

MemoryOK ==
    /\ FreeList(blocks)
    /\ maxSize \in Nat /\ maxSize <= Reached * Largest
    /\ \A t \in Tensors(G) : allocated[t] => Own(G, t) /\ t <= Reached
    /\ \A t \in Tensors(G) : Own(G, t) /\ t <= Reached => offset[t] + G[t].size <= maxSize
    /\ \A t, u \in Tensors(G) : allocated[t] /\ allocated[u] /\ t # u => ~ Clash(t, u)
    /\ \A a \in 0 .. Limit - 1 : Free(blocks, a) <=> ~ \E t \in Tensors(G) : allocated[t] /\ At(t, a)

-----------------------------------------------------------------------------
(* Who still needs what.                                                   *)

\* The uses of tensor t as a source, those from the m-th source of node n on, and
\* the views of t that have any (a view that is nobody's source is never done with).
Uses(g, t) == {r \in Tensors(g) \X (1 .. 2) : r[2] <= Len(g[r[1]].src) /\ g[r[1]].src[r[2]] = t}
Rest(g, n, m, t) == {r \in Uses(g, t) : r[1] > n \/ (r[1] = n /\ r[2] >= m)}
ViewsLeft(g, n, m, t) ==
    {v \in Tensors(g) : g[v].view = t /\ (Uses(g, v) # {} => Rest(g, n, m, v) # {})}
CountsAt(m) ==
    \A t \in Tensors(graph) : /\ children[t] = Cardinality(Rest(graph, i, m, t))
                              /\ views[t] = Cardinality(ViewsLeft(graph, i, m, t))
CountsOK == /\ phase = "node" => CountsAt(1)
            /\ phase = "parents" => CountsAt(j)

\* What nodes to come will read has been allocated if it has been placed, and
\* outputs stay allocated.
ReadsOK ==
    \A u \in Tensors(G) : u > Reached => \A k \in 1 .. Len(G[u].src) :
        LET r == Root(G, G[u].src[k]) IN Own(G, r) /\ r <= Reached => allocated[r]
KeptOK == \A r \in Tensors(G) : Own(G, r) /\ r <= Reached /\ G[r].out => allocated[r]

-----------------------------------------------------------------------------
(* Who overwrites what.                                                    *)

Since(t) == IF t \in 1 .. 2 THEN 0 ELSE t
\* Nothing has been placed over an allocated tensor.
ApartOK ==
    \A r, u \in Tensors(G) :
        allocated[r] /\ Own(G, u) /\ u <= Reached /\ u # r /\ Since(u) >= Since(r) => ~ Clash(u, r)
\* SourcesIntact, of the nodes placed so far.
IntactOK ==
    \A t \in Tensors(G) : t <= Reached => \A k \in 1 .. Len(G[t].src) :
        LET r == Root(G, G[t].src[k])
        IN  Own(G, r) =>
              /\ \A u \in Tensors(G) \ {r} :
                    Own(G, u) /\ Since(u) >= Since(r) /\ u < t => ~ Clash(u, r)
              /\ Own(G, t) /\ Clash(t, r) =>
                    G[t].kind = "inplace" /\ offset[t] = offset[r] /\ G[t].size = G[r].size

IndInv ==
    /\ PhaseOK
    /\ phase # "build" => TypesOK /\ MemoryOK /\ CountsOK /\ ReadsOK /\ KeptOK /\ ApartOK /\ IntactOK
    /\ phase = "build" => Idle

-----------------------------------------------------------------------------
(* Graphs and sizes.                                                       *)

LEMMA LargestIs ==
    /\ Largest \in Nat \ {0} /\ Largest \in Sizes /\ \A r \in Sizes : r \in Nat \ {0} /\ r <= Largest
    /\ (MaxNodes + 2) * Largest < Limit
<1>1. PICK s \in Sizes : (\A r \in Sizes : r <= s) /\ (MaxNodes + 2) * s < Limit
    BY RoomAssumption
<1>2. Largest \in Sizes /\ \A r \in Sizes : r <= Largest
    BY <1>1 DEF Largest
<1>3. Sizes \subseteq Nat \ {0}
    BY GraphAssumption
<1>4. Largest <= s /\ s <= Largest /\ Largest \in Nat /\ s \in Nat
    BY <1>1, <1>2, <1>3
<1>5. Largest = s
    BY <1>4
<1> QED BY <1>1, <1>2, <1>3, <1>5

\* A graph with n tensors needs at most n times the largest size.
LEMMA Bounded ==
    ASSUME NEW n \in Nat, n <= MaxNodes + 2
    PROVE  n * Largest \in Nat /\ n * Largest < Limit /\ (n + 1) * Largest = n * Largest + Largest
<1>1. Largest \in Nat /\ MaxNodes \in Nat /\ Limit \in Nat
    BY LargestIs, GraphAssumption, LimitAssumption
<1>2. \A x, y, z \in Nat : x <= y => x * z <= y * z
    OBVIOUS
<1>3. n * Largest <= (MaxNodes + 2) * Largest
    BY <1>1, <1>2
<1>4. n * Largest \in Nat /\ (MaxNodes + 2) * Largest \in Nat
    BY <1>1
<1>5. (n + 1) * Largest = n * Largest + Largest
    BY <1>1
<1> QED BY <1>1, <1>3, <1>4, <1>5, LargestIs

LEMMA TensorIs ==
    ASSUME NEW g, GraphOK(g), NEW t \in Tensors(g)
    PROVE  /\ t \in Nat /\ g[t] \in Record /\ g[t].kind \in Kinds /\ g[t].out \in BOOLEAN
           /\ g[t].size \in Sizes /\ g[t].size \in Nat \ {0} /\ g[t].size <= Largest
           /\ g[t].view \in 0 .. t - 1
           /\ Root(g, t) \in Tensors(g)
<1>1. Len(g) \in Nat /\ g[t] \in Record /\ t \in Nat
    BY DEF GraphOK, Tensors
<1>2. g[t].kind \in Kinds /\ g[t].out \in BOOLEAN /\ g[t].size \in Sizes
    BY <1>1 DEF Record
<1>3. g[t].view \in 0 .. t - 1
    BY <1>1 DEF GraphOK, NodeOK, Tensors
<1>4. Root(g, t) \in Tensors(g)
    BY <1>1, <1>3 DEF Root, Tensors
<1> QED BY <1>1, <1>2, <1>3, <1>4, LargestIs

\* A source is an earlier tensor, and so is the one it is a view of.
LEMMA SourceIs ==
    ASSUME NEW g, GraphOK(g), NEW t \in Tensors(g), NEW k \in 1 .. Len(g[t].src)
    PROVE  /\ t >= 3 /\ Len(g[t].src) \in 1 .. 2 /\ k \in 1 .. 2
           /\ g[t].src[k] \in Tensors(g) /\ g[t].src[k] < t
           /\ Root(g, g[t].src[k]) \in Tensors(g) /\ Root(g, g[t].src[k]) < t
<1>1. Len(g) \in Nat /\ t \in Nat
    BY DEF GraphOK, Tensors
<1>2. t >= 3
    <2> SUFFICES ASSUME t \in 1 .. 2 PROVE FALSE
        BY <1>1 DEF Tensors
    <2>1. g[t].src = << >>
        BY DEF GraphOK
    <2> QED BY <2>1
<1>3. NodeOK(g, t)
    BY <1>1, <1>2 DEF GraphOK, Tensors
<1>4. Len(g[t].src) \in 1 .. 2 /\ g[t].src[k] \in 1 .. t - 1
    BY <1>3 DEF NodeOK
<1>5. g[t].src[k] \in Tensors(g) /\ g[t].src[k] < t
    BY <1>1, <1>4 DEF Tensors
<1>6. g[g[t].src[k]].view \in 0 .. g[t].src[k] - 1
    BY <1>5, TensorIs
<1>7. Root(g, g[t].src[k]) \in Tensors(g) /\ Root(g, g[t].src[k]) < t
    BY <1>1, <1>5, <1>6 DEF Root, Tensors
<1> QED BY <1>2, <1>4, <1>5, <1>7

LEMMA OwnIs ==
    ASSUME NEW g, GraphOK(g), NEW t \in Tensors(g), Own(g, t)
    PROVE  g[t].view = 0 /\ Root(g, t) = t
<1>1. t \in 1 .. 2 \/ (t \in 3 .. Len(g) /\ NodeOK(g, t))
    BY DEF GraphOK, Tensors
<1>2. g[t].view = 0
    BY <1>1 DEF GraphOK, NodeOK, Own
<1> QED BY <1>2 DEF Root

LEMMA LeafIs ==
    ASSUME NEW g, GraphOK(g), NEW t \in Tensors(g)
    PROVE  Leaf(g, t) <=> t \in 1 .. 2
BY DEF GraphOK, NodeOK, Leaf, Tensors

-----------------------------------------------------------------------------
(* Steps that leave the places alone.                                      *)

Places == MemoryOK /\ ReadsOK /\ KeptOK /\ ApartOK /\ IntactOK

LEMMA PlacesStay ==
    ASSUME Places, G' = G, Reached' = Reached,
           UNCHANGED <<allocated, offset, blocks, maxSize>>
    PROVE  Places'
<1>1. \A t, a : At(t, a)' = At(t, a)
    BY DEF At
<1>2. \A t, u : Clash(t, u)' = Clash(t, u)
    BY DEF Clash
<1>3. MemoryOK'
    BY <1>1, <1>2 DEF Places, MemoryOK
<1>4. ReadsOK' /\ KeptOK'
    BY DEF Places, ReadsOK, KeptOK
<1>5. ApartOK'
    BY <1>2 DEF Places, ApartOK
<1>6. IntactOK'
    BY <1>2 DEF Places, IntactOK
<1> QED BY <1>3, <1>4, <1>5, <1>6 DEF Places

Typed == allocated \in [Tensors(G) -> BOOLEAN] /\ offset \in [Tensors(G) -> 0 .. Limit]

\* Sizes and places are numbers.
LEMMA SizeIs ==
    ASSUME GraphOK(G), Typed, NEW t \in Tensors(G)
    PROVE  offset[t] \in Nat /\ G[t].size \in Nat \ {0} /\ G[t].size <= Largest /\ t \in Nat
BY TensorIs, LimitAssumption DEF Typed

\* Tensors that clash share a unit.
LEMMA Shared ==
    ASSUME NEW o \in Nat, NEW s \in Nat \ {0}, NEW p \in Nat, NEW r \in Nat \ {0},
           o < p + r, p < o + s
    PROVE  \E a \in Nat : o <= a /\ a < o + s /\ p <= a /\ a < p + r
<1>1. CASE o <= p
    BY <1>1
<1>2. CASE p <= o
    BY <1>2
<1> QED BY <1>1, <1>2

\* An allocated tensor is within maxSize; beyond it everything is free.
LEMMA Beyond ==
    ASSUME GraphOK(G), Typed, MemoryOK, Reached \in 0 .. MaxNodes + 1
    PROVE  /\ maxSize \in 0 .. Limit - 1 /\ maxSize + Largest <= Limit
           /\ maxSize + Largest <= (Reached + 1) * Largest
           /\ \A a \in maxSize .. Limit - 1 : Free(blocks, a)
<1>1. /\ Reached * Largest \in Nat /\ (Reached + 1) * Largest = Reached * Largest + Largest
      /\ (Reached + 1) * Largest < Limit /\ Largest \in Nat \ {0} /\ Limit \in Nat
    <2>1. Reached \in Nat /\ Reached + 1 \in Nat /\ Reached + 1 <= MaxNodes + 2 /\ Reached <= MaxNodes + 2
        BY GraphAssumption
    <2> QED BY <2>1, Bounded, LargestIs, LimitAssumption
<1>2. maxSize \in Nat /\ maxSize <= Reached * Largest
    BY DEF MemoryOK
<1>3. ASSUME NEW a \in maxSize .. Limit - 1 PROVE Free(blocks, a)
    <2>1. a \in 0 .. Limit - 1 /\ a >= maxSize
        BY <1>1, <1>2
    <2>2. ASSUME NEW t \in Tensors(G), allocated[t], At(t, a) PROVE FALSE
        <3>1. offset[t] + G[t].size <= maxSize
            BY <2>2 DEF MemoryOK
        <3>2. a < offset[t] + G[t].size /\ offset[t] \in Nat /\ G[t].size \in Nat
            BY <2>2, SizeIs DEF At
        <3> QED BY <1>2, <2>1, <3>1, <3>2
    <2> QED BY <2>1, <2>2 DEF MemoryOK
<1> QED BY <1>1, <1>2, <1>3

\* What a node of the graph reads, if it is the next one to be placed.
LEMMA NextReads ==
    ASSUME GraphOK(G), Places, NEW t \in Tensors(G), Reached = t - 1,
           NEW k \in 1 .. Len(G[t].src), Own(G, Root(G, G[t].src[k]))
    PROVE  LET r == Root(G, G[t].src[k])
           IN  /\ r \in Tensors(G) /\ r < t /\ r <= Reached /\ allocated[r]
               /\ \A u \in Tensors(G) \ {r} : Own(G, u) /\ Since(u) >= Since(r) /\ u < t => ~ Clash(u, r)
<1> DEFINE r == Root(G, G[t].src[k])
<1>1. r \in Tensors(G) /\ r < t /\ t \in Nat /\ r \in Nat /\ Len(G) \in Nat
    <2>1. r \in Tensors(G) /\ r < t
        BY SourceIs
    <2> HIDE DEF r
    <2>2. t \in Nat /\ r \in Nat
        BY <2>1, TensorIs
    <2>3. Len(G) \in Nat
        BY DEF GraphOK
    <2> QED BY <2>1, <2>2, <2>3
<1>2. r <= Reached /\ t > Reached
    BY <1>1
<1>3. allocated[r]
    BY <1>2 DEF Places, ReadsOK
<1> HIDE DEF r
<1>4. ASSUME NEW u \in Tensors(G) \ {r}, Own(G, u), Since(u) >= Since(r), u < t
      PROVE  ~ Clash(u, r)
    <2>1. u <= Reached
        BY <1>1, <1>4, TensorIs
    <2> QED BY <1>1, <1>3, <1>4, <2>1 DEF Places, ApartOK
<1> QED BY <1>1, <1>2, <1>3, <1>4 DEF r

\* A view or a weight is passed over.
LEMMA PlacesSkip ==
    ASSUME GraphOK(G), Typed, Places, NEW t \in Tensors(G), ~ Own(G, t),
           Reached = t - 1, Reached' = t, G' = G, UNCHANGED <<allocated, offset, blocks, maxSize>>
    PROVE  Places'
<1>0. t \in Nat /\ Len(G) \in Nat /\ t <= Len(G) /\ t >= 1 /\ Len(G) <= MaxNodes + 2 /\ MaxNodes \in Nat
    BY GraphAssumption DEF GraphOK, Tensors
<1>1. \A u, a : At(u, a)' = At(u, a)
    BY DEF At
<1>2. \A r, u : Clash(r, u)' = Clash(r, u)
    BY DEF Clash
<1>3. \A u \in Tensors(G) : u \in Nat /\ (u <= t <=> u <= Reached \/ u = t) /\ (u > t => u > Reached)
    BY <1>0 DEF Tensors
<1>4. maxSize \in Nat /\ maxSize <= t * Largest
    BY <1>0, Beyond, LargestIs DEF Places, MemoryOK
<1>5. MemoryOK'
    BY <1>1, <1>2, <1>3, <1>4 DEF Places, MemoryOK
<1>6. ReadsOK' /\ KeptOK'
    <2>1. ASSUME NEW u \in Tensors(G), u > t, NEW k \in 1 .. Len(G[u].src),
                 Own(G, Root(G, G[u].src[k])), Root(G, G[u].src[k]) <= t
          PROVE  allocated[Root(G, G[u].src[k])]
        <3>1. Root(G, G[u].src[k]) \in Tensors(G)
            BY SourceIs
        <3>2. Root(G, G[u].src[k]) <= Reached
            BY <1>3, <2>1, <3>1
        <3> QED BY <1>3, <2>1, <3>2 DEF Places, ReadsOK
    <2>2. ReadsOK'
        BY <2>1 DEF ReadsOK
    <2>3. ASSUME NEW r \in Tensors(G), Own(G, r), r <= t, G[r].out PROVE allocated[r]
        BY <1>3, <2>3 DEF Places, KeptOK
    <2>4. KeptOK'
        BY <2>3 DEF KeptOK
    <2> QED BY <2>2, <2>4
<1>7. ApartOK'
    BY <1>2, <1>3 DEF Places, ApartOK
<1>8. IntactOK'
    <2> SUFFICES ASSUME NEW v \in Tensors(G), v <= t, NEW k \in 1 .. Len(G[v].src), Own(G, Root(G, G[v].src[k]))
                 PROVE  LET r == Root(G, G[v].src[k])
                        IN  /\ \A u \in Tensors(G) \ {r} :
                                  Own(G, u) /\ Since(u) >= Since(r) /\ u < v => ~ Clash(u, r)
                            /\ Own(G, v) /\ Clash(v, r) =>
                                  G[v].kind = "inplace" /\ offset[v] = offset[r] /\ G[v].size = G[r].size
        BY <1>2 DEF IntactOK
    <2>1. CASE v = t
        BY <2>1, NextReads
    <2>2. CASE v # t
        BY <1>3, <2>2 DEF Places, IntactOK
    <2> QED BY <2>1, <2>2
<1> QED BY <1>5, <1>6, <1>7, <1>8 DEF Places

\* The nodes placed before t do not see where t is placed.
LEMMA IntactBefore ==
    ASSUME GraphOK(G), Typed, Places, NEW t \in Tensors(G), Reached = t - 1, G' = G,
           \A u \in Tensors(G) : u < t => offset'[u] = offset[u],
           NEW v \in Tensors(G), v < t, NEW k \in 1 .. Len(G[v].src), Own(G, Root(G, G[v].src[k]))
    PROVE  LET r == Root(G, G[v].src[k])
           IN  /\ \A u \in Tensors(G) \ {r} :
                     Own(G, u) /\ Since(u) >= Since(r) /\ u < v => ~ Clash(u, r)'
               /\ Own(G, v) /\ Clash(v, r)' =>
                     G[v].kind = "inplace" /\ offset'[v] = offset'[r] /\ G[v].size = G[r].size
<1>0. PICK r \in Tensors(G) : r = Root(G, G[v].src[k])
    BY SourceIs
<1>1. r < v /\ v \in Nat /\ r \in Nat /\ t \in Nat
    BY <1>0, SourceIs, TensorIs
<1>2. v <= Reached
    BY <1>1
<1>3. /\ \A u \in Tensors(G) \ {r} : Own(G, u) /\ Since(u) >= Since(r) /\ u < v => ~ Clash(u, r)
      /\ Own(G, v) /\ Clash(v, r) =>
            G[v].kind = "inplace" /\ offset[v] = offset[r] /\ G[v].size = G[r].size
    BY <1>0, <1>2 DEF Places, IntactOK
<1>4. \A u \in Tensors(G) : u < v => u < t
    BY <1>1, TensorIs
<1>5. offset'[r] = offset[r] /\ offset'[v] = offset[v]
    BY <1>1
<1>6. \A u \in Tensors(G) : u < v \/ u = v => Clash(u, r)' = Clash(u, r)
    BY <1>4, <1>5 DEF Clash
<1>7. /\ \A u \in Tensors(G) \ {r} : Own(G, u) /\ Since(u) >= Since(r) /\ u < v => ~ Clash(u, r)'
      /\ Own(G, v) /\ Clash(v, r)' =>
            G[v].kind = "inplace" /\ offset'[v] = offset'[r] /\ G[v].size = G[r].size
    BY <1>3, <1>5, <1>6
<1>8. Root(G, G[v].src[k])' = r
    BY <1>0 DEF Root
<1> QED BY <1>0, <1>7, <1>8

\* What a free block is found and taken for.
LEMMA AllocateIs ==
    ASSUME GraphOK(G), Typed, MemoryOK, G = graph, NEW t \in Tensors(G), Own(G, t),
           Reached = t - 1, Allocate(t)
    PROVE  \E o \in 0 .. Limit :
              /\ offset' = [offset EXCEPT ![t] = o] /\ allocated' = [allocated EXCEPT ![t] = TRUE]
              /\ FreeList(blocks')
              /\ \A a \in o .. o + G[t].size - 1 : Free(blocks, a)
              /\ \A a \in Int : Free(blocks', a) <=> Free(blocks, a) /\ ~ (o <= a /\ a < o + G[t].size)
              /\ maxSize' \in Nat /\ maxSize' <= t * Largest /\ maxSize <= maxSize'
              /\ o + G[t].size <= maxSize'
<1> DEFINE s == G[t].size
           b == BestFit(blocks, s)
<1>1. s \in Nat \ {0} /\ s <= Largest /\ t \in Nat /\ Largest \in Nat
    BY SizeIs, LargestIs
<1>2. Reached \in 0 .. MaxNodes + 1
    BY <1>1, GraphAssumption DEF GraphOK, Tensors
<1>3. /\ maxSize \in 0 .. Limit - 1 /\ maxSize + Largest <= Limit /\ maxSize + Largest <= (Reached + 1) * Largest
      /\ \A a \in maxSize .. Limit - 1 : Free(blocks, a)
    BY <1>2, Beyond
<1>4. Limit \in Nat /\ t * Largest \in Nat /\ Reached + 1 = t
    BY <1>1, LimitAssumption
<1>5. FreeList(blocks)
    BY DEF MemoryOK
<1>6. maxSize + s <= Limit
    BY <1>1, <1>3, <1>4
<1>7. b \in 1 .. Len(blocks) /\ s <= blocks[b].size /\ blocks[b].offset <= maxSize
    BY <1>1, <1>3, <1>5, <1>6, BestFitIs
<1>8. offset' = [offset EXCEPT ![t] = blocks[b].offset] /\ allocated' = [allocated EXCEPT ![t] = TRUE]
      /\ blocks' = Taken(blocks, b, s) /\ maxSize' = Greater(maxSize, blocks[b].offset + s)
    BY DEF Allocate, NewMax
<1> HIDE DEF b
<1>9. blocks[b].offset \in Nat /\ blocks[b].size \in Nat /\ End(blocks[b]) = blocks[b].offset + blocks[b].size
    BY <1>5, <1>7, BlockIs
<1> HIDE DEF s
<1> DEFINE o == blocks[b].offset
<1>10. \A a \in o .. o + s - 1 : Free(blocks, a)
    BY <1>1, <1>7, <1>9 DEF Free, In
<1>11. /\ FreeList(Taken(blocks, b, s))
       /\ \A a \in Int : Free(Taken(blocks, b, s), a) <=> Free(blocks, a) /\ ~ (o <= a /\ a < o + s)
    BY <1>1, <1>5, <1>7, TakenList
<1>12. maxSize' \in Nat /\ maxSize' <= t * Largest /\ maxSize <= maxSize' /\ o + s <= maxSize'
    BY <1>1, <1>3, <1>4, <1>7, <1>8, <1>9 DEF Greater
<1>13. o \in 0 .. Limit
    BY <1>3, <1>4, <1>7, <1>9
<1> QED BY <1>8, <1>10, <1>11, <1>12, <1>13 DEF s

\* A tensor is given a free block.
LEMMA PlacesAllocate ==
    ASSUME GraphOK(G), Typed, Places, G = graph, NEW t \in Tensors(G), Own(G, t),
           Reached = t - 1, Reached' = t, G' = G, Allocate(t)
    PROVE  Places' /\ Typed'
<1> DEFINE s == G[t].size
<1>1. PICK o \in 0 .. Limit :
        /\ offset' = [offset EXCEPT ![t] = o] /\ allocated' = [allocated EXCEPT ![t] = TRUE]
        /\ FreeList(blocks')
        /\ \A a \in o .. o + s - 1 : Free(blocks, a)
        /\ \A a \in Int : Free(blocks', a) <=> Free(blocks, a) /\ ~ (o <= a /\ a < o + s)
        /\ maxSize' \in Nat /\ maxSize' <= t * Largest /\ maxSize <= maxSize' /\ o + s <= maxSize'
    BY AllocateIs DEF Places
<1>2. Typed'
    BY <1>1 DEF Typed
<1>3. s \in Nat \ {0} /\ t \in Nat /\ t >= 1 /\ maxSize \in Nat /\ Limit \in Nat
    <2>1. s \in Nat \ {0} /\ t \in Nat
        BY SizeIs
    <2>2. maxSize \in Nat /\ Limit \in Nat
        BY LimitAssumption DEF Places, MemoryOK
    <2>3. t >= 1
        BY DEF Tensors
    <2> QED BY <2>1, <2>2, <2>3
<1>4. \A u \in Tensors(G) : /\ u \in Nat /\ u >= 1 /\ G[u].size \in Nat \ {0} /\ offset[u] \in Nat
                            /\ (u <= t <=> u <= Reached \/ u = t) /\ (u > t => u > Reached)
                            /\ (u < t <=> u <= Reached)
    BY <1>3, SizeIs DEF Tensors
<1>5. offset'[t] = o /\ allocated'[t] = TRUE
      /\ \A u \in Tensors(G) : u # t => offset'[u] = offset[u] /\ allocated'[u] = allocated[u]
    BY <1>1 DEF Typed
<1>6. \A u \in Tensors(G) : allocated[u] => u # t /\ u < t
    <2>1. \A u \in Tensors(G) : allocated[u] => u <= Reached
        BY DEF Places, MemoryOK
    <2> QED BY <1>3, <1>4, <2>1
<1>7. \A u \in Tensors(G), a \in Int : u # t => At(u, a)' = At(u, a)
    BY <1>5 DEF At
<1>8. \A r, u \in Tensors(G) : r # t /\ u # t => Clash(r, u)' = Clash(r, u)
    BY <1>5 DEF Clash
<1>9. \A a \in Int : At(t, a)' <=> o <= a /\ a < o + s
    BY <1>5 DEF At
\* The block was free: nothing allocated is there.
<1>10. ASSUME NEW u \in Tensors(G), allocated[u] PROVE ~ Clash(t, u)' /\ ~ Clash(u, t)'
    <2>1. ASSUME o < offset[u] + G[u].size, offset[u] < o + s PROVE FALSE
        <3>1. PICK a \in Nat : o <= a /\ a < o + s /\ offset[u] <= a /\ a < offset[u] + G[u].size
            BY <1>3, <1>4, <2>1, Shared
        <3>2. a \in o .. o + s - 1
            BY <1>3, <3>1
        <3>3. Free(blocks, a)
            BY <1>1, <3>2
        <3>4. u <= Reached /\ Own(G, u)
            BY <1>10 DEF Places, MemoryOK
        <3>5. offset[u] + G[u].size <= maxSize
            BY <3>4 DEF Places, MemoryOK
        <3>6. maxSize < Limit
            <4>1. Reached \in 0 .. MaxNodes + 1
                BY <1>3, GraphAssumption DEF GraphOK, Tensors
            <4>2. maxSize \in 0 .. Limit - 1
                BY <4>1, Beyond DEF Places
            <4> QED BY <1>3, <4>2
        <3>7. a \in 0 .. Limit - 1
            BY <1>3, <1>4, <3>1, <3>5, <3>6
        <3>8. At(u, a)
            BY <3>1 DEF At
        <3> QED BY <1>10, <3>3, <3>7, <3>8 DEF Places, MemoryOK
    <2>2. u # t /\ offset'[u] = offset[u] /\ offset'[t] = o
        BY <1>5, <1>6, <1>10
    <2> QED BY <2>1, <2>2 DEF Clash
<1> HIDE DEF s
<1>11. MemoryOK'
    <2>1. \A u \in Tensors(G) : allocated'[u] => Own(G, u) /\ u <= t
        BY <1>4, <1>5 DEF Places, MemoryOK
    <2>2. ASSUME NEW u \in Tensors(G), Own(G, u), u <= t PROVE offset'[u] + G[u].size <= maxSize'
        <3>1. CASE u = t
            BY <1>1, <1>5, <3>1 DEF s
        <3>2. CASE u # t
            <4>1. offset[u] + G[u].size <= maxSize
                BY <1>4, <2>2, <3>2 DEF Places, MemoryOK
            <4> QED BY <1>1, <1>3, <1>4, <1>5, <3>2, <4>1
        <3> QED BY <3>1, <3>2
    <2>3. ASSUME NEW u \in Tensors(G), NEW w \in Tensors(G), allocated'[u], allocated'[w], u # w
          PROVE  ~ Clash(u, w)'
        <3>1. CASE u # t /\ w # t
            BY <1>5, <1>8, <2>3, <3>1 DEF Places, MemoryOK
        <3>2. CASE u = t \/ w = t
            BY <1>5, <1>10, <2>3, <3>2
        <3> QED BY <3>1, <3>2
    <2>4. ASSUME NEW a \in 0 .. Limit - 1
          PROVE  Free(blocks', a) <=> ~ \E u \in Tensors(G) : allocated'[u] /\ At(u, a)'
        <3>1. Free(blocks, a) <=> ~ \E u \in Tensors(G) : allocated[u] /\ At(u, a)
            BY DEF Places, MemoryOK
        <3>2. a \in Int
            OBVIOUS
        <3>3. Free(blocks', a) <=> Free(blocks, a) /\ ~ At(t, a)'
            BY <1>1, <1>9, <3>2
        <3>4. \A u \in Tensors(G) : allocated'[u] /\ At(u, a)' <=> (allocated[u] /\ At(u, a)) \/ (u = t /\ At(t, a)')
            BY <1>5, <1>6, <1>7, <3>2
        <3> QED BY <3>1, <3>3, <3>4
    <2> QED BY <1>1, <2>1, <2>2, <2>3, <2>4 DEF MemoryOK
<1>12. ReadsOK'
    <2> SUFFICES ASSUME NEW u \in Tensors(G), u > t, NEW k \in 1 .. Len(G[u].src),
                        Own(G, Root(G, G[u].src[k])), Root(G, G[u].src[k]) <= t
                 PROVE  allocated'[Root(G, G[u].src[k])]
        BY DEF ReadsOK
    <2>1. Root(G, G[u].src[k]) \in Tensors(G)
        BY SourceIs
    <2> QED BY <1>4, <1>5, <2>1 DEF Places, ReadsOK
<1>13. KeptOK'
    <2> SUFFICES ASSUME NEW r \in Tensors(G), Own(G, r), r <= t, G[r].out PROVE allocated'[r]
        BY DEF KeptOK
    <2> QED BY <1>4, <1>5 DEF Places, KeptOK
<1>14. ApartOK'
    <2> SUFFICES ASSUME NEW r \in Tensors(G), NEW u \in Tensors(G), allocated'[r], Own(G, u), u <= t,
                        u # r, Since(u) >= Since(r)
                 PROVE  ~ Clash(u, r)'
        BY DEF ApartOK
    <2>1. CASE r = t
        <3>1. t # 2
            BY DEF GraphOK, Own
        <3>2. u < t
            BY <1>3, <1>4, <2>1
        <3> QED BY <1>3, <1>4, <2>1, <3>1, <3>2 DEF Since
    <2>2. CASE u = t
        BY <1>5, <1>10, <2>2
    <2>3. CASE r # t /\ u # t
        BY <1>4, <1>5, <1>8, <2>3 DEF Places, ApartOK
    <2> QED BY <2>1, <2>2, <2>3
<1>15. IntactOK'
    <2> SUFFICES ASSUME NEW v \in Tensors(G), v <= t, NEW k \in 1 .. Len(G[v].src), Own(G, Root(G, G[v].src[k]))
                 PROVE  LET r == Root(G, G[v].src[k])
                        IN  /\ \A u \in Tensors(G) \ {r} :
                                  Own(G, u) /\ Since(u) >= Since(r) /\ u < v => ~ Clash(u, r)'
                            /\ Own(G, v) /\ Clash(v, r)' =>
                                  G[v].kind = "inplace" /\ offset'[v] = offset'[r] /\ G[v].size = G[r].size
        BY DEF IntactOK
    <2>1. CASE v = t
        <3>1. PICK r \in Tensors(G) : r = Root(G, G[v].src[k])
            BY SourceIs
        <3>2. /\ r < t /\ allocated[r]
              /\ \A u \in Tensors(G) \ {r} : Own(G, u) /\ Since(u) >= Since(r) /\ u < t => ~ Clash(u, r)
            BY <2>1, <3>1, NextReads
        <3>3. ~ Clash(v, r)'
            BY <1>10, <2>1, <3>2
        <3>4. r # t /\ \A u \in Tensors(G) : u < t => u # t
            BY <1>4, <3>2
        <3>5. \A u \in Tensors(G) \ {r} : Own(G, u) /\ Since(u) >= Since(r) /\ u < t => ~ Clash(u, r)'
            BY <1>8, <3>2, <3>4
        <3>6. Root(G, G[v].src[k])' = r
            BY <3>1 DEF Root
        <3> QED BY <2>1, <3>1, <3>3, <3>5, <3>6
    <2>2. CASE v # t
        <3>1. v < t /\ \A u \in Tensors(G) : u < t => offset'[u] = offset[u]
            BY <1>4, <1>5, <2>2
        <3> QED BY <3>1, IntactBefore
    <2> QED BY <2>1, <2>2
<1> QED BY <1>2, <1>11, <1>12, <1>13, <1>14, <1>15 DEF Places

\* A tensor takes the place of a parent which nobody else will read.
LEMMA PlacesReuse ==
    ASSUME GraphOK(G), Typed, Places, NEW t \in Tensors(G), G[t].kind = "inplace",
           Reached = t - 1, Reached' = t, G' = G,
           NEW p \in Tensors(G), allocated[p], ~ G[p].out, G[p].size = G[t].size,
           \A u \in Tensors(G) : u > t => \A k \in 1 .. Len(G[u].src) : Root(G, G[u].src[k]) # p,
           offset' = [offset EXCEPT ![t] = offset[p]],
           allocated' = [allocated EXCEPT ![t] = TRUE, ![p] = FALSE],
           UNCHANGED <<blocks, maxSize>>
    PROVE  Places' /\ Typed'
<1>1. t \in Nat /\ p \in Nat /\ Own(G, t)
    BY SizeIs DEF Own
<1>2. p < t /\ Own(G, p)
    BY <1>1 DEF Places, MemoryOK
<1>3. Typed'
    BY DEF Typed
<1>4. \A u \in Tensors(G) : /\ u \in Nat /\ u >= 1 /\ (u <= t <=> u <= Reached \/ u = t) /\ (u > t => u > Reached)
                            /\ (u < t <=> u <= Reached)
    BY <1>1, SizeIs DEF Tensors
<1>5. /\ offset'[t] = offset[p] /\ allocated'[t] = TRUE /\ allocated'[p] = FALSE
      /\ \A u \in Tensors(G) : u # t => offset'[u] = offset[u]
      /\ \A u \in Tensors(G) : u # t /\ u # p => allocated'[u] = allocated[u]
    BY <1>1, <1>2 DEF Typed
<1>6. \A u \in Tensors(G) : allocated[u] => u # t /\ u < t
    <2>1. \A u \in Tensors(G) : allocated[u] => u <= Reached
        BY DEF Places, MemoryOK
    <2> QED BY <1>4, <2>1
<1>7. \A u \in Tensors(G), a \in Int : u # t => At(u, a)' = At(u, a)
    BY <1>5 DEF At
<1>8. \A r, u \in Tensors(G) : r # t /\ u # t => Clash(r, u)' = Clash(r, u)
    BY <1>5 DEF Clash
<1>9. \A a \in Int : At(t, a)' = At(p, a)
    BY <1>5 DEF At
<1>10. \A u \in Tensors(G) : u # t => Clash(t, u)' = Clash(p, u) /\ Clash(u, t)' = Clash(u, p)
    BY <1>5 DEF Clash
<1>11. \A u \in Tensors(G) : allocated[u] /\ u # p => ~ Clash(p, u) /\ ~ Clash(u, p)
    BY DEF Places, MemoryOK
<1>12. MemoryOK'
    <2>1. \A u \in Tensors(G) : allocated'[u] => Own(G, u) /\ u <= t
        BY <1>1, <1>4, <1>5 DEF Places, MemoryOK
    <2>2. ASSUME NEW u \in Tensors(G), Own(G, u), u <= t PROVE offset'[u] + G[u].size <= maxSize'
        <3>1. CASE u = t
            <4>1. offset[p] + G[p].size <= maxSize
                BY <1>2, <1>4 DEF Places, MemoryOK
            <4> QED BY <1>5, <3>1, <4>1
        <3>2. CASE u # t
            <4>1. offset[u] + G[u].size <= maxSize
                BY <1>4, <2>2, <3>2 DEF Places, MemoryOK
            <4> QED BY <1>5, <3>2, <4>1
        <3> QED BY <3>1, <3>2
    <2>3. ASSUME NEW u \in Tensors(G), NEW w \in Tensors(G), allocated'[u], allocated'[w], u # w
          PROVE  ~ Clash(u, w)'
        <3>1. CASE u # t /\ w # t
            BY <1>5, <1>8, <2>3, <3>1 DEF Places, MemoryOK
        <3>2. CASE u = t
            BY <1>5, <1>10, <1>11, <2>3, <3>2
        <3>3. CASE w = t
            BY <1>5, <1>10, <1>11, <2>3, <3>3
        <3> QED BY <3>1, <3>2, <3>3
    <2>4. ASSUME NEW a \in 0 .. Limit - 1
          PROVE  Free(blocks', a) <=> ~ \E u \in Tensors(G) : allocated'[u] /\ At(u, a)'
        <3>1. Free(blocks, a) <=> ~ \E u \in Tensors(G) : allocated[u] /\ At(u, a)
            BY DEF Places, MemoryOK
        <3>2. a \in Int
            OBVIOUS
        <3>3. (\E u \in Tensors(G) : allocated'[u] /\ At(u, a)') => \E u \in Tensors(G) : allocated[u] /\ At(u, a)
            BY <1>5, <1>7, <1>9, <3>2
        <3>4. (\E u \in Tensors(G) : allocated[u] /\ At(u, a)) => \E u \in Tensors(G) : allocated'[u] /\ At(u, a)'
            BY <1>5, <1>6, <1>7, <1>9, <3>2
        <3> QED BY <3>1, <3>3, <3>4
    <2>5. maxSize \in Nat /\ maxSize <= t * Largest
        <3>1. maxSize \in Nat /\ maxSize <= (t - 1) * Largest
            BY DEF Places, MemoryOK
        <3>2. (t - 1) * Largest <= t * Largest /\ t * Largest \in Nat /\ (t - 1) * Largest \in Nat
            <4>1. t - 1 \in Nat /\ t - 1 <= MaxNodes + 2
                BY <1>1, <1>4, GraphAssumption DEF GraphOK, Tensors
            <4>2. (t - 1) * Largest \in Nat /\ (t - 1 + 1) * Largest = (t - 1) * Largest + Largest
                BY <4>1, Bounded
            <4>3. t - 1 + 1 = t /\ Largest \in Nat
                BY <1>1, LargestIs
            <4> QED BY <4>2, <4>3
        <3> QED BY <3>1, <3>2
    <2> QED BY <2>1, <2>2, <2>3, <2>4, <2>5 DEF Places, MemoryOK
<1>13. ReadsOK'
    <2> SUFFICES ASSUME NEW u \in Tensors(G), u > t, NEW k \in 1 .. Len(G[u].src),
                        Own(G, Root(G, G[u].src[k])), Root(G, G[u].src[k]) <= t
                 PROVE  allocated'[Root(G, G[u].src[k])]
        BY DEF ReadsOK
    <2>1. Root(G, G[u].src[k]) \in Tensors(G)
        BY SourceIs
    <2> QED BY <1>4, <1>5, <2>1 DEF Places, ReadsOK
<1>14. KeptOK'
    <2> SUFFICES ASSUME NEW r \in Tensors(G), Own(G, r), r <= t, G[r].out PROVE allocated'[r]
        BY DEF KeptOK
    <2> QED BY <1>4, <1>5 DEF Places, KeptOK
<1>15. ApartOK'
    <2> SUFFICES ASSUME NEW r \in Tensors(G), NEW u \in Tensors(G), allocated'[r], Own(G, u), u <= t,
                        u # r, Since(u) >= Since(r)
                 PROVE  ~ Clash(u, r)'
        BY DEF ApartOK
    <2>1. CASE r = t
        <3>1. t # 2
            BY DEF GraphOK, Own
        <3>2. u < t
            BY <1>1, <1>4, <2>1
        <3> QED BY <1>1, <1>4, <2>1, <3>1, <3>2 DEF Since
    <2>2. CASE u = t
        BY <1>5, <1>10, <1>11, <2>2
    <2>3. CASE r # t /\ u # t
        BY <1>4, <1>5, <1>8, <2>3 DEF Places, ApartOK
    <2> QED BY <2>1, <2>2, <2>3
<1>16. IntactOK'
    <2> SUFFICES ASSUME NEW v \in Tensors(G), v <= t, NEW k \in 1 .. Len(G[v].src), Own(G, Root(G, G[v].src[k]))
                 PROVE  LET r == Root(G, G[v].src[k])
                        IN  /\ \A u \in Tensors(G) \ {r} :
                                  Own(G, u) /\ Since(u) >= Since(r) /\ u < v => ~ Clash(u, r)'
                            /\ Own(G, v) /\ Clash(v, r)' =>
                                  G[v].kind = "inplace" /\ offset'[v] = offset'[r] /\ G[v].size = G[r].size
        BY DEF IntactOK
    <2>1. CASE v = t
        <3>1. PICK r \in Tensors(G) : r = Root(G, G[v].src[k])
            BY SourceIs
        <3>2. /\ r < t /\ allocated[r]
              /\ \A u \in Tensors(G) \ {r} : Own(G, u) /\ Since(u) >= Since(r) /\ u < t => ~ Clash(u, r)
            BY <2>1, <3>1, NextReads
        <3>3. Clash(v, r)' => r = p
            BY <1>6, <1>10, <1>11, <2>1, <3>2
        <3>4. r = p => offset'[v] = offset'[r] /\ G[v].size = G[r].size
            BY <1>5, <1>6, <2>1
        <3>5. r # t /\ \A u \in Tensors(G) : u < t => u # t
            BY <1>4, <3>2
        <3>6. \A u \in Tensors(G) \ {r} : Own(G, u) /\ Since(u) >= Since(r) /\ u < t => ~ Clash(u, r)'
            BY <1>8, <3>2, <3>5
        <3>7. Root(G, G[v].src[k])' = r
            BY <3>1 DEF Root
        <3> QED BY <2>1, <3>1, <3>3, <3>4, <3>6, <3>7
    <2>2. CASE v # t
        <3>1. v < t /\ \A u \in Tensors(G) : u < t => offset'[u] = offset[u]
            BY <1>4, <1>5, <2>2
        <3> QED BY <3>1, IntactBefore
    <2> QED BY <2>1, <2>2
<1> QED BY <1>3, <1>12, <1>13, <1>14, <1>15, <1>16 DEF Places

\* A tensor that nobody will read is freed.
LEMMA PlacesFree ==
    ASSUME GraphOK(G), Typed, Places, Reached \in 0 .. MaxNodes + 2, Reached' = Reached, G' = G,
           NEW q \in Tensors(G), allocated[q], ~ G[q].out,
           \A u \in Tensors(G) : u > Reached => \A k \in 1 .. Len(G[u].src) : Root(G, G[u].src[k]) # q,
           blocks' = Freed(blocks, offset[q], G[q].size),
           allocated' = [allocated EXCEPT ![q] = FALSE],
           UNCHANGED <<offset, maxSize>>
    PROVE  Places' /\ Typed'
<1>1. offset[q] \in Nat /\ G[q].size \in Nat \ {0} /\ Reached \in Nat /\ Limit \in Nat
    BY SizeIs, LimitAssumption
<1>2. allocated'[q] = FALSE /\ \A u \in Tensors(G) : u # q => allocated'[u] = allocated[u]
    BY DEF Typed
<1>3. Typed'
    BY DEF Typed
<1>4. \A u : offset'[u] = offset[u]
    OBVIOUS
<1>5. \A u, a : At(u, a)' = At(u, a)
    BY DEF At
<1>6. \A r, u : Clash(r, u)' = Clash(r, u)
    BY DEF Clash
<1>7. Own(G, q) /\ q <= Reached /\ maxSize \in Nat /\ maxSize <= Reached * Largest /\ FreeList(blocks)
    BY DEF Places, MemoryOK
<1>8. offset[q] + G[q].size <= maxSize
    BY <1>7 DEF Places, MemoryOK
<1>9. maxSize < Limit
    <2>1. Reached * Largest \in Nat /\ Reached * Largest < Limit
        BY <1>1, Bounded, GraphAssumption
    <2> QED BY <1>1, <1>7, <2>1
<1>10. \A a \in 0 .. Limit - 1 : Free(blocks, a) <=> ~ \E t \in Tensors(G) : allocated[t] /\ At(t, a)
    BY DEF Places, MemoryOK
<1>11. \A a \in offset[q] .. offset[q] + G[q].size - 1 : a \in 0 .. Limit - 1 /\ At(q, a) /\ ~ Free(blocks, a)
    BY <1>1, <1>7, <1>8, <1>9, <1>10 DEF At
<1>12. /\ FreeList(blocks')
       /\ \A a \in Int : Free(blocks', a) <=> Free(blocks, a) \/ At(q, a)
    <2>1. offset[q] + G[q].size <= Limit
        BY <1>1, <1>7, <1>8, <1>9
    <2>2. \A a \in offset[q] .. offset[q] + G[q].size - 1 : ~ Free(blocks, a)
        BY <1>11
    <2> QED BY <1>1, <1>7, <2>1, <2>2, FreedList DEF At
<1>13. MemoryOK'
    <2>1. \A u \in Tensors(G) : allocated'[u] => Own(G, u) /\ u <= Reached
        BY <1>2 DEF Places, MemoryOK
    <2>2. \A u \in Tensors(G) : Own(G, u) /\ u <= Reached => offset[u] + G[u].size <= maxSize
        BY DEF Places, MemoryOK
    <2>3. \A t, u \in Tensors(G) : allocated'[t] /\ allocated'[u] /\ t # u => ~ Clash(t, u)'
        BY <1>2, <1>6 DEF Places, MemoryOK
    <2>4. ASSUME NEW a \in 0 .. Limit - 1
          PROVE  Free(blocks', a) <=> ~ \E t \in Tensors(G) : allocated'[t] /\ At(t, a)'
        <3>1. a \in Int
            BY <1>1
        <3>2. Free(blocks', a) <=> Free(blocks, a) \/ At(q, a)
            BY <1>12, <3>1
        <3>3. ASSUME At(q, a), NEW t \in Tensors(G), allocated[t], t # q, At(t, a) PROVE FALSE
            <4>1. Clash(t, q)
                BY <1>1, <3>1, <3>3, SizeIs DEF At, Clash
            <4> QED BY <3>3, <4>1 DEF Places, MemoryOK
        <3>4. Free(blocks, a) <=> ~ \E t \in Tensors(G) : allocated[t] /\ At(t, a)
            BY <1>10
        <3> QED BY <1>2, <1>5, <3>2, <3>3, <3>4
    <2> QED BY <1>7, <1>12, <2>1, <2>2, <2>3, <2>4 DEF MemoryOK
<1>14. ReadsOK'
    <2> SUFFICES ASSUME NEW u \in Tensors(G), u > Reached, NEW k \in 1 .. Len(G[u].src),
                        Own(G, Root(G, G[u].src[k])), Root(G, G[u].src[k]) <= Reached
                 PROVE  allocated'[Root(G, G[u].src[k])]
        BY DEF ReadsOK
    <2>1. Root(G, G[u].src[k]) \in Tensors(G)
        BY SourceIs
    <2> QED BY <1>2, <2>1 DEF Places, ReadsOK
<1>15. KeptOK'
    <2>1. \A r \in Tensors(G) : Own(G, r) /\ r <= Reached /\ G[r].out => allocated'[r]
        BY <1>2 DEF Places, KeptOK
    <2> QED BY <2>1 DEF KeptOK
<1>16. ApartOK'
    BY <1>2, <1>6 DEF Places, ApartOK
<1>17. IntactOK'
    BY <1>6 DEF Places, IntactOK
<1> QED BY <1>3, <1>13, <1>14, <1>15, <1>16, <1>17 DEF Places

-----------------------------------------------------------------------------
(* Counting uses.                                                          *)

LEMMA UsesFinite ==
    ASSUME NEW g, GraphOK(g), NEW n, NEW m, NEW t
    PROVE  IsFiniteSet(Uses(g, t)) /\ IsFiniteSet(Rest(g, n, m, t)) /\ IsFiniteSet(ViewsLeft(g, n, m, t))
<1>0. Len(g) \in Int
    BY DEF GraphOK
<1>1. IsFiniteSet(Tensors(g)) /\ IsFiniteSet(1 .. 2)
    <2>1. \A n1, n2 \in Int : IsFiniteSet(n1 .. n2)
        BY FS_Interval
    <2>2. 1 \in Int /\ 2 \in Int
        OBVIOUS
    <2> QED BY <1>0, <2>1, <2>2 DEF Tensors
<1>2. IsFiniteSet(Tensors(g) \X (1 .. 2))
    BY <1>1, FS_Product
<1>3. /\ Uses(g, t) \subseteq Tensors(g) \X (1 .. 2) /\ Rest(g, n, m, t) \subseteq Tensors(g) \X (1 .. 2)
      /\ ViewsLeft(g, n, m, t) \subseteq Tensors(g)
    BY DEF Uses, Rest, ViewsLeft
<1> QED BY <1>1, <1>2, <1>3, FS_Subset

\* A use is of a source of a node.
LEMMA UseIs ==
    ASSUME NEW g, GraphOK(g), NEW t, NEW r \in Uses(g, t)
    PROVE  /\ r[1] \in Tensors(g) /\ r[1] \in Nat /\ r[1] >= 3 /\ r[2] \in 1 .. Len(g[r[1]].src)
           /\ r = <<r[1], r[2]>> /\ g[r[1]].src[r[2]] = t /\ t \in Tensors(g) /\ t < r[1]
<1>1. /\ r[1] \in Tensors(g) /\ r[2] \in 1 .. 2 /\ r = <<r[1], r[2]>>
      /\ r[2] <= Len(g[r[1]].src) /\ g[r[1]].src[r[2]] = t
    BY DEF Uses
<1>2. r[1] \in Nat /\ g[r[1]] \in Record
    BY <1>1, TensorIs
<1>3. r[2] \in 1 .. Len(g[r[1]].src)
    BY <1>1, <1>2 DEF Record
<1> QED BY <1>1, <1>2, <1>3, SourceIs

LEMMA UseOf ==
    ASSUME NEW g, GraphOK(g), NEW u \in Tensors(g), NEW k \in 1 .. Len(g[u].src)
    PROVE  <<u, k>> \in Uses(g, g[u].src[k])
BY SourceIs DEF Uses

\* Before the first node nothing has been used.
LEMMA RestAtFirst ==
    ASSUME NEW g, GraphOK(g), NEW t \in Tensors(g)
    PROVE  Rest(g, 3, 1, t) = Uses(g, t) /\ ViewsLeft(g, 3, 1, t) = {v \in Tensors(g) : g[v].view = t}
<1>1. \A v : Rest(g, 3, 1, v) = Uses(g, v)
    <2> SUFFICES ASSUME NEW v, NEW r \in Uses(g, v) PROVE r[1] > 3 \/ (r[1] = 3 /\ r[2] >= 1)
        BY DEF Rest
    <2>1. r[1] \in Nat /\ r[1] >= 3 /\ r[2] >= 1
        BY UseIs
    <2> QED BY <2>1
<1> QED BY <1>1 DEF ViewsLeft

\* After the last source of a node comes the next node.
LEMMA RestAtNext ==
    ASSUME NEW g, GraphOK(g), NEW n \in Nat, NEW m \in Nat, m > Len(g[n].src), n \in Tensors(g), NEW t
    PROVE  Rest(g, n + 1, 1, t) = Rest(g, n, m, t) /\ ViewsLeft(g, n + 1, 1, t) = ViewsLeft(g, n, m, t)
<1>1. \A v : Rest(g, n + 1, 1, v) = Rest(g, n, m, v)
    <2> SUFFICES ASSUME NEW v, NEW r \in Uses(g, v)
                 PROVE  r[1] > n + 1 \/ (r[1] = n + 1 /\ r[2] >= 1) <=> r[1] > n \/ (r[1] = n /\ r[2] >= m)
        BY DEF Rest
    <2>1. r[1] \in Nat /\ r[2] \in 1 .. Len(g[r[1]].src)
        BY UseIs
    <2>2. Len(g[n].src) \in Nat
        BY TensorIs DEF Record
    <2>3. r[1] = n => ~ (r[2] >= m)
        BY <2>1, <2>2
    <2>4. r[2] >= 1
        BY <2>1
    <2> QED BY <2>1, <2>3, <2>4
<1> QED BY <1>1 DEF ViewsLeft

\* With a source of a node, one use of it is over.
LEMMA RestAtSource ==
    ASSUME NEW g, GraphOK(g), NEW n \in Tensors(g), NEW m \in 1 .. Len(g[n].src), NEW t
    PROVE  Rest(g, n, m + 1, t) = IF t = g[n].src[m] THEN Rest(g, n, m, t) \ {<<n, m>>} ELSE Rest(g, n, m, t)
<1>1. ASSUME NEW r \in Uses(g, t)
      PROVE  /\ r[1] \in Nat /\ r[2] \in Nat /\ n \in Nat /\ m \in Nat
             /\ r = <<n, m>> <=> r[1] = n /\ r[2] = m
             /\ r = <<n, m>> => t = g[n].src[m]
    BY UseIs, TensorIs
<1>2. ASSUME NEW r \in Uses(g, t)
      PROVE  r[1] > n \/ (r[1] = n /\ r[2] >= m + 1) <=> (r[1] > n \/ (r[1] = n /\ r[2] >= m)) /\ r # <<n, m>>
    BY <1>1
<1> QED BY <1>1, <1>2 DEF Rest

\* A view that has lost its last child is one less view of its root.
LEMMA ViewsAtSource ==
    ASSUME NEW g, GraphOK(g), NEW n \in Tensors(g), NEW m \in 1 .. Len(g[n].src), NEW t
    PROVE  LET p == g[n].src[m]
           IN  /\ ViewsLeft(g, n, m + 1, t) =
                     IF t = g[p].view /\ Rest(g, n, m + 1, p) = {}
                     THEN ViewsLeft(g, n, m, t) \ {p} ELSE ViewsLeft(g, n, m, t)
               /\ t = g[p].view => p \in ViewsLeft(g, n, m, t)
<1> DEFINE p == g[n].src[m]
<1>1. p \in Tensors(g)
    BY SourceIs
<1>2. <<n, m>> \in Uses(g, p)
    BY UseOf
<1>3. <<n, m>> \in Rest(g, n, m, p)
    BY <1>2, TensorIs DEF Rest
<1>4. \A v : v # p => Rest(g, n, m + 1, v) = Rest(g, n, m, v)
    BY RestAtSource
<1>5. t = g[p].view => p \in ViewsLeft(g, n, m, t)
    BY <1>1, <1>3 DEF ViewsLeft
<1>6. p \in ViewsLeft(g, n, m + 1, t) <=> t = g[p].view /\ Rest(g, n, m + 1, p) # {}
    BY <1>1, <1>2 DEF ViewsLeft
<1>7. p \in ViewsLeft(g, n, m, t) <=> t = g[p].view
    BY <1>1, <1>3 DEF ViewsLeft
<1>8. \A v : v # p => (v \in ViewsLeft(g, n, m + 1, t) <=> v \in ViewsLeft(g, n, m, t))
    BY <1>4 DEF ViewsLeft
<1> HIDE DEF p
<1>9. ViewsLeft(g, n, m + 1, t) =
          IF t = g[p].view /\ Rest(g, n, m + 1, p) = {} THEN ViewsLeft(g, n, m, t) \ {p} ELSE ViewsLeft(g, n, m, t)
    <2> DEFINE V == ViewsLeft(g, n, m, t)
               W == ViewsLeft(g, n, m + 1, t)
    <2> HIDE DEF V, W
    <2>1. CASE t = g[p].view /\ Rest(g, n, m + 1, p) = {}
        <3>1. p \notin W /\ \A v : v # p => (v \in W <=> v \in V)
            BY <1>6, <1>8, <2>1 DEF V, W
        <3>2. W = V \ {p}
            BY <3>1
        <3> QED BY <2>1, <3>2 DEF V, W
    <2>2. CASE ~ (t = g[p].view /\ Rest(g, n, m + 1, p) = {})
        <3>1. p \in W <=> p \in V
            BY <1>6, <1>7, <2>2 DEF V, W
        <3>2. \A v : v # p => (v \in W <=> v \in V)
            BY <1>8 DEF V, W
        <3>3. W = V
            BY <3>1, <3>2
        <3> QED BY <2>2, <3>3 DEF V, W
    <2> QED BY <2>1, <2>2
<1> QED BY <1>5, <1>9 DEF p

\* A tensor that no use is left of, and no view, is read no more.
LEMMA NoReader ==
    ASSUME NEW g, GraphOK(g), NEW n \in Nat, NEW m, NEW q \in Tensors(g),
           \A r \in Rest(g, n, m, q) : r[1] <= n, ViewsLeft(g, n, m, q) = {},
           NEW u \in Tensors(g), u > n, NEW k \in 1 .. Len(g[u].src)
    PROVE  Root(g, g[u].src[k]) # q
<1> DEFINE p == g[u].src[k]
<1>1. p \in Tensors(g) /\ u \in Nat
    BY SourceIs, TensorIs
<1>2. <<u, k>> \in Uses(g, p)
    BY UseOf
<1>3. <<u, k>> \in Rest(g, n, m, p)
    BY <1>2 DEF Rest
<1> HIDE DEF p
<1>4. p # q
    BY <1>1, <1>3
<1>5. g[p].view # q
    BY <1>1, <1>3 DEF ViewsLeft
<1>6. Root(g, p) # q
    BY <1>4, <1>5 DEF Root
<1> QED BY <1>6 DEF p

\* Nobody is a view of a view.
LEMMA ViewOfOwner ==
    ASSUME NEW g, GraphOK(g), NEW p \in Tensors(g), g[p].view # 0, NEW n, NEW m
    PROVE  ViewsLeft(g, n, m, p) = {}
<1> SUFFICES ASSUME NEW v \in Tensors(g), g[v].view = p PROVE FALSE
    BY DEF ViewsLeft
<1>1. g[v].view # 0
    BY TensorIs DEF Tensors
<1>2. v \in 3 .. Len(g)
    BY <1>1 DEF GraphOK, Tensors
<1>3. g[g[v].view].view = 0
    BY <1>1, <1>2 DEF GraphOK, NodeOK
<1> QED BY <1>3

-----------------------------------------------------------------------------
(* The actions.                                                            *)

LEMMA IndInvType ==
    ASSUME IndInv, phase # "build"
    PROVE  /\ GraphOK(graph) /\ GraphOK(G) /\ Typed /\ Places /\ i \in Tensors(graph)
           /\ Len(graph) \in Nat /\ Len(graph) <= MaxNodes + 2
BY DEF IndInv, PhaseOK, TypesOK, Typed, Places, Tensors, GraphOK

LEMMA IndInvInit == ASSUME Init PROVE IndInv
<1>1. PICK s \in Sizes :
        graph = <<Tensor("input", << >>, 0, s, FALSE), Tensor("weight", << >>, 0, s, FALSE)>>
    BY DEF Init
<1>2. /\ graph \in Seq(Record) /\ Len(graph) = 2
      /\ graph[1] = Tensor("input", << >>, 0, s, FALSE) /\ graph[2] = Tensor("weight", << >>, 0, s, FALSE)
    BY <1>1 DEF Tensor, Record, Kinds
<1>3. GraphOK(graph)
    BY <1>2, GraphAssumption DEF GraphOK, Tensor
<1>4. G = graph /\ phase = "build"
    BY DEF G, Settled, Init
<1>5. PhaseOK
    BY <1>2, <1>3, <1>4, GraphAssumption, LimitAssumption DEF PhaseOK, Settled, Init, Idle
<1> QED BY <1>4, <1>5 DEF IndInv, Init

\* A node is added to a graph.
LEMMA NodeAdded ==
    ASSUME NEW g, GraphOK(g), Len(g) < MaxNodes + 2, NEW n \in Record,
           NodeOK(Append(g, n), Len(g) + 1)
    PROVE  GraphOK(Append(g, n))
<1> DEFINE h == Append(g, n)
<1>1. /\ g \in Seq(Record) /\ Len(g) \in Nat /\ Len(g) >= 2 /\ MaxNodes \in Nat
    BY GraphAssumption DEF GraphOK
<1>2. h \in Seq(Record) /\ Len(h) = Len(g) + 1 /\ \A t \in 1 .. Len(g) : h[t] = g[t]
    BY <1>1
<1>3. NodeOK(h, Len(g) + 1)
    OBVIOUS
<1> HIDE DEF h
<1>4. ASSUME NEW t \in 3 .. Len(h) PROVE NodeOK(h, t)
    <2>1. CASE t = Len(g) + 1
        BY <1>3, <2>1
    <2>2. CASE t # Len(g) + 1
        <3>1. t \in 3 .. Len(g) /\ h[t] = g[t]
            BY <1>1, <1>2, <2>2
        <3>2. NodeOK(g, t)
            BY <3>1 DEF GraphOK
        <3>3. g[t].view # 0 => h[g[t].view] = g[g[t].view]
            <4>1. g[t].view \in 0 .. t - 1
                BY <3>2 DEF NodeOK
            <4>2. g[t].view # 0 => g[t].view \in 1 .. Len(g)
                BY <1>1, <3>1, <4>1
            <4> QED BY <1>2, <4>2
        <3> QED BY <3>1, <3>2, <3>3 DEF NodeOK
    <2> QED BY <2>1, <2>2
<1>5. Len(h) \in 2 .. MaxNodes + 2
    BY <1>1, <1>2
<1>6. h[1] = g[1] /\ h[2] = g[2]
    BY <1>1, <1>2
<1>7. GraphOK(h)
    BY <1>2, <1>4, <1>5, <1>6 DEF GraphOK
<1> QED BY <1>7 DEF h

LEMMA IndInvAddNode ==
    ASSUME IndInv, AddNode
    PROVE  IndInv'
<1>1. PICK kind \in {"op", "inplace", "view"} : \E n \in Nodes(kind) : graph' = Append(graph, n)
    BY DEF AddNode
<1>2. PICK n \in Nodes(kind) : graph' = Append(graph, n)
    BY <1>1
<1>3. /\ phase = "build" /\ GraphOK(graph) /\ Idle /\ Len(graph) < MaxNodes + 2
      /\ UNCHANGED <<fixed, phase, i, j, counters, allocated, offset, tallocr, buffer, calls>>
    BY DEF IndInv, PhaseOK, AddNode
<1>4. Len(graph) \in Nat /\ Tensors(graph) = 1 .. Len(graph) /\ Len(graph) >= 2 /\ graph \in Seq(Record)
    BY <1>3 DEF GraphOK, Tensors
<1> DEFINE e == Len(graph) + 1
\* What the new node is.
<1>5. /\ n \in Record /\ n.kind = kind /\ Len(n.src) \in 1 .. 2
      /\ \A k \in 1 .. Len(n.src) : n.src[k] \in Tensors(graph)
      /\ IF kind = "view" THEN n.view = Root(graph, n.src[1]) ELSE n.view = 0
    <2>1. Sources \subseteq Seq(Nat) /\ \A s \in Sources : /\ Len(s) \in 1 .. 2
                                                           /\ \A k \in 1 .. Len(s) : s[k] \in Tensors(graph)
        <3>1. ASSUME NEW p \in Tensors(graph)
              PROVE  <<p>> \in Seq(Nat) /\ Len(<<p>>) = 1 /\ \A k \in 1 .. 1 : <<p>>[k] \in Tensors(graph)
            BY <1>4
        <3>2. ASSUME NEW p \in Tensors(graph), NEW q \in Tensors(graph)
              PROVE  <<p, q>> \in Seq(Nat) /\ Len(<<p, q>>) = 2 /\ \A k \in 1 .. 2 : <<p, q>>[k] \in Tensors(graph)
            BY <1>4
        <3>3. ASSUME NEW s \in Sources
              PROVE  s \in Seq(Nat) /\ Len(s) \in 1 .. 2 /\ \A k \in 1 .. Len(s) : s[k] \in Tensors(graph)
            <4>1. \/ \E p \in Tensors(graph) : s = <<p>>
                  \/ \E p, q \in Tensors(graph) : s = <<p, q>>
                BY DEF Sources
            <4>2. CASE \E p \in Tensors(graph) : s = <<p>>
                BY <3>1, <4>2
            <4>3. CASE \E p, q \in Tensors(graph) : s = <<p, q>>
                BY <3>2, <4>3
            <4> QED BY <4>1, <4>2, <4>3
        <3> QED BY <3>3
    <2>2. ASSUME NEW p \in Tensors(graph)
          PROVE  graph[p].size \in Sizes /\ Root(graph, p) \in Nat /\ <<p>> \in Sources
        <3>1. graph[p].size \in Sizes /\ Root(graph, p) \in Tensors(graph)
            BY <1>3, TensorIs
        <3>2. <<p>> \in Sources
            BY DEF Sources
        <3> QED BY <1>4, <3>1, <3>2
    <2>3. Outs \subseteq BOOLEAN
        BY DEF Outs
    <2>4. CASE kind = "op"
        <3>1. PICK s \in Sources, z \in Sizes, o \in Outs : n = Tensor(kind, s, 0, z, o)
            BY <1>2, <2>4 DEF Nodes
        <3> QED BY <2>1, <2>3, <2>4, <3>1 DEF Tensor, Record, Kinds
    <2>5. CASE kind = "inplace"
        <3>1. PICK s \in Sources, o \in Outs : n = Tensor(kind, s, 0, graph[s[1]].size, o)
            BY <1>2, <2>5 DEF Nodes
        <3>2. Len(s) \in 1 .. 2 /\ s \in Seq(Nat) /\ \A k \in 1 .. Len(s) : s[k] \in Tensors(graph)
            BY <2>1
        <3>3. s[1] \in Tensors(graph)
            BY <3>2
        <3>4. graph[s[1]].size \in Sizes /\ o \in BOOLEAN
            BY <2>2, <2>3, <3>3
        <3>5. n = [kind |-> "inplace", src |-> s, view |-> 0, size |-> graph[s[1]].size, out |-> o]
            BY <2>5, <3>1 DEF Tensor
        <3>6. n \in Record
            BY <3>2, <3>4, <3>5 DEF Record, Kinds
        <3>7. n.kind = kind /\ n.src = s /\ n.view = 0
            BY <2>5, <3>5
        <3> QED BY <2>5, <3>2, <3>6, <3>7
    <2>6. CASE kind = "view"
        <3>0. Nodes("view") =
                 {Tensor("view", <<p>>, Root(graph, p), graph[p].size, FALSE) : p \in Tensors(graph)}
            BY DEF Nodes
        <3>1. PICK p \in Tensors(graph) : n = Tensor(kind, <<p>>, Root(graph, p), graph[p].size, FALSE)
            BY <1>2, <2>6, <3>0
        <3> QED BY <2>1, <2>2, <2>6, <3>1 DEF Tensor, Record, Kinds
    <2> QED BY <2>4, <2>5, <2>6
<1>6. graph'[e] = n /\ \A t \in Tensors(graph) : graph'[t] = graph[t]
    BY <1>2, <1>4, <1>5
<1>7. NodeOK(graph', e)
    <2>1. ASSUME kind = "view"
          PROVE  n.view \in 1 .. Len(graph) /\ graph'[n.view].view = 0
        <3>1. PICK p \in Tensors(graph) : n.view = Root(graph, p)
            BY <1>4, <1>5, <2>1
        <3>2. n.view \in Tensors(graph)
            BY <1>3, <3>1, TensorIs
        <3>3. graph[n.view].view = 0
            <4>1. CASE graph[p].view = 0
                BY <3>1, <4>1 DEF Root
            <4>2. CASE graph[p].view # 0
                <5>1. p \in 3 .. Len(graph)
                    BY <1>3, <1>4, <4>2 DEF GraphOK
                <5> QED BY <1>3, <3>1, <4>2, <5>1 DEF Root, GraphOK, NodeOK
            <4> QED BY <4>1, <4>2
        <3> QED BY <1>4, <1>6, <3>2, <3>3
    <2>2. \A k \in 1 .. Len(n.src) : n.src[k] \in 1 .. e - 1
        BY <1>4, <1>5
    <2> QED BY <1>1, <1>4, <1>5, <1>6, <2>1, <2>2 DEF NodeOK
<1>8. GraphOK(graph')
    BY <1>2, <1>3, <1>5, <1>7, NodeAdded
<1>9. Len(graph') = Len(graph) + 1
    BY <1>2, <1>4, <1>5
<1>10. PhaseOK' /\ Idle'
    <2>1. G' = graph' /\ phase' = "build" /\ i' = 1 /\ j' = 1 /\ fixed' = << >>
        BY <1>3 DEF G, Settled, Idle, IndInv, PhaseOK
    <2>2. buffer' \in 0 .. Limit /\ calls' \in 1 .. MaxGraphs
        BY <1>3 DEF IndInv, PhaseOK
    <2>3. Idle'
        BY <1>3 DEF Idle, counters, tallocr
    <2>4. 1 \in 1 .. Len(graph')
        BY <1>4, <1>9
    <2> QED BY <1>8, <2>1, <2>2, <2>3, <2>4 DEF PhaseOK, Settled
<1> QED BY <1>3, <1>10 DEF IndInv

\* The hash tables and the allocator are reset: nothing has a place.
LEMMA PlacesReset ==
    ASSUME GraphOK(graph'), Reserve(graph')
    PROVE  /\ TypesOK' /\ Places' /\ CountsOK' /\ G' = graph' /\ Reached' = 0
<1>1. G' = graph' /\ Reached' = 0 /\ phase' = "leafs"
    BY DEF G, Reached, Settled, Reserve
<1>2. Len(graph') \in Nat /\ \A t \in Tensors(graph') : t \in Nat /\ t >= 1
    BY DEF GraphOK, Tensors
<1>3. TypesOK'
    BY <1>1, LimitAssumption DEF TypesOK, Reserve, Zeros
<1>4. \A t \in Tensors(graph') : allocated'[t] = FALSE
    BY DEF Reserve
<1>5. MemoryOK'
    <2>1. blocks' = Reset /\ maxSize' = 0
        BY DEF Reserve
    <2>2. \A a \in 0 .. Limit - 1 : Free(blocks', a)
        BY <2>1, LimitAssumption, ResetList
    <2>3. 0 <= 0 * Largest
        BY LargestIs
    <2> QED BY <1>1, <1>2, <1>4, <2>1, <2>2, <2>3, ResetList DEF MemoryOK
<1>6. ReadsOK' /\ KeptOK'
    <2>1. ASSUME NEW u \in Tensors(graph'), NEW k \in 1 .. Len(graph'[u].src)
          PROVE  ~ (Root(graph', graph'[u].src[k]) <= 0)
        <3>1. Root(graph', graph'[u].src[k]) \in Tensors(graph')
            BY SourceIs
        <3> QED BY <1>2, <3>1
    <2> QED BY <1>1, <1>2, <2>1 DEF ReadsOK, KeptOK
<1>7. ApartOK' /\ IntactOK' /\ CountsOK'
    BY <1>1, <1>2, <1>4 DEF ApartOK, IntactOK, CountsOK
<1> QED BY <1>1, <1>3, <1>5, <1>6, <1>7 DEF Places

LEMMA IndInvFirstReserve ==
    ASSUME IndInv, FirstReserve
    PROVE  IndInv'
<1>1. /\ phase = "build" /\ Len(graph) > 2 /\ Source(graph, 1) /\ Reserve(graph)
      /\ graph' = graph /\ buffer' = buffer /\ calls' = calls
      /\ GraphOK(graph) /\ buffer \in 0 .. Limit /\ calls \in 1 .. MaxGraphs
    BY DEF IndInv, PhaseOK, FirstReserve
<1>2. /\ TypesOK' /\ Places' /\ CountsOK' /\ G' = graph'
    BY <1>1, PlacesReset
<1>3. phase' = "leafs" /\ i' = 1 /\ j' = 1
    BY <1>1 DEF Reserve
<1>4. Len(graph) \in Nat
    BY <1>1 DEF GraphOK
<1>5. PhaseOK'
    BY <1>1, <1>2, <1>3, <1>4 DEF PhaseOK, Settled
<1> QED BY <1>2, <1>3, <1>5 DEF IndInv, Places

LEMMA IndInvAllocLeaf ==
    ASSUME IndInv, AllocLeaf
    PROVE  IndInv'
<1>1. /\ phase = "leafs" /\ Leaf(graph, i) /\ i' = i + 1
      /\ IF graph[i].kind = "weight" THEN UNCHANGED <<offset, allocated, blocks, maxSize>> ELSE Allocate(i)
      /\ UNCHANGED <<graph, fixed, phase, j, children, views, buffer, calls>>
    BY DEF AllocLeaf, counters, tallocr
<1>2. GraphOK(graph) /\ GraphOK(G) /\ Typed /\ Places /\ i \in Tensors(graph)
    BY <1>1, IndInvType
<1>3. PhaseOK /\ TypesOK /\ Len(graph) > 2 /\ Len(graph) \in Nat
    BY <1>1, <1>2 DEF IndInv, PhaseOK, GraphOK
<1>4. i \in 1 .. 2
    BY <1>1, <1>2, LeafIs
<1>5. G = graph /\ G' = G /\ Reached = i - 1 /\ Reached' = i
    BY <1>1, <1>4 DEF G, Reached, Settled
<1>6. Places' /\ Typed'
    <2>1. CASE graph[i].kind = "weight"
        <3>1. ~ Own(G, i) /\ Typed'
            BY <1>1, <1>2, <1>5, <2>1 DEF Own, Typed
        <3> QED BY <1>1, <1>2, <1>5, <2>1, <3>1, PlacesSkip
    <2>2. CASE graph[i].kind # "weight"
        <3>1. Own(G, i)
            BY <1>1, <1>5, <2>2 DEF Own, Leaf
        <3> QED BY <1>1, <1>2, <1>5, <2>2, <3>1, PlacesAllocate
    <2> QED BY <2>1, <2>2
<1>7. TypesOK'
    BY <1>1, <1>3, <1>5, <1>6 DEF TypesOK, Typed
<1>8. PhaseOK'
    BY <1>1, <1>3, <1>4, <1>5 DEF PhaseOK, Settled
<1>9. CountsOK'
    BY <1>1 DEF CountsOK
<1> QED BY <1>1, <1>6, <1>7, <1>8, <1>9 DEF IndInv, Places

LEMMA IndInvCountChildren ==
    ASSUME IndInv, CountChildren
    PROVE  IndInv'
<1>1. /\ phase = "leafs" /\ ~ Leaf(graph, i) /\ phase' = "node"
      /\ children' = [t \in Tensors(graph) |-> Cardinality(Uses(graph, t))]
      /\ views' = [t \in Tensors(graph) |-> Cardinality({v \in Tensors(graph) : graph[v].view = t})]
      /\ UNCHANGED <<graph, fixed, i, j, allocated, offset, blocks, maxSize, buffer, calls>>
    BY DEF CountChildren, tallocr, Uses
<1>2. GraphOK(graph) /\ GraphOK(G) /\ Typed /\ Places /\ i \in Tensors(graph)
    BY <1>1, IndInvType
<1>3. PhaseOK /\ TypesOK /\ Len(graph) > 2 /\ Len(graph) \in Nat
    BY <1>1, <1>2 DEF IndInv, PhaseOK, GraphOK
<1>4. i = 3
    <2>1. i \notin 1 .. 2
        BY <1>1, <1>2, LeafIs
    <2> QED BY <1>1, <1>3, <2>1 DEF PhaseOK
<1>5. G = graph /\ G' = G /\ Reached = i - 1 /\ Reached' = Reached
    BY <1>1 DEF G, Reached, Settled
<1>6. Places'
    BY <1>1, <1>2, <1>5, PlacesStay
<1>7. \A t \in Tensors(graph) : /\ children'[t] = Cardinality(Rest(graph, 3, 1, t)) /\ children'[t] \in Nat
                                /\ views'[t] = Cardinality(ViewsLeft(graph, 3, 1, t)) /\ views'[t] \in Nat
    <2> SUFFICES ASSUME NEW t \in Tensors(graph)
                 PROVE  /\ children'[t] = Cardinality(Rest(graph, 3, 1, t)) /\ children'[t] \in Nat
                        /\ views'[t] = Cardinality(ViewsLeft(graph, 3, 1, t)) /\ views'[t] \in Nat
        OBVIOUS
    <2>1. /\ children'[t] = Cardinality(Rest(graph, 3, 1, t))
          /\ views'[t] = Cardinality(ViewsLeft(graph, 3, 1, t))
        BY <1>1, <1>2, RestAtFirst
    <2>2. IsFiniteSet(Rest(graph, 3, 1, t)) /\ IsFiniteSet(ViewsLeft(graph, 3, 1, t))
        BY <1>2, UsesFinite
    <2>3. Cardinality(Rest(graph, 3, 1, t)) \in Nat /\ Cardinality(ViewsLeft(graph, 3, 1, t)) \in Nat
        BY <2>2, FS_CardinalityType
    <2> QED BY <2>1, <2>3
<1>8. children' \in [Tensors(graph) -> Nat] /\ views' \in [Tensors(graph) -> Nat]
    BY <1>1, <1>7
<1>9. TypesOK'
    BY <1>1, <1>2, <1>5, <1>8 DEF TypesOK, Typed
<1>10. CountsOK'
    BY <1>1, <1>4, <1>7 DEF CountsOK, CountsAt
<1>11. PhaseOK'
    BY <1>1, <1>2, <1>3, <1>4, <1>5 DEF PhaseOK, Settled
<1> QED BY <1>1, <1>6, <1>9, <1>10, <1>11 DEF IndInv, Places

LEMMA IndInvReuseParent ==
    ASSUME IndInv, ReuseParent
    PROVE  IndInv'
<1>1. /\ phase = "node" /\ Reusables(i) # {} /\ phase' = "parents" /\ j' = 1
      /\ UNCHANGED <<graph, fixed, i, children, views, blocks, maxSize, buffer, calls>>
    BY DEF ReuseParent, counters, tallocr
<1>2. GraphOK(graph) /\ GraphOK(G) /\ Typed /\ Places /\ i \in Tensors(graph)
    BY <1>1, IndInvType
<1>3. PhaseOK /\ TypesOK /\ i \in Nat /\ i >= 3 /\ CountsAt(1)
    BY <1>1, <1>2, TensorIs DEF IndInv, PhaseOK, CountsOK
<1>4. PICK k \in Reusables(i) :
          /\ offset' = [offset EXCEPT ![i] = offset[graph[i].src[k]]]
          /\ allocated' = [allocated EXCEPT ![i] = TRUE, ![graph[i].src[k]] = FALSE]
    <2> DEFINE k == CHOOSE k \in Reusables(i) : \A l \in Reusables(i) : k <= l
    <2>1. Reusables(i) \in SUBSET Nat
        BY DEF Reusables
    <2>2. k \in Reusables(i)
        BY <1>1, <2>1, Least
    <2> QED BY <2>2 DEF ReuseParent
<1>5. PICK p \in Tensors(graph) : p = graph[i].src[k] /\ k \in 1 .. Len(graph[i].src)
    BY <1>2, SourceIs DEF Reusables
<1>6. /\ graph[i].kind = "inplace" /\ allocated[p] /\ ~ graph[p].out /\ graph[p].size = graph[i].size
      /\ children[p] = 1 /\ views[p] = 0
    BY <1>5 DEF Reusables, Reusable
<1>7. G = graph /\ G' = G /\ Reached = i - 1 /\ Reached' = i
    BY <1>1 DEF G, Reached, Settled
<1>8. \A r \in Rest(graph, i, 1, p) : r[1] <= i
    <2>1. IsFiniteSet(Rest(graph, i, 1, p)) /\ Cardinality(Rest(graph, i, 1, p)) = 1
        BY <1>2, <1>3, <1>6, UsesFinite DEF CountsAt
    <2>2. PICK x : Rest(graph, i, 1, p) = {x}
        BY <2>1, FS_Singleton
    <2>3. <<i, k>> \in Uses(graph, p)
        BY <1>2, <1>5, UseOf
    <2>4. <<i, k>> \in Rest(graph, i, 1, p)
        BY <1>3, <1>5, <2>3 DEF Rest
    <2> QED BY <1>3, <2>2, <2>4
<1>9. ViewsLeft(graph, i, 1, p) = {}
    <2>1. IsFiniteSet(ViewsLeft(graph, i, 1, p)) /\ Cardinality(ViewsLeft(graph, i, 1, p)) = 0
        BY <1>2, <1>3, <1>6, UsesFinite DEF CountsAt
    <2> QED BY <2>1, FS_EmptySet
<1>10. \A u \in Tensors(G) : u > i => \A l \in 1 .. Len(G[u].src) : Root(G, G[u].src[l]) # p
    BY <1>2, <1>3, <1>7, <1>8, <1>9, NoReader
<1>11. Places' /\ Typed'
    <2>1. /\ i \in Tensors(G) /\ G[i].kind = "inplace" /\ p \in Tensors(G) /\ ~ G[p].out
          /\ G[p].size = G[i].size /\ UNCHANGED <<blocks, maxSize>>
          /\ offset' = [offset EXCEPT ![i] = offset[p]]
          /\ allocated' = [allocated EXCEPT ![i] = TRUE, ![p] = FALSE]
        BY <1>1, <1>2, <1>4, <1>5, <1>6, <1>7
    <2> QED BY <1>2, <1>6, <1>7, <1>10, <2>1, PlacesReuse
<1>12. TypesOK'
    BY <1>1, <1>3, <1>7, <1>11 DEF TypesOK, Typed
<1>13. CountsOK'
    BY <1>1, <1>3 DEF CountsOK, CountsAt
<1>14. PhaseOK'
    <2>1. 1 <= Len(graph[i].src) + 1
        BY <1>2, <1>5, SourceIs
    <2> QED BY <1>1, <1>3, <1>7, <2>1 DEF PhaseOK, Settled
<1> QED BY <1>1, <1>11, <1>12, <1>13, <1>14 DEF IndInv, Places

LEMMA IndInvAllocNode ==
    ASSUME IndInv, AllocNode
    PROVE  IndInv'
<1>1. /\ phase = "node" /\ phase' = "parents" /\ j' = 1
      /\ IF graph[i].kind = "view" THEN UNCHANGED <<offset, allocated, blocks, maxSize>> ELSE Allocate(i)
      /\ UNCHANGED <<graph, fixed, i, children, views, buffer, calls>>
    BY DEF AllocNode, counters, tallocr
<1>2. GraphOK(graph) /\ GraphOK(G) /\ Typed /\ Places /\ i \in Tensors(graph)
    BY <1>1, IndInvType
<1>3. PhaseOK /\ TypesOK /\ i \in Nat /\ i >= 3 /\ CountsAt(1)
    BY <1>1, <1>2, TensorIs DEF IndInv, PhaseOK, CountsOK
<1>4. NodeOK(graph, i)
    BY <1>2, <1>3 DEF GraphOK, Tensors
<1>5. G = graph /\ G' = G /\ Reached = i - 1 /\ Reached' = i
    BY <1>1 DEF G, Reached, Settled
<1>6. Places' /\ Typed'
    <2>1. CASE graph[i].kind = "view"
        <3>1. ~ Own(G, i) /\ Typed'
            BY <1>1, <1>2, <1>5, <2>1 DEF Own, Typed
        <3> QED BY <1>1, <1>2, <1>5, <2>1, <3>1, PlacesSkip
    <2>2. CASE graph[i].kind # "view"
        <3>1. Own(G, i)
            BY <1>4, <1>5, <2>2 DEF Own, NodeOK
        <3> QED BY <1>1, <1>2, <1>5, <2>2, <3>1, PlacesAllocate
    <2> QED BY <2>1, <2>2
<1>7. TypesOK'
    BY <1>1, <1>3, <1>5, <1>6 DEF TypesOK, Typed
<1>8. CountsOK'
    BY <1>1, <1>3 DEF CountsOK, CountsAt
<1>9. PhaseOK'
    <2>1. Len(graph[i].src) \in 1 .. 2
        BY <1>4 DEF NodeOK
    <2>2. 1 <= Len(graph[i].src) + 1
        BY <2>1
    <2> QED BY <1>1, <1>3, <1>5, <2>2 DEF PhaseOK, Settled
<1> QED BY <1>1, <1>6, <1>7, <1>8, <1>9 DEF IndInv, Places

\* A parent has lost a child; so many uses and views are left.
LEMMA CountsAfter ==
    ASSUME IndInv, UpdateParent
    PROVE  /\ Parent \in Tensors(graph) /\ graph[Parent].view \in Nat
           /\ graph[Parent].view # 0 => graph[Parent].view \in Tensors(graph)
           /\ \A t \in Tensors(graph) : /\ children'[t] = Cardinality(Rest(graph, i, j + 1, t))
                                        /\ views'[t] = Cardinality(ViewsLeft(graph, i, j + 1, t))
           /\ children' \in [Tensors(graph) -> Nat] /\ views' \in [Tensors(graph) -> Nat]
<1>1. /\ phase = "parents" /\ j <= Len(graph[i].src)
      /\ children' = [children EXCEPT ![Parent] = @ - 1]
      /\ views' = IF children'[Parent] = 0 /\ views[Parent] = 0 /\ graph[Parent].view # 0
                  THEN [views EXCEPT ![graph[Parent].view] = @ - 1] ELSE views
      /\ graph' = graph /\ i' = i /\ j' = j + 1
    BY DEF UpdateParent
<1>2. GraphOK(graph) /\ i \in Tensors(graph) /\ G = graph
    BY <1>1, IndInvType DEF G, Settled
<1>3. /\ CountsAt(j) /\ j \in 1 .. Len(graph[i].src) /\ j \in Nat
      /\ children \in [Tensors(graph) -> Nat] /\ views \in [Tensors(graph) -> Nat]
    <2>1. CountsAt(j) /\ TypesOK /\ j \in 1 .. 3
        BY <1>1 DEF IndInv, PhaseOK, CountsOK
    <2>2. Len(graph[i].src) \in Nat
        BY <1>2, TensorIs DEF Record
    <2> QED BY <1>1, <1>2, <2>1, <2>2 DEF TypesOK
<1>4. PICK p \in Tensors(graph) : p = Parent
    BY <1>2, <1>3, SourceIs DEF Parent
<1>5. PICK w \in Nat : w = graph[p].view /\ (w # 0 => w \in Tensors(graph))
    <2>1. graph[p].view \in 0 .. p - 1 /\ p \in Nat
        BY <1>2, TensorIs
    <2>2. graph[p].view # 0 => graph[p].view \in Tensors(graph)
        BY <1>2, <2>1 DEF Tensors, GraphOK
    <2> QED BY <2>1, <2>2
<1> DEFINE RestOf(t) == Rest(graph, i, j, t)
           RestOf2(t) == Rest(graph, i, j + 1, t)
           ViewsOf(t) == ViewsLeft(graph, i, j, t)
           ViewsOf2(t) == ViewsLeft(graph, i, j + 1, t)
<1>6. \A t : /\ IsFiniteSet(RestOf(t)) /\ IsFiniteSet(RestOf2(t))
             /\ IsFiniteSet(ViewsOf(t)) /\ IsFiniteSet(ViewsOf2(t))
    BY <1>2, UsesFinite
<1>7. <<i, j>> \in RestOf(p)
    <2>1. <<i, j>> \in Uses(graph, p)
        BY <1>2, <1>3, <1>4, UseOf DEF Parent
    <2>2. i \in Nat
        BY <1>2, TensorIs
    <2> QED BY <1>3, <2>1, <2>2 DEF Rest
<1>8. \A t : RestOf2(t) = IF t = p THEN RestOf(t) \ {<<i, j>>} ELSE RestOf(t)
    <2>1. p = graph[i].src[j]
        BY <1>4 DEF Parent
    <2>2. ASSUME NEW t
          PROVE  Rest(graph, i, j + 1, t) = IF t = graph[i].src[j] THEN Rest(graph, i, j, t) \ {<<i, j>>}
                                            ELSE Rest(graph, i, j, t)
        BY <1>2, <1>3, RestAtSource
    <2> QED BY <2>1, <2>2
<1>9. \A t : /\ ViewsOf2(t) = IF t = w /\ RestOf2(p) = {} THEN ViewsOf(t) \ {p} ELSE ViewsOf(t)
             /\ t = w => p \in ViewsOf(t)
    <2>1. p = graph[i].src[j]
        BY <1>4 DEF Parent
    <2>2. ASSUME NEW t
          PROVE  /\ ViewsLeft(graph, i, j + 1, t) =
                       IF t = graph[graph[i].src[j]].view /\ Rest(graph, i, j + 1, graph[i].src[j]) = {}
                       THEN ViewsLeft(graph, i, j, t) \ {graph[i].src[j]} ELSE ViewsLeft(graph, i, j, t)
                 /\ t = graph[graph[i].src[j]].view => graph[i].src[j] \in ViewsLeft(graph, i, j, t)
        BY <1>2, <1>3, ViewsAtSource
    <2> QED BY <1>5, <2>1, <2>2
<1>10. /\ w # 0 => ViewsOf(p) = {}
    BY <1>2, <1>4, <1>5, ViewOfOwner
<1>11. \A t \in Tensors(graph) : /\ children[t] = Cardinality(RestOf(t)) /\ children[t] \in Nat
                                 /\ views[t] = Cardinality(ViewsOf(t)) /\ views[t] \in Nat
    BY <1>3 DEF CountsAt
<1> HIDE DEF RestOf, RestOf2, ViewsOf, ViewsOf2
<1>12. ASSUME NEW t \in Tensors(graph) PROVE children'[t] = Cardinality(RestOf2(t)) /\ children'[t] \in Nat
    <2>1. CASE t = p
        <3>1. children'[t] = children[t] - 1
            BY <1>1, <1>3, <1>4, <2>1
        <3>2. Cardinality(RestOf2(t)) = Cardinality(RestOf(t)) - 1
            BY <1>6, <1>7, <1>8, <2>1, FS_RemoveElement
        <3>3. Cardinality(RestOf2(t)) \in Nat
            BY <1>6, FS_CardinalityType
        <3> QED BY <1>11, <3>1, <3>2, <3>3
    <2>2. CASE t # p
        <3>1. children'[t] = children[t] /\ RestOf2(t) = RestOf(t)
            BY <1>1, <1>3, <1>4, <1>8, <2>2
        <3> QED BY <1>11, <3>1
    <2> QED BY <2>1, <2>2
<1>13. children'[p] = 0 <=> RestOf2(p) = {}
    BY <1>6, <1>12, FS_EmptySet
<1>14. ASSUME NEW t \in Tensors(graph) PROVE views'[t] = Cardinality(ViewsOf2(t)) /\ views'[t] \in Nat
    <2>1. w # 0 => views[p] = 0
        <3>1. Cardinality({}) = 0
            BY FS_EmptySet
        <3> QED BY <1>10, <1>11, <3>1
    <2>2. t # 0
        BY DEF Tensors
    <2>3. CASE t = w /\ RestOf2(p) = {}
        <3>1. views'[t] = views[t] - 1
            <4>1. w # 0 /\ views[p] = 0 /\ children'[p] = 0
                BY <1>13, <2>1, <2>2, <2>3
            <4>2. views' = [views EXCEPT ![w] = @ - 1]
                BY <1>1, <1>4, <1>5, <4>1
            <4> QED BY <1>3, <2>3, <4>2
        <3>2. Cardinality(ViewsOf2(t)) = Cardinality(ViewsOf(t)) - 1
            BY <1>6, <1>9, <2>3, FS_RemoveElement
        <3>3. Cardinality(ViewsOf2(t)) \in Nat
            BY <1>6, FS_CardinalityType
        <3> QED BY <1>11, <3>1, <3>2, <3>3
    <2>4. CASE ~ (t = w /\ RestOf2(p) = {})
        <3>1. ViewsOf2(t) = ViewsOf(t)
            BY <1>9, <2>4
        <3>2. views'[t] = views[t]
            <4>1. CASE t = w
                <5>1. children'[p] # 0
                    BY <1>13, <2>4, <4>1
                <5> QED BY <1>1, <1>4, <5>1
            <4>2. CASE t # w
                BY <1>1, <1>3, <1>4, <1>5, <4>2
            <4> QED BY <4>1, <4>2
        <3> QED BY <1>11, <3>1, <3>2
    <2> QED BY <2>3, <2>4
<1>15. \A t \in Tensors(graph) : /\ children'[t] = Cardinality(Rest(graph, i, j + 1, t))
                                 /\ views'[t] = Cardinality(ViewsLeft(graph, i, j + 1, t))
    BY <1>12, <1>14 DEF RestOf2, ViewsOf2
<1>16. children' \in [Tensors(graph) -> Nat] /\ views' \in [Tensors(graph) -> Nat]
    <2>1. DOMAIN children' = Tensors(graph) /\ children' = [t \in Tensors(graph) |-> children'[t]]
        BY <1>1, <1>3
    <2>2. DOMAIN views' = Tensors(graph) /\ views' = [t \in Tensors(graph) |-> views'[t]]
        BY <1>1, <1>3
    <2> QED BY <1>12, <1>14, <2>1, <2>2
<1> QED BY <1>4, <1>5, <1>15, <1>16

LEMMA IndInvUpdateParent ==
    ASSUME IndInv, UpdateParent
    PROVE  IndInv'
<1>1. /\ phase = "parents" /\ j <= Len(graph[i].src) /\ phase' = "parents" /\ j' = j + 1
      /\ UNCHANGED <<graph, fixed, i, offset, maxSize, buffer, calls>>
    BY DEF UpdateParent
<1>2. GraphOK(graph) /\ GraphOK(G) /\ Typed /\ Places /\ i \in Tensors(graph)
    BY <1>1, IndInvType
<1>3. PhaseOK /\ TypesOK /\ i \in Nat /\ i >= 3 /\ j \in 1 .. 3 /\ Len(graph[i].src) \in 1 .. 2
    <2>1. PhaseOK /\ TypesOK /\ i \in Nat /\ i >= 3 /\ j \in 1 .. 3
        BY <1>1, <1>2, TensorIs DEF IndInv, PhaseOK
    <2>2. NodeOK(graph, i)
        BY <1>2, <2>1 DEF GraphOK, Tensors
    <2> QED BY <2>1, <2>2 DEF NodeOK
<1>4. G = graph /\ G' = G /\ Reached = i /\ Reached' = i
    BY <1>1 DEF G, Reached, Settled
<1>5. /\ Parent \in Tensors(graph) /\ graph[Parent].view \in Nat
      /\ graph[Parent].view # 0 => graph[Parent].view \in Tensors(graph)
      /\ \A t \in Tensors(graph) : /\ children'[t] = Cardinality(Rest(graph, i, j + 1, t))
                                   /\ views'[t] = Cardinality(ViewsLeft(graph, i, j + 1, t))
      /\ children' \in [Tensors(graph) -> Nat] /\ views' \in [Tensors(graph) -> Nat]
    BY CountsAfter
<1>6. PICK q \in Tensors(graph) :
        \/ children'[q] = 0 /\ views'[q] = 0 /\ allocated[q] /\ FreeNode(q)
        \/ UNCHANGED <<allocated, blocks>>
    <2> DEFINE q == IF graph[Parent].view = 0 THEN Parent ELSE graph[Parent].view
    <2>1. q \in Tensors(graph)
        BY <1>5
    <2>2. \/ children'[q] = 0 /\ views'[q] = 0 /\ allocated[q] /\ FreeNode(q)
          \/ UNCHANGED <<allocated, blocks>>
        BY DEF UpdateParent
    <2> HIDE DEF q
    <2> QED BY <2>1, <2>2
<1>7. Places' /\ Typed'
    <2>1. CASE UNCHANGED <<allocated, blocks>>
        <3>1. Typed'
            BY <1>1, <1>2, <1>4, <2>1 DEF Typed
        <3> QED BY <1>1, <1>2, <1>4, <2>1, <3>1, PlacesStay
    <2>2. CASE /\ children'[q] = 0 /\ views'[q] = 0 /\ allocated[q] /\ ~ graph[q].out
               /\ blocks' = Freed(blocks, offset[q], graph[q].size)
               /\ allocated' = [allocated EXCEPT ![q] = FALSE]
        <3>1. /\ children'[q] = Cardinality(Rest(graph, i, j + 1, q))
              /\ views'[q] = Cardinality(ViewsLeft(graph, i, j + 1, q))
            BY <1>5
        <3>2. IsFiniteSet(Rest(graph, i, j + 1, q)) /\ IsFiniteSet(ViewsLeft(graph, i, j + 1, q))
            BY <1>2, UsesFinite
        <3>3. Rest(graph, i, j + 1, q) = {} /\ ViewsLeft(graph, i, j + 1, q) = {}
            BY <2>2, <3>1, <3>2, FS_EmptySet
        <3>4. \A u \in Tensors(G) : u > Reached => \A k \in 1 .. Len(G[u].src) : Root(G, G[u].src[k]) # q
            BY <1>2, <1>3, <1>4, <3>3, NoReader
        <3>5. Reached \in 0 .. MaxNodes + 2 /\ Reached' = Reached
            BY <1>2, <1>3, <1>4, GraphAssumption DEF GraphOK, Tensors
        <3>6. /\ q \in Tensors(G) /\ allocated[q] /\ ~ G[q].out /\ G' = G
              /\ blocks' = Freed(blocks, offset[q], G[q].size)
              /\ allocated' = [allocated EXCEPT ![q] = FALSE]
              /\ UNCHANGED <<offset, maxSize>>
            BY <1>1, <1>4, <2>2
        <3> QED BY <1>2, <3>4, <3>5, <3>6, PlacesFree
    <2> QED BY <1>6, <2>1, <2>2 DEF FreeNode
<1>8. TypesOK'
    BY <1>4, <1>5, <1>7 DEF TypesOK, Typed
<1>9. CountsOK'
    <2>1. \A t \in Tensors(graph) : /\ children'[t] = Cardinality(Rest(graph, i, j', t))
                                     /\ views'[t] = Cardinality(ViewsLeft(graph, i, j', t))
        BY <1>1, <1>5
    <2>2. CountsAt(j)'
        <3>1. \A t \in Tensors(graph') : /\ children'[t] = Cardinality(Rest(graph', i', j', t))
                                          /\ views'[t] = Cardinality(ViewsLeft(graph', i', j', t))
            <4>1. graph' = graph /\ i' = i
                BY <1>1
            <4> QED BY <2>1, <4>1
        <3> QED BY <3>1 DEF CountsAt
    <2>3. phase' # "node"
        BY <1>1
    <2> QED BY <2>2, <2>3 DEF CountsOK
<1>10. PhaseOK'
    <2>1. j' \in 1 .. 3 /\ j' <= Len(graph[i].src) + 1
        <3>1. PICK n \in 1 .. 2 : n = Len(graph[i].src)
            BY <1>3
        <3>2. j \in 1 .. 3 /\ j <= n /\ j' = j + 1
            BY <1>1, <1>3, <3>1
        <3>3. j + 1 \in 1 .. 3 /\ j + 1 <= n + 1
            BY <3>2
        <3>4. j' \in 1 .. 3 /\ j' <= n + 1
            BY ONLY <3>2, <3>3
        <3> QED BY ONLY <3>1, <3>4
    <2> QED BY <1>1, <1>3, <1>4, <2>1 DEF PhaseOK, Settled
<1> QED BY <1>1, <1>7, <1>8, <1>9, <1>10 DEF IndInv, Places

LEMMA IndInvNextNode ==
    ASSUME IndInv, NextNode
    PROVE  IndInv'
<1>1. /\ phase = "parents" /\ j > Len(graph[i].src) /\ i < Len(graph) /\ i' = i + 1 /\ phase' = "node"
      /\ UNCHANGED <<graph, fixed, j, children, views, allocated, offset, blocks, maxSize, buffer, calls>>
    BY DEF NextNode, counters, tallocr
<1>2. GraphOK(graph) /\ GraphOK(G) /\ Typed /\ Places /\ i \in Tensors(graph)
    BY <1>1, IndInvType
<1>3. PhaseOK /\ TypesOK /\ i \in Nat /\ i >= 3 /\ j \in Nat /\ CountsAt(j) /\ Len(graph) \in Nat
    <2>1. PhaseOK /\ TypesOK /\ CountsAt(j)
        BY <1>1 DEF IndInv, CountsOK
    <2>2. i \in Nat /\ Len(graph) \in Nat
        BY <1>1, <1>2, TensorIs, IndInvType
    <2>3. i >= 3 /\ j \in 1 .. 3
        <3>1. phase \in {"node", "parents"} => i >= 3
            BY <2>1 DEF PhaseOK
        <3>2. j \in 1 .. 3
            BY <2>1 DEF PhaseOK
        <3> QED BY <1>1, <3>1, <3>2
    <2> QED BY <2>1, <2>2, <2>3
<1>4. G = graph /\ G' = G /\ Reached = i /\ Reached' = i
    BY <1>1, <1>3 DEF G, Reached, Settled
<1>5. Places' /\ Typed'
    BY <1>1, <1>2, <1>4, PlacesStay DEF Typed
<1>6. CountsAt(1)'
    <2>1. \A t : /\ Rest(graph, i + 1, 1, t) = Rest(graph, i, j, t)
                 /\ ViewsLeft(graph, i + 1, 1, t) = ViewsLeft(graph, i, j, t)
        BY <1>1, <1>2, <1>3, RestAtNext
    <2>2. \A t \in Tensors(graph) : /\ children[t] = Cardinality(Rest(graph, i + 1, 1, t))
                                    /\ views[t] = Cardinality(ViewsLeft(graph, i + 1, 1, t))
        BY <1>3, <2>1 DEF CountsAt
    <2>3. graph' = graph /\ children' = children /\ views' = views /\ i' = i + 1
        BY <1>1
    <2> QED BY <2>2, <2>3 DEF CountsAt
<1>7. CountsOK' /\ TypesOK'
    BY <1>1, <1>3, <1>4, <1>6 DEF CountsOK, TypesOK
<1>8. PhaseOK'
    BY <1>1, <1>3, <1>4 DEF PhaseOK, Settled
<1> QED BY <1>1, <1>5, <1>7, <1>8 DEF IndInv, Places

LEMMA IndInvReserved ==
    ASSUME IndInv, Reserved \/ ReserveFails
    PROVE  IndInv'
<1>1. /\ phase = "parents" /\ i = Len(graph) /\ fixed' = graph
      /\ \/ phase' = "done" /\ buffer' = Greater(buffer, maxSize)
         \/ phase' = "failed" /\ buffer' = 0
      /\ UNCHANGED <<graph, i, j, children, views, allocated, offset, blocks, maxSize, calls>>
    BY DEF Reserved, ReserveFails, Recorded, counters, tallocr
<1>2. GraphOK(graph) /\ GraphOK(G) /\ Typed /\ Places /\ i \in Tensors(graph) /\ Len(graph) <= MaxNodes + 2
    BY <1>1, IndInvType
<1>3. PhaseOK /\ TypesOK /\ i \in Nat
    BY <1>1, <1>2, TensorIs DEF IndInv, PhaseOK
<1>4. G = graph /\ G' = G /\ Reached = i /\ Reached' = i
    BY <1>1 DEF G, Reached, Settled
<1>5. Places' /\ Typed'
    BY <1>1, <1>2, <1>4, PlacesStay DEF Typed
<1>6. CountsOK' /\ TypesOK'
    BY <1>1, <1>3, <1>4 DEF CountsOK, TypesOK
<1>7. Resized(graph, graph) /\ Fits(graph, graph)
    <2>1. \A t \in 1 .. Len(graph) : graph[t].size <= graph[t].size
        <3>1. ASSUME NEW t \in Tensors(graph) PROVE graph[t].size <= graph[t].size
            <4>1. graph[t].size \in Nat
                BY <1>2, TensorIs
            <4> QED BY ONLY <4>1
        <3> QED BY <3>1 DEF Tensors
    <2> QED BY <2>1 DEF Resized, Fits
<1>8. /\ buffer' \in 0 .. Limit /\ (phase' = "done" => maxSize <= buffer')
      /\ (phase' # "done" => buffer' = 0)
    <2>1. maxSize \in Nat /\ maxSize <= i * Largest
        BY <1>2, <1>4 DEF Places, MemoryOK
    <2>2. i * Largest \in Nat /\ i * Largest < Limit /\ Limit \in Nat
        BY <1>1, <1>2, <1>3, Bounded, LimitAssumption
    <2>3. buffer \in 0 .. Limit
        BY <1>3 DEF PhaseOK
    <2> QED BY <1>1, <2>1, <2>2, <2>3 DEF Greater
<1>9. PhaseOK'
    BY <1>1, <1>2, <1>3, <1>4, <1>7, <1>8 DEF PhaseOK, Settled
<1> QED BY <1>1, <1>5, <1>6, <1>9 DEF IndInv, Places

\* A graph of the same topology.
LEMMA AlikeIs ==
    ASSUME NEW g, GraphOK(g), NEW h \in Alike(g)
    PROVE  /\ GraphOK(h) /\ Resized(h, g)
           /\ \A t \in Tensors(g) : Source(g, t) => Source(h, t)
<1>1. PICK f \in [Sizes -> Sizes] : h = [t \in Tensors(g) |-> [g[t] EXCEPT !.size = f[@]]]
    BY DEF Alike
<1>2. Len(g) \in 2 .. MaxNodes + 2 /\ g \in Seq(Record) /\ MaxNodes \in Nat /\ Tensors(g) = 1 .. Len(g)
    BY GraphAssumption DEF GraphOK, Tensors
<1>3. ASSUME NEW t \in 1 .. Len(g)
      PROVE  /\ h[t] \in Record /\ h[t].size = f[g[t].size] /\ h[t].kind = g[t].kind /\ h[t].src = g[t].src
             /\ h[t].view = g[t].view /\ h[t].out = g[t].out
    <2>1. g[t] \in Record /\ h[t] = [g[t] EXCEPT !.size = f[@]]
        BY <1>1, <1>2
    <2>2. f[g[t].size] \in Sizes
        BY <2>1 DEF Record
    <2> QED BY <2>1, <2>2 DEF Record
<1>4. h \in Seq(Record) /\ Len(h) = Len(g)
    <2>1. h \in [1 .. Len(g) -> Record]
        BY <1>1, <1>2, <1>3
    <2>2. Len(g) \in Nat
        BY <1>2
    <2> QED BY <2>1, <2>2
<1>5. \A t \in 3 .. Len(h) : NodeOK(h, t)
    <2> SUFFICES ASSUME NEW t \in 3 .. Len(g) PROVE NodeOK(h, t)
        BY <1>4
    <2>1. NodeOK(g, t) /\ t \in 1 .. Len(g)
        BY <1>2 DEF GraphOK
    <2>2. g[t].view # 0 => g[t].view \in 1 .. Len(g)
        <3>1. g[t].view \in 0 .. t - 1
            BY <2>1 DEF NodeOK
        <3> QED BY <1>2, <2>1, <3>1
    <2>3. h[t].kind = g[t].kind /\ h[t].src = g[t].src /\ h[t].view = g[t].view
        BY <1>3, <2>1
    <2>4. g[t].view # 0 => h[g[t].view].view = g[g[t].view].view
        BY <1>3, <2>2
    <2> QED BY <2>1, <2>3, <2>4 DEF NodeOK
<1>6. GraphOK(h)
    <2>1. 1 \in 1 .. Len(g) /\ 2 \in 1 .. Len(g)
        BY <1>2
    <2>2. h[1].kind = "input" /\ h[2].kind = "weight"
          /\ \A t \in 1 .. 2 : h[t].src = << >> /\ h[t].view = 0
        BY <1>3, <2>1 DEF GraphOK
    <2> QED BY <1>2, <1>4, <1>5, <2>2 DEF GraphOK
<1>7. Resized(h, g)
    BY <1>3, <1>4 DEF Resized
<1>8. \A t \in Tensors(g) : Source(g, t) => Source(h, t)
    BY <1>2, <1>3, <1>4 DEF Source, Tensors
<1> QED BY <1>6, <1>7, <1>8

LEMMA IndInvAllocGraph ==
    ASSUME IndInv, AllocGraph
    PROVE  IndInv'
<1>1. /\ phase \in {"done", "failed"} /\ calls < MaxGraphs /\ graph' \in Alike(graph)
      /\ calls' = IF phase = "done" THEN calls + 1 ELSE calls
      /\ IF NeedsRealloc(graph') THEN Reserve(graph')
         ELSE /\ phase' = IF buffer = 0 THEN "crashed" ELSE "done"
              /\ UNCHANGED <<fixed, i, j, children, views, allocated, offset, blocks, maxSize>>
      /\ UNCHANGED buffer
    BY DEF AllocGraph, counters, tallocr
<1>2. GraphOK(graph) /\ GraphOK(G) /\ Typed /\ Places /\ i \in Tensors(graph)
    BY <1>1, IndInvType
<1>3. /\ PhaseOK /\ TypesOK /\ Resized(graph, fixed) /\ Fits(graph, fixed) /\ i = Len(graph)
      /\ (phase = "done" => maxSize <= buffer) /\ (phase # "done" => buffer = 0)
      /\ Source(graph, 1) /\ Len(graph) > 2 /\ GraphOK(fixed) /\ G = fixed /\ Settled
    BY <1>1, <1>2 DEF IndInv, PhaseOK, G, Settled
<1>4. calls' \in 1 .. MaxGraphs
    BY <1>1, <1>3, GraphAssumption DEF PhaseOK
<1>5. GraphOK(graph') /\ Resized(graph', graph) /\ Len(graph') = Len(graph) /\ Source(graph', 1)
    <2>1. 1 \in Tensors(graph)
        BY <1>2 DEF GraphOK, Tensors
    <2> QED BY <1>1, <1>2, <1>3, <2>1, AlikeIs DEF Resized
<1>6. CASE NeedsRealloc(graph')
    <2>1. Reserve(graph')
        BY <1>1, <1>6
    <2>2. TypesOK' /\ Places' /\ CountsOK' /\ G' = graph'
        BY <1>5, <2>1, PlacesReset
    <2>3. phase' = "leafs" /\ i' = 1 /\ j' = 1
        BY <2>1 DEF Reserve
    <2>4. Len(graph) \in Nat
        BY <1>2 DEF GraphOK
    <2>5. PhaseOK'
        BY <1>1, <1>3, <1>4, <1>5, <2>2, <2>3, <2>4 DEF PhaseOK, Settled
    <2> QED BY <2>2, <2>3, <2>5 DEF IndInv, Places
<1>7. CASE ~ NeedsRealloc(graph')
    <2>1. /\ phase' = IF buffer = 0 THEN "crashed" ELSE "done"
          /\ UNCHANGED <<fixed, i, j, children, views, allocated, offset, blocks, maxSize, buffer>>
        BY <1>1, <1>7
    <2>2. G' = G /\ Reached' = Reached /\ Settled'
        BY <1>1, <2>1 DEF G, Reached, Settled
    <2>8. (phase' = "done" => maxSize' <= buffer') /\ (phase' # "done" => buffer' = 0)
        BY <1>3, <2>1
    <2>3. Places' /\ TypesOK'
        BY <1>2, <1>3, <2>1, <2>2, PlacesStay DEF TypesOK
    <2>4. Resized(graph', fixed)
        BY <1>3, <1>5 DEF Resized
    <2>5. Fits(graph', fixed)
        <3> SUFFICES ASSUME NEW t \in 1 .. Len(fixed), Own(fixed, t) PROVE graph'[t].size <= fixed[t].size
            BY DEF Fits
        <3>1. t \in Tensors(graph') /\ t \in Tensors(fixed)
            BY <2>4 DEF Resized, Tensors
        <3>2. Own(graph', t)
            BY <2>4 DEF Resized, Own
        <3>3. ~ Leaf(graph', t) \/ Source(graph', t)
            <4>1. CASE t = 2
                BY <1>3, <4>1 DEF Own, GraphOK
            <4>2. CASE t # 2
                BY <1>5, <3>1, <4>2, LeafIs
            <4> QED BY <4>1, <4>2
        <3>4. ~ (graph'[t].size > fixed[t].size)
            BY <1>7, <3>1, <3>2, <3>3 DEF NeedsRealloc
        <3>5. graph'[t].size \in Nat /\ fixed[t].size \in Nat
            BY <1>3, <1>5, <3>1, TensorIs
        <3> QED BY <3>4, <3>5
    <2>6. PhaseOK'
        BY <1>1, <1>3, <1>4, <1>5, <2>1, <2>2, <2>4, <2>5, <2>8 DEF PhaseOK, Settled
    <2>7. CountsOK'
        BY <1>1, <2>1 DEF CountsOK
    <2> QED BY <1>1, <2>1, <2>3, <2>6, <2>7 DEF IndInv, Places
<1> QED BY <1>6, <1>7

\* IndInv holds whatever graphs are built and allocated.
LEMMA Invariance == Spec => []IndInv
<1>1. ASSUME IndInv, UNCHANGED vars PROVE IndInv'
    <2>1. /\ graph' = graph /\ fixed' = fixed /\ phase' = phase /\ i' = i /\ j' = j
          /\ children' = children /\ views' = views /\ allocated' = allocated /\ offset' = offset
          /\ blocks' = blocks /\ maxSize' = maxSize /\ buffer' = buffer /\ calls' = calls
        BY <1>1 DEF vars, counters, tallocr
    <2>2. G' = G /\ Reached' = Reached
        BY <2>1 DEF G, Reached, Settled
    <2>3. PhaseOK'
        BY <1>1, <2>1, <2>2 DEF IndInv, PhaseOK, Settled
    <2>4. CASE phase = "build"
        <3>1. Idle'
            BY <1>1, <2>1, <2>4 DEF IndInv, Idle
        <3> QED BY <2>1, <2>3, <2>4, <3>1 DEF IndInv
    <2>5. CASE phase # "build"
        <3>1. TypesOK /\ CountsOK /\ Places
            BY <1>1, <2>5 DEF IndInv, Places
        <3>2. Places'
            BY <2>1, <2>2, <3>1, PlacesStay
        <3>3. TypesOK'
            BY <2>1, <2>2, <3>1 DEF TypesOK
        <3>4. CountsOK'
            BY <2>1, <3>1 DEF CountsOK, CountsAt
        <3> QED BY <2>1, <2>3, <2>5, <3>2, <3>3, <3>4 DEF IndInv, Places
    <2> QED BY <2>4, <2>5
<1>2. ASSUME IndInv, Next PROVE IndInv'
    BY <1>2, IndInvAddNode, IndInvFirstReserve, IndInvAllocLeaf, IndInvCountChildren,
       IndInvReuseParent, IndInvAllocNode, IndInvUpdateParent, IndInvNextNode, IndInvReserved,
       IndInvAllocGraph DEF Next
<1>3. IndInv /\ [Next]_vars => IndInv'
    BY <1>1, <1>2
<1> QED BY <1>3, IndInvInit, PTL DEF Spec

-----------------------------------------------------------------------------
(* Theorems.                                                               *)

\* The graph and the graph that has places have the same tensors.
LEMMA SameTensors ==
    ASSUME IndInv, phase # "build"
    PROVE  /\ Tensors(G) = Tensors(graph)
           /\ \A t \in Tensors(graph) :
                 /\ G[t].kind = graph[t].kind /\ G[t].src = graph[t].src
                 /\ G[t].view = graph[t].view /\ G[t].out = graph[t].out
                 /\ Own(G, t) <=> Own(graph, t)
                 /\ Root(G, t) = Root(graph, t)
<1>1. Settled => Resized(graph, G)
    BY DEF IndInv, PhaseOK, G, Settled
<1>2. ~ Settled => G = graph
    BY DEF G, Settled
<1> QED BY <1>1, <1>2 DEF Resized, Tensors, Own, Root

\* All variables have their types: a node's sources come before it, a view is one
\* of an earlier tensor, and every block and place is within the address range.
THEOREM TypeCorrect == Spec => []TypeOK
<1>1. ASSUME IndInv PROVE TypeOK
    <2>1. PhaseOK /\ GraphOK(graph) /\ Len(graph) \in Nat
        BY <1>1 DEF IndInv, PhaseOK, GraphOK
    <2>2. ASSUME NEW t \in Tensors(graph)
          PROVE  /\ graph[t].kind \in Kinds /\ graph[t].size \in Sizes /\ graph[t].out \in BOOLEAN
                 /\ graph[t].src \in Seq(1 .. t - 1) /\ graph[t].view \in 0 .. t - 1
        <3>1. /\ graph[t].kind \in Kinds /\ graph[t].size \in Sizes /\ graph[t].out \in BOOLEAN
              /\ graph[t].view \in 0 .. t - 1 /\ graph[t] \in Record
            BY <2>1, TensorIs
        <3>2. \A k \in 1 .. Len(graph[t].src) : graph[t].src[k] \in 1 .. t - 1
            <4>1. ASSUME NEW k \in 1 .. Len(graph[t].src) PROVE graph[t].src[k] \in 1 .. t - 1
                <5>1. graph[t].src[k] \in Tensors(graph) /\ graph[t].src[k] < t
                    BY <2>1, SourceIs
                <5>2. t \in Nat
                    BY <2>1, TensorIs
                <5> QED BY <2>1, <5>1, <5>2 DEF Tensors
            <4> QED BY <4>1
        <3>3. graph[t].src \in Seq(Nat)
            BY <3>1 DEF Record
        <3>4. graph[t].src \in Seq(1 .. t - 1)
            <4> DEFINE q == graph[t].src
            <4>1. q \in Seq(Nat) /\ \A k \in 1 .. Len(q) : q[k] \in 1 .. t - 1
                BY <3>2, <3>3
            <4> HIDE DEF q
            <4>2. Len(q) \in Nat /\ q \in [1 .. Len(q) -> Nat]
                BY <4>1
            <4>3. q \in [1 .. Len(q) -> 1 .. t - 1]
                BY <4>1, <4>2
            <4>4. q \in Seq(1 .. t - 1)
                BY <4>2, <4>3, SeqDef
            <4> QED BY <4>4 DEF q
        <3> QED BY <3>1, <3>4
    <2>3. /\ phase \in {"build", "leafs", "node", "parents", "done", "failed", "crashed"}
          /\ i \in Tensors(graph) /\ j \in 1 .. 3
          /\ buffer \in 0 .. Limit /\ calls \in 1 .. MaxGraphs
        BY <2>1 DEF PhaseOK, Tensors
    <2>4. phase # "build" =>
              /\ allocated \in [Tensors(graph) -> BOOLEAN]
              /\ offset \in [Tensors(graph) -> 0 .. Limit]
              /\ children \in [Tensors(graph) -> Nat] /\ views \in [Tensors(graph) -> Nat]
        BY <1>1, SameTensors DEF IndInv, TypesOK
    <2>5. FreeList(blocks) /\ maxSize \in 0 .. Limit
        <3>1. CASE phase = "build"
            BY <1>1, <3>1, ResetList, LimitAssumption DEF IndInv, Idle
        <3>2. CASE phase # "build"
            <4>1. FreeList(blocks) /\ maxSize \in Nat /\ maxSize <= Reached * Largest
                BY <1>1, <3>2 DEF IndInv, MemoryOK
            <4>2. Reached \in Nat /\ Reached <= MaxNodes + 2
                <5>1. i \in 1 .. Len(graph) /\ Len(graph) <= MaxNodes + 2
                    BY <1>1, <2>3, <3>2, IndInvType DEF Tensors
                <5>2. MaxNodes \in Nat /\ Len(graph) \in Nat
                    BY <2>1, GraphAssumption
                <5> QED BY <5>1, <5>2 DEF Reached
            <4>3. Reached * Largest \in Nat /\ Reached * Largest < Limit /\ Limit \in Nat
                BY <4>2, Bounded, LimitAssumption
            <4> QED BY <4>1, <4>3
        <3> QED BY <3>1, <3>2
    <2>6. ASSUME NEW k \in 1 .. Len(blocks) PROVE blocks[k].offset \in 0 .. Limit /\ blocks[k].size \in 1 .. Limit
        BY <2>5, BlockIs, LimitAssumption
    <2> QED BY <2>2, <2>3, <2>4, <2>5, <2>6 DEF TypeOK
<1> QED BY <1>1, Invariance, PTL

\* Between any two free blocks there is a gap: every merge that can be made was
\* made, whatever ggml_dyn_tallocr_free_tensor() was called for.
THEOREM NoMergeMissed == Spec => []BlocksApart
<1>1. ASSUME IndInv PROVE BlocksApart
    <2>1. FreeList(blocks)
        BY <1>1, ResetList DEF IndInv, Idle, MemoryOK
    <2>2. ASSUME NEW k \in 1 .. Len(blocks) - 1 PROVE End(blocks[k]) < blocks[k + 1].offset
        <3>1. Len(blocks) \in Nat
            BY <2>1 DEF FreeList
        <3>2. k \in 1 .. Len(blocks) /\ k + 1 \in 1 .. Len(blocks) /\ k < k + 1
            BY <3>1
        <3> QED BY <2>1, <3>2 DEF FreeList
    <2> QED BY <2>2 DEF BlocksApart
<1> QED BY <1>1, Invariance, PTL

\* Each unit of memory is in exactly one free block or in one allocated tensor.
THEOREM NothingLostOrDoubled == Spec => []MemoryPartition
<1>1. ASSUME IndInv, Placing, NEW a \in 0 .. Limit - 1
      PROVE  Cardinality({k \in 1 .. Len(blocks) : a \in blocks[k].offset .. End(blocks[k]) - 1})
             + Cardinality({t \in Live : a \in Place(graph, t)}) = 1
    <2>1. phase # "build"
        <3> SUFFICES ASSUME phase = "build" PROVE FALSE
            OBVIOUS
        <3>1. fixed = << >> /\ fixed = graph /\ Len(graph) \in 2 .. MaxNodes + 2
            BY <1>1 DEF IndInv, PhaseOK, Placing, GraphOK
        <3> QED BY <3>1, GraphAssumption
    <2>2. G = graph /\ GraphOK(G) /\ Typed /\ Places /\ a \in Int
        BY <1>1, <2>1, IndInvType DEF G, Settled, Placing
    <2>3. FreeList(blocks) /\ Len(blocks) \in Nat
        BY <2>2 DEF Places, MemoryOK, FreeList
    <2> DEFINE B == {k \in 1 .. Len(blocks) : a \in blocks[k].offset .. End(blocks[k]) - 1}
               T == {t \in Live : a \in Place(graph, t)}
    <2>4. B = {k \in 1 .. Len(blocks) : In(a, blocks[k])}
        <3>1. ASSUME NEW k \in 1 .. Len(blocks)
              PROVE  a \in blocks[k].offset .. End(blocks[k]) - 1 <=> In(a, blocks[k])
            <4>1. blocks[k].offset \in Int /\ End(blocks[k]) \in Int
                BY <2>3, BlockIs, LimitAssumption
            <4> QED BY <2>2, <4>1 DEF In
        <3> QED BY <3>1
    <2>5. T = {t \in Tensors(graph) : allocated[t] /\ At(t, a)}
        <3>1. ASSUME NEW t \in Tensors(graph) PROVE a \in Place(graph, t) <=> At(t, a)
            BY <2>2, SizeIs DEF Place, At
        <3> QED BY <3>1 DEF Live
    <2>6. \A k, l \in B : k = l
        BY <2>2, <2>3, <2>4, OneBlock
    <2>7. \A t, u \in T : t = u
        <3> SUFFICES ASSUME NEW t \in T, NEW u \in T, t # u PROVE FALSE
            OBVIOUS
        <3>1. Clash(t, u)
            BY <2>2, <2>5, SizeIs DEF At, Clash
        <3> QED BY <2>2, <2>5, <3>1 DEF Places, MemoryOK
    <2>8. B # {} <=> T = {}
        BY <2>2, <2>4, <2>5 DEF Places, MemoryOK, Free
    <2>9. \A S : (\A x, y \in S : x = y) /\ S # {} => Cardinality(S) = 1
        <3> SUFFICES ASSUME NEW S, \A x, y \in S : x = y, S # {} PROVE Cardinality(S) = 1
            OBVIOUS
        <3>0. PICK x \in S : TRUE
            OBVIOUS
        <3>1. S = {x}
            OBVIOUS
        <3> QED BY <3>1, FS_Singleton
    <2>10. Cardinality({}) = 0
        BY FS_EmptySet
    <2> HIDE DEF B, T
    <2>11. Cardinality(B) + Cardinality(T) = 1
        <3>1. CASE T = {}
            <4>1. Cardinality(B) = 1
                BY <2>6, <2>8, <2>9, <3>1
            <4> QED BY <2>10, <3>1, <4>1
        <3>2. CASE T # {}
            <4>1. Cardinality(T) = 1 /\ B = {}
                BY <2>7, <2>8, <2>9, <3>2
            <4> QED BY <2>10, <4>1
        <3> QED BY <3>1, <3>2
    <2> QED BY <2>11 DEF B, T
<1>2. IndInv => MemoryPartition
    BY <1>1 DEF MemoryPartition
<1> QED BY <1>2, Invariance, PTL

\* A tensor of a later graph is within its place.
LEMMA PlaceIs ==
    ASSUME IndInv, phase = "done", NEW t \in Tensors(graph), Own(graph, t)
    PROVE  /\ t \in Tensors(G) /\ Own(G, t) /\ Reached = Len(graph) /\ t <= Reached
           /\ offset[t] \in Nat /\ G[t].size \in Nat /\ graph[t].size \in Nat
           /\ graph[t].size <= G[t].size
<1>1. GraphOK(graph) /\ GraphOK(G) /\ Typed /\ Fits(graph, G) /\ i = Len(graph) /\ Len(graph) \in Nat
    <2>1. GraphOK(graph) /\ GraphOK(G) /\ Typed /\ Len(graph) \in Nat
        BY IndInvType
    <2>2. Fits(graph, G) /\ i = Len(graph)
        BY DEF IndInv, PhaseOK, G, Settled
    <2> QED BY <2>1, <2>2
<1>2. t \in Tensors(G) /\ Own(G, t)
    BY SameTensors
<1>3. Reached = Len(graph) /\ t <= Reached
    BY <1>1 DEF Reached, Settled, Tensors
<1>4. graph[t].size \in Nat /\ offset[t] \in Nat /\ G[t].size \in Nat
    BY <1>1, <1>2, TensorIs, SizeIs
<1>5. graph[t].size <= G[t].size
    BY <1>1, <1>2 DEF Fits, Tensors
<1> QED BY <1>2, <1>3, <1>4, <1>5

LEMMA OverlapIs ==
    ASSUME IndInv, phase = "done", NEW t \in Tensors(graph), NEW u \in Tensors(graph),
           Own(graph, t), Own(graph, u), Overlap(t, u)
    PROVE  Clash(t, u)
<1>1. /\ offset[t] \in Nat /\ G[t].size \in Nat /\ graph[t].size \in Nat /\ graph[t].size <= G[t].size
      /\ offset[u] \in Nat /\ G[u].size \in Nat /\ graph[u].size \in Nat /\ graph[u].size <= G[u].size
    BY PlaceIs
<1>2. PICK a : a \in Place(graph, t) /\ a \in Place(graph, u)
    BY DEF Overlap
<1>3. /\ a \in Int /\ offset[t] <= a /\ a <= offset[t] + graph[t].size - 1
      /\ offset[u] <= a /\ a <= offset[u] + graph[u].size - 1
    BY <1>1, <1>2 DEF Place
<1>4. offset[t] < offset[u] + G[u].size /\ offset[u] < offset[t] + G[t].size
    BY <1>1, <1>3
<1> QED BY <1>4 DEF Clash

LEMMA WrittenIs ==
    ASSUME IndInv, phase # "build", NEW t \in Tensors(graph)
    PROVE  Written(t) = Since(t) /\ t \in Nat
BY IndInvType, LeafIs, TensorIs DEF Written, Since

\* Every node finds its sources as they were computed: nothing is placed over a
\* tensor that a later node reads, except by the node that works in place.
THEOREM SourcesAreIntact == Spec => []SourcesIntact
<1>1. ASSUME IndInv, phase = "done", NEW t \in Tensors(graph), NEW k \in 1 .. Len(graph[t].src),
             Own(graph, Root(graph, graph[t].src[k]))
      PROVE  LET r == Root(graph, graph[t].src[k])
             IN  /\ \A u \in Tensors(graph) \ {r} :
                       Own(graph, u) /\ Written(u) \in Written(r) .. t - 1 => ~ Overlap(u, r)
                 /\ Own(graph, t) /\ Overlap(t, r) =>
                       graph[t].kind = "inplace" /\ Place(graph, t) = Place(graph, r)
    <2>1. GraphOK(graph) /\ GraphOK(G) /\ Typed /\ Places
        BY <1>1, IndInvType
    <2>2. PICK r \in Tensors(graph) : r = Root(graph, graph[t].src[k])
        BY <2>1, SourceIs
    <2>3. /\ t \in Tensors(G) /\ k \in 1 .. Len(G[t].src) /\ r = Root(G, G[t].src[k]) /\ Own(G, r)
          /\ r \in Tensors(G) /\ t >= 3 /\ t \in Nat
        <3>1. graph[t].src[k] \in Tensors(graph) /\ t >= 3 /\ t \in Nat
            BY <2>1, SourceIs, TensorIs
        <3>2. Tensors(G) = Tensors(graph) /\ G[t].src = graph[t].src
            BY <1>1, SameTensors
        <3>3. Root(G, graph[t].src[k]) = r
            BY <1>1, <2>2, <3>1, SameTensors
        <3>4. Own(G, r)
            BY <1>1, <2>2, SameTensors
        <3> QED BY <2>2, <3>1, <3>2, <3>3, <3>4
    <2>4. t <= Reached
        <3>1. Reached = Len(graph)
            BY <1>1, <2>2, PlaceIs
        <3>2. Len(graph) \in Nat
            BY <1>1, IndInvType
        <3> QED BY <3>1, <3>2 DEF Tensors
    <2>5. /\ \A u \in Tensors(G) \ {r} : Own(G, u) /\ Since(u) >= Since(r) /\ u < t => ~ Clash(u, r)
          /\ Own(G, t) /\ Clash(t, r) =>
                G[t].kind = "inplace" /\ offset[t] = offset[r] /\ G[t].size = G[r].size
        BY <2>1, <2>3, <2>4 DEF Places, IntactOK
    <2>6. ASSUME NEW u \in Tensors(graph) \ {r}, Own(graph, u), Written(u) \in Written(r) .. t - 1
          PROVE  ~ Overlap(u, r)
        <3>1. Written(u) = Since(u) /\ Written(r) = Since(r) /\ u \in Nat /\ r \in Nat
            BY <1>1, WrittenIs
        <3>2. Since(u) >= Since(r) /\ u < t
            BY <2>3, <2>6, <3>1 DEF Since
        <3>3. u \in Tensors(G) \ {r} /\ Own(G, u)
            BY <1>1, <2>6, SameTensors
        <3>4. ~ Clash(u, r)
            BY <2>5, <3>2, <3>3
        <3> QED BY <1>1, <2>2, <2>6, <3>4, OverlapIs
    <2>7. ASSUME Own(graph, t), Overlap(t, r)
          PROVE  graph[t].kind = "inplace" /\ Place(graph, t) = Place(graph, r)
        <3>1. Clash(t, r) /\ Own(G, t)
            BY <1>1, <2>2, <2>7, OverlapIs, SameTensors
        <3>2. G[t].kind = "inplace" /\ offset[t] = offset[r] /\ G[t].size = G[r].size
            BY <2>5, <3>1
        <3>3. Resized(graph, G)
            BY <1>1 DEF IndInv, PhaseOK, G, Settled
        <3>4. graph[t].kind = "inplace" /\ graph[t].size = graph[r].size
            BY <2>3, <3>2, <3>3 DEF Resized, Tensors
        <3> QED BY <3>2, <3>4 DEF Place
    <2> QED BY <2>2, <2>6, <2>7
<1>2. IndInv => SourcesIntact
    BY <1>1 DEF SourcesIntact
<1> QED BY <1>2, Invariance, PTL

\* An output stays as it was computed.
THEOREM OutputsAreKept == Spec => []OutputsKept
<1>1. ASSUME IndInv, phase = "done", NEW r \in Tensors(graph), graph[r].out, Own(graph, r),
             NEW u \in Tensors(graph) \ {r}, Own(graph, u), Written(u) >= Written(r)
      PROVE  ~ Overlap(u, r)
    <2>1. GraphOK(G) /\ Typed /\ Places
        BY <1>1, IndInvType
    <2>2. /\ r \in Tensors(G) /\ Own(G, r) /\ r <= Reached /\ u \in Tensors(G) /\ Own(G, u) /\ u <= Reached
        BY <1>1, PlaceIs
    <2>3. G[r].out
        BY <1>1, SameTensors
    <2>4. allocated[r]
        BY <2>1, <2>2, <2>3 DEF Places, KeptOK
    <2>5. Since(u) >= Since(r)
        BY <1>1, WrittenIs
    <2>6. ~ Clash(u, r)
        BY <1>1, <2>1, <2>2, <2>4, <2>5 DEF Places, ApartOK
    <2> QED BY <1>1, <2>6, OverlapIs
<1>2. IndInv => OutputsKept
    BY <1>1 DEF OutputsKept
<1> QED BY <1>2, Invariance, PTL

\* Every tensor of a graph that has its memory is within the buffer, also when
\* its place was reserved for another graph, and after reservations that failed.
THEOREM BufferIsLargeEnough == Spec => []FitsBuffer
<1>1. ASSUME IndInv, phase = "done", NEW t \in Tensors(graph), Own(graph, t)
      PROVE  offset[t] + graph[t].size <= buffer
    <2>1. /\ t \in Tensors(G) /\ Own(G, t) /\ t <= Reached
          /\ offset[t] \in Nat /\ G[t].size \in Nat /\ graph[t].size \in Nat /\ graph[t].size <= G[t].size
        BY <1>1, PlaceIs
    <2>2. offset[t] + G[t].size <= maxSize /\ maxSize \in Nat
        BY <1>1, <2>1 DEF IndInv, MemoryOK
    <2>3. maxSize <= buffer /\ buffer \in Nat
        BY <1>1, LimitAssumption DEF IndInv, PhaseOK
    <2> QED BY <2>1, <2>2, <2>3
<1>2. IndInv => FitsBuffer
    BY <1>1 DEF FitsBuffer
<1> QED BY <1>2, Invariance, PTL
=============================================================================
