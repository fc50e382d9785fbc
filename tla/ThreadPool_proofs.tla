------------------------- MODULE ThreadPool_proofs -------------------------
(***************************************************************************)
(* Proofs about ThreadPool, for every number of threads, every graph and   *)
(* every schedule, for a caller that always asks for the same number of    *)
(* threads.                                                                *)
(*                                                                         *)
(* A barrier cuts the run of a thread into segments.  The inductive        *)
(* invariant says that all threads that take part are in the same segment, *)
(* and what of the graph is computed there.  A thread that spins at a      *)
(* barrier which was released counts as one that has left it.              *)
(***************************************************************************)
EXTENDS ThreadPool, FiniteSetTheorems, TLAPS

\* The threads that take part, and where they are.
Used == 0 .. asked - 1
AtBarrier == {"barrier", "arrive", "last", "release", "spin"}
Loc(t) == IF pc[t] = "spin" /\ met[t].passed # nPassed THEN back[t] ELSE pc[t]

\* A segment: a node, and the barrier at its end, the one before the chunks of a
\* product, the one after the node, or the one of an aborted graph.
SegAt(k) ==
    IF k > Last THEN <<Last, "next">>
    ELSE IF abort = k THEN <<k, "abort">>
    ELSE IF Kind(k) = "rows" THEN <<k, "next">> ELSE <<k, "chunk">>
Done == <<Last + 1, "done">>
Seg(t) ==
    IF Loc(t) \in Waiting THEN IF lastGraph[t] = nGraph THEN Done ELSE SegAt(0)
    ELSE IF Loc(t) \in Calling \ {"wake"} THEN Done
    ELSE IF Loc(t) \in {"wake", "start"} THEN SegAt(0)
    ELSE IF Loc(t) = "loop" \/ (Loc(t) \in AtBarrier /\ back[t] \in {"top", "return"}) THEN SegAt(node[t])
    ELSE IF Loc(t) = "next" THEN SegAt(node[t] + 1)
    ELSE IF Loc(t) = "product" \/ (Loc(t) \in AtBarrier /\ back[t] = "chunk") THEN <<node[t], "chunk">>
    ELSE <<node[t], "next">>

Types ==
    /\ nThreadsCur \in 1 .. NThreads /\ nGraph \in 0 .. MaxGraphs
    /\ nPassed \in Nat /\ currentChunk \in Nat
    /\ stop \in BOOLEAN /\ pause \in BOOLEAN /\ mutex \in BOOLEAN
    /\ abort \in -1 .. Last + 1
    /\ pc \in [Threads -> Waiting \cup Computing \cup Calling \cup {"spin"}]
    /\ pc[0] \in Calling \cup Computing \cup {"spin"}
    /\ \A t \in Workers : pc[t] \in Waiting \cup Computing \cup {"spin"}
    /\ nth \in [Threads -> 0 .. NThreads] /\ node \in [Threads -> 0 .. Last + 1]
    /\ lastGraph \in [Threads -> 0 .. MaxGraphs] /\ seen \in [Threads -> 0 .. MaxGraphs]
    /\ chunk \in [Threads -> Nat]
    /\ met \in [Threads -> [threads : Nat, passed : Nat]]
    /\ back \in [Threads -> {"none", "chunk", "next", "top", "return"}]
    /\ asked \in 1 .. NThreads
    /\ done \in [0 .. Last -> SUBSET Int]

\* The threads that do not take part wait.
PoolOK ==
    /\ nGraph > 0 \/ pc[0] = "announce" => nThreadsCur = asked
    /\ pc[0] = "wake" => nGraph > 0
    /\ pc[0] \in {"kickoff", "announce"} => nGraph < MaxGraphs
    /\ nGraph = 0 => \A t \in Workers : lastGraph[t] = 0
    /\ \A t \in Workers : pc[t] = "active" => nGraph > 0
    /\ \A t \in Workers : t >= asked => pc[t] \in Waiting

LocalOK(t) ==
    /\ pc[t] \in AtBarrier => back[t] \in {"chunk", "next", IF t = 0 THEN "return" ELSE "top"}
    /\ Loc(t) \in AtBarrier /\ back[t] \in {"top", "return"} => node[t] > Last \/ abort = node[t]
    /\ Loc(t) = "rows" => node[t] <= Last /\ Kind(node[t]) = "rows"
    /\ Loc(t) \in {"product", "chunk"} \/ (Loc(t) \in AtBarrier /\ back[t] = "chunk") =>
          node[t] <= Last /\ Kind(node[t]) # "rows"
    /\ Loc(t) = "computed" => node[t] <= Last
    /\ Loc(t) = "next" \/ (Loc(t) \in AtBarrier /\ back[t] = "next") => node[t] < Last
    /\ Loc(t) \in (Computing \cup {"spin"}) \ {"start"} => nth[t] = asked
    /\ Loc(t) \in Computing \cup {"spin"} => nGraph > 0 /\ (t # 0 => lastGraph[t] = nGraph)
    /\ pc[t] = "active" => seen[t] = nGraph /\ lastGraph[t] # nGraph

Gathered == {t \in Used : Arrived(t)}
BarrierOK ==
    /\ \A t \in Used : pc[t] \in {"arrive", "last", "release"} =>
          met[t].threads = asked /\ met[t].passed = nPassed
    /\ \A t \in Used : pc[t] = "spin" => met[t].passed \in {nPassed, nPassed - 1}
    /\ \A t, u \in Used : pc[t] \in {"last", "release"} /\ u # t =>
          pc[u] = "spin" /\ met[u].passed = nPassed
    /\ nBarrier = IF \E t \in Used : pc[t] = "release" THEN 0 ELSE Cardinality(Gathered)

SameSegment == \A t \in Used : Seg(t) = Seg(0)

-----------------------------------------------------------------------------
(* What is computed.  In the segment that ends with the barrier after node *)
(* k, each part of k is done, or a thread is bound to do it, or it will be *)
(* claimed.                                                                *)

Full(k) == done[k] = Parts(k, asked)
Past(t) == Loc(t) = "computed" \/ Loc(t) \in AtBarrier \/ (Loc(t) = "loop" /\ node[t] > Last)
Bound(t, p) == IF Loc(t) = "chunk" THEN p = chunk[t] ELSE ~ Past(t) /\ p = t
Unclaimed(k, p) == Kind(k) = "chunked" /\ p >= currentChunk

Progress(k) ==
    /\ done[k] \subseteq Parts(k, asked)
    /\ \A p \in Parts(k, asked) : p \in done[k] \/ Unclaimed(k, p) \/ \E t \in Used : Bound(t, p)
    /\ \A p \in done[k] : ~ Unclaimed(k, p) /\ \A t \in Used : ~ Bound(t, p)
    /\ \A t, u \in Used, p \in Parts(k, asked) : Bound(t, p) /\ Bound(u, p) => t = u
    /\ \A t \in Used, p \in Parts(k, asked) : Past(t) => ~ Unclaimed(k, p)
    /\ \A t \in Used : Loc(t) = "chunk" => IF Kind(k) = "chunked" THEN chunk[t] < currentChunk ELSE chunk[t] = t

Computes(k) ==
    /\ k \in 0 .. Last
    /\ \A l \in 0 .. Last : (l < k => Full(l)) /\ (l > k => done[l] = {})
Work(s) ==
    /\ s # Done => Computes(s[1])
    /\ s[2] \in {"chunk", "abort"} => done[s[1]] = {}
    /\ s[2] = "chunk" =>
          /\ Kind(s[1]) # "rows" /\ abort = -1
          /\ \A t \in Used : Loc(t) \in AtBarrier => chunk[t] = t
          /\ Loc(0) \in AtBarrier => currentChunk = asked
    /\ s[2] = "next" =>
          /\ Progress(s[1])
          /\ abort = -1 \/ (abort = s[1] + 1 /\ Past(0) /\ Loc(0) # "computed")
    /\ s = Done =>
          /\ Loc(0) = "return" => \A k \in 0 .. Last : abort = -1 \/ k < abort => Full(k)
          /\ Loc(0) \in {"kickoff", "announce"} => abort = -1 /\ \A k \in 0 .. Last : done[k] = {}
          /\ \A k \in 0 .. Last : done[k] \subseteq Parts(k, asked)

IndInv ==
    /\ Types /\ PoolOK /\ BarrierOK /\ SameSegment /\ Work(Seg(0))
    /\ \A t \in Used : LocalOK(t)

-----------------------------------------------------------------------------
(* Segments.                                                               *)

LEMMA Consts ==
    ASSUME Types
    PROVE  /\ Last \in Nat /\ NThreads \in Nat \ {0} /\ asked \in Nat /\ asked >= 1 /\ asked <= NThreads
           /\ Chunks \in Nat /\ Chunks > NThreads
           /\ \A k \in 0 .. Last : Kind(k) \in {"chunked", "split", "rows"}
           /\ \A t \in Used : t \in Nat /\ t < asked /\ t \in Threads /\ (t = 0 \/ t \in Workers)
           /\ 0 \in Used /\ 0 \in Threads /\ \A t \in Workers : t \in Threads /\ t # 0 /\ t \in Nat
<1>1. Len(Kinds) \in Nat /\ Len(Kinds) >= 1 /\ Kinds \in Seq({"chunked", "split", "rows"})
    BY PoolAssumption
<1>2. Last \in Nat /\ Last + 1 = Len(Kinds)
    BY <1>1 DEF Last
<1>3. \A k \in 0 .. Last : Kind(k) \in {"chunked", "split", "rows"}
    BY <1>1, <1>2 DEF Kind
<1>4. NThreads \in Nat \ {0} /\ asked \in 1 .. NThreads /\ Chunks \in Nat /\ Chunks > NThreads
    BY PoolAssumption DEF Types
<1> QED BY <1>2, <1>3, <1>4 DEF Used, Threads, Workers

LEMMA SegAtIs ==
    ASSUME Types, NEW k \in 0 .. Last + 1
    PROVE  /\ SegAt(k) # Done /\ SegAt(k)[1] \in 0 .. Last
           /\ SegAt(k) = <<SegAt(k)[1], SegAt(k)[2]>>
           /\ SegAt(k)[2] \in {"next", "abort", "chunk"}
           /\ SegAt(k)[1] = IF k > Last THEN Last ELSE k
           /\ SegAt(k)[2] = "next" => k > Last \/ (Kind(k) = "rows" /\ abort # k)
           /\ SegAt(k)[2] = "abort" => k <= Last /\ abort = k
           /\ SegAt(k)[2] = "chunk" => k <= Last /\ abort # k /\ Kind(k) # "rows"
BY Consts DEF SegAt, Done

\* Where a thread is in its segment.
LEMMA SegIs ==
    ASSUME Types, NEW t \in Used, LocalOK(t)
    PROVE  /\ Loc(t) \in Waiting \cup Calling \cup Computing \cup {"spin"}
           /\ t = 0 => Loc(t) \notin Waiting
           /\ t # 0 => Loc(t) \notin Calling
           /\ Seg(t) = Done \/ Seg(t)[1] \in 0 .. Last
           /\ Seg(t) = <<Seg(t)[1], Seg(t)[2]>>
<1>1. /\ t \in Threads /\ (t = 0 \/ t \in Workers) /\ Last \in Nat
      /\ pc[t] \in Waiting \cup Calling \cup Computing \cup {"spin"}
      /\ t = 0 => pc[t] \notin Waiting
      /\ t # 0 => pc[t] \notin Calling
    BY Consts DEF Types, Waiting, Calling, Computing
<1>2. pc[t] = "spin" => back[t] \in {"chunk", "next", IF t = 0 THEN "return" ELSE "top"}
    BY DEF LocalOK, AtBarrier
<1>3. /\ Loc(t) \in Waiting \cup Calling \cup Computing \cup {"spin"}
      /\ t = 0 => Loc(t) \notin Waiting
      /\ t # 0 => Loc(t) \notin Calling
    BY <1>1, <1>2 DEF Loc, Waiting, Calling, Computing
<1>4. node[t] \in 0 .. Last + 1 /\ 0 \in 0 .. Last + 1
    BY <1>1 DEF Types
<1>5. SegAt(0)[1] \in 0 .. Last /\ SegAt(0) = <<SegAt(0)[1], SegAt(0)[2]>>
      /\ SegAt(node[t])[1] \in 0 .. Last /\ SegAt(node[t]) = <<SegAt(node[t])[1], SegAt(node[t])[2]>>
    BY <1>4, SegAtIs
<1>6. Loc(t) = "next" => SegAt(node[t] + 1)[1] \in 0 .. Last
                         /\ SegAt(node[t] + 1) = <<SegAt(node[t] + 1)[1], SegAt(node[t] + 1)[2]>>
    <2> SUFFICES ASSUME Loc(t) = "next" PROVE node[t] + 1 \in 0 .. Last + 1
        BY SegAtIs
    <2> QED BY <1>1, <1>4 DEF LocalOK
<1>7. Loc(t) \in {"product", "rows", "chunk", "computed"} => node[t] \in 0 .. Last
    BY <1>1, <1>4 DEF LocalOK
<1>8. Loc(t) \in AtBarrier => back[t] \in {"chunk", "next", "return", "top"}
    BY DEF Loc, LocalOK, AtBarrier
<1>9. Loc(t) \in AtBarrier /\ back[t] \in {"chunk", "next"} => node[t] \in 0 .. Last
    BY <1>1, <1>4 DEF LocalOK
<1>10. Seg(t) = Done \/ Seg(t)[1] \in 0 .. Last
    BY <1>3, <1>5, <1>6, <1>7, <1>8, <1>9 DEF Seg, Waiting, Calling, Computing, AtBarrier
<1>11. Seg(t) = <<Seg(t)[1], Seg(t)[2]>>
    BY <1>5, <1>6 DEF Seg, Done
<1> QED BY <1>3, <1>10, <1>11

-----------------------------------------------------------------------------
(* Steps of one thread within a segment.                                   *)

\* The other threads are where they were.
LEMMA OthersStay ==
    ASSUME Types, NEW t \in Threads, NEW l, pc' = [pc EXCEPT ![t] = l],
           UNCHANGED <<nPassed, nGraph, abort, asked>>,
           NEW u \in Threads, u # t,
           met'[u] = met[u], back'[u] = back[u], node'[u] = node[u], lastGraph'[u] = lastGraph[u]
    PROVE  /\ pc'[u] = pc[u] /\ Loc(u)' = Loc(u) /\ Seg(u)' = Seg(u)
           /\ Past(u)' = Past(u) /\ Arrived(u)' = Arrived(u)
           /\ nth'[u] = nth[u] /\ seen'[u] = seen[u] => LocalOK(u)' = LocalOK(u)
<1>1. pc'[u] = pc[u]
    BY DEF Types
<1>2. Loc(u)' = Loc(u)
    BY <1>1 DEF Loc
<1>3. \A k : SegAt(k)' = SegAt(k)
    BY DEF SegAt
<1>4. Seg(u)' = Seg(u)
    BY <1>2, <1>3 DEF Seg, Done
<1>5. Past(u)' = Past(u) /\ Arrived(u)' = Arrived(u)
    BY <1>1, <1>2 DEF Past, Arrived
<1>6. nth'[u] = nth[u] /\ seen'[u] = seen[u] => LocalOK(u)' = LocalOK(u)
    BY <1>1, <1>2 DEF LocalOK
<1> QED BY <1>1, <1>2, <1>4, <1>5, <1>6

\* A step that has nothing to do with a barrier.
LEMMA BarrierStay ==
    ASSUME Types, BarrierOK, NEW t \in Threads, NEW l, pc' = [pc EXCEPT ![t] = l],
           UNCHANGED <<nPassed, nBarrier, asked>>,
           pc[t] \notin {"arrive", "last", "release"}, pc[t] = "spin" => met[t].passed # nPassed,
           l \notin {"arrive", "last", "release", "spin"},
           \A u \in Threads : u # t => met'[u] = met[u]
    PROVE  BarrierOK'
<1>1. Used' = Used /\ Used \subseteq Threads
    BY Consts DEF Used
<1>2. pc'[t] = l /\ \A u \in Threads : u # t => pc'[u] = pc[u]
    BY DEF Types
<1>3. \A u \in Threads : u # t => Arrived(u)' = Arrived(u)
    BY <1>2 DEF Arrived
<1>4. ~ Arrived(t) /\ ~ Arrived(t)'
    BY <1>2 DEF Arrived
<1>5. Gathered' = Gathered
    BY <1>1, <1>3, <1>4 DEF Gathered
<1>6. (\E u \in Used : pc'[u] = "release") <=> \E u \in Used : pc[u] = "release"
    BY <1>1, <1>2
<1>7. \A u, v \in Used : pc'[u] \in {"last", "release"} /\ v # u => pc'[v] = "spin" /\ met'[v].passed = nPassed
    <2> SUFFICES ASSUME NEW u \in Used, NEW v \in Used, pc'[u] \in {"last", "release"}, v # u
                 PROVE  pc'[v] = "spin" /\ met'[v].passed = nPassed
        OBVIOUS
    <2>1. u # t /\ pc[u] \in {"last", "release"}
        BY <1>1, <1>2
    <2>2. pc[v] = "spin" /\ met[v].passed = nPassed
        BY <2>1 DEF BarrierOK
    <2> QED BY <1>1, <1>2, <2>2
<1> QED BY <1>1, <1>2, <1>5, <1>6, <1>7 DEF BarrierOK

\* A step of one thread that computes nothing and stays in its segment.
LEMMA ThreadStep ==
    ASSUME IndInv, Types', PoolOK', BarrierOK',
           NEW t \in Used, NEW l, pc' = [pc EXCEPT ![t] = l],
           UNCHANGED <<nPassed, nGraph, abort, asked, done>>,
           \A u \in Threads : u # t =>
               /\ met'[u] = met[u] /\ back'[u] = back[u] /\ node'[u] = node[u] /\ lastGraph'[u] = lastGraph[u]
               /\ nth'[u] = nth[u] /\ seen'[u] = seen[u] /\ chunk'[u] = chunk[u],
           LocalOK(t)', Seg(t)' = Seg(t),
           Seg(t)[2] = "next" =>
               /\ currentChunk' = currentChunk /\ chunk'[t] = chunk[t]
               /\ Past(t)' = Past(t) /\ (Loc(t)' = "chunk" <=> Loc(t) = "chunk")
               /\ t = 0 /\ Loc(0)' = "computed" => Loc(0) = "computed",
           Seg(t)[2] = "chunk" =>
               /\ Loc(t)' \in AtBarrier => chunk'[t] = t
               /\ IF t = 0 THEN Loc(0)' \in AtBarrier => currentChunk' = asked ELSE currentChunk' = currentChunk,
           Seg(t) = Done /\ t = 0 =>
               /\ Loc(0)' = "return" => Loc(0) = "return"
               /\ Loc(0)' \in {"kickoff", "announce"} => Loc(0) \in {"kickoff", "announce"}
    PROVE  IndInv'
<1>1. Types /\ PoolOK /\ SameSegment /\ Work(Seg(0)) /\ \A u \in Used : LocalOK(u)
    BY DEF IndInv
<1>2. /\ Used' = Used /\ 0 \in Used /\ \A u \in Used : u \in Threads
    BY <1>1, Consts DEF Used
<1>3. \A u \in Used : u # t => /\ Loc(u)' = Loc(u) /\ Seg(u)' = Seg(u) /\ Past(u)' = Past(u)
                               /\ LocalOK(u)' = LocalOK(u)
    BY <1>1, <1>2, OthersStay
<1>4. \A u \in Used : Seg(u)' = Seg(0) /\ Seg(u) = Seg(0)
    BY <1>1, <1>2, <1>3 DEF SameSegment
<1>5. SameSegment' /\ \A u \in Used : LocalOK(u)'
    BY <1>1, <1>2, <1>3, <1>4 DEF SameSegment
<1>6. PICK s : s = Seg(0) /\ s = Seg(0)'
    BY <1>2, <1>4
<1>7. Work(s)
    BY <1>1, <1>6
<1>8. s # Done => Computes(s[1])'
    BY <1>7 DEF Work, Computes, Full
<1>9. s[2] \in {"chunk", "abort"} => done'[s[1]] = {}
    BY <1>7 DEF Work
<1>10. s[2] = "chunk" =>
          /\ Kind(s[1]) # "rows" /\ abort' = -1
          /\ \A u \in Used : Loc(u)' \in AtBarrier => chunk'[u] = u
          /\ Loc(0)' \in AtBarrier => currentChunk' = asked
    BY <1>2, <1>3, <1>4, <1>6, <1>7 DEF Work
<1>11. s[2] = "next" => Progress(s[1])'
    <2> SUFFICES ASSUME s[2] = "next" PROVE Progress(s[1])'
        OBVIOUS
    <2>1. Progress(s[1])
        BY <1>7 DEF Work
    <2>2. \A u \in Used : Past(u)' = Past(u) /\ (Loc(u)' = "chunk" <=> Loc(u) = "chunk") /\ chunk'[u] = chunk[u]
        BY <1>2, <1>3, <1>4, <1>6
    <2>3. \A u \in Used : \A p : Bound(u, p)' = Bound(u, p)
        BY <2>2 DEF Bound
    <2>4. \A k, p : Unclaimed(k, p)' = Unclaimed(k, p)
        BY <1>4, <1>6 DEF Unclaimed
    <2>5. currentChunk' = currentChunk
        BY <1>4, <1>6
    <2> QED BY <1>2, <2>1, <2>2, <2>3, <2>4, <2>5 DEF Progress
<1>12. s[2] = "next" => abort = -1 \/ (abort = s[1] + 1 /\ Past(0)' /\ Loc(0)' # "computed")
    BY <1>2, <1>3, <1>4, <1>6, <1>7 DEF Work
<1>13. s = Done =>
          /\ Loc(0)' = "return" => \A k \in 0 .. Last : abort = -1 \/ k < abort => Full(k)'
          /\ Loc(0)' \in {"kickoff", "announce"} => abort = -1 /\ \A k \in 0 .. Last : done'[k] = {}
          /\ \A k \in 0 .. Last : done'[k] \subseteq Parts(k, asked)
    BY <1>2, <1>3, <1>4, <1>6, <1>7 DEF Work, Full
<1>14. Work(Seg(0))'
    BY <1>2, <1>6, <1>8, <1>9, <1>10, <1>11, <1>12, <1>13 DEF Work, Done
<1> QED BY <1>2, <1>5, <1>14 DEF IndInv

\* A step of a thread that takes no part.
LEMMA UnusedStep ==
    ASSUME IndInv, Types', PoolOK', BarrierOK',
           NEW t \in Threads, t \notin Used, NEW l, pc' = [pc EXCEPT ![t] = l],
           UNCHANGED <<nPassed, nGraph, abort, asked, done, met, back, node, nth, chunk, currentChunk>>,
           \A u \in Threads : u # t => lastGraph'[u] = lastGraph[u] /\ seen'[u] = seen[u]
    PROVE  IndInv'
<1>1. Types /\ SameSegment /\ Work(Seg(0)) /\ \A u \in Used : LocalOK(u)
    BY DEF IndInv
<1>2. Used' = Used /\ 0 \in Used /\ \A u \in Used : u \in Threads /\ u # t
    BY <1>1, Consts DEF Used
<1>3. \A u \in Used : /\ Loc(u)' = Loc(u) /\ Seg(u)' = Seg(u) /\ Past(u)' = Past(u)
                      /\ LocalOK(u)' = LocalOK(u)
    BY <1>1, <1>2, OthersStay
<1>4. SameSegment' /\ \A u \in Used : LocalOK(u)'
    BY <1>1, <1>2, <1>3 DEF SameSegment
<1>5. PICK s : s = Seg(0) /\ s = Seg(0)'
    BY <1>2, <1>3
<1>6. Work(s)
    BY <1>1, <1>5
<1>7. \A u \in Used : \A p : Bound(u, p)' = Bound(u, p)
    BY <1>3 DEF Bound
<1>8. \A k : Progress(k)' = Progress(k)
    BY <1>2, <1>3, <1>7 DEF Progress, Unclaimed
<1>9. \A k : Full(k)' = Full(k) /\ Computes(k)' = Computes(k)
    BY DEF Full, Computes
<1>10. Work(Seg(0))'
    BY <1>2, <1>3, <1>5, <1>6, <1>8, <1>9 DEF Work, Done
<1> QED BY <1>2, <1>4, <1>10 DEF IndInv

-----------------------------------------------------------------------------
(* Waiting for work.                                                       *)

LEMMA WaitStep ==
    ASSUME IndInv, NEW t \in Workers, pc[t] \in Waiting,
           NEW l \in Waiting \cup {"start"}, pc' = [pc EXCEPT ![t] = l],
           UNCHANGED <<pool, nth, node, chunk, met, back, asked, done>>,
           NEW g \in 0 .. MaxGraphs, lastGraph' = [lastGraph EXCEPT ![t] = g],
           NEW s \in 0 .. MaxGraphs, seen' = [seen EXCEPT ![t] = s],
           nGraph = 0 => g = 0,
           l = "start" => t \in Used /\ nGraph > 0 /\ lastGraph[t] # nGraph /\ g = nGraph,
           l = "active" => nGraph > 0 /\ (t \in Used => s = nGraph /\ g # nGraph),
           t \in Used /\ l # "start" => (g = nGraph <=> lastGraph[t] = nGraph)
    PROVE  IndInv'
<1>1. Types /\ PoolOK /\ BarrierOK /\ LocalOK(0) /\ (t \in Used => LocalOK(t))
    BY Consts DEF IndInv
<1>2. t \in Threads /\ t # 0 /\ t \in Nat /\ Used' = Used /\ 0 \in Threads
      /\ (t \in Used <=> t < asked) /\ asked \in Nat
    BY <1>1, Consts DEF Used
<1>3. /\ pc'[t] = l /\ lastGraph'[t] = g /\ seen'[t] = s
      /\ \A u \in Threads : u # t => pc'[u] = pc[u] /\ lastGraph'[u] = lastGraph[u] /\ seen'[u] = seen[u]
    BY <1>1, <1>2 DEF Types
<1>4. l \in Waiting \cup Computing
    BY DEF Computing
<1>5. pc' \in [Threads -> Waiting \cup Computing \cup Calling \cup {"spin"}]
      /\ lastGraph' \in [Threads -> 0 .. MaxGraphs] /\ seen' \in [Threads -> 0 .. MaxGraphs]
    BY <1>1, <1>2, <1>4 DEF Types
<1>6. pc'[0] = pc[0] /\ \A u \in Workers : pc'[u] \in Waiting \cup Computing \cup {"spin"}
    BY <1>1, <1>2, <1>3, <1>4 DEF Types, Workers
<1>7. Types'
    BY <1>1, <1>5, <1>6 DEF Types, pool
<1>8. PoolOK'
    BY <1>1, <1>2, <1>3, <1>6 DEF PoolOK, pool, Workers
<1>9. pc[t] \notin {"arrive", "last", "release", "spin"} /\ l \notin {"arrive", "last", "release", "spin"}
      /\ l \notin AtBarrier /\ pc[t] \notin AtBarrier /\ l # "wake" /\ l \notin Calling /\ l \notin {"rows", "product", "chunk", "computed", "next", "loop"}
    BY DEF Waiting, AtBarrier, Calling
<1>10. BarrierOK'
    BY <1>1, <1>2, <1>9, BarrierStay DEF pool
<1>11. CASE t \in Used
    <2>1. Loc(t) = pc[t] /\ Loc(t)' = l
        BY <1>3, <1>9 DEF Loc
    <2>2. LocalOK(t)'
        <3>1. l \in (Computing \cup {"spin"}) => l = "start"
            BY DEF Waiting, Computing
        <3> QED BY <1>1, <1>2, <1>3, <1>9, <1>11, <2>1, <3>1 DEF LocalOK, pool
    <2>3. SegAt(0)' = SegAt(0)
        BY DEF SegAt, pool
    <2>4. Seg(t)' = Seg(t)
        <3>1. CASE l = "start"
            BY <1>2, <1>3, <1>11, <2>1, <2>3, <3>1 DEF Seg, pool, Waiting, Calling
        <3>2. CASE l # "start"
            BY <1>2, <1>3, <1>11, <2>1, <2>3, <3>2 DEF Seg, pool, Done
        <3> QED BY <3>1, <3>2
    <2>5. ~ Past(t) /\ ~ Past(t)' /\ Loc(t) # "chunk" /\ Loc(t)' # "chunk" /\ Loc(t)' \notin AtBarrier
        BY <1>9, <2>1 DEF Past, Waiting
    <2>7. Past(t)' = Past(t)
        BY <1>9, <2>1 DEF Past, Waiting
    <2>6. /\ UNCHANGED <<nPassed, nGraph, abort, asked, done>> /\ currentChunk' = currentChunk /\ chunk' = chunk
          /\ \A u \in Threads : u # t =>
               /\ met'[u] = met[u] /\ back'[u] = back[u] /\ node'[u] = node[u] /\ lastGraph'[u] = lastGraph[u]
               /\ nth'[u] = nth[u] /\ seen'[u] = seen[u] /\ chunk'[u] = chunk[u]
        BY <1>3 DEF pool
    <2> HIDE DEF IndInv
    <2> QED
        BY <1>2, <1>7, <1>8, <1>10, <1>11, <2>2, <2>4, <2>5, <2>6, <2>7, ThreadStep
<1>12. CASE t \notin Used
    BY <1>2, <1>3, <1>7, <1>8, <1>10, <1>12, UnusedStep DEF pool
<1> QED BY <1>11, <1>12

LEMMA WaitSteps ==
    ASSUME IndInv, NEW t \in Workers,
           Top(t) \/ PauseLoop(t) \/ CheckStop(t) \/ Poll(t) \/ ReadGraph(t) \/ ReadActive(t)
           \/ StopPolling(t) \/ CheckForWork(t) \/ WakeUp(t)
    PROVE  IndInv'
<1>1. Types /\ PoolOK /\ (t \in Used => LocalOK(t))
    BY DEF IndInv
<1>2. t \in Threads /\ t \in Nat /\ (t \in Used <=> t < asked)
    BY <1>1, Consts DEF Used
<1>3. /\ lastGraph[t] \in 0 .. MaxGraphs /\ seen[t] \in 0 .. MaxGraphs /\ nGraph \in 0 .. MaxGraphs
      /\ nGraph = 0 => lastGraph[t] = 0
      /\ lastGraph = [lastGraph EXCEPT ![t] = lastGraph[t]] /\ seen = [seen EXCEPT ![t] = seen[t]]
    BY <1>1, <1>2 DEF Types, PoolOK
<1>4. nGraph > 0 => (Active(t) <=> t \in Used)
    BY <1>1, <1>2 DEF PoolOK, Active
<1>5. nGraph \in Nat /\ (nGraph = 0 \/ nGraph > 0)
    BY <1>1 DEF Types
<1>6. ASSUME Top(t) \/ PauseLoop(t) \/ CheckStop(t) \/ Poll(t) \/ StopPolling(t) \/ WakeUp(t)
      PROVE  IndInv'
    <2>1. PICK l \in Waiting \ {"active"} : pc' = [pc EXCEPT ![t] = l]
        BY <1>6 DEF Top, PauseLoop, CheckStop, Poll, StopPolling, WakeUp, Woken, Goto, Waiting
    <2>2. pc[t] \in Waiting /\ UNCHANGED <<pool, local, asked, done>>
        BY <1>6 DEF Top, PauseLoop, CheckStop, Poll, StopPolling, WakeUp, Waiting
    <2>3. l \in Waiting \cup {"start"} /\ l # "start" /\ l # "active"
        BY DEF Waiting
    <2>4. lastGraph' = [lastGraph EXCEPT ![t] = lastGraph[t]] /\ seen' = [seen EXCEPT ![t] = seen[t]]
          /\ UNCHANGED <<pool, nth, node, chunk, met, back, asked, done>>
        BY <1>3, <2>2 DEF local
    <2> HIDE DEF Waiting
    <2> QED BY <1>3, <2>1, <2>2, <2>3, <2>4, WaitStep
<1>7. CASE ReadGraph(t)
    <2>1. pc[t] \in Waiting /\ "active" \in Waiting \cup {"start"}
        BY <1>7 DEF ReadGraph, Waiting
    <2>2. pc' = [pc EXCEPT ![t] = "active"] /\ seen' = [seen EXCEPT ![t] = nGraph]
          /\ UNCHANGED <<pool, nth, node, chunk, met, back, asked, done>> /\ lastGraph' = lastGraph
          /\ nGraph # lastGraph[t]
        BY <1>7 DEF ReadGraph, Goto
    <2>3. nGraph > 0
        BY <1>3, <1>5, <2>2
    <2>4. lastGraph' = [lastGraph EXCEPT ![t] = lastGraph[t]]
        BY <1>3, <2>2
    <2>5. "active" # "start" /\ (t \in Used => nGraph = nGraph /\ lastGraph[t] # nGraph)
        BY <2>2
    <2>6. pc' = [pc EXCEPT ![t] = "active"] /\ seen' = [seen EXCEPT ![t] = nGraph]
          /\ UNCHANGED <<pool, nth, node, chunk, met, back, asked, done>>
        BY <2>2
    <2> QED BY <1>3, <2>1, <2>3, <2>4, <2>5, <2>6, WaitStep
<1>8. CASE ReadActive(t)
    <2>1. pc[t] \in Waiting /\ pc[t] = "active" /\ "start" \in Waiting \cup {"start"} /\ "ready" \in Waiting \cup {"start"}
        BY <1>8 DEF ReadActive, Waiting
    <2>2. pc' = [pc EXCEPT ![t] = IF Active(t) THEN "start" ELSE "ready"]
          /\ lastGraph' = [lastGraph EXCEPT ![t] = seen[t]]
          /\ UNCHANGED <<pool, nth, node, chunk, met, back, asked, done>> /\ seen' = seen
        BY <1>8 DEF ReadActive, Goto
    <2>3. nGraph > 0
        BY <1>1, <2>1 DEF PoolOK
    <2>4. t \in Used => seen[t] = nGraph /\ lastGraph[t] # nGraph
        BY <1>1, <2>1 DEF LocalOK
    <2>5. seen' = [seen EXCEPT ![t] = seen[t]] /\ nGraph # 0
        BY <1>3, <1>5, <2>2, <2>3
    <2>6. CASE t \in Used
        <3>1. pc' = [pc EXCEPT ![t] = "start"]
            BY <1>4, <2>2, <2>3, <2>6
        <3> QED BY <1>3, <2>1, <2>2, <2>3, <2>4, <2>5, <2>6, <3>1, WaitStep
    <2>7. CASE t \notin Used
        <3>1. pc' = [pc EXCEPT ![t] = "ready"]
            BY <1>4, <2>2, <2>3, <2>7
        <3>2. PICK l \in Waiting \cup {"start"} : l = "ready"
            BY <2>1
        <3>3. PICK g \in 0 .. MaxGraphs : g = seen[t]
            BY <1>3
        <3>4. /\ pc' = [pc EXCEPT ![t] = l] /\ l # "start" /\ l # "active"
              /\ lastGraph' = [lastGraph EXCEPT ![t] = g] /\ seen' = [seen EXCEPT ![t] = g]
              /\ UNCHANGED <<pool, nth, node, chunk, met, back, asked, done>>
            BY <2>2, <2>5, <3>1, <3>2, <3>3
        <3> QED BY <2>1, <2>5, <2>7, <3>4, WaitStep
    <2> QED BY <2>6, <2>7
<1>9. CASE CheckForWork(t)
    <2>1. pc[t] \in Waiting /\ pc[t] = "lock" /\ "top" \in Waiting \cup {"start"}
          /\ "start" \in Waiting \cup {"start"} /\ "asleep" \in Waiting \cup {"start"}
        BY <1>9 DEF CheckForWork, Waiting
    <2>2. UNCHANGED <<pool, nth, node, chunk, met, back, asked, done>> /\ seen' = seen
        BY <1>9 DEF CheckForWork
    <2>3. seen' = [seen EXCEPT ![t] = seen[t]]
        BY <1>3, <2>2
    <2>4. CASE stop \/ pause
        <3>1. pc' = [pc EXCEPT ![t] = "top"] /\ lastGraph' = [lastGraph EXCEPT ![t] = lastGraph[t]]
            BY <1>3, <1>9, <2>4 DEF CheckForWork, Goto
        <3>2. lastGraph[t] \in 0 .. MaxGraphs /\ seen[t] \in 0 .. MaxGraphs /\ (nGraph = 0 => lastGraph[t] = 0)
            BY <1>3
        <3>3. PICK l \in Waiting \cup {"start"} : l = "top"
            BY <2>1
        <3>4. pc' = [pc EXCEPT ![t] = l] /\ l # "start" /\ l # "active"
            BY <3>1, <3>3
        <3>5. PICK g \in 0 .. MaxGraphs : g = lastGraph[t]
            BY <3>2
        <3>6. lastGraph' = [lastGraph EXCEPT ![t] = g] /\ (nGraph = 0 => g = 0)
              /\ (g = nGraph <=> lastGraph[t] = nGraph)
            BY <3>1, <3>2, <3>5
        <3> QED BY <2>1, <2>2, <2>3, <3>2, <3>4, <3>6, WaitStep
    <2>5. CASE ~ (stop \/ pause)
        <3>1. pc' = [pc EXCEPT ![t] = IF nGraph # lastGraph[t] /\ Active(t) THEN "start" ELSE "asleep"]
              /\ lastGraph' = [lastGraph EXCEPT ![t] = nGraph]
            BY <1>9, <2>5 DEF CheckForWork, Goto
        <3>2. CASE nGraph # lastGraph[t] /\ Active(t)
            <4>1. nGraph > 0 /\ t \in Used /\ pc' = [pc EXCEPT ![t] = "start"]
                BY <1>3, <1>4, <1>5, <3>1, <3>2
            <4> QED BY <1>3, <2>1, <2>2, <2>3, <3>1, <3>2, <4>1, WaitStep
        <3>3. CASE ~ (nGraph # lastGraph[t] /\ Active(t))
            <4>1. pc' = [pc EXCEPT ![t] = "asleep"] /\ (t \in Used => lastGraph[t] = nGraph)
                BY <1>3, <1>4, <1>5, <3>1, <3>3
            <4>2. seen[t] \in 0 .. MaxGraphs /\ nGraph \in 0 .. MaxGraphs
                  /\ (t \in Used => (nGraph = nGraph <=> lastGraph[t] = nGraph))
                BY <1>3, <4>1
            <4>3. PICK l \in Waiting \cup {"start"} : l = "asleep"
                BY <2>1
            <4>4. pc' = [pc EXCEPT ![t] = l] /\ l # "start" /\ l # "active"
                BY <4>1, <4>3
            <4> QED BY <2>1, <2>2, <2>3, <3>1, <4>1, <4>2, <4>4, WaitStep
        <3> QED BY <3>2, <3>3
    <2> QED BY <2>4, <2>5
<1> QED BY <1>6, <1>7, <1>8, <1>9

-----------------------------------------------------------------------------
(* Going through the graph.                                                *)

\* A thread that computes takes part.
LEMMA TakesPart ==
    ASSUME IndInv, NEW t \in Threads, pc[t] \in Computing \cup {"spin"}
    PROVE  /\ t \in Used /\ LocalOK(t) /\ Seg(t) = Seg(0) /\ Work(Seg(t)) /\ pc[t] \notin Waiting \cup Calling
           /\ Loc(t) \in Computing \cup {"spin"} =>
                 nGraph > 0 /\ nThreadsCur = asked /\ (t # 0 => lastGraph[t] = nGraph)
           /\ pc[t] # "spin" => Loc(t) = pc[t]
<1>1. Types /\ PoolOK /\ SameSegment /\ Work(Seg(0)) /\ \A u \in Used : LocalOK(u)
    BY DEF IndInv
<1>2. pc[t] \notin Waiting \cup Calling
    BY DEF Waiting, Calling, Computing
<1>3. t \in Used
    <2>1. t = 0 \/ (t \in Workers /\ t \in Nat)
        BY <1>1 DEF Threads, Workers
    <2>2. asked \in Nat /\ asked >= 1
        BY <1>1, Consts
    <2>3. t < asked
        BY <1>1, <1>2, <2>1, <2>2 DEF PoolOK
    <2> QED BY <2>1, <2>2, <2>3 DEF Used
<1> QED BY <1>1, <1>2, <1>3 DEF SameSegment, LocalOK, PoolOK, Loc

LEMMA ComputeTypes ==
    ASSUME IndInv, NEW t \in Threads, pc[t] \in Computing \cup {"spin"},
           NEW l \in Computing \cup {"spin", IF t = 0 THEN "return" ELSE "top"}, pc' = [pc EXCEPT ![t] = l],
           UNCHANGED <<nThreadsCur, nGraph, stop, pause, mutex, lastGraph, seen, asked>>,
           nPassed' \in Nat, currentChunk' \in Nat, abort' \in -1 .. Last + 1,
           nth' \in [Threads -> 0 .. NThreads], node' \in [Threads -> 0 .. Last + 1],
           chunk' \in [Threads -> Nat], met' \in [Threads -> [threads : Nat, passed : Nat]],
           back' \in [Threads -> {"none", "chunk", "next", "top", "return"}],
           done' \in [0 .. Last -> SUBSET Int]
    PROVE  Types' /\ PoolOK' /\ Used' = Used /\ pc'[t] = l /\ \A u \in Threads : u # t => pc'[u] = pc[u]
<1>1. Types /\ PoolOK /\ t \in Used
    BY TakesPart DEF IndInv
<1>2. pc'[t] = l /\ \A u \in Threads : u # t => pc'[u] = pc[u]
    BY <1>1 DEF Types
<1>3. /\ l \in Waiting \cup Computing \cup Calling \cup {"spin"}
      /\ t = 0 => l \in Computing \cup {"spin", "return"}
      /\ t # 0 => l \in Computing \cup {"spin", "top"}
    BY DEF Waiting, Calling
<1>4. 0 \in Threads /\ \A u \in Workers : u \in Threads /\ u # 0
    BY <1>1, Consts
<1>5. pc' \in [Threads -> Waiting \cup Computing \cup Calling \cup {"spin"}]
    BY <1>1, <1>3 DEF Types
<1>6. pc'[0] \in Calling \cup Computing \cup {"spin"}
    BY <1>1, <1>2, <1>3, <1>4 DEF Types, Calling
<1>7. \A u \in Workers : pc'[u] \in Waiting \cup Computing \cup {"spin"}
    BY <1>1, <1>2, <1>3, <1>4 DEF Types, Waiting
<1>8. Types'
    BY <1>1, <1>5, <1>6, <1>7 DEF Types
<1>9. pc[0] = "announce" \/ pc[0] = "wake" \/ pc[0] = "kickoff" => t # 0
    BY DEF Computing
<1>10. t = 0 => l \notin {"wake", "kickoff", "announce"}
    BY <1>3 DEF Computing
<1>11. t # 0 => l # "active"
    BY <1>3 DEF Computing
<1>12. t < asked /\ asked \in Nat /\ t \in Nat
    BY <1>1, Consts
<1>13. PoolOK'
    BY <1>1, <1>2, <1>4, <1>9, <1>10, <1>11, <1>12 DEF PoolOK
<1> QED BY <1>2, <1>8, <1>13 DEF Used

LEMMA SpinStep ==
    ASSUME IndInv, NEW t \in Threads, Spin(t)
    PROVE  IndInv'
<1>1. /\ pc[t] = "spin" /\ nPassed # met[t].passed /\ pc' = [pc EXCEPT ![t] = back[t]]
      /\ back' = [back EXCEPT ![t] = "none"]
      /\ UNCHANGED <<pool, lastGraph, seen, nth, node, chunk, met, asked, done>>
    BY DEF Spin, Leave, Goto
<1>2. UNCHANGED <<nThreadsCur, nGraph, nBarrier, nPassed, currentChunk, stop, pause, abort, mutex>>
    BY <1>1 DEF pool
<1>3. t \in Used /\ LocalOK(t) /\ pc[t] \in Computing \cup {"spin"} /\ Types /\ BarrierOK
    BY <1>1, TakesPart DEF IndInv
<1>4. back[t] \in {"chunk", "next", IF t = 0 THEN "return" ELSE "top"}
    BY <1>1, <1>3 DEF LocalOK, AtBarrier
<1>5. back[t] \in Computing \cup {"spin", IF t = 0 THEN "return" ELSE "top"}
    BY <1>4 DEF Computing
<1>6. back' \in [Threads -> {"none", "chunk", "next", "top", "return"}]
    BY <1>1, <1>3 DEF Types
<1>7. Types' /\ PoolOK' /\ Used' = Used /\ pc'[t] = back[t] /\ \A u \in Threads : u # t => pc'[u] = pc[u]
    <2>1. /\ nPassed' \in Nat /\ currentChunk' \in Nat /\ abort' \in -1 .. Last + 1
          /\ nth' \in [Threads -> 0 .. NThreads] /\ node' \in [Threads -> 0 .. Last + 1]
          /\ chunk' \in [Threads -> Nat] /\ met' \in [Threads -> [threads : Nat, passed : Nat]]
          /\ done' \in [0 .. Last -> SUBSET Int]
        BY <1>1, <1>2, <1>3 DEF Types
    <2> QED BY <1>1, <1>2, <1>3, <1>5, <1>6, <2>1, ComputeTypes
<1>8. back[t] \notin AtBarrier /\ back[t] \notin {"arrive", "last", "release", "spin"}
    BY <1>4 DEF AtBarrier
<1>9. BarrierOK'
    BY <1>1, <1>2, <1>3, <1>8, BarrierStay
<1>10. Loc(t) = back[t] /\ Loc(t)' = back[t]
    BY <1>1, <1>7, <1>8 DEF Loc
<1>11. LocalOK(t)'
    BY <1>1, <1>2, <1>3, <1>4, <1>7, <1>8, <1>10 DEF LocalOK
<1>12. \A k : SegAt(k)' = SegAt(k)
    BY <1>2 DEF SegAt
<1>13. Seg(t)' = Seg(t)
    BY <1>1, <1>2, <1>8, <1>10, <1>12 DEF Seg, Done
<1>14. Past(t)' = Past(t)
    BY <1>1, <1>10 DEF Past
<1>15. \A u \in Threads : u # t =>
               /\ met'[u] = met[u] /\ back'[u] = back[u] /\ node'[u] = node[u] /\ lastGraph'[u] = lastGraph[u]
               /\ nth'[u] = nth[u] /\ seen'[u] = seen[u] /\ chunk'[u] = chunk[u]
    BY <1>1, <1>3 DEF Types
<1>16. /\ currentChunk' = currentChunk /\ chunk'[t] = chunk[t]
       /\ Loc(t)' \notin AtBarrier /\ (t = 0 => Loc(0)' = Loc(0) /\ Loc(0)' \notin AtBarrier)
       /\ Loc(t)' = "chunk" <=> Loc(t) = "chunk"
    BY <1>1, <1>2, <1>8, <1>10
<1>17. UNCHANGED <<nPassed, nGraph, abort, asked, done>>
    BY <1>1, <1>2
<1> QED
    BY <1>1, <1>3, <1>7, <1>9, <1>11, <1>13, <1>14, <1>15, <1>16, <1>17, ThreadStep

\* The steps between two barriers that compute nothing.
LEMMA PlainStep ==
    ASSUME IndInv, NEW t \in Threads, pc[t] \in {"start", "loop", "product", "next"},
           NEW l \in {"loop", "rows", "product", "barrier"}, pc' = [pc EXCEPT ![t] = l],
           UNCHANGED <<nThreadsCur, nGraph, nBarrier, nPassed, stop, pause, abort, mutex,
                       lastGraph, seen, met, asked, done>>,
           NEW n \in 0 .. NThreads, nth' = [nth EXCEPT ![t] = n],
           NEW m \in 0 .. Last + 1, node' = [node EXCEPT ![t] = m],
           NEW c \in Nat, chunk' = [chunk EXCEPT ![t] = c],
           NEW b \in {"none", "chunk", "next", "top", "return"}, back' = [back EXCEPT ![t] = b],
           currentChunk' \in Nat,
           LocalOK(t)', Seg(t)' = Seg(t),
           Seg(t)[2] = "next" => currentChunk' = currentChunk /\ c = chunk[t] /\ Past(t)' = Past(t),
           Seg(t)[2] = "chunk" =>
               /\ l = "barrier" => c = t
               /\ IF t = 0 THEN l = "barrier" => currentChunk' = asked ELSE currentChunk' = currentChunk
    PROVE  IndInv'
<1>1. pc[t] \in Computing \cup {"spin"} /\ l \in Computing \cup {"spin", IF t = 0 THEN "return" ELSE "top"}
    BY DEF Computing
<1>2. t \in Used /\ Types /\ BarrierOK
    BY <1>1, TakesPart DEF IndInv
<1>3. /\ nth' \in [Threads -> 0 .. NThreads] /\ node' \in [Threads -> 0 .. Last + 1]
      /\ chunk' \in [Threads -> Nat] /\ met' \in [Threads -> [threads : Nat, passed : Nat]]
      /\ back' \in [Threads -> {"none", "chunk", "next", "top", "return"}]
      /\ done' \in [0 .. Last -> SUBSET Int] /\ nPassed' \in Nat /\ abort' \in -1 .. Last + 1
    BY <1>2 DEF Types
<1>4. Types' /\ PoolOK' /\ Used' = Used /\ pc'[t] = l
    BY <1>1, <1>3, ComputeTypes
<1>5. /\ chunk'[t] = c
      /\ \A u \in Threads : u # t =>
               /\ met'[u] = met[u] /\ back'[u] = back[u] /\ node'[u] = node[u] /\ lastGraph'[u] = lastGraph[u]
               /\ nth'[u] = nth[u] /\ seen'[u] = seen[u] /\ chunk'[u] = chunk[u]
    BY <1>2 DEF Types
<1>6. pc[t] \notin {"arrive", "last", "release", "spin"} /\ l \notin {"arrive", "last", "release", "spin"}
    OBVIOUS
<1>7. BarrierOK'
    BY <1>2, <1>5, <1>6, BarrierStay
<1>8. Loc(t) = pc[t] /\ Loc(t)' = l
    BY <1>4, <1>6 DEF Loc
<1>9. /\ Loc(t)' # "chunk" /\ Loc(t) # "chunk" /\ Loc(t)' # "computed"
      /\ Loc(t)' \in AtBarrier => l = "barrier"
      /\ t = 0 => Loc(0)' # "computed" /\ Loc(0)' # "return" /\ Loc(0)' \notin {"kickoff", "announce"}
      /\ t = 0 /\ Loc(0)' \in AtBarrier => l = "barrier"
    BY <1>8 DEF AtBarrier
<1>10. UNCHANGED <<nPassed, nGraph, abort, asked, done>>
    OBVIOUS
<1> QED
    BY <1>2, <1>4, <1>5, <1>7, <1>9, <1>10, ThreadStep

LEMMA StartStep ==
    ASSUME IndInv, NEW t \in Threads, Start(t)
    PROVE  IndInv'
<1>1. /\ pc[t] = "start" /\ nth' = [nth EXCEPT ![t] = nThreadsCur] /\ node' = [node EXCEPT ![t] = 0]
      /\ pc' = [pc EXCEPT ![t] = "loop"]
      /\ UNCHANGED <<nThreadsCur, nGraph, nBarrier, nPassed, currentChunk, stop, pause, abort, mutex,
                     lastGraph, seen, chunk, met, back, asked, done>>
    BY DEF Start, Goto, pool
<1>2. Types /\ LocalOK(t) /\ Loc(t) = "start" /\ nGraph > 0 /\ nThreadsCur = asked /\ (t # 0 => lastGraph[t] = nGraph)
      /\ pc[t] \in {"start", "loop", "product", "next"}
    BY <1>1, TakesPart DEF IndInv, Computing
<1>3. /\ chunk[t] \in Nat /\ back[t] \in {"none", "chunk", "next", "top", "return"} /\ currentChunk' \in Nat
      /\ nThreadsCur \in 0 .. NThreads /\ 0 \in 0 .. Last + 1 /\ Last \in Nat
    <2>1. Last \in Nat
        BY <1>2, Consts
    <2> QED BY <1>1, <1>2, <2>1 DEF Types
<1>4. chunk' = [chunk EXCEPT ![t] = chunk[t]] /\ back' = [back EXCEPT ![t] = back[t]]
    BY <1>1, <1>2 DEF Types
<1>5. pc'[t] = "loop" /\ nth'[t] = asked /\ node'[t] = 0
    BY <1>1, <1>2 DEF Types
<1>6. Loc(t)' = "loop"
    BY <1>5 DEF Loc
<1>7. LocalOK(t)'
    BY <1>1, <1>2, <1>5, <1>6 DEF LocalOK, AtBarrier
<1>8. Seg(t) = SegAt(0) /\ Seg(t)' = SegAt(0)'
    BY <1>2, <1>5, <1>6 DEF Seg, AtBarrier, Waiting, Calling
<1>9. Seg(t)' = Seg(t)
    BY <1>1, <1>8 DEF SegAt
<1>10. Past(t)' = Past(t)
    BY <1>2, <1>3, <1>5, <1>6 DEF Past, AtBarrier
<1>11. nth' = [nth EXCEPT ![t] = nThreadsCur] /\ node' = [node EXCEPT ![t] = 0] /\ currentChunk' = currentChunk
       /\ pc' = [pc EXCEPT ![t] = "loop"] /\ "loop" # "barrier"
    BY <1>1
<1>12. UNCHANGED <<nThreadsCur, nGraph, nBarrier, nPassed, stop, pause, abort, mutex, lastGraph, seen, met, asked, done>>
    BY <1>1
<1> QED
    BY <1>2, <1>3, <1>4, <1>7, <1>9, <1>10, <1>11, <1>12, PlainStep

LEMMA EnterStep ==
    ASSUME IndInv, NEW t \in Threads, Enter(t)
    PROVE  IndInv'
<1>1. /\ pc[t] = "loop" /\ node[t] <= Last /\ abort # node[t]
      /\ pc' = [pc EXCEPT ![t] = IF Kind(node[t]) = "rows" THEN "rows" ELSE "product"]
      /\ UNCHANGED <<nThreadsCur, nGraph, nBarrier, nPassed, currentChunk, stop, pause, abort, mutex>>
      /\ UNCHANGED <<lastGraph, seen, nth, node, chunk, met, back, asked, done>>
    BY DEF Enter, Goto, pool, local
<1>2. Types /\ LocalOK(t) /\ Loc(t) = "loop" /\ pc[t] \in {"start", "loop", "product", "next"}
    BY <1>1, TakesPart DEF IndInv, Computing
<1>3. /\ chunk[t] \in Nat /\ back[t] \in {"none", "chunk", "next", "top", "return"} /\ currentChunk' \in Nat
      /\ nth[t] \in 0 .. NThreads /\ node[t] \in 0 .. Last + 1 /\ Last \in Nat
    BY <1>1, <1>2, Consts DEF Types
<1>4. chunk' = [chunk EXCEPT ![t] = chunk[t]] /\ back' = [back EXCEPT ![t] = back[t]]
      /\ nth' = [nth EXCEPT ![t] = nth[t]] /\ node' = [node EXCEPT ![t] = node[t]]
    BY <1>1, <1>2 DEF Types
<1>5. PICK l \in {"rows", "product"} : l = IF Kind(node[t]) = "rows" THEN "rows" ELSE "product"
    OBVIOUS
<1>6. pc' = [pc EXCEPT ![t] = l] /\ pc'[t] = l /\ l \in {"loop", "rows", "product", "barrier"} /\ l # "barrier"
    BY <1>1, <1>2, <1>5 DEF Types
<1>7. Loc(t)' = l
    BY <1>6 DEF Loc
<1>8. LocalOK(t)'
    BY <1>1, <1>2, <1>5, <1>6, <1>7 DEF LocalOK, AtBarrier, Computing
<1>9. Seg(t) = SegAt(node[t]) /\ Seg(t)' = IF l = "product" THEN <<node[t], "chunk">> ELSE <<node[t], "next">>
    BY <1>1, <1>2, <1>5, <1>7 DEF Seg, AtBarrier, Waiting, Calling
<1>10. Seg(t)' = Seg(t)
    BY <1>1, <1>3, <1>5, <1>9 DEF SegAt
<1>11. Past(t)' = Past(t)
    BY <1>1, <1>2, <1>3, <1>5, <1>7 DEF Past, AtBarrier
<1>12. UNCHANGED <<nThreadsCur, nGraph, nBarrier, nPassed, stop, pause, abort, mutex, lastGraph, seen, met, asked, done>>
       /\ currentChunk' = currentChunk
    BY <1>1
<1> QED
    BY <1>2, <1>3, <1>4, <1>6, <1>8, <1>10, <1>11, <1>12, PlainStep

LEMMA EndOfGraphStep ==
    ASSUME IndInv, NEW t \in Threads, EndOfGraph(t)
    PROVE  IndInv'
<1>1. /\ pc[t] = "loop" /\ (node[t] > Last \/ abort = node[t])
      /\ pc' = [pc EXCEPT ![t] = "barrier"]
      /\ back' = [back EXCEPT ![t] = IF t = 0 THEN "return" ELSE "top"]
      /\ UNCHANGED <<nThreadsCur, nGraph, nBarrier, nPassed, currentChunk, stop, pause, abort, mutex>>
      /\ UNCHANGED <<lastGraph, seen, nth, node, chunk, met, asked, done>>
    BY DEF EndOfGraph, Meet, Goto, pool
<1>2. Types /\ LocalOK(t) /\ Loc(t) = "loop" /\ pc[t] \in {"start", "loop", "product", "next"}
    BY <1>1, TakesPart DEF IndInv, Computing
<1>3. /\ chunk[t] \in Nat /\ currentChunk' \in Nat
      /\ nth[t] \in 0 .. NThreads /\ node[t] \in 0 .. Last + 1 /\ Last \in Nat
    BY <1>1, <1>2, Consts DEF Types
<1>4. chunk' = [chunk EXCEPT ![t] = chunk[t]]
      /\ nth' = [nth EXCEPT ![t] = nth[t]] /\ node' = [node EXCEPT ![t] = node[t]]
    BY <1>1, <1>2 DEF Types
<1>5. PICK b \in {"none", "chunk", "next", "top", "return"} : b = IF t = 0 THEN "return" ELSE "top"
    OBVIOUS
<1>6. back' = [back EXCEPT ![t] = b] /\ back'[t] = b /\ pc'[t] = "barrier"
    BY <1>1, <1>2, <1>5 DEF Types
<1>7. Loc(t)' = "barrier"
    BY <1>6 DEF Loc
<1>8. LocalOK(t)'
    BY <1>1, <1>2, <1>5, <1>6, <1>7 DEF LocalOK, AtBarrier, Computing
<1>9. Seg(t) = SegAt(node[t]) /\ Seg(t)' = SegAt(node[t])'
    BY <1>1, <1>2, <1>5, <1>6, <1>7 DEF Seg, AtBarrier, Waiting, Calling
<1>10. Seg(t)' = Seg(t)
    BY <1>1, <1>9 DEF SegAt
<1>11. node[t] > Last \/ Seg(t)[2] = "abort"
    BY <1>1, <1>3, <1>9 DEF SegAt
<1>12. Seg(t)[2] = "next" => Past(t)' = Past(t)
    BY <1>2, <1>7, <1>11 DEF Past, AtBarrier
<1>13. Seg(t)[2] # "chunk"
    BY <1>1, <1>3, <1>9 DEF SegAt
<1>14. UNCHANGED <<nThreadsCur, nGraph, nBarrier, nPassed, stop, pause, abort, mutex, lastGraph, seen, met, asked, done>>
       /\ currentChunk' = currentChunk
    BY <1>1
<1> QED
    BY <1>1, <1>2, <1>3, <1>4, <1>6, <1>8, <1>10, <1>12, <1>13, <1>14, PlainStep

LEMMA ProductStep ==
    ASSUME IndInv, NEW t \in Threads, Product(t)
    PROVE  IndInv'
<1>1. /\ pc[t] = "product" /\ pc' = [pc EXCEPT ![t] = "barrier"]
      /\ back' = [back EXCEPT ![t] = "chunk"] /\ chunk' = [chunk EXCEPT ![t] = t]
      /\ currentChunk' = IF t = 0 THEN nth[t] ELSE currentChunk
      /\ UNCHANGED <<nThreadsCur, nGraph, nBarrier, nPassed, stop, pause, abort, mutex,
                     lastGraph, seen, nth, node, met, asked, done>>
    BY DEF Product, Meet, Goto
<1>2. Types /\ LocalOK(t) /\ Loc(t) = "product" /\ pc[t] \in {"start", "loop", "product", "next"} /\ t \in Used
    BY <1>1, TakesPart DEF IndInv, Computing
<1>3. /\ nth[t] = asked /\ asked \in Nat /\ t \in Nat /\ currentChunk \in Nat /\ node[t] \in 0 .. Last
      /\ nth[t] \in 0 .. NThreads /\ node[t] \in 0 .. Last + 1 /\ Last \in Nat /\ Kind(node[t]) # "rows"
    <2>1. asked \in Nat /\ t \in Nat /\ Last \in Nat /\ t \in Threads
        BY <1>2, Consts
    <2>2. currentChunk \in Nat /\ nth[t] \in 0 .. NThreads /\ node[t] \in 0 .. Last + 1
        BY <1>2, <2>1 DEF Types
    <2>3. nth[t] = asked /\ node[t] <= Last /\ Kind(node[t]) # "rows"
        BY <1>2 DEF LocalOK, Computing
    <2> QED BY <2>1, <2>2, <2>3
<1>4. nth' = [nth EXCEPT ![t] = nth[t]] /\ node' = [node EXCEPT ![t] = node[t]]
    BY <1>1, <1>2 DEF Types
<1>5. back'[t] = "chunk" /\ pc'[t] = "barrier" /\ chunk'[t] = t /\ currentChunk' \in Nat
    BY <1>1, <1>2, <1>3 DEF Types
<1>6. Loc(t)' = "barrier"
    BY <1>5 DEF Loc
<1>7. LocalOK(t)'
    BY <1>1, <1>2, <1>5, <1>6 DEF LocalOK, AtBarrier, Computing
<1>8. Seg(t) = <<node[t], "chunk">> /\ Seg(t)' = <<node[t], "chunk">>
    BY <1>1, <1>2, <1>5, <1>6 DEF Seg, AtBarrier, Waiting, Calling
<1>9. t = 0 => currentChunk' = asked
    BY <1>1, <1>3
<1> QED
    <2>1. Seg(t)' = Seg(t) /\ Seg(t)[2] = "chunk"
        BY <1>8
    <2>2. UNCHANGED <<nThreadsCur, nGraph, nBarrier, nPassed, stop, pause, abort, mutex,
                     lastGraph, seen, met, asked, done>>
          /\ (t # 0 => currentChunk' = currentChunk)
        BY <1>1
    <2> QED BY <1>1, <1>2, <1>3, <1>4, <1>5, <1>7, <1>9, <2>1, <2>2, PlainStep

LEMMA NextNodeStep ==
    ASSUME IndInv, NEW t \in Threads, NextNode(t)
    PROVE  IndInv'
<1>1. /\ pc[t] = "next" /\ pc' = [pc EXCEPT ![t] = "loop"] /\ node' = [node EXCEPT ![t] = @ + 1]
      /\ UNCHANGED <<nThreadsCur, nGraph, nBarrier, nPassed, currentChunk, stop, pause, abort, mutex>>
      /\ UNCHANGED <<lastGraph, seen, nth, chunk, met, back, asked, done>>
    BY DEF NextNode, Goto, pool
<1>2. Types /\ LocalOK(t) /\ Loc(t) = "next" /\ pc[t] \in {"start", "loop", "product", "next"}
    BY <1>1, TakesPart DEF IndInv, Computing
<1>3. /\ chunk[t] \in Nat /\ back[t] \in {"none", "chunk", "next", "top", "return"} /\ currentChunk' \in Nat
      /\ nth[t] \in 0 .. NThreads /\ node[t] \in 0 .. Last + 1 /\ Last \in Nat /\ node[t] < Last
    BY <1>1, <1>2, Consts DEF Types, LocalOK
<1>4. chunk' = [chunk EXCEPT ![t] = chunk[t]] /\ back' = [back EXCEPT ![t] = back[t]]
      /\ nth' = [nth EXCEPT ![t] = nth[t]]
    BY <1>1, <1>2 DEF Types
<1>5. PICK m \in 0 .. Last + 1 : m = node[t] + 1
    BY <1>3
<1>6. pc'[t] = "loop" /\ node' = [node EXCEPT ![t] = m] /\ node'[t] = m /\ m <= Last
    BY <1>1, <1>2, <1>3, <1>5 DEF Types
<1>7. Loc(t)' = "loop"
    BY <1>6 DEF Loc
<1>8. LocalOK(t)'
    BY <1>1, <1>2, <1>6, <1>7 DEF LocalOK, AtBarrier, Computing
<1>9. Seg(t) = SegAt(m) /\ Seg(t)' = SegAt(m)'
    BY <1>2, <1>5, <1>6, <1>7 DEF Seg, AtBarrier, Waiting, Calling
<1>10. Seg(t)' = Seg(t)
    BY <1>1, <1>9 DEF SegAt
<1>11. Past(t)' = Past(t)
    BY <1>2, <1>3, <1>6, <1>7 DEF Past, AtBarrier
<1>12. UNCHANGED <<nThreadsCur, nGraph, nBarrier, nPassed, stop, pause, abort, mutex, lastGraph, seen, met, asked, done>>
       /\ currentChunk' = currentChunk /\ "loop" # "barrier" /\ pc' = [pc EXCEPT ![t] = "loop"]
    BY <1>1
<1> QED
    BY <1>2, <1>3, <1>4, <1>6, <1>8, <1>10, <1>11, <1>12, PlainStep

-----------------------------------------------------------------------------
(* The barrier.                                                            *)

\* A step within ggml_barrier().
LEMMA InBarrierStep ==
    ASSUME IndInv, NEW t \in Threads, pc[t] \in {"barrier", "arrive", "last"},
           NEW l \in {"arrive", "last", "spin", "release"}, pc' = [pc EXCEPT ![t] = l],
           UNCHANGED <<nThreadsCur, nGraph, nPassed, currentChunk, stop, pause, abort, mutex>>,
           UNCHANGED <<lastGraph, seen, nth, node, chunk, back, asked, done>>,
           NEW m \in [threads : Nat, passed : Nat], met' = [met EXCEPT ![t] = m],
           l = "spin" => m.passed = nPassed,
           BarrierOK'
    PROVE  IndInv'
<1>1. pc[t] \in Computing \cup {"spin"} /\ l \in Computing \cup {"spin", IF t = 0 THEN "return" ELSE "top"}
    BY DEF Computing
<1>2. t \in Used /\ Types /\ LocalOK(t) /\ Loc(t) = pc[t]
    BY <1>1, TakesPart DEF IndInv
<1>3. /\ nth' \in [Threads -> 0 .. NThreads] /\ node' \in [Threads -> 0 .. Last + 1]
      /\ chunk' \in [Threads -> Nat] /\ met' \in [Threads -> [threads : Nat, passed : Nat]]
      /\ back' \in [Threads -> {"none", "chunk", "next", "top", "return"}] /\ currentChunk' \in Nat
      /\ done' \in [0 .. Last -> SUBSET Int] /\ nPassed' \in Nat /\ abort' \in -1 .. Last + 1
    BY <1>2 DEF Types
<1>4. Types' /\ PoolOK' /\ Used' = Used /\ pc'[t] = l
    BY <1>1, <1>3, ComputeTypes
<1>5. /\ met'[t] = m
      /\ \A u \in Threads : u # t =>
               /\ met'[u] = met[u] /\ back'[u] = back[u] /\ node'[u] = node[u] /\ lastGraph'[u] = lastGraph[u]
               /\ nth'[u] = nth[u] /\ seen'[u] = seen[u] /\ chunk'[u] = chunk[u]
    BY <1>2 DEF Types
<1>6. Loc(t)' = l /\ l \in AtBarrier /\ Loc(t) \in AtBarrier
    BY <1>2, <1>4, <1>5 DEF Loc, AtBarrier
<1>7. LocalOK(t)'
    BY <1>2, <1>4, <1>6 DEF LocalOK, AtBarrier, Computing
<1>8. \A k : SegAt(k)' = SegAt(k)
    BY DEF SegAt
<1>9. Seg(t)' = Seg(t)
    <2>1. \A x \in AtBarrier : x \notin Waiting /\ x \notin Calling \ {"wake"} /\ x \notin {"wake", "start"}
                               /\ x # "loop" /\ x # "next" /\ x # "product"
        BY DEF Waiting, Calling, AtBarrier
    <2> QED BY <1>6, <1>8, <2>1 DEF Seg
<1>10. Past(t) /\ Past(t)'
    BY <1>6 DEF Past
<1>11. Past(t)' = Past(t)
    BY <1>6 DEF Past
<1>12. /\ Loc(t)' # "chunk" /\ Loc(t) # "chunk" /\ Loc(t)' # "computed"
       /\ t = 0 => Loc(0)' # "computed" /\ Loc(0)' # "return" /\ Loc(0)' \notin {"kickoff", "announce"}
    BY <1>6 DEF AtBarrier
<1>13. Seg(t)[2] = "chunk" => chunk'[t] = t /\ (t = 0 => currentChunk' = asked)
    <2>1. Work(Seg(t)) /\ 0 \in Threads
        BY <1>1, <1>2, Consts, TakesPart
    <2> QED BY <1>2, <1>6, <2>1 DEF Work
<1> QED
    BY <1>2, <1>4, <1>5, <1>7, <1>9, <1>11, <1>12, <1>13, ThreadStep

LEMMA ResetStep ==
    ASSUME IndInv, NEW t \in Threads, ResetBarrier(t)
    PROVE  IndInv'
<1>1. /\ pc[t] = "last" /\ pc' = [pc EXCEPT ![t] = "release"] /\ nBarrier' = 0
      /\ UNCHANGED <<nThreadsCur, nGraph, nPassed, currentChunk, stop, pause, abort, mutex>>
      /\ UNCHANGED <<lastGraph, seen, nth, node, chunk, met, back, asked, done>>
    BY DEF ResetBarrier, Goto, local
<1>2. Types /\ BarrierOK /\ t \in Used /\ \A u \in Used : u \in Threads
    BY <1>1, TakesPart, Consts DEF IndInv, Computing
<1>3. pc'[t] = "release" /\ \A u \in Threads : u # t => pc'[u] = pc[u]
    BY <1>1, <1>2 DEF Types
<1>4. \A u \in Used : u # t => pc[u] = "spin" /\ met[u].passed = nPassed
    BY <1>1, <1>2 DEF BarrierOK
<1>5. met[t].threads = asked /\ met[t].passed = nPassed /\ Used' = Used
    BY <1>1, <1>2 DEF BarrierOK, Used
<1>6. BarrierOK'
    <2>1. \A u \in Used : pc'[u] \in {"arrive", "last", "release"} => u = t
        BY <1>2, <1>3, <1>4
    <2>2. \A u \in Used : u # t => pc'[u] = "spin" /\ met'[u].passed = nPassed
        BY <1>1, <1>2, <1>3, <1>4
    <2>3. nPassed \in Nat /\ met' = met /\ nPassed' = nPassed
        BY <1>1, <1>2 DEF Types
    <2> QED BY <1>1, <1>2, <1>3, <1>5, <2>1, <2>2, <2>3 DEF BarrierOK
<1>7. met[t] \in [threads : Nat, passed : Nat] /\ met' = [met EXCEPT ![t] = met[t]]
    BY <1>1, <1>2 DEF Types
<1> QED
    BY <1>1, <1>6, <1>7, InBarrierStep

LEMMA ArriveStep ==
    ASSUME IndInv, NEW t \in Threads, Arrive(t)
    PROVE  IndInv'
<1>1. /\ pc[t] = "arrive" /\ nBarrier' = nBarrier + 1
      /\ pc' = [pc EXCEPT ![t] = IF nBarrier = met[t].threads - 1 THEN "last" ELSE "spin"]
      /\ UNCHANGED <<nThreadsCur, nGraph, nPassed, currentChunk, stop, pause, abort, mutex>>
      /\ UNCHANGED <<lastGraph, seen, nth, node, chunk, met, back, asked, done>>
    BY DEF Arrive, Goto, local
<1>2. Types /\ BarrierOK /\ t \in Used /\ \A u \in Used : u \in Threads
    BY <1>1, TakesPart, Consts DEF IndInv, Computing
<1>3. PICK l \in {"last", "spin"} : l = IF nBarrier = met[t].threads - 1 THEN "last" ELSE "spin"
    OBVIOUS
<1>4. pc' = [pc EXCEPT ![t] = l] /\ pc'[t] = l /\ \A u \in Threads : u # t => pc'[u] = pc[u]
    BY <1>1, <1>2, <1>3 DEF Types
<1>5. met[t].threads = asked /\ met[t].passed = nPassed /\ Used' = Used /\ nPassed \in Nat
      /\ asked \in Nat /\ asked >= 1 /\ t \in Nat /\ t < asked
    BY <1>1, <1>2, Consts DEF BarrierOK, Used, Types
<1>6. \A u \in Used : pc[u] \notin {"last", "release"}
    BY <1>1, <1>2 DEF BarrierOK
<1>7. nBarrier = Cardinality(Gathered)
    BY <1>2, <1>6 DEF BarrierOK
<1>8. t \notin Gathered /\ Gathered \subseteq Used \ {t}
    BY <1>1 DEF Gathered, Arrived
<1>9. IsFiniteSet(Used) /\ Cardinality(Used) = asked
    <2>1. IsFiniteSet(0 .. asked - 1) /\ Cardinality(0 .. asked - 1) = IF 0 > asked - 1 THEN 0 ELSE (asked - 1) - 0 + 1
        <3>1. 0 \in Int /\ asked - 1 \in Int
            BY <1>5
        <3> QED BY ONLY <3>1, FS_Interval, Zenon
    <2> QED BY <1>5, <2>1 DEF Used
<1>10. IsFiniteSet(Used \ {t}) /\ Cardinality(Used \ {t}) = asked - 1
    BY <1>2, <1>9, FS_RemoveElement
<1>11. IsFiniteSet(Gathered) /\ Cardinality(Gathered) \in Nat
    BY <1>8, <1>10, FS_Subset, FS_CardinalityType
<1>12. Cardinality(Gathered \cup {t}) = Cardinality(Gathered) + 1
    BY <1>8, <1>11, FS_AddElement
<1>13. Gathered' = Gathered \cup {t}
    <2>1. \A u \in Used : u # t => Arrived(u)' = Arrived(u)
        BY <1>1, <1>2, <1>4 DEF Arrived
    <2>2. Arrived(t)'
        BY <1>1, <1>4, <1>5 DEF Arrived
    <2> QED BY <1>2, <1>5, <2>1, <2>2 DEF Gathered
<1>14. l = "last" => \A u \in Used : u # t => pc[u] = "spin" /\ met[u].passed = nPassed
    <2> SUFFICES ASSUME l = "last", NEW u \in Used, u # t
                 PROVE  pc[u] = "spin" /\ met[u].passed = nPassed
        OBVIOUS
    <2>1. Cardinality(Gathered) = Cardinality(Used \ {t})
        BY <1>3, <1>5, <1>7, <1>10
    <2>2. Gathered = Used \ {t}
        BY <1>8, <1>10, <2>1, FS_Subset
    <2> QED BY <1>6, <2>2 DEF Gathered, Arrived
<1>15. BarrierOK'
    <2>1. \A u \in Used : pc'[u] \in {"arrive", "last", "release"} => met[u].threads = asked /\ met[u].passed = nPassed
        BY <1>2, <1>4, <1>5 DEF BarrierOK
    <2>2. \A u \in Used : pc'[u] = "spin" => met[u].passed \in {nPassed, nPassed - 1}
        BY <1>2, <1>4, <1>5 DEF BarrierOK
    <2>3. \A u, v \in Used : pc'[u] \in {"last", "release"} /\ v # u => pc'[v] = "spin" /\ met[v].passed = nPassed
        BY <1>2, <1>4, <1>6, <1>14
    <2>4. ~ \E u \in Used : pc'[u] = "release"
        BY <1>2, <1>4, <1>6
    <2>5. nBarrier' = Cardinality(Gathered')
        BY <1>1, <1>7, <1>12, <1>13
    <2>6. nBarrier' = IF \E u \in Used : pc'[u] = "release" THEN 0 ELSE Cardinality(Gathered')
        BY <2>4, <2>5
    <2> QED BY <1>1, <1>5, <2>1, <2>2, <2>3, <2>6 DEF BarrierOK
<1>16. met[t] \in [threads : Nat, passed : Nat] /\ met' = [met EXCEPT ![t] = met[t]]
    BY <1>1, <1>2 DEF Types
<1> QED
    BY <1>1, <1>4, <1>5, <1>15, <1>16, InBarrierStep

\* A thread that is not alone.
LEMMA BarrierManyStep ==
    ASSUME IndInv, NEW t \in Threads, Barrier(t), nThreadsCur # 1
    PROVE  IndInv'
<1>1. /\ pc[t] = "barrier" /\ pc' = [pc EXCEPT ![t] = "arrive"]
      /\ met' = [met EXCEPT ![t] = [threads |-> nThreadsCur, passed |-> nPassed]]
      /\ UNCHANGED <<nThreadsCur, nGraph, nPassed, currentChunk, stop, pause, abort, mutex>>
      /\ UNCHANGED <<lastGraph, seen, nth, node, chunk, back, asked, done>> /\ nBarrier' = nBarrier
    BY DEF Barrier, Goto, pool
<1>2. Types /\ BarrierOK /\ t \in Used /\ nThreadsCur = asked /\ \A u \in Used : u \in Threads
    BY <1>1, TakesPart, Consts DEF IndInv, Computing
<1>3. PICK m \in [threads : Nat, passed : Nat] : m = [threads |-> nThreadsCur, passed |-> nPassed]
    <2>1. nThreadsCur \in Nat /\ nPassed \in Nat
        BY <1>2, Consts DEF Types
    <2>2. [threads |-> nThreadsCur, passed |-> nPassed] \in [threads : Nat, passed : Nat]
        BY <2>1
    <2> QED BY <2>2
<1>4. pc'[t] = "arrive" /\ met'[t] = m /\ \A u \in Threads : u # t => pc'[u] = pc[u] /\ met'[u] = met[u]
    BY <1>1, <1>2, <1>3 DEF Types
<1>5. m.threads = asked /\ m.passed = nPassed /\ met' = [met EXCEPT ![t] = m] /\ Used' = Used
    BY <1>1, <1>2, <1>3 DEF Used
<1>6. \A u \in Used : pc[u] \notin {"last", "release"} /\ pc'[u] \notin {"last", "release"}
    BY <1>1, <1>2, <1>4 DEF BarrierOK
<1>7. Gathered' = Gathered
    <2>1. \A u \in Used : u # t => Arrived(u)' = Arrived(u)
        BY <1>1, <1>2, <1>4 DEF Arrived
    <2>2. ~ Arrived(t)' /\ ~ Arrived(t)
        BY <1>1, <1>4 DEF Arrived
    <2> QED BY <1>5, <2>1, <2>2 DEF Gathered
<1>8. BarrierOK'
    <2>1. \A u \in Used : pc'[u] \in {"arrive", "last", "release"} => met'[u].threads = asked /\ met'[u].passed = nPassed
        BY <1>2, <1>4, <1>5 DEF BarrierOK
    <2>2. \A u \in Used : pc'[u] = "spin" => met'[u].passed \in {nPassed, nPassed - 1}
        BY <1>2, <1>4, <1>5 DEF BarrierOK
    <2>3. ~ (\E u \in Used : pc'[u] = "release") /\ ~ \E u \in Used : pc[u] = "release"
        BY <1>6
    <2>4. nBarrier' = Cardinality(Gathered')
        BY <1>1, <1>2, <1>7, <2>3 DEF BarrierOK
    <2>5. nBarrier' = IF \E u \in Used : pc'[u] = "release" THEN 0 ELSE Cardinality(Gathered')
        BY <2>3, <2>4
    <2> QED BY <1>1, <1>5, <1>6, <2>1, <2>2, <2>5 DEF BarrierOK
<1> QED
    BY <1>1, <1>5, <1>8, InBarrierStep

-----------------------------------------------------------------------------
(* Computing a node.                                                       *)

\* Where threads are in the segment that ends with the barrier after node k.
LEMMA NextSeg ==
    ASSUME Types, NEW t \in Used, LocalOK(t), NEW k \in 0 .. Last, Seg(t) = <<k, "next">>
    PROVE  \/ Past(t)
           \/ Loc(t) = "chunk" /\ node[t] = k /\ Kind(k) # "rows"
           \/ Kind(k) = "rows" /\ Loc(t) # "chunk"
<1>1. /\ Last \in Nat /\ node[t] \in 0 .. Last + 1
      /\ Loc(t) \in Waiting \cup Calling \cup Computing \cup {"spin"}
    BY Consts, SegIs DEF Types
<1>2. \A j \in 0 .. Last + 1 : SegAt(j) = <<k, "next">> => j > Last \/ (j = k /\ Kind(k) = "rows")
    BY <1>1 DEF SegAt
<1>3. CASE Loc(t) \in AtBarrier \/ Loc(t) = "computed"
    BY <1>3 DEF Past
<1>4. CASE Loc(t) \in Waiting \/ Loc(t) \in Calling \/ Loc(t) = "start"
    <2>1. Seg(t) \in {Done, SegAt(0)}
        BY <1>4 DEF Seg, Waiting, Calling
    <2>2. Seg(t) # Done
        BY <1>1 DEF Done
    <2>3. 0 \in 0 .. Last + 1 /\ ~ (0 > Last) /\ Loc(t) # "chunk"
        BY <1>1, <1>4 DEF Waiting, Calling
    <2> QED BY <1>2, <2>1, <2>2, <2>3
<1>5. CASE Loc(t) = "loop"
    <2>1. Seg(t) = SegAt(node[t])
        BY <1>5 DEF Seg, Waiting, Calling
    <2> QED BY <1>1, <1>2, <1>5, <2>1 DEF Past
<1>6. CASE Loc(t) = "next"
    <2>1. Seg(t) = SegAt(node[t] + 1)
        BY <1>6 DEF Seg, Waiting, Calling, AtBarrier
    <2>2. node[t] + 1 \in 0 .. Last + 1 /\ ~ (node[t] + 1 > Last)
        BY <1>1, <1>6 DEF LocalOK
    <2> QED BY <1>2, <1>6, <2>1, <2>2
<1>7. CASE Loc(t) \in {"product", "rows", "chunk"}
    BY <1>7 DEF Seg, LocalOK, Waiting, Calling, AtBarrier
<1> QED BY <1>1, <1>3, <1>4, <1>5, <1>6, <1>7 DEF Computing, AtBarrier

\* A step of one thread there.
LEMMA NextStep ==
    ASSUME IndInv, Types', PoolOK', BarrierOK',
           NEW t \in Used, NEW l, pc' = [pc EXCEPT ![t] = l], NEW k \in 0 .. Last,
           UNCHANGED <<nPassed, nGraph, asked>>,
           \A u \in Threads : u # t =>
               /\ met'[u] = met[u] /\ back'[u] = back[u] /\ node'[u] = node[u] /\ lastGraph'[u] = lastGraph[u]
               /\ nth'[u] = nth[u] /\ seen'[u] = seen[u],
           Seg(t) = <<k, "next">>, Seg(t)' = <<k, "next">>, LocalOK(t)',
           \A j \in 0 .. Last : j # k => done'[j] = done[j],
           abort' = abort \/ (t = 0 /\ abort' = k + 1),
           t = 0 => abort' = -1 \/ (abort' = k + 1 /\ Past(0)' /\ Loc(0)' # "computed"),
           Progress(k)'
    PROVE  IndInv'
<1>1. Types /\ PoolOK /\ SameSegment /\ Work(Seg(0)) /\ \A u \in Used : LocalOK(u)
    BY DEF IndInv
<1>2. /\ Used' = Used /\ 0 \in Used /\ \A u \in Used : u \in Threads
      /\ Last \in Nat
    BY <1>1, Consts DEF Used
<1>3. \A u \in Used : Seg(u) = <<k, "next">>
    BY <1>1 DEF SameSegment
<1>4. \A u \in Used : u # t => pc'[u] = pc[u] /\ Loc(u)' = Loc(u) /\ Past(u)' = Past(u)
    <2>1. \A u \in Used : u # t => pc'[u] = pc[u]
        BY <1>1, <1>2 DEF Types
    <2>2. \A u \in Used : u # t => Loc(u)' = Loc(u)
        BY <1>2, <2>1 DEF Loc
    <2> QED BY <1>2, <2>1, <2>2 DEF Past
<1>5. \A j \in 0 .. Last + 1 : SegAt(j) = <<k, "next">> =>
          SegAt(j)' = <<k, "next">> /\ (j > Last \/ abort # j)
    BY <1>2 DEF SegAt
<1>6. ASSUME NEW u \in Used, u # t
      PROVE  Seg(u)' = <<k, "next">> /\ LocalOK(u)'
    <2>1. /\ LocalOK(u) /\ Seg(u) = <<k, "next">> /\ node[u] \in 0 .. Last + 1 /\ 0 \in 0 .. Last + 1
          /\ u \in Threads
        BY <1>1, <1>2, <1>3 DEF Types
    <2>2. Loc(u) = "next" => node[u] + 1 \in 0 .. Last + 1
        BY <1>2, <2>1 DEF LocalOK
    <2>3. back'[u] = back[u] /\ node'[u] = node[u] /\ lastGraph'[u] = lastGraph[u]
          /\ nth'[u] = nth[u] /\ seen'[u] = seen[u] /\ Loc(u)' = Loc(u) /\ pc'[u] = pc[u]
        BY <1>4, <1>6, <2>1
    <2>4. Seg(u)' = <<k, "next">>
        <3>1. CASE Loc(u) \in Waiting
            BY <1>5, <2>1, <2>3, <3>1 DEF Seg, Done
        <3>2. CASE Loc(u) \notin Waiting
            BY <1>5, <2>1, <2>2, <2>3, <3>2 DEF Seg, Done
        <3> QED BY <3>1, <3>2
    <2>5. Loc(u) \in AtBarrier /\ back[u] \in {"top", "return"} => node[u] > Last
        <3> SUFFICES ASSUME Loc(u) \in AtBarrier /\ back[u] \in {"top", "return"} PROVE node[u] > Last
            OBVIOUS
        <3>1. Seg(u) = SegAt(node[u])
            BY DEF Seg, AtBarrier, Waiting, Calling
        <3> QED BY <1>5, <2>1, <3>1 DEF LocalOK
    <2>6. LocalOK(u)'
        BY <2>1, <2>3, <2>5 DEF LocalOK
    <2> QED BY <2>4, <2>6
<1>7. SameSegment' /\ \A u \in Used : LocalOK(u)'
    BY <1>2, <1>6 DEF SameSegment
<1>8. Work(<<k, "next">>)
    BY <1>1, <1>2, <1>3
<1>9. Computes(k)'
    <2>1. Computes(k)
        BY <1>2, <1>8 DEF Work, Done
    <2> QED BY <1>2, <2>1 DEF Computes, Full
<1>10. abort' = -1 \/ (abort' = k + 1 /\ Past(0)' /\ Loc(0)' # "computed")
    <2>1. CASE t = 0
        BY <2>1
    <2>2. CASE t # 0
        <3>1. abort' = abort /\ Past(0)' = Past(0) /\ Loc(0)' = Loc(0)
            BY <1>2, <1>4, <2>2
        <3> QED BY <1>8, <3>1 DEF Work
    <2> QED BY <2>1, <2>2
<1>11. Seg(0)' = <<k, "next">>
    BY <1>2, <1>6
<1>12. Work(Seg(0))'
    <2>1. PICK s : s = <<k, "next">> /\ s = Seg(0)'
        BY <1>11
    <2>2. s # Done' /\ s[1] = k /\ s[2] = "next"
        BY <1>2, <2>1 DEF Done
    <2> QED BY <1>9, <1>10, <2>1, <2>2 DEF Work
<1> QED BY <1>2, <1>7, <1>12 DEF IndInv

\* What the other threads are bound to do stays.
LEMMA OthersBound ==
    ASSUME Types, NEW t \in Threads, NEW l, pc' = [pc EXCEPT ![t] = l], nPassed' = nPassed,
           NEW u \in Threads, u # t,
           met'[u] = met[u], back'[u] = back[u], node'[u] = node[u], chunk'[u] = chunk[u]
    PROVE  Loc(u)' = Loc(u) /\ Past(u)' = Past(u) /\ \A p : Bound(u, p)' = Bound(u, p)
<1>1. pc'[u] = pc[u]
    BY DEF Types
<1>2. Loc(u)' = Loc(u)
    BY <1>1 DEF Loc
<1>3. Past(u)' = Past(u)
    BY <1>2 DEF Past
<1> QED BY <1>2, <1>3 DEF Bound

LEMMA ComputedStep ==
    ASSUME IndInv, NEW t \in Threads, Computed(t)
    PROVE  IndInv'
<1>1. /\ pc[t] = "computed" /\ abort' \in IF t = 0 THEN {abort, node[t] + 1} ELSE {abort}
      /\ UNCHANGED <<nThreadsCur, nGraph, nBarrier, nPassed, currentChunk, stop, pause, mutex>>
      /\ UNCHANGED <<lastGraph, seen, nth, chunk, met, asked, done>>
    BY DEF Computed
<1>2. PICK k \in 0 .. Last : k = node[t]
    <2>1. pc[t] \in Computing \cup {"spin"}
        BY <1>1 DEF Computing
    <2>2. t \in Used /\ LocalOK(t) /\ Types /\ Loc(t) = "computed"
        BY <1>1, <2>1, TakesPart DEF IndInv
    <2>3. Last \in Nat /\ node[t] \in 0 .. Last + 1
        BY <2>2, Consts DEF Types
    <2> QED BY <2>2, <2>3 DEF LocalOK
<1>3. PICK l \in {"barrier", "loop"}, b \in {"none", "chunk", "next", "top", "return"}, m \in 0 .. Last + 1 :
          /\ pc' = [pc EXCEPT ![t] = l] /\ back' = [back EXCEPT ![t] = b] /\ node' = [node EXCEPT ![t] = m]
          /\ IF k < Last THEN l = "barrier" /\ b = "next" /\ m = k ELSE l = "loop" /\ b = back[t] /\ m = k + 1
    <2>1. Types /\ Last \in Nat
        BY Consts DEF IndInv
    <2>5. back[t] \in {"none", "chunk", "next", "top", "return"}
        BY <2>1 DEF Types
    <2>6. k \in 0 .. Last + 1 /\ k + 1 \in 0 .. Last + 1
        BY <2>1
    <2>7. back = [back EXCEPT ![t] = back[t]] /\ node = [node EXCEPT ![t] = k]
        BY <1>2, <2>1 DEF Types
    <2>2. /\ back[t] \in {"none", "chunk", "next", "top", "return"} /\ k \in 0 .. Last + 1 /\ k + 1 \in 0 .. Last + 1
          /\ back = [back EXCEPT ![t] = back[t]] /\ node = [node EXCEPT ![t] = k]
        BY <2>5, <2>6, <2>7
    <2>3. CASE k < Last
        <3>1. pc' = [pc EXCEPT ![t] = "barrier"] /\ back' = [back EXCEPT ![t] = "next"] /\ node' = [node EXCEPT ![t] = k]
            BY <1>2, <2>2, <2>3 DEF Computed, Meet, Goto
        <3> QED BY <2>2, <2>3, <3>1
    <2>4. CASE ~ (k < Last)
        <3>1. pc' = [pc EXCEPT ![t] = "loop"] /\ back' = [back EXCEPT ![t] = back[t]]
              /\ node' = [node EXCEPT ![t] = k + 1]
            BY <1>2, <2>2, <2>4 DEF Computed, Goto
        <3> QED BY <2>2, <2>4, <3>1
    <2> QED BY <2>3, <2>4
<1>4. pc[t] \in Computing \cup {"spin"} /\ l \in Computing \cup {"spin", IF t = 0 THEN "return" ELSE "top"}
    BY <1>1 DEF Computing
<1>5. /\ t \in Used /\ Types /\ BarrierOK /\ LocalOK(t) /\ Loc(t) = "computed" /\ Work(Seg(t)) /\ Last \in Nat
      /\ nGraph > 0 /\ (t # 0 => lastGraph[t] = nGraph)
    BY <1>1, <1>4, TakesPart, Consts DEF IndInv
<1>6. /\ nth' \in [Threads -> 0 .. NThreads] /\ node' \in [Threads -> 0 .. Last + 1]
      /\ chunk' \in [Threads -> Nat] /\ met' \in [Threads -> [threads : Nat, passed : Nat]]
      /\ back' \in [Threads -> {"none", "chunk", "next", "top", "return"}] /\ currentChunk' \in Nat
      /\ done' \in [0 .. Last -> SUBSET Int] /\ nPassed' \in Nat /\ abort' \in -1 .. Last + 1
    <2>1. abort' \in -1 .. Last + 1
        BY <1>1, <1>2, <1>5 DEF Types
    <2> QED BY <1>1, <1>3, <1>5, <2>1 DEF Types
<1>7. Types' /\ PoolOK' /\ Used' = Used /\ pc'[t] = l
    BY <1>1, <1>3, <1>4, <1>6, ComputeTypes
<1>8. /\ node'[t] = m /\ back'[t] = b
      /\ \A u \in Threads : u # t =>
               /\ met'[u] = met[u] /\ back'[u] = back[u] /\ node'[u] = node[u] /\ lastGraph'[u] = lastGraph[u]
               /\ nth'[u] = nth[u] /\ seen'[u] = seen[u] /\ chunk'[u] = chunk[u]
    BY <1>1, <1>3, <1>5 DEF Types
<1>9. BarrierOK'
    BY <1>1, <1>3, <1>5, <1>8, BarrierStay
<1>10. Loc(t)' = l /\ l # "computed" /\ l # "chunk"
    BY <1>3, <1>7 DEF Loc
<1>11. Past(t) /\ Past(t)'
    BY <1>2, <1>3, <1>5, <1>8, <1>10 DEF Past, AtBarrier
<1>12. Seg(t) = <<k, "next">> /\ Seg(t)' = <<k, "next">>
    <2>1. Seg(t) = <<k, "next">>
        BY <1>2, <1>5 DEF Seg, AtBarrier, Waiting, Calling
    <2>2. CASE k < Last
        BY <1>3, <1>8, <1>10, <2>1, <2>2 DEF Seg, AtBarrier, Waiting, Calling
    <2>3. CASE ~ (k < Last)
        <3>1. Seg(t)' = SegAt(m)'
            BY <1>3, <1>8, <1>10, <2>3 DEF Seg, AtBarrier, Waiting, Calling
        <3> QED BY <1>2, <1>3, <1>5, <2>1, <2>3, <3>1 DEF SegAt
    <2> QED BY <2>1, <2>2, <2>3
<1>13. LocalOK(t)'
    BY <1>1, <1>2, <1>3, <1>5, <1>7, <1>8, <1>10 DEF LocalOK, AtBarrier, Computing
<1>14. Work(<<k, "next">>)
    BY <1>5, <1>12
<1>15. Progress(k)'
    <2>1. Progress(k)
        BY <1>14 DEF Work
    <2>2. \A u \in Used : u \in Threads
        BY <1>5, Consts
    <2>3. \A u \in Used : /\ Past(u)' <=> Past(u)
                          /\ Loc(u)' = "chunk" <=> Loc(u) = "chunk"
                          /\ chunk'[u] = chunk[u]
        BY <1>1, <1>3, <1>5, <1>8, <1>10, <1>11, <2>2, OthersBound
    <2>4. \A u \in Used : \A p : Bound(u, p)' <=> Bound(u, p)
        BY <2>3 DEF Bound
    <2>5. \A p : Unclaimed(k, p)' <=> Unclaimed(k, p)
        BY <1>1 DEF Unclaimed
    <2> QED BY <1>1, <1>7, <2>1, <2>3, <2>4, <2>5 DEF Progress
<1>16. t = 0 => abort' = -1 \/ (abort' = k + 1 /\ Past(0)' /\ Loc(0)' # "computed")
    BY <1>1, <1>2, <1>5, <1>10, <1>11, <1>14 DEF Work
<1>17. abort' = abort \/ (t = 0 /\ abort' = k + 1)
    BY <1>1, <1>2
<1>18. UNCHANGED <<nPassed, nGraph, asked>> /\ \A j \in 0 .. Last : j # k => done'[j] = done[j]
    BY <1>1
<1> QED
    BY <1>3, <1>5, <1>7, <1>8, <1>9, <1>12, <1>13, <1>15, <1>16, <1>17, <1>18, NextStep

\* A thread that has a part to compute.
LEMMA AtWork ==
    ASSUME IndInv, NEW t \in Threads, pc[t] \in {"rows", "chunk"}
    PROVE  /\ t \in Used /\ Types /\ LocalOK(t) /\ Loc(t) = pc[t] /\ Last \in Nat /\ asked \in Nat
           /\ node[t] \in 0 .. Last /\ Seg(t) = <<node[t], "next">> /\ Progress(node[t])
           /\ nth[t] = asked /\ (Kind(node[t]) = "rows" <=> pc[t] = "rows")
           /\ abort = -1 \/ (abort = node[t] + 1 /\ Past(0))
           /\ ~ Past(t)
           /\ \A u \in Used : Past(u) \/ Loc(u) = "chunk" \/ Kind(node[t]) = "rows"
<1>1. pc[t] \in Computing \cup {"spin"} /\ pc[t] # "spin"
    BY DEF Computing
<1>2. /\ t \in Used /\ Types /\ LocalOK(t) /\ Loc(t) = pc[t] /\ Work(Seg(t)) /\ SameSegment
      /\ \A u \in Used : LocalOK(u)
    BY <1>1, TakesPart DEF IndInv
<1>3. Last \in Nat /\ asked \in Nat
    BY <1>2, Consts
<1>4. node[t] \in 0 .. Last /\ nth[t] = asked /\ (Kind(node[t]) = "rows" <=> pc[t] = "rows")
    BY <1>2, <1>3 DEF LocalOK, Types, Computing
<1>5. Seg(t) = <<node[t], "next">>
    BY <1>2 DEF Seg, AtBarrier, Waiting, Calling
<1>6. Progress(node[t]) /\ (abort = -1 \/ (abort = node[t] + 1 /\ Past(0)))
    BY <1>2, <1>5 DEF Work
<1>7. ~ Past(t)
    BY <1>2 DEF Past, AtBarrier
<1>8. \A u \in Used : Past(u) \/ Loc(u) = "chunk" \/ Kind(node[t]) = "rows"
    <2>1. \A u \in Used : Seg(u) = <<node[t], "next">>
        BY <1>2, <1>5 DEF SameSegment
    <2> QED BY <1>2, <1>4, <2>1, NextSeg
<1> QED BY <1>2, <1>3, <1>4, <1>5, <1>6, <1>7, <1>8

LEMMA WorkStep ==
    ASSUME IndInv, NEW t \in Threads, pc[t] \in {"rows", "chunk"},
           NEW l \in {"computed", pc[t]}, pc' = [pc EXCEPT ![t] = l], NEW k \in 0 .. Last, k = node[t],
           UNCHANGED <<nThreadsCur, nGraph, nBarrier, nPassed, stop, pause, abort, mutex,
                       lastGraph, seen, nth, node, met, back, asked>>,
           NEW c \in Nat, chunk' = [chunk EXCEPT ![t] = c], currentChunk' \in Nat,
           NEW d \in SUBSET Int, done' = [done EXCEPT ![k] = d],
           Progress(k)'
    PROVE  IndInv'
<1>1. pc[t] \in Computing \cup {"spin"} /\ l \in Computing \cup {"spin", IF t = 0 THEN "return" ELSE "top"}
    BY DEF Computing
<1>2. /\ t \in Used /\ Types /\ LocalOK(t) /\ Loc(t) = pc[t] /\ Seg(t) = <<k, "next">>
      /\ BarrierOK /\ Last \in Nat /\ ~ Past(t)
      /\ abort = -1 \/ (abort = k + 1 /\ Past(0))
    BY AtWork DEF IndInv
<1>3. /\ nth' \in [Threads -> 0 .. NThreads] /\ node' \in [Threads -> 0 .. Last + 1]
      /\ chunk' \in [Threads -> Nat] /\ met' \in [Threads -> [threads : Nat, passed : Nat]]
      /\ back' \in [Threads -> {"none", "chunk", "next", "top", "return"}]
      /\ done' \in [0 .. Last -> SUBSET Int] /\ nPassed' \in Nat /\ abort' \in -1 .. Last + 1
    BY <1>2 DEF Types
<1>4. Types' /\ PoolOK' /\ Used' = Used /\ pc'[t] = l
    BY <1>1, <1>3, ComputeTypes
<1>5. \A u \in Threads : u # t =>
               /\ met'[u] = met[u] /\ back'[u] = back[u] /\ node'[u] = node[u] /\ lastGraph'[u] = lastGraph[u]
               /\ nth'[u] = nth[u] /\ seen'[u] = seen[u]
    OBVIOUS
<1>6. pc[t] \notin {"arrive", "last", "release", "spin"} /\ l \notin {"arrive", "last", "release", "spin"}
    OBVIOUS
<1>7. BarrierOK'
    BY <1>2, <1>5, <1>6, BarrierStay
<1>8. Loc(t)' = l
    BY <1>4, <1>6 DEF Loc
<1>9. LocalOK(t)'
    BY <1>2, <1>4, <1>6, <1>8 DEF LocalOK, AtBarrier, Computing
<1>10. Seg(t)' = <<k, "next">>
    BY <1>8 DEF Seg, AtBarrier, Waiting, Calling
<1>11. \A j \in 0 .. Last : j # k => done'[j] = done[j]
    BY <1>2 DEF Types
<1>12. t = 0 => abort' = -1
    BY <1>2
<1> QED
    BY <1>2, <1>4, <1>5, <1>7, <1>9, <1>10, <1>11, <1>12, NextStep

LEMMA NoMoreChunksStep ==
    ASSUME IndInv, NEW t \in Threads, NoMoreChunks(t)
    PROVE  IndInv'
<1>1. /\ pc[t] = "chunk" /\ chunk[t] >= NChunks(t) /\ pc' = [pc EXCEPT ![t] = "computed"]
      /\ UNCHANGED <<nThreadsCur, nGraph, nBarrier, nPassed, currentChunk, stop, pause, abort, mutex>>
      /\ UNCHANGED <<lastGraph, seen, nth, node, chunk, met, back, asked, done>>
    BY DEF NoMoreChunks, Goto, pool, local
<1>2. /\ t \in Used /\ Types /\ Loc(t) = "chunk" /\ asked \in Nat
      /\ node[t] \in 0 .. Last /\ Progress(node[t]) /\ nth[t] = asked /\ Kind(node[t]) # "rows"
    BY <1>1, AtWork
<1>3. PICK k \in 0 .. Last : k = node[t]
    BY <1>2
<1>4. /\ Kind(k) \in {"chunked", "split", "rows"} /\ Chunks \in Nat /\ (\A u \in Used : u \in Threads) /\ t \in Nat
      /\ t < asked
    BY <1>2, Consts
<1>5. Progress(k) /\ Kind(k) # "rows"
    BY <1>2, <1>3
<1>6. Kind(k) = "chunked" /\ chunk[t] >= Chunks /\ chunk[t] < currentChunk /\ chunk[t] \in Nat /\ currentChunk \in Nat
    <2>1. chunk[t] \in Nat /\ currentChunk \in Nat
        BY <1>2 DEF Types
    <2>2. IF Kind(k) = "chunked" THEN chunk[t] < currentChunk ELSE chunk[t] = t
        BY <1>2, <1>5 DEF Progress
    <2>3. chunk[t] >= IF Kind(k) = "chunked" THEN Chunks ELSE asked
        BY <1>1, <1>2, <1>3 DEF NChunks
    <2> QED BY <1>2, <1>4, <2>1, <2>2, <2>3
<1>7. pc'[t] = "computed"
    BY <1>1, <1>2 DEF Types
<1>8. Loc(t)' = "computed" /\ Past(t)'
    BY <1>7 DEF Loc, Past
<1>9. \A p \in Parts(k, asked) : p \in Int /\ p < Chunks
    BY <1>4, <1>6 DEF Parts
<1>10. \A p \in Parts(k, asked) : ~ Bound(t, p) /\ ~ Unclaimed(k, p)
    BY <1>2, <1>4, <1>6, <1>9 DEF Bound, Unclaimed
<1>11. \A p : ~ Bound(t, p)'
    BY <1>8 DEF Bound
<1>12. \A u \in Used : u # t => Loc(u)' = Loc(u) /\ (Past(u)' <=> Past(u)) /\ \A p : Bound(u, p)' <=> Bound(u, p)
    BY <1>1, <1>2, <1>4, OthersBound
<1>13. \A p : Unclaimed(k, p)' <=> Unclaimed(k, p)
    BY <1>1 DEF Unclaimed
<1>14. Progress(k)'
    <2>1. Used' = Used /\ done' = done /\ asked' = asked /\ currentChunk' = currentChunk /\ chunk' = chunk
        BY <1>1 DEF Used
    <2>2. \A p \in Parts(k, asked) : p \in done[k] \/ \E u \in Used : Bound(u, p)'
        BY <1>2, <1>5, <1>10, <1>12 DEF Progress
    <2>3. \A p \in done[k] : ~ Unclaimed(k, p)' /\ \A u \in Used : ~ Bound(u, p)'
        BY <1>5, <1>11, <1>12, <1>13 DEF Progress
    <2>4. \A u, v \in Used, p \in Parts(k, asked) : Bound(u, p)' /\ Bound(v, p)' => u = v
        BY <1>5, <1>11, <1>12 DEF Progress
    <2>5. \A u \in Used, p \in Parts(k, asked) : ~ Unclaimed(k, p)'
        BY <1>10, <1>13
    <2>6. \A u \in Used : Loc(u)' = "chunk" => IF Kind(k) = "chunked" THEN chunk[u] < currentChunk ELSE chunk[u] = u
        BY <1>5, <1>8, <1>12 DEF Progress
    <2> QED BY <1>5, <2>1, <2>2, <2>3, <2>4, <2>5, <2>6 DEF Progress
<1>15. done[k] \in SUBSET Int /\ done' = [done EXCEPT ![k] = done[k]] /\ chunk' = [chunk EXCEPT ![t] = chunk[t]]
    BY <1>1, <1>2 DEF Types
<1>16. currentChunk' \in Nat
    BY <1>1, <1>6
<1> QED
    BY <1>1, <1>3, <1>6, <1>14, <1>15, <1>16, WorkStep

LEMMA RowsStep ==
    ASSUME IndInv, NEW t \in Threads, Rows(t)
    PROVE  IndInv'
<1>1. /\ pc[t] = "rows" /\ pc' = [pc EXCEPT ![t] = "computed"]
      /\ done' = [done EXCEPT ![node[t]] = @ \cup {IF t \in @ THEN Again ELSE t}]
      /\ UNCHANGED <<nThreadsCur, nGraph, nBarrier, nPassed, currentChunk, stop, pause, abort, mutex>>
      /\ UNCHANGED <<lastGraph, seen, nth, node, chunk, met, back, asked>>
    BY DEF Rows, Mark, Goto, pool, local
<1>2. /\ t \in Used /\ Types /\ Loc(t) = "rows" /\ asked \in Nat /\ ~ Past(t)
      /\ node[t] \in 0 .. Last /\ Progress(node[t]) /\ Kind(node[t]) = "rows"
    BY <1>1, AtWork
<1>3. PICK k \in 0 .. Last : k = node[t]
    BY <1>2
<1>4. (\A u \in Used : u \in Threads) /\ t \in Nat /\ t < asked
    BY <1>2, Consts
<1>5. Progress(k) /\ Kind(k) = "rows"
    BY <1>2, <1>3
<1>6. t \in Parts(k, asked) /\ t \in Int
    BY <1>2, <1>4, <1>5 DEF Parts
<1>7. Bound(t, t) /\ \A p : Bound(t, p) => p = t
    BY <1>2 DEF Bound
<1>8. t \notin done[k]
    BY <1>2, <1>5, <1>7 DEF Progress
<1>9. done[k] \in SUBSET Int /\ currentChunk \in Nat /\ chunk[t] \in Nat
    BY <1>2 DEF Types
<1>10. done' = [done EXCEPT ![k] = done[k] \cup {t}] /\ done'[k] = done[k] \cup {t}
    BY <1>1, <1>2, <1>3, <1>8 DEF Types
<1>11. pc'[t] = "computed"
    BY <1>1, <1>2 DEF Types
<1>12. Loc(t)' = "computed" /\ Past(t)'
    BY <1>11 DEF Loc, Past
<1>13. \A p : ~ Bound(t, p)'
    BY <1>12 DEF Bound
<1>14. \A u \in Used : u # t => Loc(u)' = Loc(u) /\ (Past(u)' <=> Past(u)) /\ \A p : Bound(u, p)' <=> Bound(u, p)
    BY <1>1, <1>2, <1>4, OthersBound
<1>15. \A p : ~ Unclaimed(k, p)' /\ ~ Unclaimed(k, p)
    BY <1>5 DEF Unclaimed
<1>16. Progress(k)'
    <2>1. Used' = Used /\ asked' = asked /\ currentChunk' = currentChunk /\ chunk' = chunk
        BY <1>1 DEF Used
    <2>2. \A p \in Parts(k, asked) : p \in done'[k] \/ \E u \in Used : Bound(u, p)'
        BY <1>2, <1>5, <1>7, <1>10, <1>14, <1>15 DEF Progress
    <2>3. \A p \in done'[k] : \A u \in Used : ~ Bound(u, p)'
        <3> SUFFICES ASSUME NEW p \in done'[k], NEW u \in Used, Bound(u, p)' PROVE FALSE
            OBVIOUS
        <3>1. u # t /\ Bound(u, p)
            BY <1>13, <1>14
        <3>2. p = t
            BY <1>5, <1>10, <3>1 DEF Progress
        <3> QED BY <1>2, <1>5, <1>6, <1>7, <3>1, <3>2 DEF Progress
    <2>4. \A u, v \in Used, p \in Parts(k, asked) : Bound(u, p)' /\ Bound(v, p)' => u = v
        BY <1>5, <1>13, <1>14 DEF Progress
    <2>5. \A u \in Used : Loc(u)' = "chunk" => IF Kind(k) = "chunked" THEN chunk[u] < currentChunk ELSE chunk[u] = u
        BY <1>5, <1>12, <1>14 DEF Progress
    <2>6. done'[k] \subseteq Parts(k, asked)
        BY <1>5, <1>6, <1>10 DEF Progress
    <2> QED BY <1>15, <2>1, <2>2, <2>3, <2>4, <2>5, <2>6 DEF Progress
<1>17. chunk' = [chunk EXCEPT ![t] = chunk[t]] /\ currentChunk' \in Nat /\ done[k] \cup {t} \in SUBSET Int
    BY <1>1, <1>2, <1>6, <1>9 DEF Types
<1> QED
    BY <1>1, <1>3, <1>9, <1>10, <1>16, <1>17, WorkStep

LEMMA ChunkStep ==
    ASSUME IndInv, NEW t \in Threads, Chunk(t)
    PROVE  IndInv'
<1>1. /\ pc[t] = "chunk" /\ chunk[t] < NChunks(t)
      /\ done' = [done EXCEPT ![node[t]] = @ \cup {IF chunk[t] \in @ THEN Again ELSE chunk[t]}]
      /\ IF nth[t] >= NChunks(t)
         THEN pc' = [pc EXCEPT ![t] = "computed"] /\ UNCHANGED <<chunk, currentChunk>>
         ELSE /\ chunk' = [chunk EXCEPT ![t] = currentChunk] /\ currentChunk' = currentChunk + 1
              /\ pc' = pc
      /\ UNCHANGED <<nThreadsCur, nGraph, nBarrier, nPassed, stop, pause, abort, mutex>>
      /\ UNCHANGED <<lastGraph, seen, nth, node, met, back, asked>>
    BY DEF Chunk, Mark, Goto
<1>2. /\ t \in Used /\ Types /\ Loc(t) = "chunk" /\ asked \in Nat /\ ~ Past(t) /\ nth[t] = asked
      /\ node[t] \in 0 .. Last /\ Progress(node[t]) /\ Kind(node[t]) # "rows"
      /\ \A u \in Used : Past(u) \/ Loc(u) = "chunk" \/ Kind(node[t]) = "rows"
    BY <1>1, AtWork
<1>3. PICK k \in 0 .. Last : k = node[t]
    BY <1>2
<1>4. /\ Kind(k) \in {"chunked", "split", "rows"} /\ Chunks \in Nat /\ (\A u \in Used : u \in Threads) /\ t \in Nat
      /\ t < asked /\ asked <= NThreads /\ Chunks > NThreads /\ NThreads \in Nat
    BY <1>2, Consts
<1>5. /\ Progress(k) /\ Kind(k) \in {"chunked", "split"}
      /\ \A u \in Used : Past(u) \/ Loc(u) = "chunk"
    BY <1>2, <1>3, <1>4
<1>6. done[k] \in SUBSET Int /\ currentChunk \in Nat /\ \A u \in Used : chunk[u] \in Nat
    BY <1>2, <1>4 DEF Types
<1>7. PICK q \in Nat : q = chunk[t]
    BY <1>2, <1>6
<1>8. Bound(t, q) /\ (\A p : Bound(t, p) => p = q) /\ \A u \in Used : \A p : Bound(u, p) => Loc(u) = "chunk" /\ p = chunk[u]
    BY <1>2, <1>5, <1>7 DEF Bound
<1>9. NChunks(t) = IF Kind(k) = "chunked" THEN Chunks ELSE asked
    BY <1>2, <1>3 DEF NChunks
<1>10. q \in Parts(k, asked) /\ q \in Int
    BY <1>1, <1>2, <1>4, <1>5, <1>7, <1>9 DEF Parts
<1>11. q \notin done[k]
    BY <1>2, <1>5, <1>8 DEF Progress
<1>12. done' = [done EXCEPT ![k] = done[k] \cup {q}] /\ done'[k] = done[k] \cup {q}
    BY <1>1, <1>2, <1>3, <1>7, <1>11 DEF Types
<1>13. done[k] \cup {q} \in SUBSET Int /\ done'[k] \subseteq Parts(k, asked)
    BY <1>5, <1>6, <1>10, <1>12 DEF Progress
<1>14. Used' = Used /\ asked' = asked
    BY <1>1 DEF Used
<1>15. \A u \in Used, p \in Parts(k, asked) : u # t => ~ (Bound(u, p) /\ p = q)
    BY <1>2, <1>5, <1>8 DEF Progress
<1>16. CASE Kind(k) = "split"
    <2>1. pc' = [pc EXCEPT ![t] = "computed"] /\ chunk' = chunk /\ currentChunk' = currentChunk
        BY <1>1, <1>2, <1>9, <1>16
    <2>2. pc'[t] = "computed"
        BY <1>2, <2>1 DEF Types
    <2>3. Loc(t)' = "computed" /\ Past(t)'
        BY <2>2 DEF Loc, Past
    <2>4. \A p : ~ Bound(t, p)'
        BY <2>3 DEF Bound
    <2>5. \A u \in Used : u # t => Loc(u)' = Loc(u) /\ (Past(u)' <=> Past(u)) /\ \A p : Bound(u, p)' <=> Bound(u, p)
        BY <1>1, <1>2, <1>4, <2>1, OthersBound
    <2>6. \A p : ~ Unclaimed(k, p)' /\ ~ Unclaimed(k, p)
        BY <1>16 DEF Unclaimed
    <2>7. Progress(k)'
        <3>1. \A p \in Parts(k, asked) : p \in done'[k] \/ \E u \in Used : Bound(u, p)'
            BY <1>2, <1>5, <1>8, <1>12, <2>5, <2>6 DEF Progress
        <3>2. \A p \in done'[k] : \A u \in Used : ~ Bound(u, p)'
            <4> SUFFICES ASSUME NEW p \in done'[k], NEW u \in Used, Bound(u, p)' PROVE FALSE
                OBVIOUS
            <4>1. u # t /\ Bound(u, p)
                BY <2>4, <2>5
            <4>2. p = q
                BY <1>5, <1>12, <4>1 DEF Progress
            <4> QED BY <1>10, <1>15, <4>1, <4>2
        <3>3. \A u, v \in Used, p \in Parts(k, asked) : Bound(u, p)' /\ Bound(v, p)' => u = v
            BY <1>5, <2>4, <2>5 DEF Progress
        <3>4. \A u \in Used : Loc(u)' = "chunk" => IF Kind(k) = "chunked" THEN chunk[u] < currentChunk ELSE chunk[u] = u
            BY <1>5, <2>3, <2>5 DEF Progress
        <3> QED BY <1>13, <1>14, <2>1, <2>6, <3>1, <3>2, <3>3, <3>4 DEF Progress
    <2>8. chunk' = [chunk EXCEPT ![t] = q] /\ currentChunk' \in Nat
        BY <1>2, <1>6, <1>7, <2>1 DEF Types
    <2> QED
        BY <1>1, <1>3, <1>12, <1>13, <2>1, <2>7, <2>8, WorkStep
<1>17. CASE Kind(k) = "chunked"
    <2>1. pc' = pc /\ chunk' = [chunk EXCEPT ![t] = currentChunk] /\ currentChunk' = currentChunk + 1
        BY <1>1, <1>2, <1>4, <1>9, <1>17
    <2>2. chunk'[t] = currentChunk /\ \A u \in Used : u # t => chunk'[u] = chunk[u]
        BY <1>2, <1>4, <2>1 DEF Types
    <2>3. \A u \in Used : Loc(u)' = Loc(u) /\ (Past(u)' <=> Past(u))
        BY <1>1, <2>1 DEF Loc, Past
    <2>4. \A u \in Used : u # t => \A p : Bound(u, p)' <=> Bound(u, p)
        BY <2>2, <2>3 DEF Bound
    <2>5. \A p : Bound(t, p)' <=> p = currentChunk
        BY <1>2, <2>2, <2>3 DEF Bound
    <2>6. \A p \in Int : (Unclaimed(k, p)' <=> p >= currentChunk + 1) /\ (Unclaimed(k, p) <=> p >= currentChunk)
        BY <1>17, <2>1 DEF Unclaimed
    <2>7. \A p \in Parts(k, asked) : p \in Int
        BY <1>4, <1>17 DEF Parts
    <2>8. \A u \in Used : Loc(u) = "chunk" => chunk[u] < currentChunk
        BY <1>5, <1>17 DEF Progress
    <2>9. q < currentChunk
        BY <1>2, <1>7, <2>8
    <2>10. Progress(k)'
        <3>1. \A p \in Parts(k, asked) : p \in done'[k] \/ Unclaimed(k, p)' \/ \E u \in Used : Bound(u, p)'
            <4> SUFFICES ASSUME NEW p \in Parts(k, asked)
                         PROVE  p \in done'[k] \/ Unclaimed(k, p)' \/ \E u \in Used : Bound(u, p)'
                OBVIOUS
            <4>1. p \in done[k] \/ Unclaimed(k, p) \/ \E u \in Used : Bound(u, p)
                BY <1>5 DEF Progress
            <4>2. CASE p \in done[k]
                BY <1>12, <4>2
            <4>3. CASE Unclaimed(k, p)
                <5>1. p >= currentChunk /\ p \in Int
                    BY <2>6, <2>7, <4>3
                <5>2. p = currentChunk \/ p >= currentChunk + 1
                    BY <1>6, <5>1
                <5> QED BY <1>2, <2>5, <2>6, <5>1, <5>2
            <4>4. CASE \E u \in Used : Bound(u, p)
                BY <1>8, <1>12, <2>4, <4>4
            <4> QED BY <4>1, <4>2, <4>3, <4>4
        <3>2. \A p \in done'[k] : ~ Unclaimed(k, p)' /\ \A u \in Used : ~ Bound(u, p)'
            <4> SUFFICES ASSUME NEW p \in done'[k]
                         PROVE  ~ Unclaimed(k, p)' /\ \A u \in Used : ~ Bound(u, p)'
                OBVIOUS
            <4>1. p \in Int /\ p \in Parts(k, asked)
                BY <1>13, <2>7
            <4>2. p < currentChunk
                <5>1. p = q \/ ~ Unclaimed(k, p)
                    BY <1>5, <1>12 DEF Progress
                <5>2. ~ Unclaimed(k, p) => p < currentChunk
                    BY <1>6, <2>6, <4>1
                <5> QED BY <2>9, <5>1, <5>2
            <4>3. ~ Unclaimed(k, p)' /\ ~ Bound(t, p)'
                BY <1>6, <2>5, <2>6, <4>1, <4>2
            <4>4. \A u \in Used : u # t => ~ Bound(u, p)
                BY <1>5, <1>12, <1>15, <4>1 DEF Progress
            <4> QED BY <2>4, <4>3, <4>4
        <3>3. \A u, v \in Used, p \in Parts(k, asked) : Bound(u, p)' /\ Bound(v, p)' => u = v
            <4>1. \A u \in Used, p \in Parts(k, asked) : u # t /\ Bound(u, p)' => p < currentChunk
                BY <1>8, <2>4, <2>8
            <4>2. \A u \in Used, p \in Parts(k, asked) : u # t /\ Bound(u, p)' => ~ Bound(t, p)'
                BY <1>6, <2>5, <2>7, <4>1
            <4> QED BY <1>5, <2>4, <4>2 DEF Progress
        <3>4. \A u \in Used : Loc(u)' = "chunk" => chunk'[u] < currentChunk'
            BY <1>6, <2>1, <2>2, <2>3, <2>8
        <3>5. \A u \in Used, p \in Parts(k, asked) : Past(u)' => ~ Unclaimed(k, p)'
            <4>1. \A u \in Used, p \in Parts(k, asked) : Past(u) => ~ Unclaimed(k, p)
                BY <1>5 DEF Progress
            <4>2. \A p \in Parts(k, asked) : Unclaimed(k, p)' => Unclaimed(k, p)
                BY <1>6, <2>6, <2>7
            <4> QED BY <2>3, <4>1, <4>2
        <3> QED BY <1>13, <1>14, <1>17, <3>1, <3>2, <3>3, <3>4, <3>5 DEF Progress
    <2>11. pc' = [pc EXCEPT ![t] = pc[t]] /\ currentChunk' \in Nat
        BY <1>2, <1>6, <2>1 DEF Types
    <2> QED
        BY <1>1, <1>3, <1>6, <1>12, <1>13, <2>1, <2>10, <2>11, WorkStep
<1> QED BY <1>5, <1>16, <1>17

-----------------------------------------------------------------------------
(* All threads leave a barrier.                                            *)

\* The segment of a thread at a barrier.
LEMMA AtBarrierSeg ==
    ASSUME Types, NEW t \in Used, LocalOK(t), Loc(t) \in AtBarrier
    PROVE  /\ back[t] \in {"chunk", "next", IF t = 0 THEN "return" ELSE "top"}
           /\ Past(t) /\ nth[t] = asked /\ nGraph > 0 /\ (t # 0 => lastGraph[t] = nGraph)
           /\ node[t] \in 0 .. Last + 1
           /\ back[t] = "chunk" => Seg(t) = <<node[t], "chunk">> /\ node[t] <= Last /\ Kind(node[t]) # "rows"
           /\ back[t] = "next" => Seg(t) = <<node[t], "next">> /\ node[t] < Last
           /\ back[t] \in {"top", "return"} =>
                 \/ node[t] > Last /\ Seg(t) = <<Last, "next">>
                 \/ node[t] <= Last /\ abort = node[t] /\ Seg(t) = <<node[t], "abort">>
<1>1. pc[t] \in AtBarrier
    BY DEF Loc, AtBarrier
<1>2. back[t] \in {"chunk", "next", IF t = 0 THEN "return" ELSE "top"}
    BY <1>1 DEF LocalOK
<1>3. Loc(t) \notin Waiting /\ Loc(t) \notin Calling /\ Loc(t) \notin {"wake", "start", "loop", "next", "product", "rows", "chunk", "computed"}
      /\ Loc(t) \in (Computing \cup {"spin"}) \ {"start"} /\ Loc(t) \in Computing \cup {"spin"}
    BY DEF AtBarrier, Waiting, Calling, Computing
<1>4. Past(t) /\ nth[t] = asked /\ nGraph > 0 /\ (t # 0 => lastGraph[t] = nGraph)
    BY <1>3 DEF LocalOK, Past
<1>5. node[t] \in 0 .. Last + 1 /\ Last \in Nat
    BY Consts DEF Types
<1>6. back[t] = "chunk" => Seg(t) = <<node[t], "chunk">> /\ node[t] <= Last /\ Kind(node[t]) # "rows"
    BY <1>3 DEF Seg, LocalOK
<1>7. back[t] = "next" => Seg(t) = <<node[t], "next">> /\ node[t] < Last
    BY <1>3 DEF Seg, LocalOK
<1>8. back[t] \in {"top", "return"} => Seg(t) = SegAt(node[t]) /\ (node[t] > Last \/ abort = node[t])
    BY <1>3 DEF Seg, LocalOK
<1>9. /\ node[t] > Last => SegAt(node[t]) = <<Last, "next">>
      /\ node[t] <= Last /\ abort = node[t] => SegAt(node[t]) = <<node[t], "abort">>
    BY <1>5 DEF SegAt
<1> QED BY <1>2, <1>4, <1>5, <1>6, <1>7, <1>8, <1>9

\* When every thread is there, the node is computed.
LEMMA AllPast ==
    ASSUME Types, NEW k \in 0 .. Last, Progress(k), \A u \in Used : Past(u) /\ Loc(u) # "chunk"
    PROVE  Full(k)
<1>1. \A u \in Used : \A p : ~ Bound(u, p)
    BY DEF Bound
<1>2. 0 \in Used
    BY Consts
<1>3. \A p \in Parts(k, asked) : ~ Unclaimed(k, p)
    BY <1>2 DEF Progress
<1>4. Parts(k, asked) \subseteq done[k]
    BY <1>1, <1>3 DEF Progress
<1> QED BY <1>4 DEF Progress, Full

LEMMA PassAll ==
    ASSUME IndInv, Types', PoolOK', BarrierOK',
           UNCHANGED <<nGraph, asked, abort, done, currentChunk, lastGraph, seen, nth, node, chunk>>,
           \A u \in Used : /\ Loc(u) \in AtBarrier /\ Loc(u)' = back[u] /\ pc'[u] # "active"
                           /\ pc'[u] \in AtBarrier => back'[u] = back[u]
    PROVE  IndInv'
<1>1. Types /\ PoolOK /\ SameSegment /\ Work(Seg(0)) /\ \A u \in Used : LocalOK(u)
    BY DEF IndInv
<1>2. Used' = Used /\ 0 \in Used /\ Last \in Nat /\ \A u \in Used : u \in Nat /\ u < asked
    BY <1>1, Consts DEF Used
<1>3. \A u \in Used :
           /\ back[u] \in {"chunk", "next", IF u = 0 THEN "return" ELSE "top"}
           /\ Past(u) /\ nth[u] = asked /\ nGraph > 0 /\ (u # 0 => lastGraph[u] = nGraph)
           /\ node[u] \in 0 .. Last + 1
           /\ back[u] = "chunk" => Seg(u) = <<node[u], "chunk">> /\ node[u] <= Last /\ Kind(node[u]) # "rows"
           /\ back[u] = "next" => Seg(u) = <<node[u], "next">> /\ node[u] < Last
           /\ back[u] \in {"top", "return"} =>
                 \/ node[u] > Last /\ Seg(u) = <<Last, "next">>
                 \/ node[u] <= Last /\ abort = node[u] /\ Seg(u) = <<node[u], "abort">>
    BY <1>1, AtBarrierSeg
<1>4. \A u \in Used : Loc(u) # "chunk" /\ Seg(u) = Seg(0)
    BY <1>1 DEF SameSegment, AtBarrier
<1>5. \A u \in Used : LocalOK(u)'
    <2> SUFFICES ASSUME NEW u \in Used PROVE LocalOK(u)'
        OBVIOUS
    <2>1. /\ back[u] \in {"chunk", "next", IF u = 0 THEN "return" ELSE "top"}
          /\ nth'[u] = asked' /\ nGraph' > 0 /\ (u # 0 => lastGraph'[u] = nGraph')
          /\ back[u] = "chunk" => node'[u] <= Last /\ Kind(node'[u]) # "rows"
          /\ back[u] = "next" => node'[u] < Last
          /\ Loc(u)' = back[u] /\ pc'[u] # "active" /\ (pc'[u] \in AtBarrier => back'[u] = back[u])
        BY <1>3
    <2>2. Loc(u)' \notin AtBarrier /\ Loc(u)' \notin {"rows", "product", "computed"}
        BY <2>1 DEF AtBarrier
    <2> QED BY <2>1, <2>2 DEF LocalOK
<1>6. CASE back[0] = "chunk"
    <2>1. PICK k \in 0 .. Last : k = node[0]
        BY <1>2, <1>3, <1>6
    <2>2. Seg(0) = <<k, "chunk">> /\ Kind(k) # "rows"
        BY <1>2, <1>3, <1>6, <2>1
    <2>3. \A u \in Used : back[u] = "chunk" /\ node[u] = k
        BY <1>3, <1>4, <2>2
    <2>4. \A u \in Used : Loc(u)' = "chunk" /\ node'[u] = k
        BY <2>3
    <2>5. \A u \in Used : Seg(u)' = <<k, "next">>
        BY <2>4 DEF Seg, AtBarrier, Waiting, Calling
    <2>6. /\ Computes(k) /\ done[k] = {} /\ abort = -1 /\ currentChunk = asked
          /\ \A u \in Used : chunk[u] = u
        BY <1>1, <1>2, <2>2 DEF Work, Done
    <2>7. \A u \in Used : ~ Past(u)' /\ \A p : Bound(u, p)' <=> p = u
        <3> SUFFICES ASSUME NEW u \in Used PROVE ~ Past(u)' /\ \A p : Bound(u, p)' <=> p = u
            OBVIOUS
        <3>1. Loc(u)' = "chunk" /\ chunk'[u] = u
            BY <2>4, <2>6
        <3> QED BY <3>1 DEF Past, Bound, AtBarrier
    <2>8. Progress(k)'
        <3>1. Kind(k) \in {"chunked", "split"} /\ asked \in Nat /\ Chunks \in Nat
            BY <1>1, <2>2, Consts
        <3>2. \A p \in Parts(k, asked) : Unclaimed(k, p)' \/ \E u \in Used : Bound(u, p)'
            <4> SUFFICES ASSUME NEW p \in Parts(k, asked), p \notin Used
                         PROVE  Unclaimed(k, p)'
                BY <2>7
            <4>1. p \in Int /\ p >= asked /\ Kind(k) = "chunked"
                BY <3>1 DEF Parts, Used
            <4> QED BY <2>6, <4>1 DEF Unclaimed
        <3>3. \A u \in Used : Loc(u)' = "chunk" => IF Kind(k) = "chunked" THEN chunk'[u] < currentChunk' ELSE chunk'[u] = u
            BY <1>2, <2>6
        <3>4. \A u, v \in Used : \A p : Bound(u, p)' /\ Bound(v, p)' => u = v
            BY <2>7
        <3> QED BY <1>2, <2>6, <2>7, <3>2, <3>3, <3>4 DEF Progress
    <2>9. Computes(k)'
        BY <2>6 DEF Computes, Full
    <2>10. Work(Seg(0))'
        <3>1. PICK s : s = <<k, "next">> /\ s = Seg(0)'
            BY <1>2, <2>5
        <3>2. s # Done' /\ s[1] = k /\ s[2] = "next"
            BY <1>2, <3>1 DEF Done
        <3> QED BY <2>6, <2>8, <2>9, <3>1, <3>2 DEF Work
    <2>11. SameSegment'
        BY <1>2, <2>5 DEF SameSegment
    <2> QED BY <1>2, <1>5, <2>10, <2>11 DEF IndInv
<1>7. CASE back[0] = "next"
    <2>1. PICK k \in 0 .. Last - 1 : k = node[0]
        BY <1>2, <1>3, <1>7
    <2>2. Seg(0) = <<k, "next">> /\ k \in 0 .. Last /\ k + 1 \in 0 .. Last /\ k # Last
        BY <1>2, <1>3, <1>7, <2>1
    <2>3. \A u \in Used : back[u] = "next" /\ node[u] = k
        BY <1>3, <1>4, <2>2
    <2>4. \A u \in Used : Loc(u)' = "next" /\ node'[u] = k
        BY <2>3
    <2>5. \A u \in Used : Seg(u)' = SegAt(k + 1)'
        BY <2>4 DEF Seg, AtBarrier, Waiting, Calling
    <2>6. SegAt(k + 1)' = SegAt(k + 1)
        BY DEF SegAt
    <2>7. Computes(k) /\ Progress(k) /\ (abort = -1 \/ abort = k + 1)
        BY <1>1, <1>2, <2>2 DEF Work, Done
    <2>8. Full(k)
        BY <1>1, <1>3, <1>4, <2>2, <2>7, AllPast
    <2>9. Computes(k + 1)'
        <3> SUFFICES ASSUME NEW j \in 0 .. Last PROVE (j < k + 1 => Full(j)') /\ (j > k + 1 => done'[j] = {})
            BY <2>2 DEF Computes
        <3>1. (j < k => Full(j)) /\ (j > k => done[j] = {})
            BY <2>7 DEF Computes
        <3>2. j < k + 1 => j < k \/ j = k
            BY <2>2
        <3>3. j > k + 1 => j > k
            BY <2>2
        <3>4. Full(j)' <=> Full(j)
            BY DEF Full
        <3> QED BY <2>8, <3>1, <3>2, <3>3, <3>4
    <2>10. done[k + 1] = {}
        <3>1. k + 1 > k
            BY <2>2
        <3> QED BY <2>2, <2>7, <3>1 DEF Computes
    <2>11. PICK j \in 0 .. Last : j = k + 1
        BY <2>2
    <2>12. \A u \in Used : ~ Past(u)' /\ (\A p : Bound(u, p)' <=> p = u) /\ Loc(u)' \notin AtBarrier /\ Loc(u)' # "chunk"
        <3> SUFFICES ASSUME NEW u \in Used
                     PROVE  ~ Past(u)' /\ (\A p : Bound(u, p)' <=> p = u) /\ Loc(u)' \notin AtBarrier /\ Loc(u)' # "chunk"
            OBVIOUS
        <3>1. Loc(u)' = "next"
            BY <2>4
        <3> QED BY <3>1 DEF Past, Bound, AtBarrier
    <2>13. Kind(j) = "rows" => Progress(j)'
        <3> SUFFICES ASSUME Kind(j) = "rows" PROVE Progress(j)'
            OBVIOUS
        <3>1. \A p \in Parts(j, asked) : p \in Used
            BY DEF Parts, Used
        <3>2. done'[j] = {} /\ asked' = asked
            BY <2>10, <2>11
        <3> QED BY <1>2, <2>12, <3>1, <3>2 DEF Progress
    <2>14. SegAt(j) = IF abort = j THEN <<j, "abort">> ELSE IF Kind(j) = "rows" THEN <<j, "next">> ELSE <<j, "chunk">>
        BY <1>2 DEF SegAt
    <2>15. Work(Seg(0))'
        <3>1. PICK s : s = SegAt(j) /\ s = Seg(0)'
            BY <1>2, <2>5, <2>6, <2>11
        <3>2. s # Done' /\ s[1] = j /\ (s[2] = "abort" \/ (s[2] = "next" /\ Kind(j) = "rows" /\ abort # j)
                                        \/ (s[2] = "chunk" /\ Kind(j) # "rows" /\ abort # j))
            BY <1>2, <2>14, <3>1 DEF Done
        <3>3. Computes(j)' /\ done'[j] = {} /\ (abort' = -1 \/ abort' = j)
            BY <2>7, <2>9, <2>10, <2>11
        <3> QED BY <1>2, <2>12, <2>13, <3>1, <3>2, <3>3 DEF Work
    <2>16. SameSegment'
        BY <1>2, <2>5 DEF SameSegment
    <2> QED BY <1>2, <1>5, <2>15, <2>16 DEF IndInv
<1>8. CASE back[0] = "return"
    <2>1. Seg(0) = <<Last, "next">> \/ (node[0] \in 0 .. Last /\ abort = node[0] /\ Seg(0) = <<node[0], "abort">>)
        BY <1>2, <1>3, <1>8
    <2>2. \A u \in Used : back[u] = IF u = 0 THEN "return" ELSE "top"
        <3> SUFFICES ASSUME NEW u \in Used, back[u] \in {"chunk", "next"} PROVE FALSE
            BY <1>3
        <3>1. Seg(u) = Seg(0) /\ node[u] \in 0 .. Last + 1
            BY <1>3, <1>4
        <3>2. Seg(u) = <<node[u], "chunk">> \/ (Seg(u) = <<node[u], "next">> /\ node[u] < Last)
            BY <1>3
        <3> QED BY <1>2, <2>1, <3>1, <3>2
    <2>3. \A u \in Used : Seg(u)' = Done
        <3> SUFFICES ASSUME NEW u \in Used PROVE Seg(u)' = Done
            OBVIOUS
        <3>1. Loc(u)' = (IF u = 0 THEN "return" ELSE "top") /\ (u # 0 => lastGraph'[u] = nGraph')
            BY <1>3, <2>2
        <3> QED BY <3>1 DEF Seg, Done, Waiting, Calling
    <2>4. CASE Seg(0) = <<Last, "next">>
        <3>1. Computes(Last) /\ Progress(Last)
            BY <1>1, <1>2, <2>4 DEF Work, Done
        <3>2. Full(Last)
            BY <1>1, <1>2, <1>3, <1>4, <3>1, AllPast
        <3>3. \A j \in 0 .. Last : Full(j)
            <4> SUFFICES ASSUME NEW j \in 0 .. Last PROVE Full(j)
                OBVIOUS
            <4>1. j = Last \/ j < Last
                BY <1>2
            <4> QED BY <3>1, <3>2, <4>1 DEF Computes
        <3>4. \A j \in 0 .. Last : Full(j)' /\ done'[j] \subseteq Parts(j, asked')
            BY <3>3 DEF Full
        <3>5. PICK s : s = Done /\ s = Seg(0)'
            BY <1>2, <2>3
        <3>6. s = Done' /\ s[2] = "done" /\ Loc(0)' = "return"
            BY <1>2, <2>2, <3>5 DEF Done
        <3>7. Work(Seg(0))'
            BY <3>4, <3>5, <3>6 DEF Work
        <3>8. SameSegment'
            BY <1>2, <2>3 DEF SameSegment
        <3> QED BY <1>2, <1>5, <3>7, <3>8 DEF IndInv
    <2>5. CASE node[0] \in 0 .. Last /\ abort = node[0] /\ Seg(0) = <<node[0], "abort">>
        <3>1. PICK k \in 0 .. Last : k = node[0]
            BY <2>5
        <3>2. Computes(k) /\ done[k] = {} /\ abort = k
            BY <1>1, <1>2, <2>5, <3>1 DEF Work, Done
        <3>3. \A j \in 0 .. Last : j < k => Full(j)'
            BY <3>2 DEF Computes, Full
        <3>4. \A j \in 0 .. Last : done'[j] \subseteq Parts(j, asked')
            <4> SUFFICES ASSUME NEW j \in 0 .. Last PROVE done[j] \subseteq Parts(j, asked)
                OBVIOUS
            <4>1. j < k \/ j = k \/ j > k
                OBVIOUS
            <4>2. j < k => done[j] = Parts(j, asked)
                BY <3>2 DEF Computes, Full
            <4>3. j > k => done[j] = {}
                BY <3>2 DEF Computes
            <4> QED BY <3>2, <4>1, <4>2, <4>3
        <3>5. PICK s : s = Done /\ s = Seg(0)'
            BY <1>2, <2>3
        <3>6. s = Done' /\ s[2] = "done" /\ Loc(0)' = "return" /\ abort' = k /\ k # -1
            BY <1>2, <2>2, <3>2, <3>5 DEF Done
        <3>7. Work(Seg(0))'
            BY <3>3, <3>4, <3>5, <3>6 DEF Work
        <3>8. SameSegment'
            BY <1>2, <2>3 DEF SameSegment
        <3> QED BY <1>2, <1>5, <3>7, <3>8 DEF IndInv
    <2> QED BY <2>1, <2>4, <2>5
<1> QED BY <1>2, <1>3, <1>6, <1>7, <1>8

\* The last one lets the others go.
LEMMA ReleaseStep ==
    ASSUME IndInv, NEW t \in Threads, ReleaseBarrier(t)
    PROVE  IndInv'
<1>1. /\ pc[t] = "release" /\ pc' = [pc EXCEPT ![t] = back[t]] /\ back' = [back EXCEPT ![t] = "none"]
      /\ nPassed' = nPassed + 1
      /\ UNCHANGED <<nThreadsCur, nGraph, nBarrier, currentChunk, stop, pause, abort, mutex>>
      /\ UNCHANGED <<lastGraph, seen, nth, node, chunk, met, asked, done>>
    BY DEF ReleaseBarrier, Leave, Goto
<1>2. /\ pc[t] \in Computing \cup {"spin"} /\ t \in Used /\ LocalOK(t) /\ Loc(t) = "release"
      /\ Types /\ BarrierOK /\ \A u \in Used : u \in Threads
    BY <1>1, TakesPart, Consts DEF IndInv, Computing
<1>3. back[t] \in {"chunk", "next", IF t = 0 THEN "return" ELSE "top"}
    BY <1>1, <1>2 DEF LocalOK, AtBarrier
<1>4. back[t] \in Computing \cup {"spin", IF t = 0 THEN "return" ELSE "top"}
    BY <1>3 DEF Computing
<1>5. nPassed \in Nat /\ nPassed + 1 \in Nat /\ currentChunk \in Nat
    BY <1>2 DEF Types
<1>6. /\ nth' \in [Threads -> 0 .. NThreads] /\ node' \in [Threads -> 0 .. Last + 1]
      /\ chunk' \in [Threads -> Nat] /\ met' \in [Threads -> [threads : Nat, passed : Nat]]
      /\ back' \in [Threads -> {"none", "chunk", "next", "top", "return"}] /\ currentChunk' \in Nat
      /\ done' \in [0 .. Last -> SUBSET Int] /\ nPassed' \in Nat /\ abort' \in -1 .. Last + 1
    BY <1>1, <1>2, <1>5 DEF Types
<1>7. /\ Types' /\ PoolOK' /\ Used' = Used /\ pc'[t] = back[t]
      /\ \A u \in Threads : u # t => pc'[u] = pc[u]
    BY <1>1, <1>2, <1>4, <1>6, ComputeTypes
<1>8. \A u \in Used : u # t => /\ pc[u] = "spin" /\ pc'[u] = "spin" /\ met[u].passed = nPassed
                               /\ back'[u] = back[u] /\ met'[u] = met[u]
    BY <1>1, <1>2, <1>7 DEF BarrierOK, Types
<1>9. nPassed' # nPassed /\ nPassed = nPassed' - 1
    BY <1>1, <1>5
<1>10. back[t] \notin {"arrive", "last", "release", "spin", "barrier", "active"}
    BY <1>3
<1>11. \A u \in Used : pc'[u] \notin {"arrive", "last", "release"} /\ ~ Arrived(u)'
    <2>1. \A u \in Used : u # t => ~ Arrived(u)'
        BY <1>8, <1>9 DEF Arrived
    <2>2. ~ Arrived(t)'
        BY <1>7, <1>10 DEF Arrived
    <2> QED BY <1>7, <1>8, <1>10, <2>1, <2>2
<1>12. BarrierOK'
    <2>1. \A u \in Used : pc'[u] = "spin" => met'[u].passed = nPassed' - 1
        BY <1>7, <1>8, <1>9, <1>10
    <2>2. nBarrier' = 0
        BY <1>1, <1>2 DEF BarrierOK
    <2>3. Gathered' = {}
        BY <1>7, <1>11 DEF Gathered
    <2>4. Cardinality({}) = 0
        BY FS_EmptySet
    <2> QED BY <1>7, <1>11, <2>1, <2>2, <2>3, <2>4 DEF BarrierOK
<1>13. \A u \in Used : /\ Loc(u) \in AtBarrier /\ Loc(u)' = back[u] /\ pc'[u] # "active"
                       /\ pc'[u] \in AtBarrier => back'[u] = back[u]
    <2> SUFFICES ASSUME NEW u \in Used
                 PROVE  /\ Loc(u) \in AtBarrier /\ Loc(u)' = back[u] /\ pc'[u] # "active"
                        /\ pc'[u] \in AtBarrier => back'[u] = back[u]
        OBVIOUS
    <2>1. CASE u = t
        BY <1>2, <1>7, <1>10, <2>1 DEF Loc, AtBarrier
    <2>2. CASE u # t
        BY <1>8, <1>9, <2>2 DEF Loc, AtBarrier
    <2> QED BY <2>1, <2>2
<1> QED BY <1>1, <1>7, <1>12, <1>13, PassAll

\* A thread that is alone does not stop.
LEMMA BarrierAloneStep ==
    ASSUME IndInv, NEW t \in Threads, Barrier(t), nThreadsCur = 1
    PROVE  IndInv'
<1>1. /\ pc[t] = "barrier" /\ pc' = [pc EXCEPT ![t] = back[t]] /\ back' = [back EXCEPT ![t] = "none"]
      /\ UNCHANGED <<nThreadsCur, nGraph, nBarrier, nPassed, currentChunk, stop, pause, abort, mutex>>
      /\ UNCHANGED <<lastGraph, seen, nth, node, chunk, met, asked, done>>
    BY DEF Barrier, Leave, Goto, pool
<1>2. /\ pc[t] \in Computing \cup {"spin"} /\ t \in Used /\ LocalOK(t) /\ Loc(t) = "barrier"
      /\ Types /\ BarrierOK /\ nThreadsCur = asked
    BY <1>1, TakesPart DEF IndInv, Computing
<1>3. back[t] \in {"chunk", "next", IF t = 0 THEN "return" ELSE "top"}
    BY <1>1, <1>2 DEF LocalOK, AtBarrier
<1>4. back[t] \in Computing \cup {"spin", IF t = 0 THEN "return" ELSE "top"}
    BY <1>3 DEF Computing
<1>5. /\ nth' \in [Threads -> 0 .. NThreads] /\ node' \in [Threads -> 0 .. Last + 1]
      /\ chunk' \in [Threads -> Nat] /\ met' \in [Threads -> [threads : Nat, passed : Nat]]
      /\ back' \in [Threads -> {"none", "chunk", "next", "top", "return"}] /\ currentChunk' \in Nat
      /\ done' \in [0 .. Last -> SUBSET Int] /\ nPassed' \in Nat /\ abort' \in -1 .. Last + 1
    BY <1>1, <1>2 DEF Types
<1>6. Types' /\ PoolOK' /\ pc'[t] = back[t]
    BY <1>1, <1>2, <1>4, <1>5, ComputeTypes
<1>7. Used = {t}
    <2>1. asked = 1
        BY <1>2
    <2> QED BY <1>2, <2>1 DEF Used
<1>8. back[t] \notin {"arrive", "last", "release", "spin", "barrier", "active"}
    BY <1>3
<1>9. BarrierOK'
    BY <1>1, <1>2, <1>8, BarrierStay
<1>10. \A u \in Used : /\ Loc(u) \in AtBarrier /\ Loc(u)' = back[u] /\ pc'[u] # "active"
                       /\ pc'[u] \in AtBarrier => back'[u] = back[u]
    <2>1. Loc(t) \in AtBarrier /\ Loc(t)' = back[t] /\ pc'[t] # "active" /\ pc'[t] \notin AtBarrier
        BY <1>2, <1>6, <1>8 DEF Loc, AtBarrier
    <2> QED BY <1>7, <2>1
<1> QED BY <1>1, <1>6, <1>9, <1>10, PassAll

LEMMA ComputeStep ==
    ASSUME IndInv, NEW t \in Threads, Compute(t)
    PROVE  IndInv'
BY StartStep, EnterStep, EndOfGraphStep, RowsStep, ProductStep, ChunkStep, NoMoreChunksStep, ComputedStep,
   NextNodeStep, BarrierManyStep, BarrierAloneStep, ArriveStep, ResetStep, ReleaseStep, SpinStep
   DEF Compute

-----------------------------------------------------------------------------
(* The caller.                                                             *)

\* Between two graphs the others wait, and have seen the last graph.
LEMMA OthersDone ==
    ASSUME IndInv, pc[0] \in Calling \ {"wake"}, NEW u \in Used, u # 0
    PROVE  Loc(u) \in Waiting /\ lastGraph[u] = nGraph /\ Loc(u) = IF pc[u] = "spin" THEN "top" ELSE pc[u]
<1>1. /\ Types /\ LocalOK(u) /\ Seg(u) = Seg(0) /\ Last \in Nat
      /\ u \in Threads /\ node[u] \in 0 .. Last + 1
    BY Consts DEF IndInv, SameSegment, Types
<1>2. Loc(0) = pc[0]
    BY DEF Loc, Calling
<1>3. Seg(u) = Done
    BY <1>1, <1>2 DEF Seg, Calling, Waiting
<1>4. \A j \in 0 .. Last + 1 : SegAt(j) # Done
    BY <1>1, SegAtIs
<1>5. Loc(u) \in Waiting \cup Computing \cup {"spin"}
    BY <1>1, SegIs
<1>6. Loc(u) = "next" => node[u] + 1 \in 0 .. Last + 1
    BY <1>1 DEF LocalOK
<1>7. Loc(u) \in {"rows", "product", "chunk", "computed"} => node[u] <= Last
    BY <1>1 DEF LocalOK
<1>8. Loc(u) \in AtBarrier => /\ node[u] <= Last \/ back[u] \in {"top", "return"}
                              /\ back[u] \in {"chunk", "next", "top", "return"}
    BY <1>1 DEF LocalOK, Loc, AtBarrier
<1>9. Loc(u) \in Waiting
    <2> SUFFICES ASSUME Loc(u) \notin Waiting PROVE Seg(u) # Done
        BY <1>3
    <2>1. CASE Loc(u) \in {"start", "loop", "next"}
        BY <1>1, <1>4, <1>6, <2>1 DEF Seg, Calling, AtBarrier
    <2>2. CASE Loc(u) \in {"rows", "product", "chunk", "computed"}
        BY <1>1, <1>7, <2>2 DEF Seg, Calling, AtBarrier, Done
    <2>3. CASE Loc(u) \in AtBarrier
        <3>1. CASE back[u] \in {"top", "return"}
            BY <1>1, <1>4, <2>3, <3>1 DEF Seg, Calling, AtBarrier
        <3>2. CASE back[u] \notin {"top", "return"}
            BY <1>1, <1>8, <2>3, <3>2 DEF Seg, Calling, AtBarrier, Done
        <3> QED BY <3>1, <3>2
    <2> QED BY <1>5, <2>1, <2>2, <2>3 DEF Computing, AtBarrier
<1>10. lastGraph[u] = nGraph
    BY <1>1, <1>3, <1>4, <1>9 DEF Seg
<1>11. Loc(u) = IF pc[u] = "spin" THEN "top" ELSE pc[u]
    BY <1>1, <1>9 DEF Loc, LocalOK, AtBarrier, Waiting
<1> QED BY <1>9, <1>10, <1>11

LEMMA BarrierSame ==
    ASSUME Types, BarrierOK, UNCHANGED <<met, nPassed, nBarrier, asked>>,
           \A u \in Used : \/ pc'[u] = pc[u]
                           \/ /\ pc'[u] \notin {"arrive", "last", "release", "spin"}
                              /\ pc[u] \notin {"arrive", "last", "release", "spin"}
    PROVE  BarrierOK'
<1>1. Used' = Used
    BY DEF Used
<1>2. \A u \in Used : (Arrived(u)' <=> Arrived(u)) /\ (pc'[u] = "release" <=> pc[u] = "release")
                      /\ (pc'[u] = "spin" <=> pc[u] = "spin")
                      /\ (pc'[u] \in {"arrive", "last", "release"} => pc'[u] = pc[u])
                      /\ (pc[u] \in {"arrive", "last", "release"} => pc'[u] = pc[u])
    BY DEF Arrived
<1>3. Gathered' = Gathered
    BY <1>1, <1>2 DEF Gathered
<1>4. \A u \in Used : pc'[u] \in {"arrive", "last", "release"} => met[u].threads = asked /\ met[u].passed = nPassed
    BY <1>2 DEF BarrierOK
<1>5. \A u \in Used : pc'[u] = "spin" => met[u].passed \in {nPassed, nPassed - 1}
    BY <1>2 DEF BarrierOK
<1>6. \A u, v \in Used : pc'[u] \in {"last", "release"} /\ v # u => pc'[v] = "spin" /\ met[v].passed = nPassed
    BY <1>2 DEF BarrierOK
<1>7. nBarrier = IF \E u \in Used : pc'[u] = "release" THEN 0 ELSE Cardinality(Gathered)
    BY <1>2 DEF BarrierOK
<1> QED BY <1>1, <1>3, <1>4, <1>5, <1>6, <1>7 DEF BarrierOK

\* What a broadcast does to a thread.
LEMMA BroadcastIs ==
    ASSUME Types, NEW u \in Threads
    PROVE  /\ Broadcast(pc)[u] = pc[u] \/ (pc[u] \in {"dozing", "asleep"} /\ Broadcast(pc)[u] \in {"top", "lock"})
           /\ Broadcast(pc)[0] = pc[0]
<1>1. \A v \in Threads : Broadcast(pc)[v] = Woken(pc[v])
    BY DEF Broadcast
<1>2. 0 \in Threads /\ pc[0] \notin {"dozing", "asleep"}
    BY Consts DEF Types, Calling, Computing
<1>3. \A x : Woken(x) = IF x = "dozing" THEN "top" ELSE IF x = "asleep" THEN "lock" ELSE x
    BY DEF Woken
<1> QED BY <1>1, <1>2, <1>3

\* Only the caller moves, and threads that sleep may wake up.
Stirs(u) == pc'[u] = pc[u] \/ (pc[u] \in {"dozing", "asleep"} /\ pc'[u] \in {"top", "lock"})

LEMMA CallerTypes ==
    ASSUME IndInv, NEW p, p \in {pc, Broadcast(pc)},
           NEW l \in Calling \cup {"start"}, pc' = [p EXCEPT ![0] = l], pc[0] \in Calling,
           UNCHANGED <<nPassed, nBarrier, lastGraph, seen, nth, node, chunk, met, back, asked>>,
           nThreadsCur' \in 1 .. NThreads, nGraph' \in 0 .. MaxGraphs, currentChunk' \in Nat,
           stop' \in BOOLEAN, pause' \in BOOLEAN, mutex' \in BOOLEAN, abort' \in -1 .. Last + 1,
           done' \in [0 .. Last -> SUBSET Int]
    PROVE  /\ Types' /\ BarrierOK' /\ Used' = Used /\ pc'[0] = l
           /\ \A u \in Workers : Stirs(u)
<1>1. Types /\ BarrierOK /\ 0 \in Threads /\ \A u \in Workers : u \in Threads /\ u # 0
    BY Consts DEF IndInv
<1>2. DOMAIN p = Threads /\ p = [u \in Threads |-> p[u]] /\ \A u \in Threads : p[u] = pc[u] \/ (pc[u] \in {"dozing", "asleep"} /\ p[u] \in {"top", "lock"})
    BY <1>1, BroadcastIs DEF Types, Broadcast
<1>3. pc'[0] = l /\ \A u \in Workers : pc'[u] = p[u]
    BY <1>1, <1>2
<1>4. \A u \in Workers : Stirs(u)
    BY <1>1, <1>2, <1>3 DEF Stirs
<1>5. \A u \in Workers : pc'[u] \in Waiting \cup Computing \cup {"spin"}
    BY <1>1, <1>4 DEF Stirs, Types, Waiting
<1>6. l \in Waiting \cup Computing \cup Calling \cup {"spin"} /\ l \in Calling \cup Computing \cup {"spin"}
    BY DEF Computing
<1>7. pc' \in [Threads -> Waiting \cup Computing \cup Calling \cup {"spin"}]
    <2>1. \A u \in Threads : u = 0 \/ u \in Workers
        BY DEF Workers
    <2>2. DOMAIN pc' = Threads /\ pc' = [u \in Threads |-> pc'[u]]
        BY <1>2
    <2> QED BY <1>3, <1>5, <1>6, <2>1, <2>2
<1>8. Types'
    BY <1>1, <1>3, <1>5, <1>6, <1>7 DEF Types
<1>9. BarrierOK'
    <2>1. \A u \in Used : u = 0 \/ u \in Workers
        BY <1>1, Consts
    <2>2. l \notin {"arrive", "last", "release", "spin"} /\ pc[0] \notin {"arrive", "last", "release", "spin"}
        BY DEF Calling
    <2>3. \A u \in Workers : \/ pc'[u] = pc[u]
                             \/ /\ pc'[u] \notin {"arrive", "last", "release", "spin"}
                                /\ pc[u] \notin {"arrive", "last", "release", "spin"}
        BY <1>4 DEF Stirs
    <2> QED BY <1>1, <1>3, <2>1, <2>2, <2>3, BarrierSame
<1> QED BY <1>3, <1>4, <1>8, <1>9 DEF Used

\* A step of the caller between two graphs.
LEMMA IdleStep ==
    ASSUME IndInv, Types', PoolOK', BarrierOK', pc[0] \in Calling \ {"wake"}, pc'[0] \in Calling \ {"wake", "return"},
           UNCHANGED <<nGraph, asked, nPassed, lastGraph, seen, nth, node, met, back>>,
           \A u \in Workers : Stirs(u),
           pc'[0] \in {"kickoff", "announce"} => abort' = -1 /\ \A k \in 0 .. Last : done'[k] = {},
           \A k \in 0 .. Last : done'[k] \subseteq Parts(k, asked)
    PROVE  IndInv'
<1>1. /\ Types /\ Used' = Used /\ 0 \in Used /\ (\A u \in Used : u = 0 \/ u \in Workers)
      /\ \A u \in Used : LocalOK(u)
    BY Consts DEF IndInv, Used
<1>2. Loc(0)' = pc'[0]
    BY DEF Loc, Calling
<1>3. Seg(0)' = Done
    BY <1>2 DEF Seg, Calling, Waiting, Done
<1>4. LocalOK(0)'
    BY <1>2 DEF LocalOK, Calling, Computing, AtBarrier
<1>5. \A u \in Used \ {0} : Seg(u)' = Done /\ LocalOK(u)'
    <2> SUFFICES ASSUME NEW u \in Used, u # 0 PROVE Seg(u)' = Done /\ LocalOK(u)'
        OBVIOUS
    <2>1. Loc(u) \in Waiting /\ lastGraph[u] = nGraph /\ Loc(u) = (IF pc[u] = "spin" THEN "top" ELSE pc[u]) /\ LocalOK(u)
        BY <1>1, OthersDone
    <2>2. Stirs(u)
        BY <1>1
    <2>3. Loc(u)' \in Waiting
        <3>1. CASE pc'[u] = pc[u]
            BY <2>1, <3>1 DEF Loc
        <3>2. CASE pc'[u] \in {"top", "lock"}
            BY <3>2 DEF Loc, Waiting
        <3> QED BY <2>2, <3>1, <3>2 DEF Stirs
    <2>4. Seg(u)' = Done
        BY <2>1, <2>3 DEF Seg, Done
    <2>5. LocalOK(u)'
        <3>1. Loc(u)' \notin AtBarrier /\ Loc(u)' \notin {"rows", "product", "chunk", "computed", "next"}
              /\ Loc(u)' \notin Computing \cup {"spin"}
            BY <2>3 DEF Waiting, Computing, AtBarrier
        <3>2. pc'[u] \in AtBarrier => pc[u] \in AtBarrier
            BY <2>2 DEF Stirs, AtBarrier
        <3>3. pc'[u] = "active" => pc[u] = "active"
            BY <2>2 DEF Stirs
        <3> QED BY <2>1, <3>1, <3>2, <3>3 DEF LocalOK
    <2> QED BY <2>4, <2>5
<1>6. SameSegment'
    BY <1>1, <1>3, <1>5 DEF SameSegment
<1>7. Work(Seg(0))'
    <2>1. PICK s : s = Done /\ s = Seg(0)'
        BY <1>3
    <2>2. s = Done' /\ s[2] = "done" /\ Loc(0)' # "return"
        BY <1>2, <2>1 DEF Done
    <2> QED BY <1>2, <2>1, <2>2 DEF Work
<1> QED BY <1>1, <1>4, <1>5, <1>6, <1>7 DEF IndInv

LEMMA GraphComputeStep ==
    ASSUME IndInv, ~ MayVary, GraphCompute
    PROVE  IndInv'
<1>1. /\ pc[0] = "idle" /\ nGraph < MaxGraphs /\ asked' = asked /\ currentChunk' = 0 /\ abort' = -1
      /\ done' = [k \in 0 .. Last |-> {}] /\ pc' = [pc EXCEPT ![0] = "kickoff"]
      /\ UNCHANGED <<nThreadsCur, nGraph, nBarrier, nPassed, stop, pause, mutex>>
      /\ UNCHANGED <<lastGraph, seen, nth, node, chunk, met, back>>
    BY DEF GraphCompute, Goto, local
<1>2. Types /\ PoolOK /\ Last \in Nat /\ "kickoff" \in Calling \cup {"start"} /\ "kickoff" \in Calling \ {"wake", "return"}
      /\ pc[0] \in Calling \ {"wake"} /\ pc[0] \in Calling
    BY <1>1, Consts DEF IndInv, Calling
<1>3. /\ nThreadsCur' \in 1 .. NThreads /\ nGraph' \in 0 .. MaxGraphs /\ currentChunk' \in Nat
      /\ stop' \in BOOLEAN /\ pause' \in BOOLEAN /\ mutex' \in BOOLEAN /\ abort' \in -1 .. Last + 1
      /\ done' \in [0 .. Last -> SUBSET Int]
    BY <1>1, <1>2 DEF Types
<1>4. Types' /\ BarrierOK' /\ Used' = Used /\ pc'[0] = "kickoff" /\ \A u \in Workers : Stirs(u)
    BY <1>1, <1>2, <1>3, CallerTypes
<1>5. PoolOK'
    BY <1>1, <1>2, <1>4 DEF PoolOK, Stirs, Waiting
<1>6. \A k \in 0 .. Last : done'[k] = {}
    BY <1>1
<1>7. \A k \in 0 .. Last : done'[k] \subseteq Parts(k, asked)
    BY <1>6
<1> QED BY <1>1, <1>2, <1>4, <1>5, <1>6, <1>7, IdleStep

LEMMA DoneNow ==
    ASSUME IndInv, pc[0] \in Calling \ {"wake"}
    PROVE  /\ \A k \in 0 .. Last : done[k] \subseteq Parts(k, asked)
           /\ pc[0] \in {"kickoff", "announce"} => abort = -1 /\ \A k \in 0 .. Last : done[k] = {}
           /\ pc[0] = "return" => \A k \in 0 .. Last : abort = -1 \/ k < abort => Full(k)
<1>1. Loc(0) = pc[0]
    BY DEF Loc, Calling
<1>2. Seg(0) = Done
    BY <1>1 DEF Seg, Calling, Waiting
<1>3. Work(Done)
    BY <1>2 DEF IndInv
<1> QED BY <1>1, <1>3 DEF Work

LEMMA KickoffThreadsStep ==
    ASSUME IndInv, KickoffThreads
    PROVE  IndInv'
<1>1. /\ pc[0] = "kickoff" /\ mutex' = TRUE /\ nThreadsCur' = asked /\ pc' = [pc EXCEPT ![0] = "announce"]
      /\ UNCHANGED <<nGraph, nBarrier, nPassed, currentChunk, stop, pause, abort, asked, done>>
      /\ UNCHANGED <<lastGraph, seen, nth, node, chunk, met, back>>
    BY DEF KickoffThreads, Goto, local
<1>2. Types /\ PoolOK /\ "announce" \in Calling \cup {"start"} /\ "announce" \in Calling \ {"wake", "return"}
      /\ pc[0] \in Calling \ {"wake"} /\ pc[0] \in Calling
    BY <1>1 DEF IndInv, Calling
<1>3. /\ nThreadsCur' \in 1 .. NThreads /\ nGraph' \in 0 .. MaxGraphs /\ currentChunk' \in Nat
      /\ stop' \in BOOLEAN /\ pause' \in BOOLEAN /\ mutex' \in BOOLEAN /\ abort' \in -1 .. Last + 1
      /\ done' \in [0 .. Last -> SUBSET Int]
    BY <1>1, <1>2 DEF Types
<1>4. Types' /\ BarrierOK' /\ Used' = Used /\ pc'[0] = "announce" /\ \A u \in Workers : Stirs(u)
    BY <1>1, <1>2, <1>3, CallerTypes
<1>5. PoolOK'
    BY <1>1, <1>2, <1>4 DEF PoolOK, Stirs, Waiting
<1>6. /\ \A k \in 0 .. Last : done'[k] \subseteq Parts(k, asked)
      /\ abort' = -1 /\ \A k \in 0 .. Last : done'[k] = {}
    BY <1>1, <1>2, DoneNow
<1> QED BY <1>1, <1>2, <1>4, <1>5, <1>6, IdleStep

\* The steps that do not lead to another graph.
LEMMA IdleSteps ==
    ASSUME IndInv, GraphReturn \/ Free \/ Join \/ \E b \in BOOLEAN : SetPause(b)
    PROVE  IndInv'
<1>1. PICK l \in {"idle", "join", "freed"}, p \in {pc, Broadcast(pc)} : pc' = [p EXCEPT ![0] = l]
    <2>1. Types /\ 0 \in Threads
        BY Consts DEF IndInv
    <2>2. CASE GraphReturn \/ Free \/ Join
        BY <2>2 DEF GraphReturn, Free, Join, Goto
    <2>3. CASE \E b \in BOOLEAN : SetPause(b)
        <3>1. pc' = Broadcast(pc) /\ pc[0] = "idle"
            BY <2>3 DEF SetPause
        <3>2. Broadcast(pc)[0] = "idle"
            BY <2>1, <3>1, BroadcastIs
        <3>3. Broadcast(pc) = [Broadcast(pc) EXCEPT ![0] = "idle"]
            BY <2>1, <3>2 DEF Broadcast
        <3> QED BY <3>1, <3>3
    <2> QED BY <2>2, <2>3
<1>2. /\ pc[0] \in {"return", "idle", "join"} /\ stop' \in BOOLEAN /\ pause' \in BOOLEAN
      /\ UNCHANGED <<nThreadsCur, nGraph, nBarrier, nPassed, currentChunk, abort, mutex, asked, done>>
      /\ UNCHANGED <<lastGraph, seen, nth, node, chunk, met, back>>
    BY DEF GraphReturn, Free, Join, SetPause, pool, local, IndInv, Types
<1>3. Types /\ PoolOK /\ l \in Calling \cup {"start"} /\ l \in Calling \ {"wake", "return"}
      /\ pc[0] \in Calling \ {"wake"} /\ pc[0] \in Calling /\ l \notin {"wake", "kickoff", "announce"}
    BY <1>2 DEF IndInv, Calling
<1>4. /\ nThreadsCur' \in 1 .. NThreads /\ nGraph' \in 0 .. MaxGraphs /\ currentChunk' \in Nat
      /\ mutex' \in BOOLEAN /\ abort' \in -1 .. Last + 1 /\ done' \in [0 .. Last -> SUBSET Int]
    BY <1>2, <1>3 DEF Types
<1>5. Types' /\ BarrierOK' /\ Used' = Used /\ pc'[0] = l /\ \A u \in Workers : Stirs(u)
    BY <1>1, <1>2, <1>3, <1>4, CallerTypes
<1>6. PoolOK'
    BY <1>2, <1>3, <1>5 DEF PoolOK, Stirs, Waiting
<1>7. \A k \in 0 .. Last : done'[k] \subseteq Parts(k, asked)
    BY <1>2, <1>3, DoneNow
<1> QED BY <1>2, <1>3, <1>5, <1>6, <1>7, IdleStep

\* The new number of the graph takes everyone to its first segment.
LEMMA KickoffGraphStep ==
    ASSUME IndInv, KickoffGraph
    PROVE  IndInv'
<1>1. /\ pc[0] = "announce" /\ nGraph' = nGraph + 1 /\ pc' = [pc EXCEPT ![0] = "wake"]
      /\ UNCHANGED <<nThreadsCur, nBarrier, nPassed, currentChunk, stop, pause, abort, mutex, asked, done>>
      /\ UNCHANGED <<lastGraph, seen, nth, node, chunk, met, back>>
    BY DEF KickoffGraph, Goto, local
<1>2. /\ Types /\ PoolOK /\ "wake" \in Calling \cup {"start"} /\ pc[0] \in Calling \ {"wake"} /\ pc[0] \in Calling
      /\ nGraph \in Nat /\ Last \in Nat /\ asked \in Nat /\ 0 \in Used
      /\ (\A u \in Used : u \in Nat /\ u < asked /\ (u = 0 \/ u \in Workers))
      /\ \A u \in Used : LocalOK(u)
    <2>1. Types
        BY DEF IndInv
    <2>2. nGraph \in Nat
        BY <2>1 DEF Types
    <2> QED BY <1>1, <2>1, <2>2, Consts DEF IndInv, Calling
<1>3. /\ nThreadsCur' \in 1 .. NThreads /\ nGraph' \in 0 .. MaxGraphs /\ currentChunk' \in Nat
      /\ stop' \in BOOLEAN /\ pause' \in BOOLEAN /\ mutex' \in BOOLEAN /\ abort' \in -1 .. Last + 1
      /\ done' \in [0 .. Last -> SUBSET Int]
    <2>1. nGraph < MaxGraphs /\ MaxGraphs \in Nat
        BY <1>1, <1>2, PoolAssumption DEF PoolOK
    <2>2. nGraph' \in 0 .. MaxGraphs
        BY <1>1, <1>2, <2>1
    <2> QED BY <1>1, <1>2, <2>2 DEF Types
<1>4. Types' /\ BarrierOK' /\ Used' = Used /\ pc'[0] = "wake" /\ \A u \in Workers : Stirs(u)
    BY <1>1, <1>2, <1>3, CallerTypes
<1>5. nGraph' > 0 /\ nGraph' # nGraph /\ nGraph' # 0
    BY <1>1, <1>2
<1>6. PoolOK'
    BY <1>1, <1>2, <1>4, <1>5 DEF PoolOK, Stirs, Waiting
<1>7. Loc(0)' = "wake"
    BY <1>4 DEF Loc
<1>8. \A u \in Used : u # 0 => Loc(u)' \in Waiting /\ lastGraph'[u] # nGraph' /\ pc'[u] # "active" /\ LocalOK(u)'
    <2> SUFFICES ASSUME NEW u \in Used, u # 0
                 PROVE  Loc(u)' \in Waiting /\ lastGraph'[u] # nGraph' /\ pc'[u] # "active" /\ LocalOK(u)'
        OBVIOUS
    <2>1. Loc(u) \in Waiting /\ lastGraph[u] = nGraph /\ LocalOK(u)
        BY <1>2, OthersDone
    <2>2. u \in Threads /\ pc'[u] = pc[u]
        BY <1>1, <1>2, Consts DEF Types
    <2>3. pc[u] # "active"
        BY <2>1 DEF LocalOK
    <2>4. Loc(u)' = Loc(u)
        BY <1>1, <2>2 DEF Loc
    <2>5. Loc(u)' \notin AtBarrier /\ Loc(u)' \notin {"rows", "product", "chunk", "computed", "next"}
          /\ Loc(u)' \notin Computing \cup {"spin"}
        BY <2>1, <2>4 DEF Waiting, Computing, AtBarrier
    <2>6. LocalOK(u)'
        BY <1>1, <2>1, <2>2, <2>3, <2>5 DEF LocalOK
    <2> QED BY <1>1, <1>5, <2>1, <2>2, <2>3, <2>4, <2>6
<1>9. LocalOK(0)'
    BY <1>4, <1>7 DEF LocalOK, Computing, AtBarrier
<1>10. \A u \in Used : Seg(u)' = SegAt(0)'
    BY <1>7, <1>8 DEF Seg, Waiting, Calling
<1>11. SameSegment'
    BY <1>2, <1>4, <1>10 DEF SameSegment
<1>12. abort' = -1 /\ \A k \in 0 .. Last : done'[k] = {}
    BY <1>1, <1>2, DoneNow
<1>13. SegAt(0)' = IF Kind(0) = "rows" THEN <<0, "next">> ELSE <<0, "chunk">>
    BY <1>2, <1>12 DEF SegAt
<1>14. Computes(0)'
    BY <1>2, <1>12 DEF Computes
<1>15. \A u \in Used : ~ Past(u)' /\ (\A p : Bound(u, p)' <=> p = u) /\ Loc(u)' \notin AtBarrier /\ Loc(u)' # "chunk"
    <2> SUFFICES ASSUME NEW u \in Used
                 PROVE  ~ Past(u)' /\ (\A p : Bound(u, p)' <=> p = u) /\ Loc(u)' \notin AtBarrier /\ Loc(u)' # "chunk"
        OBVIOUS
    <2>1. Loc(u)' \in Waiting \cup {"wake"}
        BY <1>7, <1>8
    <2>2. Loc(u)' \notin AtBarrier /\ Loc(u)' # "chunk" /\ Loc(u)' # "computed" /\ Loc(u)' # "loop"
        BY <2>1 DEF Waiting, AtBarrier
    <2> QED BY <2>2 DEF Past, Bound
<1>16. Kind(0) = "rows" => Progress(0)'
    <2> SUFFICES ASSUME Kind(0) = "rows" PROVE Progress(0)'
        OBVIOUS
    <2>1. \A p \in Parts(0, asked) : p \in Used
        BY DEF Parts, Used
    <2>2. done'[0] = {} /\ asked' = asked
        BY <1>1, <1>2, <1>12
    <2> QED BY <1>4, <1>15, <2>1, <2>2 DEF Progress
<1>17. Work(Seg(0))'
    <2>1. PICK z \in 0 .. Last : z = 0
        BY <1>2
    <2>2. PICK s : s = SegAt(0)' /\ s = Seg(0)'
        BY <1>2, <1>10
    <2>3. s # Done' /\ s[1] = z /\ ((s[2] = "next" /\ Kind(z) = "rows") \/ (s[2] = "chunk" /\ Kind(z) # "rows"))
        BY <1>2, <1>13, <2>1, <2>2 DEF Done
    <2>4. Computes(z)' /\ done'[z] = {} /\ (Kind(z) = "rows" => Progress(z)')
        BY <1>12, <1>14, <1>16, <2>1
    <2> QED BY <1>2, <1>4, <1>12, <1>15, <2>2, <2>3, <2>4 DEF Work
<1> QED BY <1>2, <1>4, <1>6, <1>8, <1>9, <1>11, <1>17 DEF IndInv

LEMMA KickoffWakeStep ==
    ASSUME IndInv, KickoffWake
    PROVE  IndInv'
<1>1. /\ pc[0] = "wake" /\ pause' = FALSE /\ mutex' = FALSE /\ pc' = [Broadcast(pc) EXCEPT ![0] = "start"]
      /\ UNCHANGED <<nThreadsCur, nGraph, nBarrier, nPassed, currentChunk, stop, abort, asked, done>>
      /\ UNCHANGED <<lastGraph, seen, nth, node, chunk, met, back>>
    BY DEF KickoffWake, local
<1>2. /\ Types /\ PoolOK /\ "start" \in Calling \cup {"start"} /\ pc[0] \in Calling
      /\ 0 \in Used /\ (\A u \in Used : u = 0 \/ u \in Workers) /\ Work(Seg(0))
      /\ \A u \in Used : LocalOK(u) /\ Seg(u) = Seg(0)
    BY <1>1, Consts DEF IndInv, Calling, SameSegment
<1>3. /\ nThreadsCur' \in 1 .. NThreads /\ nGraph' \in 0 .. MaxGraphs /\ currentChunk' \in Nat
      /\ stop' \in BOOLEAN /\ pause' \in BOOLEAN /\ mutex' \in BOOLEAN /\ abort' \in -1 .. Last + 1
      /\ done' \in [0 .. Last -> SUBSET Int]
    BY <1>1, <1>2 DEF Types
<1>4. Types' /\ BarrierOK' /\ Used' = Used /\ pc'[0] = "start" /\ \A u \in Workers : Stirs(u)
    BY <1>1, <1>2, <1>3, CallerTypes
<1>5. PoolOK'
    BY <1>1, <1>2, <1>4 DEF PoolOK, Stirs, Waiting
<1>6. Loc(0) = "wake" /\ Loc(0)' = "start" /\ nGraph > 0
    BY <1>1, <1>2, <1>4 DEF Loc, PoolOK
<1>7. \A u \in Used : u # 0 => Loc(u)' = Loc(u) \/ (Loc(u) \in Waiting /\ Loc(u)' \in Waiting)
    BY <1>1, <1>2, <1>4 DEF Stirs, Loc, Waiting
<1>8. SegAt(0)' = SegAt(0) /\ \A u \in Used : SegAt(node[u])' = SegAt(node[u]) /\ SegAt(node[u] + 1)' = SegAt(node[u] + 1)
    BY <1>1 DEF SegAt
<1>9. \A u \in Used : Seg(u)' = Seg(0)
    <2>1. Seg(0)' = Seg(0)
        BY <1>6, <1>8 DEF Seg, Waiting, Calling
    <2>2. ASSUME NEW u \in Used, u # 0 PROVE Seg(u)' = Seg(u)
        <3>1. CASE Loc(u)' = Loc(u)
            BY <1>1, <1>8, <3>1 DEF Seg, Done
        <3>2. CASE Loc(u) \in Waiting /\ Loc(u)' \in Waiting
            BY <1>1, <1>8, <3>2 DEF Seg, Done
        <3> QED BY <1>7, <2>2, <3>1, <3>2
    <2> QED BY <1>2, <2>1, <2>2
<1>10. \A u \in Used : LocalOK(u)'
    <2>1. LocalOK(0)'
        BY <1>1, <1>4, <1>6 DEF LocalOK, AtBarrier, Computing
    <2>2. ASSUME NEW u \in Used, u # 0 PROVE LocalOK(u)'
        <3>1. Stirs(u) /\ LocalOK(u)
            BY <1>2, <1>4, <2>2
        <3>2. CASE pc'[u] = pc[u]
            <4>1. Loc(u)' = Loc(u)
                BY <1>1, <3>2 DEF Loc
            <4> QED BY <1>1, <3>1, <3>2, <4>1 DEF LocalOK
        <3>3. CASE pc'[u] \in {"top", "lock"}
            BY <3>3 DEF LocalOK, Loc, AtBarrier, Computing
        <3> QED BY <3>1, <3>2, <3>3 DEF Stirs
    <2> QED BY <2>1, <2>2
<1>11. \A u \in Used : /\ Past(u)' <=> Past(u)
                       /\ Loc(u)' = "chunk" <=> Loc(u) = "chunk"
                       /\ Loc(u)' \in AtBarrier <=> Loc(u) \in AtBarrier
    <2> SUFFICES ASSUME NEW u \in Used
                 PROVE  /\ Past(u)' <=> Past(u)
                        /\ Loc(u)' = "chunk" <=> Loc(u) = "chunk"
                        /\ Loc(u)' \in AtBarrier <=> Loc(u) \in AtBarrier
        OBVIOUS
    <2>1. Loc(u)' = Loc(u) \/ (Loc(u) \in Waiting \cup {"wake"} /\ Loc(u)' \in Waiting \cup {"start"})
        BY <1>6, <1>7
    <2> QED BY <1>1, <2>1 DEF Past, AtBarrier, Waiting
<1>12. \A u \in Used : \A p : Bound(u, p)' <=> Bound(u, p)
    BY <1>1, <1>11 DEF Bound
<1>13. ~ Past(0) /\ Loc(0)' \notin AtBarrier
    BY <1>6 DEF Past, AtBarrier
<1>14. Work(Seg(0))'
    <2>1. PICK s : s = Seg(0) /\ s = Seg(0)'
        BY <1>2, <1>9
    <2>2. Work(s)
        BY <1>2, <2>1
    <2>3. s # Done
        <3>1. Seg(0) = SegAt(0) /\ 0 \in 0 .. Last + 1
            BY <1>2, <1>6, Consts DEF Seg, Waiting, Calling
        <3> QED BY <1>2, <2>1, <3>1, SegAtIs
    <2>4. Computes(s[1])'
        BY <1>1, <2>2, <2>3 DEF Work, Computes, Full
    <2>5. s[2] = "next" => Progress(s[1])' /\ abort' = -1
        <3> SUFFICES ASSUME s[2] = "next" PROVE Progress(s[1])' /\ abort' = -1
            OBVIOUS
        <3>1. Progress(s[1]) /\ abort = -1
            BY <1>13, <2>2 DEF Work
        <3>2. \A p : Unclaimed(s[1], p)' <=> Unclaimed(s[1], p)
            BY <1>1 DEF Unclaimed
        <3> QED BY <1>1, <1>4, <1>11, <1>12, <3>1, <3>2 DEF Progress
    <2>6. s[2] = "chunk" => /\ Kind(s[1]) # "rows" /\ abort' = -1
                            /\ \A u \in Used : Loc(u)' \in AtBarrier => chunk'[u] = u
        BY <1>1, <1>11, <2>2 DEF Work
    <2>7. s[2] \in {"chunk", "abort"} => done'[s[1]] = {}
        BY <1>1, <2>2 DEF Work
    <2> QED BY <1>4, <1>13, <2>1, <2>3, <2>4, <2>5, <2>6, <2>7 DEF Work, Done
<1>15. SameSegment'
    BY <1>2, <1>4, <1>9 DEF SameSegment
<1> QED BY <1>4, <1>5, <1>10, <1>14, <1>15 DEF IndInv

-----------------------------------------------------------------------------
(* The invariant.                                                          *)

LEMMA InitInv ==
    ASSUME Init
    PROVE  IndInv
<1>1. /\ NThreads \in Nat \ {0} /\ Last \in Nat /\ 0 \in Threads /\ Chunks \in Nat /\ MaxGraphs \in Nat
      /\ \A t \in Workers : t \in Threads /\ t # 0
    <2>1. Len(Kinds) \in Nat /\ Len(Kinds) >= 1
        BY PoolAssumption
    <2> QED BY <2>1, PoolAssumption DEF Last, Threads, Workers
<1>2. asked \in 1 .. NThreads
    <2>1. PICK n \in Counts : asked = Clamped(n)
        BY DEF Init
    <2>2. n \in Nat \ {0}
        BY PoolAssumption
    <2> QED BY <1>1, <2>1, <2>2 DEF Clamped
<1>3. /\ pc[0] = "idle" /\ \A t \in Workers : pc[t] = "top"
    BY <1>1 DEF Init
<1>4. Types
    <2>1. pc \in [Threads -> Waiting \cup Computing \cup Calling \cup {"spin"}]
        BY DEF Init, Waiting, Calling
    <2>2. pc[0] \in Calling \cup Computing \cup {"spin"} /\ \A t \in Workers : pc[t] \in Waiting \cup Computing \cup {"spin"}
        BY <1>3 DEF Waiting, Calling
    <2>3. met \in [Threads -> [threads : Nat, passed : Nat]]
        <3>1. [threads |-> 0, passed |-> 0] \in [threads : Nat, passed : Nat]
            OBVIOUS
        <3> QED BY <3>1 DEF Init
    <2>4. /\ nth \in [Threads -> 0 .. NThreads] /\ node \in [Threads -> 0 .. Last + 1]
          /\ lastGraph \in [Threads -> 0 .. MaxGraphs] /\ seen \in [Threads -> 0 .. MaxGraphs]
          /\ chunk \in [Threads -> Nat] /\ back \in [Threads -> {"none", "chunk", "next", "top", "return"}]
        BY <1>1 DEF Init
    <2>5. done \in [0 .. Last -> SUBSET Int]
        BY DEF Init
    <2>6. /\ nThreadsCur \in 1 .. NThreads /\ nGraph \in 0 .. MaxGraphs
          /\ nPassed \in Nat /\ currentChunk \in Nat
          /\ stop \in BOOLEAN /\ pause \in BOOLEAN /\ mutex \in BOOLEAN /\ abort \in -1 .. Last + 1
        <3>1. /\ nThreadsCur = NThreads /\ nGraph = 0 /\ nPassed = 0 /\ currentChunk = 0 /\ abort = -1
              /\ stop = FALSE /\ pause \in BOOLEAN /\ mutex = FALSE
            BY DEF Init
        <3>2. nThreadsCur \in 1 .. NThreads /\ nGraph \in 0 .. MaxGraphs
            BY <1>1, <3>1
        <3>3. nPassed \in Nat /\ currentChunk \in Nat /\ abort \in -1 .. Last + 1
            BY <1>1, <3>1
        <3> QED BY <3>1, <3>2, <3>3
    <2> QED BY <1>2, <2>1, <2>2, <2>3, <2>4, <2>5, <2>6 DEF Types
<1>5. 0 \in Used /\ \A u \in Used : u \in Threads /\ (u = 0 \/ u \in Workers)
    BY <1>4, Consts
<1>6. PoolOK
    BY <1>1, <1>3 DEF PoolOK, Init, Waiting
<1>7. BarrierOK
    <2>1. Gathered = {}
        BY <1>3, <1>5 DEF Gathered, Arrived
    <2>2. Cardinality({}) = 0
        BY FS_EmptySet
    <2>3. \A u \in Used : pc[u] \notin {"arrive", "last", "release", "spin"}
        BY <1>3, <1>5
    <2> QED BY <2>1, <2>2, <2>3 DEF BarrierOK, Init
<1>8. \A u \in Used : Loc(u) = pc[u] /\ Seg(u) = Done /\ LocalOK(u)
    <2> SUFFICES ASSUME NEW u \in Used PROVE Loc(u) = pc[u] /\ Seg(u) = Done /\ LocalOK(u)
        OBVIOUS
    <2>1. pc[u] = IF u = 0 THEN "idle" ELSE "top"
        BY <1>3, <1>5
    <2>2. Loc(u) = pc[u]
        BY <2>1 DEF Loc
    <2>3. lastGraph[u] = 0 /\ nGraph = 0
        BY <1>5 DEF Init
    <2>4. Seg(u) = Done
        BY <2>1, <2>2, <2>3 DEF Seg, Waiting, Calling
    <2>5. LocalOK(u)
        BY <2>1, <2>2 DEF LocalOK, AtBarrier, Computing
    <2> QED BY <2>2, <2>4, <2>5
<1>9. Work(Seg(0))
    <2>1. Seg(0) = Done /\ Loc(0) = "idle" /\ \A k \in 0 .. Last : done[k] = {}
        BY <1>3, <1>5, <1>8 DEF Init
    <2> QED BY <2>1 DEF Work, Done
<1> QED BY <1>4, <1>5, <1>6, <1>7, <1>8, <1>9 DEF IndInv, SameSegment

LEMMA NextInv ==
    ASSUME IndInv, ~ MayVary, [Next]_vars
    PROVE  IndInv'
<1>1. CASE Next
    <2>1. \A t \in Workers : t \in Threads
        BY DEF Workers
    <2>2. 0 \in Threads
        BY Consts DEF IndInv
    <2> QED
        BY <1>1, <2>1, <2>2, ComputeStep, WaitSteps, GraphComputeStep, KickoffThreadsStep, KickoffGraphStep,
           KickoffWakeStep, IdleSteps
           DEF Next, Call, Main, Worker
<1>2. CASE UNCHANGED vars
    <2>1. UNCHANGED <<nThreadsCur, nGraph, nBarrier, nPassed, currentChunk, stop, pause, abort, mutex, pc,
                      lastGraph, seen, nth, node, chunk, met, back, asked, done>>
        BY <1>2 DEF vars, pool, local
    <2>2. Types' /\ PoolOK'
        BY <2>1 DEF IndInv, Types, PoolOK
    <2>3. Used' = Used /\ \A u : Loc(u)' = Loc(u) /\ Arrived(u)' = Arrived(u)
        BY <2>1 DEF Used, Loc, Arrived
    <2>4. BarrierOK'
        BY <2>1, <2>3 DEF IndInv, BarrierOK, Gathered
    <2>5. \A k : SegAt(k)' = SegAt(k)
        BY <2>1 DEF SegAt
    <2>6. \A u : Seg(u)' = Seg(u)
        BY <2>1, <2>3, <2>5 DEF Seg, Done
    <2>7. \A u : (LocalOK(u)' <=> LocalOK(u)) /\ (Past(u)' <=> Past(u))
        BY <2>1, <2>3 DEF LocalOK, Past
    <2>8. \A u, p : Bound(u, p)' <=> Bound(u, p)
        BY <2>1, <2>3, <2>7 DEF Bound
    <2>9. \A k : (Progress(k)' <=> Progress(k)) /\ (Full(k)' <=> Full(k))
        BY <2>1, <2>3, <2>7, <2>8 DEF Progress, Full, Unclaimed
    <2>10. \A k : Computes(k)' <=> Computes(k)
        BY <2>1, <2>9 DEF Computes
    <2>11. PICK s : s = Seg(0) /\ s = Seg(0)'
        BY <2>6
    <2>12. Work(Seg(0))'
        <3>1. Work(s)
            BY <2>11 DEF IndInv
        <3> QED BY <2>1, <2>3, <2>7, <2>9, <2>10, <2>11, <3>1 DEF Work, Done
    <2> QED BY <2>2, <2>3, <2>4, <2>6, <2>7, <2>12 DEF IndInv, SameSegment
<1> QED BY <1>1, <1>2

\* The invariant holds.
LEMMA Invariance == ~ MayVary => (Spec => []IndInv)
<1> SUFFICES ASSUME ~ MayVary PROVE Spec => []IndInv
    OBVIOUS
<1>1. Init => IndInv
    BY InitInv
<1>2. IndInv /\ [Next]_vars => IndInv'
    BY NextInv
<1> QED BY <1>1, <1>2, PTL DEF Spec

-----------------------------------------------------------------------------
(* What follows from it.                                                   *)

\* At all times, only parts of a node are marked as computed.
LEMMA OnlyParts ==
    ASSUME IndInv, NEW k \in 0 .. Last
    PROVE  done[k] \subseteq Parts(k, asked)
<1>1. Types /\ Work(Seg(0)) /\ LocalOK(0) /\ 0 \in Used /\ Last \in Nat
    BY Consts DEF IndInv
<1>2. CASE Seg(0) = Done
    BY <1>1, <1>2 DEF Work
<1>3. CASE Seg(0) # Done
    <2>1. PICK j \in 0 .. Last : j = Seg(0)[1]
        BY <1>1, <1>3, SegIs
    <2>2. Computes(j)
        BY <1>1, <1>3, <2>1 DEF Work
    <2>3. Seg(0)[2] \in {"next", "abort", "chunk"}
        <3>1. node[0] \in 0 .. Last + 1 /\ 0 \in 0 .. Last + 1 /\ (Loc(0) = "next" => node[0] + 1 \in 0 .. Last + 1)
            <4>1. node[0] \in 0 .. Last + 1
                BY <1>1, Consts DEF Types
            <4> QED BY <1>1, <4>1 DEF LocalOK
        <3>2. /\ SegAt(0)[2] \in {"next", "abort", "chunk"} /\ SegAt(node[0])[2] \in {"next", "abort", "chunk"}
              /\ Loc(0) = "next" => SegAt(node[0] + 1)[2] \in {"next", "abort", "chunk"}
            BY <1>1, <3>1, SegAtIs
        <3> QED BY <1>3, <3>2 DEF Seg
    <2>4. CASE k # j
        <3>1. k < j \/ k > j
            BY <2>4
        <3> QED BY <2>2, <3>1 DEF Computes, Full
    <2>5. CASE k = j
        <3>1. Seg(0)[2] \in {"chunk", "abort"} => done[j] = {}
            BY <1>1, <2>1 DEF Work
        <3>2. Seg(0)[2] = "next" => Progress(j)
            BY <1>1, <2>1 DEF Work
        <3> QED BY <2>3, <2>5, <3>1, <3>2 DEF Progress
    <2> QED BY <2>4, <2>5
<1> QED BY <1>2, <1>3

LEMMA GatheredIs ==
    ASSUME IndInv
    PROVE  /\ Gathered = {t \in Threads : Arrived(t)}
           /\ IsFiniteSet(Gathered) /\ Cardinality(Gathered) \in 0 .. NThreads
           /\ \A t \in Threads : t \notin Used => pc[t] \in Waiting
<1>1. Types /\ asked \in Nat /\ asked >= 1 /\ asked <= NThreads /\ NThreads \in Nat /\ PoolOK
      /\ (\A t \in Used : t \in Threads) /\ 0 \in Used
    BY Consts DEF IndInv
<1>2. \A t \in Threads : t \notin Used => pc[t] \in Waiting
    BY <1>1 DEF PoolOK, Used, Threads, Workers
<1>3. Gathered = {t \in Threads : Arrived(t)}
    BY <1>1, <1>2 DEF Gathered, Arrived, Waiting
<1>4. IsFiniteSet(Used) /\ Cardinality(Used) = asked
    <2>1. 0 \in Int /\ asked - 1 \in Int
        BY <1>1
    <2>2. IsFiniteSet(0 .. asked - 1) /\ Cardinality(0 .. asked - 1) = IF 0 > asked - 1 THEN 0 ELSE (asked - 1) - 0 + 1
        BY ONLY <2>1, FS_Interval, Zenon
    <2> QED BY <1>1, <2>2 DEF Used
<1>5. Gathered \subseteq Used
    BY DEF Gathered
<1>6. IsFiniteSet(Gathered) /\ Cardinality(Gathered) <= asked
    BY <1>4, <1>5, FS_Subset
<1>7. Cardinality(Gathered) \in Nat
    BY <1>6, FS_CardinalityType
<1> QED BY <1>1, <1>2, <1>3, <1>6, <1>7

\* Type correctness of the pool, for every number of threads and every graph, if
\* the caller does not change the number of threads.
THEOREM TypeCorrect == ~ MayVary => (Spec => []TypeOK)
<1>1. IndInv => TypeOK
    <2> SUFFICES ASSUME IndInv PROVE TypeOK
        OBVIOUS
    <2>1. Types /\ Last \in Nat /\ NThreads \in Nat /\ asked \in Nat /\ asked <= NThreads
        BY Consts DEF IndInv
    <2>2. nBarrier \in 0 .. NThreads
        BY <2>1, GatheredIs DEF IndInv, BarrierOK
    <2>3. \A k \in 0 .. Last : done[k] \subseteq Parts(k, NThreads)
        <3> SUFFICES ASSUME NEW k \in 0 .. Last PROVE Parts(k, asked) \subseteq Parts(k, NThreads)
            BY OnlyParts
        <3> QED BY <2>1 DEF Parts
    <2> QED BY <2>1, <2>2, <2>3 DEF Types, TypeOK
<1> QED BY <1>1, Invariance, PTL

\* When ggml_graph_compute() is called, or the pool is freed, no thread computes
\* the last graph or is about to compute: the parameters can be written.  A
\* worker that was not let go yet only has to leave the last barrier.
THEOREM QuietBetweenGraphs == ~ MayVary => (Spec => []PoolIsQuiet)
<1>1. IndInv => PoolIsQuiet
    <2> SUFFICES ASSUME IndInv, pc[0] \in {"idle", "kickoff", "join"}, NEW t \in Workers
                 PROVE  pc[t] \notin Computing
        BY DEF PoolIsQuiet
    <2>1. t \in Threads /\ t # 0 /\ pc[0] \in Calling \ {"wake"}
        BY Consts DEF IndInv, Calling
    <2>2. CASE t \in Used
        <3>1. Loc(t) \in Waiting /\ Loc(t) = IF pc[t] = "spin" THEN "top" ELSE pc[t]
            BY <2>1, <2>2, OthersDone
        <3> QED BY <3>1 DEF Waiting, Computing
    <2>3. CASE t \notin Used
        <3>1. pc[t] \in Waiting
            BY <2>1, <2>3, GatheredIs
        <3> QED BY <3>1 DEF Waiting, Computing
    <2> QED BY <2>2, <2>3
<1> QED BY <1>1, Invariance, PTL

\* ggml_barrier() stays in step: n_barrier counts the threads that wait, and
\* n_barrier_passed is at most one ahead of what a spinning thread read.
THEOREM BarrierIsSound == ~ MayVary => (Spec => []BarrierInStep)
<1>1. IndInv => BarrierInStep
    <2> SUFFICES ASSUME IndInv PROVE BarrierInStep
        OBVIOUS
    <2>1. BarrierOK /\ \A t \in Threads : t \notin Used => pc[t] \in Waiting
        BY GatheredIs DEF IndInv
    <2>2. \A t \in Threads : pc[t] \in {"arrive", "last", "release", "spin"} => t \in Used
        BY <2>1 DEF Waiting
    <2>3. \A t \in Used : t \in Threads
        BY Consts DEF IndInv
    <2>4. (\A t \in Threads : pc[t] # "release") => nBarrier = Cardinality({t \in Threads : Arrived(t)})
        BY <2>1, <2>3, GatheredIs DEF BarrierOK
    <2> QED BY <2>1, <2>2, <2>4 DEF BarrierOK, BarrierInStep
<1> QED BY <1>1, Invariance, PTL

-----------------------------------------------------------------------------
(* A graph is computed as GraphRun says.                                   *)

Busy == pc[0] \notin {"idle", "join", "freed"}

\* A thread that computes does so for a call that is under way.
LEMMA BusyNow ==
    ASSUME IndInv, NEW t \in Threads, pc[t] \in {"rows", "chunk"}
    PROVE  Busy
<1>1. Seg(t) = <<node[t], "next">> /\ Seg(t) = Seg(0)
    BY AtWork, TakesPart DEF Computing
<1>2. Seg(0) # Done
    BY <1>1 DEF Done
<1> QED BY <1>2 DEF Busy, Seg, Loc, Calling, Waiting, Done

\* A step of a thread that computes leaves the caller where it counts as busy.
LEMMA BusyStays ==
    ASSUME IndInv, NEW t \in Threads, Compute(t)
    PROVE  Busy' <=> Busy
<1>1. Types /\ 0 \in Threads
    BY Consts DEF IndInv
<1>2. pc[t] \in Computing \cup {"spin"}
    BY DEF Compute, Start, Enter, EndOfGraph, Rows, Product, Chunk, NoMoreChunks, Computed, NextNode, Barrier,
           Arrive, ResetBarrier, ReleaseBarrier, Spin, Computing
<1>3. LocalOK(t)
    BY <1>2, TakesPart
<1>4. PICK l \in {"loop", "rows", "product", "barrier", "computed", "arrive", "last", "spin", "release",
                  pc[t], back[t]} :
          /\ pc' = [pc EXCEPT ![t] = l]
          /\ l = back[t] => pc[t] \in AtBarrier \/ l \notin {"idle", "join", "freed"}
    <2>1. pc = [pc EXCEPT ![t] = pc[t]]
        BY <1>1 DEF Types
    <2>2. pc[t] \notin {"idle", "join", "freed"}
        BY <1>2 DEF Computing
    <2> QED BY <2>1, <2>2 DEF Compute, Start, Enter, EndOfGraph, Rows, Product, Chunk, NoMoreChunks, Computed, NextNode,
                    Barrier, Arrive, ResetBarrier, ReleaseBarrier, Spin, Goto, Meet, Leave, AtBarrier
<1>5. pc[t] \notin {"idle", "join", "freed"} /\ l \notin {"idle", "join", "freed"}
    BY <1>2, <1>3, <1>4 DEF Computing, LocalOK, AtBarrier
<1>6. pc'[t] = l /\ \A u \in Threads : u # t => pc'[u] = pc[u]
    BY <1>1, <1>4 DEF Types
<1> QED BY <1>1, <1>5, <1>6 DEF Busy

\* A part is computed when all earlier nodes are, and once.
LEMMA PartStep ==
    ASSUME IndInv, NEW t \in Threads, Rows(t) \/ Chunk(t)
    PROVE  \E k \in 0 .. Last : \E p \in Parts(k, asked) : Graph!Compute(k, p)
<1>1. pc[t] \in {"rows", "chunk"} /\ UNCHANGED <<asked, abort>>
    BY DEF Rows, Chunk, pool
<1>2. PICK p : p = IF pc[t] = "rows" THEN t ELSE chunk[t]
    OBVIOUS
<1>3. done' = [done EXCEPT ![node[t]] = @ \cup {IF p \in @ THEN Again ELSE p}]
    BY <1>2 DEF Rows, Chunk, Mark
<1>4. /\ t \in Used /\ Types /\ Loc(t) = pc[t] /\ asked \in Nat /\ ~ Past(t) /\ nth[t] = asked /\ Last \in Nat
      /\ node[t] \in 0 .. Last /\ Progress(node[t]) /\ (Kind(node[t]) = "rows" <=> pc[t] = "rows")
      /\ abort = -1 \/ abort = node[t] + 1
      /\ Seg(t) = <<node[t], "next">>
    BY <1>1, AtWork
<1>5. PICK k \in 0 .. Last : k = node[t]
    BY <1>4
<1>6. Computes(k)
    <2>1. Work(Seg(t))
        BY <1>1, TakesPart DEF Computing
    <2> QED BY <1>4, <1>5, <2>1 DEF Work, Done
<1>7. Bound(t, p)
    BY <1>1, <1>2, <1>4 DEF Bound
<1>8. p \in Parts(k, asked)
    <2>1. t \in Nat /\ t < asked /\ Chunks \in Nat
        BY <1>4, Consts
    <2>2. CASE pc[t] = "rows"
        BY <1>2, <1>4, <1>5, <2>1, <2>2 DEF Parts
    <2>3. CASE pc[t] = "chunk"
        <3>1. chunk[t] \in Nat
            BY <1>4 DEF Types
        <3>2. chunk[t] < IF Kind(k) = "chunked" THEN Chunks ELSE asked
            BY <1>4, <1>5, <2>3 DEF Rows, Chunk, NChunks
        <3> QED BY <1>2, <1>4, <2>1, <2>3, <3>1, <3>2 DEF Parts
    <2> QED BY <1>1, <2>2, <2>3
<1>9. p \notin done[k]
    BY <1>4, <1>5, <1>7 DEF Progress
<1>10. done' = [done EXCEPT ![k] = @ \cup {p}]
    BY <1>3, <1>5, <1>9
<1>11. \A j \in 0 .. k - 1 : Full(j)
    <2> SUFFICES ASSUME NEW j \in 0 .. k - 1 PROVE Full(j)
        OBVIOUS
    <2>1. j \in 0 .. Last /\ j < k
        BY <1>4
    <2> QED BY <1>6, <2>1 DEF Computes
<1>12. Busy /\ (Busy' <=> Busy)
    BY <1>1, BusyNow, BusyStays DEF Compute
<1>13. abort = -1 \/ k < abort
    BY <1>4, <1>5
<1>14. Graph!Compute(k, p)
    <2>1. k \in Graph!Wanted
        BY <1>13 DEF Graph!Wanted, Graph!Nodes
    <2>2. \A j \in 0 .. k - 1 : Graph!Complete(j)
        BY <1>11 DEF Full, Graph!Complete
    <2> QED BY <1>1, <1>8, <1>9, <1>10, <1>12, <2>1, <2>2 DEF Graph!Compute, Busy
<1> QED BY <1>8, <1>14

\* The callback is asked while the node is computed.
LEMMA AbortStep ==
    ASSUME IndInv, NEW t \in Threads, Computed(t), abort' # abort
    PROVE  \E k \in 0 .. Last : Graph!Abort(k)
<1>1. /\ pc[0] = "computed" /\ t = 0 /\ abort' = node[0] + 1
      /\ UNCHANGED <<asked, done>>
    BY DEF Computed
<1>2. 0 \in Threads /\ 0 \in Used /\ LocalOK(0) /\ Loc(0) = "computed" /\ Work(Seg(0)) /\ Last \in Nat /\ Types
    BY <1>1, TakesPart, Consts DEF IndInv, Computing
<1>3. PICK k \in 0 .. Last : k = node[0]
    <2>1. node[0] \in 0 .. Last + 1 /\ node[0] <= Last
        BY <1>2 DEF LocalOK, Types
    <2> QED BY <1>2, <2>1
<1>4. Seg(0) = <<k, "next">>
    BY <1>2, <1>3 DEF Seg, AtBarrier, Waiting, Calling
<1>5. Computes(k) /\ abort = -1
    BY <1>2, <1>4 DEF Work, Done
<1>6. \A j \in 0 .. k - 1 : Full(j)
    <2> SUFFICES ASSUME NEW j \in 0 .. k - 1 PROVE Full(j)
        OBVIOUS
    <2>1. j \in 0 .. Last /\ j < k
        BY <1>2
    <2> QED BY <1>5, <2>1 DEF Computes
<1>7. \A j \in 0 .. Last : j > k => done[j] = {}
    BY <1>5 DEF Computes
<1>8. Busy /\ Busy'
    BY <1>1, <1>2, BusyStays DEF Busy, Compute
<1>9. k \in Graph!Wanted
    BY <1>5 DEF Graph!Wanted, Graph!Nodes
<1>10. \A j \in 0 .. k - 1 : Graph!Complete(j)
    BY <1>6 DEF Full, Graph!Complete
<1>11. Graph!Abort(k)
    BY <1>1, <1>3, <1>7, <1>8, <1>9, <1>10 DEF Graph!Abort, Graph!Nodes, Busy
<1> QED BY <1>11

LEMMA GraphStep ==
    ASSUME IndInv, ~ MayVary, [Next]_vars
    PROVE  [Graph!Next]_(Graph!vars)
<1>1. Types /\ 0 \in Threads /\ asked \in Nat /\ \A t \in Workers : t \in Threads /\ t # 0
    BY Consts DEF IndInv
<1>2. ASSUME UNCHANGED <<asked, done, abort>>, Busy' <=> Busy
      PROVE  UNCHANGED (Graph!vars)
    BY <1>2 DEF Graph!vars, Busy
<1>3. ASSUME NEW t \in Threads, Compute(t)
      PROVE  [Graph!Next]_(Graph!vars)
    <2>1. CASE Rows(t) \/ Chunk(t)
        BY <2>1, PartStep DEF Graph!Next, Graph!Step, Graph!Nodes
    <2>2. CASE Computed(t) /\ abort' # abort
        BY <2>2, AbortStep DEF Graph!Next, Graph!Step, Graph!Nodes
    <2>3. CASE ~ (Rows(t) \/ Chunk(t)) /\ ~ (Computed(t) /\ abort' # abort)
        <3>1. UNCHANGED <<asked, done, abort>>
            BY <1>3, <2>3 DEF Compute, Start, Enter, EndOfGraph, Product, NoMoreChunks, Computed, NextNode, Barrier,
                   Arrive, ResetBarrier, ReleaseBarrier, Spin, pool
        <3>2. Busy' <=> Busy
            BY <1>3, BusyStays
        <3> QED BY <1>2, <3>1, <3>2
    <2> QED BY <2>1, <2>2, <2>3
<1>4. ASSUME NEW t \in Workers,
             Top(t) \/ PauseLoop(t) \/ CheckStop(t) \/ Poll(t) \/ ReadGraph(t) \/ ReadActive(t)
             \/ StopPolling(t) \/ CheckForWork(t) \/ WakeUp(t)
      PROVE  [Graph!Next]_(Graph!vars)
    <2>1. UNCHANGED <<asked, done, abort>>
        BY <1>4 DEF Top, PauseLoop, CheckStop, Poll, ReadGraph, ReadActive, StopPolling, CheckForWork, WakeUp, pool
    <2>2. \E l : pc' = [pc EXCEPT ![t] = l]
        BY <1>4 DEF Top, PauseLoop, CheckStop, Poll, ReadGraph, ReadActive, StopPolling, CheckForWork, WakeUp, Goto
    <2>3. pc'[0] = pc[0]
        BY <1>1, <2>2
    <2> QED BY <1>2, <2>1, <2>3 DEF Busy
<1>5. CASE GraphCompute
    <2>1. ~ Busy /\ Busy' /\ asked' = asked /\ abort' = -1 /\ done' = [k \in 0 .. Last |-> {}]
        BY <1>1, <1>5 DEF GraphCompute, Goto, Busy, Types
    <2> QED BY <1>1, <2>1 DEF Graph!Next, Graph!Begin, Graph!Nodes, Busy
<1>6. CASE GraphReturn
    <2>1. pc[0] = "return" /\ pc'[0] = "idle" /\ UNCHANGED <<asked, done, abort>>
        BY <1>1, <1>6 DEF GraphReturn, Goto, pool, Types
    <2>2. \A k \in 0 .. Last : abort = -1 \/ k < abort => Full(k)
        BY <2>1, DoneNow DEF Calling
    <2>3. \A k \in Graph!Wanted : Graph!Complete(k)
        BY <2>2 DEF Graph!Wanted, Graph!Nodes, Graph!Complete, Full
    <2> QED BY <2>1, <2>3 DEF Graph!Next, Graph!Step, Graph!Return
<1>7. CASE KickoffThreads \/ KickoffGraph \/ KickoffWake \/ Join \/ Free \/ \E b \in BOOLEAN : SetPause(b)
    <2>1. UNCHANGED <<asked, done, abort>>
        BY <1>7 DEF KickoffThreads, KickoffGraph, KickoffWake, Join, Free, SetPause, pool
    <2>2. Broadcast(pc)[0] = pc[0] /\ DOMAIN Broadcast(pc) = Threads /\ DOMAIN pc = Threads
        BY <1>1, BroadcastIs DEF Broadcast, Types
    <2>3. Busy' <=> Busy
        BY <1>1, <1>7, <2>2 DEF KickoffThreads, KickoffGraph, KickoffWake, Join, Free, SetPause, Goto, Busy
    <2> QED BY <1>2, <2>1, <2>3
<1>8. CASE UNCHANGED vars
    BY <1>2, <1>8 DEF vars, pool, Busy
<1> QED
    BY <1>1, <1>3, <1>4, <1>5, <1>6, <1>7, <1>8 DEF Next, Call, Main, Worker

LEMMA GraphInit ==
    ASSUME Init
    PROVE  Graph!Init
<1>1. Types /\ asked \in Nat /\ 0 \in Threads
    BY InitInv, Consts DEF IndInv
<1>2. pc[0] = "idle"
    BY <1>1 DEF Init
<1> QED BY <1>1, <1>2 DEF Init, Graph!Init, Graph!Nodes

\* The safety part of ComputesGraph: however many threads take part and however
\* they are scheduled, each part of each node is computed once, after all nodes
\* before it, no node is computed from the one on at which the graph was aborted, and
\* the call returns only when all the others are complete.
THEOREM GraphIsComputed == ~ MayVary => (Spec => Graph!Init /\ [][Graph!Next]_(Graph!vars))
<1> SUFFICES ASSUME ~ MayVary PROVE Spec => Graph!Init /\ [][Graph!Next]_(Graph!vars)
    OBVIOUS
<1>1. IndInv /\ [Next]_vars => [Graph!Next]_(Graph!vars)
    BY GraphStep
<1>2. Init => Graph!Init
    BY GraphInit
<1> QED BY <1>1, <1>2, Invariance, PTL DEF Spec
=============================================================================
