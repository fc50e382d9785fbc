----------------------------- MODULE ThreadPool -----------------------------
(***************************************************************************)
(* The threads that compute a graph on the CPU, ggml_threadpool of         *)
(* src/llyy.cpp/ggml/src/ggml-cpu/ggml-cpu.c, as built without OpenMP.     *)
(* Thread 0 is the caller of ggml_graph_compute(); the other ones poll for *)
(* a new graph for a while and then sleep on a condition variable.  All of *)
(* them go through the nodes of the graph and meet at a barrier after each *)
(* one.  Every read or write of a shared variable outside the mutex is a   *)
(* step of its own, where others can tell; memory is sequentially          *)
(* consistent.                                                             *)
(***************************************************************************)
EXTENDS Integers, Sequences, FiniteSets

CONSTANTS
    NThreads,   \* n_threads_max
    Kinds,      \* the nodes of a graph: "chunked", "split" (matrix products) or "rows"
    Chunks,     \* chunks of a "chunked" product
    Counts,     \* numbers of threads that a caller asks for
    MayVary,    \* whether it asks for another number with another graph
    MaxGraphs   \* bound: graphs that are computed

ASSUME PoolAssumption ==
    /\ NThreads \in Nat \ {0}
    /\ Kinds \in Seq({"chunked", "split", "rows"}) /\ Kinds # << >>
    /\ Chunks \in Nat /\ Chunks > NThreads
    /\ Counts \subseteq Nat \ {0} /\ Counts # {}
    /\ MayVary \in BOOLEAN /\ MaxGraphs \in Nat

VARIABLES
    \* ggml_threadpool
    nThreadsCur, nGraph, nBarrier, nPassed, currentChunk, stop, pause, abort,
    mutex,      \* whether thread 0 holds the mutex over several steps
    \* the threads
    pc,
    lastGraph,  \* last_graph of the thread's state
    seen,       \* new_graph of ggml_graph_compute_thread_ready()
    nth,        \* params.nth
    node,       \* node_n
    chunk,      \* current_chunk of ggml_compute_forward_mul_mat()
    met,        \* n_threads and n_passed of ggml_barrier()
    back,       \* where ggml_barrier() returns to
    \* the caller
    asked,      \* n_threads of ggml_graph_compute()
    done        \* history: the parts of each node that were computed

pool == <<nThreadsCur, nGraph, nBarrier, nPassed, currentChunk, stop, pause, abort, mutex>>
local == <<lastGraph, seen, nth, node, chunk, met, back>>
vars == <<pool, pc, local, asked, done>>

Threads == 0 .. NThreads - 1
Workers == Threads \ {0}
Last == Len(Kinds) - 1
Kind(k) == Kinds[k + 1]

\* The parts of a node: its chunks, or one for each of w threads.
Parts(k, w) == 0 .. (IF Kind(k) = "chunked" THEN Chunks ELSE w) - 1

\* Mutant of Clamped: no bound.
ClampedNot(n) == n
\* GGML_LOG_WARN("cplan requested more threads ..."), then as many as there are.
Clamped(n) == IF n > NThreads THEN NThreads ELSE n

Init ==
    /\ nThreadsCur = NThreads /\ nGraph = 0
    /\ nBarrier = 0 /\ nPassed = 0 /\ currentChunk = 0
    /\ stop = FALSE /\ pause \in BOOLEAN /\ abort = -1 /\ mutex = FALSE
    /\ pc = [t \in Threads |-> IF t = 0 THEN "idle" ELSE "top"]
    /\ lastGraph = [t \in Threads |-> 0] /\ seen = [t \in Threads |-> 0]
    /\ nth = [t \in Threads |-> 0] /\ node = [t \in Threads |-> 0]
    /\ chunk = [t \in Threads |-> 0]
    /\ met = [t \in Threads |-> [threads |-> 0, passed |-> 0]]
    /\ back = [t \in Threads |-> "none"]
    /\ asked \in {Clamped(n) : n \in Counts}
    /\ done = [k \in 0 .. Last |-> {}]

Goto(t, l) == pc' = [pc EXCEPT ![t] = l]

-----------------------------------------------------------------------------
(* Waiting for work: ggml_graph_compute_secondary_thread() and what it     *)
(* calls.  The flag pending is pc = "start".                               *)

\* The pause loop; stop is looked at when it ends.
Top(t) ==
    /\ pc[t] = "top"
    /\ Goto(t, IF pause THEN "paused" ELSE "stop")
    /\ UNCHANGED <<pool, local, asked, done>>

PauseLoop(t) ==
    /\ pc[t] = "paused" /\ ~ mutex
    /\ Goto(t, IF pause THEN "dozing" ELSE "top")
    /\ UNCHANGED <<pool, local, asked, done>>

CheckStop(t) ==
    /\ pc[t] = "stop"
    /\ Goto(t, IF stop THEN "exited" ELSE "poll")
    /\ UNCHANGED <<pool, local, asked, done>>

Active(t) == t < nThreadsCur

\* Unused threads do not poll.
Poll(t) ==
    /\ pc[t] = "poll"
    /\ Goto(t, IF Active(t) THEN "ready" ELSE "lock")
    /\ UNCHANGED <<pool, local, asked, done>>

\* ready() without the mutex: it reads the flags and n_graph, ...
ReadGraph(t) ==
    /\ pc[t] = "ready" /\ ~ stop /\ ~ pause
    /\ nGraph # lastGraph[t]
    /\ seen' = [seen EXCEPT ![t] = nGraph]
    /\ Goto(t, "active")
    /\ UNCHANGED <<pool, lastGraph, nth, node, chunk, met, back, asked, done>>

\* ... then n_threads_cur.
ReadActive(t) ==
    /\ pc[t] = "active"
    /\ lastGraph' = [lastGraph EXCEPT ![t] = seen[t]]
    /\ Goto(t, IF Active(t) THEN "start" ELSE "ready")
    /\ UNCHANGED <<pool, seen, nth, node, chunk, met, back, asked, done>>

\* The rounds of polling are over, or ready() was true because of a flag.
StopPolling(t) ==
    /\ pc[t] = "ready"
    /\ Goto(t, "lock")
    /\ UNCHANGED <<pool, local, asked, done>>

\* ready() with the mutex, then cond_wait.
CheckForWork(t) ==
    /\ pc[t] = "lock" /\ ~ mutex
    /\ IF stop \/ pause
       THEN Goto(t, "top") /\ UNCHANGED lastGraph
       ELSE /\ lastGraph' = [lastGraph EXCEPT ![t] = nGraph]
            /\ Goto(t, IF nGraph # lastGraph[t] /\ Active(t) THEN "start" ELSE "asleep")
    /\ UNCHANGED <<pool, seen, nth, node, chunk, met, back, asked, done>>

Woken(l) == CASE l = "dozing" -> "top" [] l = "asleep" -> "lock" [] OTHER -> l
\* ggml_cond_broadcast()
Broadcast(p) == [t \in Threads |-> Woken(p[t])]

\* A condition variable may wake up by itself.
WakeUp(t) ==
    /\ pc[t] \in {"dozing", "asleep"}
    /\ Goto(t, Woken(pc[t]))
    /\ UNCHANGED <<pool, local, asked, done>>

-----------------------------------------------------------------------------
(* ggml_barrier()                                                          *)

Meet(t, l) == Goto(t, "barrier") /\ back' = [back EXCEPT ![t] = l]

\* The statement after the call.
Leave(t) ==
    /\ Goto(t, back[t])
    /\ back' = [back EXCEPT ![t] = "none"]

Barrier(t) ==
    /\ pc[t] = "barrier"
    /\ IF nThreadsCur = 1
       THEN Leave(t) /\ UNCHANGED met
       ELSE /\ met' = [met EXCEPT ![t] = [threads |-> nThreadsCur, passed |-> nPassed]]
            /\ Goto(t, "arrive")
            /\ UNCHANGED back
    /\ UNCHANGED <<pool, lastGraph, seen, nth, node, chunk, asked, done>>

\* Mutant of Arrive: the last but one releases the others.
ArriveEarly(t) ==
    /\ pc[t] = "arrive"
    /\ nBarrier' = nBarrier + 1
    /\ Goto(t, IF nBarrier >= met[t].threads - 2 THEN "last" ELSE "spin")
    /\ UNCHANGED <<nThreadsCur, nGraph, nPassed, currentChunk, stop, pause, abort, mutex,
                   local, asked, done>>
Arrive(t) ==
    /\ pc[t] = "arrive"
    /\ nBarrier' = nBarrier + 1
    /\ Goto(t, IF nBarrier = met[t].threads - 1 THEN "last" ELSE "spin")
    /\ UNCHANGED <<nThreadsCur, nGraph, nPassed, currentChunk, stop, pause, abort, mutex,
                   local, asked, done>>

ResetBarrier(t) ==
    /\ pc[t] = "last"
    /\ nBarrier' = 0
    /\ Goto(t, "release")
    /\ UNCHANGED <<nThreadsCur, nGraph, nPassed, currentChunk, stop, pause, abort, mutex,
                   local, asked, done>>

ReleaseBarrier(t) ==
    /\ pc[t] = "release"
    /\ nPassed' = nPassed + 1
    /\ Leave(t)
    /\ UNCHANGED <<nThreadsCur, nGraph, nBarrier, currentChunk, stop, pause, abort, mutex,
                   lastGraph, seen, nth, node, chunk, met, asked, done>>

Spin(t) ==
    /\ pc[t] = "spin"
    /\ nPassed # met[t].passed
    /\ Leave(t)
    /\ UNCHANGED <<pool, lastGraph, seen, nth, node, chunk, met, asked, done>>

-----------------------------------------------------------------------------
(* ggml_graph_compute_thread()                                             *)

Start(t) ==
    /\ pc[t] = "start"
    /\ nth' = [nth EXCEPT ![t] = nThreadsCur]
    /\ node' = [node EXCEPT ![t] = 0]
    /\ Goto(t, "loop")
    /\ UNCHANGED <<pool, lastGraph, seen, chunk, met, back, asked, done>>

Enter(t) ==
    /\ pc[t] = "loop" /\ node[t] <= Last /\ abort # node[t]
    /\ Goto(t, IF Kind(node[t]) = "rows" THEN "rows" ELSE "product")
    /\ UNCHANGED <<pool, local, asked, done>>

\* Mutant of EndOfGraph: no barrier.
EndOfGraphAlone(t) ==
    /\ pc[t] = "loop" /\ (node[t] > Last \/ abort = node[t])
    /\ Goto(t, IF t = 0 THEN "return" ELSE "top")
    /\ UNCHANGED <<pool, local, asked, done>>
\* The barrier at the end of the graph.
EndOfGraph(t) ==
    /\ pc[t] = "loop" /\ (node[t] > Last \/ abort = node[t])
    /\ Meet(t, IF t = 0 THEN "return" ELSE "top")
    /\ UNCHANGED <<pool, lastGraph, seen, nth, node, chunk, met, asked, done>>

\* A part that is computed a second time leaves a mark of its own.
Again == -1
Mark(t, p) == [done EXCEPT ![node[t]] = @ \cup {IF p \in @ THEN Again ELSE p}]

\* An operation that divides its rows among the threads.
Rows(t) ==
    /\ pc[t] = "rows"
    /\ done' = Mark(t, t)
    /\ Goto(t, "computed")
    /\ UNCHANGED <<pool, local, asked>>

\* The threads convert their shares of src1, thread 0 sets the counter.
Product(t) ==
    /\ pc[t] = "product"
    /\ currentChunk' = IF t = 0 THEN nth[t] ELSE currentChunk
    /\ chunk' = [chunk EXCEPT ![t] = t]
    /\ Meet(t, "chunk")
    /\ UNCHANGED <<nThreadsCur, nGraph, nBarrier, nPassed, stop, pause, abort, mutex,
                   lastGraph, seen, nth, node, met, asked, done>>

NChunks(t) == IF Kind(node[t]) = "chunked" THEN Chunks ELSE nth[t]

\* A chunk, and the fetch_add of the next one.
Chunk(t) ==
    /\ pc[t] = "chunk" /\ chunk[t] < NChunks(t)
    /\ done' = Mark(t, chunk[t])
    /\ IF nth[t] >= NChunks(t)
       THEN Goto(t, "computed") /\ UNCHANGED <<chunk, currentChunk>>
       ELSE /\ chunk' = [chunk EXCEPT ![t] = currentChunk]
            /\ currentChunk' = currentChunk + 1
            /\ UNCHANGED pc
    /\ UNCHANGED <<nThreadsCur, nGraph, nBarrier, nPassed, stop, pause, abort, mutex,
                   lastGraph, seen, nth, node, met, back, asked>>

NoMoreChunks(t) ==
    /\ pc[t] = "chunk" /\ chunk[t] >= NChunks(t)
    /\ Goto(t, "computed")
    /\ UNCHANGED <<pool, local, asked, done>>

\* Mutant of Computed: no barrier between the nodes.
ComputedAhead(t) ==
    /\ pc[t] = "computed"
    /\ abort' \in IF t = 0 THEN {abort, node[t] + 1} ELSE {abort}
    /\ node' = [node EXCEPT ![t] = @ + 1]
    /\ Goto(t, "loop")
    /\ UNCHANGED <<nThreadsCur, nGraph, nBarrier, nPassed, currentChunk, stop, pause, mutex,
                   lastGraph, seen, nth, chunk, met, back, asked, done>>
\* Thread 0 asks the callback; then the barrier, unless it was the last node.
Computed(t) ==
    /\ pc[t] = "computed"
    /\ abort' \in IF t = 0 THEN {abort, node[t] + 1} ELSE {abort}
    /\ IF node[t] < Last
       THEN Meet(t, "next") /\ UNCHANGED node
       ELSE /\ node' = [node EXCEPT ![t] = @ + 1]
            /\ Goto(t, "loop")
            /\ UNCHANGED back
    /\ UNCHANGED <<nThreadsCur, nGraph, nBarrier, nPassed, currentChunk, stop, pause, mutex,
                   lastGraph, seen, nth, chunk, met, asked, done>>

NextNode(t) ==
    /\ pc[t] = "next"
    /\ node' = [node EXCEPT ![t] = @ + 1]
    /\ Goto(t, "loop")
    /\ UNCHANGED <<pool, lastGraph, seen, nth, chunk, met, back, asked, done>>

-----------------------------------------------------------------------------
(* The caller.                                                             *)

\* ggml_graph_compute() resets what the last graph left.
GraphCompute ==
    /\ pc[0] = "idle" /\ nGraph < MaxGraphs
    /\ asked' \in IF MayVary THEN {Clamped(n) : n \in Counts} ELSE {asked}
    /\ currentChunk' = 0 /\ abort' = -1
    /\ done' = [k \in 0 .. Last |-> {}]
    /\ Goto(0, "kickoff")
    /\ UNCHANGED <<nThreadsCur, nGraph, nBarrier, nPassed, stop, pause, mutex, local>>

\* ggml_graph_compute_kickoff(), with the mutex.
KickoffThreads ==
    /\ pc[0] = "kickoff"
    /\ mutex' = TRUE
    /\ nThreadsCur' = asked
    /\ Goto(0, "announce")
    /\ UNCHANGED <<nGraph, nBarrier, nPassed, currentChunk, stop, pause, abort, local, asked, done>>

KickoffGraph ==
    /\ pc[0] = "announce"
    /\ nGraph' = nGraph + 1
    /\ Goto(0, "wake")
    /\ UNCHANGED <<nThreadsCur, nBarrier, nPassed, currentChunk, stop, pause, abort, mutex,
                   local, asked, done>>

KickoffWake ==
    /\ pc[0] = "wake"
    /\ pause' = FALSE
    /\ pc' = [Broadcast(pc) EXCEPT ![0] = "start"]
    /\ mutex' = FALSE
    /\ UNCHANGED <<nThreadsCur, nGraph, nBarrier, nPassed, currentChunk, stop, abort,
                   local, asked, done>>

GraphReturn ==
    /\ pc[0] = "return"
    /\ Goto(0, "idle")
    /\ UNCHANGED <<pool, local, asked, done>>

\* ggml_threadpool_pause(), ggml_threadpool_resume()
SetPause(p) ==
    /\ pc[0] = "idle" /\ pause # p
    /\ pause' = p
    /\ pc' = Broadcast(pc)
    /\ UNCHANGED <<nThreadsCur, nGraph, nBarrier, nPassed, currentChunk, stop, abort, mutex,
                   local, asked, done>>

\* Mutant of Free: a paused pool stays paused.
FreePaused ==
    /\ pc[0] = "idle"
    /\ stop' = TRUE
    /\ pc' = [Broadcast(pc) EXCEPT ![0] = "join"]
    /\ UNCHANGED <<nThreadsCur, nGraph, nBarrier, nPassed, currentChunk, pause, abort, mutex,
                   local, asked, done>>
\* ggml_threadpool_free()
Free ==
    /\ pc[0] = "idle"
    /\ stop' = TRUE /\ pause' = FALSE
    /\ pc' = [Broadcast(pc) EXCEPT ![0] = "join"]
    /\ UNCHANGED <<nThreadsCur, nGraph, nBarrier, nPassed, currentChunk, abort, mutex,
                   local, asked, done>>

Join ==
    /\ pc[0] = "join" /\ \A t \in Workers : pc[t] = "exited"
    /\ Goto(0, "freed")
    /\ UNCHANGED <<pool, local, asked, done>>

-----------------------------------------------------------------------------
Compute(t) ==
    \/ Start(t) \/ Enter(t) \/ EndOfGraph(t) \/ Rows(t) \/ Product(t) \/ Chunk(t)
    \/ NoMoreChunks(t) \/ Computed(t) \/ NextNode(t)
    \/ Barrier(t) \/ Arrive(t) \/ ResetBarrier(t) \/ ReleaseBarrier(t) \/ Spin(t)

Worker(t) ==
    \/ Top(t) \/ PauseLoop(t) \/ CheckStop(t) \/ Poll(t) \/ ReadGraph(t) \/ ReadActive(t)
    \/ StopPolling(t) \/ CheckForWork(t)
    \/ Compute(t)

Main == KickoffThreads \/ KickoffGraph \/ KickoffWake \/ GraphReturn \/ Join \/ Compute(0)

Call == GraphCompute \/ Free \/ \E p \in BOOLEAN : SetPause(p)

Next == Call \/ Main \/ \E t \in Workers : Worker(t) \/ WakeUp(t)

\* Every thread runs; nobody has to call anything.
Spec == Init /\ [][Next]_vars /\ WF_vars(Main) /\ \A t \in Workers : WF_vars(Worker(t))

-----------------------------------------------------------------------------
(* Correctness.                                                            *)

Waiting == {"top", "paused", "dozing", "stop", "poll", "ready", "active", "lock", "asleep", "exited"}
Computing == {"start", "loop", "rows", "product", "chunk", "computed", "next",
              "barrier", "arrive", "last", "release"}
Calling == {"idle", "kickoff", "announce", "wake", "return", "join", "freed"}

TypeOK ==
    /\ nThreadsCur \in 1 .. NThreads /\ nGraph \in 0 .. MaxGraphs
    /\ nBarrier \in 0 .. NThreads /\ nPassed \in Nat /\ currentChunk \in Nat
    /\ stop \in BOOLEAN /\ pause \in BOOLEAN /\ mutex \in BOOLEAN
    /\ abort \in -1 .. Last + 1
    /\ pc[0] \in Calling \cup Computing \cup {"spin"}
    /\ \A t \in Workers : pc[t] \in Waiting \cup Computing \cup {"spin"}
    /\ nth \in [Threads -> 0 .. NThreads] /\ node \in [Threads -> 0 .. Last + 1]
    /\ lastGraph \in [Threads -> 0 .. MaxGraphs] /\ seen \in [Threads -> 0 .. MaxGraphs]
    /\ back \in [Threads -> {"none", "chunk", "next", "top", "return"}]
    /\ asked \in 1 .. NThreads
    /\ \A k \in 0 .. Last : done[k] \subseteq Parts(k, NThreads)

\* "No worker threads should be accessing the parameters below at this stage":
\* when ggml_graph_compute() is called, no thread computes the last graph or
\* is about to compute the next one.
PoolIsQuiet == pc[0] \in {"idle", "kickoff", "join"} => \A t \in Workers : pc[t] \notin Computing

\* ggml_barrier(): n_barrier counts the threads that wait, and none of them can
\* miss the change of n_barrier_passed, since it does not change again before
\* they left.
Arrived(t) == pc[t] = "last" \/ (pc[t] = "spin" /\ met[t].passed = nPassed)
BarrierInStep ==
    /\ \A t \in Threads :
          /\ pc[t] \in {"arrive", "last", "release"} => met[t].passed = nPassed
          /\ pc[t] = "spin" => met[t].passed \in {nPassed, nPassed - 1}
    /\ (\A t \in Threads : pc[t] # "release") =>
          nBarrier = Cardinality({t \in Threads : Arrived(t)})

\* However the threads are scheduled, the graph is computed as a sequential
\* program would compute it: nodes in order, each part once (the chunk
\* counter is reset for each product, and in time), nothing after the node at
\* which it was aborted; and the call returns, also if the pool was paused.
Graph == INSTANCE GraphRun WITH
    busy <- pc[0] \notin {"idle", "join", "freed"},
    width <- asked
ComputesGraph == Graph!Spec

\* ggml_threadpool_free() returns, also for a pool that was paused.
FreeReturns == (pc[0] = "join") ~> (pc[0] = "freed")
=============================================================================
