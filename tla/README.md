# A formal model of llyy-EdgeLLM

The repository is a local chat application: a Vue page (`src/vue`) talks over
HTTP and server-sent events to a small C++ server
(`src/llyy.cpp/final-server.cpp`), which generates replies with a vendored and
renamed copy of the llama.cpp engine (the rest of `src/llyy.cpp`). This
directory holds TLA+ modules for the parts whose behaviour is hard to test, TLC
configurations that check them on small instances, and TLAPS proofs.

## 1. Inventory

### Components and how they interact

```
ChatView.vue ── chat.js (store) ── fetch/SSE ──> final-server.cpp
                                                     │ llama_tokenize, llama_decode,
                                                     │ llama_get_kv_cache_used_cells
                                                     v
                        llama-context.cpp (decode, kv_self_update, state_*)
                          │ split             │ find_slot, restore, defrag, ...
                          v                   v
                    llama-batch.cpp     llama-kv-cache.cpp
                          │ graphs
                          v
        ggml-backend (scheduler) ── ggml-alloc ── ggml-cpu (thread pool), GPUs, rpc
```

| Component | State | Operations | What is hard | What makes it correct |
|---|---|---|---|---|
| KV cache, `llama-kv-cache.cpp` + `decode()` | cells (`pos`, `seq_id`, `delta`), `head`, `used`, `n`, `has_shift`, `do_defrag`, `pending.ranges`; the rows of the K/V tensors | `clear`, `seq_rm/cp/keep/add/div`, `find_slot`, `commit`, `restore`, `defrag`, `state_read`, `decode`, `kv_self_update` | any order of API calls; rows are updated lazily; a decode of several ubatches fails half way | exact counts, a search that finds a slot if there is one, failed decodes undone, rows rotated for the positions |
| Defragmentation, `defrag_prepare`, `build_kv_self_defrag` | `ids`, cells, rows | one pass over holes and tails; one pass of block copies | two indices that run towards each other, a limit on moves, overlapping copies in one buffer | each token ends in one place, its row with it |
| Chat server, `final-server.cpp` | `messages`, `prev_len`, `client_socket`, `slot`, `metrics`, the engine's cache | accept, receive, dispatch, generate, stream, close | one conversation shared by all clients, failures in the middle of a reply, clients that leave (SIGPIPE), a full context | what the model has seen agrees with the messages; events reach the one who asked; streams end with an event |
| Batch splitting, `llama-batch.cpp` | `sbatch`: sequences of tokens still to be split | simple, equal, per-sequence splits | equal splits of sequences of different lengths | every token in exactly one ubatch, in order |
| Browser store, `chat.js` | conversations, the current one, `isLoading`, `isGenerating`, `controller`; the local variables of each send | send (async), stop, switch, create, delete | a reply is streamed while the user does something else; sends overlap and share the flags | pieces land in the message they belong to; flags return to rest; a send ends with its stream |
| Logger, `common/log.cpp` | ring of entries, `head`, `tail`, `running`, the worker, `file` | `add`, `pause`, `resume`, `set_file`, `set_colors` | producers, one consumer, a growing ring, an end mark that entries may keep | first in first out, nothing lost, each message to the file of its time, `pause` returns |
| Thread pool, `ggml-cpu.c` | `n_graph`, `n_threads_cur`, barrier counters, `pause`, `stop`, `abort`, `current_chunk`; `last_graph` of each thread | kick-off, barrier, chunks, pause, resume, abort, free | atomics read one after the other, spinning and sleeping waiters | every part of every node once and in order; nobody works after the call; every call returns |
| Graph allocator, `ggml-alloc.c` | free blocks, counts of children and views, offsets, buffer | reserve, allocate (in place or not), free, use for a later graph | memory is given on while others may still need it; views; merging of neighbours | memory is partitioned; a node finds its sources; outputs stay; all fits in the buffer |
| Backend scheduler, rpc, sampling, grammars, templates, JSON, models, quantization | | | numerics, text or I/O | not modelled, see section 7 |

`PROJECT.json` lists the hazards at their lines. The ones that the properties
below are about:

* a decode fails in its second ubatch and `restore()` must undo both, and
  nothing else (`llama-kv-cache.cpp:462`);
* the rotation that `seq_add` records is applied later, after other calls have
  reused the cell (`:157`);
* `find_slot` searches a ring with a count of the cells it has seen (`:687`);
* `defrag_prepare` aborts the process if the count of used cells is off (`:837`),
  and stops after a number of moves (`:854`);
* a saved state that is cut short makes the reader throw past the code that cleans
  up after a failed load (`:951`);
* the server advances `messages`, `prev_len` and the cache at different places,
  with error returns between them (`final-server.cpp:410`);
* `client_socket` outlives the request (`:649`), and `send()` to a client that
  has gone kills the process (`:701`);
* a plain reply is cut off at `BUFFER_SIZE` (`:60`);
* the page appends a piece to the conversation that is current when it arrives
  (`chat.js:126`), the first of two sends to end clears the flags of both (`:147`), and
  a line that is cut between two chunks loses its second part (`:120`);
* `pause()` of the logger puts an entry in the ring without growing it
  (`log.cpp:283`), and entries are used again (`:209`);
* a thread of the pool reads the number of the graph and the number of threads one
  after the other (`ggml-cpu.c:2884`); the chunk counter and `abort` are set by one
  thread and read by all (`:1367`, `:2854`);
* the allocator gives a parent's memory to its child (`ggml-alloc.c:512`) and frees
  a tensor with its last child, perhaps through a view (`:653`); a new buffer may not
  be had after the old one was freed (`:771`).

### What a reader of the code may stumble over

* `final-server.cpp` calls an older engine API (`llama_chat_apply_template` and
  `llama_tokenize` take a model) than the vendored engine declares; the model
  takes the vendored functions that correspond to them.
* `src/README.md:21` speaks of request slots, dynamic batching and
  several users. The code has one slot, handles one connection at a time and
  keeps one conversation for all of them. The model follows the code.
* A preflight `OPTIONS` request has no `OPTIONS` in its *body*, where
  `handle_http_request` looks; it is answered like an invalid one.
* `on_request_failed()` is never called, so the metrics report no failed request.
* When the user presses Stop the page closes the socket; the server goes on sending, and its second
  `send()` after the reset kills it.
* The page does not look at `event:` lines. The text of an error event is appended
  to the answer like a token, and the page reads on.
* The page splits each chunk into lines on its own: a line that comes in two chunks is
  cut, its second part lost. `decode()` is called without `stream: true`, so a character
  that comes in two chunks is garbled.
* A plain reply that is longer than `BUFFER_SIZE` is cut, but its `Content-Length` tells
  the full length; the socket is closed, and the client is told of an incomplete reply.
* A saved state that is cut short leaves the KV cache in three ways that the load's
  return value (0) does not tell apart: emptied; with rows missing; or, if it is cut
  among the cells of a whole cache, with cells in use and `used` = 0, and perhaps a cell
  with a position and no sequence. In the last case the next `seq_rm` wraps `used`
  around. A saved sequence without cells makes `state_read_meta` write to element 0 of an
  empty vector (`llama-kv-cache.cpp:1087`).
* If `ggml_gallocr_reserve_n` has no memory for a larger buffer, the smaller one is gone
  and the places are recorded all the same. `ggml_gallocr_needs_realloc` does not look at
  the buffer, so the next graph that is no larger follows a NULL pointer.
  `ggml_backend_sched_alloc_splits` ignores what `reserve_n` returns (`ggml-backend.cpp:1345`).
* The socket of a streaming request is never closed by the server
  (`final-server.cpp:916`), which so runs out of descriptors.
* The page trims each token, which drops the blanks between words, and loses the
  lines of a token behind a line feed.
* The allocator's case of a parent that is a view (`ggml-alloc.c:513`) never occurs,
  as `allocated` is never set for a view; neither does the second merge in
  `ggml_dyn_tallocr_free_tensor` (`:268`), as the block before would have matched first.
* The second call of `llama_tokenize` cannot fail, as its vector is at least as
  long as the text; its error return is not an action of the model.

## 2. Modules

| Module | Models | Extends |
|---|---|---|
| `DefragPlan` | what `defrag_prepare` decides: which tail fills which hole, and which moves come within the limit | |
| `KvCache` | the unified cache, `decode`, `kv_self_update`, state loading | `DefragPlan` |
| `MCKvCache` | the instance of the first three runs | `KvCache` |
| `KvCache_proofs` | the theorems on the metadata and on the rows | `KvCache`, `TLAPS` |
| `KvDefrag` | the loops of `defrag_prepare` and `build_kv_self_defrag`, one iteration per step | `DefragPlan` |
| `KvDefrag_proofs` | existence of a plan, and the theorems on the loops | `KvDefrag`, `TLAPS` |
| `ChatServer` | the server, its clients, death and restart | |
| `MCChatServer` | its instance | `ChatServer` |
| `ChatServer_proofs` | the theorems on the conversation, the cache and the streams of the server | `ChatServer`, `TLAPS` |
| `ChatStream` | a streamed reply as the other end of the connection sees it; implemented by `ChatServer`, environment of `ChatStore` | |
| `ChatStore` | the store of the page | instantiates `ChatStream` |
| `ChatStore_proofs` | the store, the flags and the answers of the page | `ChatStore`, `TLAPS` |
| `LogQueue` | what the logger promises: a queue | |
| `CommonLog` | the logger; implements `LogQueue` | instantiates `LogQueue` |
| `MCCommonLog` | its instance | `CommonLog` |
| `CommonLog_proofs` | the theorems on the logger and on the queue | `CommonLog`, `TLAPS` |
| `GraphRun` | what `ggml_graph_compute` promises: a sequential computation | |
| `ThreadPool` | the threads that compute a graph; implements `GraphRun` | instantiates `GraphRun` |
| `MCThreadPool` | its instance | `ThreadPool` |
| `ThreadPool_proofs` | the theorems on the pool and on the computation | `ThreadPool`, `TLAPS` |
| `FreeBlocks` | the dynamic tensor allocator as operators on a sequence of blocks | |
| `GraphAlloc` | reservation of places for a graph, and their use for later ones | `FreeBlocks` |
| `FreeBlocks_proofs` | what the operators do to the set of free units | `FreeBlocks`, `TLAPS` |
| `GraphAlloc_proofs` | the theorems on the allocator | `GraphAlloc`, `FreeBlocks_proofs` |

Each of the four parts that have an interface worth stating has an abstract
specification that the detailed one is shown to implement: `DefragPlan`
(by `KvDefrag`), `ChatStream` (by `ChatServer`), `LogQueue` (by `CommonLog`) and
`GraphRun` (by `ThreadPool`).

### KvCache

A cell is an index; `pos[i]`, `seqs[i]` and `delta[i]` are its fields. `key[i]`
stands for the K row of the cell: the position it is really rotated for, or
`NoKey`. The code has no such variable; the tensors have, in effect.

* `ApiCall` actions (`Clear`, `SeqRm`, `SeqCp`, `SeqKeep`, `SeqAdd`, `SeqDiv`,
  `Defrag`) are whole calls: the code is sequential and nothing can observe the
  middle of them. Loops over cells are set expressions; the place where the order
  of a loop matters, the first freed cell that becomes `head`, is kept (`IsFirst`).
* `decode()` is a sequence of steps, since it may leave at many places:
  `Decode` (sanity checks, the guard), `KShift` and `Defragment`
  (`kv_self_update`), `SplitUbatch`, `FindSlot`, then the probes `ProbeWrap`,
  `ProbeMiss`, `ProbeFound`, then `Compute`, back to the next ubatch, and
  `DecodeDone`. `DecodeRefused`, `SlotNotFound` and `ComputeFails` are the ways
  out with an error or a warning; they run the destructor of `llama_kv_cache_guard`,
  which is `Restore`.
* `LoadWhole` and `LoadSeq`/`LoadRows`/`LoadFails`/`LoadEnds` are `state_read`, the
  latter four through `find_slot`. A saved state may be cut short anywhere. The readers of
  `llama-context.cpp` then throw, the exception passes by the `clear()` and the
  `seq_rm()` of `state_read` and is caught by `state_set_data`. `EndsAmongCells`,
  `Filled` without rows, and `LoadEnds` are what is left. `torn` says
  that a whole load ended among the cells, so that `used` is wrong, and `LostKey` is the
  row of a token that got none.
* A load that was cut returned 0, which `llama.h` says is a failure. The model
  assumes what a caller has to do then: empty a torn cache, or load another state into it,
  before any other call (`Usable`); remove the tokens of a sequence without rows before
  going on with that sequence (`Lost`). The code checks neither, and nothing in the repository
  calls the functions that load a state.
* `entry` is a history variable: the tokens in the cache when `decode` was called.

Recurrent models take other branches of almost every function
(`if (recurrent)`); they are not modelled. Neither is the V tensor, which is
moved but never rotated.

### DefragPlan and KvDefrag

`KvCache` needs the result of a defragmentation, not its loops. `IsPlan` and
`Moved` state the result; `KvDefrag` has the loops (`Keep`, `Hole`, `Back`,
`Gap`, `Move`, then `CopySkip` and `CopyBlock`) and shows that they carry out
that plan (`ImplementsPlan`). The abstract specification and the detailed one
thus meet in one module that both extend.

### ChatServer

Text is a sequence of pieces; a piece says which request it belongs to and
which part of a turn it is. The chat template is the concatenation of the turns,
so `prev_len` is a number of pieces; a piece is one token. `Bos` and `Pad` are the
tokens that `llama_tokenize` and `std::vector` add.

Clients connect, send one request, and may close (`left`) or reset (`reset`) the
connection at any time. `Send` models `send(2)` to such a client: data sent to a
closed socket draws a reset; the first call after a reset reports an error, which
the server ignores, and the next one raises `SIGPIPE`, for which the server has no
handler. `Restart` is an operator who starts the program again.

The server's thread is `pc`: `accept`, `recv`, `handle`, `prompt`, `generate`,
`finish`, `reply`, `close`. Between these steps clients act. The timing metrics
and the text of the answers are left out. `format_success_response` cuts a plain reply
to its buffer, which has room for `PlainMax` pieces (`Fitting`). Not modelled, and visible in
the code: `n_prompt_tokens_processed` counts characters (`new_len - prev_len`); `send()`
waits if a client does not read what it was sent, so that it too can hold up the server.

For each connection, `StreamTo(c)` maps what was sent on it to a `ChatStream`, which
is what the page sees of it.

### ChatStream and ChatStore

`ChatStream` is one reply: headers, pieces, one last event; or, if the server does not
know the template of its model, no event at all; and an end at any time if the process
dies. `ChatServer` implements it on every connection (`ImplementsStream`), and
`ChatStore` takes the moves of its environment from it, so the two models meet in it
and need not be multiplied with each other.

In `ChatStore` a send is at `fetch` or at `read` when it waits in an `await`; each
action is the code between two of them, including `finally`. All sends use the one
`isLoading`, `isGenerating`, `controller` and `currentConversationId` of the store, as in
the code. User actions follow what the page offers: the input field is disabled
while `isLoading` (`ChatView.vue:365`), but creating or switching a conversation clears
`isLoading`, so sends overlap. The content of a message is the sequence of the pieces
appended to it; a piece says which event of which send it comes from, and whether it is all
of the event's data (`whole`), not counting the white space that `trim()` takes away.
`ReadData` and `ReadDone` read an event whose line is in one chunk. `ReadPart` reads any
event otherwise: its line is cut between chunks, its data has a line feed in it or is blank.
What is left of it, nothing or one piece that is not whole, is put in the message, and the
event is noted in `partial`; so a `[DONE]` that is cut is not seen. How many chunks the event
came in makes no difference to the store, so its parts are one step. Left out is a line of a
reply that is itself `[DONE]`. A conversation is deleted by its
place in the list: ids are distinct (`IsInjective` in `TypeOK`), so the `filter` of
the code removes that one only.

### LogQueue and CommonLog

A step is what happens under the mutex, or one statement of the worker outside of it
(`PrintEntry`, `Write`). `add()` may be called at any time by any thread. `pause()`, `resume()`,
`set_file()`, `set_colors()` and the destructor are not thread-safe (`log.h`), so one
controller calls them; its waiting for the worker is a step of its own (`Join`). `WakeUp`
is a spurious wake-up. `AnyPause` says whether callers pause when only one entry is free.

The refinement maps the ring without the end mark, and the entry that the worker
holds, to the queue.

### GraphRun and ThreadPool

Every atomic access that others can tell apart is a step: `n_graph` is read by
`ReadGraph`, `n_threads_cur` by `ReadActive`; the barrier is five steps. Thread 0 is the
caller. The nodes of a graph are matrix products, whose chunks are handed out by
`current_chunk` or which are split by thread when there are few chunks, and
operations that divide their rows among the threads. `mutex` is a variable only
because the kick-off holds it over several accesses; all other critical sections are
single steps. `pending` is local to a thread and is the program counter `start`.

The build without OpenMP is modelled. Memory is sequentially consistent: the code's relaxed
accesses could be reordered further on some processors, which is not modelled.

### FreeBlocks and GraphAlloc

`FreeBlocks` has `alloc` and `free_tensor` as operators on the sequence of free blocks.
`GraphAlloc` first builds any graph within the bounds (`AddNode`: operations, operations
that work in place, views, views of views, outputs), then runs
`ggml_gallocr_reserve` one node and one parent per step, then calls
`ggml_gallocr_alloc_graph` with graphs of the same topology and other sizes, which either
uses the reserved places or reserves anew. Sizes are in units of the alignment, and a
size stands for a layout. One buffer is modelled, as in a run on the CPU. A weight is a
leaf whose memory is not the allocator's. `RoomAssumption` says that the largest graph
fits into the first free block of `SIZE_MAX/2` bytes (`Limit`); the code aborts
otherwise. It also aborts if there are more than 256 free blocks, which is left out.
If the buffer has to grow there may be no memory for it (`ReserveFails`): then there is no
buffer (0), and the next graph either reserves anew, since a tensor of it is larger, or
follows a NULL pointer (`crashed`). `InsertPos` is the position that the loop of `free_tensor` finds, by
what it satisfies.

## 3. Runs

| Run | Expected | Shows |
|---|---|---|
| `kv_cache` | pass | all properties of `KvCache` for callers that run `kv_self_update()` before they load a state |
| `kv_decode_error` | violation | a decode that fails with an error can remove tokens it did not place |
| `kv_stale_delta` | violation | rows of a loaded state are rotated by a delta of the tokens that were there before |
| `kv_defrag` | pass | the defragmentation, for every placement of tokens in seven cells |
| `chat_server` | pass | the properties of `ChatServer` |
| `chat_extra_token` | violation | a prompt can end with a token that is not in it |
| `chat_store` | pass | the properties of `ChatStore` |
| `common_log` | pass | the logger is a queue, for callers that pause when a second entry is free |
| `common_log_pause` | violation | `pause()` hangs when it takes the last free entry |
| `thread_pool` | pass | the pool computes graphs, for callers that always ask for the same number of threads |
| `thread_pool_vary` | violation | a thread computes a graph after the caller has returned |
| `graph_alloc` | pass | the properties of `GraphAlloc`, for every graph of three nodes |

### Properties of KvCache

* `UsedIsCount`, `EmptyIffNoPos`, `HolesMatchTails`: the count of used cells is
  exact, the two tests for a free cell agree, and the assertion in
  `defrag_prepare` cannot fail. Every operation adjusts `used` in its own way. All three
  except a cache that is `torn`: there the code breaks them.
* `SearchComplete`: `find_slot` says "full" only if no free run is long enough.
* `KeysFollowPositions`: each row is rotated for its token's position once the due
  delta is applied, and no delta is due while a graph reads the rows. A token that got no
  row from a state that was cut short is excepted.
* `CleanDecodeErrorRestores`: a decode that ends with an error or a warning leaves
  the tokens that were there before it, provided that no pending range was left
  over by an earlier one. `DecodeErrorRestores` states what `llama.h:937` promises,
  without that proviso, and fails.
* `DefragKeepsContent`, `PlacingKeepsTokens`: defragmentation neither loses nor
  doubles a token; placing a batch does not touch the others.
* `CallReturns`: every call ends, the search loop included.

### Properties of KvDefrag

* `ScanSucceeds`: the scan from the end finds a token for each hole.
* `ImplementsPlan`: the ids and the cells that result are those of `DefragPlan`.
* `RowsFollowCells`: after the block copies each row is in the cell of its token,
  although all copies work in one buffer.

### Properties of ChatServer

* `KvInOrder`: whatever fails, what the model has seen is a part of the
  conversation, in its order, no piece twice.
* `KvComplete`: as long as nothing failed it is all of it (but for the text between
  turns, which the server never gives to the model). With `KvInOrder` the cache is then
  the conversation itself, in order.
* `ImplementsStream`: on every connection that asks for a stream the server implements
  `ChatStream`: a final event whatever fails, except for an unknown template.
* `ReplyIsRemembered`: the messages keep as reply what was sent as reply: for some
  `n`, the tokens of the client in the messages are its first `n`, in order, and so
  are those of the events it was sent; one plain response has as many of them as there is
  room for in its buffer.
* `EventsGoToRequester`: nothing is sent to a client whose request is not being
  handled, also after a failure.
* `Served`: every client in the queue gets its turn, unless the process dies.

### Properties of ChatStore

* `FlagsMatchSends`: with no send in flight the flags are at rest, however sends overlapped;
  a send that no other one overlapped can be stopped as long as it runs. (Of two that
  overlap, the second can not be stopped once the first has ended.)
* `AnswersArrive`: what a send reads is in the message made for it, in order, and nowhere
  else, whatever is created or deleted meanwhile, unless another conversation was current
  when a piece came (`strayed`). Each event that was read whole is there, once; a piece
  that is not whole comes from an event that was read in part, and stands where the whole
  would. The answer is complete only if no line was cut. The excluded cases are real: the code
  writes into the wrong conversation, and loses the second part of a line.
* `SendEnds`: a send ends when its stream is done or closed or it was stopped; if the line
  that says it is done was cut, only when it is closed or stopped.

### Properties of CommonLog

* `OneEndMark`: the end mark is in the ring exactly while the worker is to stop, and is
  the last entry.
* `ImplementsQueue`: whatever is logged while the log runs is printed once, in order, to
  the console and to the file that was set, in the end.
* `PauseReturns`: `pause()` returns.

### Properties of ThreadPool

* `PoolIsQuiet`: between calls no thread computes, or is about to compute, a graph
  (what the comment at `ggml-cpu.c:3106` says).
* `BarrierInStep`: the counter of the barrier is the number of threads that wait, and none
  of them can miss its release, although the barrier is used again at once.
* `ComputesGraph`: the pool implements `GraphRun`: nodes in order, each part once, nothing
  after an abort, every call returns, on a paused pool too.
* `FreeReturns`: the pool can be freed, also when it is paused.

### Properties of GraphAlloc

* `MemoryPartition`: each unit of memory is in one free block or in one live tensor.
  Frees that come twice, too early or with another size break it.
* `BlocksApart`: free blocks are sorted and never adjacent.
* `SourcesIntact`: computed in order, each node finds its sources as they were computed,
  through views too; only a node that works in place overwrites one, and exactly.
* `OutputsKept`: nothing is written over an output with memory of its own.
* `FitsBuffer`: everything fits in the buffer, also for later graphs in reserved places, and
  after a reservation that had no memory and was repeated with success.

### The five violations

1. `restore()` walks over `pending.ranges` and leaves them there; only `commit()`
   clears them. Decode A fails; a state is loaded into the freed cells (as a whole, so
   that `find_slot` is not called); decode B fails before it places anything: its
   `restore()` empties the cells that were loaded.
2. `clear()` resets neither `delta` nor `has_shift`. `seq_add`, then a state is
   loaded, then `decode`: `kv_self_update` rotates the loaded rows by the old delta.
   Callers that run `kv_self_update()` first are safe; the passing run and the
   theorem assume it (`CallerUpdates`).
3. The first call of `llama_tokenize` counts the tokens *with* the beginning token,
   the second one fills the vector without it as soon as the cache is not empty.
   The vector's last element stays 0 and is decoded.
4. `pause()` advances `tail` past the last free entry. `head == tail` then means empty:
   the worker waits, `add()` discards, `join()` never returns. Every `set_file()` and the
   destructor begin with `pause()`.
5. Graph 1 uses one thread. Thread 1, polling since before, reads `n_graph` = 1 and is
   preempted before it reads `n_threads_cur`. The caller returns and starts
   graph 2 with more threads; thread 1 now finds itself active, records graph *1* as
   its last and computes graph 2, with the others. Then it sees `n_graph` = 2, another
   graph than its last, and computes again, while the caller goes on.
   `llama_context` uses two numbers of threads on one pool
   (`llama-context.cpp:936` and `:1642`).

## 4. Bounds

`MCKvCache`: four cells, two sequences, positions 0 and 1, batches of one token
(without positions) and of three tokens of two sequences, ubatches of two. Four
cells are enough for a batch of two ubatches beside a token, for a search that
wraps around and misses, for a hole between tokens and for two moves in a
defragmentation, of which the bound `MaxMoves` = 2 allows each number. Three
tokens in ubatches of two make a decode fail after a part of it was placed.
`DefragMin` is 4 instead of 2048 so that the heuristic can fire; `Pad` is 2
instead of 32 or 256 so that the padded range can be smaller than the cache.
`MaxPos` and `MaxAuto` bound the model, not the code; they are guards of `SeqAdd`
and `DecodeAuto`. A saved state has two tokens, one of them shared, so that it can end
between two cells and between the sequences of one. The runs that
end in a violation use the same instance.

`KvDefrag`: `Size` = 7, every subset of the cells as initial state, and limits of 1, 2
and 4 moves: up to three separate holes, tails in several blocks, a limit that
stops within a hole and one that is never reached.

`MCChatServer`: two connections, each with one request of any kind that matters
(plain, streamed with and without a blank in `"stream":true`, metrics, invalid,
without a body), `NCtx` = 6. A prompt has two or
three tokens and a reply up to five, so the context fills in the first, in the
second, or in neither reply. `PlainMax` = 1: a plain reply may be cut. Sequential requests of one conversation, and a
client that waits or leaves while another one is served, need two connections.
The run does not check deadlock: when all clients are done, the server waits
in `accept()`.

`ChatStore`: two sends, two conversations, streams of three events, of which one is not
yet read. Two sends overlap, one streams into a conversation that was switched
away from, deleted or replaced, and a stream ends in each of its ways. One line of all, any
one, is cut (`MaxParts` = 1). A third send adds
no new sharing: the store has one controller. Deadlock is not checked: the user may
stop, and the server may never answer.

`MCCommonLog`: four calls of `add()`, a ring of two entries that doubles twice, two
files. The ring wraps, grows while wrapped, and grows while the worker holds an entry.
Deadlock is not checked: the log may be gone.

`MCThreadPool`: three threads, graphs of a chunked product, a product split by thread
and an operation on rows, two graphs, one to four threads asked for. Three threads are the
least with which one passes a barrier, one waits and one is late; 12 is the least
number of chunks that three threads do not re-chunk. The second graph shows what the first
one leaves behind. `MayVary` is FALSE in the passing run. Deadlock is not checked: a
pool may be freed.

`GraphAlloc`: two leafs (one of them a weight) of size 1 or 2, three nodes with up to two
sources, sizes 1 and 2, one output, two graphs, 16 units of memory, more than all the tensors need. A
graph that comes when there is no buffer is not counted, so reservations may fail any number
of times. Three
nodes are enough for a view with a reader, for the reuse of a parent beside its view, and
for a hole that is filled and merged on both sides. The leaf that the allocator
owns is read by a node. Deadlock is not checked: the graphs are used up.

## 5. Fairness

* `KvCache`: `WF_vars(Step)`. A call of the engine is a sequential program; once
  entered it goes on. Nothing obliges a caller to call (`Api` has no fairness).
* `ChatServer`: `WF_vars(Server)`: the thread runs; its only waits are `accept()`
  and `recv()`, which are guards (a `send()` that waits is not modelled).
  `WF_vars(Asks(c))` is an assumption about clients: one that is connected sends its
  request, or leaves without one. The server has no timeout; without the assumption
  `Served` is false, as one silent client blocks all the others. Nothing obliges a client
  that has sent its request to leave, or the operator to restart the program. That generation ends is not assumed: it follows
  from the check of the context size.
* `ChatStore`: `WF_vars(Continue(s))` for each send: the event loop runs the code after an
  `await` whose promise is settled. Nothing obliges the user to stop or the server to go on.
* `CommonLog`: `WF_vars(Worker)` and `WF_vars(Proceed)`: the worker thread runs and a call that
  has begun goes on. Nobody is obliged to call.
* `ThreadPool`: `WF_vars(Main)` and `WF_vars(Worker(t))` for each thread: every thread is
  scheduled. The mutex needs no strong fairness, as only thread 0 holds it over several
  steps, and it gives it back.
* `KvDefrag` and `GraphAlloc` have safety properties only.

## 6. Proofs

Assumptions are those that the modules name (`ASSUME`): natural bounds, finite sets
where something is counted, batches and saved states that are sequences of tokens, room
for the largest graph. TLC evaluates them on each run. Hypotheses beyond these are
written in the theorems, and there are three: `Disciplined`, `~ AnyPause` and
`~ MayVary`. Each one excludes what a run with the expected result "violation" shows
to go wrong.

Each module of proofs has an inductive invariant, one lemma per action which shows
that the action keeps it, and theorems that follow from it.

### KvCache

`KvCache_proofs` proves `Spec => []IndInv` (`Invariance`), where

    IndInv == CacheOK /\ CallOK /\ Rejected

* `CacheOK`: types, `UsedIsCount`, `EmptyIffNoPos`. The count is inductive only
  with the agreement of the two tests, since some operations count by the one and
  some by the other. Both speak of a cache that is not `torn`; that it is not while a
  call is in progress is part of the invariant, by the guard `Usable`.
* `CallOK`: the ubatch and the rest of the batch are sequences of tokens, the phase
  fits the call, and a ubatch that was placed lies within the cells at `head`.
  Without it neither the placement nor `LoadFails` could be shown to keep the counts.
* `Rejected`: the starts that the search has passed are rejected for good. With
  `n_tested` alone `SearchComplete` is not inductive: the invariant has to say
  which starts the number stands for, before and after wrapping around.

One lemma per action shows that it preserves `IndInv`; lemmas on cardinality
(`Release`, `Restore`, a moved set of cells) are stated once. The corollaries are
`TypeCorrect`, `UsedCountExact`, `FreeTestsAgree`, `SearchIsComplete`,
`DefragNeverAborts` and `PlacingIsSafe`, for every number of cells and sequences and
every set of batches.

Two theorems are about the bag of tokens in the cache, wherever they are placed.
`TallyMoved` says that two sets of cells hold the same bag if a bijection between them keeps
every cell's token.

* `DefragIsInvisible` (`DefragKeepsContent`): the bijection takes each filled hole to the
  cell the plan filled it from, and leaves every other used cell where it is.
* `CleanFailureRestores` (`CleanDecodeErrorRestores`) needs an invariant of its own,
  `EntryKept`: while a decode runs that found no stale pending range, the cells that are
  used and not pending hold what was there when it was called, and nothing is pending
  before the first placement. `IndInv` is needed beside it: the cells that
  `find_slot` takes are free, and a defragmentation in between keeps the bag. `restore()`
  then empties just the pending cells. Without the hypothesis `entry.clean` the statement is
  false; the run `KvCache_DecodeErrorRestores` shows it.

`KeysAreRight` proves `KeysFollowPositions` under `Disciplined`: the saved states and
batches have rows rotated for their positions, the graphs of `kv_self_update`
succeed, and callers update before they load (`CallerUpdates`). The invariant
`KeysInv` adds that a due delta is marked by `has_shift`, and that the rows outside
the ubatch are right (or `LostKey`).

### KvDefrag

`KvDefrag_proofs` proves `Spec => []IndInv` for every size of the cache, every placement of
tokens and every limit. It rests on two facts about plans.

* `PlanExists`: for any set of holes and any set of as many cells there is a plan that fills
  the former from the latter. The last cell of the first hole takes the last token, and what
  is left has a plan of its own; the induction is by a least counterexample.
* `AsManyHoles`: there are as many holes as tokens behind the first `nUsed` cells, so that a
  plan uses every one of these.

`Plan` is then one such plan, fixed by `occupied`, and the invariant compares the loops with it
instead of counting tokens and holes:

* `Settled(F)`: the plan is carried out for the holes before `F`, and for these only. While the
  loops run, `F` is `Front`; in the copy loop it is where they stopped.
* `MovesCounted(F)`: `moves` is the number of blocks that begin before `F`.
* `BackOK`: the scan from the end is at or behind the token of the hole's first cell, and has passed
  exactly the tokens of its last `nf` cells. `ScanSucceeds` follows.
* `ForwardOK`: the scan back is behind the token last moved and not behind the one to be moved next;
  `cont` says whether it stands right behind the former. So each token goes where the plan
  says, and `moves` grows just when the plan begins a block.
* `CopiesOK(F)`: rows that have been passed are in their new cells, all others are where they were, and
  the copy loop stands where a block begins, so that it copies no more blocks than were
  counted.

`TypeCorrect`, `ScansFind`, `PlanIsCarriedOut` (`ImplementsPlan`) and `RowsArrive` (`RowsFollowCells`)
follow. With `PlanIsCarriedOut` the step `Defragment` of `KvCache`, which takes any plan, stands for the
loops whatever the size. The invariant was checked with TLC on the instance of the run
before it was proved.

### FreeBlocks and GraphAlloc

`FreeBlocks_proofs` has the lemmas on the list of free blocks. `FreeList` says that the
blocks are sorted, not empty, and not adjacent; `Free(bs, a)` that unit `a` is in
one. `TakenList` and `FreedList` show that `Taken` and `Freed` keep the former and
remove or add just the units that they are asked to, whichever of the neighbours is
merged; `BestFitIs` that the search finds a block if the last one is large enough.

`GraphAlloc_proofs` proves `Spec => []IndInv` for graphs of any size, tensors of any size,
and any number of graphs. The invariant speaks of the graph for which there are places:

* `MemoryOK`: a unit is free exactly if no allocated tensor has it, allocated tensors
  do not share units, and `maxSize` is above the end of every tensor ever placed. With
  `RoomAssumption` it follows that the last block always has room.
* `CountsOK`: `children[t]` is the number of uses of `t` as a source that are still
  to come, and `views[t]` that of the views of `t` that are not yet done with. Both
  are cardinalities of sets (`Rest`, `ViewsLeft`). That a tensor is freed neither early
  nor twice rests on them.
* `ReadsOK`, `KeptOK`: what a node to come will read is allocated, outputs are.
* `PhaseOK` says of a graph that is placed (`Settled`: with a buffer or without) that its
  tensors are no larger than their places, and that the buffer has room for all of them
  unless there is none.
* `ApartOK`, `IntactOK`: no tensor has been placed over one that is allocated, and
  `SourcesIntact` holds for the nodes that have been placed.

`NoMergeMissed`, `NothingLostOrDoubled`, `SourcesAreIntact`, `OutputsAreKept` and
`BufferIsLargeEnough` state the properties of the run, `TypeCorrect` the types.

### CommonLog

`CommonLog_proofs` proves `Spec => []IndInv` for every capacity, number of calls and set of
files: `RingOK` (only the last waiting entry may be the mark of `pause()`, and none is if the
worker is not to stop; a worker that has ended leaves an empty ring), `ControlOK` (where
the worker can be in each stage of a call) and `OutputsOK`. `Grown` shows that `resize`
keeps the entries in their order, although the ring may be wrapped. `MarkIsLast`
states `OneEndMark`, and `LogIsQueue` that the initial states of the logger are
those of `LogQueue` and each step is one of `LogQueue`'s, or a stutter, both under
`~ AnyPause`: a caller that pauses when one entry is free loses the entries of the ring.

### ThreadPool

`ThreadPool_proofs` is about every number of threads, every graph, and every interleaving,
for a caller that always asks for the same number of threads (`~ MayVary`; the run
`thread_pool_vary` shows that the properties fail without it). The barriers
cut the run of a thread into segments: to the barrier before the chunks of a product,
to the one after a node, to the one of an aborted graph, and the time when no graph is
computed. The invariant is

    IndInv == Types /\ PoolOK /\ BarrierOK /\ SameSegment /\ Work(Seg(0))
              /\ \A t \in Used : LocalOK(t)

* `PoolOK`: the threads that do not take part wait, and what a thread has read of
  `n_graph` agrees with `n_threads_cur`.
* `BarrierOK`: `n_barrier` counts the threads that have arrived and wait. A
  thread that still spins at a barrier that has been released counts as one that has
  left it (`Loc`); without this the second use of a barrier breaks the count.
* `SameSegment`: all threads that take part are in the same segment.
* `Work(s)`: what has been computed in segment `s`. `Progress(k)`: each part of
  node `k` is done, bound to one thread, or unclaimed, and only one of these.
* `LocalOK(t)`: the local variables of a thread.

`QuietBetweenGraphs` and `BarrierIsSound` state `PoolIsQuiet` and `BarrierInStep`;
`GraphIsComputed` states that initial states and steps are those of `GraphRun`.

### ChatServer

`ChatServer_proofs` proves `Spec => []IndInv` for any number of connections, any requests and a
context of any size. Clients come, send and leave at any time, any request may
fail in any of the modelled ways, and the process may die and be restarted.

* `ControlOK`, `ConnsOK`: whom the thread serves and with which request, when
  `client_socket` is set; who has not been turned to was told nothing.
* `TranscriptOK`, `ResponseOK`: no piece is in the conversation twice, the client that is
  served has no part in it before its turn, and `prev_len` is its length, less the user's
  turn while a reply is generated. If the template is unknown `prev_len` falls behind for
  good, but then nothing was ever decoded.
* `CacheOK`: with `SeenLen` the length of the text the model has been given, the cache
  `Follows` the text up to there (what is in it is in the text, in order), and if
  nothing has failed it is `Complete`. After a failure `Follows` must hold though pieces are
  missing, which is why it does not say that the cache is a prefix. `SeenLen` is two short of the text
  when a reply begins and one short while it goes on, and `BatchOK` says that the batch
  is just what lies between, with the begin-of-text token or the surplus token 0.
* `ToldOK`: how many tokens the client was sent, in each state of the thread, and that
  the messages have the same number when the reply is done; a plain reply is
  one event with as much of the response as fits (`PlainToldOK`).

`KvInOrder` and `KvComplete` are not inductive: they say nothing of the batch, of `prev_len`, or of
the text that is still to come. `FollowsOne`, `FollowsNothing` and `FollowsLonger` show what
a decoded piece, a token without text, and a longer text do to `Follows` and `Complete`.
`GenerateInv` is about the five ways in which a step of the generation ends. The invariant was
checked with TLC on the instance of the run before it was proved.

`TypeCorrect`, `CacheInOrder`, `CacheIsComplete`, `ReplyIsKept` and `EventsOnlyToRequester` state
the properties of the run. `ChatIsStream` states `ImplementsStream`: `StreamStays`,
`StreamMoves`, `StreamCloses` and `StreamGivesUp` are the ways in which a step of the server may look
on one connection, and one lemma for each action says which of them it is.

### ChatStore

`ChatStore_proofs` proves `Spec => []IndInv` for any number of sends, conversations and
events, and so for every interleaving of sends that overlap:

* `StoreOK`: the current conversation exists, ids are distinct and at most
  `conversationCount`, a deleted conversation has no messages. It gives `TypeCorrect`.
* `SendsOK`, `StreamsOK`: a stream begins with its headers and has them once, so what a
  reading send reads next is never the headers. `PartsRead`: an event noted in
  `partial` has been read, so what a send reads next is not yet counted.
* `FlagsOK`: `FlagsMatchSends`, and a send in flight that is not `overlapped` is the only one
  in flight. The second part makes the first inductive: the `finally` of any other send would take
  the controller away.
* `AnswersOK`: `AnswersArrive` for all conversations, those of deleted ids too, and the
  message of a send exists as long as its conversation does. Without the latter a
  `TypeError` could end the loop of a send whose conversation is current, and what it has read last
  would be in no message. When an event is read whole, `DataRead` and the events shown in the
  message grow by that event alone; when it is read in part, neither does.

`FlagsAreRight` and `AnswersAreWhole` follow. The invariant was checked with TLC on the
instance of the run before it was proved.

### Only model-checked

* Liveness: `CallReturns`, `Served`, `PauseReturns`, `FreeReturns`, `SendEnds`, and the fairness that
  `ImplementsQueue` and `ComputesGraph` state. The prover handles neither fairness
  nor `ENABLED`.

No module uses RECURSIVE operators.

## 7. Not modelled

* Recurrent models' cache and the splits of batches that only they use, embeddings and
  logits, the encoder.
* The thread pool with OpenMP, weak memory, `mul_mat_id`, the kernels.
* The allocator with several buffers, graphs of another topology than the one that was
  reserved (the comparisons of the numbers of nodes and leafs, and what a change with equal
  numbers does), outputs that are views, the limit of 256 free blocks; the scheduler of several backends: one backend by
  default. `ggml-rpc`: not used by the server.
* The metrics' timing, the text of the server's answers.
* Models, quantization, GPU backends, `ggml.c`, Unicode tables: numerics. They are most
  of the repository's lines, and a model checker has nothing to say of them.
* Sampling, grammars, templates, JSON, GGUF: text and arithmetic; `ChatServer` takes
  any token as sampled and abstracts a template to the order of turns.
* The views of the page: the store has the logic.

## 8. Plan

The components with control of their own are modelled, and the safety properties and
refinements that the passing runs check are proved, up to their fairness.

To be modelled, if a run is free: the equal splits of `llama-batch.cpp`, and a state that is
saved while rotations are due.
