------------------------------ MODULE KvCache ------------------------------
(***************************************************************************)
(* The unified (non-recurrent) KV cache of the inference engine and the    *)
(* llama_context::decode loop that drives it: src/llyy.cpp/src/            *)
(* llama-kv-cache.cpp and llama-context.cpp.                               *)
(*                                                                         *)
(* The cache is an array of KvSize cells.  A cell holds the position of    *)
(* one token and the set of sequences the token belongs to; beside it lies *)
(* a row of the K tensor, rotated (RoPE) for a position.  The API edits    *)
(* the metadata at once and the rows lazily: seq_add and seq_div record a  *)
(* per-cell delta that the next kv_self_update() applies to the rows.      *)
(* decode() places a batch piece by piece and must undo the placement      *)
(* when it fails.                                                          *)
(***************************************************************************)
EXTENDS DefragPlan, Sequences

CONSTANTS
    KvSize,         \* number of cells
    Seqs,           \* sequence ids
    AnySeq,         \* a negative sequence id: every sequence
    DefaultSeq,     \* the sequence of a batch that names none (id 0)
    MaxPos,         \* bound: positions stay in 0..MaxPos
    Batches,        \* batches with explicit positions and sequences
    Bounds,         \* the limits p0, p1 given to the range operations
    MaxAuto,        \* bound: length of a batch without positions
    Blobs,          \* saved states that can be loaded
    NUbatch,        \* n_ubatch: tokens evaluated in one graph
    Pad,            \* get_padding(): granularity of the attended range
    DefragMin,      \* smallest n for which the heuristic defragments (2048)
    DefragThold,    \* defrag_thold, in percent
    MaxMoves,       \* max_moves of defrag_prepare()
    Deltas,         \* the deltas given to seq_add
    UpdateStatuses, \* outcomes of the graphs run by kv_self_update()
    CallerUpdates   \* TRUE if callers run kv_self_update() before a state load

Cells == 0 .. KvSize - 1

\* The row of a cell that has no valid K data.
NoKey == -1

\* The row of a token whose saved state ended before the rows.
LostKey == -2

\* A token: its position, its sequences, the position its row is rotated for.
Token == [pos : Nat, seqs : (SUBSET Seqs) \ {{}}, key : Int]

ASSUME SizeAssumption == KvSize \in Nat \ {0}
ASSUME SeqsAssumption == DefaultSeq \in Seqs /\ AnySeq \notin Seqs
ASSUME BoundsAssumption ==
    /\ MaxPos \in Nat /\ MaxAuto \in Nat /\ MaxMoves \in Nat \ {0}
    /\ NUbatch \in Nat \ {0} /\ Pad \in Nat \ {0}
    /\ DefragMin \in Nat /\ DefragThold \in Nat
ASSUME InputAssumption ==
    /\ Batches \subseteq Seq(Token)
    /\ Blobs \subseteq Seq(Token)
    /\ Deltas \subseteq Int \ {0} /\ Bounds \subseteq Int
    /\ UpdateStatuses \subseteq {"success", "failed"}
    /\ CallerUpdates \in BOOLEAN

VARIABLES
    pos,       \* pos[i]: position of the token in cell i, -1 if none
    seqs,      \* seqs[i]: the sequences that share cell i
    delta,     \* delta[i]: rotation not yet applied to row i
    key,       \* history: the position row i is really rotated for
    head,      \* where the search for a slot starts
    used,      \* the cache's count of its used cells
    n,         \* the attended range is 0..n-1
    hasShift,  \* has_shift
    doDefrag,  \* do_defrag
    pending,   \* the cells of pending.ranges
    torn,      \* history: a load of the whole cache ended among the cells
    op,        \* the API call in progress
    phase,     \* where that call is
    rest,      \* tokens of the batch not yet put in a ubatch
    ub,        \* the ubatch
    nTested,   \* n_tested of find_slot
    entry      \* history: the cache's content when decode was called

cellVars == <<pos, seqs, delta, key>>
cacheVars == <<cellVars, head, used, n, hasShift, doDefrag, pending, torn>>
callVars == <<op, phase, rest, ub, nTested, entry>>
vars == <<cacheVars, callVars>>

Live == {i \in Cells : pos[i] >= 0}

\* The tokens in the cache, wherever they are placed.
At(i) == [pos |-> pos[i], seqs |-> seqs[i]]
Content == [t \in {At(i) : i \in Live} |-> Cardinality({i \in Live : At(i) = t})]

NoEntry == [content |-> << >>, clean |-> TRUE]

TypeOK ==
    /\ pos \in [Cells -> Nat \cup {-1}]
    /\ seqs \in [Cells -> SUBSET Seqs]
    /\ delta \in [Cells -> Int]
    /\ key \in [Cells -> Int]
    /\ head \in 0 .. KvSize
    /\ used \in 0 .. KvSize
    /\ n \in 0 .. KvSize
    /\ hasShift \in BOOLEAN
    /\ doDefrag \in BOOLEAN
    /\ pending \in SUBSET Cells
    /\ torn \in BOOLEAN
    /\ op \in {"none", "update", "decode", "load"}
    /\ phase \in {"idle", "update", "defrag", "loop", "slot", "probe", "full", "compute"}
    /\ rest \in Seq(Token)
    /\ ub \in Seq(Token)
    /\ nTested \in Nat

Init ==
    /\ pos = [i \in Cells |-> -1]
    /\ seqs = [i \in Cells |-> {}]
    /\ delta = [i \in Cells |-> 0]
    /\ key = [i \in Cells |-> NoKey]
    /\ head = 0 /\ used = 0 /\ n = 0
    /\ hasShift = FALSE /\ doDefrag = FALSE
    /\ pending = {}
    /\ torn = FALSE
    /\ op = "none" /\ phase = "idle"
    /\ rest = << >> /\ ub = << >>
    /\ nTested = 0
    /\ entry = NoEntry

-----------------------------------------------------------------------------
(* Pieces of the operations.                                               *)

\* Position ranges: a negative p0 means 0, a negative p1 means no limit.
InRange(p, p0, p1) == p >= 0 /\ p >= p0 /\ (p1 < 0 \/ p < p1)
EmptyRange(p0, p1) == p1 >= 0 /\ p1 = (IF p0 < 0 THEN 0 ELSE p0)

\* Mutants of Release: a free cell is counted too, no cell is counted.
ReleaseCountsFree(F) ==
    /\ pos' = [i \in Cells |-> IF i \in F THEN -1 ELSE pos[i]]
    /\ key' = [i \in Cells |-> IF i \in F THEN NoKey ELSE key[i]]
    /\ used' = used - Cardinality(F)
ReleaseUncounted(F) ==
    /\ pos' = [i \in Cells |-> IF i \in F THEN -1 ELSE pos[i]]
    /\ key' = [i \in Cells |-> IF i \in F THEN NoKey ELSE key[i]]
    /\ used' = used

\* The cells of F lose their tokens; the count of used cells follows.
Release(F) ==
    /\ pos' = [i \in Cells |-> IF i \in F THEN -1 ELSE pos[i]]
    /\ key' = [i \in Cells |-> IF i \in F THEN NoKey ELSE key[i]]
    /\ used' = used - Cardinality(F \cap Live)

\* "If we freed up a slot, set head to it so searching can start there."
IsFirst(x, F) == x \in F /\ \A y \in F : x <= y

LowerHead(F) ==
    IF \A y \in F : head <= y THEN head' = head
                              ELSE head' \in F /\ IsFirst(head', F)

\* seq_rm, as the API and state_read use it.
Remove(s, p0, p1) ==
    LET hit == {i \in Cells : InRange(pos[i], p0, p1) /\ (s = AnySeq \/ s \in seqs[i])}
        left == [i \in Cells |-> IF i \notin hit THEN seqs[i]
                                 ELSE IF s = AnySeq THEN {} ELSE seqs[i] \ {s}]
        freed == {i \in hit : left[i] = {}}
    IN  /\ seqs' = left
        /\ Release(freed)
        /\ LowerHead(freed)
        /\ UNCHANGED delta

\* Mutants of Restore: the sequences stay in the cells; only the last range is undone.
RestoreKeepsSeqs ==
    /\ Release(pending) /\ LowerHead(pending)
    /\ UNCHANGED <<seqs, delta, pending>>
RestoreLast ==
    LET last == {i \in pending : i >= head /\ i < head + Len(ub)}
    IN  /\ seqs' = [i \in Cells |-> IF i \in last THEN {} ELSE seqs[i]]
        /\ Release(last) /\ LowerHead(last)
        /\ UNCHANGED <<delta, pending>>

\* restore(): undo the placements that were not committed.  pending.ranges
\* is left as it is.
Restore ==
    /\ seqs' = [i \in Cells |-> IF i \in pending THEN {} ELSE seqs[i]]
    /\ Release(pending)
    /\ LowerHead(pending)
    /\ UNCHANGED <<delta, pending>>

\* clear(): the deltas, has_shift and pending.ranges survive it.
Wipe ==
    /\ pos' = [i \in Cells |-> -1]
    /\ seqs' = [i \in Cells |-> {}]
    /\ key' = [i \in Cells |-> NoKey]
    /\ head' = 0
    /\ used' = 0
    /\ torn' = FALSE
    /\ UNCHANGED <<delta, pending>>

Call(o, p) == op' = o /\ phase' = p

Return ==
    /\ op' = "none" /\ phase' = "idle"
    /\ rest' = << >> /\ ub' = << >>
    /\ nTested' = 0
    /\ entry' = NoEntry

Idle == phase = "idle"

\* After a load of the whole cache that ended among the cells, used is wrong:
\* the next seq_rm would wrap it around, a defragmentation read behind the
\* cells.  The load returned 0; assumed is that its caller then empties the
\* cache or loads another state into it.
Usable == Idle /\ ~ torn

\* A sequence with tokens whose saved state ended before their rows.  Here too
\* the load returned 0; assumed is that its caller removes the tokens before
\* it goes on with the sequence.
Lost(s) == \E i \in Cells : key[i] = LostKey /\ s \in seqs[i]

\* A metadata call of the API: it starts and ends while nothing else runs.
ApiCall == Usable /\ Return

-----------------------------------------------------------------------------
(* The operations on the metadata.                                         *)

Clear ==
    /\ Idle /\ Return
    /\ Wipe
    /\ UNCHANGED <<n, hasShift, doDefrag>>

SeqRm(s, p0, p1) ==
    /\ ApiCall
    /\ Remove(s, p0, p1)
    /\ UNCHANGED <<n, hasShift, doDefrag, pending, torn>>

SeqCp(src, dst, p0, p1) ==
    /\ ApiCall
    /\ src # dst /\ ~ Lost(src)
    /\ seqs' = [i \in Cells |-> IF src \in seqs[i] /\ InRange(pos[i], p0, p1)
                                THEN seqs[i] \cup {dst} ELSE seqs[i]]
    /\ head' = 0
    /\ UNCHANGED <<pos, delta, key, used, n, hasShift, doDefrag, pending, torn>>

SeqKeep(s) ==
    LET dropped == {i \in Cells : s \notin seqs[i]}
    IN  /\ ApiCall
        /\ seqs' = [i \in Cells |-> IF i \in dropped THEN {} ELSE {s}]
        /\ Release(dropped)
        /\ LowerHead(dropped)
        /\ UNCHANGED <<delta, n, hasShift, doDefrag, pending, torn>>

\* A cell whose position becomes negative is freed, for all its sequences.
SeqAdd(s, p0, p1, d) ==
    LET hit == {i \in Cells : s \in seqs[i] /\ InRange(pos[i], p0, p1)}
        freed == {i \in hit : pos[i] + d < 0}
    IN  /\ ApiCall
        /\ ~ EmptyRange(p0, p1) /\ ~ Lost(s)
        /\ \A i \in hit : pos[i] + d <= MaxPos
        /\ pos' = [i \in Cells |-> IF i \in freed THEN -1
                                   ELSE IF i \in hit THEN pos[i] + d ELSE pos[i]]
        /\ delta' = [i \in Cells |-> IF i \in hit THEN delta[i] + d ELSE delta[i]]
        /\ key' = [i \in Cells |-> IF i \in freed THEN NoKey ELSE key[i]]
        /\ seqs' = [i \in Cells |-> IF i \in freed THEN {} ELSE seqs[i]]
        /\ used' = used - Cardinality(freed)
        /\ hasShift' = (hasShift \/ hit # {})
        /\ IF freed = {} THEN head' = 0 ELSE head' \in freed /\ IsFirst(head', freed)
        /\ UNCHANGED <<n, doDefrag, pending, torn>>

SeqDiv(s, p0, p1, d) ==
    LET hit == {i \in Cells : s \in seqs[i] /\ InRange(pos[i], p0, p1)}
    IN  /\ ApiCall
        /\ ~ EmptyRange(p0, p1) /\ ~ Lost(s)
        /\ pos' = [i \in Cells |-> IF i \in hit THEN pos[i] \div d ELSE pos[i]]
        /\ delta' = [i \in Cells |-> IF i \in hit THEN delta[i] + (pos[i] \div d) - pos[i]
                                     ELSE delta[i]]
        /\ hasShift' = (hasShift \/ hit # {})
        /\ UNCHANGED <<seqs, key, head, used, n, doDefrag, pending, torn>>

Defrag ==
    /\ ApiCall
    /\ doDefrag' = TRUE
    /\ UNCHANGED <<cellVars, head, used, n, hasShift, pending, torn>>

-----------------------------------------------------------------------------
(* kv_self_update(): the K-shift, then the defragmentation.                *)

Update ==
    /\ Usable
    /\ Call("update", "update")
    /\ UNCHANGED <<cacheVars, rest, ub, nTested, entry>>

\* Mutant of KShift: the deltas are not reset.
KShiftKeepsDeltas ==
    /\ phase = "update" /\ phase' = "defrag"
    /\ key' = [i \in Cells |-> IF hasShift /\ i \in Live /\ key[i] # LostKey
                                  THEN key[i] + delta[i] ELSE key[i]]
    /\ hasShift' = FALSE
    /\ UNCHANGED <<n, delta, pos, seqs, head, used, doDefrag, pending, torn, op, rest, ub, nTested, entry>>

\* The graph rotates each row by its delta.  Its status is not looked at.
KShift ==
    /\ phase = "update"
    /\ phase' = "defrag"
    /\ \E status \in UpdateStatuses :
          key' = [i \in Cells |-> IF hasShift /\ i \in Live /\ status = "success" /\ key[i] # LostKey
                                  THEN key[i] + delta[i] ELSE key[i]]
    /\ delta' = [i \in Cells |-> IF hasShift THEN 0 ELSE delta[i]]
    /\ hasShift' = FALSE
    /\ n' = IF hasShift THEN KvSize ELSE n
    /\ UNCHANGED <<pos, seqs, head, used, doDefrag, pending, torn, op, rest, ub, nTested, entry>>

\* defrag_prepare() fills the holes among the first used cells with the
\* tokens that lie behind them.
Holes == {i \in Cells : i < used /\ seqs[i] = {}}
Tails == {i \in Cells : i >= used /\ seqs[i] # {}}

EndUpdate == IF op = "update"
             THEN Return
             ELSE phase' = "loop" /\ UNCHANGED <<op, rest, ub, nTested, entry>>

\* The rows move with the metadata, if the graph that copies them runs.
MoveCells ==
    \E f \in [Holes -> Tails] :
        LET to == Moved(Holes, f, MaxMoves)
            from == {f[h] : h \in to}
            Moving(F, none) == [i \in Cells |-> IF i \in to THEN F[f[i]]
                                                ELSE IF i \in from THEN none ELSE F[i]]
        IN  /\ IsPlan(Holes, f)
            /\ pos' = Moving(pos, -1)
            /\ seqs' = Moving(seqs, {})
            /\ delta' = Moving(delta, 0)
            /\ \E status \in UpdateStatuses :
                  key' = IF status = "success" THEN Moving(key, NoKey)
                         ELSE [i \in Cells |-> IF i \in to \cup from THEN NoKey ELSE key[i]]
            /\ head' = IF to = {} THEN head ELSE used
            /\ n' = IF to = {} THEN n ELSE KvSize

Defragment ==
    /\ phase = "defrag"
    /\ EndUpdate
    /\ IF doDefrag THEN MoveCells ELSE UNCHANGED <<cellVars, head, n>>
    /\ doDefrag' = FALSE
    /\ UNCHANGED <<used, hasShift, pending, torn>>

-----------------------------------------------------------------------------
(* decode().                                                               *)

\* A batch that gives no positions continues after the largest one in the
\* cache and belongs to the default sequence.
IsPosMax(p) == p \in {-1} \cup {pos[i] : i \in Cells} /\ \A i \in Cells : pos[i] <= p
AutoBatch(p, k) ==
    [j \in 1 .. k |-> [pos |-> p + j, seqs |-> {DefaultSeq}, key |-> p + j]]

Decode(b) ==
    /\ Usable
    /\ b # << >>
    /\ \A j \in 1 .. Len(b) : \A s \in b[j].seqs : ~ Lost(s)
    /\ Call("decode", "update")
    /\ rest' = b
    /\ entry' = [content |-> Content, clean |-> pending = {}]
    /\ UNCHANGED <<cacheVars, ub, nTested>>

DecodeBatch == \E b \in Batches : Decode(b)

DecodeAuto ==
    \E p \in -1 .. MaxPos, k \in 1 .. MaxAuto :
        IsPosMax(p) /\ p + k <= MaxPos /\ Decode(AutoBatch(p, k))

\* Every way out of decode runs the guard's destructor, that is restore().
Fail ==
    /\ Restore
    /\ Return
    /\ UNCHANGED <<n, hasShift, doDefrag, torn>>

\* output_reserve() fails (-2), or a token id is out of range (exception).
DecodeRefused ==
    /\ phase = "update" /\ op = "decode"
    /\ Fail

SplitUbatch ==
    /\ phase = "loop" /\ rest # << >>
    /\ LET k == IF Len(rest) < NUbatch THEN Len(rest) ELSE NUbatch
       IN  /\ ub' = SubSeq(rest, 1, k)
           /\ rest' = SubSeq(rest, k + 1, Len(rest))
    /\ phase' = "slot"
    /\ UNCHANGED <<cacheVars, op, nTested, entry>>

\* With enough unused cells before head, the search starts at the beginning.
StartHead == IF head > used + 2 * Len(ub) THEN 0 ELSE head

\* find_slot() until its search loop.
FindSlot ==
    /\ phase = "slot"
    /\ head' = StartHead
    /\ phase' = IF Len(ub) > KvSize THEN "full" ELSE "probe"
    /\ nTested' = 0
    /\ UNCHANGED <<cellVars, used, n, hasShift, doDefrag, pending, torn, op, rest, ub, entry>>

Fits(h) == h + Len(ub) <= KvSize
Run(h) == h .. h + Len(ub) - 1
\* Mutant of FreeRun: the last cell is not looked at.
FreeRunShort(h) == Fits(h) /\ \A i \in Run(h) : i < h + Len(ub) - 1 => pos[i] < 0
FreeRun(h) == Fits(h) /\ \A i \in Run(h) : pos[i] < 0

\* Mutant of ProbeWrap: the whole cache is counted as tested.
ProbeWrapAll ==
    /\ phase = "probe" /\ ~ Fits(head)
    /\ nTested' = nTested + KvSize
    /\ head' = 0
    /\ UNCHANGED <<cellVars, used, n, hasShift, doDefrag, pending, torn, op, phase, rest, ub, entry>>

ProbeWrap ==
    /\ phase = "probe" /\ ~ Fits(head)
    /\ nTested' = nTested + KvSize - head
    /\ head' = 0
    /\ UNCHANGED <<cellVars, used, n, hasShift, doDefrag, pending, torn, op, phase, rest, ub, entry>>

\* Mutant of ProbeMiss: the search goes on at the used cell, not behind it.
ProbeMissStays ==
    /\ phase = "probe" /\ Fits(head)
    /\ \E h \in Run(head) :
          /\ pos[h] >= 0 /\ \A i \in Run(head) : i < h => pos[i] < 0
          /\ head' = h
          /\ nTested' = nTested + h - head
    /\ phase' = IF nTested' >= KvSize THEN "full" ELSE "probe"
    /\ UNCHANGED <<cellVars, used, n, hasShift, doDefrag, pending, torn, op, rest, ub, entry>>

\* The run at head meets a used cell, h is the first: go on behind it.
ProbeMiss ==
    /\ phase = "probe" /\ Fits(head)
    /\ \E h \in Run(head) :
          /\ pos[h] >= 0 /\ \A i \in Run(head) : i < h => pos[i] < 0
          /\ head' = h + 1
          /\ nTested' = nTested + h + 1 - head
    /\ phase' = IF nTested' >= KvSize THEN "full" ELSE "probe"
    /\ UNCHANGED <<cellVars, used, n, hasShift, doDefrag, pending, torn, op, rest, ub, entry>>

\* GGML_PAD and cell_max(), which also asks that the cell is not empty: the
\* same, by EmptyIffNoPos.
Padded(x) == ((x + Pad - 1) \div Pad) * Pad
Least(x, y) == IF x < y THEN x ELSE y
IsCellMax(c, P) == (c = 0 \/ P[c - 1] >= 0) /\ \A i \in Cells : P[i] >= 0 => i < c
Attended(P) ==
    {m \in 0 .. KvSize : \E c \in 0 .. KvSize :
        IsCellMax(c, P) /\ m = Least(KvSize, IF Padded(c) < Pad THEN Pad ELSE Padded(c))}

\* state_read_meta() commits the slot at once, decode after its last ubatch.
ProbeFound ==
    /\ phase = "probe" /\ FreeRun(head)
    /\ pos' = [i \in Cells |-> IF i \in Run(head) THEN ub[i - head + 1].pos ELSE pos[i]]
    /\ seqs' = [i \in Cells |-> IF i \in Run(head) THEN ub[i - head + 1].seqs ELSE seqs[i]]
    /\ used' = used + Len(ub)
    /\ pending' = IF op = "load" THEN {} ELSE pending \cup Run(head)
    /\ IF op = "load" THEN n' = n ELSE n' \in Attended(pos')
    /\ phase' = "compute"
    /\ UNCHANGED <<delta, key, head, hasShift, doDefrag, torn, op, rest, ub, nTested, entry>>

\* The result is 1, a warning.
SlotNotFound ==
    /\ phase = "full" /\ op = "decode"
    /\ Fail

\* The graph writes the rows of the ubatch.
WriteRows == key' = [i \in Cells |-> IF i \in Run(head) THEN ub[i - head + 1].key ELSE key[i]]

Compute ==
    /\ phase = "compute" /\ op = "decode"
    /\ WriteRows
    /\ phase' = "loop"
    /\ UNCHANGED <<pos, seqs, delta, head, used, n, hasShift, doDefrag, pending, torn,
                   op, rest, ub, nTested, entry>>

\* GGML_STATUS_ABORTED (result 2), _ALLOC_FAILED (-2), _FAILED (-3).
ComputeFails ==
    /\ phase = "compute" /\ op = "decode"
    /\ Fail

\* 1 - (used + pad)/n > defrag_thold, for an n that is large enough.
Fragmented == n >= DefragMin /\ 100 * (n - used - Pad) > DefragThold * n

DecodeDone ==
    /\ phase = "loop" /\ rest = << >>
    /\ pending' = {}
    /\ doDefrag' = (doDefrag \/ (DefragThold > 0 /\ Fragmented))
    /\ Return
    /\ UNCHANGED <<cellVars, head, used, n, hasShift, torn>>

-----------------------------------------------------------------------------
(* state_read(): loading a saved state.  A state that is too short makes    *)
(* the reader throw; the exception passes by the clear() and the seq_rm()  *)
(* of state_read, and is caught outside.  If it is too short before its    *)
(* cells begin, nothing happens.                                           *)

MayLoad == Idle /\ (CallerUpdates => ~ hasShift)

\* The first cells hold the tokens of a saved state.
Filled(b, rows) ==
    /\ pos' = [i \in Cells |-> IF i < Len(b) THEN b[i + 1].pos ELSE -1]
    /\ seqs' = [i \in Cells |-> IF i < Len(b) THEN b[i + 1].seqs ELSE {}]
    /\ key' = [i \in Cells |-> IF i >= Len(b) THEN NoKey
                               ELSE IF rows THEN b[i + 1].key ELSE LostKey]
    /\ head' = 0
    /\ used' = Len(b)
    /\ torn' = FALSE
    /\ UNCHANGED <<delta, pending>>

\* The state ends in cell k: before its position, or before one of its
\* sequences.  The count of used cells is not set.
EndsAmongCells(b) ==
    \E k \in 0 .. Len(b) - 1 :
        \E p \in {-1, b[k + 1].pos}, S \in (SUBSET b[k + 1].seqs) \ {b[k + 1].seqs} :
            /\ p = -1 => S = {}
            /\ pos' = [i \in Cells |-> IF i < k THEN b[i + 1].pos ELSE IF i = k THEN p ELSE -1]
            /\ seqs' = [i \in Cells |-> IF i < k THEN b[i + 1].seqs ELSE IF i = k THEN S ELSE {}]
            /\ key' = [i \in Cells |-> IF i <= k THEN LostKey ELSE NoKey]
            /\ head' = 0
            /\ used' = 0
            /\ torn' = \E i \in Cells : pos'[i] >= 0
            /\ UNCHANGED <<delta, pending>>

\* The whole cache.  The cells are filled from 0; a state that does not fit
\* or whose data does not match leaves an empty cache, one that ends among the
\* rows cells without them.
LoadWhole(b) ==
    /\ MayLoad
    /\ Return
    /\ \/ Wipe
       \/ Len(b) <= KvSize /\ \E rows \in BOOLEAN : Filled(b, rows)
       \/ Len(b) <= KvSize /\ EndsAmongCells(b)
    /\ UNCHANGED <<n, hasShift, doDefrag>>

\* One sequence: it is removed, and a slot is searched for the new cells,
\* unless the state ends among them.
LoadSeq(b, dst) ==
    /\ MayLoad /\ ~ torn
    /\ b # << >>
    /\ Remove(dst, -1, -1)
    /\ \/ /\ ub' = [j \in 1 .. Len(b) |-> [pos |-> b[j].pos, seqs |-> {dst}, key |-> b[j].key]]
          /\ Call("load", "slot")
          /\ UNCHANGED <<rest, nTested, entry>>
       \/ Return
    /\ UNCHANGED <<n, hasShift, doDefrag, pending, torn>>

LoadRows ==
    /\ phase = "compute" /\ op = "load"
    /\ WriteRows
    /\ Return
    /\ UNCHANGED <<pos, seqs, delta, head, used, n, hasShift, doDefrag, pending, torn>>

\* The state ends among the rows.  The cells are committed and stay.
LoadEnds ==
    /\ phase = "compute" /\ op = "load"
    /\ key' = [i \in Cells |-> IF i \in Run(head) THEN LostKey ELSE key[i]]
    /\ Return
    /\ UNCHANGED <<pos, seqs, delta, head, used, n, hasShift, doDefrag, pending, torn>>

\* No slot, or data that does not match: the sequence is removed again.
LoadFails ==
    /\ phase \in {"full", "compute"} /\ op = "load"
    /\ \E s \in ub[1].seqs : Remove(s, -1, -1)
    /\ Return
    /\ UNCHANGED <<n, hasShift, doDefrag, pending, torn>>

-----------------------------------------------------------------------------
Api ==
    \/ Clear
    \/ \E s \in Seqs \cup {AnySeq}, p0, p1 \in Bounds : SeqRm(s, p0, p1)
    \/ \E s, t \in Seqs, p0, p1 \in Bounds : SeqCp(s, t, p0, p1)
    \/ \E s \in Seqs : SeqKeep(s)
    \/ \E s \in Seqs, p0, p1 \in Bounds, d \in Deltas : SeqAdd(s, p0, p1, d)
    \/ \E s \in Seqs, p0, p1 \in Bounds : SeqDiv(s, p0, p1, 2)
    \/ Defrag
    \/ Update
    \/ DecodeBatch
    \/ DecodeAuto
    \/ \E b \in Blobs : LoadWhole(b)
    \/ \E b \in Blobs, s \in Seqs : LoadSeq(b, s)

\* The steps of a call in progress.
Step ==
    \/ KShift
    \/ Defragment
    \/ DecodeRefused
    \/ SplitUbatch
    \/ FindSlot
    \/ ProbeWrap
    \/ ProbeMiss
    \/ ProbeFound
    \/ SlotNotFound
    \/ Compute
    \/ ComputeFails
    \/ DecodeDone
    \/ LoadRows
    \/ LoadEnds
    \/ LoadFails

Next == Api \/ Step

\* A call runs to its end: nothing in it waits.
Spec == Init /\ [][Next]_vars /\ WF_vars(Step)

-----------------------------------------------------------------------------
(* Correctness.                                                            *)

\* The count of used cells is exact, unless a load of the whole cache ended
\* among the cells and the cache was not emptied since.  find_slot, the
\* heuristic that requests a defragmentation, and defrag_prepare itself rely on
\* the count ("this can only happen if `n_used` is not accurate, which would be
\* a bug").
UsedIsCount == ~ torn => used = Cardinality(Live)

\* The two ways the code asks whether a cell is free, pos < 0 in find_slot
\* and is_empty() in seq_rm, restore and defrag_prepare, agree, with the same
\* exception.
EmptyIffNoPos == ~ torn => \A i \in Cells : pos[i] = -1 <=> seqs[i] = {}

\* find_slot gives up only when no run of free cells is long enough,
\* wherever its search started.
SearchComplete == phase = "full" => \A h \in Cells : ~ FreeRun(h)

\* There are as many tokens behind the used cells as holes among them: the
\* assertion nf == nh of defrag_prepare cannot fail.
HolesMatchTails == ~ torn => Cardinality(Holes) = Cardinality(Tails)

\* Every row, except those of the ubatch being evaluated, is rotated for the
\* token's position once the delta is applied, unless the token is from a
\* state that ended before its rows; while a graph reads the rows no delta is
\* due and every token lies in the attended range.
RowFollows(i) == key[i] # LostKey => key[i] + delta[i] = pos[i]
Fresh == IF phase = "compute" THEN Run(head) ELSE {}
KeysFollowPositions ==
    /\ \A i \in Live \ Fresh : RowFollows(i)
    /\ phase = "compute" /\ op = "decode" => \A i \in Live : delta[i] = 0 /\ i < n

\* The steps with which decode returns a negative and a positive result.
Errs == op = "decode" /\ phase \in {"update", "compute"} /\ op' = "none"
Warns == op = "decode" /\ phase \in {"full", "compute"} /\ op' = "none"

\* A decode that fails leaves the tokens in the cache that were there when
\* it was called.  (llama.h: "the KV cache state is restored to the state
\* before this call".)
DecodeErrorRestores ==
    [][Errs => Content' = entry.content]_vars

\* The same, for every error and warning, of a decode that found no stale
\* pending range when it was called.
CleanDecodeErrorRestores ==
    [][(Warns \/ Errs) /\ entry.clean
          => Content' = entry.content]_vars

\* Defragmentation changes where the tokens are, never which there are.
DefragKeepsContent == [][phase = "defrag" => Content' = Content]_vars

\* A decode neither drops nor moves a token of the ones already there from
\* the moment it starts to place its own: rows that were computed stay valid.
PlacingKeepsTokens ==
    [][op = "decode" /\ phase \in {"loop", "slot", "probe"}
          => (\A i \in Live : pos'[i] = pos[i] /\ seqs'[i] = seqs[i])]_vars

\* Every call ends: the search loop of find_slot cannot run in circles.
CallReturns == phase # "idle" ~> phase = "idle"
=============================================================================
