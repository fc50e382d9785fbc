----------------------------- MODULE FreeBlocks -----------------------------
(***************************************************************************)
(* The dynamic tensor allocator, ggml_dyn_tallocr of                       *)
(* src/llyy.cpp/ggml/src/ggml-alloc.c: a sequence of free blocks, sorted   *)
(* by their offsets.  Sizes are in units of the alignment.                 *)
(***************************************************************************)
EXTENDS Integers, Sequences, SequencesExt

CONSTANT Limit  \* the size of the first block, SIZE_MAX/2

ASSUME LimitAssumption == Limit \in Nat \ {0}

Block(offset, size) == [offset |-> offset, size |-> size]
End(b) == b.offset + b.size

\* ggml_dyn_tallocr_reset()
Reset == <<Block(0, Limit)>>

\* The smallest block but the last one that is large enough, the later one of
\* two; the last block is the last resort.
IsBestFit(bs, size, i) ==
    LET fits == {k \in 1 .. Len(bs) - 1 : bs[k].size >= size}
    IN  IF fits = {} THEN i = Len(bs) /\ bs[i].size >= size
        ELSE /\ i \in fits
             /\ \A k \in fits : bs[i].size < bs[k].size \/ (bs[i].size = bs[k].size /\ k <= i)
BestFit(bs, size) == CHOOSE i \in 1 .. Len(bs) : IsBestFit(bs, size, i)

\* Mutant of Taken: an empty block stays.
TakenLeft(bs, i, size) == [bs EXCEPT ![i] = Block(@.offset + size, @.size - size)]
\* ggml_dyn_tallocr_alloc() of block i: its beginning is used.
Taken(bs, i, size) ==
    IF bs[i].size = size THEN RemoveAt(bs, i)
    ELSE [bs EXCEPT ![i] = Block(@.offset + size, @.size - size)]

\* Where a block is inserted that touches none.
InsertPos(bs, offset) ==
    CHOOSE p \in 1 .. Len(bs) + 1 :
        /\ \A k \in 1 .. p - 1 : bs[k].offset < offset
        /\ p <= Len(bs) => bs[p].offset >= offset

\* Mutant of Grown: the next block is not looked at.
GrownAlone(bs, i, size) == [bs EXCEPT ![i].size = @ + size]
\* Block i grows at its end and is merged with the next one if they meet.
Grown(bs, i, size) ==
    IF i < Len(bs) /\ End(bs[i]) + size = bs[i + 1].offset
    THEN RemoveAt([bs EXCEPT ![i].size = @ + size + bs[i + 1].size], i + 1)
    ELSE [bs EXCEPT ![i].size = @ + size]

\* ggml_dyn_tallocr_free_tensor(): the first block that the freed one touches.
\* If that is the block behind it, the block before does not touch it, and the
\* second merge of the code is never made.  The code aborts if a block has to be
\* inserted and there are MAX_FREE_BLOCKS (256) already, which is left out.
Freed(bs, offset, size) ==
    LET Touches(i) == End(bs[i]) = offset \/ offset + size = bs[i].offset
        touching == {i \in 1 .. Len(bs) : Touches(i)}
    IN  IF touching = {} THEN InsertAt(bs, InsertPos(bs, offset), Block(offset, size))
        ELSE LET i == CHOOSE i \in touching : \A k \in touching : i <= k
             IN  IF End(bs[i]) = offset THEN Grown(bs, i, size)
                 ELSE [bs EXCEPT ![i] = Block(offset, @.size + size)]
=============================================================================
