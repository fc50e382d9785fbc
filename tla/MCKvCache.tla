----------------------------- MODULE MCKvCache -----------------------------
(* KvCache on a small instance: four cells, two sequences.                 *)
EXTENDS KvCache

CONSTANTS s0, s1

MCSeqs == {s0, s1}

Tok(p, S) == [pos |-> p, seqs |-> S, key |-> p]

\* Three tokens of two sequences: two ubatches.
MCBatches == {<<Tok(0, {s1}), Tok(1, {s1}), Tok(1, {s0})>>}

\* A saved state of two cells, its rows rotated for their positions.
MCBlobs == {<<Tok(0, {s0}), Tok(1, {s0, s1})>>}
MCBounds == {-1, 1}
MCDeltas == {-1}
MCOk == {"success"}
=============================================================================
