------------------------------ MODULE KvDefrag ------------------------------
(***************************************************************************)
(* The loops of llama_kv_cache_unified::defrag_prepare, which move the     *)
(* metadata of the cells and record in ids where each cell goes, and of    *)
(* llama_context::build_kv_self_defrag, which copies the rows accordingly. *)
(* Each step is one iteration of a loop.  KvCache does all of this in one  *)
(* step, by the plan of DefragPlan.                                        *)
(***************************************************************************)
EXTENDS DefragPlan, Sequences

CONSTANTS
    Size,       \* cells of the cache
    MaxMoves    \* the values of max_moves, a limit given by the graph's size

ASSUME DefragAssumption == Size \in Nat \ {0} /\ MaxMoves \subseteq Nat \ {0}

Cells == 0 .. Size - 1
Free == -1      \* a free cell; any other value names a token

VARIABLES
    occupied,   \* the cells that hold tokens at the start
    max,        \* max_moves
    cells,      \* the token whose metadata each cell holds
    rows,       \* the token whose K and V rows each cell holds
    ids,        \* ids[i]: the cell that cell i goes to
    i0, nh,     \* the hole and its size
    is, i1, nf, \* the scans for tokens that fill it
    cont,       \* a block is being moved
    moves,      \* n_moves
    copies,     \* block copies in the graph
    pc

vars == <<occupied, max, cells, rows, ids, i0, nh, is, i1, nf, cont, moves, copies, pc>>

\* Mutant of nUsed: the cache's count is one too high.
nUsedHigh == Cardinality(occupied) + 1
nUsed == Cardinality(occupied)
nKv == CHOOSE m \in 0 .. Size :
           (m = 0 \/ m - 1 \in occupied) /\ \A i \in occupied : i < m

Init ==
    /\ occupied \in SUBSET Cells
    /\ max \in MaxMoves
    /\ cells = [i \in Cells |-> IF i \in occupied THEN i ELSE Free]
    /\ rows = cells
    /\ ids = [i \in 0 .. nKv - 1 |-> nKv]
    /\ i0 = 0 /\ nh = 0 /\ is = 0 /\ i1 = 0 /\ nf = 0
    /\ cont = FALSE
    /\ moves = 0 /\ copies = 0
    /\ pc = "outer"

\* A cell the scans pass over: free, or already dealt with.
Skipped(i) == cells[i] = Free \/ ids[i] # nKv

Keep ==
    /\ pc = "outer" /\ i0 < nUsed /\ cells[i0] # Free
    /\ ids' = [ids EXCEPT ![i0] = i0]
    /\ i0' = i0 + 1
    /\ UNCHANGED <<occupied, max, cells, rows, nh, is, i1, nf, cont, moves, copies, pc>>

\* Determine the size of the hole.
Hole ==
    /\ pc = "outer" /\ i0 < nUsed /\ cells[i0] = Free
    /\ nh' \in 1 .. nUsed - i0
    /\ \A i \in i0 .. i0 + nh' - 1 : cells[i] = Free
    /\ i0 + nh' = nUsed \/ cells[i0 + nh'] # Free
    /\ nf' = 0
    /\ is' = nKv - 1
    /\ pc' = "back"
    /\ UNCHANGED <<occupied, max, cells, rows, ids, i0, i1, cont, moves, copies>>

\* From the end, find nh cells that hold tokens.
Back ==
    /\ pc = "back" /\ is > i0
    /\ nf' = IF Skipped(is) THEN nf ELSE nf + 1
    /\ IF nf' = nh
       THEN pc' = "forward" /\ i1' = is /\ cont' = FALSE /\ UNCHANGED is
       ELSE is' = is - 1 /\ UNCHANGED <<pc, i1, cont>>
    /\ UNCHANGED <<occupied, max, cells, rows, ids, i0, nh, moves, copies>>

\* Go back and move them to the hole: nf now counts those still to be moved
\* (the code starts again from 0 and counts up).
Gap ==
    /\ pc = "forward" /\ i1 < nKv /\ Skipped(i1)
    /\ IF moves = max
       THEN pc' = "copy" /\ i1' = 0 /\ UNCHANGED cont
       ELSE cont' = FALSE /\ i1' = i1 + 1 /\ UNCHANGED pc
    /\ UNCHANGED <<occupied, max, cells, rows, ids, i0, nh, is, nf, moves, copies>>

\* Mutant of Filled: the index of the cell in the hole is one too low.
FilledLow == i0 + nh - nf - 1
\* The cell of the hole that is filled next: nf counts down from nh.
Filled == i0 + nh - nf

Move ==
    /\ pc = "forward" /\ i1 < nKv /\ ~ Skipped(i1)
    /\ ids' = [ids EXCEPT ![i1] = Filled]
    /\ cells' = [cells EXCEPT ![Filled] = cells[i1], ![i1] = Free]
    /\ moves' = IF cont THEN moves ELSE moves + 1
    /\ cont' = TRUE
    /\ nf' = nf - 1
    /\ IF nf' > 0
       THEN i1' = i1 + 1 /\ UNCHANGED <<i0, pc>>
       ELSE IF moves' = max
            THEN pc' = "copy" /\ i1' = 0 /\ UNCHANGED i0
            ELSE pc' = "outer" /\ i0' = i0 + nh /\ UNCHANGED i1
    /\ UNCHANGED <<occupied, max, rows, nh, is, copies>>

Prepared ==
    /\ pc = "outer" /\ i0 >= nUsed
    /\ pc' = "copy" /\ i1' = 0
    /\ UNCHANGED <<occupied, max, cells, rows, ids, i0, nh, is, nf, cont, moves, copies>>

-----------------------------------------------------------------------------
(* build_kv_self_defrag().                                                 *)

Stays(i) == ids[i] \in {i, nKv}

CopySkip ==
    /\ pc = "copy" /\ i1 < nKv /\ Stays(i1)
    /\ i1' = i1 + 1
    /\ UNCHANGED <<occupied, max, cells, rows, ids, i0, nh, is, nf, cont, moves, copies, pc>>

\* Mutant of InBlock: the block is not ended where the destinations jump.
InBlockLoose(i, k) == i + k < nKv /\ ~ Stays(i + k)
\* The cell k places behind i belongs to the block that starts at i.
InBlock(i, k) == i + k < nKv /\ ids[i + k] = ids[i] + k

CopyBlock ==
    /\ pc = "copy" /\ i1 < nKv /\ ~ Stays(i1)
    /\ \E nm \in 1 .. nKv :
          /\ \A k \in 1 .. nm - 1 : InBlock(i1, k)
          /\ ~ InBlock(i1, nm)
          /\ rows' = [i \in Cells |-> IF i \in ids[i1] .. ids[i1] + nm - 1
                                      THEN rows[i1 + i - ids[i1]] ELSE rows[i]]
          /\ i1' = i1 + nm
    /\ copies' = copies + 1
    /\ UNCHANGED <<occupied, max, cells, ids, i0, nh, is, nf, cont, moves, pc>>

Copied ==
    /\ pc = "copy" /\ i1 = nKv
    /\ pc' = "done"
    /\ UNCHANGED <<occupied, max, cells, rows, ids, i0, nh, is, i1, nf, cont, moves, copies>>

Next == Keep \/ Hole \/ Back \/ Gap \/ Move \/ Prepared \/ CopySkip \/ CopyBlock \/ Copied

Spec == Init /\ [][Next]_vars

-----------------------------------------------------------------------------
TypeOK ==
    /\ cells \in [Cells -> Cells \cup {Free}]
    /\ rows \in [Cells -> Cells \cup {Free}]
    /\ ids \in [0 .. nKv - 1 -> 0 .. nKv]
    /\ i0 \in 0 .. Size /\ nh \in 0 .. Size /\ i1 \in 0 .. Size /\ nf \in 0 .. nh
    /\ moves \in 0 .. Size /\ copies \in 0 .. Size

\* The scan from the end finds enough tokens before it reaches the hole
\* ("KV defrag bug: nf != nh"), and the scan back from there does not run past
\* the last token before the hole is full.
ScanSucceeds ==
    /\ pc = "back" => is > i0
    /\ pc = "forward" => i1 < nKv

\* The loops move the tokens as DefragPlan says.
Holes == {i \in Cells : i < nUsed /\ i \notin occupied}
Tails == {i \in occupied : i >= nUsed}
ImplementsPlan ==
    pc = "done" =>
        \E f \in [Holes -> Tails] :
            LET to == Moved(Holes, f, max)
            IN  /\ IsPlan(Holes, f)
                /\ cells = [i \in Cells |-> IF i \in to THEN f[i]
                                            ELSE IF i \in {f[h] : h \in to} THEN Free
                                            ELSE IF i \in occupied THEN i ELSE Free]

\* Every token's rows lie in the cell that its metadata was moved to, and the
\* graph has no more copies than there are moves, which it has room for.
RowsFollowCells ==
    pc = "done" => /\ \A i \in Cells : cells[i] # Free => rows[i] = cells[i]
                   /\ copies <= max
=============================================================================
