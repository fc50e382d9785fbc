--------------------------- MODULE KvCache_proofs ---------------------------
(***************************************************************************)
(* Proofs about KvCache, for every size of the cache, every set of         *)
(* sequences, batches and saved states.                                    *)
(*                                                                         *)
(* IndInv is the inductive invariant.  CacheOK says that the metadata of   *)
(* the cells is consistent, CallOK that the call in progress has a         *)
(* well-formed ubatch, Rejected what the search loop of find_slot has      *)
(* learnt: every start it has passed is blocked by a used cell.            *)
(***************************************************************************)
EXTENDS KvCache, FiniteSetTheorems, TLAPS

CacheOK ==
    /\ pos \in [Cells -> Nat \cup {-1}]
    /\ seqs \in [Cells -> SUBSET Seqs]
    /\ delta \in [Cells -> Int]
    /\ key \in [Cells -> Int]
    /\ head \in 0 .. KvSize
    /\ torn \in BOOLEAN
    /\ torn => used = 0
    /\ EmptyIffNoPos
    /\ UsedIsCount

CallOK ==
    /\ n \in 0 .. KvSize
    /\ hasShift \in BOOLEAN
    /\ doDefrag \in BOOLEAN
    /\ pending \in SUBSET Cells
    /\ op \in {"none", "update", "decode", "load"}
    /\ phase \in {"idle", "update", "defrag", "loop", "slot", "probe", "full", "compute"}
    /\ rest \in Seq(Token)
    /\ ub \in Seq(Token)
    /\ nTested \in Nat
    /\ phase \in {"slot", "probe", "full", "compute"} => ub # << >>
    /\ phase \in {"slot", "probe", "full", "compute"} => op \in {"decode", "load"}
    /\ phase = "loop" => op = "decode"
    /\ phase \in {"update", "defrag"} => op \in {"update", "decode"}
    /\ phase = "probe" => Len(ub) <= KvSize
    /\ phase = "compute" => Fits(head)
    /\ torn => phase = "idle"

\* The starts the search has passed: those between its start and head, which
\* lies nTested cells further, and wraps around at the end of the cache.
Passed(h) == (head - nTested <= h /\ h < head) \/ h >= head + KvSize - nTested

Rejected ==
    /\ phase = "probe" => \A h \in Cells : Passed(h) => ~ FreeRun(h)
    /\ SearchComplete

IndInv == CacheOK /\ CallOK /\ Rejected

-----------------------------------------------------------------------------
(* Counting cells.                                                         *)

\* Sets of cells are finite and no larger than the cache.
LEMMA CellSets ==
    ASSUME NEW STATE S, S \in SUBSET Cells
    PROVE  IsFiniteSet(S) /\ Cardinality(S) \in Nat /\ Cardinality(S) <= KvSize
<1>1. IsFiniteSet(Cells) /\ Cardinality(Cells) = KvSize
    BY SizeAssumption, FS_Interval DEF Cells
<1>2. IsFiniteSet(S) /\ Cardinality(S) <= KvSize
    BY <1>1, FS_Subset
<1> QED BY <1>2, FS_CardinalityType

\* The cells left after some are taken away.
LEMMA CellsTaken ==
    ASSUME NEW STATE S, S \in SUBSET Cells, NEW STATE F, F \in SUBSET Cells
    PROVE  Cardinality(S \ F) = Cardinality(S) - Cardinality(F \cap S)
<1>1. IsFiniteSet(S \ F) /\ IsFiniteSet(F \cap S)
    BY CellSets
<1>2. (S \ F) \cap (F \cap S) = {} /\ (S \ F) \cup (F \cap S) = S
    OBVIOUS
<1>3. Cardinality(S) = Cardinality(S \ F) + Cardinality(F \cap S) - Cardinality({})
    BY <1>1, <1>2, FS_Union
<1>4. Cardinality(S \ F) \in Nat /\ Cardinality(F \cap S) \in Nat
    BY CellSets
<1> QED BY <1>3, <1>4, FS_EmptySet

\* Two disjoint sets of cells together.
LEMMA CellsAdded ==
    ASSUME NEW STATE S, S \in SUBSET Cells, NEW STATE F, F \in SUBSET Cells, S \cap F = {}
    PROVE  Cardinality(S \cup F) = Cardinality(S) + Cardinality(F)
<1>1. IsFiniteSet(S) /\ IsFiniteSet(F) /\ Cardinality(S) \in Nat /\ Cardinality(F) \in Nat
    BY CellSets
<1>2. Cardinality(S \cup F) = Cardinality(S) + Cardinality(F) - Cardinality({})
    BY <1>1, FS_Union
<1> QED BY <1>1, <1>2, FS_EmptySet

\* A cache whose load ended among the cells runs no call.
LEMMA NotTorn == IndInv /\ phase # "idle" => ~ torn
BY DEF IndInv, CallOK

\* TypeOK adds to the invariant only that used is not beyond the cache.
LEMMA InvTypeOK == IndInv => TypeOK
<1> SUFFICES ASSUME IndInv PROVE TypeOK
    OBVIOUS
<1>1. Live \in SUBSET Cells
    BY DEF Live
<1>2. used \in 0 .. KvSize
    BY <1>1, CellSets, SizeAssumption DEF IndInv, CacheOK, UsedIsCount
<1> QED BY <1>2 DEF IndInv, CacheOK, CallOK, TypeOK

-----------------------------------------------------------------------------
(* The pieces of the operations keep the metadata consistent.              *)

\* Where the head is put after cells were freed.
LEMMA LowerHeadOK ==
    ASSUME CacheOK, NEW STATE F, F \in SUBSET Cells, LowerHead(F)
    PROVE  head' \in 0 .. KvSize
<1>1. Cells \subseteq 0 .. KvSize
    BY SizeAssumption DEF Cells
<1>2. head' = head \/ head' \in F
    BY DEF LowerHead
<1> QED BY <1>1, <1>2 DEF CacheOK

\* Freeing cells: the count follows whether or not they were in use.
LEMMA ReleaseOK ==
    ASSUME CacheOK, NEW STATE F, F \in SUBSET Cells, Release(F),
           seqs' \in [Cells -> SUBSET Seqs],
           \A i \in F : seqs'[i] = {},
           \A i \in Cells \ F : seqs'[i] = {} <=> seqs[i] = {},
           UNCHANGED <<delta, torn>>, ~ torn, head' \in 0 .. KvSize
    PROVE  CacheOK'
<1>1. /\ pos' \in [Cells -> Nat \cup {-1}]
      /\ key' \in [Cells -> Int]
    BY DEF CacheOK, Release, NoKey
<1>2. EmptyIffNoPos'
    BY DEF CacheOK, Release, EmptyIffNoPos
<1>3. Live' = Live \ F /\ Live \in SUBSET Cells
    BY DEF Live, Release, CacheOK
<1>4. UsedIsCount'
    BY <1>3, CellsTaken DEF UsedIsCount, Release, CacheOK
<1> QED BY <1>1, <1>2, <1>4 DEF CacheOK

\* seq_rm, for one sequence or for all.
LEMMA RemoveOK ==
    ASSUME CacheOK, ~ torn, UNCHANGED torn, NEW s, NEW p0, NEW p1, Remove(s, p0, p1)
    PROVE  CacheOK'
<1> DEFINE hit == {i \in Cells : InRange(pos[i], p0, p1) /\ (s = AnySeq \/ s \in seqs[i])}
           left == [i \in Cells |-> IF i \notin hit THEN seqs[i]
                                    ELSE IF s = AnySeq THEN {} ELSE seqs[i] \ {s}]
           freed == {i \in hit : left[i] = {}}
<1>1. seqs' = left /\ Release(freed) /\ LowerHead(freed) /\ UNCHANGED delta
    BY DEF Remove
<1>2. freed \in SUBSET Cells
    OBVIOUS
<1>3. seqs' \in [Cells -> SUBSET Seqs]
    BY <1>1 DEF CacheOK
<1>4. \A i \in freed : seqs'[i] = {}
    BY <1>1
<1>5. \A i \in Cells \ freed : seqs'[i] = {} <=> seqs[i] = {}
    BY <1>1
<1>6. head' \in 0 .. KvSize
    BY <1>1, <1>2, LowerHeadOK
<1> HIDE DEF freed
<1> QED BY <1>1, <1>2, <1>3, <1>4, <1>5, <1>6, ReleaseOK

\* restore().
LEMMA RestoreOK ==
    ASSUME CacheOK, ~ torn, UNCHANGED torn, pending \in SUBSET Cells, Restore
    PROVE  CacheOK'
<1>1. head' \in 0 .. KvSize
    BY LowerHeadOK DEF Restore
<1>2. /\ seqs' \in [Cells -> SUBSET Seqs]
      /\ \A i \in pending : seqs'[i] = {}
      /\ \A i \in Cells \ pending : seqs'[i] = {} <=> seqs[i] = {}
    BY DEF Restore, CacheOK
<1> QED BY <1>1, <1>2, ReleaseOK DEF Restore

\* clear().
LEMMA WipeOK ==
    ASSUME CacheOK, Wipe
    PROVE  CacheOK'
<1>1. Live' = {}
    BY DEF Wipe, Live
<1>2. UsedIsCount'
    BY <1>1, FS_EmptySet DEF UsedIsCount, Wipe
<1>3. EmptyIffNoPos'
    BY DEF Wipe, EmptyIffNoPos
<1>4. /\ pos' \in [Cells -> Nat \cup {-1}]
      /\ seqs' \in [Cells -> SUBSET Seqs]
      /\ key' \in [Cells -> Int]
    BY DEF Wipe, NoKey
<1>5. head' \in 0 .. KvSize /\ torn' = FALSE /\ UNCHANGED delta
    BY SizeAssumption DEF Wipe
<1> QED BY <1>2, <1>3, <1>4, <1>5 DEF CacheOK

\* Nothing about the cells changes.
LEMMA SameCells ==
    ASSUME CacheOK, UNCHANGED <<pos, seqs, used, torn>>, delta' \in [Cells -> Int],
           key' \in [Cells -> Int], head' \in 0 .. KvSize
    PROVE  CacheOK'
BY DEF CacheOK, EmptyIffNoPos, UsedIsCount, Live

-----------------------------------------------------------------------------
(* The operations on the metadata.                                         *)

\* A step that ends a call leaves nothing of it behind.
LEMMA ReturnOK ==
    ASSUME Return, n' \in 0 .. KvSize, hasShift' \in BOOLEAN, doDefrag' \in BOOLEAN,
           pending' \in SUBSET Cells
    PROVE  CallOK' /\ Rejected'
BY DEF Return, CallOK, Rejected, SearchComplete

LEMMA SeqRmOK ==
    ASSUME IndInv, NEW s, NEW p0, NEW p1, SeqRm(s, p0, p1)
    PROVE  IndInv'
<1>1. CacheOK'
    BY RemoveOK DEF SeqRm, ApiCall, Usable, IndInv
<1> QED BY <1>1, ReturnOK DEF SeqRm, ApiCall, Usable, IndInv, CallOK

LEMMA ClearOK == IndInv /\ Clear => IndInv'
<1> SUFFICES ASSUME IndInv, Clear PROVE IndInv'
    OBVIOUS
<1>1. CacheOK'
    BY WipeOK DEF Clear, IndInv
<1> QED BY <1>1, ReturnOK DEF Clear, Wipe, ApiCall, Usable, IndInv, CallOK

LEMMA SeqCpOK ==
    ASSUME IndInv, NEW s \in Seqs, NEW t \in Seqs, NEW p0, NEW p1, SeqCp(s, t, p0, p1)
    PROVE  IndInv'
<1>1. /\ seqs' \in [Cells -> SUBSET Seqs]
      /\ \A i \in Cells : seqs'[i] = {} <=> seqs[i] = {}
    BY DEF SeqCp, IndInv, CacheOK
<1>2. EmptyIffNoPos'
    BY <1>1 DEF SeqCp, IndInv, CacheOK, EmptyIffNoPos
<1>3. UsedIsCount'
    BY DEF SeqCp, IndInv, CacheOK, UsedIsCount, Live
<1>4. CacheOK'
    BY <1>1, <1>2, <1>3, SizeAssumption DEF SeqCp, IndInv, CacheOK
<1> QED BY <1>4, ReturnOK DEF SeqCp, ApiCall, Usable, IndInv, CallOK

LEMMA SeqKeepOK ==
    ASSUME IndInv, NEW s \in Seqs, SeqKeep(s)
    PROVE  IndInv'
<1> DEFINE dropped == {i \in Cells : s \notin seqs[i]}
<1>1. /\ seqs' = [i \in Cells |-> IF i \in dropped THEN {} ELSE {s}]
      /\ Release(dropped) /\ LowerHead(dropped) /\ UNCHANGED delta
    BY DEF SeqKeep
<1>2. /\ seqs' \in [Cells -> SUBSET Seqs]
      /\ \A i \in dropped : seqs'[i] = {}
      /\ \A i \in Cells \ dropped : seqs'[i] = {} <=> seqs[i] = {}
    BY <1>1
<1>3. dropped \in SUBSET Cells
    OBVIOUS
<1>4. CacheOK /\ ~ torn /\ UNCHANGED torn
    BY DEF SeqKeep, ApiCall, Usable, IndInv
<1> HIDE DEF dropped
<1>5. CacheOK'
    BY <1>1, <1>2, <1>3, <1>4, LowerHeadOK, ReleaseOK
<1> QED BY <1>5, ReturnOK DEF SeqKeep, ApiCall, Usable, IndInv, CallOK

LEMMA SeqAddOK ==
    ASSUME IndInv, NEW s \in Seqs, NEW p0, NEW p1, NEW d \in Deltas, SeqAdd(s, p0, p1, d)
    PROVE  IndInv'
<1> DEFINE hit == {i \in Cells : s \in seqs[i] /\ InRange(pos[i], p0, p1)}
           freed == {i \in hit : pos[i] + d < 0}
<1>0. CacheOK /\ d \in Int /\ ~ torn /\ UNCHANGED torn
    BY InputAssumption DEF SeqAdd, ApiCall, Usable, IndInv
<1>1. /\ pos' = [i \in Cells |-> IF i \in freed THEN -1
                                 ELSE IF i \in hit THEN pos[i] + d ELSE pos[i]]
      /\ delta' = [i \in Cells |-> IF i \in hit THEN delta[i] + d ELSE delta[i]]
      /\ key' = [i \in Cells |-> IF i \in freed THEN NoKey ELSE key[i]]
      /\ seqs' = [i \in Cells |-> IF i \in freed THEN {} ELSE seqs[i]]
      /\ used' = used - Cardinality(freed)
      /\ hasShift' = (hasShift \/ hit # {})
      /\ IF freed = {} THEN head' = 0 ELSE head' \in freed /\ IsFirst(head', freed)
    BY DEF SeqAdd
<1>2. \A i \in hit : i \in Cells /\ pos[i] >= 0 /\ pos[i] \in Nat /\ pos[i] + d \in Int
    BY <1>0 DEF InRange, CacheOK
<1>3. /\ pos' \in [Cells -> Nat \cup {-1}]
      /\ delta' \in [Cells -> Int]
      /\ key' \in [Cells -> Int]
      /\ seqs' \in [Cells -> SUBSET Seqs]
    BY <1>0, <1>1, <1>2 DEF CacheOK, NoKey
<1>4. head' \in 0 .. KvSize
    BY <1>1, SizeAssumption DEF Cells
<1>5. EmptyIffNoPos'
    BY <1>0, <1>1, <1>2 DEF CacheOK, EmptyIffNoPos
<1>6. Live' = Live \ freed /\ freed \subseteq Live /\ Live \in SUBSET Cells
    BY <1>0, <1>1, <1>2 DEF Live, CacheOK
<1>7. UsedIsCount'
    <2>1. freed \cap Live = freed /\ freed \in SUBSET Cells
        BY <1>6
    <2> HIDE DEF freed
    <2>2. Cardinality(Live \ freed) = Cardinality(Live) - Cardinality(freed)
        BY <1>6, <2>1, CellsTaken
    <2> QED BY <1>0, <1>1, <1>6, <2>2 DEF UsedIsCount, CacheOK
<1>8. CacheOK'
    BY <1>0, <1>3, <1>4, <1>5, <1>7 DEF CacheOK
<1>9. hasShift' \in BOOLEAN
    BY <1>1 DEF IndInv, CallOK
<1> QED BY <1>8, <1>9, ReturnOK DEF SeqAdd, ApiCall, Usable, IndInv, CallOK

LEMMA SeqDivOK ==
    ASSUME IndInv, NEW s \in Seqs, NEW p0, NEW p1, SeqDiv(s, p0, p1, 2)
    PROVE  IndInv'
<1> DEFINE hit == {i \in Cells : s \in seqs[i] /\ InRange(pos[i], p0, p1)}
<1>0. CacheOK /\ ~ torn /\ UNCHANGED torn
    BY DEF SeqDiv, ApiCall, Usable, IndInv
<1>1. /\ pos' = [i \in Cells |-> IF i \in hit THEN pos[i] \div 2 ELSE pos[i]]
      /\ delta' = [i \in Cells |-> IF i \in hit THEN delta[i] + (pos[i] \div 2) - pos[i]
                                   ELSE delta[i]]
      /\ hasShift' = (hasShift \/ hit # {})
      /\ UNCHANGED <<seqs, key, head, used, n, doDefrag, pending>>
    BY DEF SeqDiv
<1>2. \A i \in hit : i \in Cells /\ pos[i] \in Nat /\ pos[i] \div 2 \in Nat
    BY <1>0 DEF InRange, CacheOK
<1>3. /\ pos' \in [Cells -> Nat \cup {-1}]
      /\ delta' \in [Cells -> Int]
    BY <1>0, <1>1, <1>2 DEF CacheOK
<1>4. EmptyIffNoPos'
    BY <1>0, <1>1, <1>2 DEF CacheOK, EmptyIffNoPos
<1>5. Live' = Live
    BY <1>0, <1>1, <1>2 DEF Live, CacheOK
<1>6. UsedIsCount'
    BY <1>0, <1>1, <1>5 DEF CacheOK, UsedIsCount
<1>7. CacheOK'
    BY <1>0, <1>1, <1>3, <1>4, <1>6 DEF CacheOK
<1>8. hasShift' \in BOOLEAN
    BY <1>1 DEF IndInv, CallOK
<1> QED BY <1>1, <1>7, <1>8, ReturnOK DEF SeqDiv, ApiCall, Usable, IndInv, CallOK

LEMMA DefragOK == IndInv /\ Defrag => IndInv'
<1> SUFFICES ASSUME IndInv, Defrag PROVE IndInv'
    OBVIOUS
<1>1. CacheOK'
    BY SameCells DEF Defrag, IndInv, CacheOK, cellVars
<1> QED BY <1>1, ReturnOK DEF Defrag, ApiCall, Usable, IndInv, CallOK

-----------------------------------------------------------------------------
(* kv_self_update().                                                       *)

LEMMA UpdateOK == IndInv /\ Update => IndInv'
<1> SUFFICES ASSUME IndInv, Update PROVE IndInv'
    OBVIOUS
<1>1. CacheOK'
    BY SameCells DEF Update, cacheVars, cellVars, IndInv, CacheOK
<1> QED BY <1>1 DEF Update, Usable, Idle, Call, cacheVars, IndInv, CallOK, Rejected, SearchComplete

LEMMA KShiftOK == IndInv /\ KShift => IndInv'
<1> SUFFICES ASSUME IndInv, KShift PROVE IndInv'
    OBVIOUS
<1>1. delta' \in [Cells -> Int] /\ key' \in [Cells -> Int]
    BY DEF KShift, IndInv, CacheOK
<1>2. CacheOK'
    BY <1>1, SameCells DEF KShift, IndInv, CacheOK
<1>3. n' \in 0 .. KvSize
    BY SizeAssumption DEF KShift, IndInv, CallOK
<1> QED BY <1>2, <1>3 DEF KShift, IndInv, CallOK, Rejected, SearchComplete

\* A plan gives different holes different tokens.
LEMMA PlanInjective ==
    ASSUME NEW STATE f, IsPlan(Holes, f), NEW STATE h, h \in Holes, NEW STATE g, g \in Holes, h # g
    PROVE  f[h] # f[g]
<1>1. h \in Int /\ g \in Int
    BY SizeAssumption DEF Holes, Cells
<1>2. h < g \/ g < h
    BY <1>1
<1> QED BY <1>2 DEF IsPlan

\* The moves take as many cells as they fill.
LEMMA MoveCellsOK ==
    ASSUME CacheOK, ~ torn, UNCHANGED <<used, torn>>, MoveCells
    PROVE  CacheOK' /\ (n \in 0 .. KvSize => n' \in 0 .. KvSize)
<1> PICK f \in [Holes -> Tails] :
        LET to == Moved(Holes, f, MaxMoves)
            from == {f[h] : h \in to}
            Moving(F, none) == [i \in Cells |-> IF i \in to THEN F[f[i]]
                                                ELSE IF i \in from THEN none ELSE F[i]]
        IN  /\ IsPlan(Holes, f)
            /\ pos' = Moving(pos, -1)
            /\ seqs' = Moving(seqs, {})
            /\ delta' = Moving(delta, 0)
            /\ \E status \in UpdateStatuses :
                  key' = IF status = "success" THEN Moving(key, NoKey)
                         ELSE [i \in Cells |-> IF i \in to \cup from THEN NoKey ELSE key[i]]
            /\ head' = IF to = {} THEN head ELSE used
            /\ n' = IF to = {} THEN n ELSE KvSize
    BY DEF MoveCells
<1> DEFINE to == Moved(Holes, f, MaxMoves)
           from == {f[h] : h \in to}
<1>1. /\ IsPlan(Holes, f)
      /\ pos' = [i \in Cells |-> IF i \in to THEN pos[f[i]] ELSE IF i \in from THEN -1 ELSE pos[i]]
      /\ seqs' = [i \in Cells |-> IF i \in to THEN seqs[f[i]] ELSE IF i \in from THEN {} ELSE seqs[i]]
      /\ delta' = [i \in Cells |-> IF i \in to THEN delta[f[i]] ELSE IF i \in from THEN 0 ELSE delta[i]]
      /\ head' = IF to = {} THEN head ELSE used
      /\ n' = IF to = {} THEN n ELSE KvSize
    OBVIOUS
<1>2. to \subseteq Holes
    BY DEF Moved
<1>3. Holes \subseteq Cells \ Live /\ Tails \subseteq Live /\ Live \in SUBSET Cells
    BY DEF Holes, Tails, Live, CacheOK, EmptyIffNoPos
<1>4. \A h \in to : f[h] \in Live /\ f[h] \in Cells /\ f[h] \in from
    BY <1>2, <1>3
<1>5. from \subseteq Live /\ from \in SUBSET Cells /\ to \in SUBSET Cells /\ to \cap Live = {}
    BY <1>2, <1>3, <1>4
<1>6. key' \in [Cells -> Int]
    BY <1>4, InputAssumption DEF CacheOK, NoKey
<1>7. /\ pos' \in [Cells -> Nat \cup {-1}]
      /\ seqs' \in [Cells -> SUBSET Seqs]
      /\ delta' \in [Cells -> Int]
    BY <1>1, <1>4 DEF CacheOK
<1>8. EmptyIffNoPos'
    BY <1>1, <1>4 DEF CacheOK, EmptyIffNoPos
<1>9. Live' = (Live \ from) \cup to
    BY <1>1, <1>4, <1>5 DEF Live
<1>10. Cardinality(from) = Cardinality(to)
    <2> DEFINE g == [h \in to |-> f[h]]
    <2>1. g \in Bijection(to, from)
        <3>1. g \in [to -> from]
            BY <1>4
        <3>2. \A x, y \in to : g[x] = g[y] => x = y
            BY <1>1, <1>2, PlanInjective
        <3>3. \A y \in from : \E x \in to : g[x] = y
            OBVIOUS
        <3> QED BY <3>1, <3>2, <3>3 DEF Bijection, Injection, Surjection, IsInjective
    <2>2. ExistsBijection(to, from)
        BY <2>1 DEF ExistsBijection
    <2> QED BY <1>5, <2>2, CellSets, FS_Bijection
<1>11. Cardinality(Live') = Cardinality(Live)
    <2> HIDE DEF from, to
    <2>1. Cardinality(Live \ from) = Cardinality(Live) - Cardinality(from)
        <3>1. from \cap Live = from
            BY <1>5
        <3> QED BY <1>3, <1>5, <3>1, CellsTaken
    <2>2. Cardinality((Live \ from) \cup to) = Cardinality(Live \ from) + Cardinality(to)
        BY <1>3, <1>5, CellsAdded
    <2>3. Cardinality(Live) \in Nat /\ Cardinality(to) \in Nat
        BY <1>3, <1>5, CellSets
    <2> QED BY <1>9, <1>10, <2>1, <2>2, <2>3
<1>12. head' \in 0 .. KvSize
    BY <1>1, <1>3, CellSets DEF CacheOK, UsedIsCount
<1>13. n \in 0 .. KvSize => n' \in 0 .. KvSize
    BY <1>1, SizeAssumption
<1> QED BY <1>6, <1>7, <1>8, <1>11, <1>12, <1>13 DEF CacheOK, UsedIsCount

LEMMA DefragmentOK == IndInv /\ Defragment => IndInv'
<1> SUFFICES ASSUME IndInv, Defragment PROVE IndInv'
    OBVIOUS
<1>1. CacheOK' /\ n' \in 0 .. KvSize
    <2>1. CASE doDefrag
        BY <2>1, MoveCellsOK DEF Defragment, IndInv, CallOK
    <2>2. CASE ~ doDefrag
        BY <2>2, SameCells DEF Defragment, cellVars, IndInv, CacheOK, CallOK
    <2> QED BY <2>1, <2>2
<1>2. CASE op = "update"
    BY <1>1, <1>2, ReturnOK DEF Defragment, EndUpdate, IndInv, CallOK
<1>3. CASE op # "update"
    BY <1>1, <1>3 DEF Defragment, EndUpdate, IndInv, CallOK, Rejected, SearchComplete
<1> QED BY <1>2, <1>3

-----------------------------------------------------------------------------
(* decode().                                                               *)

LEMMA DecodeOK ==
    ASSUME IndInv, NEW b \in Seq(Token), Decode(b)
    PROVE  IndInv'
<1>1. CacheOK'
    BY SameCells DEF Decode, cacheVars, cellVars, IndInv, CacheOK
<1> QED BY <1>1 DEF Decode, Usable, Idle, Call, cacheVars, IndInv, CallOK, Rejected, SearchComplete

\* A batch without positions gets proper ones: p is -1 or larger.
LEMMA AutoBatchOK ==
    ASSUME NEW STATE p, IsPosMax(p), pos \in [Cells -> Nat \cup {-1}], NEW k \in 1 .. MaxAuto
    PROVE  AutoBatch(p, k) \in Seq(Token)
<1>1. p \in Nat \cup {-1}
    BY DEF IsPosMax
<1>2. \A j \in 1 .. k : [pos |-> p + j, seqs |-> {DefaultSeq}, key |-> p + j] \in Token
    BY <1>1, SeqsAssumption DEF Token
<1>3. k \in Nat
    BY BoundsAssumption
<1> QED BY <1>2, <1>3 DEF AutoBatch

LEMMA FailOK ==
    ASSUME IndInv, phase # "idle", Fail
    PROVE  IndInv'
<1>1. CacheOK' /\ UNCHANGED pending
    BY NotTorn, RestoreOK DEF Fail, Restore, IndInv, CallOK
<1> QED BY <1>1, ReturnOK DEF Fail, IndInv, CallOK

LEMMA SplitUbatchOK == IndInv /\ SplitUbatch => IndInv'
<1> SUFFICES ASSUME IndInv, SplitUbatch PROVE IndInv'
    OBVIOUS
<1> DEFINE k == IF Len(rest) < NUbatch THEN Len(rest) ELSE NUbatch
<1>1. ub' = SubSeq(rest, 1, k) /\ rest' = SubSeq(rest, k + 1, Len(rest))
    BY DEF SplitUbatch
<1>2. k \in 1 .. Len(rest)
    BY BoundsAssumption DEF SplitUbatch, IndInv, CallOK
<1>3. ub' \in Seq(Token) /\ rest' \in Seq(Token) /\ ub' # << >>
    BY <1>1, <1>2 DEF IndInv, CallOK
<1>4. CacheOK'
    BY SameCells DEF SplitUbatch, cacheVars, cellVars, IndInv, CacheOK
<1>5. op' \in {"decode", "load"}
    BY DEF SplitUbatch, IndInv, CallOK
<1> QED BY <1>3, <1>4, <1>5 DEF SplitUbatch, cacheVars, IndInv, CallOK, Rejected, SearchComplete

\* Before the search nothing has been passed; a ubatch that is larger than
\* the cache has no place in it.
LEMMA FindSlotOK == IndInv /\ FindSlot => IndInv'
<1> SUFFICES ASSUME IndInv, FindSlot PROVE IndInv'
    OBVIOUS
<1>1. head' \in 0 .. KvSize
    BY SizeAssumption DEF FindSlot, StartHead, IndInv, CacheOK
<1>2. CacheOK'
    BY <1>1, SameCells DEF FindSlot, cellVars, IndInv, CacheOK
<1>3. Len(ub) \in Nat
    BY DEF IndInv, CallOK
<1>4. CallOK'
    BY <1>3, SizeAssumption DEF FindSlot, cellVars, IndInv, CallOK
<1>5. Rejected'
    <2>1. phase' = "probe" => \A h \in Cells : ~ Passed(h)'
        BY <1>1, SizeAssumption DEF FindSlot, StartHead, Passed, Cells
    <2>2. phase' = "full" => \A h \in Cells : ~ FreeRun(h)'
        BY <1>3, SizeAssumption DEF FindSlot, StartHead, FreeRun, Fits, Cells
    <2> QED BY <2>1, <2>2 DEF Rejected, SearchComplete
<1> QED BY <1>2, <1>4, <1>5 DEF IndInv

\* The starts that wrapping around skips are too close to the end.
LEMMA ProbeWrapOK == IndInv /\ ProbeWrap => IndInv'
<1> SUFFICES ASSUME IndInv, ProbeWrap PROVE IndInv'
    OBVIOUS
<1>1. CacheOK'
    BY SizeAssumption, SameCells DEF ProbeWrap, cellVars, IndInv, CacheOK
<1>2. CallOK'
    BY SizeAssumption DEF ProbeWrap, cellVars, IndInv, CallOK, CacheOK
<1>3. ASSUME NEW h \in Cells, Passed(h)'
      PROVE  ~ FreeRun(h)'
    <2>1. FreeRun(h)' <=> FreeRun(h)
        BY DEF ProbeWrap, cellVars, FreeRun, Fits, Run
    <2>2. CASE Passed(h)
        BY <2>1, <2>2 DEF ProbeWrap, IndInv, Rejected
    <2>3. CASE ~ Passed(h)
        <3>1. head \in Nat /\ nTested \in Nat /\ h \in Nat /\ Len(ub) \in Nat /\ KvSize \in Nat
            BY SizeAssumption DEF IndInv, CacheOK, CallOK, Cells
        <3>2. h >= head
            BY <1>3, <2>3, <3>1 DEF Passed, ProbeWrap
        <3>3. ~ Fits(h)
            BY <3>1, <3>2 DEF ProbeWrap, Fits
        <3> QED BY <2>1, <3>3 DEF FreeRun
    <2> QED BY <2>2, <2>3
<1>4. Rejected'
    BY <1>3 DEF Rejected, SearchComplete, ProbeWrap
<1> QED BY <1>1, <1>2, <1>4 DEF IndInv

\* The starts from head to the used cell h are blocked by h; after KvSize
\* cells there is no other start left.
LEMMA ProbeMissOK == IndInv /\ ProbeMiss => IndInv'
<1> SUFFICES ASSUME IndInv, ProbeMiss PROVE IndInv'
    OBVIOUS
<1>0. head \in Nat /\ nTested \in Nat /\ Len(ub) \in Nat /\ KvSize \in Nat /\ ub # << >>
      /\ head <= KvSize
    BY SizeAssumption DEF IndInv, CacheOK, CallOK, ProbeMiss
<1>1. PICK u \in Run(head) :
        /\ pos[u] >= 0
        /\ head' = u + 1
        /\ nTested' = nTested + u + 1 - head
    BY DEF ProbeMiss
<1>2. u \in Int /\ head <= u /\ u < head + Len(ub) /\ u < KvSize
    BY <1>0, <1>1 DEF Run, ProbeMiss, Fits
<1>3. CacheOK'
    BY <1>0, <1>1, <1>2, SameCells DEF ProbeMiss, cellVars, IndInv, CacheOK
<1>4. CallOK'
    BY <1>0, <1>1, <1>2 DEF ProbeMiss, cellVars, IndInv, CallOK
<1>5. ASSUME NEW h \in Cells, Passed(h)'
      PROVE  ~ FreeRun(h)'
    <2>0. h \in Nat
        BY <1>0 DEF Cells
    <2>1. FreeRun(h)' <=> FreeRun(h)
        BY DEF ProbeMiss, cellVars, FreeRun, Fits, Run
    <2>2. CASE Passed(h)
        BY <2>1, <2>2 DEF ProbeMiss, IndInv, Rejected
    <2>3. CASE ~ Passed(h)
        <3>1. head <= h /\ h <= u
            BY <1>0, <1>1, <1>2, <1>5, <2>0, <2>3 DEF Passed
        <3>2. u \in Run(h)
            BY <1>0, <1>2, <2>0, <3>1 DEF Run
        <3>3. pos[u] \in Int
            BY <1>0, <1>2 DEF IndInv, CacheOK, Cells
        <3> QED BY <1>1, <2>1, <3>2, <3>3 DEF FreeRun
    <2> QED BY <2>2, <2>3
<1>6. nTested' >= KvSize => \A h \in Cells : Passed(h)'
    BY <1>0, <1>1, <1>2 DEF Passed, Cells
<1>7. Rejected'
    BY <1>5, <1>6 DEF Rejected, SearchComplete, ProbeMiss
<1> QED BY <1>3, <1>4, <1>7 DEF IndInv

\* A slot consists of free cells, as many as the ubatch has tokens.
LEMMA ProbeFoundOK == IndInv /\ ProbeFound => IndInv'
<1> SUFFICES ASSUME IndInv, ProbeFound PROVE IndInv'
    OBVIOUS
<1>0. CacheOK /\ head \in Nat /\ Len(ub) \in Nat /\ ub \in Seq(Token) /\ KvSize \in Nat
      /\ ~ torn /\ UNCHANGED torn
    BY NotTorn, SizeAssumption DEF ProbeFound, IndInv, CacheOK, CallOK
<1>1. /\ pos' = [i \in Cells |-> IF i \in Run(head) THEN ub[i - head + 1].pos ELSE pos[i]]
      /\ seqs' = [i \in Cells |-> IF i \in Run(head) THEN ub[i - head + 1].seqs ELSE seqs[i]]
      /\ used' = used + Len(ub)
      /\ FreeRun(head)
      /\ UNCHANGED <<delta, key, head>>
    BY DEF ProbeFound
<1>2. Run(head) \in SUBSET Cells
    BY <1>0, <1>1 DEF FreeRun, Fits, Run, Cells
<1>3. ASSUME NEW i \in Run(head)
      PROVE  /\ ub[i - head + 1].pos \in Nat
             /\ ub[i - head + 1].seqs \in (SUBSET Seqs) \ {{}}
    <2>1. i - head + 1 \in 1 .. Len(ub)
        BY <1>0 DEF Run
    <2>2. ub[i - head + 1] \in Token
        BY <1>0, <2>1
    <2> QED BY <2>2 DEF Token
<1>4. /\ pos' \in [Cells -> Nat \cup {-1}]
      /\ seqs' \in [Cells -> SUBSET Seqs]
    BY <1>0, <1>1, <1>3 DEF CacheOK
<1>5. EmptyIffNoPos'
    BY <1>0, <1>1, <1>3 DEF CacheOK, EmptyIffNoPos
<1>6. UsedIsCount'
    <2>1. Live' = Live \cup Run(head)
        BY <1>0, <1>1, <1>2, <1>3 DEF Live, CacheOK
    <2>2. Live \cap Run(head) = {}
        <3>1. \A i \in Run(head) : pos[i] < 0 /\ pos[i] \in Int
            BY <1>0, <1>1, <1>2 DEF FreeRun, CacheOK
        <3> QED BY <3>1 DEF Live
    <2>3. Cardinality(Run(head)) = Len(ub)
        <3>1. head \in Int /\ head + Len(ub) - 1 \in Int
            BY <1>0
        <3>2. Cardinality(Run(head)) = IF head > head + Len(ub) - 1
                                       THEN 0 ELSE head + Len(ub) - 1 - head + 1
            BY <3>1, FS_Interval DEF Run
        <3> QED BY <1>0, <3>2
    <2>4. Live \in SUBSET Cells
        BY DEF Live
    <2>5. Cardinality(Live \cup Run(head)) = Cardinality(Live) + Cardinality(Run(head))
        BY <1>2, <2>2, <2>4, CellsAdded
    <2> QED BY <1>0, <1>1, <2>1, <2>3, <2>5 DEF CacheOK, UsedIsCount
<1>7. CacheOK'
    BY <1>0, <1>1, <1>4, <1>5, <1>6 DEF CacheOK
<1>8. n' \in 0 .. KvSize
    BY DEF ProbeFound, Attended, IndInv, CallOK
<1>9. CallOK'
    BY <1>2, <1>8 DEF ProbeFound, FreeRun, Fits, IndInv, CallOK
<1> QED BY <1>7, <1>9 DEF ProbeFound, IndInv, Rejected, SearchComplete

\* The rows of the ubatch get the rotation of its tokens.
LEMMA WriteRowsOK ==
    ASSUME IndInv, phase = "compute", WriteRows
    PROVE  key' \in [Cells -> Int]
<1>1. ASSUME NEW i \in Run(head)
      PROVE  ub[i - head + 1].key \in Int
    <2>1. i - head + 1 \in 1 .. Len(ub) /\ ub \in Seq(Token)
        BY DEF Run, IndInv, CacheOK, CallOK
    <2>2. ub[i - head + 1] \in Token
        BY <2>1
    <2> QED BY <2>2 DEF Token
<1> QED BY <1>1 DEF WriteRows, IndInv, CacheOK

LEMMA ComputeOK == IndInv /\ Compute => IndInv'
<1> SUFFICES ASSUME IndInv, Compute PROVE IndInv'
    OBVIOUS
<1>1. CacheOK'
    BY WriteRowsOK, SameCells DEF Compute, IndInv, CacheOK
<1> QED BY <1>1 DEF Compute, IndInv, CallOK, Rejected, SearchComplete

LEMMA DecodeDoneOK == IndInv /\ DecodeDone => IndInv'
<1> SUFFICES ASSUME IndInv, DecodeDone PROVE IndInv'
    OBVIOUS
<1>1. CacheOK'
    BY SameCells DEF DecodeDone, cellVars, IndInv, CacheOK
<1> QED BY <1>1, ReturnOK DEF DecodeDone, IndInv, CallOK

-----------------------------------------------------------------------------
(* state_read().                                                           *)

\* The first cells hold the tokens of a saved state.
LEMMA FilledOK ==
    ASSUME CacheOK, NEW b \in Seq(Token), Len(b) <= KvSize, NEW rows \in BOOLEAN, Filled(b, rows)
    PROVE  CacheOK'
<1>0. Len(b) \in Nat /\ KvSize \in Nat
    BY SizeAssumption
<1>1. /\ pos' = [i \in Cells |-> IF i < Len(b) THEN b[i + 1].pos ELSE -1]
      /\ seqs' = [i \in Cells |-> IF i < Len(b) THEN b[i + 1].seqs ELSE {}]
      /\ key' = [i \in Cells |-> IF i >= Len(b) THEN NoKey
                                 ELSE IF rows THEN b[i + 1].key ELSE LostKey]
      /\ head' = 0 /\ used' = Len(b) /\ torn' = FALSE
      /\ UNCHANGED delta
    BY DEF Filled
<1>2. ASSUME NEW i \in Cells, i < Len(b)
      PROVE  /\ b[i + 1].pos \in Nat
             /\ b[i + 1].seqs \in (SUBSET Seqs) \ {{}}
             /\ b[i + 1].key \in Int
    <2>1. i + 1 \in 1 .. Len(b)
        BY <1>0, <1>2 DEF Cells
    <2>2. b[i + 1] \in Token
        BY <2>1
    <2> QED BY <2>2 DEF Token
<1>3. \A i \in Cells : i \in Int
    BY <1>0 DEF Cells
<1>4. /\ pos' \in [Cells -> Nat \cup {-1}]
      /\ seqs' \in [Cells -> SUBSET Seqs]
      /\ key' \in [Cells -> Int]
    BY <1>0, <1>1, <1>2, <1>3 DEF NoKey, LostKey
<1>5. EmptyIffNoPos'
    BY <1>1, <1>2 DEF EmptyIffNoPos
<1>6. Live' = 0 .. Len(b) - 1
    BY <1>0, <1>1, <1>2 DEF Live, Cells
<1>7. UsedIsCount'
    <2>1. Len(b) - 1 \in Int
        BY <1>0
    <2>2. Cardinality(0 .. Len(b) - 1) = IF 0 > Len(b) - 1 THEN 0 ELSE Len(b) - 1 - 0 + 1
        BY <2>1, FS_Interval
    <2>3. Cardinality(Live') = Len(b)
        BY <1>0, <1>6, <2>2
    <2> QED BY <1>1, <2>3 DEF UsedIsCount
<1>8. head' \in 0 .. KvSize /\ torn' = FALSE /\ UNCHANGED delta
    BY <1>0, <1>1
<1> QED BY <1>4, <1>5, <1>7, <1>8 DEF CacheOK

\* A state that ends among its cells leaves cells with tokens, and used = 0.
LEMMA EndsAmongCellsOK ==
    ASSUME CacheOK, NEW b \in Seq(Token), Len(b) <= KvSize, EndsAmongCells(b)
    PROVE  CacheOK' /\ UNCHANGED <<delta, pending>>
<1> PICK k \in 0 .. Len(b) - 1 :
        \E p \in {-1, b[k + 1].pos}, S \in (SUBSET b[k + 1].seqs) \ {b[k + 1].seqs} :
            /\ p = -1 => S = {}
            /\ pos' = [i \in Cells |-> IF i < k THEN b[i + 1].pos ELSE IF i = k THEN p ELSE -1]
            /\ seqs' = [i \in Cells |-> IF i < k THEN b[i + 1].seqs ELSE IF i = k THEN S ELSE {}]
            /\ key' = [i \in Cells |-> IF i <= k THEN LostKey ELSE NoKey]
            /\ head' = 0
            /\ used' = 0
            /\ torn' = \E i \in Cells : pos'[i] >= 0
            /\ UNCHANGED <<delta, pending>>
    BY DEF EndsAmongCells
<1> PICK p \in {-1, b[k + 1].pos}, S \in (SUBSET b[k + 1].seqs) \ {b[k + 1].seqs} :
            /\ p = -1 => S = {}
            /\ pos' = [i \in Cells |-> IF i < k THEN b[i + 1].pos ELSE IF i = k THEN p ELSE -1]
            /\ seqs' = [i \in Cells |-> IF i < k THEN b[i + 1].seqs ELSE IF i = k THEN S ELSE {}]
            /\ key' = [i \in Cells |-> IF i <= k THEN LostKey ELSE NoKey]
            /\ head' = 0
            /\ used' = 0
            /\ torn' = \E i \in Cells : pos'[i] >= 0
            /\ UNCHANGED <<delta, pending>>
    OBVIOUS
<1>0. Len(b) \in Nat /\ KvSize \in Nat /\ k \in Nat /\ k < Len(b)
    BY SizeAssumption
<1>1. ASSUME NEW i \in Nat, i <= k
      PROVE  b[i + 1].pos \in Nat /\ b[i + 1].seqs \in (SUBSET Seqs) \ {{}}
    <2>1. i + 1 \in 1 .. Len(b)
        BY <1>0, <1>1
    <2>2. b[i + 1] \in Token
        BY <2>1
    <2> QED BY <2>2 DEF Token
<1>2. p \in Nat \cup {-1} /\ S \in SUBSET Seqs
    BY <1>0, <1>1
<1>3. \A i \in Cells : i \in Nat
    BY <1>0 DEF Cells
<1>4. /\ pos' \in [Cells -> Nat \cup {-1}]
      /\ seqs' \in [Cells -> SUBSET Seqs]
      /\ key' \in [Cells -> Int]
    BY <1>0, <1>1, <1>2, <1>3 DEF NoKey, LostKey
<1>5. ASSUME ~ torn'
      PROVE  /\ \A i \in Cells : pos'[i] = -1 /\ seqs'[i] = {}
             /\ Live' = {}
    <2>1. \A i \in Cells : ~ (pos'[i] >= 0)
        BY <1>5
    <2>2. \A i \in Cells : pos'[i] = -1
        BY <1>4, <2>1
    <2>3. k \in Cells
        BY <1>0 DEF Cells
    <2>4. p = -1 /\ S = {}
        BY <1>0, <2>2, <2>3
    <2>5. \A i \in Cells : ~ (i < k)
        BY <1>0, <1>1, <1>3, <2>2
    <2>6. \A i \in Cells : seqs'[i] = {}
        BY <2>4, <2>5
    <2> QED BY <2>1, <2>2, <2>6 DEF Live
<1>6. EmptyIffNoPos'
    BY <1>5 DEF EmptyIffNoPos
<1>7. UsedIsCount'
    BY <1>5, FS_EmptySet DEF UsedIsCount
<1> QED BY <1>0, <1>4, <1>6, <1>7 DEF CacheOK

LEMMA LoadWholeOK ==
    ASSUME IndInv, NEW b \in Seq(Token), LoadWhole(b)
    PROVE  IndInv'
<1>1. CacheOK' /\ UNCHANGED pending
    <2>1. CASE Wipe
        BY <2>1, WipeOK DEF Wipe, IndInv
    <2>2. CASE Len(b) <= KvSize /\ \E rows \in BOOLEAN : Filled(b, rows)
        BY <2>2, FilledOK DEF Filled, IndInv
    <2>3. CASE Len(b) <= KvSize /\ EndsAmongCells(b)
        BY <2>3, EndsAmongCellsOK DEF IndInv
    <2> QED BY <2>1, <2>2, <2>3 DEF LoadWhole
<1> QED BY <1>1, ReturnOK DEF LoadWhole, IndInv, CallOK

LEMMA LoadSeqOK ==
    ASSUME IndInv, NEW b \in Seq(Token), NEW s \in Seqs, LoadSeq(b, s)
    PROVE  IndInv'
<1>1. CacheOK' /\ UNCHANGED <<n, hasShift, doDefrag, pending, torn>> /\ ~ torn
    BY RemoveOK DEF LoadSeq, IndInv
<1>2. CASE Return
    BY <1>1, <1>2, ReturnOK DEF IndInv, CallOK
<1>3. CASE /\ ub' = [j \in 1 .. Len(b) |-> [pos |-> b[j].pos, seqs |-> {s}, key |-> b[j].key]]
           /\ Call("load", "slot")
           /\ UNCHANGED <<rest, nTested, entry>>
    <2>1. \A j \in 1 .. Len(b) : [pos |-> b[j].pos, seqs |-> {s}, key |-> b[j].key] \in Token
        <3> TAKE j \in 1 .. Len(b)
        <3>1. b[j] \in Token
            OBVIOUS
        <3> QED BY <3>1 DEF Token
    <2>2. ub' \in Seq(Token) /\ ub' # << >>
        BY <1>3, <2>1 DEF LoadSeq
    <2> QED BY <1>1, <1>3, <2>2 DEF Call, IndInv, CallOK, Rejected, SearchComplete
<1> QED BY <1>2, <1>3 DEF LoadSeq

LEMMA LoadRowsOK == IndInv /\ LoadRows => IndInv'
<1> SUFFICES ASSUME IndInv, LoadRows PROVE IndInv'
    OBVIOUS
<1>1. CacheOK'
    BY WriteRowsOK, SameCells DEF LoadRows, IndInv, CacheOK
<1> QED BY <1>1, ReturnOK DEF LoadRows, IndInv, CallOK

LEMMA LoadEndsOK == IndInv /\ LoadEnds => IndInv'
<1> SUFFICES ASSUME IndInv, LoadEnds PROVE IndInv'
    OBVIOUS
<1>1. key' \in [Cells -> Int]
    BY DEF LoadEnds, LostKey, IndInv, CacheOK
<1>2. CacheOK'
    BY <1>1, SameCells DEF LoadEnds, IndInv, CacheOK
<1> QED BY <1>2, ReturnOK DEF LoadEnds, IndInv, CallOK

LEMMA LoadFailsOK == IndInv /\ LoadFails => IndInv'
<1> SUFFICES ASSUME IndInv, LoadFails PROVE IndInv'
    OBVIOUS
<1>1. CacheOK'
    BY NotTorn, RemoveOK DEF LoadFails, IndInv
<1> QED BY <1>1, ReturnOK DEF LoadFails, IndInv, CallOK

-----------------------------------------------------------------------------
(* The invariant.                                                          *)

LEMMA InitOK == Init => IndInv
<1> SUFFICES ASSUME Init PROVE IndInv
    OBVIOUS
<1>1. Live = {}
    BY DEF Init, Live
<1>2. CacheOK
    <2>1. UsedIsCount
        BY <1>1, FS_EmptySet DEF Init, UsedIsCount
    <2>2. EmptyIffNoPos
        BY DEF Init, EmptyIffNoPos
    <2>3. /\ pos \in [Cells -> Nat \cup {-1}]
          /\ seqs \in [Cells -> SUBSET Seqs]
          /\ delta \in [Cells -> Int]
          /\ key \in [Cells -> Int]
        BY DEF Init, NoKey
    <2>4. head \in 0 .. KvSize /\ torn = FALSE
        BY SizeAssumption DEF Init
    <2> QED BY <2>1, <2>2, <2>3, <2>4 DEF CacheOK
<1>3. rest \in Seq(Token) /\ ub \in Seq(Token) /\ n \in 0 .. KvSize /\ pending \in SUBSET Cells
    BY SizeAssumption DEF Init
<1>4. CallOK
    BY <1>3 DEF Init, CallOK
<1> QED BY <1>2, <1>4 DEF Init, IndInv, Rejected, SearchComplete

LEMMA StepOK == IndInv /\ [Next]_vars => IndInv'
<1> SUFFICES ASSUME IndInv, [Next]_vars PROVE IndInv'
    OBVIOUS
<1>1. CASE Api
    <2>1. CASE \E b \in Batches : Decode(b)
        BY <2>1, DecodeOK, InputAssumption
    <2>2. CASE DecodeAuto
        BY <2>2, DecodeOK, AutoBatchOK DEF DecodeAuto, IndInv, CacheOK
    <2>3. CASE \E b \in Blobs : LoadWhole(b)
        BY <2>3, LoadWholeOK, InputAssumption
    <2>4. CASE \E b \in Blobs, s \in Seqs : LoadSeq(b, s)
        BY <2>4, LoadSeqOK, InputAssumption
    <2>5. CASE \/ \E s \in Seqs \cup {AnySeq}, p0, p1 \in Bounds : SeqRm(s, p0, p1)
               \/ \E s, t \in Seqs, p0, p1 \in Bounds : SeqCp(s, t, p0, p1)
        BY <2>5, SeqRmOK, SeqCpOK
    <2>6. CASE \/ \E s \in Seqs : SeqKeep(s)
               \/ \E s \in Seqs, p0, p1 \in Bounds, d \in Deltas : SeqAdd(s, p0, p1, d)
               \/ \E s \in Seqs, p0, p1 \in Bounds : SeqDiv(s, p0, p1, 2)
        BY <2>6, SeqKeepOK, SeqAddOK, SeqDivOK
    <2>7. CASE Clear \/ Defrag \/ Update
        BY <2>7, ClearOK, DefragOK, UpdateOK
    <2> QED BY <1>1, <2>1, <2>2, <2>3, <2>4, <2>5, <2>6, <2>7 DEF Api, DecodeBatch
<1>2. CASE Step
    BY <1>2, KShiftOK, DefragmentOK, FailOK, SplitUbatchOK, FindSlotOK, ProbeWrapOK,
       ProbeMissOK, ProbeFoundOK, ComputeOK, DecodeDoneOK, LoadRowsOK, LoadEndsOK, LoadFailsOK
       DEF Step, DecodeRefused, SlotNotFound, ComputeFails
<1>3. CASE UNCHANGED vars
    <2>1. CacheOK'
        BY <1>3, SameCells DEF vars, cacheVars, cellVars, IndInv, CacheOK
    <2> QED BY <1>3, <2>1 DEF vars, cacheVars, callVars, IndInv, CallOK, Rejected,
                Passed, FreeRun, Fits, Run, SearchComplete, cellVars
<1> QED BY <1>1, <1>2, <1>3 DEF Next

THEOREM Invariance == Spec => []IndInv
BY InitOK, StepOK, PTL DEF Spec

\* Every variable keeps its type: in particular head and used stay within
\* the cache through every sequence of operations.
THEOREM TypeCorrect == Spec => []TypeOK
BY Invariance, InvTypeOK, PTL

\* The cache's count of used cells is exact.
THEOREM UsedCountExact == Spec => []UsedIsCount
<1>1. IndInv => UsedIsCount
    BY DEF IndInv, CacheOK
<1> QED BY Invariance, <1>1, PTL

\* The two tests for a free cell agree.
THEOREM FreeTestsAgree == Spec => []EmptyIffNoPos
<1>1. IndInv => EmptyIffNoPos
    BY DEF IndInv, CacheOK
<1> QED BY Invariance, <1>1, PTL

\* find_slot reports a full cache only if no run of free cells is long
\* enough.
THEOREM SearchIsComplete == Spec => []SearchComplete
<1>1. IndInv => SearchComplete
    BY DEF IndInv, Rejected
<1> QED BY Invariance, <1>1, PTL

\* As many tokens lie behind the used cells as there are holes among them:
\* defrag_prepare never meets "KV defrag bug: nf != nh".
THEOREM DefragNeverAborts == Spec => []HolesMatchTails
<1>1. IndInv => HolesMatchTails
    <2> SUFFICES ASSUME IndInv, ~ torn PROVE Cardinality(Holes) = Cardinality(Tails)
        BY DEF HolesMatchTails
    <2> DEFINE first == {i \in Cells : i < used}
    <2>1. /\ used = Cardinality(Live) /\ Live \in SUBSET Cells /\ first \in SUBSET Cells
          /\ used \in Nat /\ used <= KvSize
        BY CellSets DEF IndInv, CacheOK, UsedIsCount, Live
    <2>2. Cardinality(first) = used
        <3>1. first = 0 .. used - 1
            BY <2>1, SizeAssumption DEF Cells
        <3>2. used - 1 \in Int
            BY <2>1
        <3>3. Cardinality(0 .. used - 1) = IF 0 > used - 1 THEN 0 ELSE used - 1 - 0 + 1
            BY <3>2, FS_Interval
        <3> HIDE DEF first
        <3>4. Cardinality(first) = IF 0 > used - 1 THEN 0 ELSE used - 1 - 0 + 1
            BY <3>1, <3>3
        <3> QED BY <2>1, <3>4
    <2>3. \A i \in Cells : seqs[i] = {} <=> i \notin Live
        BY DEF IndInv, CacheOK, EmptyIffNoPos, Live
    <2>4. Holes = first \ Live
        BY <2>3 DEF Holes
    <2>5. Tails = Live \ first
        <3>1. \A i \in Cells : i \in Int /\ (i >= used <=> ~ (i < used))
            BY <2>1, SizeAssumption DEF Cells
        <3>2. \A i : i \in Tails <=> i \in Cells /\ i >= used /\ i \in Live
            BY <2>1, <2>3 DEF Tails
        <3>3. \A i : i \in first <=> i \in Cells /\ i < used
            OBVIOUS
        <3> HIDE DEF first
        <3> QED BY <2>1, <3>1, <3>2, <3>3
    <2> HIDE DEF first
    <2>6. Cardinality(first \ Live) = Cardinality(first) - Cardinality(Live \cap first)
        BY <2>1, CellsTaken
    <2>7. Cardinality(Live \ first) = Cardinality(Live) - Cardinality(first \cap Live)
        BY <2>1, CellsTaken
    <2>8. Live \cap first = first \cap Live
        OBVIOUS
    <2> QED BY <2>1, <2>2, <2>4, <2>5, <2>6, <2>7, <2>8
<1> QED BY Invariance, <1>1, PTL

\* A call of the API begins only when none is in progress.
LEMMA ApiWhenIdle == Api => Idle
<1>1. Clear \/ Defrag \/ Update => Idle
    BY DEF Clear, Defrag, Update, ApiCall, Usable
<1>2. ASSUME NEW s, NEW t, NEW p0, NEW p1, NEW d
      PROVE  SeqRm(s, p0, p1) \/ SeqCp(s, t, p0, p1) \/ SeqKeep(s) => Idle
    BY DEF SeqRm, SeqCp, SeqKeep, ApiCall, Usable
<1>3. ASSUME NEW s, NEW p0, NEW p1, NEW d
      PROVE  SeqAdd(s, p0, p1, d) \/ SeqDiv(s, p0, p1, d) => Idle
    BY DEF SeqAdd, SeqDiv, ApiCall, Usable
<1>4. ASSUME NEW STATE b, NEW s
      PROVE  Decode(b) \/ LoadWhole(b) \/ LoadSeq(b, s) => Idle
    BY DEF Decode, Usable, LoadWhole, LoadSeq, MayLoad
<1> QED BY <1>1, <1>2, <1>3, <1>4 DEF Api, DecodeBatch, DecodeAuto

\* While decode places a batch, the tokens already in the cache stay where
\* they are: find_slot writes free cells only.
THEOREM PlacingIsSafe == Spec => PlacingKeepsTokens
<1>1. IndInv /\ [Next]_vars =>
        (op = "decode" /\ phase \in {"loop", "slot", "probe"}
            => \A i \in Live : pos'[i] = pos[i] /\ seqs'[i] = seqs[i])
    <2> SUFFICES ASSUME IndInv, [Next]_vars, op = "decode",
                        phase \in {"loop", "slot", "probe"}, NEW i \in Live
                 PROVE  pos'[i] = pos[i] /\ seqs'[i] = seqs[i]
        OBVIOUS
    <2>1. i \in Cells /\ pos[i] >= 0 /\ pos[i] \in Int
        BY DEF Live, IndInv, CacheOK
    <2>2. CASE ProbeFound
        <3>1. i \notin Run(head)
            BY <2>1, <2>2 DEF ProbeFound, FreeRun
        <3> QED BY <2>1, <2>2, <3>1 DEF ProbeFound, IndInv, CacheOK
    <2>3. CASE SplitUbatch \/ FindSlot \/ ProbeWrap \/ ProbeMiss \/ DecodeDone
        BY <2>3 DEF SplitUbatch, FindSlot, ProbeWrap, ProbeMiss, DecodeDone, cacheVars, cellVars
    <2>4. CASE UNCHANGED vars
        BY <2>4 DEF vars, cacheVars, cellVars
    <2>5. ~ Api
        BY ApiWhenIdle DEF Idle
    <2>6. ~ (KShift \/ Defragment \/ DecodeRefused \/ SlotNotFound \/ Compute \/ ComputeFails
             \/ LoadRows \/ LoadEnds \/ LoadFails)
        BY DEF KShift, Defragment, DecodeRefused, SlotNotFound, Compute, ComputeFails, LoadRows,
               LoadEnds, LoadFails
    <2> QED BY <2>2, <2>3, <2>4, <2>5, <2>6 DEF Next, Step
<1> QED BY Invariance, <1>1, PTL DEF Spec, PlacingKeepsTokens

-----------------------------------------------------------------------------
(* Which tokens the cache holds.                                           *)

\* Content of the cells of S for positions p and sequences q.
TokenAt(p, q, i) == [pos |-> p[i], seqs |-> q[i]]
CellsWith(S, p, q, t) == {i \in S : TokenAt(p, q, i) = t}
Tally(S, p, q) == [t \in {TokenAt(p, q, i) : i \in S} |-> Cardinality(CellsWith(S, p, q, t))]

\* Cells whose tokens are the same ones, cell by cell, hold the same content.
LEMMA TallyMoved ==
    ASSUME NEW S, NEW T, IsFiniteSet(S), NEW p, NEW q, NEW p2, NEW q2,
           NEW g \in Bijection(S, T),
           \A i \in S : TokenAt(p, q, i) = TokenAt(p2, q2, g[i])
    PROVE  Tally(S, p, q) = Tally(T, p2, q2)
<1>1. /\ g \in [S -> T]
      /\ \A i, j \in S : g[i] = g[j] => i = j
      /\ \A k \in T : \E i \in S : g[i] = k
    BY DEF Bijection, Injection, Surjection, IsInjective
<1>2. {TokenAt(p, q, i) : i \in S} = {TokenAt(p2, q2, k) : k \in T}
    BY <1>1
<1>3. ASSUME NEW t
      PROVE  Cardinality(CellsWith(S, p, q, t)) = Cardinality(CellsWith(T, p2, q2, t))
    <2> DEFINE A == CellsWith(S, p, q, t)
               B == CellsWith(T, p2, q2, t)
               h == [i \in A |-> g[i]]
    <2>1. A \subseteq S
        BY DEF CellsWith
    <2>2. h \in [A -> B]
        BY <1>1 DEF CellsWith
    <2>3. \A i, j \in A : h[i] = h[j] => i = j
        BY <1>1, <2>1
    <2>4. ASSUME NEW k \in B PROVE \E i \in A : h[i] = k
        <3>1. k \in T /\ TokenAt(p2, q2, k) = t
            BY DEF CellsWith
        <3>2. PICK i \in S : g[i] = k
            BY <1>1, <3>1
        <3>3. i \in A
            BY <3>1, <3>2 DEF CellsWith
        <3> QED BY <3>2, <3>3
    <2>5. h \in Bijection(A, B)
        <3> HIDE DEF A, B, h
        <3> QED BY <2>2, <2>3, <2>4 DEF Bijection, Injection, Surjection, IsInjective
    <2>6. IsFiniteSet(A)
        BY <2>1, FS_Subset
    <2>7. ExistsBijection(A, B)
        BY <2>5 DEF ExistsBijection
    <2> QED BY <2>6, <2>7, FS_Bijection
<1> QED BY <1>2, <1>3 DEF Tally

\* Cells that stay as they are keep their content.
LEMMA TallySame ==
    ASSUME NEW S, NEW p, NEW q, NEW p2, NEW q2,
           \A i \in S : p2[i] = p[i] /\ q2[i] = q[i]
    PROVE  Tally(S, p2, q2) = Tally(S, p, q)
<1>1. \A i \in S : TokenAt(p2, q2, i) = TokenAt(p, q, i)
    BY DEF TokenAt
<1>2. {TokenAt(p2, q2, i) : i \in S} = {TokenAt(p, q, i) : i \in S}
    BY <1>1
<1>3. \A t : CellsWith(S, p2, q2, t) = CellsWith(S, p, q, t)
    BY <1>1 DEF CellsWith
<1> QED BY <1>2, <1>3 DEF Tally

LEMMA ContentTally == Content = Tally(Live, pos, seqs)
BY DEF Content, At, Tally, TokenAt, CellsWith

\* Carrying out a plan moves tokens from used cells to free ones, one to one.
LEMMA MoveKeepsContent ==
    ASSUME CacheOK, ~ torn, MoveCells
    PROVE  Content' = Content
<1> PICK f \in [Holes -> Tails] :
        LET to == Moved(Holes, f, MaxMoves)
            from == {f[h] : h \in to}
            Moving(F, none) == [i \in Cells |-> IF i \in to THEN F[f[i]]
                                                ELSE IF i \in from THEN none ELSE F[i]]
        IN  /\ IsPlan(Holes, f)
            /\ pos' = Moving(pos, -1)
            /\ seqs' = Moving(seqs, {})
            /\ delta' = Moving(delta, 0)
            /\ \E status \in UpdateStatuses :
                  key' = IF status = "success" THEN Moving(key, NoKey)
                         ELSE [i \in Cells |-> IF i \in to \cup from THEN NoKey ELSE key[i]]
            /\ head' = IF to = {} THEN head ELSE used
            /\ n' = IF to = {} THEN n ELSE KvSize
    BY DEF MoveCells
<1> DEFINE to == Moved(Holes, f, MaxMoves)
           from == {f[h] : h \in to}
<1>1. /\ IsPlan(Holes, f)
      /\ pos' = [i \in Cells |-> IF i \in to THEN pos[f[i]] ELSE IF i \in from THEN -1 ELSE pos[i]]
      /\ seqs' = [i \in Cells |-> IF i \in to THEN seqs[f[i]] ELSE IF i \in from THEN {} ELSE seqs[i]]
    OBVIOUS
<1>2. to \subseteq Holes
    BY DEF Moved
<1>3. Holes \subseteq Cells \ Live /\ Tails \subseteq Live /\ Live \in SUBSET Cells
    BY DEF Holes, Tails, Live, CacheOK, EmptyIffNoPos
<1>4. \A h \in to : f[h] \in Live /\ f[h] \in Cells /\ f[h] \in from
    BY <1>2, <1>3
<1>5. from \subseteq Live /\ to \subseteq Cells /\ to \cap Live = {}
    BY <1>2, <1>3, <1>4
<1>6. \A x, y \in to : f[x] = f[y] => x = y
    BY <1>1, <1>2, PlanInjective
<1>7. Live' = (Live \ from) \cup to
    BY <1>1, <1>4, <1>5 DEF Live, CacheOK
<1>8. \A y \in from : \E x \in to : f[x] = y
    OBVIOUS
<1> DEFINE g == [i \in Live' |-> IF i \in to THEN f[i] ELSE i]
<1>9. g \in Bijection(Live', Live)
    <2> HIDE DEF from, to
    <2>1. g \in [Live' -> Live]
        BY <1>4, <1>7
    <2>2. \A x, y \in Live' : g[x] = g[y] => x = y
        BY <1>4, <1>6, <1>7
    <2>3. ASSUME NEW y \in Live PROVE \E x \in Live' : g[x] = y
        <3>1. CASE y \in from
            BY <1>7, <1>8, <3>1
        <3>2. CASE y \notin from
            <4>1. y \in Live' /\ y \notin to
                BY <1>5, <1>7, <3>2
            <4> QED BY <4>1
        <3> QED BY <3>1, <3>2
    <2> HIDE DEF g
    <2> QED BY <2>1, <2>2, <2>3 DEF Bijection, Injection, Surjection, IsInjective
<1>10. \A i \in Live' : TokenAt(pos', seqs', i) = TokenAt(pos, seqs, g[i])
    <2> SUFFICES ASSUME NEW i \in Live' PROVE pos'[i] = pos[g[i]] /\ seqs'[i] = seqs[g[i]]
        BY DEF TokenAt
    <2> HIDE DEF from, to
    <2>1. i \in Cells /\ g[i] = IF i \in to THEN f[i] ELSE i
        BY <1>3, <1>5, <1>7
    <2>2. i \in to \/ i \notin from
        BY <1>7
    <2> HIDE DEF g
    <2> QED BY <1>1, <2>1, <2>2
<1>11. IsFiniteSet(Live')
    <2>1. Live' \in SUBSET Cells
        BY <1>3, <1>5, <1>7
    <2> QED BY <2>1, CellSets
<1> HIDE DEF g
<1>12. Tally(Live', pos', seqs') = Tally(Live, pos, seqs)
    BY <1>9, <1>10, <1>11, TallyMoved
<1> QED BY <1>12, ContentTally DEF Content, At, Tally, TokenAt, CellsWith

LEMMA DefragmentKeepsContent ==
    ASSUME IndInv, Defragment
    PROVE  Content' = Content
<1>1. CASE doDefrag
    BY <1>1, NotTorn, MoveKeepsContent DEF Defragment, IndInv
<1>2. CASE ~ doDefrag
    BY <1>2 DEF Defragment, cellVars, Content, At, Live
<1> QED BY <1>1, <1>2

\* Defragmentation changes where the tokens are, never which there are.
THEOREM DefragIsInvisible == Spec => DefragKeepsContent
<1>1. IndInv /\ [Next]_vars => (phase = "defrag" => Content' = Content)
    <2> SUFFICES ASSUME IndInv, [Next]_vars, phase = "defrag"
                 PROVE  Content' = Content
        OBVIOUS
    <2>1. CASE Defragment
        BY <2>1, DefragmentKeepsContent
    <2>2. CASE UNCHANGED vars
        BY <2>2 DEF vars, cacheVars, cellVars, Content, At, Live
    <2>3. ~ Api
        BY ApiWhenIdle DEF Idle
    <2>4. ~ (KShift \/ DecodeRefused \/ SplitUbatch \/ FindSlot \/ ProbeWrap \/ ProbeMiss
             \/ ProbeFound \/ SlotNotFound \/ Compute \/ ComputeFails \/ DecodeDone
             \/ LoadRows \/ LoadEnds \/ LoadFails)
        BY DEF KShift, DecodeRefused, SplitUbatch, FindSlot, ProbeWrap, ProbeMiss, ProbeFound,
               SlotNotFound, Compute, ComputeFails, DecodeDone, LoadRows, LoadEnds, LoadFails
    <2> QED BY <2>1, <2>2, <2>3, <2>4 DEF Next, Step
<1> QED BY Invariance, <1>1, PTL DEF Spec, DefragKeepsContent

-----------------------------------------------------------------------------
(* A failed decode gives back what it took.                                *)

\* The tokens in the cells that the decode in progress has not taken.
Committed == Tally(Live \ pending, pos, seqs)

\* While a decode runs that found no stale range, those are the tokens that
\* were there when it was called.
EntryKept ==
    op = "decode" /\ entry.clean =>
        /\ entry.content = Committed
        /\ phase \in {"update", "defrag"} => pending = {}

\* Of the API only decode starts a decode.
LEMMA OtherApi ==
    ASSUME Api, ~ DecodeBatch, ~ DecodeAuto
    PROVE  op' # "decode"
<1>1. Clear \/ Defrag \/ Update => op' # "decode"
    BY DEF Clear, Defrag, Update, ApiCall, Return, Call
<1>2. ASSUME NEW s, NEW t, NEW p0, NEW p1
      PROVE  SeqRm(s, p0, p1) \/ SeqCp(s, t, p0, p1) \/ SeqKeep(s) => op' # "decode"
    BY DEF SeqRm, SeqCp, SeqKeep, ApiCall, Return
<1>3. ASSUME NEW s, NEW p0, NEW p1, NEW d
      PROVE  SeqAdd(s, p0, p1, d) \/ SeqDiv(s, p0, p1, d) => op' # "decode"
    BY DEF SeqAdd, SeqDiv, ApiCall, Return
<1>4. ASSUME NEW STATE b, NEW s
      PROVE  LoadWhole(b) \/ LoadSeq(b, s) => op' # "decode"
    BY DEF LoadWhole, LoadSeq, Return, Call
<1> QED BY <1>1, <1>2, <1>3, <1>4 DEF Api

LEMMA DecodeEntry ==
    ASSUME NEW STATE b, Decode(b)
    PROVE  EntryKept'
<1>1. UNCHANGED <<pos, seqs, pending>> /\ Live' = Live
    BY DEF Decode, cacheVars, cellVars, Live
<1>2. entry' = [content |-> Content, clean |-> pending = {}]
    BY DEF Decode
<1>3. ASSUME pending = {}
      PROVE  Committed' = Content
    <2>1. Live' \ pending' = Live
        BY <1>1, <1>3
    <2>2. Committed' = Tally(Live, pos, seqs)
        BY <1>1, <2>1 DEF Committed
    <2> QED BY <2>2, ContentTally
<1> QED BY <1>1, <1>2, <1>3 DEF EntryKept

\* A step of decode that neither places nor moves anything.
LEMMA SameEntry ==
    ASSUME EntryKept, UNCHANGED <<pos, seqs, pending, entry, op>>,
           phase' \in {"update", "defrag"} => phase \in {"update", "defrag"}
    PROVE  EntryKept'
<1>1. Live' = Live
    BY DEF Live
<1>2. Committed' = Committed
    BY <1>1 DEF Committed
<1> QED BY <1>2 DEF EntryKept

\* Before its first placement a clean decode has no pending cell, and its
\* defragmentation keeps the tokens.
LEMMA DefragmentEntry ==
    ASSUME IndInv, EntryKept, Defragment
    PROVE  EntryKept'
<1>1. CASE op = "update"
    BY <1>1 DEF Defragment, EndUpdate, Return, EntryKept
<1>2. CASE op # "update"
    <2>1. UNCHANGED <<op, entry, pending>> /\ phase' = "loop" /\ phase = "defrag"
        BY <1>2 DEF Defragment, EndUpdate
    <2>2. ASSUME pending = {}
          PROVE  Committed = Content /\ Committed' = Content'
        <3>1. Live \ pending = Live /\ Live' \ pending' = Live'
            BY <2>1, <2>2
        <3>2. Committed = Content
            BY <3>1, ContentTally DEF Committed
        <3>3. Committed' = Content'
            BY <3>1 DEF Committed, Content, At, Tally, TokenAt, CellsWith
        <3> QED BY <3>2, <3>3
    <2> QED BY <2>1, <2>2, DefragmentKeepsContent DEF EntryKept
<1> QED BY <1>1, <1>2

\* What decode places lies in free cells and becomes pending.
LEMMA ProbeFoundEntry ==
    ASSUME IndInv, EntryKept, ProbeFound
    PROVE  EntryKept'
<1>1. /\ pos' = [i \in Cells |-> IF i \in Run(head) THEN ub[i - head + 1].pos ELSE pos[i]]
      /\ seqs' = [i \in Cells |-> IF i \in Run(head) THEN ub[i - head + 1].seqs ELSE seqs[i]]
      /\ FreeRun(head)
      /\ UNCHANGED <<op, entry>> /\ phase' = "compute"
      /\ op = "decode" => pending' = pending \cup Run(head)
    BY DEF ProbeFound
<1>2. ASSUME op = "decode"
      PROVE  Committed' = Committed
    <2>1. \A i \in Live : i \in Cells /\ i \notin Run(head)
        BY <1>1 DEF Live, FreeRun, IndInv, CacheOK
    <2>2. Live' \ pending' = Live \ pending
        <3>1. ASSUME NEW i \in Cells, i \notin Run(head)
              PROVE  i \in Live' <=> i \in Live
            BY <1>1, <3>1 DEF Live
        <3>2. Live' \subseteq Cells
            BY DEF Live
        <3> QED BY <1>1, <1>2, <2>1, <3>1, <3>2
    <2>3. \A i \in Live \ pending : pos'[i] = pos[i] /\ seqs'[i] = seqs[i]
        BY <1>1, <2>1
    <2>4. Tally(Live \ pending, pos', seqs') = Tally(Live \ pending, pos, seqs)
        BY <2>3, TallySame
    <2> QED BY <2>2, <2>4 DEF Committed
<1> QED BY <1>1, <1>2 DEF EntryKept

LEMMA EntryStep == IndInv /\ EntryKept /\ [Next]_vars => EntryKept'
<1> SUFFICES ASSUME IndInv, EntryKept, [Next]_vars PROVE EntryKept'
    OBVIOUS
<1>1. CASE DecodeBatch \/ DecodeAuto
    BY <1>1, DecodeEntry DEF DecodeBatch, DecodeAuto
<1>2. CASE Api /\ ~ DecodeBatch /\ ~ DecodeAuto
    BY <1>2, OtherApi DEF EntryKept
<1>3. CASE Defragment
    BY <1>3, DefragmentEntry
<1>4. CASE ProbeFound
    BY <1>4, ProbeFoundEntry
<1>5. CASE KShift \/ SplitUbatch \/ FindSlot \/ ProbeWrap \/ ProbeMiss \/ Compute
    BY <1>5, SameEntry DEF KShift, SplitUbatch, FindSlot, ProbeWrap, ProbeMiss, Compute,
       cacheVars, cellVars
<1>6. CASE \/ DecodeRefused \/ SlotNotFound \/ ComputeFails \/ DecodeDone
          \/ LoadRows \/ LoadEnds \/ LoadFails
    <2>1. op' = "none"
        BY <1>6 DEF DecodeRefused, SlotNotFound, ComputeFails, Fail, DecodeDone, LoadRows,
           LoadEnds, LoadFails, Return
    <2> QED BY <2>1 DEF EntryKept
<1>7. CASE UNCHANGED vars
    BY <1>7, SameEntry DEF vars, cacheVars, callVars, cellVars
<1> QED BY <1>1, <1>2, <1>3, <1>4, <1>5, <1>6, <1>7 DEF Next, Step

\* restore() empties the pending cells and touches no other.
LEMMA FailRestores ==
    ASSUME IndInv, Fail
    PROVE  Content' = Committed
<1>1. /\ pos' = [i \in Cells |-> IF i \in pending THEN -1 ELSE pos[i]]
      /\ seqs' = [i \in Cells |-> IF i \in pending THEN {} ELSE seqs[i]]
    BY DEF Fail, Restore, Release
<1>2. Live' = Live \ pending
    BY <1>1 DEF Live
<1>3. \A i \in Live \ pending : pos'[i] = pos[i] /\ seqs'[i] = seqs[i]
    BY <1>1 DEF Live
<1>4. Tally(Live \ pending, pos', seqs') = Tally(Live \ pending, pos, seqs)
    BY <1>3, TallySame
<1>5. Content' = Tally(Live', pos', seqs')
    BY DEF Content, At, Tally, TokenAt, CellsWith
<1> QED BY <1>2, <1>4, <1>5 DEF Committed

\* A decode that found no stale pending range and returns an error or a
\* warning leaves the tokens in the cache that were there when it was called.
THEOREM CleanFailureRestores == Spec => CleanDecodeErrorRestores
<1>1. Init => EntryKept
    BY DEF Init, EntryKept
<1>2. IndInv /\ EntryKept /\ [Next]_vars =>
        ((Warns \/ Errs) /\ entry.clean => Content' = entry.content)
    <2> SUFFICES ASSUME IndInv, EntryKept, [Next]_vars, Warns \/ Errs, entry.clean
                 PROVE  Content' = entry.content
        OBVIOUS
    <2>1. op = "decode" /\ phase \in {"update", "full", "compute"} /\ op' = "none"
        BY DEF Warns, Errs
    <2>2. CASE DecodeRefused \/ SlotNotFound \/ ComputeFails
        BY <2>1, <2>2, FailRestores DEF DecodeRefused, SlotNotFound, ComputeFails, EntryKept
    <2>3. ~ UNCHANGED vars
        BY <2>1 DEF vars, callVars
    <2>4. ~ Api
        BY <2>1, ApiWhenIdle DEF Idle
    <2>5. ~ (KShift \/ Defragment \/ SplitUbatch \/ FindSlot \/ ProbeWrap \/ ProbeMiss
             \/ ProbeFound \/ Compute \/ DecodeDone \/ LoadRows \/ LoadEnds \/ LoadFails)
        BY <2>1 DEF KShift, Defragment, SplitUbatch, FindSlot, ProbeWrap, ProbeMiss, ProbeFound,
           Compute, DecodeDone, LoadRows, LoadEnds, LoadFails
    <2> QED BY <2>2, <2>3, <2>4, <2>5 DEF Next, Step
<1> QED BY Invariance, EntryStep, <1>1, <1>2, PTL DEF Spec, CleanDecodeErrorRestores

-----------------------------------------------------------------------------
(* The rows of the K tensor follow the positions of the metadata, and what *)
(* is placed stays in place.                                               *)

\* The discipline under which the rows are right: the graphs that rotate and
\* move rows run, callers bring the rows up to date before they load a state,
\* and tokens come with rows for their own positions.
OwnKeys(b) == \A j \in 1 .. Len(b) : b[j].key = b[j].pos
Disciplined ==
    /\ CallerUpdates
    /\ UpdateStatuses = {"success"}
    /\ \A b \in Batches \cup Blobs : OwnKeys(b)

\* A rotation is due only while has_shift says so, also in a free cell.
DueIsMarked == \A i \in Cells : delta[i] # 0 => hasShift

\* The K-shift precedes everything else that a call does.
ShiftedFirst == phase \notin {"idle", "update"} => ~ hasShift

KeysOK == \A i \in Live \ Fresh : RowFollows(i)

\* The cells of the slot hold the tokens of the ubatch.
SlotHoldsUbatch ==
    phase = "compute" =>
        /\ \A i \in Run(head) : /\ pos[i] = ub[i - head + 1].pos
                               /\ seqs[i] = ub[i - head + 1].seqs
        /\ op = "decode" => Run(head) \subseteq pending

\* A saved sequence is loaded into one sequence.
LoadsOneSeq == op = "load" => \E s : \A j \in 1 .. Len(ub) : ub[j].seqs = {s}

AttendedOK == phase = "compute" /\ op = "decode" => \A i \in Live : i < n

KeysInv ==
    /\ DueIsMarked
    /\ ShiftedFirst
    /\ KeysOK
    /\ SlotHoldsUbatch
    /\ AttendedOK
    /\ LoadsOneSeq
    /\ OwnKeys(ub) /\ OwnKeys(rest)

-----------------------------------------------------------------------------
\* A step that ends a call outside the evaluation of a ubatch.
LEMMA IdleKeys ==
    ASSUME Return
    PROVE  ShiftedFirst' /\ SlotHoldsUbatch' /\ AttendedOK' /\ OwnKeys(ub)' /\ OwnKeys(rest)'
           /\ Fresh' = {} /\ LoadsOneSeq'
BY DEF Return, LoadsOneSeq, ShiftedFirst, SlotHoldsUbatch, AttendedOK, OwnKeys, Fresh

\* Freeing cells: the rows of the tokens that stay are as they were, and the
\* cells of an abandoned ubatch are among the freed ones.
LEMMA ReleaseKeys ==
    ASSUME CacheOK, KeysOK, DueIsMarked, NEW STATE F, F \in SUBSET Cells, Release(F),
           Fresh \cap Live \subseteq F,
           UNCHANGED <<delta, hasShift>>, Return
    PROVE  KeysInv'
<1>1. Live' \subseteq Live \ F
    BY DEF Live, Release, CacheOK
<1>2. \A i \in Live' : key'[i] = key[i] /\ delta'[i] = delta[i] /\ pos'[i] = pos[i] /\ i \notin Fresh
    BY <1>1 DEF Release, Live
<1>3. KeysOK'
    BY <1>1, <1>2 DEF KeysOK, RowFollows
<1>4. DueIsMarked'
    BY DEF DueIsMarked
<1> QED BY <1>3, <1>4, IdleKeys DEF KeysInv

LEMMA RemoveKeys ==
    ASSUME CacheOK, KeysOK, DueIsMarked, NEW s, NEW p0, NEW p1, Remove(s, p0, p1), Fresh = {},
           UNCHANGED hasShift
    PROVE  DueIsMarked' /\ (\A i \in Live' : RowFollows(i)')
<1> DEFINE hit == {i \in Cells : InRange(pos[i], p0, p1) /\ (s = AnySeq \/ s \in seqs[i])}
           left == [i \in Cells |-> IF i \notin hit THEN seqs[i]
                                    ELSE IF s = AnySeq THEN {} ELSE seqs[i] \ {s}]
           freed == {i \in hit : left[i] = {}}
<1>1. Release(freed) /\ UNCHANGED delta
    BY DEF Remove
<1> HIDE DEF freed
<1>2. \A i \in Live' : i \in Live /\ key'[i] = key[i] /\ delta'[i] = delta[i] /\ pos'[i] = pos[i]
    BY <1>1 DEF Live, Release, CacheOK
<1> QED BY <1>1, <1>2 DEF KeysOK, RowFollows, DueIsMarked

-----------------------------------------------------------------------------
(* The metadata operations.                                                *)

LEMMA SeqRmKeys ==
    ASSUME IndInv, KeysInv, NEW s, NEW p0, NEW p1, SeqRm(s, p0, p1)
    PROVE  KeysInv'
<1>1. Fresh = {} /\ Return
    BY DEF SeqRm, ApiCall, Usable, Idle, Fresh
<1>2. DueIsMarked' /\ (\A i \in Live' : RowFollows(i)')
    BY <1>1, RemoveKeys DEF SeqRm, IndInv, KeysInv
<1> QED BY <1>1, <1>2, IdleKeys DEF KeysInv, KeysOK

LEMMA SeqKeepKeys ==
    ASSUME IndInv, KeysInv, NEW s \in Seqs, SeqKeep(s)
    PROVE  KeysInv'
<1> DEFINE dropped == {i \in Cells : s \notin seqs[i]}
<1>1. Release(dropped) /\ UNCHANGED <<delta, hasShift>> /\ Return /\ Fresh = {}
    BY DEF SeqKeep, ApiCall, Usable, Idle, Fresh
<1>2. dropped \in SUBSET Cells
    OBVIOUS
<1> HIDE DEF dropped
<1> QED BY <1>1, <1>2, ReleaseKeys DEF IndInv, KeysInv

\* The position and the delta of a cell change by the same amount.
LEMMA SeqAddKeys ==
    ASSUME IndInv, KeysInv, NEW s \in Seqs, NEW p0, NEW p1, NEW d \in Deltas, SeqAdd(s, p0, p1, d)
    PROVE  KeysInv'
<1> DEFINE hit == {i \in Cells : s \in seqs[i] /\ InRange(pos[i], p0, p1)}
           freed == {i \in hit : pos[i] + d < 0}
<1>0. CacheOK /\ d \in Int /\ Return /\ Fresh = {}
    BY InputAssumption DEF IndInv, SeqAdd, ApiCall, Usable, Idle, Fresh
<1>1. /\ pos' = [i \in Cells |-> IF i \in freed THEN -1
                                 ELSE IF i \in hit THEN pos[i] + d ELSE pos[i]]
      /\ delta' = [i \in Cells |-> IF i \in hit THEN delta[i] + d ELSE delta[i]]
      /\ key' = [i \in Cells |-> IF i \in freed THEN NoKey ELSE key[i]]
      /\ hasShift' = (hasShift \/ hit # {})
    BY DEF SeqAdd
<1>2. DueIsMarked'
    BY <1>1 DEF KeysInv, DueIsMarked
<1>3. ASSUME NEW i \in Live'
      PROVE  RowFollows(i)'
    <2>1. i \in Cells \ freed /\ i \in Live
        BY <1>0, <1>1 DEF Live, InRange
    <2>2. RowFollows(i) /\ key[i] \in Int /\ delta[i] \in Int /\ pos[i] \in Int
        BY <1>0, <2>1 DEF KeysInv, KeysOK, CacheOK
    <2> HIDE DEF freed, hit
    <2> QED BY <1>0, <1>1, <2>1, <2>2 DEF RowFollows
<1> QED BY <1>0, <1>2, <1>3, IdleKeys DEF KeysInv, KeysOK

LEMMA SeqDivKeys ==
    ASSUME IndInv, KeysInv, NEW s \in Seqs, NEW p0, NEW p1, SeqDiv(s, p0, p1, 2)
    PROVE  KeysInv'
<1> DEFINE hit == {i \in Cells : s \in seqs[i] /\ InRange(pos[i], p0, p1)}
<1>0. CacheOK /\ Return /\ Fresh = {}
    BY DEF IndInv, SeqDiv, ApiCall, Usable, Idle, Fresh
<1>1. /\ pos' = [i \in Cells |-> IF i \in hit THEN pos[i] \div 2 ELSE pos[i]]
      /\ delta' = [i \in Cells |-> IF i \in hit THEN delta[i] + (pos[i] \div 2) - pos[i]
                                   ELSE delta[i]]
      /\ hasShift' = (hasShift \/ hit # {})
      /\ key' = key
    BY DEF SeqDiv
<1>2. DueIsMarked'
    BY <1>1 DEF KeysInv, DueIsMarked
<1>3. ASSUME NEW i \in Live'
      PROVE  RowFollows(i)'
    <2>1. i \in Cells /\ i \in Live
        BY <1>0, <1>1 DEF Live, InRange
    <2>2. /\ RowFollows(i) /\ key[i] \in Int /\ delta[i] \in Int /\ pos[i] \in Int
          /\ pos[i] \div 2 \in Int
        BY <1>0, <2>1 DEF KeysInv, KeysOK, CacheOK
    <2> HIDE DEF hit
    <2> QED BY <1>0, <1>1, <2>1, <2>2 DEF RowFollows
<1> QED BY <1>0, <1>2, <1>3, IdleKeys DEF KeysInv, KeysOK

\* Operations that change neither positions, deltas nor rows.
LEMMA SameKeys ==
    ASSUME KeysInv, UNCHANGED <<pos, delta, key, hasShift>>, Fresh = {}, Return
    PROVE  KeysInv'
<1>1. Live' = Live
    BY DEF Live
<1> QED BY <1>1, IdleKeys DEF KeysInv, KeysOK, RowFollows, DueIsMarked

LEMMA ClearKeys == IndInv /\ KeysInv /\ Clear => KeysInv'
<1> SUFFICES ASSUME IndInv, KeysInv, Clear PROVE KeysInv'
    OBVIOUS
<1>1. Live' = {}
    BY DEF Clear, Wipe, Live
<1>2. DueIsMarked'
    BY DEF Clear, Wipe, KeysInv, DueIsMarked
<1> QED BY <1>1, <1>2, IdleKeys DEF Clear, ApiCall, KeysInv, KeysOK

-----------------------------------------------------------------------------
(* The steps of a call.                                                    *)

\* A step of a call that leaves the cells and the ubatch alone.
LEMMA InsideKeys ==
    ASSUME KeysInv, UNCHANGED <<pos, delta, key, hasShift>>, Fresh = {},
           phase' # "compute", ~ hasShift, OwnKeys(ub)', OwnKeys(rest)', LoadsOneSeq'
    PROVE  KeysInv'
<1>1. Live' = Live
    BY DEF Live
<1> QED BY <1>1 DEF KeysInv, KeysOK, RowFollows, DueIsMarked, ShiftedFirst, SlotHoldsUbatch,
            AttendedOK, Fresh

LEMMA UpdateKeys ==
    ASSUME IndInv, KeysInv, UNCHANGED cacheVars, Idle, phase' = "update",
           OwnKeys(ub)', OwnKeys(rest)', LoadsOneSeq'
    PROVE  KeysInv'
<1>1. Live' = Live
    BY DEF cacheVars, cellVars, Live
<1> QED BY <1>1 DEF cacheVars, cellVars, Idle, KeysInv, KeysOK, RowFollows, DueIsMarked, ShiftedFirst,
            SlotHoldsUbatch, AttendedOK, Fresh

\* The K-shift brings every row to its position.
LEMMA KShiftKeys ==
    ASSUME Disciplined, IndInv, KeysInv, KShift
    PROVE  KeysInv'
<1>1. /\ key' = [i \in Cells |-> IF hasShift /\ i \in Live /\ key[i] # LostKey
                                 THEN key[i] + delta[i] ELSE key[i]]
      /\ delta' = [i \in Cells |-> IF hasShift THEN 0 ELSE delta[i]]
      /\ pos' = pos /\ hasShift' = FALSE
    BY DEF KShift, Disciplined
<1>2. DueIsMarked'
    BY <1>1 DEF KeysInv, DueIsMarked
<1>3. Live' = Live /\ Live \subseteq Cells /\ Fresh = {} /\ Fresh' = {}
    BY <1>1 DEF Live, KShift, Fresh
<1>4. ASSUME NEW i \in Live
      PROVE  RowFollows(i)'
    <2>1. RowFollows(i) /\ key[i] \in Int /\ delta[i] \in Int /\ i \in Cells
        BY <1>3 DEF KeysInv, KeysOK, IndInv, CacheOK
    <2>2. ~ hasShift => delta[i] = 0
        BY <2>1 DEF KeysInv, DueIsMarked
    <2> QED BY <1>1, <2>1, <2>2 DEF RowFollows
<1>5. KeysOK'
    BY <1>3, <1>4 DEF KeysOK
<1> QED BY <1>1, <1>2, <1>5 DEF KShift, KeysInv, ShiftedFirst, SlotHoldsUbatch, AttendedOK, LoadsOneSeq, OwnKeys

\* A row moves with its token.
LEMMA MoveKeys ==
    ASSUME Disciplined, CacheOK, ~ torn, KeysOK, DueIsMarked, MoveCells, Fresh = {}, Fresh' = {},
           UNCHANGED hasShift
    PROVE  KeysOK' /\ DueIsMarked'
<1> PICK f \in [Holes -> Tails] :
        LET to == Moved(Holes, f, MaxMoves)
            from == {f[h] : h \in to}
            Moving(F, none) == [i \in Cells |-> IF i \in to THEN F[f[i]]
                                                ELSE IF i \in from THEN none ELSE F[i]]
        IN  /\ IsPlan(Holes, f)
            /\ pos' = Moving(pos, -1)
            /\ seqs' = Moving(seqs, {})
            /\ delta' = Moving(delta, 0)
            /\ \E status \in UpdateStatuses :
                  key' = IF status = "success" THEN Moving(key, NoKey)
                         ELSE [i \in Cells |-> IF i \in to \cup from THEN NoKey ELSE key[i]]
            /\ head' = IF to = {} THEN head ELSE used
            /\ n' = IF to = {} THEN n ELSE KvSize
    BY DEF MoveCells
<1> DEFINE to == Moved(Holes, f, MaxMoves)
           from == {f[h] : h \in to}
<1>1. /\ pos' = [i \in Cells |-> IF i \in to THEN pos[f[i]] ELSE IF i \in from THEN -1 ELSE pos[i]]
      /\ delta' = [i \in Cells |-> IF i \in to THEN delta[f[i]] ELSE IF i \in from THEN 0 ELSE delta[i]]
      /\ key' = [i \in Cells |-> IF i \in to THEN key[f[i]] ELSE IF i \in from THEN NoKey ELSE key[i]]
    BY DEF Disciplined
<1>2. \A h \in to : f[h] \in Live /\ f[h] \in Cells
    BY DEF Moved, Holes, Tails, Live, CacheOK, EmptyIffNoPos
<1> HIDE DEF from, to
<1>3. KeysOK'
    BY <1>1, <1>2 DEF KeysOK, RowFollows, Live
<1>4. DueIsMarked'
    BY <1>1, <1>2 DEF DueIsMarked
<1> QED BY <1>3, <1>4

LEMMA DefragmentKeys ==
    ASSUME Disciplined, IndInv, KeysInv, Defragment
    PROVE  KeysInv'
<1>1. Fresh = {} /\ Fresh' = {}
    BY DEF Defragment, EndUpdate, Return, Fresh
<1>2. KeysOK' /\ DueIsMarked'
    <2>1. CASE doDefrag
        BY <1>1, <2>1, NotTorn, MoveKeys DEF Defragment, IndInv, KeysInv
    <2>2. CASE ~ doDefrag
        <3>1. Live' = Live
            BY <2>2 DEF Defragment, cellVars, Live
        <3> QED BY <1>1, <2>2, <3>1 DEF Defragment, cellVars, KeysInv, KeysOK, RowFollows, DueIsMarked
    <2> QED BY <2>1, <2>2
<1>3. ~ hasShift /\ UNCHANGED hasShift
    BY DEF Defragment, KeysInv, ShiftedFirst
<1>4. CASE op = "update"
    BY <1>2, <1>4, IdleKeys DEF Defragment, EndUpdate, KeysInv
<1>5. CASE op # "update"
    <2>1. phase' = "loop" /\ UNCHANGED <<op, rest, ub>>
        BY <1>5 DEF Defragment, EndUpdate
    <2>2. OwnKeys(ub)' /\ OwnKeys(rest)' /\ LoadsOneSeq'
        BY <2>1 DEF KeysInv, OwnKeys, LoadsOneSeq
    <2> QED BY <1>2, <1>3, <2>1, <2>2 DEF KeysInv, ShiftedFirst, SlotHoldsUbatch, AttendedOK
<1> QED BY <1>4, <1>5

\* The split ubatch is a part of the batch.
LEMMA SplitKeys ==
    ASSUME IndInv, KeysInv, SplitUbatch
    PROVE  KeysInv'
<1> DEFINE k == IF Len(rest) < NUbatch THEN Len(rest) ELSE NUbatch
<1>1. ub' = SubSeq(rest, 1, k) /\ rest' = SubSeq(rest, k + 1, Len(rest))
    BY DEF SplitUbatch
<1>2. k \in 0 .. Len(rest) /\ rest \in Seq(Token) /\ OwnKeys(rest)
    BY BoundsAssumption DEF IndInv, CallOK, KeysInv
<1> HIDE DEF k
<1>3. OwnKeys(ub)'
    BY <1>1, <1>2 DEF OwnKeys
<1>4. OwnKeys(rest)'
    <2>1. SUFFICES ASSUME NEW j \in 1 .. Len(rest')
                   PROVE  rest'[j].key = rest'[j].pos
        BY DEF OwnKeys
    <2>2. Len(rest') = Len(rest) - k
        BY <1>1, <1>2
    <2>3. rest'[j] = rest[k + j] /\ k + j \in 1 .. Len(rest)
        BY <1>1, <1>2, <2>2
    <2> QED BY <1>2, <2>3 DEF OwnKeys
<1>5. ~ hasShift /\ Fresh = {} /\ phase' # "compute"
    BY DEF SplitUbatch, KeysInv, ShiftedFirst, Fresh
<1>6. LoadsOneSeq'
    BY DEF SplitUbatch, IndInv, CallOK, LoadsOneSeq
<1> QED BY <1>3, <1>4, <1>5, <1>6, InsideKeys DEF SplitUbatch, cacheVars, cellVars

LEMMA ProbeKeys ==
    ASSUME IndInv, KeysInv, FindSlot \/ ProbeWrap \/ ProbeMiss
    PROVE  KeysInv'
<1>1. /\ UNCHANGED <<pos, delta, key, hasShift, ub, rest, op>>
      /\ Fresh = {} /\ phase' # "compute" /\ ~ hasShift
    BY DEF FindSlot, ProbeWrap, ProbeMiss, cellVars, Fresh, KeysInv, ShiftedFirst
<1> QED BY <1>1, InsideKeys DEF KeysInv, OwnKeys, LoadsOneSeq

\* GGML_PAD rounds up.
LEMMA PaddedCovers ==
    ASSUME NEW c \in Nat
    PROVE  Padded(c) \in Nat /\ Padded(c) >= c
<1> DEFINE x == c + Pad - 1
           q == x \div Pad
<1>1. Pad \in Nat \ {0} /\ x \in Nat
    BY BoundsAssumption
<1>2. q \in Nat /\ x = Pad * q + (x % Pad) /\ x % Pad \in 0 .. Pad - 1
    BY <1>1
<1>3. Pad * q \in Nat /\ q * Pad = Pad * q
    BY <1>1, <1>2
<1> HIDE DEF q
<1>4. q * Pad >= c
    BY <1>1, <1>2, <1>3
<1> QED BY <1>3, <1>4 DEF Padded, q

LEMMA ProbeFoundKeys ==
    ASSUME IndInv, KeysInv, ProbeFound
    PROVE  KeysInv'
<1>0. CacheOK /\ FreeRun(head) /\ UNCHANGED <<delta, key, head, hasShift, ub, rest, op>>
      /\ phase = "probe" /\ phase' = "compute" /\ Run(head) \subseteq Cells
      /\ pos' = [i \in Cells |-> IF i \in Run(head) THEN ub[i - head + 1].pos ELSE pos[i]]
    <2>1. CacheOK /\ head \in Nat /\ Len(ub) \in Nat
        BY SizeAssumption DEF IndInv, CacheOK, CallOK
    <2>2. Run(head) \subseteq Cells
        BY <2>1, SizeAssumption DEF ProbeFound, FreeRun, Fits, Run, Cells
    <2> QED BY <2>1, <2>2 DEF ProbeFound
<1>1. Fresh = {} /\ Fresh' = Run(head)
    BY <1>0 DEF Fresh, Run
<1>2. KeysOK'
    BY <1>0, <1>1 DEF KeysInv, KeysOK, RowFollows, Live
<1>3. SlotHoldsUbatch'
    BY <1>0 DEF SlotHoldsUbatch, Run, ProbeFound
<1>4. AttendedOK'
    <2> SUFFICES ASSUME op = "decode", NEW i \in Live'
                 PROVE  i < n'
        BY <1>0 DEF AttendedOK
    <2>1. PICK c \in 0 .. KvSize :
            /\ IsCellMax(c, pos')
            /\ n' = Least(KvSize, IF Padded(c) < Pad THEN Pad ELSE Padded(c))
        BY DEF ProbeFound, Attended
    <2>2. i \in Cells /\ i < c
        BY <2>1 DEF Live, IsCellMax
    <2>3. c \in Nat /\ c <= KvSize /\ KvSize \in Nat /\ Pad \in Nat
        BY SizeAssumption, BoundsAssumption
    <2>4. Padded(c) \in Nat /\ Padded(c) >= c
        BY <2>3, PaddedCovers
    <2>5. i \in Nat
        BY <2>2, <2>3 DEF Cells
    <2> QED BY <2>1, <2>2, <2>3, <2>4, <2>5 DEF Least
<1> QED BY <1>0, <1>2, <1>3, <1>4 DEF KeysInv, DueIsMarked, ShiftedFirst, LoadsOneSeq, OwnKeys

\* The graph writes the rows of the slot, rotated for their positions.
LEMMA WrittenKeys ==
    ASSUME IndInv, KeysInv, phase = "compute", WriteRows, UNCHANGED <<pos, delta, hasShift>>
    PROVE  DueIsMarked' /\ (~ hasShift => \A i \in Live' : RowFollows(i)')
<1>1. DueIsMarked'
    BY DEF KeysInv, DueIsMarked
<1>2. ASSUME ~ hasShift, NEW i \in Live'
      PROVE  RowFollows(i)'
    <2>1. i \in Cells /\ i \in Live /\ pos'[i] = pos[i] /\ delta'[i] = 0 /\ delta[i] = 0
        BY <1>2 DEF Live, KeysInv, DueIsMarked
    <2>2. CASE i \in Run(head)
        <3>1. i - head + 1 \in 1 .. Len(ub) /\ ub \in Seq(Token)
            BY <2>2 DEF Run, IndInv, CacheOK, CallOK
        <3>2. ub[i - head + 1] \in Token /\ ub[i - head + 1].key = ub[i - head + 1].pos
            BY <3>1 DEF KeysInv, OwnKeys
        <3>3. pos[i] = ub[i - head + 1].pos
            BY <2>2 DEF KeysInv, SlotHoldsUbatch
        <3>4. pos[i] \in Int /\ key'[i] = pos[i]
            BY <2>1, <2>2, <3>2, <3>3 DEF WriteRows, IndInv, CacheOK
        <3> QED BY <2>1, <3>4 DEF RowFollows
    <2>3. CASE i \notin Run(head)
        BY <2>1, <2>3 DEF WriteRows, KeysInv, KeysOK, RowFollows, Fresh
    <2> QED BY <2>2, <2>3
<1> QED BY <1>1, <1>2

LEMMA ComputeKeys ==
    ASSUME IndInv, KeysInv, Compute
    PROVE  KeysInv'
<1>1. ~ hasShift /\ UNCHANGED <<pos, delta, hasShift, ub, rest, op>> /\ phase' = "loop" /\ Fresh' = {}
    BY DEF Compute, KeysInv, ShiftedFirst, Fresh
<1>2. DueIsMarked' /\ KeysOK'
    BY <1>1, WrittenKeys DEF Compute, KeysOK
<1> QED BY <1>1, <1>2 DEF KeysInv, ShiftedFirst, SlotHoldsUbatch, AttendedOK, LoadsOneSeq, OwnKeys

\* restore() frees the cells of the ubatch that was not evaluated.
LEMMA FailKeys ==
    ASSUME IndInv, KeysInv, op = "decode", Fail
    PROVE  KeysInv'
<1>1. Fresh \cap Live \subseteq pending
    BY DEF Fresh, KeysInv, SlotHoldsUbatch
<1>2. /\ CacheOK /\ KeysOK /\ DueIsMarked /\ pending \in SUBSET Cells
      /\ Release(pending) /\ UNCHANGED <<delta, hasShift>> /\ Return
    BY DEF Fail, Restore, IndInv, CallOK, KeysInv
<1> QED BY <1>1, <1>2, ReleaseKeys

\* A failed load frees the cells of the slot, whose rows were not read.
LEMMA LoadFailsKeys ==
    ASSUME IndInv, KeysInv, LoadFails
    PROVE  KeysInv'
<1> PICK s \in ub[1].seqs : Remove(s, -1, -1)
    BY DEF LoadFails
<1> DEFINE hit == {i \in Cells : InRange(pos[i], -1, -1) /\ (s = AnySeq \/ s \in seqs[i])}
           left == [i \in Cells |-> IF i \notin hit THEN seqs[i]
                                    ELSE IF s = AnySeq THEN {} ELSE seqs[i] \ {s}]
           freed == {i \in hit : left[i] = {}}
<1>1. Release(freed) /\ UNCHANGED <<delta, hasShift>> /\ Return
    BY DEF Remove, LoadFails
<1>2. \A j \in 1 .. Len(ub) : ub[j].seqs = {s}
    <2>1. Len(ub) >= 1
        BY DEF LoadFails, IndInv, CallOK
    <2> QED BY <2>1 DEF LoadFails, KeysInv, LoadsOneSeq
<1>3. ASSUME NEW i \in Fresh, i \in Live
      PROVE  i \in freed
    <2>1. phase = "compute" /\ i \in Run(head) /\ i \in Cells
        BY <1>3 DEF Fresh, Live
    <2>2. i - head + 1 \in 1 .. Len(ub)
        BY <2>1 DEF Run, IndInv, CacheOK, CallOK
    <2>3. seqs[i] = {s}
        BY <1>2, <2>1, <2>2 DEF KeysInv, SlotHoldsUbatch
    <2>4. i \in hit
        <3>1. pos[i] >= 0 /\ pos[i] \in Int
            BY <1>3, <2>1 DEF Live, IndInv, CacheOK
        <3> QED BY <2>1, <2>3, <3>1 DEF InRange
    <2> QED BY <2>1, <2>3, <2>4
<1>4. CacheOK /\ KeysOK /\ DueIsMarked /\ freed \in SUBSET Cells
    BY DEF IndInv, KeysInv
<1> HIDE DEF freed
<1> QED BY <1>1, <1>3, <1>4, ReleaseKeys

LEMMA LoadRowsKeys ==
    ASSUME IndInv, KeysInv, LoadRows
    PROVE  KeysInv'
<1>1. ~ hasShift /\ UNCHANGED <<pos, delta, hasShift>> /\ Return
    BY DEF LoadRows, KeysInv, ShiftedFirst
<1>2. DueIsMarked' /\ KeysOK'
    BY <1>1, WrittenKeys DEF LoadRows, KeysOK
<1> QED BY <1>1, <1>2, IdleKeys DEF KeysInv

\* The cells of the slot stay without rows.
LEMMA LoadEndsKeys ==
    ASSUME IndInv, KeysInv, LoadEnds
    PROVE  KeysInv'
<1>1. /\ UNCHANGED <<pos, delta, hasShift>> /\ Return
      /\ key' = [i \in Cells |-> IF i \in Run(head) THEN LostKey ELSE key[i]]
      /\ Fresh = Run(head)
    BY DEF LoadEnds, Fresh
<1>2. Live' = Live /\ Live \subseteq Cells
    BY <1>1 DEF Live
<1>3. \A i \in Live' : RowFollows(i)'
    BY <1>1, <1>2 DEF KeysInv, KeysOK, RowFollows
<1>4. DueIsMarked'
    BY <1>1 DEF KeysInv, DueIsMarked
<1> QED BY <1>1, <1>3, <1>4, IdleKeys DEF KeysInv, KeysOK

\* The loaded cells have no rotation due, because nothing has.
LEMMA LoadWholeKeys ==
    ASSUME Disciplined, IndInv, KeysInv, NEW b \in Blobs, LoadWhole(b)
    PROVE  KeysInv'
<1>0. b \in Seq(Token) /\ OwnKeys(b) /\ ~ hasShift /\ Return /\ UNCHANGED hasShift
    BY InputAssumption DEF LoadWhole, Disciplined, MayLoad
<1>1. \A i \in Cells : delta[i] = 0 /\ i \in Int
    BY <1>0, SizeAssumption DEF KeysInv, DueIsMarked, Cells
<1>2. UNCHANGED delta /\ \A i \in Live' : RowFollows(i)'
    <2>1. CASE Wipe
        BY <2>1 DEF Wipe, Live
    <2>2. CASE \E rows \in BOOLEAN : Filled(b, rows)
        <3>1. PICK rows \in BOOLEAN : Filled(b, rows)
            BY <2>2
        <3>2. ASSUME NEW i \in Live', key'[i] # LostKey
              PROVE  key'[i] + delta'[i] = pos'[i]
            <4>1. i \in Cells /\ i < Len(b) /\ delta'[i] = 0
                BY <1>1, <3>1 DEF Filled, Live
            <4>2. i + 1 \in 1 .. Len(b) /\ ~ (i >= Len(b))
                BY <1>0, <4>1, SizeAssumption DEF Cells
            <4>3. b[i + 1] \in Token /\ b[i + 1].key = b[i + 1].pos
                BY <1>0, <4>2 DEF OwnKeys
            <4> QED BY <3>1, <3>2, <4>1, <4>2, <4>3 DEF Filled, Token
        <3> QED BY <3>1, <3>2 DEF Filled, RowFollows
    <2>3. CASE EndsAmongCells(b)
        <3>1. PICK k \in 0 .. Len(b) - 1 :
                /\ \E p \in {-1, b[k + 1].pos} :
                      pos' = [i \in Cells |-> IF i < k THEN b[i + 1].pos ELSE IF i = k THEN p ELSE -1]
                /\ key' = [i \in Cells |-> IF i <= k THEN LostKey ELSE NoKey]
                /\ UNCHANGED delta
            BY <2>3 DEF EndsAmongCells
        <3>2. k \in Int
            BY <1>0
        <3>3. \A i \in Live' : i \in Cells /\ i <= k
            BY <1>1, <3>1, <3>2 DEF Live
        <3> QED BY <3>1, <3>3 DEF RowFollows
    <2> QED BY <2>1, <2>2, <2>3 DEF LoadWhole
<1>3. DueIsMarked'
    BY <1>1, <1>2 DEF DueIsMarked
<1> QED BY <1>0, <1>2, <1>3, IdleKeys DEF KeysInv, KeysOK

LEMMA LoadSeqKeys ==
    ASSUME Disciplined, IndInv, KeysInv, NEW b \in Blobs, NEW s \in Seqs, LoadSeq(b, s)
    PROVE  KeysInv'
<1>1. b \in Seq(Token) /\ OwnKeys(b) /\ ~ hasShift /\ UNCHANGED hasShift /\ Fresh = {}
    BY InputAssumption DEF LoadSeq, Disciplined, MayLoad, Idle, Fresh
<1>2. DueIsMarked' /\ (\A i \in Live' : RowFollows(i)')
    BY <1>1, RemoveKeys DEF LoadSeq, IndInv, KeysInv
<1>3. CASE Return
    BY <1>2, <1>3, IdleKeys DEF KeysInv, KeysOK
<1>4. CASE /\ ub' = [j \in 1 .. Len(b) |-> [pos |-> b[j].pos, seqs |-> {s}, key |-> b[j].key]]
           /\ Call("load", "slot")
           /\ UNCHANGED <<rest, nTested, entry>>
    <2>1. Len(ub') = Len(b) /\ phase' = "slot" /\ Fresh' = {}
        BY <1>1, <1>4 DEF Call, Fresh
    <2>2. OwnKeys(ub)' /\ LoadsOneSeq'
        BY <1>1, <1>4, <2>1 DEF OwnKeys, LoadsOneSeq
    <2> QED BY <1>1, <1>2, <1>4, <2>1, <2>2
            DEF KeysInv, KeysOK, ShiftedFirst, SlotHoldsUbatch, AttendedOK, OwnKeys
<1> QED BY <1>3, <1>4 DEF LoadSeq

LEMMA DecodeKeys ==
    ASSUME IndInv, KeysInv, NEW STATE b, OwnKeys(b), Decode(b)
    PROVE  KeysInv'
<1>1. UNCHANGED <<cacheVars, ub>> /\ Idle /\ phase' = "update" /\ op' = "decode" /\ rest' = b
    BY DEF Decode, Usable, Call
<1>2. OwnKeys(ub)' /\ OwnKeys(rest)' /\ LoadsOneSeq'
    BY <1>1 DEF KeysInv, OwnKeys, LoadsOneSeq
<1> QED BY <1>1, <1>2, UpdateKeys

-----------------------------------------------------------------------------
LEMMA KeysStep ==
    ASSUME Disciplined, IndInv, KeysInv, [Next]_vars
    PROVE  KeysInv'
<1>1. CASE Api
    <2>1. CASE \E b \in Batches : Decode(b)
        BY <2>1, DecodeKeys DEF Disciplined
    <2>2. CASE DecodeAuto
        <3>1. PICK p \in -1 .. MaxPos, k \in 1 .. MaxAuto : Decode(AutoBatch(p, k))
            BY <2>2 DEF DecodeAuto
        <3>2. OwnKeys(AutoBatch(p, k))
            BY BoundsAssumption DEF OwnKeys, AutoBatch
        <3> QED BY <3>1, <3>2, DecodeKeys
    <2>3. CASE \E b \in Blobs : LoadWhole(b)
        BY <2>3, LoadWholeKeys
    <2>4. CASE \E b \in Blobs, s \in Seqs : LoadSeq(b, s)
        BY <2>4, LoadSeqKeys
    <2>5. CASE \E s \in Seqs \cup {AnySeq}, p0, p1 \in Bounds : SeqRm(s, p0, p1)
        BY <2>5, SeqRmKeys
    <2>6. CASE \/ \E s \in Seqs : SeqKeep(s)
               \/ \E s \in Seqs, p0, p1 \in Bounds, d \in Deltas : SeqAdd(s, p0, p1, d)
               \/ \E s \in Seqs, p0, p1 \in Bounds : SeqDiv(s, p0, p1, 2)
        BY <2>6, SeqKeepKeys, SeqAddKeys, SeqDivKeys
    <2>7. CASE Clear
        BY <2>7, ClearKeys
    <2>8. CASE Update
        <3>1. OwnKeys(ub)' /\ OwnKeys(rest)' /\ LoadsOneSeq'
            BY <2>8 DEF Update, Call, KeysInv, OwnKeys, LoadsOneSeq
        <3> QED BY <2>8, <3>1, UpdateKeys DEF Update, Usable, Call
    <2>9. CASE Defrag \/ \E s, t \in Seqs, p0, p1 \in Bounds : SeqCp(s, t, p0, p1)
        <3>1. UNCHANGED <<pos, delta, key, hasShift>> /\ Fresh = {} /\ Return
            BY <2>9 DEF Defrag, SeqCp, cellVars, ApiCall, Usable, Idle, Fresh
        <3> QED BY <3>1, SameKeys
    <2> QED BY <1>1, <2>1, <2>2, <2>3, <2>4, <2>5, <2>6, <2>7, <2>8, <2>9 DEF Api, DecodeBatch
<1>2. CASE Step
    <2>1. CASE DecodeRefused \/ SlotNotFound \/ ComputeFails
        BY <2>1, FailKeys DEF DecodeRefused, SlotNotFound, ComputeFails
    <2>2. CASE DecodeDone
        <3>1. UNCHANGED <<pos, delta, key, hasShift>> /\ Fresh = {} /\ Return
            BY <2>2 DEF DecodeDone, cellVars, Fresh
        <3> QED BY <3>1, SameKeys
    <2> QED BY <1>2, <2>1, <2>2, KShiftKeys, DefragmentKeys, SplitKeys, ProbeKeys,
                ProbeFoundKeys, ComputeKeys, LoadRowsKeys, LoadEndsKeys, LoadFailsKeys
                DEF Step
<1>3. CASE UNCHANGED vars
    BY <1>3 DEF vars, cacheVars, callVars, cellVars, KeysInv, DueIsMarked, ShiftedFirst, KeysOK, RowFollows,
        Live, Fresh, Run, SlotHoldsUbatch, AttendedOK, LoadsOneSeq, OwnKeys
<1> QED BY <1>1, <1>2, <1>3 DEF Next

LEMMA KeysInit == Init => KeysInv
BY DEF Init, KeysInv, DueIsMarked, ShiftedFirst, KeysOK, Live, Fresh, SlotHoldsUbatch,
    AttendedOK, LoadsOneSeq, OwnKeys

\* Under the discipline every row is rotated for its token's position once
\* the deltas are applied, and a graph finds no delta left and every token
\* within the range it attends to.
THEOREM KeysAreRight ==
    ASSUME Disciplined
    PROVE  Spec => []KeysFollowPositions
<1>1. Init => KeysInv
    BY KeysInit
<1>2. IndInv /\ KeysInv /\ [Next]_vars => KeysInv'
    BY KeysStep
<1>3. KeysInv => KeysFollowPositions
    <2> SUFFICES ASSUME KeysInv PROVE KeysFollowPositions
        OBVIOUS
    <2>1. phase = "compute" => \A i \in Live : delta[i] = 0
        BY DEF KeysInv, ShiftedFirst, DueIsMarked, Live
    <2> QED BY <2>1 DEF KeysInv, KeysOK, AttendedOK, KeysFollowPositions
<1> QED BY <1>1, <1>2, <1>3, Invariance, PTL DEF Spec
=============================================================================
