-------------------------- MODULE KvDefrag_proofs --------------------------
(***************************************************************************)
(* Proofs about KvDefrag, for every size of the cache, every placement of  *)
(* tokens and every limit.                                                 *)
(*                                                                         *)
(* A plan exists (PlanExists), and IndInv says how far the loops have      *)
(* carried out the one that Plan names.  StateOK has the types; Settled    *)
(* says what the cells and ids are if the holes before F are filled;       *)
(* MovesCounted, that moves is the number of blocks begun there; BackOK    *)
(* and ForwardOK, where the two scans are; CopiesOK, whose rows have been  *)
(* copied.                                                                 *)
(***************************************************************************)
EXTENDS KvDefrag, FiniteSetTheorems, WellFoundedInduction, TLAPS

\* Every nonempty set of numbers has a least element, and if it is bounded, a
\* greatest one.
LEMMA LeastOf ==
    ASSUME NEW S \in SUBSET Nat, S # {}
    PROVE  \E m \in S : \A x \in S : m <= x
<1>1. IsWellFoundedOn(OpToRel(<, Nat), Nat)
    BY NatLessThanWellFounded
<1>2. PICK m \in S : \A y \in S : <<y, m>> \notin OpToRel(<, Nat)
    BY <1>1, WFMin
<1>3. ASSUME NEW x \in S, x < m PROVE FALSE
    <2>1. <<x, m>> \in OpToRel(<, Nat)
        BY <1>3 DEF OpToRel
    <2> QED BY <1>2, <2>1
<1>4. \A x \in S : ~ (x < m)
    BY <1>3
<1> QED BY <1>4

LEMMA GreatestOf ==
    ASSUME NEW b \in Nat, NEW S \in SUBSET (0 .. b), S # {}
    PROVE  \E m \in S : \A x \in S : x <= m
<1> DEFINE D == {d \in Nat : b - d \in S}
<1>1. PICK d \in D : \A y \in D : d <= y
    <2>1. D \in SUBSET Nat
        OBVIOUS
    <2>2. D # {}
        <3>1. PICK x \in S : TRUE
            OBVIOUS
        <3>2. b - x \in D
            BY <3>1
        <3> QED BY <3>2
    <2> HIDE DEF D
    <2> QED BY <2>1, <2>2, LeastOf
<1>2. b - d \in S
    BY <1>1
<1>3. ASSUME NEW x \in S PROVE x <= b - d
    <2>1. b - x \in D
        OBVIOUS
    <2>2. d <= b - x
        BY <1>1, <2>1
    <2> QED BY <2>2
<1> QED BY <1>2, <1>3

-----------------------------------------------------------------------------
\* Plans exist: whatever the holes and the tokens behind them, as many of them
\* as there are holes, there is a plan that fills the holes with these tokens.
\* The last cell of the first hole takes the last token; the rest is a plan.
LEMMA FirstHoleEnds ==
    ASSUME NEW b \in Nat, NEW H \in SUBSET (0 .. b), H # {}
    PROVE  \E e \in H : /\ e + 1 \notin H
                        /\ \A h \in H : h < e => h .. e \subseteq H
<1> DEFINE Ends == {h \in H : h + 1 \notin H}
<1>1. PICK m \in H : \A x \in H : x <= m
    BY GreatestOf
<1>2. m \in Ends
    BY <1>1
<1>3. PICK e \in Ends : \A x \in Ends : e <= x
    <2>1. Ends \subseteq H /\ H \subseteq Nat
        OBVIOUS
    <2> HIDE DEF Ends
    <2> QED BY <1>2, <2>1, LeastOf
<1>4. ASSUME NEW h \in H, h < e PROVE h .. e \subseteq H
    <2> DEFINE Out == {x \in h .. e : x \notin H}
    <2>1. SUFFICES ASSUME Out # {} PROVE FALSE
        OBVIOUS
    <2>2. PICK x \in Out : \A y \in Out : x <= y
        <3>1. Out \in SUBSET Nat
            OBVIOUS
        <3> HIDE DEF Out
        <3> QED BY <2>1, <3>1, LeastOf
    <2>3. x > h /\ x <= e /\ x \notin H
        BY <2>2
    <2>4. x - 1 \in H
        BY <2>2, <2>3
    <2>5. x - 1 \in Ends
        BY <2>3, <2>4
    <2> QED BY <1>3, <2>3, <2>5
<1> QED BY <1>3, <1>4

LEMMA PlanGrows ==
    ASSUME NEW b \in Nat, NEW H \in SUBSET (0 .. b), NEW T \in SUBSET (0 .. b),
           NEW e \in H, e + 1 \notin H, \A h \in H : h < e => h .. e \subseteq H,
           NEW m \in T, \A x \in T : x <= m,
           NEW f \in [H \ {e} -> T \ {m}], IsPlan(H \ {e}, f)
    PROVE  \E g \in [H -> T] : IsPlan(H, g)
<1> DEFINE g == [h \in H |-> IF h = e THEN m ELSE f[h]]
<1>0. \A x \in T : x \in Int /\ (x # m => x < m /\ ~ (m < x))
    <2>1. \A x \in T : x \in Int
        OBVIOUS
    <2> QED BY <2>1
<1>1. g \in [H -> T]
    OBVIOUS
<1>2. ASSUME NEW h \in H, NEW k \in H, h < k
      PROVE  g[h] # g[k] /\ (g[h] < g[k] <=> SameHole(H, h, k))
    <2>1. CASE k = e
        <3>1. f[h] \in T /\ f[h] # m
            BY <1>2, <2>1
        <3>2. SameHole(H, h, k)
            BY <1>2, <2>1 DEF SameHole
        <3>3. f[h] < m
            BY <1>0, <3>1
        <3> QED BY <1>2, <2>1, <3>2, <3>3
    <2>2. CASE h = e
        <3>1. f[k] \in T /\ f[k] # m
            BY <1>2, <2>2
        <3>2. ~ SameHole(H, h, k)
            <4>1. e + 1 \in h .. k
                BY <1>2, <2>2
            <4> QED BY <4>1 DEF SameHole
        <3>3. f[k] < m
            BY <1>0, <3>1
        <3>4. g[h] = m /\ g[k] = f[k]
            BY <1>2, <2>2
        <3>5. f[k] # m /\ ~ (m < f[k])
            BY <1>0, <3>1, <3>3
        <3> QED BY <3>2, <3>4, <3>5
    <2>3. CASE h # e /\ k # e
        <3>1. f[h] # f[k] /\ (f[h] < f[k] <=> SameHole(H \ {e}, h, k))
            BY <1>2, <2>3 DEF IsPlan
        <3>2. SameHole(H, h, k) <=> SameHole(H \ {e}, h, k)
            <4>1. CASE e \in h .. k
                <5>1. e + 1 \in h .. k
                    BY <1>2, <2>3, <4>1
                <5> QED BY <4>1, <5>1 DEF SameHole
            <4>2. CASE e \notin h .. k
                BY <4>2 DEF SameHole
            <4> QED BY <4>1, <4>2
        <3> QED BY <1>2, <2>3, <3>1, <3>2
    <2> QED BY <2>1, <2>2, <2>3
<1> HIDE DEF g
<1> QED BY <1>1, <1>2 DEF IsPlan

LEMMA PlanExists ==
    ASSUME NEW b \in Nat
    PROVE  \A H, T \in SUBSET (0 .. b) :
               Cardinality(H) = Cardinality(T) => \E f \in [H -> T] : IsPlan(H, f)
<1> DEFINE NoPlan(H, T) == /\ Cardinality(H) = Cardinality(T)
                           /\ ~ \E f \in [H -> T] : IsPlan(H, f)
           Bad == {c \in Nat : \E H, T \in SUBSET (0 .. b) : c = Cardinality(H) /\ NoPlan(H, T)}
<1>1. ASSUME NEW S \in SUBSET (0 .. b)
      PROVE  IsFiniteSet(S) /\ Cardinality(S) \in Nat
    <2>1. IsFiniteSet(0 .. b)
        BY FS_Interval
    <2>2. IsFiniteSet(S)
        BY <2>1, FS_Subset
    <2> QED BY <2>2, FS_CardinalityType
<1>2. SUFFICES ASSUME Bad # {} PROVE FALSE
    BY <1>1
<1>3. PICK c \in Bad : \A d \in Bad : c <= d
    <2>1. Bad \in SUBSET Nat
        OBVIOUS
    <2> HIDE DEF Bad
    <2> QED BY <1>2, <2>1, LeastOf
<1>4. PICK H \in SUBSET (0 .. b), T \in SUBSET (0 .. b) : c = Cardinality(H) /\ NoPlan(H, T)
    BY <1>3
<1>5. H # {}
    <2>1. SUFFICES ASSUME H = {} PROVE \E f \in [H -> T] : IsPlan(H, f)
        BY <1>4
    <2>2. [h \in H |-> 0] \in [H -> T]
        BY <2>1
    <2>3. IsPlan(H, [h \in H |-> 0])
        BY <2>1 DEF IsPlan
    <2> QED BY <2>2, <2>3
<1>6. T # {}
    BY <1>1, <1>4, <1>5, FS_EmptySet
<1>7. PICK e \in H : /\ e + 1 \notin H
                     /\ \A h \in H : h < e => h .. e \subseteq H
    BY <1>5, FirstHoleEnds
<1>8. PICK m \in T : \A x \in T : x <= m
    BY <1>6, GreatestOf
<1>9. Cardinality(H \ {e}) = c - 1 /\ Cardinality(T \ {m}) = c - 1
    BY <1>1, <1>4, FS_RemoveElement
<1>10. c - 1 \notin Bad
    BY <1>3
<1>11. ~ NoPlan(H \ {e}, T \ {m})
    <2>1. c - 1 \in Nat
        BY <1>1, <1>9
    <2>2. H \ {e} \in SUBSET (0 .. b) /\ T \ {m} \in SUBSET (0 .. b)
        OBVIOUS
    <2> HIDE DEF NoPlan
    <2> QED BY <1>9, <1>10, <2>1, <2>2
<1>12. PICK f \in [H \ {e} -> T \ {m}] : IsPlan(H \ {e}, f)
    BY <1>9, <1>11
<1>13. \E g \in [H -> T] : IsPlan(H, g)
    BY <1>7, <1>8, <1>12, PlanGrows
<1> QED BY <1>4, <1>13

-----------------------------------------------------------------------------
\* The plan that the loops carry out.
Plan == CHOOSE f \in [Holes -> Tails] : IsPlan(Holes, f)

\* The last token's cell is the one before nKv.
LEMMA LastToken ==
    ASSUME occupied \in SUBSET Cells
    PROVE  /\ nKv \in 0 .. Size
           /\ \A i \in occupied : i < nKv
<1> DEFINE Above == {m \in 0 .. Size : \A i \in occupied : i < m}
           Ends(m) == (m = 0 \/ m - 1 \in occupied) /\ \A i \in occupied : i < m
<1>1. Size \in Above
    BY DefragAssumption DEF Cells
<1>2. PICK m \in Above : \A x \in Above : m <= x
    <2>1. Above \in SUBSET Nat
        BY DefragAssumption
    <2> HIDE DEF Above
    <2> QED BY <1>1, <2>1, LeastOf
<1>3. m = 0 \/ m - 1 \in occupied
    <2>1. SUFFICES ASSUME m # 0 PROVE m - 1 \in occupied
        OBVIOUS
    <2>2. m - 1 \in 0 .. Size /\ m - 1 \notin Above
        BY <1>2, <2>1, DefragAssumption
    <2>3. PICK i \in occupied : ~ (i < m - 1)
        BY <2>2
    <2>4. i < m /\ i \in Int /\ m \in Int
        BY <1>2, <2>3, DefragAssumption DEF Cells
    <2>5. i = m - 1
        BY <2>3, <2>4
    <2> QED BY <2>3, <2>5
<1>4. \E k \in 0 .. Size : Ends(k)
    BY <1>2, <1>3
<1> HIDE DEF Above
<1> QED BY <1>4 DEF nKv

\* There are as many holes as tokens behind the first nUsed cells.
LEMMA AsManyHoles ==
    ASSUME occupied \in SUBSET Cells
    PROVE  /\ nUsed \in Nat /\ nUsed <= nKv
           /\ IsFiniteSet(Holes) /\ IsFiniteSet(Tails)
           /\ Cardinality(Holes) = Cardinality(Tails)
           /\ \A i \in Nat : i < nUsed => i \in Cells
<1> DEFINE Low == 0 .. nUsed - 1
<1>1. nKv \in Nat /\ nKv <= Size /\ Size \in Nat /\ occupied \subseteq 0 .. nKv - 1
    BY LastToken, DefragAssumption DEF Cells
<1>2. IsFiniteSet(0 .. nKv - 1) /\ Cardinality(0 .. nKv - 1) = nKv
    BY <1>1, FS_Interval
<1>3. IsFiniteSet(occupied) /\ nUsed <= nKv
    BY <1>1, <1>2, FS_Subset DEF nUsed
<1>4. nUsed \in Nat
    BY <1>3, FS_CardinalityType DEF nUsed
<1>5. IsFiniteSet(Low) /\ Cardinality(Low) = nUsed
    BY <1>4, FS_Interval
<1>6. Holes = Low \ occupied /\ Tails = occupied \ Low
    <2>1. Low \subseteq Cells
        BY <1>1, <1>3, <1>4 DEF Cells
    <2>2. \A i \in Cells : i \in Low <=> i < nUsed
        BY <1>4, <1>1 DEF Cells
    <2>3. \A i \in occupied : i \in Low <=> ~ (i >= nUsed)
        BY <1>4, <1>1 DEF Cells
    <2> HIDE DEF Low
    <2> QED BY <2>1, <2>2, <2>3 DEF Holes, Tails
<1>7. /\ IsFiniteSet(Low \ occupied)
      /\ Cardinality(Low \ occupied) = Cardinality(Low) - Cardinality(Low \cap occupied)
    BY <1>5, FS_Difference
<1>8. /\ IsFiniteSet(occupied \ Low)
      /\ Cardinality(occupied \ Low) = Cardinality(occupied) - Cardinality(occupied \cap Low)
    BY <1>3, FS_Difference
<1>9. Low \cap occupied = occupied \cap Low
    OBVIOUS
<1>10. Cardinality(Holes) = Cardinality(Tails)
    BY <1>5, <1>6, <1>7, <1>8, <1>9 DEF nUsed
<1>11. \A i \in Nat : i < nUsed => i \in Cells
    BY <1>1, <1>3, <1>4 DEF Cells
<1> QED BY <1>3, <1>4, <1>6, <1>7, <1>8, <1>10, <1>11

\* What the proofs use of the plan: it fills every hole from a token behind the
\* first nUsed cells, uses each of these once, and takes the order of IsPlan.
PlanFacts ==
    /\ nUsed \in Nat /\ nKv \in Nat /\ nUsed <= nKv /\ nKv <= Size /\ Size \in Nat
    /\ \A i \in occupied : i \in Nat /\ i < nKv
    /\ \A h \in Holes : h \in Nat /\ h < nUsed /\ h \notin occupied
    /\ \A h \in Holes : Plan[h] \in occupied /\ Plan[h] \in Nat /\ nUsed <= Plan[h] /\ Plan[h] < nKv
    /\ \A i \in Nat : i < nUsed => i \in Holes \/ i \in occupied
    /\ \A i \in occupied : i >= nUsed => \E h \in Holes : Plan[h] = i
    /\ \A h, g \in Holes : h < g => Plan[h] # Plan[g] /\ (Plan[h] < Plan[g] <=> SameHole(Holes, h, g))

LEMMA PlanIsPlan ==
    ASSUME occupied \in SUBSET Cells
    PROVE  Plan \in [Holes -> Tails] /\ IsPlan(Holes, Plan)
<1>1. Size \in Nat /\ Size - 1 \in Int
    BY DefragAssumption
<1>2. Holes \in SUBSET (0 .. Size) /\ Tails \in SUBSET (0 .. Size)
    <2>1. Cells \subseteq 0 .. Size
        BY <1>1 DEF Cells
    <2> QED BY <2>1 DEF Holes, Tails
<1>3. \E f \in [Holes -> Tails] : IsPlan(Holes, f)
    BY <1>1, <1>2, AsManyHoles, PlanExists
<1> QED BY <1>3 DEF Plan

LEMMA PlanHolds ==
    ASSUME occupied \in SUBSET Cells
    PROVE  PlanFacts
<1>1. Plan \in [Holes -> Tails] /\ IsPlan(Holes, Plan)
    BY PlanIsPlan
<1>2. /\ nUsed \in Nat /\ nUsed <= nKv
      /\ IsFiniteSet(Holes) /\ IsFiniteSet(Tails)
      /\ Cardinality(Holes) = Cardinality(Tails)
      /\ \A i \in Nat : i < nUsed => i \in Cells
    BY AsManyHoles
<1>3. nKv \in Nat /\ nKv <= Size /\ Size \in Nat
    BY LastToken, DefragAssumption
<1>4. \A i \in occupied : i \in Nat /\ i < nKv
    BY LastToken, DefragAssumption DEF Cells
<1>5. \A h \in Holes : h \in Nat /\ h < nUsed /\ h \notin occupied
    BY <1>3 DEF Holes, Cells
<1>6. \A h, g \in Holes : h < g => Plan[h] # Plan[g] /\ (Plan[h] < Plan[g] <=> SameHole(Holes, h, g))
    BY <1>1 DEF IsPlan
<1>7. Plan \in Injection(Holes, Tails)
    <2>1. ASSUME NEW h \in Holes, NEW g \in Holes, h # g PROVE Plan[h] # Plan[g]
        <3>1. h < g \/ g < h
            BY <1>5, <2>1
        <3> QED BY <1>6, <3>1
    <2> QED BY <1>1, <2>1 DEF Injection, IsInjective
<1>8. Plan \in Surjection(Holes, Tails)
    BY <1>2, <1>7, FS_Injection
<1>9. \A t \in Tails : \E h \in Holes : Plan[h] = t
    BY <1>8 DEF Surjection
<1>10. \A i \in occupied : i >= nUsed => \E h \in Holes : Plan[h] = i
    BY <1>9 DEF Tails
<1>11. \A h \in Holes : Plan[h] \in occupied /\ nUsed <= Plan[h]
    BY <1>1 DEF Tails
<1>12. \A i \in Nat : i < nUsed => i \in Holes \/ i \in occupied
    BY <1>2 DEF Holes
<1> QED BY <1>2, <1>3, <1>4, <1>5, <1>6, <1>10, <1>11, <1>12 DEF PlanFacts

-----------------------------------------------------------------------------
\* The cells before Front are dealt with.
Front == IF pc = "forward" THEN Filled ELSE i0

\* The holes before F whose filling begins a move.
Starts(F) == {h \in Holes : h < F /\ StartsMove(Holes, Plan, h)}

StateOK ==
    /\ occupied \in SUBSET Cells
    /\ max \in MaxMoves
    /\ pc \in {"outer", "back", "forward", "copy", "done"}
    /\ cells \in [Cells -> Cells \cup {Free}]
    /\ rows \in [Cells -> Cells \cup {Free}]
    /\ ids \in [0 .. nKv - 1 -> 0 .. nKv]
    /\ i0 \in 0 .. nUsed /\ nh \in 0 .. nUsed /\ nf \in 0 .. nh
    /\ is \in Int /\ i1 \in 0 .. nKv
    /\ cont \in BOOLEAN
    /\ moves \in Nat /\ copies \in Nat

\* The plan is carried out for the holes before F and not begun for the others.
Settled(F) ==
    /\ \A h \in Holes : ids[h] = nKv
    /\ \A h \in Holes : h < F =>
          cells[h] = Plan[h] /\ cells[Plan[h]] = Free /\ ids[Plan[h]] = h
    /\ \A h \in Holes : h >= F =>
          cells[h] = Free /\ cells[Plan[h]] = Plan[h] /\ ids[Plan[h]] = nKv
    /\ \A i \in occupied : i < nUsed =>
          cells[i] = i /\ ids[i] = (IF i < F THEN i ELSE nKv)
    /\ \A i \in Cells : i >= nUsed /\ i \notin occupied =>
          cells[i] = Free /\ (i < nKv => ids[i] = nKv)

MovesCounted(F) == moves = Cardinality(Starts(F)) /\ moves <= max

\* The hole that is being filled, from its first cell to its last.
Run == i0 .. i0 + nh - 1
RunOK ==
    /\ nh > 0 /\ i0 + nh <= nUsed
    /\ Run \subseteq Holes /\ i0 - 1 \notin Holes /\ i0 + nh \notin Holes

OuterOK == pc = "outer" => moves < max /\ (i0 \in Holes => i0 - 1 \notin Holes)

\* The scan from the end has passed the tokens of the last nf cells of the hole.
BackOK ==
    pc = "back" =>
        /\ moves < max /\ RunOK /\ nf < nh
        /\ Plan[i0] <= is /\ is < nKv
        /\ \A g \in Run : Plan[g] > is <=> g >= i0 + nh - nf

\* The scan back is between the token last moved and the one to be moved next;
\* a block is open exactly when it stands right behind the former.
ForwardOK ==
    pc = "forward" =>
        /\ RunOK /\ nf > 0
        /\ Plan[i0] <= i1 /\ i1 <= Plan[Filled]
        /\ IF cont THEN Filled > i0 /\ Plan[Filled - 1] = i1 - 1
           ELSE moves < max /\ (Filled > i0 => Plan[Filled - 1] < i1 - 1)

PrepareOK ==
    pc \notin {"copy", "done"} =>
        /\ \E F \in 0 .. nUsed : F = Front /\ Settled(F) /\ MovesCounted(F)
        /\ copies = 0
        /\ rows = [i \in Cells |-> IF i \in occupied THEN i ELSE Free]

\* The rows of the tokens that have been passed are in their new cells, those
\* of all others still in their old ones; the copy loop stands where a block
\* begins.
CopiesOK(F) ==
    /\ \A i \in occupied : rows[i] = i
    /\ \A h \in Holes : h < F /\ Plan[h] < i1 => rows[h] = Plan[h]
    /\ \A h \in Holes : h < F /\ Plan[h] = i1 => h \in Starts(F)
    /\ copies <= Cardinality({h \in Starts(F) : Plan[h] < i1})
    /\ pc = "done" => i1 = nKv

CopyOK ==
    pc \in {"copy", "done"} =>
        \E F \in 0 .. nUsed : /\ Settled(F) /\ MovesCounted(F) /\ CopiesOK(F)
                              /\ Moved(Holes, Plan, max) = {h \in Holes : h < F}

IndInv == StateOK /\ OuterOK /\ BackOK /\ ForwardOK /\ PrepareOK /\ CopyOK

-----------------------------------------------------------------------------
(* What does not change, and what the invariant says of single cells.      *)

LEMMA Rigid ==
    ASSUME UNCHANGED occupied
    PROVE  nUsed' = nUsed /\ nKv' = nKv /\ Holes' = Holes /\ Tails' = Tails /\ Plan' = Plan
<1>1. nUsed' = nUsed /\ nKv' = nKv
    BY DEF nUsed, nKv
<1>2. Holes' = Holes /\ Tails' = Tails
    BY <1>1 DEF Holes, Tails
<1> QED BY <1>1, <1>2 DEF Plan

LEMMA StartsRigid ==
    ASSUME UNCHANGED occupied
    PROVE  \A F : Starts(F)' = Starts(F)
BY Rigid DEF Starts

LEMMA Numbers ==
    ASSUME StateOK
    PROVE  /\ PlanFacts
           /\ nUsed \in Nat /\ nKv \in Nat /\ nUsed <= nKv /\ nKv <= Size /\ Size \in Nat
           /\ i0 \in Nat /\ i0 <= nUsed /\ nh \in Nat /\ nh <= nUsed /\ nf \in Nat /\ nf <= nh
           /\ is \in Int /\ i1 \in Nat /\ i1 <= nKv
           /\ moves \in Nat /\ copies \in Nat /\ max \in Nat /\ max > 0
<1>1. PlanFacts
    BY PlanHolds DEF StateOK
<1>2. nUsed \in Nat /\ nKv \in Nat /\ nUsed <= nKv /\ nKv <= Size /\ Size \in Nat
    BY <1>1 DEF PlanFacts
<1>3. max \in Nat /\ max > 0
    BY DefragAssumption DEF StateOK
<1> QED BY <1>1, <1>2, <1>3 DEF StateOK

LEMMA Indices ==
    ASSUME PlanFacts
    PROVE  /\ \A i \in Cells : i \in Nat /\ (i < nKv => i \in 0 .. nKv - 1)
           /\ \A h \in Holes : h \in Cells /\ h \in 0 .. nKv - 1
                               /\ Plan[h] \in Cells /\ Plan[h] \in 0 .. nKv - 1
           /\ \A i \in occupied : i \in Cells /\ i \in 0 .. nKv - 1
<1>1. Size \in Nat /\ nUsed \in Nat /\ nKv \in Nat /\ nUsed <= nKv /\ nKv <= Size
    BY DEF PlanFacts
<1>2. \A i \in 0 .. nKv - 1 : i \in Cells
    BY <1>1 DEF Cells
<1>3. \A i \in Cells : i \in Nat /\ (i < nKv => i \in 0 .. nKv - 1)
    BY <1>1 DEF Cells
<1>4. \A h \in Holes : h \in 0 .. nKv - 1 /\ Plan[h] \in 0 .. nKv - 1
    BY <1>1 DEF PlanFacts
<1>5. \A i \in occupied : i \in 0 .. nKv - 1
    BY <1>1 DEF PlanFacts
<1> QED BY <1>2, <1>3, <1>4, <1>5

\* Before the copies, a cell that holds a token to be moved is one that the
\* plan takes for a hole not yet filled, and the scans skip all others.
LEMMA ToBeMoved ==
    ASSUME StateOK, PlanFacts, NEW F \in 0 .. nUsed, Settled(F),
           NEW c \in Nat, nUsed <= c, c < nKv
    PROVE  /\ ~ Skipped(c) => \E h \in Holes : h >= F /\ Plan[h] = c /\ cells[c] = c
           /\ Skipped(c) => \A h \in Holes : h >= F => Plan[h] # c
<1>0. c \in Cells /\ Free = -1 /\ nKv \in Nat
    BY DEF PlanFacts, Cells, Free
<1>1. ASSUME ~ Skipped(c) PROVE \E h \in Holes : h >= F /\ Plan[h] = c /\ cells[c] = c
    <2>1. cells[c] # Free /\ ids[c] = nKv
        BY <1>1 DEF Skipped
    <2>2. c \in occupied
        BY <1>0, <2>1 DEF Settled
    <2>3. PICK h \in Holes : Plan[h] = c
        BY <2>2 DEF PlanFacts
    <2>4. h >= F
        BY <2>1, <2>3 DEF Settled, PlanFacts
    <2> QED BY <2>3, <2>4 DEF Settled
<1>2. ASSUME Skipped(c), NEW h \in Holes, h >= F PROVE Plan[h] # c
    <2>1. SUFFICES ASSUME Plan[h] = c PROVE FALSE
        OBVIOUS
    <2>2. cells[c] = c /\ ids[c] = nKv
        BY <1>2, <2>1 DEF Settled
    <2> QED BY <1>0, <1>2, <2>2 DEF Skipped
<1> QED BY <1>1, <1>2

\* Within the hole the tokens ascend; those of later holes lie before them.
LEMMA RunAscends ==
    ASSUME StateOK, PlanFacts, RunOK
    PROVE  /\ i0 \in Run /\ i0 \in Holes
           /\ \A g \in Run : g \in Holes /\ g \in Int /\ Plan[g] \in Nat
           /\ \A g, k \in Run : g < k => Plan[g] < Plan[k]
           /\ \A h \in Holes : h >= i0 /\ h \notin Run => Plan[h] < Plan[i0]
<1>1. i0 \in Nat /\ nh \in Nat /\ nh > 0 /\ i0 \in Run
    BY DEF StateOK, RunOK, PlanFacts, Run
<1>2. \A g \in Run : g \in Holes /\ g \in Int /\ Plan[g] \in Nat
    BY DEF RunOK, PlanFacts
<1>3. ASSUME NEW g \in Run, NEW k \in Run, g < k PROVE Plan[g] < Plan[k]
    <2>1. g .. k \subseteq Run
        BY <1>1 DEF Run
    <2>2. SameHole(Holes, g, k)
        BY <2>1 DEF RunOK, SameHole
    <2> QED BY <1>2, <1>3, <2>2 DEF PlanFacts
<1>4. ASSUME NEW h \in Holes, h >= i0, h \notin Run PROVE Plan[h] < Plan[i0]
    <2>1. h \in Nat /\ h >= i0 + nh
        BY <1>1, <1>4 DEF Run, PlanFacts
    <2>2. i0 + nh \in i0 .. h /\ i0 < h
        BY <1>1, <2>1
    <2>3. ~ SameHole(Holes, i0, h)
        BY <2>2 DEF SameHole, RunOK
    <2>4. i0 \in Holes
        BY <1>1, <1>2
    <2>5. Plan[i0] # Plan[h] /\ ~ (Plan[i0] < Plan[h]) /\ Plan[i0] \in Nat /\ Plan[h] \in Nat
        BY <2>2, <2>3, <2>4 DEF PlanFacts
    <2> QED BY <2>5
<1> QED BY <1>1, <1>2, <1>3, <1>4

-----------------------------------------------------------------------------
(* Counting the moves.                                                     *)

LEMMA StartsFinite ==
    ASSUME occupied \in SUBSET Cells, NEW F
    PROVE  /\ IsFiniteSet(Starts(F)) /\ Cardinality(Starts(F)) \in Nat
           /\ Cardinality(Starts(F)) <= Size
<1>1. IsFiniteSet(Cells) /\ Cardinality(Cells) = Size
    BY DefragAssumption, FS_Interval DEF Cells
<1>2. Starts(F) \in SUBSET Cells
    BY DEF Starts, Holes
<1> QED BY <1>1, <1>2, FS_Subset, FS_CardinalityType

LEMMA StartsGrow ==
    ASSUME occupied \in SUBSET Cells, PlanFacts, NEW F \in Nat
    PROVE  /\ F \notin Holes => Starts(F + 1) = Starts(F)
           /\ F \in Holes /\ StartsMove(Holes, Plan, F)
                => Cardinality(Starts(F + 1)) = Cardinality(Starts(F)) + 1
           /\ F \in Holes /\ ~ StartsMove(Holes, Plan, F) => Starts(F + 1) = Starts(F)
<1>1. \A h \in Holes : h \in Nat /\ (h < F + 1 <=> h < F \/ h = F)
    BY DEF PlanFacts
<1>2. F \notin Starts(F)
    BY DEF Starts
<1>3. ASSUME F \in Holes, StartsMove(Holes, Plan, F)
      PROVE  Cardinality(Starts(F + 1)) = Cardinality(Starts(F)) + 1
    <2>1. Starts(F + 1) = Starts(F) \cup {F}
        BY <1>1, <1>3 DEF Starts
    <2> QED BY <1>2, <2>1, StartsFinite, FS_AddElement
<1> QED BY <1>1, <1>3 DEF Starts

\* Behind a hole's start, or where a block ends, every hole has a start of a
\* move before it.
LEMMA NextStart ==
    ASSUME PlanFacts, NEW F \in Nat, F \in Holes => StartsMove(Holes, Plan, F),
           NEW h \in Holes, h >= F
    PROVE  \E g \in Holes : F <= g /\ g <= h /\ StartsMove(Holes, Plan, g)
<1> DEFINE Level == {x \in F .. h : x .. h \subseteq Holes}
<1>0. h \in Nat
    BY DEF PlanFacts
<1>1. h \in Level
    BY <1>0
<1>2. PICK x \in Level : \A y \in Level : x <= y
    <2>1. Level \in SUBSET Nat
        BY <1>0
    <2> HIDE DEF Level
    <2> QED BY <1>1, <2>1, LeastOf
<1>3. x \in Holes /\ x \in Nat /\ F <= x /\ x <= h
    BY <1>0, <1>2
<1>4. CASE x = F
    BY <1>3, <1>4
<1>5. CASE x > F
    <2>1. x - 1 \notin Level
        BY <1>2, <1>3
    <2>2. x - 1 \notin Holes
        <3>1. SUFFICES ASSUME x - 1 \in Holes PROVE FALSE
            OBVIOUS
        <3>2. (x - 1) .. h = {x - 1} \cup x .. h
            BY <1>0, <1>3
        <3>3. (x - 1) .. h \subseteq Holes
            BY <1>2, <3>1, <3>2
        <3> QED BY <1>0, <1>3, <1>5, <2>1, <3>3
    <2>3. StartsMove(Holes, Plan, x)
        BY <2>2 DEF StartsMove
    <2> QED BY <1>3, <2>3
<1> QED BY <1>3, <1>4, <1>5

\* What has been filled is what the plan moves within the limit, if either no
\* hole is left or the limit is used up and the next hole starts a move.
LEMMA MovedSoFar ==
    ASSUME occupied \in SUBSET Cells, PlanFacts, NEW F \in Nat, max \in Nat,
           Cardinality(Starts(F)) <= max,
           \A h \in Holes : h >= F => Cardinality(Starts(F)) = max,
           F \in Holes => StartsMove(Holes, Plan, F)
    PROVE  Moved(Holes, Plan, max) = {h \in Holes : h < F}
<1>1. ASSUME NEW h \in Holes
      PROVE  {g \in Holes : g <= h /\ StartsMove(Holes, Plan, g)} = Starts(h + 1)
    BY DEF Starts, PlanFacts
<1>2. ASSUME NEW h \in Holes, h < F PROVE Cardinality(Starts(h + 1)) <= max
    <2>1. Starts(h + 1) \subseteq Starts(F)
        BY <1>2 DEF Starts, PlanFacts
    <2>2. Cardinality(Starts(h + 1)) <= Cardinality(Starts(F))
        BY <2>1, StartsFinite, FS_Subset
    <2> QED BY <2>2, StartsFinite
<1>3. ASSUME NEW h \in Holes, h >= F PROVE ~ (Cardinality(Starts(h + 1)) <= max)
    <2>1. PICK g \in Holes : F <= g /\ g <= h /\ StartsMove(Holes, Plan, g)
        BY <1>3, NextStart
    <2>2. g \notin Starts(F) /\ Starts(F) \cup {g} \subseteq Starts(h + 1)
        BY <1>3, <2>1 DEF Starts, PlanFacts
    <2>3. Cardinality(Starts(F) \cup {g}) = max + 1
        BY <1>3, <2>2, StartsFinite, FS_AddElement
    <2>4. Cardinality(Starts(F) \cup {g}) <= Cardinality(Starts(h + 1))
        BY <2>2, StartsFinite, FS_Subset
    <2> QED BY <2>3, <2>4, StartsFinite
<1>4. \A h \in Holes : h \in Nat /\ (h < F \/ h >= F)
    BY DEF PlanFacts
<1>5. \A h \in Holes : h < F <=> Cardinality(Starts(h + 1)) <= max
    BY <1>2, <1>3, <1>4
<1> QED BY <1>1, <1>5 DEF Moved

-----------------------------------------------------------------------------
(* defrag_prepare().                                                       *)

LEMMA InitOK ==
    ASSUME Init
    PROVE  IndInv
<1>1. occupied \in SUBSET Cells /\ PlanFacts /\ max \in MaxMoves /\ max \in Nat /\ max > 0
    BY PlanHolds, DefragAssumption DEF Init
<1>2. nUsed \in Nat /\ nKv \in Nat /\ nKv <= Size
    BY <1>1 DEF PlanFacts
<1>3. StateOK
    <2>1. cells \in [Cells -> Cells \cup {Free}] /\ rows = cells
        BY DEF Init
    <2>2. nKv \in 0 .. nKv /\ 0 \in 0 .. nUsed /\ 0 \in 0 .. 0 /\ 0 \in 0 .. nKv /\ 0 \in Int /\ 0 \in Nat
        BY <1>2
    <2>3. ids \in [0 .. nKv - 1 -> 0 .. nKv]
        BY <2>2 DEF Init
    <2> QED BY <1>1, <2>1, <2>2, <2>3 DEF Init, StateOK
<1>4. Starts(0) = {} /\ Cardinality(Starts(0)) = 0
    BY <1>1, FS_EmptySet DEF Starts, PlanFacts
<1>5. OuterOK
    BY <1>1 DEF Init, OuterOK, PlanFacts
<1>6. Settled(0)
    <2>1. \A h \in Holes : h \in Cells /\ h < nKv /\ h \notin occupied /\ ~ (h < 0)
        BY <1>1 DEF PlanFacts, Holes
    <2>2. \A i \in Cells : i < nKv => ids[i] = nKv
        BY <1>1 DEF Init, PlanFacts, Cells
    <2>3. \A i \in occupied : cells[i] = i /\ ids[i] = nKv /\ ~ (i < 0)
        BY <1>1, <2>2 DEF Init, PlanFacts
    <2>4. \A i \in Cells : i \notin occupied => cells[i] = Free
        BY DEF Init
    <2>5. \A h \in Holes : Plan[h] \in occupied
        BY <1>1 DEF PlanFacts
    <2> QED BY <2>1, <2>2, <2>3, <2>4, <2>5 DEF Settled
<1>7. MovesCounted(0)
    BY <1>1, <1>4 DEF MovesCounted, Init
<1>8. PrepareOK
    BY <1>2, <1>6, <1>7 DEF Init, PrepareOK, Front
<1> QED BY <1>3, <1>5, <1>8 DEF IndInv, Init, BackOK, ForwardOK, CopyOK

\* Before the copies, the rows are where they were.
RowsUntouched == copies = 0 /\ rows = [i \in Cells |-> IF i \in occupied THEN i ELSE Free]

LEMMA KeepOK ==
    ASSUME IndInv, Keep
    PROVE  IndInv'
<1>1. /\ StateOK /\ PlanFacts /\ moves < max /\ RowsUntouched
      /\ \E F \in 0 .. nUsed : F = i0 /\ Settled(F) /\ MovesCounted(F)
    BY Numbers DEF IndInv, Keep, PrepareOK, Front, OuterOK, RowsUntouched
<1>2. PICK F \in 0 .. nUsed : F = i0 /\ Settled(F) /\ MovesCounted(F)
    BY <1>1
<1>3. nUsed' = nUsed /\ nKv' = nKv /\ Holes' = Holes /\ Plan' = Plan /\ Starts(F + 1)' = Starts(F + 1)
    BY Rigid, StartsRigid DEF Keep
<1>4. F \in Nat /\ F < nUsed /\ F \notin Holes /\ F \in occupied /\ nUsed \in Nat /\ nUsed <= nKv /\ nKv \in Nat
    <2>1. F \in Nat /\ F < nUsed /\ nUsed \in Nat /\ nUsed <= nKv /\ nKv \in Nat
        BY <1>1, <1>2, Numbers DEF Keep
    <2>2. F \notin Holes
        BY <1>2, <2>1 DEF Keep, Settled
    <2> QED BY <1>1, <2>1, <2>2 DEF PlanFacts
<1>5. /\ ids' = [ids EXCEPT ![F] = F] /\ i0' = F + 1 /\ F + 1 \in 0 .. nUsed
      /\ ids'[F] = F /\ \A i \in 0 .. nKv - 1 : i # F => ids'[i] = ids[i]
    BY <1>1, <1>2, <1>4 DEF Keep, StateOK
<1>6. StateOK'
    <2>1. ids' \in [0 .. nKv - 1 -> 0 .. nKv]
        BY <1>1, <1>4, <1>5 DEF StateOK
    <2> QED BY <1>1, <1>3, <1>5, <2>1 DEF Keep, StateOK
<1>7. Settled(F + 1)'
    <2>1. \A h \in Holes : h # F /\ Plan[h] # F /\ (h < F + 1 <=> h < F) /\ (h >= F + 1 <=> h >= F)
        BY <1>1, <1>4 DEF PlanFacts
    <2>2. \A i \in occupied : i # F => (i < F + 1 <=> i < F)
        BY <1>1, <1>4 DEF PlanFacts
    <2>3. \A i \in Cells : i >= nUsed => i # F
        BY <1>4
    <2>4. UNCHANGED <<cells, occupied>> /\ F < F + 1
        BY <1>4 DEF Keep
    <2> QED BY <1>2, <1>3, <1>4, <1>5, <2>1, <2>2, <2>3, <2>4 DEF Settled
<1>8. MovesCounted(F + 1)'
    <2>1. Starts(F + 1) = Starts(F)
        BY <1>1, <1>2, <1>4, StartsGrow DEF StateOK
    <2> QED BY <1>2, <1>3, <2>1 DEF MovesCounted, Keep
<1>9. PrepareOK'
    BY <1>1, <1>3, <1>5, <1>7, <1>8 DEF PrepareOK, Front, Keep, RowsUntouched
<1>10. OuterOK'
    BY <1>1, <1>3, <1>4, <1>5 DEF OuterOK, Keep
<1> QED BY <1>6, <1>9, <1>10 DEF IndInv, Keep, BackOK, ForwardOK, CopyOK

LEMMA HoleOK ==
    ASSUME IndInv, Hole
    PROVE  IndInv'
<1>1. /\ StateOK /\ PlanFacts /\ moves < max /\ RowsUntouched
      /\ \E F \in 0 .. nUsed : F = i0 /\ Settled(F) /\ MovesCounted(F)
      /\ (i0 \in Holes => i0 - 1 \notin Holes)
    BY Numbers DEF IndInv, Hole, PrepareOK, Front, OuterOK, RowsUntouched
<1>2. PICK F \in 0 .. nUsed : F = i0 /\ Settled(F) /\ MovesCounted(F)
    BY <1>1
<1>3. nUsed' = nUsed /\ nKv' = nKv /\ Holes' = Holes /\ Plan' = Plan /\ Starts(F)' = Starts(F)
    BY Rigid, StartsRigid DEF Hole
<1>4. PICK m \in 1 .. nUsed - F : nh' = m
    BY <1>2 DEF Hole
<1>5. /\ F \in Nat /\ m \in Nat /\ m > 0 /\ F + m <= nUsed /\ nUsed \in Nat /\ nKv \in Nat
      /\ nUsed <= nKv /\ nKv <= Size /\ Size \in Nat
    BY <1>1, <1>2, <1>4, Numbers
<1>6. i0' = F /\ is' = nKv - 1 /\ nf' = 0 /\ pc' = "back" /\ UNCHANGED <<moves, max>>
    BY <1>2 DEF Hole
<1>7. \A i \in F .. F + m - 1 : i \in Holes
    <2>1. \A i \in F .. F + m - 1 : i \in Nat /\ i < nUsed /\ cells[i] = Free
        BY <1>2, <1>4, <1>5 DEF Hole
    <2>2. \A i \in occupied : i < nUsed => cells[i] # Free
        BY <1>1, <1>2 DEF Settled, Free, PlanFacts
    <2> QED BY <1>1, <2>1, <2>2 DEF PlanFacts
<1>8. F + m \notin Holes
    <2>1. F + m = nUsed \/ cells[F + m] # Free
        BY <1>2, <1>4 DEF Hole
    <2>2. F + m >= F
        BY <1>5
    <2>3. nUsed \notin Holes
        BY <1>1 DEF PlanFacts
    <2> QED BY <1>2, <2>1, <2>2, <2>3 DEF Settled
<1>9. F \in Holes
    BY <1>5, <1>7
<1>10. RunOK'
    BY <1>1, <1>2, <1>3, <1>4, <1>5, <1>6, <1>7, <1>8, <1>9 DEF RunOK, Run
<1>11. BackOK'
    <2>1. Plan[F] <= nKv - 1 /\ nKv - 1 < nKv
        BY <1>1, <1>9 DEF PlanFacts
    <2>2. \A g \in F .. F + m - 1 : ~ (Plan[g] > nKv - 1) /\ ~ (g >= F + m - 0)
        BY <1>1, <1>5, <1>7 DEF PlanFacts
    <2> QED BY <1>1, <1>3, <1>4, <1>5, <1>6, <1>10, <2>1, <2>2 DEF BackOK, Run
<1>12. StateOK'
    BY <1>1, <1>3, <1>4, <1>5, <1>6 DEF Hole, StateOK
<1>13. PrepareOK'
    <2>1. Settled(F)' /\ MovesCounted(F)'
        BY <1>2, <1>3 DEF Settled, MovesCounted, Hole
    <2> QED BY <1>1, <1>3, <1>6, <2>1 DEF PrepareOK, Front, Hole, RowsUntouched
<1> QED BY <1>6, <1>11, <1>12, <1>13 DEF IndInv, OuterOK, ForwardOK, CopyOK

LEMMA BackStepOK ==
    ASSUME IndInv, Back
    PROVE  IndInv'
<1>1. /\ StateOK /\ PlanFacts /\ RowsUntouched /\ RunOK
      /\ \E F \in 0 .. nUsed : F = i0 /\ Settled(F) /\ MovesCounted(F)
      /\ moves < max /\ nf < nh /\ Plan[i0] <= is /\ is < nKv
      /\ \A g \in Run : Plan[g] > is <=> g >= i0 + nh - nf
    BY Numbers DEF IndInv, Back, PrepareOK, Front, BackOK, RowsUntouched
<1>2. PICK F \in 0 .. nUsed : F = i0 /\ Settled(F) /\ MovesCounted(F)
    BY <1>1
<1>3. nUsed' = nUsed /\ nKv' = nKv /\ Holes' = Holes /\ Plan' = Plan /\ Starts(F)' = Starts(F)
    BY Rigid, StartsRigid DEF Back
<1>4. /\ i0 \in Nat /\ nh \in Nat /\ nf \in Nat /\ is \in Int /\ nKv \in Nat /\ nUsed \in Nat
      /\ nUsed <= nKv
    BY <1>1, Numbers
<1>5. /\ i0 \in Run /\ i0 \in Holes
      /\ \A g \in Run : g \in Holes /\ g \in Int /\ Plan[g] \in Nat
      /\ \A g, k \in Run : g < k => Plan[g] < Plan[k]
      /\ \A h \in Holes : h >= i0 /\ h \notin Run => Plan[h] < Plan[i0]
    BY <1>1, RunAscends
<1>6. is \in Nat /\ nUsed <= is /\ Plan[i0] \in Nat
    BY <1>1, <1>4, <1>5 DEF PlanFacts
<1>7. RunOK' /\ Run' = Run
    BY <1>1, <1>3 DEF RunOK, Run, Back
<1>8. PrepareOK'
    <2>1. Settled(F)' /\ MovesCounted(F)'
        BY <1>2, <1>3 DEF Settled, MovesCounted, Back
    <2>2. pc' \in {"back", "forward"} /\ (pc' = "forward" => nf' = nh)
        BY DEF Back
    <2>3. Front' = F
        BY <1>2, <1>4, <2>2 DEF Front, Filled, Back
    <2> QED BY <1>1, <1>2, <1>3, <2>1, <2>3 DEF PrepareOK, Back, RowsUntouched
\* The scan passes a cell: it is not the token of a cell of the hole.
<1>9. CASE Skipped(is)
    <2>1. \A h \in Holes : h >= i0 => Plan[h] # is
        BY <1>1, <1>2, <1>6, <1>9, ToBeMoved
    <2>2. Plan[i0] <= is - 1
        BY <1>4, <1>5, <1>6, <1>1, <2>1
    <2>3. ASSUME NEW g \in Run PROVE Plan[g] > is - 1 <=> g >= i0 + nh - nf
        <3>1. Plan[g] # is /\ Plan[g] \in Nat /\ (Plan[g] > is <=> g >= i0 + nh - nf)
            BY <1>1, <1>5, <2>1, <2>3 DEF Run
        <3> QED BY <1>6, <3>1
    <2>4. nf' = nf /\ is' = is - 1 /\ UNCHANGED <<pc, i1, cont, moves, max, i0, nh>>
        BY <1>1, <1>4, <1>9 DEF Back
    <2>5. BackOK'
        BY <1>1, <1>3, <1>4, <1>7, <2>2, <2>3, <2>4 DEF BackOK
    <2>6. StateOK'
        BY <1>1, <1>3, <1>4, <2>4 DEF StateOK, Back
    <2> QED BY <1>8, <2>4, <2>5, <2>6 DEF Back, IndInv, OuterOK, ForwardOK, CopyOK
\* It finds the token of the last cell of the hole that had none.
<1>10. CASE ~ Skipped(is)
    <2> DEFINE k == i0 + nh - nf - 1
    <2>1. PICK h \in Holes : h >= i0 /\ Plan[h] = is
        BY <1>1, <1>2, <1>6, <1>10, ToBeMoved
    <2>2. h \in Run /\ h \in Int
        BY <1>1, <1>5, <1>6, <2>1
    <2>3. k \in Run /\ k \in Int /\ i0 <= k
        BY <1>1, <1>4 DEF Run
    <2>4. h = k
        <3>1. ~ (h >= i0 + nh - nf)
            BY <1>1, <1>6, <2>1, <2>2
        <3>2. h <= k
            BY <1>4, <2>2, <3>1
        <3>3. ASSUME h < k PROVE FALSE
            <4>1. Plan[k] > is
                BY <1>5, <2>1, <2>2, <2>3, <3>3
            <4>2. k >= i0 + nh - nf
                BY <1>1, <2>3, <4>1
            <4> QED BY <1>4, <4>2
        <3> QED BY <2>2, <2>3, <3>2, <3>3
    <2>5. nf' = nf + 1
        BY <1>10 DEF Back
    <2>6. CASE nf + 1 = nh
        <3>1. pc' = "forward" /\ i1' = is /\ cont' = FALSE /\ UNCHANGED <<is, i0, nh, moves, max>>
            BY <2>5, <2>6 DEF Back
        <3>2. k = i0 /\ Plan[i0] = is
            BY <1>4, <2>1, <2>4, <2>6
        <3>3. Filled' = i0
            BY <1>4, <2>5, <2>6, <3>1 DEF Filled
        <3>4. ForwardOK'
            <4>1. nf' > 0 /\ Plan'[i0'] <= i1' /\ i1' <= Plan'[Filled']
                BY <1>3, <1>4, <1>6, <2>5, <3>1, <3>2, <3>3
            <4>2. ~ cont' /\ moves' < max' /\ ~ (Filled' > i0')
                BY <1>1, <1>4, <3>1, <3>3
            <4> QED BY <1>7, <4>1, <4>2 DEF ForwardOK
        <3>5. StateOK'
            <4>1. i1' \in 0 .. nKv /\ nf' \in 0 .. nh
                BY <1>1, <1>4, <1>6, <2>5, <2>6, <3>1
            <4>2. cont' \in BOOLEAN
                BY <3>1
            <4> QED BY <1>1, <1>3, <3>1, <4>1, <4>2 DEF StateOK, Back
        <3> QED BY <1>8, <3>1, <3>4, <3>5 DEF IndInv, OuterOK, BackOK, CopyOK
    <2>7. CASE nf + 1 # nh
        <3>1. is' = is - 1 /\ UNCHANGED <<pc, i1, cont, moves, max, i0, nh>>
            BY <2>5, <2>7 DEF Back
        <3>2. nf + 1 < nh /\ i0 < k
            BY <1>1, <1>4, <2>7
        <3>3. Plan[i0] <= is - 1
            <4>1. Plan[i0] < Plan[k]
                BY <1>5, <2>3, <3>2
            <4> QED BY <1>6, <2>1, <2>4, <4>1
        <3>4. ASSUME NEW g \in Run PROVE Plan[g] > is - 1 <=> g >= i0 + nh - (nf + 1)
            <4>1. /\ g \in Int /\ Plan[g] \in Nat /\ Plan[k] = is
                  /\ g < k => Plan[g] < Plan[k]
                  /\ k < g => Plan[k] < Plan[g]
                BY <1>5, <2>1, <2>3, <2>4
            <4>2. i0 + nh - (nf + 1) = k
                BY <1>4
            <4> HIDE DEF k
            <4>3. CASE g < k
                BY <1>6, <2>3, <4>1, <4>2, <4>3
            <4>4. CASE g = k
                BY <1>6, <2>3, <4>1, <4>2, <4>4
            <4>5. CASE k < g
                BY <1>6, <2>3, <4>1, <4>2, <4>5
            <4> QED BY <2>3, <4>1, <4>3, <4>4, <4>5
        <3>5. BackOK'
            BY <1>1, <1>3, <1>4, <1>7, <2>5, <3>1, <3>2, <3>3, <3>4 DEF BackOK
        <3>6. StateOK'
            BY <1>1, <1>3, <1>4, <2>5, <3>1, <3>2 DEF StateOK, Back
        <3> QED BY <1>8, <3>1, <3>5, <3>6 DEF Back, IndInv, OuterOK, ForwardOK, CopyOK
    <2> QED BY <2>6, <2>7
<1> QED BY <1>9, <1>10

\* What holds where the scan back starts an iteration.
LEMMA ForwardFacts ==
    ASSUME IndInv, pc = "forward"
    PROVE  /\ StateOK /\ PlanFacts /\ RowsUntouched /\ RunOK
           /\ \E F \in 0 .. nUsed : F = Filled /\ Settled(F) /\ MovesCounted(F)
           /\ nf > 0 /\ Filled \in Run /\ Filled \in Holes /\ Filled \in Nat
           /\ i1 < nKv /\ nUsed <= i1 /\ i1 \in Nat
           /\ Plan[i0] <= i1 /\ i1 <= Plan[Filled]
           /\ ~ Skipped(i1) => i1 = Plan[Filled] /\ cells[i1] = i1
           /\ Skipped(i1) => i1 < Plan[Filled]
<1>1. /\ StateOK /\ PlanFacts /\ RowsUntouched /\ RunOK
      /\ \E F \in 0 .. nUsed : F = Filled /\ Settled(F) /\ MovesCounted(F)
      /\ nf > 0 /\ Plan[i0] <= i1 /\ i1 <= Plan[Filled]
    BY Numbers DEF IndInv, PrepareOK, Front, ForwardOK, RowsUntouched
<1>2. PICK F \in 0 .. nUsed : F = Filled /\ Settled(F) /\ MovesCounted(F)
    BY <1>1
<1>3. /\ i0 \in Nat /\ nh \in Nat /\ nf \in Nat /\ i1 \in Nat /\ nf <= nh /\ nKv \in Nat
      /\ nUsed \in Nat /\ nUsed <= nKv
    BY <1>1, Numbers
<1>4. /\ i0 \in Run /\ i0 \in Holes
      /\ \A g \in Run : g \in Holes /\ g \in Int /\ Plan[g] \in Nat
      /\ \A g, k \in Run : g < k => Plan[g] < Plan[k]
      /\ \A h \in Holes : h >= i0 /\ h \notin Run => Plan[h] < Plan[i0]
    BY <1>1, RunAscends
<1>5. Filled \in Run /\ Filled \in Nat /\ Filled >= i0
    BY <1>1, <1>3 DEF Run, Filled
<1>6. nUsed <= i1 /\ i1 < nKv
    BY <1>1, <1>3, <1>4, <1>5 DEF PlanFacts
<1>7. ASSUME ~ Skipped(i1) PROVE i1 = Plan[Filled] /\ cells[i1] = i1
    <2>1. PICK h \in Holes : h >= Filled /\ Plan[h] = i1 /\ cells[i1] = i1
        BY <1>1, <1>2, <1>3, <1>6, <1>7, ToBeMoved
    <2>2. h \in Nat /\ h >= i0
        BY <1>1, <1>3, <1>5, <2>1 DEF PlanFacts
    <2>3. h \in Run
        BY <1>1, <1>3, <1>4, <2>1, <2>2
    <2>4. ~ (Filled < h)
        BY <1>1, <1>4, <1>5, <2>1, <2>3
    <2>5. h = Filled
        BY <1>5, <2>1, <2>2, <2>4
    <2> QED BY <2>1, <2>5
<1>8. ASSUME Skipped(i1) PROVE i1 < Plan[Filled]
    <2>1. Filled >= F /\ Filled \in Holes
        BY <1>2, <1>4, <1>5
    <2>2. Plan[Filled] # i1
        BY <1>1, <1>2, <1>3, <1>6, <1>8, <2>1, ToBeMoved
    <2> QED BY <1>1, <1>3, <1>4, <1>5, <2>2
<1> QED BY <1>1, <1>3, <1>4, <1>5, <1>6, <1>7, <1>8

\* The loops end: the copies start with nothing copied.
LEMMA CopiesStart ==
    ASSUME StateOK, RowsUntouched, NEW F \in 0 .. nUsed, Settled(F)', MovesCounted(F)',
           UNCHANGED <<occupied, max, rows, copies>>,
           pc' = "copy", i1' = 0,
           Moved(Holes, Plan, max) = {h \in Holes : h < F}
    PROVE  CopyOK'
<1>1. StateOK /\ PlanFacts
    BY Numbers
<1>2. nUsed' = nUsed /\ nKv' = nKv /\ Holes' = Holes /\ Plan' = Plan /\ Starts(F)' = Starts(F)
    BY Rigid, StartsRigid
<1>4. Moved(Holes, Plan, max)' = {h \in Holes : h < F}'
    BY <1>2 DEF Moved
<1>5. \A h \in Holes : Plan[h] > 0
    BY <1>1 DEF PlanFacts
<1>6. CopiesOK(F)'
    <2>1. \A i \in occupied' : rows'[i] = i
        BY <1>1 DEF RowsUntouched, StateOK
    <2>2. \A h \in Holes : ~ (Plan[h] < 0) /\ Plan[h] # 0
        BY <1>1, <1>5 DEF PlanFacts
    <2>3. {h \in Starts(F) : Plan[h] < 0} = {}
        BY <2>2 DEF Starts
    <2>4. copies' <= Cardinality({h \in Starts(F) : Plan[h] < 0})
        BY <2>3, FS_EmptySet DEF RowsUntouched
    <2> QED BY <1>2, <2>1, <2>2, <2>4 DEF CopiesOK
<1> QED BY <1>2, <1>4, <1>6 DEF CopyOK

LEMMA PreparedOK ==
    ASSUME IndInv, Prepared
    PROVE  IndInv'
<1>1. /\ StateOK /\ PlanFacts /\ RowsUntouched /\ i0 >= nUsed
      /\ \E F \in 0 .. nUsed : F = i0 /\ Settled(F) /\ MovesCounted(F)
    BY Numbers DEF IndInv, Prepared, PrepareOK, Front, RowsUntouched
<1>2. PICK F \in 0 .. nUsed : F = i0 /\ Settled(F) /\ MovesCounted(F)
    BY <1>1
<1>3. F \in Nat /\ F = nUsed /\ max \in Nat /\ occupied \in SUBSET Cells
    BY <1>1, <1>2, Numbers DEF StateOK
<1>4. \A h \in Holes : ~ (h >= F)
    BY <1>1, <1>3 DEF PlanFacts
<1>5. F \notin Holes
    BY <1>3, <1>4
<1>6. Moved(Holes, Plan, max) = {h \in Holes : h < F}
    BY <1>1, <1>2, <1>3, <1>4, <1>5, MovedSoFar DEF MovesCounted
<1>7. CopyOK'
    <2>1. Settled(F)' /\ MovesCounted(F)'
        BY <1>2, Rigid, StartsRigid DEF Settled, MovesCounted, Prepared
    <2> QED BY <1>1, <1>2, <1>6, <2>1, CopiesStart DEF Prepared
<1>8. StateOK'
    BY <1>1, Rigid, Numbers DEF StateOK, Prepared
<1> QED BY <1>7, <1>8 DEF Prepared, IndInv, OuterOK, BackOK, ForwardOK, PrepareOK

LEMMA GapOK ==
    ASSUME IndInv, Gap
    PROVE  IndInv'
<1>1. /\ StateOK /\ PlanFacts /\ RowsUntouched /\ RunOK
      /\ \E F \in 0 .. nUsed : F = Filled /\ Settled(F) /\ MovesCounted(F)
      /\ nf > 0 /\ Filled \in Run /\ Filled \in Holes /\ Filled \in Nat
      /\ i1 < nKv /\ i1 \in Nat /\ Plan[i0] <= i1 /\ i1 < Plan[Filled]
    BY ForwardFacts DEF Gap
<1>2. PICK F \in 0 .. nUsed : F = Filled /\ Settled(F) /\ MovesCounted(F)
    BY <1>1
<1>3. nUsed' = nUsed /\ nKv' = nKv /\ Holes' = Holes /\ Plan' = Plan /\ Starts(F)' = Starts(F)
    BY Rigid, StartsRigid DEF Gap
<1>4. /\ IF cont THEN Filled > i0 /\ Plan[Filled - 1] = i1 - 1
         ELSE moves < max /\ (Filled > i0 => Plan[Filled - 1] < i1 - 1)
    BY DEF IndInv, ForwardOK, Gap
<1>5. moves \in Nat /\ max \in Nat /\ moves <= max /\ i0 \in Nat /\ nh \in Nat /\ nKv \in Nat
    BY <1>1, <1>2, Numbers DEF MovesCounted
<1>6. \A h \in Holes : Plan[h] \in Nat
    BY <1>1 DEF PlanFacts
<1>7. CASE moves = max
    <2>1. cont
        BY <1>4, <1>5, <1>7
    <2>2. StartsMove(Holes, Plan, F)
        BY <1>1, <1>2, <1>4, <1>5, <1>6, <2>1 DEF StartsMove
    <2>3. Moved(Holes, Plan, max) = {h \in Holes : h < F}
        BY <1>1, <1>2, <1>5, <1>7, <2>2, MovedSoFar DEF StateOK, MovesCounted
    <2>4. pc' = "copy" /\ i1' = 0 /\ UNCHANGED cont
        BY <1>7 DEF Gap
    <2>5. CopyOK'
        <3>1. Settled(F)' /\ MovesCounted(F)'
            BY <1>2, <1>3 DEF Settled, MovesCounted, Gap
        <3> QED BY <1>1, <1>2, <2>3, <2>4, <3>1, CopiesStart DEF Gap
    <2>6. StateOK'
        BY <1>1, <1>3, <1>5, <2>4 DEF StateOK, Gap
    <2> QED BY <2>4, <2>5, <2>6 DEF IndInv, OuterOK, BackOK, ForwardOK, PrepareOK
<1>8. CASE moves # max
    <2>1. cont' = FALSE /\ i1' = i1 + 1 /\ UNCHANGED <<pc, i0, nh, nf, moves, max>>
        BY <1>8 DEF Gap
    <2>2. Filled' = Filled /\ RunOK'
        BY <1>1, <1>3, <2>1 DEF Filled, RunOK, Run
    <2>3. Plan[i0] <= i1 + 1 /\ i1 + 1 <= Plan[Filled]
        <3>1. i0 \in Holes
            BY <1>1, RunAscends
        <3> QED BY <1>1, <1>6, <3>1
    <2>4. moves < max
        BY <1>5, <1>8
    <2>5. Filled > i0 => Plan[Filled - 1] < i1' - 1
        <3>1. SUFFICES ASSUME Filled > i0 PROVE Plan[Filled - 1] < i1' - 1
            OBVIOUS
        <3>2. Filled - 1 \in Run
            BY <1>1, <1>5, <3>1 DEF Run
        <3>3. Plan[Filled - 1] \in Nat
            BY <1>1, <1>6, <3>2 DEF RunOK
        <3> QED BY <1>1, <1>4, <2>1, <3>1, <3>3
    <2>6. ForwardOK'
        <3>1. nf' > 0 /\ Plan'[i0'] <= i1' /\ i1' <= Plan'[Filled']
            BY <1>1, <1>3, <2>1, <2>2, <2>3
        <3>2. ~ cont' /\ moves' < max' /\ (Filled' > i0' => Plan'[Filled' - 1] < i1' - 1)
            BY <1>3, <2>1, <2>2, <2>4, <2>5
        <3> QED BY <2>2, <3>1, <3>2 DEF ForwardOK
    <2>7. StateOK'
        <3>1. i1' \in 0 .. nKv
            BY <1>1, <1>5, <2>1
        <3>2. cont' \in BOOLEAN
            BY <2>1
        <3> QED BY <1>1, <1>3, <2>1, <3>1, <3>2 DEF StateOK, Gap
    <2>8. PrepareOK'
        <3>1. Settled(F)' /\ MovesCounted(F)'
            BY <1>2, <1>3 DEF Settled, MovesCounted, Gap
        <3>2. Front' = F
            BY <1>2, <2>1, <2>2 DEF Front, Gap
        <3> QED BY <1>1, <1>3, <3>1, <3>2 DEF PrepareOK, Gap, RowsUntouched
    <2> QED BY <2>1, <2>6, <2>7, <2>8 DEF Gap, IndInv, OuterOK, BackOK, CopyOK
<1> QED BY <1>7, <1>8

LEMMA MoveOK ==
    ASSUME IndInv, Move
    PROVE  IndInv'
<1>1. /\ StateOK /\ PlanFacts /\ RowsUntouched /\ RunOK
      /\ \E F \in 0 .. nUsed : F = Filled /\ Settled(F) /\ MovesCounted(F)
      /\ nf > 0 /\ Filled \in Run /\ Filled \in Holes /\ Filled \in Nat
      /\ i1 < nKv /\ nUsed <= i1 /\ i1 \in Nat
      /\ i1 = Plan[Filled] /\ cells[i1] = i1
    BY ForwardFacts DEF Move
<1>2. PICK F \in 0 .. nUsed : F = Filled /\ Settled(F) /\ MovesCounted(F)
    BY <1>1
<1>3. nUsed' = nUsed /\ nKv' = nKv /\ Holes' = Holes /\ Plan' = Plan /\ \A G : Starts(G)' = Starts(G)
    BY Rigid, StartsRigid DEF Move
<1>4. /\ IF cont THEN Filled > i0 /\ Plan[Filled - 1] = i1 - 1
         ELSE moves < max /\ (Filled > i0 => Plan[Filled - 1] < i1 - 1)
    BY DEF IndInv, ForwardOK, Move
<1>5. /\ moves \in Nat /\ max \in Nat /\ moves <= max /\ i0 \in Nat /\ nh \in Nat /\ nf \in Nat
      /\ nf <= nh /\ nKv \in Nat /\ nUsed \in Nat /\ nUsed <= nKv /\ nKv <= Size /\ Size \in Nat
    BY <1>1, <1>2, Numbers DEF MovesCounted
<1>6. F \in Nat /\ F \in Holes /\ F < nUsed /\ F + 1 \in 0 .. nUsed /\ Plan[F] = i1 /\ F # i1
    BY <1>1, <1>2, <1>5 DEF PlanFacts
<1>7. /\ F \in Cells /\ i1 \in Cells
      /\ ids' = [ids EXCEPT ![i1] = F]
      /\ cells' = [cells EXCEPT ![F] = cells[i1], ![i1] = Free]
    BY <1>1, <1>2, <1>5, <1>6 DEF Move, Cells
<1>8. /\ ids'[i1] = F /\ cells'[i1] = Free /\ cells'[F] = i1
      /\ \A i \in 0 .. nKv - 1 : i # i1 => ids'[i] = ids[i]
      /\ \A i \in Cells : i # i1 /\ i # F => cells'[i] = cells[i]
    <2>1. cells[i1] = i1 /\ F # i1 /\ i1 \in 0 .. nKv - 1
        BY <1>1, <1>5, <1>6
    <2>2. cells \in [Cells -> Cells \cup {Free}] /\ ids \in [0 .. nKv - 1 -> 0 .. nKv]
        BY <1>1 DEF StateOK
    <2>3. ids'[i1] = F /\ \A i \in 0 .. nKv - 1 : i # i1 => ids'[i] = ids[i]
        BY <1>7, <2>1, <2>2
    <2>4. cells'[i1] = Free /\ cells'[F] = i1
        BY <1>7, <2>1, <2>2
    <2>5. \A i \in Cells : i # i1 /\ i # F => cells'[i] = cells[i]
        BY <1>7, <2>2
    <2> QED BY <2>3, <2>4, <2>5
<1>9. /\ \A i \in Cells : i \in Nat /\ (i < nKv => i \in 0 .. nKv - 1)
      /\ \A h \in Holes : h \in Cells /\ h \in 0 .. nKv - 1
                          /\ Plan[h] \in Cells /\ Plan[h] \in 0 .. nKv - 1
      /\ \A i \in occupied : i \in Cells /\ i \in 0 .. nKv - 1
    BY <1>1, Indices
<1>10. Settled(F + 1)'
    <2>1. ASSUME NEW h \in Holes
          PROVE  /\ h # i1 /\ (h < F + 1 <=> h < F \/ h = F) /\ (h >= F + 1 <=> h >= F /\ h # F)
                 /\ Plan[h] # F /\ (h # F => Plan[h] # i1)
                 /\ (h < F + 1 \/ h >= F + 1) /\ h \in Nat
        <3>1. h \in Nat /\ h < nUsed /\ Plan[h] >= nUsed /\ Plan[h] \in Nat
            BY <1>1 DEF PlanFacts
        <3>2. h < F \/ h = F \/ F < h
            BY <1>6, <3>1
        <3>3. h # F => Plan[h] # Plan[F]
            BY <1>1, <1>6, <3>2 DEF PlanFacts
        <3> QED BY <1>1, <1>5, <1>6, <3>1, <3>3
    <2>2. \A h \in Holes : ids'[h] = nKv
        BY <1>2, <1>8, <1>9, <2>1 DEF Settled
    <2>3. \A h \in Holes : h < F + 1 =>
              cells'[h] = Plan[h] /\ cells'[Plan[h]] = Free /\ ids'[Plan[h]] = h
        BY <1>2, <1>6, <1>8, <1>9, <2>1 DEF Settled
    <2>4. \A h \in Holes : h >= F + 1 =>
              cells'[h] = Free /\ cells'[Plan[h]] = Plan[h] /\ ids'[Plan[h]] = nKv
        BY <1>2, <1>6, <1>8, <1>9, <2>1 DEF Settled
    <2>5. \A i \in occupied : i < nUsed =>
              cells'[i] = i /\ ids'[i] = (IF i < F + 1 THEN i ELSE nKv)
        <3>1. \A i \in occupied : i # F /\ i \in Nat /\ (i < nUsed => i # i1)
            BY <1>1, <1>5, <1>6 DEF PlanFacts
        <3>2. \A i \in occupied : i < F + 1 <=> i < F
            BY <1>6, <3>1
        <3> QED BY <1>2, <1>8, <1>9, <3>1, <3>2 DEF Settled
    <2>6. \A i \in Cells : i >= nUsed /\ i \notin occupied =>
              cells'[i] = Free /\ (i < nKv => ids'[i] = nKv)
        <3>1. i1 \in occupied
            BY <1>1, <1>6 DEF PlanFacts
        <3>2. \A i \in Cells : i >= nUsed => i # F
            BY <1>5, <1>6 DEF Cells
        <3> QED BY <1>2, <1>8, <1>9, <3>1, <3>2 DEF Settled
    <2>7. UNCHANGED occupied
        BY DEF Move
    <2> QED BY <1>3, <2>2, <2>3, <2>4, <2>5, <2>6, <2>7 DEF Settled
\* A move is counted where the plan starts one.
<1>11. StartsMove(Holes, Plan, F) <=> ~ cont
    <2>1. CASE cont
        <3>1. F - 1 \in Holes /\ Plan[F] = Plan[F - 1] + 1
            <4>1. F - 1 \in Run /\ Plan[F - 1] = i1 - 1
                BY <1>1, <1>2, <1>4, <1>5, <2>1 DEF Run
            <4> QED BY <1>1, <1>6, <4>1 DEF RunOK
        <3> QED BY <2>1, <3>1 DEF StartsMove
    <2>2. CASE ~ cont /\ F > i0
        <3>1. Plan[F - 1] < i1 - 1
            BY <1>2, <1>4, <2>2
        <3>2. F - 1 \in Run
            BY <1>1, <1>2, <1>5, <1>6, <2>2 DEF Run
        <3>3. Plan[F - 1] \in Nat
            BY <1>1, <3>2 DEF RunOK, PlanFacts
        <3>4. Plan[F] # Plan[F - 1] + 1
            BY <1>1, <1>6, <3>1, <3>3
        <3> QED BY <2>2, <3>4 DEF StartsMove
    <2>3. CASE ~ cont /\ ~ (F > i0)
        <3>1. F = i0
            BY <1>1, <1>2, <1>5, <2>3 DEF Run
        <3> QED BY <1>1, <2>3, <3>1 DEF StartsMove, RunOK
    <2> QED BY <2>1, <2>2, <2>3
<1>12. moves' = Cardinality(Starts(F + 1)) /\ moves' <= max /\ moves' \in Nat
    <2>1. moves = Cardinality(Starts(F)) /\ occupied \in SUBSET Cells
        BY <1>1, <1>2 DEF MovesCounted, StateOK
    <2>2. CASE cont
        <3>1. Starts(F + 1) = Starts(F)
            BY <1>1, <1>6, <1>11, <2>1, <2>2, StartsGrow
        <3> QED BY <1>5, <2>1, <2>2, <3>1 DEF Move
    <2>3. CASE ~ cont
        <3>1. Cardinality(Starts(F + 1)) = moves + 1
            BY <1>1, <1>6, <1>11, <2>1, <2>3, StartsGrow
        <3>2. moves' = moves + 1
            BY <2>3 DEF Move
        <3> QED BY <1>4, <1>5, <2>3, <3>1, <3>2
    <2> QED BY <2>2, <2>3
<1>13. MovesCounted(F + 1)'
    BY <1>3, <1>12 DEF MovesCounted, Move
<1>14. /\ nf' = nf - 1 /\ cont' = TRUE /\ nf - 1 \in 0 .. nh /\ i1 + 1 \in 0 .. nKv
       /\ UNCHANGED <<occupied, max, rows, nh, is, copies>>
    BY <1>1, <1>5 DEF Move
<1>15. /\ cells' \in [Cells -> Cells \cup {Free}]
       /\ ids' \in [0 .. nKv - 1 -> 0 .. nKv]
    <2>1. cells[i1] \in Cells \cup {Free} /\ F \in 0 .. nKv
        BY <1>1, <1>5, <1>6, <1>7 DEF StateOK
    <2> QED BY <1>1, <1>7, <2>1 DEF StateOK
\* The hole is not full.
<1>16. CASE nf - 1 > 0
    <2>1. i1' = i1 + 1 /\ UNCHANGED <<i0, pc>>
        BY <1>14, <1>16 DEF Move
    <2>2. Filled' = F + 1 /\ RunOK'
        BY <1>1, <1>2, <1>3, <1>5, <1>14, <2>1 DEF Filled, RunOK, Run
    <2>3. i1 + 1 <= Plan[F + 1] /\ Plan[i0] <= i1 + 1
        <3>1. F \in Run /\ F + 1 \in Run /\ F < F + 1
            BY <1>1, <1>2, <1>5, <1>6, <1>16 DEF Run, Filled
        <3>2. Plan[F] < Plan[F + 1] /\ Plan[F] \in Nat /\ Plan[F + 1] \in Nat
            BY <1>1, <3>1, RunAscends
        <3>3. Plan[i0] <= i1 /\ Plan[i0] \in Nat
            BY <1>1, RunAscends, ForwardFacts DEF Move
        <3> QED BY <1>1, <1>6, <3>2, <3>3
    <2>4. ForwardOK'
        <3>1. nf' > 0 /\ Plan'[i0'] <= i1' /\ i1' <= Plan'[Filled']
            BY <1>3, <1>14, <1>16, <2>1, <2>2, <2>3
        <3>2. cont' /\ Filled' > i0' /\ Plan'[Filled' - 1] = i1' - 1
            BY <1>1, <1>2, <1>3, <1>5, <1>6, <1>14, <2>1, <2>2 DEF Run
        <3> QED BY <2>2, <3>1, <3>2 DEF ForwardOK
    <2>5. PrepareOK'
        <3>1. Front' = F + 1
            BY <2>1, <2>2 DEF Front, Move
        <3> QED BY <1>1, <1>3, <1>6, <1>10, <1>13, <1>14, <3>1 DEF PrepareOK, RowsUntouched
    <2>6. StateOK'
        BY <1>1, <1>3, <1>12, <1>14, <1>15, <2>1 DEF StateOK
    <2>7. pc' = "forward"
        BY <2>1 DEF Move
    <2> QED BY <2>4, <2>5, <2>6, <2>7 DEF IndInv, OuterOK, BackOK, CopyOK
\* It is full: F is its last cell.
<1>17. CASE ~ (nf - 1 > 0)
    <2>1. nf = 1 /\ F + 1 = i0 + nh
        BY <1>1, <1>2, <1>5, <1>17 DEF Filled
    <2>2. F + 1 \notin Holes
        BY <1>1, <2>1 DEF RunOK
    <2>3. CASE moves' = max
        <3>1. pc' = "copy" /\ i1' = 0 /\ i0' = i0
            BY <1>14, <1>17, <2>3 DEF Move
        <3>2. Moved(Holes, Plan, max) = {h \in Holes : h < F + 1}
            <4>1. Cardinality(Starts(F + 1)) = max /\ F + 1 \in Nat /\ occupied \in SUBSET Cells
                BY <1>1, <1>6, <1>12, <2>3 DEF StateOK
            <4> QED BY <1>1, <1>5, <2>2, <4>1, MovedSoFar
        <3>3. CopyOK'
            BY <1>1, <1>6, <1>10, <1>13, <1>14, <3>1, <3>2, CopiesStart DEF Settled, MovesCounted
        <3>4. StateOK'
            <4>1. i1' \in 0 .. nKv /\ i0' \in 0 .. nUsed /\ cont' \in BOOLEAN
                BY <1>1, <1>5, <1>14, <3>1 DEF StateOK
            <4> QED BY <1>1, <1>3, <1>12, <1>14, <1>15, <3>1, <4>1 DEF StateOK
        <3> QED BY <3>1, <3>3, <3>4 DEF IndInv, OuterOK, BackOK, ForwardOK, PrepareOK
    <2>4. CASE moves' # max
        <3>1. pc' = "outer" /\ i0' = F + 1 /\ i1' = i1
            BY <1>14, <1>17, <2>1, <2>4 DEF Move
        <3>2. OuterOK'
            BY <1>3, <1>5, <1>6, <1>12, <1>14, <2>2, <2>4, <3>1 DEF OuterOK
        <3>3. Front' = F + 1
            BY <3>1 DEF Front
        <3>4. PrepareOK'
            BY <1>1, <1>3, <1>6, <1>10, <1>13, <1>14, <3>3 DEF PrepareOK, RowsUntouched
        <3>5. StateOK'
            BY <1>1, <1>3, <1>6, <1>12, <1>14, <1>15, <3>1 DEF StateOK
        <3> QED BY <3>1, <3>2, <3>4, <3>5 DEF IndInv, BackOK, ForwardOK, CopyOK
    <2> QED BY <2>3, <2>4
<1> QED BY <1>16, <1>17

-----------------------------------------------------------------------------
(* build_kv_self_defrag().                                                 *)

\* What holds in the copy loop, with the cells that the plan moves at all.
LEMMA CopyFacts ==
    ASSUME IndInv, pc = "copy"
    PROVE  \E F \in 0 .. nUsed :
              /\ Settled(F) /\ MovesCounted(F) /\ CopiesOK(F)
              /\ Moved(Holes, Plan, max) = {h \in Holes : h < F}
              /\ \A c \in Nat : c < nKv /\ ~ Stays(c) =>
                    \E h \in Holes : h < F /\ Plan[h] = c /\ ids[c] = h
              /\ \A h \in Holes : h < F => ~ Stays(Plan[h])
<1>1. StateOK /\ PlanFacts
    BY Numbers DEF IndInv
<1>2. PICK F \in 0 .. nUsed :
              /\ Settled(F) /\ MovesCounted(F) /\ CopiesOK(F)
              /\ Moved(Holes, Plan, max) = {h \in Holes : h < F}
    BY DEF IndInv, CopyOK
<1>3. ASSUME NEW c \in Nat, c < nKv, ~ Stays(c)
      PROVE  \E h \in Holes : h < F /\ Plan[h] = c /\ ids[c] = h
    <2>1. ids[c] # c /\ ids[c] # nKv
        BY <1>3 DEF Stays
    <2>2. c \in Cells
        BY <1>1, <1>3 DEF PlanFacts, Cells
    <2>3. c >= nUsed
        <3>1. SUFFICES ASSUME c < nUsed PROVE FALSE
            BY <1>1, <1>3 DEF PlanFacts
        <3>2. c \in Holes \/ c \in occupied
            BY <1>1, <1>3, <3>1 DEF PlanFacts
        <3> QED BY <1>2, <2>1, <3>1, <3>2 DEF Settled
    <2>4. c \in occupied
        BY <1>2, <1>3, <2>1, <2>2, <2>3 DEF Settled
    <2>5. PICK h \in Holes : Plan[h] = c
        BY <1>1, <2>3, <2>4 DEF PlanFacts
    <2>6. h < F
        <3>1. h < F \/ h >= F
            BY <1>1, <1>2 DEF PlanFacts
        <3> QED BY <1>2, <2>1, <2>5, <3>1 DEF Settled
    <2> QED BY <1>2, <2>5, <2>6 DEF Settled
<1>4. ASSUME NEW h \in Holes, h < F PROVE ~ Stays(Plan[h])
    <2>1. ids[Plan[h]] = h /\ h < nUsed /\ nUsed <= Plan[h] /\ Plan[h] < nKv /\ h \in Nat
          /\ Plan[h] \in Nat /\ nUsed \in Nat /\ nKv \in Nat
        BY <1>1, <1>2, <1>4 DEF Settled, PlanFacts
    <2> QED BY <2>1 DEF Stays
<1> QED BY <1>2, <1>3, <1>4

LEMMA CopySkipOK ==
    ASSUME IndInv, CopySkip
    PROVE  IndInv'
<1>1. StateOK /\ PlanFacts /\ i1 \in Nat /\ i1 < nKv /\ nKv \in Nat
    BY Numbers DEF IndInv, CopySkip
<1>2. PICK F \in 0 .. nUsed :
              /\ Settled(F) /\ MovesCounted(F) /\ CopiesOK(F)
              /\ Moved(Holes, Plan, max) = {h \in Holes : h < F}
              /\ \A c \in Nat : c < nKv /\ ~ Stays(c) =>
                    \E h \in Holes : h < F /\ Plan[h] = c /\ ids[c] = h
              /\ \A h \in Holes : h < F => ~ Stays(Plan[h])
    BY CopyFacts DEF CopySkip
<1>3. nUsed' = nUsed /\ nKv' = nKv /\ Holes' = Holes /\ Plan' = Plan /\ Starts(F)' = Starts(F)
    BY Rigid, StartsRigid DEF CopySkip
<1>4. i1' = i1 + 1 /\ pc' = "copy" /\ UNCHANGED <<rows, copies, occupied>>
    BY DEF CopySkip
<1>5. \A h \in Holes : h < F => Plan[h] # i1 /\ Plan[h] \in Nat
    BY <1>1, <1>2 DEF CopySkip, PlanFacts
<1>6. \A h \in Holes : h < F => (Plan[h] < i1 + 1 <=> Plan[h] < i1)
    BY <1>1, <1>5
<1>7. ASSUME NEW h \in Holes, h < F, Plan[h] = i1 + 1 PROVE h \in Starts(F)
    <2>1. SUFFICES ASSUME h - 1 \in Holes, Plan[h] = Plan[h - 1] + 1 PROVE FALSE
        BY <1>7 DEF Starts, StartsMove
    <2>2. h \in Nat /\ Plan[h - 1] \in Nat /\ h - 1 < F
        BY <1>1, <1>2, <1>7, <2>1 DEF PlanFacts
    <2>3. Plan[h - 1] = i1
        BY <1>1, <1>7, <2>1, <2>2
    <2> QED BY <1>5, <2>1, <2>2, <2>3
<1>8. {h \in Starts(F) : Plan[h] < i1 + 1} = {h \in Starts(F) : Plan[h] < i1}
    BY <1>6 DEF Starts
<1>9. CopiesOK(F)'
    BY <1>2, <1>3, <1>4, <1>6, <1>7, <1>8 DEF CopiesOK
<1>10. CopyOK'
    <2>1. Settled(F)' /\ MovesCounted(F)' /\ (Moved(Holes, Plan, max) = {h \in Holes : h < F})'
        BY <1>2, <1>3 DEF Settled, MovesCounted, Moved, CopySkip
    <2> QED BY <1>3, <1>9, <2>1 DEF CopyOK
<1>11. StateOK'
    <2>1. i1' \in 0 .. nKv
        BY <1>1, <1>4
    <2> QED BY <1>1, <1>3, <1>4, <2>1 DEF StateOK, CopySkip
<1> QED BY <1>4, <1>10, <1>11 DEF IndInv, OuterOK, BackOK, ForwardOK, PrepareOK

LEMMA CopiedOK ==
    ASSUME IndInv, Copied
    PROVE  IndInv'
<1>1. StateOK /\ PlanFacts
    BY Numbers DEF IndInv
<1>2. PICK F \in 0 .. nUsed :
              /\ Settled(F) /\ MovesCounted(F) /\ CopiesOK(F)
              /\ Moved(Holes, Plan, max) = {h \in Holes : h < F}
    BY DEF IndInv, CopyOK, Copied
<1>3. nUsed' = nUsed /\ nKv' = nKv /\ Holes' = Holes /\ Plan' = Plan /\ Starts(F)' = Starts(F)
    BY Rigid, StartsRigid DEF Copied
<1>4. CopiesOK(F)'
    BY <1>2, <1>3 DEF CopiesOK, Copied
<1>5. CopyOK'
    <2>1. Settled(F)' /\ MovesCounted(F)' /\ (Moved(Holes, Plan, max) = {h \in Holes : h < F})'
        BY <1>2, <1>3 DEF Settled, MovesCounted, Moved, Copied
    <2> QED BY <1>3, <1>4, <2>1 DEF CopyOK
<1>6. StateOK'
    BY <1>1, <1>3 DEF StateOK, Copied
<1> QED BY <1>5, <1>6 DEF Copied, IndInv, OuterOK, BackOK, ForwardOK, PrepareOK

LEMMA CopyBlockOK ==
    ASSUME IndInv, CopyBlock
    PROVE  IndInv'
<1>1. StateOK /\ PlanFacts /\ i1 \in Nat /\ i1 < nKv /\ nKv \in Nat /\ nKv <= Size /\ Size \in Nat
    BY Numbers DEF IndInv, CopyBlock
<1>2. PICK F \in 0 .. nUsed :
              /\ Settled(F) /\ MovesCounted(F) /\ CopiesOK(F)
              /\ Moved(Holes, Plan, max) = {h \in Holes : h < F}
              /\ \A c \in Nat : c < nKv /\ ~ Stays(c) =>
                    \E h \in Holes : h < F /\ Plan[h] = c /\ ids[c] = h
              /\ \A h \in Holes : h < F => ~ Stays(Plan[h])
    BY CopyFacts DEF CopyBlock
<1>3. nUsed' = nUsed /\ nKv' = nKv /\ Holes' = Holes /\ Plan' = Plan /\ Starts(F)' = Starts(F)
    BY Rigid, StartsRigid DEF CopyBlock
<1>4. PICK nm \in 1 .. nKv :
          /\ \A k \in 1 .. nm - 1 : InBlock(i1, k)
          /\ ~ InBlock(i1, nm)
          /\ rows' = [i \in Cells |-> IF i \in ids[i1] .. ids[i1] + nm - 1
                                      THEN rows[i1 + i - ids[i1]] ELSE rows[i]]
          /\ i1' = i1 + nm
    BY DEF CopyBlock
<1>5. PICK h \in Holes : h < F /\ Plan[h] = i1 /\ ids[i1] = h
    BY <1>1, <1>2 DEF CopyBlock
<1>6. h \in Nat /\ h < i1 /\ nm \in Nat /\ nm >= 1
    BY <1>1, <1>4, <1>5 DEF PlanFacts
\* The cells of the block are those of the plan for a stretch of holes.
<1>7. ASSUME NEW k \in 0 .. nm - 1
      PROVE  /\ h + k \in Holes /\ h + k < F /\ Plan[h + k] = i1 + k
             /\ i1 + k < nKv /\ k \in Nat
    <2>1. k \in Nat /\ i1 + k < nKv /\ ids[i1 + k] = h + k
        <3>1. CASE k = 0
            BY <1>1, <1>5, <1>6, <3>1
        <3>2. CASE k # 0
            <4>1. k \in 1 .. nm - 1
                BY <1>6, <3>2
            <4> QED BY <1>4, <1>5, <1>6, <4>1 DEF InBlock
        <3> QED BY <3>1, <3>2
    <2>2. h + k # i1 + k /\ h + k # nKv /\ i1 + k \in Nat
        BY <1>1, <1>6, <2>1
    <2>3. ~ Stays(i1 + k)
        BY <2>1, <2>2 DEF Stays
    <2>4. PICK g \in Holes : g < F /\ Plan[g] = i1 + k /\ ids[i1 + k] = g
        BY <1>2, <2>1, <2>2, <2>3
    <2> QED BY <2>1, <2>4
<1>8. ASSUME NEW g \in Holes, NEW k \in 0 .. nm - 1, Plan[g] = i1 + k PROVE g = h + k
    <2>1. h + k \in Holes /\ Plan[h + k] = Plan[g]
        BY <1>7, <1>8
    <2>2. g \in Nat /\ h + k \in Nat /\ ~ (g < h + k) /\ ~ (h + k < g)
        BY <1>1, <2>1 DEF PlanFacts
    <2> QED BY <2>2
<1>9. \A i \in h .. h + nm - 1 : i \in Holes /\ i - h \in 0 .. nm - 1 /\ Plan[i] = i1 + (i - h)
    <2>1. ASSUME NEW i \in h .. h + nm - 1
          PROVE  i \in Holes /\ i - h \in 0 .. nm - 1 /\ Plan[i] = i1 + (i - h)
        <3>1. i - h \in 0 .. nm - 1 /\ h + (i - h) = i
            BY <1>6, <2>1
        <3> QED BY <1>7, <3>1
    <2> QED BY <2>1
<1>10. i1 + nm \in 0 .. nKv
    <2>1. nm - 1 \in 0 .. nm - 1
        BY <1>6
    <2>2. i1 + (nm - 1) < nKv
        BY <1>7, <2>1
    <2> QED BY <1>1, <1>6, <2>2
<1>11. pc' = "copy" /\ copies' = copies + 1 /\ i1' = i1 + nm
       /\ UNCHANGED <<occupied, max, cells, ids, i0, nh, is, nf, cont, moves>>
    BY <1>4 DEF CopyBlock
<1>12. \A i \in occupied : rows'[i] = i
    <2>1. \A i \in occupied : i \in Cells /\ i \notin h .. h + nm - 1
        BY <1>1, <1>9 DEF StateOK, PlanFacts
    <2> QED BY <1>2, <1>4, <1>5, <2>1 DEF CopiesOK
<1>13. ASSUME NEW g \in Holes, g < F, Plan[g] < i1 + nm PROVE rows'[g] = Plan[g]
    <2>0. g \in Cells /\ g \in Nat /\ Plan[g] \in Nat /\ Plan[g] \in occupied
        BY <1>1 DEF PlanFacts, Holes
    <2>1. CASE Plan[g] < i1
        <3>1. g \notin h .. h + nm - 1
            BY <1>1, <1>6, <1>9, <2>0, <2>1
        <3> QED BY <1>2, <1>4, <1>5, <1>13, <2>0, <2>1, <3>1 DEF CopiesOK
    <2>2. CASE Plan[g] >= i1
        <3> DEFINE k == Plan[g] - i1
        <3>1. k \in 0 .. nm - 1 /\ Plan[g] = i1 + k
            BY <1>1, <1>6, <1>13, <2>0, <2>2
        <3>2. g = h + k
            BY <1>8, <3>1
        <3>3. g \in h .. h + nm - 1 /\ i1 + g - h = Plan[g]
            BY <1>1, <1>6, <3>1, <3>2
        <3>4. rows'[g] = rows[Plan[g]]
            BY <1>4, <1>5, <2>0, <3>3
        <3> QED BY <1>2, <2>0, <3>4 DEF CopiesOK
    <2> QED BY <1>1, <2>0, <2>1, <2>2
<1>14. ASSUME NEW g \in Holes, g < F, Plan[g] = i1 + nm PROVE g \in Starts(F)
    <2>1. SUFFICES ASSUME g - 1 \in Holes, Plan[g] = Plan[g - 1] + 1 PROVE FALSE
        BY <1>14 DEF Starts, StartsMove
    <2>2. nm - 1 \in 0 .. nm - 1 /\ Plan[g - 1] = i1 + (nm - 1) /\ g \in Nat
        BY <1>1, <1>6, <1>14, <2>1 DEF PlanFacts
    <2>3. g = h + nm
        <3>1. g - 1 = h + (nm - 1)
            BY <1>8, <2>1, <2>2
        <3> QED BY <1>6, <2>2, <3>1
    <2>4. ids[Plan[g]] = g /\ Plan[g] < nKv
        BY <1>1, <1>2, <1>14 DEF Settled, PlanFacts
    <2>5. InBlock(i1, nm)
        BY <1>5, <1>14, <2>3, <2>4 DEF InBlock
    <2> QED BY <1>4, <2>5
<1>15. copies + 1 <= Cardinality({g \in Starts(F) : Plan[g] < i1 + nm})
    <2> DEFINE Old == {g \in Starts(F) : Plan[g] < i1}
               New == {g \in Starts(F) : Plan[g] < i1 + nm}
    <2>1. copies <= Cardinality(Old) /\ h \in Starts(F) /\ copies \in Nat
        <3>1. copies <= Cardinality(Old)
            BY <1>2 DEF CopiesOK
        <3>2. h \in Starts(F)
            BY <1>2, <1>5 DEF CopiesOK
        <3> QED BY <1>1, <3>1, <3>2 DEF StateOK
    <2>2. h \notin Old /\ Old \cup {h} \subseteq New
        <3>1. \A g \in Starts(F) : Plan[g] \in Nat
            BY <1>1 DEF Starts, PlanFacts
        <3>2. h \notin Old
            BY <1>1, <1>5
        <3>3. h \in New /\ \A g \in Old : g \in New
            BY <1>1, <1>5, <1>6, <2>1, <3>1
        <3> QED BY <3>2, <3>3
    <2>3. IsFiniteSet(Old) /\ IsFiniteSet(New) /\ Cardinality(Old) \in Nat /\ Cardinality(New) \in Nat
        <3>1. IsFiniteSet(Starts(F))
            BY <1>1, StartsFinite DEF StateOK
        <3>2. Old \subseteq Starts(F) /\ New \subseteq Starts(F)
            OBVIOUS
        <3> QED BY <3>1, <3>2, FS_Subset, FS_CardinalityType
    <2> HIDE DEF Old, New
    <2>4. Cardinality(Old \cup {h}) = Cardinality(Old) + 1
        BY <2>2, <2>3, FS_AddElement
    <2>5. Cardinality(Old \cup {h}) <= Cardinality(New)
        BY <2>2, <2>3, FS_Subset
    <2>6. copies + 1 <= Cardinality(New)
        BY <2>1, <2>3, <2>4, <2>5
    <2> QED BY <2>6 DEF New
<1>16. CopiesOK(F)'
    BY <1>3, <1>11, <1>12, <1>13, <1>14, <1>15 DEF CopiesOK
<1>17. CopyOK'
    <2>1. Settled(F)' /\ MovesCounted(F)' /\ (Moved(Holes, Plan, max) = {g \in Holes : g < F})'
        BY <1>2, <1>3, <1>11 DEF Settled, MovesCounted, Moved
    <2> QED BY <1>3, <1>16, <2>1 DEF CopyOK
<1>18. rows' \in [Cells -> Cells \cup {Free}]
    <2>1. ASSUME NEW i \in Cells, i \in h .. h + nm - 1 PROVE i1 + i - h \in Cells
        <3>1. i - h \in 0 .. nm - 1
            BY <1>6, <2>1
        <3>2. i1 + (i - h) < nKv
            BY <1>7, <3>1
        <3> QED BY <1>1, <1>6, <2>1, <3>2 DEF Cells
    <2>2. rows \in [Cells -> Cells \cup {Free}]
        BY <1>1 DEF StateOK
    <2> QED BY <1>4, <1>5, <2>1, <2>2
<1>19. StateOK'
    BY <1>1, <1>3, <1>10, <1>11, <1>18 DEF StateOK
<1> QED BY <1>11, <1>17, <1>19 DEF IndInv, OuterOK, BackOK, ForwardOK, PrepareOK

-----------------------------------------------------------------------------
\* The loops keep the invariant: the plan is carried out up to the cells that
\* Front names, and a scan stands between the tokens of two holes' cells.
THEOREM Invariance == Spec => []IndInv
<1>1. Init => IndInv
    BY InitOK
<1>2. IndInv /\ [Next]_vars => IndInv'
    <2>1. SUFFICES ASSUME IndInv, [Next]_vars PROVE IndInv'
        OBVIOUS
    <2>2. CASE Keep
        BY <2>1, <2>2, KeepOK
    <2>3. CASE Hole
        BY <2>1, <2>3, HoleOK
    <2>4. CASE Back
        BY <2>1, <2>4, BackStepOK
    <2>5. CASE Gap
        BY <2>1, <2>5, GapOK
    <2>6. CASE Move
        BY <2>1, <2>6, MoveOK
    <2>7. CASE Prepared
        BY <2>1, <2>7, PreparedOK
    <2>8. CASE CopySkip
        BY <2>1, <2>8, CopySkipOK
    <2>9. CASE CopyBlock
        BY <2>1, <2>9, CopyBlockOK
    <2>10. CASE Copied
        BY <2>1, <2>10, CopiedOK
    <2>11. CASE UNCHANGED vars
        <3>1. UNCHANGED <<occupied, max, cells, rows, ids, i0, nh, is, i1, nf, cont, moves, copies, pc>>
            BY <2>11 DEF vars
        <3>2. nUsed' = nUsed /\ nKv' = nKv /\ Holes' = Holes /\ Plan' = Plan
              /\ \A F : Starts(F)' = Starts(F)
            BY <3>1, Rigid, StartsRigid
        <3>3. StateOK' /\ OuterOK'
            BY <2>1, <3>1, <3>2 DEF IndInv, StateOK, OuterOK
        <3>4. RunOK' = RunOK /\ Run' = Run /\ Filled' = Filled
            BY <3>1, <3>2 DEF RunOK, Run, Filled
        <3>5. BackOK'
            BY <2>1, <3>1, <3>2, <3>4 DEF IndInv, BackOK
        <3>6. ForwardOK'
            BY <2>1, <3>1, <3>2, <3>4 DEF IndInv, ForwardOK
        <3>7. PrepareOK'
            BY <2>1, <3>1, <3>2, <3>4 DEF IndInv, PrepareOK, Settled, MovesCounted, Front
        <3>8. CopyOK'
            BY <2>1, <3>1, <3>2 DEF IndInv, CopyOK, Settled, MovesCounted, CopiesOK, Moved
        <3> QED BY <3>3, <3>5, <3>6, <3>7, <3>8 DEF IndInv
    <2> QED BY <2>1, <2>2, <2>3, <2>4, <2>5, <2>6, <2>7, <2>8, <2>9, <2>10, <2>11 DEF Next
<1> QED BY <1>1, <1>2, PTL DEF Spec

\* The variables have their types; neither the moves nor the copies can be more
\* than the cells.
THEOREM TypeCorrect == Spec => []TypeOK
<1>1. IndInv => TypeOK
    <2>1. SUFFICES ASSUME IndInv PROVE TypeOK
        OBVIOUS
    <2>2. StateOK /\ \E F \in 0 .. nUsed : MovesCounted(F)
                        /\ (copies = 0 \/ copies <= Cardinality({h \in Starts(F) : Plan[h] < i1}))
        BY <2>1 DEF IndInv, PrepareOK, CopyOK, StateOK, CopiesOK
    <2>3. PICK F \in 0 .. nUsed : MovesCounted(F)
                        /\ (copies = 0 \/ copies <= Cardinality({h \in Starts(F) : Plan[h] < i1}))
        BY <2>2
    <2>4. Cardinality(Starts(F)) <= Size /\ Cardinality(Starts(F)) \in Nat /\ IsFiniteSet(Starts(F))
        BY <2>2, StartsFinite DEF StateOK
    <2>5. Cardinality({h \in Starts(F) : Plan[h] < i1}) \in Nat
          /\ Cardinality({h \in Starts(F) : Plan[h] < i1}) <= Cardinality(Starts(F))
        <3>1. {h \in Starts(F) : Plan[h] < i1} \subseteq Starts(F)
            OBVIOUS
        <3> QED BY <2>4, <3>1, FS_Subset, FS_CardinalityType
    <2>6. moves \in 0 .. Size /\ copies \in 0 .. Size
        BY <2>2, <2>3, <2>4, <2>5, Numbers DEF MovesCounted
    <2>7. i0 \in 0 .. Size /\ nh \in 0 .. Size /\ i1 \in 0 .. Size
        BY <2>2, Numbers
    <2> QED BY <2>2, <2>6, <2>7 DEF TypeOK, StateOK
<1> QED BY <1>1, Invariance, PTL

\* The scan from the end finds as many tokens as the hole has cells before it
\* reaches the hole, and the scan back ends before the last token.
THEOREM ScansFind == Spec => []ScanSucceeds
<1>1. IndInv => ScanSucceeds
    <2>1. SUFFICES ASSUME IndInv PROVE ScanSucceeds
        OBVIOUS
    <2>2. ASSUME pc = "back" PROVE is > i0
        <3>1. StateOK /\ PlanFacts /\ RunOK /\ Plan[i0] <= is /\ i0 \in Nat /\ is \in Int
            BY <2>1, <2>2, Numbers DEF IndInv, BackOK
        <3>2. i0 \in Holes
            BY <3>1, RunAscends
        <3> QED BY <3>1, <3>2 DEF PlanFacts
    <2>3. ASSUME pc = "forward" PROVE i1 < nKv
        BY <2>1, <2>3, ForwardFacts
    <2> QED BY <2>2, <2>3 DEF ScanSucceeds
<1> QED BY <1>1, Invariance, PTL

\* When the loops end, the cells hold what DefragPlan says of one plan, carried
\* out within the limit.
THEOREM PlanIsCarriedOut == Spec => []ImplementsPlan
<1>1. IndInv => ImplementsPlan
    <2>1. SUFFICES ASSUME IndInv, pc = "done" PROVE ImplementsPlan
        BY DEF ImplementsPlan
    <2>2. StateOK /\ PlanFacts
        BY <2>1, Numbers DEF IndInv
    <2>3. PICK F \in 0 .. nUsed :
              Settled(F) /\ Moved(Holes, Plan, max) = {h \in Holes : h < F}
        BY <2>1 DEF IndInv, CopyOK
    <2> DEFINE to == Moved(Holes, Plan, max)
               from == {Plan[h] : h \in to}
               result == [i \in Cells |-> IF i \in to THEN Plan[i]
                                          ELSE IF i \in from THEN Free
                                          ELSE IF i \in occupied THEN i ELSE Free]
    <2>4. Plan \in [Holes -> Tails] /\ IsPlan(Holes, Plan)
        BY <2>2, PlanIsPlan DEF StateOK
    <2>5. ASSUME NEW i \in Cells PROVE cells[i] = result[i]
        <3>1. i \in Nat /\ \A h \in Holes : h \in Nat /\ (h < F \/ h >= F)
            BY <2>2, Indices DEF PlanFacts
        <3>2. CASE i \in to
            BY <2>3, <3>2 DEF Settled
        <3>3. CASE i \notin to /\ i \in from
            BY <2>3, <3>3 DEF Settled
        <3>4. CASE i \notin to /\ i \notin from /\ i \in occupied
            <4>1. CASE i < nUsed
                BY <2>3, <3>4, <4>1 DEF Settled
            <4>2. CASE i >= nUsed
                <5>1. PICK h \in Holes : Plan[h] = i
                    BY <2>2, <3>4, <4>2 DEF PlanFacts
                <5>2. h >= F
                    BY <2>3, <3>1, <3>4, <5>1
                <5> QED BY <2>3, <3>4, <5>1, <5>2 DEF Settled
            <4> QED BY <2>2, <3>1, <4>1, <4>2 DEF PlanFacts
        <3>5. CASE i \notin to /\ i \notin from /\ i \notin occupied
            <4>1. CASE i < nUsed
                <5>1. i \in Holes /\ i >= F
                    BY <2>2, <2>3, <3>1, <3>5, <4>1 DEF PlanFacts
                <5> QED BY <2>3, <3>5, <5>1 DEF Settled
            <4>2. CASE i >= nUsed
                BY <2>3, <3>5, <4>2 DEF Settled
            <4> QED BY <2>2, <3>1, <4>1, <4>2 DEF PlanFacts
        <3> QED BY <3>2, <3>3, <3>4, <3>5
    <2>6. cells = result
        <3>1. cells \in [Cells -> Cells \cup {Free}]
            BY <2>2 DEF StateOK
        <3> QED BY <2>5, <3>1
    <2> QED BY <2>4, <2>6 DEF ImplementsPlan
<1> QED BY <1>1, Invariance, PTL

\* When the graph has run, every token's rows lie in its new cell, and the graph
\* copied no more blocks than there is room for.
THEOREM RowsArrive == Spec => []RowsFollowCells
<1>1. IndInv => RowsFollowCells
    <2>1. SUFFICES ASSUME IndInv, pc = "done"
                   PROVE  /\ \A i \in Cells : cells[i] # Free => rows[i] = cells[i]
                          /\ copies <= max
        BY DEF RowsFollowCells
    <2>2. StateOK /\ PlanFacts /\ copies \in Nat /\ max \in Nat
        BY <2>1, Numbers DEF IndInv
    <2>3. PICK F \in 0 .. nUsed : Settled(F) /\ MovesCounted(F) /\ CopiesOK(F)
        BY <2>1 DEF IndInv, CopyOK
    <2>4. ASSUME NEW i \in Cells, cells[i] # Free PROVE rows[i] = cells[i]
        <3>1. i \in Nat /\ \A h \in Holes : h \in Nat /\ (h < F \/ h >= F)
            BY <2>2, Indices DEF PlanFacts
        <3>2. CASE i \in Holes
            <4>1. i < F
                BY <2>3, <2>4, <3>1, <3>2 DEF Settled
            <4>2. Plan[i] < i1
                BY <2>1, <2>2, <2>3, <3>2 DEF CopiesOK, PlanFacts
            <4> QED BY <2>3, <3>2, <4>1, <4>2 DEF Settled, CopiesOK
        <3>3. CASE i \in occupied
            <4>1. cells[i] = i
                <5>1. CASE i < nUsed
                    BY <2>3, <3>3, <5>1 DEF Settled
                <5>2. CASE i >= nUsed
                    <6>1. PICK h \in Holes : Plan[h] = i
                        BY <2>2, <3>3, <5>2 DEF PlanFacts
                    <6>2. h >= F
                        BY <2>3, <2>4, <3>1, <6>1 DEF Settled
                    <6> QED BY <2>3, <6>1, <6>2 DEF Settled
                <5> QED BY <2>2, <3>1, <5>1, <5>2 DEF PlanFacts
            <4> QED BY <2>3, <3>3, <4>1 DEF CopiesOK
        <3>4. CASE i \notin Holes /\ i \notin occupied
            BY <2>2, <2>3, <2>4, <3>1, <3>4 DEF Settled, PlanFacts
        <3> QED BY <3>2, <3>3, <3>4
    <2>5. copies <= max
        <3>1. IsFiniteSet(Starts(F)) /\ Cardinality(Starts(F)) <= max /\ Cardinality(Starts(F)) \in Nat
            BY <2>2, <2>3, StartsFinite DEF MovesCounted, StateOK
        <3>2. {h \in Starts(F) : Plan[h] < i1} \subseteq Starts(F)
            OBVIOUS
        <3>3. Cardinality({h \in Starts(F) : Plan[h] < i1}) <= Cardinality(Starts(F))
              /\ Cardinality({h \in Starts(F) : Plan[h] < i1}) \in Nat
            BY <3>1, <3>2, FS_Subset, FS_CardinalityType
        <3> QED BY <2>2, <2>3, <3>1, <3>3 DEF CopiesOK
    <2> QED BY <2>4, <2>5
<1> QED BY <1>1, Invariance, PTL
=============================================================================
