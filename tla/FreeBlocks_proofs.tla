-------------------------- MODULE FreeBlocks_proofs --------------------------
(***************************************************************************)
(* What the operations of FreeBlocks do to the set of free units, for      *)
(* every list of blocks that is sorted and has gaps.                       *)
(***************************************************************************)
EXTENDS FreeBlocks, SequenceTheorems, WellFoundedInduction, TLAPS

Blocks == [offset : Nat, size : Nat]
FreeList(bs) ==
    /\ bs \in Seq(Blocks)
    /\ \A k \in 1 .. Len(bs) : bs[k].size >= 1 /\ End(bs[k]) <= Limit
    /\ \A k, l \in 1 .. Len(bs) : k < l => End(bs[k]) < bs[l].offset

\* Whether unit a is in block b, and whether it is free.
In(a, b) == b.offset <= a /\ a < End(b)
Free(bs, a) == \E k \in 1 .. Len(bs) : In(a, bs[k])

-----------------------------------------------------------------------------
(* Sets of numbers and sequences.                                          *)

LEMMA Least ==
    ASSUME NEW T \in SUBSET Nat, T # {}
    PROVE  \E x \in T : \A y \in T : x <= y
<1>1. IsWellFoundedOn(OpToRel(<, Nat), Nat)
    BY NatLessThanWellFounded
<1>2. PICK x \in T : \A y \in T : <<y, x>> \notin OpToRel(<, Nat)
    BY <1>1, WFMin
<1>3. ASSUME NEW y \in T, y < x PROVE FALSE
    <2>1. <<y, x>> \in OpToRel(<, Nat)
        BY <1>3 DEF OpToRel
    <2> QED BY <1>2, <2>1
<1>4. \A y \in T : ~ (y < x)
    BY <1>3
<1> QED BY <1>4

LEMMA Most ==
    ASSUME NEW n \in Nat, NEW T \in SUBSET (0 .. n), T # {}
    PROVE  \E x \in T : \A y \in T : y <= x
<1> DEFINE D == {d \in Nat : n - d \in T}
<1>1. D # {}
    <2>1. PICK y \in T : TRUE
        OBVIOUS
    <2>2. n - y \in Nat /\ n - (n - y) = y
        OBVIOUS
    <2> QED BY <2>2
<1>2. PICK d \in D : \A c \in D : d <= c
    <2>1. D \in SUBSET Nat
        OBVIOUS
    <2> HIDE DEF D
    <2> QED BY <1>1, <2>1, Least
<1>3. \A y \in T : n - y \in D
    OBVIOUS
<1>4. \A y \in T : d <= n - y
    BY <1>2, <1>3
<1>5. n - d \in T /\ d \in Nat
    BY <1>2
<1>6. \A y \in T : y <= n - d
    BY <1>4, <1>5
<1> QED BY <1>5, <1>6

LEMMA Cut ==
    ASSUME NEW S, NEW s \in Seq(S), NEW m \in 1 .. Len(s) + 1, NEW n \in m - 1 .. Len(s)
    PROVE  /\ SubSeq(s, m, n) \in Seq(S)
           /\ Len(SubSeq(s, m, n)) = n - m + 1
           /\ \A k \in 1 .. n - m + 1 : SubSeq(s, m, n)[k] = s[m + k - 1]
<1>1. Len(s) \in Nat /\ m \in Int /\ n \in Int /\ \A k \in m .. n : s[k] \in S
    OBVIOUS
<1>2. SubSeq(s, m, n) \in Seq(S) /\ Len(SubSeq(s, m, n)) = (IF m <= n THEN n - m + 1 ELSE 0)
      /\ \A k \in 1 .. n - m + 1 : SubSeq(s, m, n)[k] = s[m + k - 1]
    BY <1>1, SubSeqProperties
<1>3. Len(SubSeq(s, m, n)) = n - m + 1
    BY <1>1, <1>2
<1> QED BY <1>2, <1>3

LEMMA Removed ==
    ASSUME NEW S, NEW s \in Seq(S), NEW p \in 1 .. Len(s)
    PROVE  /\ RemoveAt(s, p) \in Seq(S)
           /\ Len(RemoveAt(s, p)) = Len(s) - 1
           /\ \A k \in 1 .. Len(s) - 1 : RemoveAt(s, p)[k] = IF k < p THEN s[k] ELSE s[k + 1]
<1> DEFINE u == SubSeq(s, 1, p - 1)
           v == SubSeq(s, p + 1, Len(s))
           r == u \o v
<1>0. Len(s) \in Nat /\ p - 1 \in 1 - 1 .. Len(s) /\ Len(s) \in p + 1 - 1 .. Len(s)
    OBVIOUS
<1>1. u \in Seq(S) /\ Len(u) = p - 1 /\ \A k \in 1 .. p - 1 : u[k] = s[k]
    <2>1. /\ u \in Seq(S) /\ Len(u) = p - 1 - 1 + 1
          /\ \A k \in 1 .. p - 1 - 1 + 1 : u[k] = s[1 + k - 1]
        BY <1>0, Cut
    <2> HIDE DEF u
    <2> QED BY <1>0, <2>1
<1>2. v \in Seq(S) /\ Len(v) = Len(s) - p /\ \A k \in 1 .. Len(s) - p : v[k] = s[p + k]
    <2>1. /\ v \in Seq(S) /\ Len(v) = Len(s) - (p + 1) + 1
          /\ \A k \in 1 .. Len(s) - (p + 1) + 1 : v[k] = s[(p + 1) + k - 1]
        BY <1>0, Cut
    <2> HIDE DEF v
    <2>2. \A k \in 1 .. Len(s) - p : (p + 1) + k - 1 = p + k
        BY <1>0
    <2> QED BY <1>0, <2>1, <2>2
<1>3. RemoveAt(s, p) = r
    BY DEF RemoveAt
<1> HIDE DEF u, v
<1>4. /\ r \in Seq(S) /\ Len(r) = Len(u) + Len(v)
      /\ \A k \in 1 .. Len(u) + Len(v) : r[k] = IF k <= Len(u) THEN u[k] ELSE v[k - Len(u)]
    BY <1>1, <1>2, ConcatProperties
<1> HIDE DEF r
<1>5. Len(r) = Len(s) - 1
    BY <1>0, <1>1, <1>2, <1>4
<1>6. ASSUME NEW k \in 1 .. Len(s) - 1
      PROVE  r[k] = IF k < p THEN s[k] ELSE s[k + 1]
    <2>1. r[k] = IF k <= p - 1 THEN u[k] ELSE v[k - (p - 1)]
        BY <1>0, <1>1, <1>2, <1>4
    <2>2. CASE k < p
        BY <1>0, <1>1, <2>1, <2>2
    <2>3. CASE k >= p
        <3>1. PICK m \in 1 .. Len(s) - p : m = k - (p - 1)
            BY <1>0, <2>3
        <3>2. p + m = k + 1 /\ ~ (k <= p - 1) /\ ~ (k < p)
            BY <2>3, <3>1
        <3>3. v[m] = s[k + 1]
            BY <1>2, <3>2
        <3> QED BY <2>1, <3>1, <3>2, <3>3
    <2> QED BY <1>0, <2>2, <2>3
<1> QED BY <1>3, <1>4, <1>5, <1>6

Inserts(r, s, p, e) ==
    /\ Len(r) = Len(s) + 1
    /\ \A k \in 1 .. Len(s) + 1 : r[k] = IF k < p THEN s[k] ELSE IF k = p THEN e ELSE s[k - 1]

LEMMA Inserted ==
    ASSUME NEW S, NEW s \in Seq(S), NEW p \in 1 .. Len(s) + 1, NEW e \in S
    PROVE  InsertAt(s, p, e) \in Seq(S) /\ Inserts(InsertAt(s, p, e), s, p, e)
<1> DEFINE u == SubSeq(s, 1, p - 1)
           v == SubSeq(s, p, Len(s))
           w == Append(u, e)
           r == w \o v
<1>0. Len(s) \in Nat /\ p - 1 \in 1 - 1 .. Len(s) /\ Len(s) \in p - 1 .. Len(s)
    OBVIOUS
<1>1. u \in Seq(S) /\ Len(u) = p - 1 /\ \A k \in 1 .. p - 1 : u[k] = s[k]
    <2>1. /\ u \in Seq(S) /\ Len(u) = p - 1 - 1 + 1
          /\ \A k \in 1 .. p - 1 - 1 + 1 : u[k] = s[1 + k - 1]
        BY <1>0, Cut
    <2> HIDE DEF u
    <2> QED BY <1>0, <2>1
<1>2. v \in Seq(S) /\ Len(v) = Len(s) - p + 1 /\ \A k \in 1 .. Len(s) - p + 1 : v[k] = s[p + k - 1]
    BY <1>0, Cut
<1> HIDE DEF u, v
<1>3. InsertAt(s, p, e) = r
    <2>1. u \o <<e>> = Append(u, e)
        BY <1>1
    <2> QED BY <2>1 DEF InsertAt, u, v
<1>4. w \in Seq(S) /\ Len(w) = Len(u) + 1 /\ w[Len(u) + 1] = e /\ \A k \in 1 .. Len(u) : w[k] = u[k]
    BY <1>1
<1> HIDE DEF w
<1>5. Len(w) = p /\ \A k \in 1 .. p : w[k] = IF k < p THEN s[k] ELSE e
    BY <1>0, <1>1, <1>4
<1>6. /\ r \in Seq(S) /\ Len(r) = Len(w) + Len(v)
      /\ \A k \in 1 .. Len(w) + Len(v) : r[k] = IF k <= Len(w) THEN w[k] ELSE v[k - Len(w)]
    BY <1>2, <1>4, ConcatProperties
<1> HIDE DEF r
<1>7. Len(r) = Len(s) + 1
    BY <1>0, <1>2, <1>5, <1>6
<1>8. ASSUME NEW k \in 1 .. Len(s) + 1
      PROVE  r[k] = IF k < p THEN s[k] ELSE IF k = p THEN e ELSE s[k - 1]
    <2>1. r[k] = IF k <= p THEN w[k] ELSE v[k - p]
        BY <1>0, <1>2, <1>5, <1>6
    <2>2. CASE k <= p
        BY <1>5, <2>1, <2>2
    <2>3. CASE k > p
        <3>1. PICK m \in 1 .. Len(s) - p + 1 : m = k - p
            BY <1>0, <2>3
        <3>2. p + m - 1 = k - 1 /\ ~ (k <= p) /\ ~ (k < p) /\ k # p
            BY <2>3, <3>1
        <3>3. v[m] = s[k - 1]
            BY <1>2, <3>2
        <3> QED BY <2>1, <3>1, <3>2, <3>3
    <2> QED BY <2>2, <2>3
<1> QED BY <1>3, <1>6, <1>7, <1>8 DEF Inserts

-----------------------------------------------------------------------------
(* Lists of free blocks.                                                   *)

LEMMA BlockIs ==
    ASSUME NEW bs, FreeList(bs), NEW k \in 1 .. Len(bs)
    PROVE  /\ bs[k] \in Blocks /\ bs[k].offset \in Nat /\ bs[k].size \in Nat \ {0}
           /\ End(bs[k]) = bs[k].offset + bs[k].size /\ End(bs[k]) \in 0 .. Limit
<1>1. bs[k] \in Blocks
    BY DEF FreeList
<1>2. bs[k].offset \in Nat /\ bs[k].size \in Nat
    BY <1>1 DEF Blocks
<1>3. bs[k].size >= 1 /\ End(bs[k]) <= Limit
    BY DEF FreeList
<1>4. End(bs[k]) = bs[k].offset + bs[k].size
    BY DEF End
<1> QED BY <1>1, <1>2, <1>3, <1>4, LimitAssumption

\* No unit is in two blocks.
LEMMA OneBlock ==
    ASSUME NEW bs, FreeList(bs), NEW k \in 1 .. Len(bs), NEW l \in 1 .. Len(bs),
           NEW a \in Int, In(a, bs[k]), In(a, bs[l])
    PROVE  k = l
<1>1. /\ End(bs[k]) \in Int /\ End(bs[l]) \in Int
      /\ bs[k].offset \in Int /\ bs[l].offset \in Int
    BY BlockIs
<1>2. k < l => End(bs[k]) < bs[l].offset
    BY DEF FreeList
<1>3. l < k => End(bs[l]) < bs[k].offset
    BY DEF FreeList
<1>4. Len(bs) \in Nat
    BY DEF FreeList
<1>5. k \in Int /\ l \in Int
    BY <1>4
<1> QED BY <1>1, <1>2, <1>3, <1>5 DEF In

LEMMA ResetList == FreeList(Reset) /\ \A a \in Int : Free(Reset, a) <=> a \in 0 .. Limit - 1
<1>1. Block(0, Limit) \in Blocks
    BY LimitAssumption DEF Block, Blocks
<1>2. /\ Reset \in Seq(Blocks) /\ Len(Reset) = 1
      /\ Reset[1].offset = 0 /\ Reset[1].size = Limit
    BY <1>1 DEF Reset, Block
<1> QED BY <1>2, LimitAssumption DEF FreeList, Free, In, End

\* A block is removed from the list.
LEMMA RemovedList ==
    ASSUME NEW bs, FreeList(bs), NEW b \in 1 .. Len(bs)
    PROVE  /\ FreeList(RemoveAt(bs, b))
           /\ \A a \in Int : Free(RemoveAt(bs, b), a) <=> Free(bs, a) /\ ~ In(a, bs[b])
<1> DEFINE r == RemoveAt(bs, b)
<1>1. bs \in Seq(Blocks) /\ Len(bs) \in Nat
    BY DEF FreeList
<1>2. /\ r \in Seq(Blocks) /\ Len(r) = Len(bs) - 1
      /\ \A k \in 1 .. Len(bs) - 1 : r[k] = IF k < b THEN bs[k] ELSE bs[k + 1]
    BY <1>1, Removed
<1> HIDE DEF r
<1>3. \A k \in 1 .. Len(r) : \E l \in 1 .. Len(bs) : l # b /\ r[k] = bs[l] /\ l = IF k < b THEN k ELSE k + 1
    <2> TAKE k \in 1 .. Len(r)
    <2>1. PICK l \in 1 .. Len(bs) : l # b /\ l = IF k < b THEN k ELSE k + 1
        BY <1>1, <1>2
    <2>2. r[k] = bs[l]
        BY <1>1, <1>2, <2>1
    <2> QED BY <2>1, <2>2
<1>4. \A l \in 1 .. Len(bs) : l # b => \E k \in 1 .. Len(r) : r[k] = bs[l]
    <2> SUFFICES ASSUME NEW l \in 1 .. Len(bs), l # b PROVE \E k \in 1 .. Len(r) : r[k] = bs[l]
        OBVIOUS
    <2>1. CASE l < b
        BY <1>1, <1>2, <2>1
    <2>2. CASE l > b
        <3>1. l - 1 \in 1 .. Len(bs) - 1 /\ ~ (l - 1 < b) /\ (l - 1) + 1 = l
            BY <1>1, <2>2
        <3> QED BY <1>2, <3>1
    <2> QED BY <1>1, <2>1, <2>2
<1>5. FreeList(r)
    <2>1. \A k \in 1 .. Len(r) : r[k].size >= 1 /\ End(r[k]) <= Limit
        BY <1>3 DEF FreeList
    <2>2. \A k, l \in 1 .. Len(r) : k < l => End(r[k]) < r[l].offset
        <3> SUFFICES ASSUME NEW k \in 1 .. Len(r), NEW l \in 1 .. Len(r), k < l
                     PROVE  End(r[k]) < r[l].offset
            OBVIOUS
        <3>1. PICK m \in 1 .. Len(bs) : r[k] = bs[m] /\ m = IF k < b THEN k ELSE k + 1
            BY <1>3
        <3>2. PICK n \in 1 .. Len(bs) : r[l] = bs[n] /\ n = IF l < b THEN l ELSE l + 1
            BY <1>3
        <3>3. m < n
            BY <1>1, <1>2, <3>1, <3>2
        <3> QED BY <3>1, <3>2, <3>3 DEF FreeList
    <2> QED BY <1>2, <2>1, <2>2 DEF FreeList
<1>6. ASSUME NEW a \in Int PROVE Free(r, a) <=> Free(bs, a) /\ ~ In(a, bs[b])
    <2>1. ASSUME NEW l \in 1 .. Len(bs), l # b, In(a, bs[l]) PROVE ~ In(a, bs[b])
        BY <2>1, OneBlock
    <2> QED BY <1>3, <1>4, <2>1 DEF Free
<1> QED BY <1>5, <1>6 DEF r

\* A block is replaced by one that keeps the distance to the others.
LEMMA ReplacedList ==
    ASSUME NEW bs, FreeList(bs), NEW b \in 1 .. Len(bs), NEW c \in Blocks,
           c.size >= 1, End(c) <= Limit,
           \A k \in 1 .. Len(bs) : /\ k < b => End(bs[k]) < c.offset
                                   /\ k > b => End(c) < bs[k].offset
    PROVE  /\ FreeList([bs EXCEPT ![b] = c])
           /\ \A a \in Int : Free([bs EXCEPT ![b] = c], a) <=> In(a, c) \/ (Free(bs, a) /\ ~ In(a, bs[b]))
<1> DEFINE r == [bs EXCEPT ![b] = c]
<1>1. bs \in Seq(Blocks) /\ Len(bs) \in Nat
    BY DEF FreeList
<1>2. r \in Seq(Blocks) /\ Len(r) = Len(bs) /\ r[b] = c /\ \A k \in 1 .. Len(bs) : k # b => r[k] = bs[k]
    BY <1>1
<1> HIDE DEF r
<1>3. FreeList(r)
    <2>1. \A k \in 1 .. Len(r) : r[k].size >= 1 /\ End(r[k]) <= Limit
        BY <1>2 DEF FreeList
    <2>2. \A k, l \in 1 .. Len(r) : k < l => End(r[k]) < r[l].offset
        <3> SUFFICES ASSUME NEW k \in 1 .. Len(r), NEW l \in 1 .. Len(r), k < l
                     PROVE  End(r[k]) < r[l].offset
            OBVIOUS
        <3>1. End(bs[k]) < bs[l].offset
            BY <1>2 DEF FreeList
        <3>2. ~ (k = b /\ l = b)
            BY <1>1, <1>2
        <3> QED BY <1>2, <3>1, <3>2
    <2> QED BY <1>2, <2>1, <2>2 DEF FreeList
<1>4. ASSUME NEW a \in Int PROVE Free(r, a) <=> In(a, c) \/ (Free(bs, a) /\ ~ In(a, bs[b]))
    <2>1. ASSUME NEW l \in 1 .. Len(bs), l # b, In(a, bs[l]) PROVE ~ In(a, bs[b])
        BY <2>1, OneBlock
    <2> QED BY <1>2, <2>1 DEF Free
<1> QED BY <1>3, <1>4 DEF r

\* Taking the beginning of a block makes just these units unavailable.
LEMMA TakenList ==
    ASSUME NEW bs, FreeList(bs), NEW b \in 1 .. Len(bs), NEW size \in Nat \ {0}, size <= bs[b].size
    PROVE  /\ FreeList(Taken(bs, b, size))
           /\ \A a \in Int : Free(Taken(bs, b, size), a) <=>
                 Free(bs, a) /\ ~ (bs[b].offset <= a /\ a < bs[b].offset + size)
<1> DEFINE o == bs[b].offset
           n == bs[b].size
<1>1. o \in Nat /\ n \in Nat /\ End(bs[b]) = o + n /\ End(bs[b]) \in 0 .. Limit
    BY BlockIs
<1>2. CASE n = size
    <2>1. \A a \in Int : In(a, bs[b]) <=> o <= a /\ a < o + size
        BY <1>1, <1>2 DEF In
    <2> QED BY <1>2, <2>1, RemovedList DEF Taken
<1>3. CASE n # size
    <2> DEFINE c == Block(o + size, n - size)
    <2>1. c \in Blocks /\ c.offset = o + size /\ c.size = n - size /\ c.size >= 1
        <3>1. o + size \in Nat /\ n - size \in Nat /\ n - size >= 1
            BY <1>1, <1>3
        <3>2. c = [offset |-> o + size, size |-> n - size]
            BY DEF Block
        <3> HIDE DEF o, n, c
        <3> QED BY <3>1, <3>2 DEF Blocks
    <2>2. End(c) = End(bs[b]) /\ End(c) <= Limit
        <3>1. End(c) = c.offset + c.size
            BY DEF End
        <3>2. size \in Nat /\ Limit \in Nat
            BY LimitAssumption
        <3> HIDE DEF o, n, c
        <3> QED BY ONLY <1>1, <2>1, <3>1, <3>2
    <2>3. Taken(bs, b, size) = [bs EXCEPT ![b] = c]
        BY <1>3 DEF Taken
    <2> HIDE DEF c
    <2>4. ASSUME NEW k \in 1 .. Len(bs)
          PROVE  /\ k < b => End(bs[k]) < c.offset
                 /\ k > b => End(c) < bs[k].offset
        <3>1. End(bs[k]) \in Int
            BY BlockIs
        <3>2. k < b => End(bs[k]) < o
            BY DEF FreeList
        <3>3. k > b => End(bs[b]) < bs[k].offset
            BY DEF FreeList
        <3> QED BY <1>1, <2>1, <2>2, <3>1, <3>2, <3>3
    <2>5. /\ FreeList([bs EXCEPT ![b] = c])
          /\ \A a \in Int : Free([bs EXCEPT ![b] = c], a) <=> In(a, c) \/ (Free(bs, a) /\ ~ In(a, bs[b]))
        BY <2>1, <2>2, <2>4, ReplacedList
    <2>6. ASSUME NEW a \in Int
          PROVE  /\ In(a, c) <=> In(a, bs[b]) /\ ~ (o <= a /\ a < o + size)
                 /\ o <= a /\ a < o + size => In(a, bs[b])
        BY <1>1, <2>1, <2>2 DEF In
    <2>7. \A a \in Int : In(a, bs[b]) => Free(bs, a)
        BY DEF Free
    <2> QED BY <2>3, <2>5, <2>6, <2>7
<1> QED BY <1>2, <1>3

\* A block is inserted between two others.
LEMMA InsertedList ==
    ASSUME NEW bs, FreeList(bs), NEW p \in 1 .. Len(bs) + 1, NEW c \in Blocks,
           c.size >= 1, End(c) <= Limit,
           \A k \in 1 .. Len(bs) : /\ k < p => End(bs[k]) < c.offset
                                   /\ k >= p => End(c) < bs[k].offset
    PROVE  /\ FreeList(InsertAt(bs, p, c))
           /\ \A a \in Int : Free(InsertAt(bs, p, c), a) <=> In(a, c) \/ Free(bs, a)
<1> DEFINE r == InsertAt(bs, p, c)
<1>1. bs \in Seq(Blocks) /\ Len(bs) \in Nat
    BY DEF FreeList
<1>2. /\ r \in Seq(Blocks) /\ Len(r) = Len(bs) + 1
      /\ \A k \in 1 .. Len(bs) + 1 : r[k] = IF k < p THEN bs[k] ELSE IF k = p THEN c ELSE bs[k - 1]
    <2>1. c \in Blocks /\ p \in 1 .. Len(bs) + 1 /\ bs \in Seq(Blocks)
        BY <1>1
    <2>2. r \in Seq(Blocks) /\ Inserts(r, bs, p, c)
        BY ONLY <2>1, Inserted
    <2> QED BY ONLY <2>2 DEF Inserts
<1> HIDE DEF r
<1>3. \A k \in 1 .. Len(r) : \/ k = p /\ r[k] = c
                             \/ \E l \in 1 .. Len(bs) : r[k] = bs[l] /\ ((k < p /\ l = k) \/ (k > p /\ l = k - 1))
    BY <1>1, <1>2
<1>4. \A l \in 1 .. Len(bs) : \E k \in 1 .. Len(r) : r[k] = bs[l]
    <2> SUFFICES ASSUME NEW l \in 1 .. Len(bs) PROVE \E k \in 1 .. Len(r) : r[k] = bs[l]
        OBVIOUS
    <2>1. CASE l < p
        <3>1. l \in 1 .. Len(bs) + 1
            BY <1>1
        <3>2. r[l] = bs[l]
            BY <1>2, <2>1, <3>1
        <3> QED BY <1>2, <3>1, <3>2
    <2>2. CASE l >= p
        <3>1. PICK k \in 1 .. Len(bs) + 1 : k - 1 = l /\ ~ (k < p) /\ k # p
            <4>1. l + 1 \in 1 .. Len(bs) + 1 /\ (l + 1) - 1 = l /\ ~ (l + 1 < p) /\ l + 1 # p
                BY <1>1, <2>2
            <4> QED BY <4>1
        <3>2. r[k] = bs[k - 1]
            BY <1>2, <3>1
        <3> QED BY <1>2, <3>1, <3>2
    <2> QED BY <1>1, <2>1, <2>2
<1>5. r[p] = c /\ p \in 1 .. Len(r)
    BY <1>1, <1>2
<1>6. FreeList(r)
    <2>1. \A k \in 1 .. Len(r) : r[k].size >= 1 /\ End(r[k]) <= Limit
        BY <1>3 DEF FreeList
    <2>2. \A k, l \in 1 .. Len(r) : k < l => End(r[k]) < r[l].offset
        <3> SUFFICES ASSUME NEW k \in 1 .. Len(r), NEW l \in 1 .. Len(r), k < l
                     PROVE  End(r[k]) < r[l].offset
            OBVIOUS
        <3>0. k \in Int /\ l \in Int /\ p \in Int
            BY <1>1, <1>2
        <3>1. CASE k = p
            <4>1. PICK n \in 1 .. Len(bs) : r[l] = bs[n] /\ n = l - 1
                BY <1>3, <3>0, <3>1
            <4> QED BY <1>5, <3>0, <3>1, <4>1
        <3>2. CASE l = p
            <4>1. PICK n \in 1 .. Len(bs) : r[k] = bs[n] /\ n = k
                BY <1>3, <3>0, <3>2
            <4> QED BY <1>5, <3>0, <3>2, <4>1
        <3>3. CASE k # p /\ l # p
            <4>1. PICK m \in 1 .. Len(bs) : r[k] = bs[m] /\ ((k < p /\ m = k) \/ (k > p /\ m = k - 1))
                BY <1>3, <3>3
            <4>2. PICK n \in 1 .. Len(bs) : r[l] = bs[n] /\ ((l < p /\ n = l) \/ (l > p /\ n = l - 1))
                BY <1>3, <3>3
            <4>3. m < n
                BY <3>0, <4>1, <4>2
            <4> QED BY <4>1, <4>2, <4>3 DEF FreeList
        <3> QED BY <3>1, <3>2, <3>3
    <2> QED BY <1>2, <2>1, <2>2 DEF FreeList
<1>7. ASSUME NEW a \in Int PROVE Free(r, a) <=> In(a, c) \/ Free(bs, a)
    BY <1>3, <1>4, <1>5 DEF Free
<1> QED BY <1>6, <1>7 DEF r

LEMMA InsertPosIs ==
    ASSUME NEW bs, FreeList(bs), NEW o \in Nat
    PROVE  LET p == InsertPos(bs, o)
           IN  /\ p \in 1 .. Len(bs) + 1
               /\ \A k \in 1 .. p - 1 : bs[k].offset < o
               /\ p <= Len(bs) => bs[p].offset >= o
<1> DEFINE T == {q \in 1 .. Len(bs) + 1 : q <= Len(bs) => bs[q].offset >= o}
<1>1. Len(bs) \in Nat
    BY DEF FreeList
<1>2. Len(bs) + 1 \in T /\ T \in SUBSET Nat
    BY <1>1
<1>3. PICK q \in T : \A r \in T : q <= r
    BY <1>2, Least
<1>4. ASSUME NEW k \in 1 .. q - 1 PROVE bs[k].offset < o
    <2>1. k \in 1 .. Len(bs) /\ k < q
        BY <1>1, <1>3
    <2>2. k \notin T
        BY <1>1, <1>3, <2>1
    <2>3. ~ (bs[k].offset >= o)
        BY <1>1, <2>1, <2>2
    <2> QED BY <2>1, <2>3, BlockIs
<1> QED BY <1>4 DEF InsertPos

\* A freed place touches the blocks around it or has a gap to them.
LEMMA FreedApart ==
    ASSUME NEW bs, FreeList(bs), NEW o \in Nat, NEW size \in Nat \ {0},
           \A a \in o .. o + size - 1 : ~ Free(bs, a), NEW k \in 1 .. Len(bs)
    PROVE  End(bs[k]) <= o \/ o + size <= bs[k].offset
<1>1. /\ bs[k].offset \in Nat /\ bs[k].size \in Nat \ {0}
      /\ End(bs[k]) = bs[k].offset + bs[k].size /\ End(bs[k]) \in Int
    BY BlockIs
<1>2. SUFFICES ASSUME o < End(bs[k]), bs[k].offset < o + size PROVE FALSE
    BY <1>1
<1>3. CASE bs[k].offset <= o
    <2>1. In(o, bs[k]) /\ o \in o .. o + size - 1
        BY <1>1, <1>2, <1>3 DEF In
    <2> QED BY <2>1 DEF Free
<1>4. CASE o <= bs[k].offset
    <2>1. In(bs[k].offset, bs[k]) /\ bs[k].offset \in o .. o + size - 1
        BY <1>1, <1>2, <1>4 DEF In
    <2> QED BY <2>1 DEF Free
<1> QED BY <1>1, <1>3, <1>4

\* Block i grows by the place behind it, up to the next block or not.
LEMMA GrownList ==
    ASSUME NEW bs, FreeList(bs), NEW o \in Nat, NEW size \in Nat \ {0}, o + size <= Limit,
           \A a \in o .. o + size - 1 : ~ Free(bs, a),
           NEW i \in 1 .. Len(bs), End(bs[i]) = o
    PROVE  /\ FreeList(Grown(bs, i, size))
           /\ \A a \in Int : Free(Grown(bs, i, size), a) <=> Free(bs, a) \/ (o <= a /\ a < o + size)
<1>0. bs \in Seq(Blocks) /\ Len(bs) \in Nat
    BY DEF FreeList
<1>1. /\ bs[i].offset \in Nat /\ bs[i].size \in Nat \ {0} /\ bs[i] \in Blocks
      /\ o = bs[i].offset + bs[i].size
    BY BlockIs
<1>2. \A a \in Int : In(a, bs[i]) => Free(bs, a)
    BY DEF Free
<1>3. CASE i < Len(bs) /\ o + size = bs[i + 1].offset
    <2> DEFINE n == bs[i + 1].size
               c == [bs[i] EXCEPT !.size = @ + size + n]
               q == RemoveAt(bs, i + 1)
               r == [q EXCEPT ![i] = c]
    <2>1. i + 1 \in 1 .. Len(bs) /\ n \in Nat \ {0} /\ End(bs[i + 1]) = o + size + n /\ End(bs[i + 1]) <= Limit
        <3>1. i + 1 \in 1 .. Len(bs)
            BY <1>0, <1>3
        <3> QED BY <1>3, <3>1, BlockIs DEF FreeList
    <2>2. c \in Blocks /\ c.offset = bs[i].offset /\ c.size = bs[i].size + size + n
        <3>0. size \in Nat /\ n \in Nat
            BY <2>1
        <3> HIDE DEF n
        <3>1. bs[i].size + size + n \in Nat
            BY ONLY <1>1, <3>0
        <3> QED BY <1>1, <3>1 DEF Blocks
    <2>3. c.size >= 1 /\ End(c) = End(bs[i + 1]) /\ End(c) <= Limit
        <3> HIDE DEF c
        <3>1. End(c) = c.offset + c.size
            BY DEF End
        <3>2. c.offset + c.size = o + size + n /\ c.size >= 1
            <4>1. size \in Nat \ {0} /\ n \in Nat \ {0}
                BY <2>1
            <4>2. bs[i].offset \in Nat /\ bs[i].size \in Nat /\ o = bs[i].offset + bs[i].size
                BY <1>1
            <4>3. c.offset = bs[i].offset /\ c.size = bs[i].size + size + n
                BY <2>2
            <4> HIDE DEF n
            <4> QED BY ONLY <4>1, <4>2, <4>3
        <3> QED BY <2>1, <3>1, <3>2
    <2>4. /\ q \in Seq(Blocks) /\ Len(q) = Len(bs) - 1
          /\ \A k \in 1 .. Len(bs) - 1 : q[k] = IF k < i + 1 THEN bs[k] ELSE bs[k + 1]
        BY <1>0, <2>1, Removed
    <2>5. /\ FreeList(q)
          /\ \A a \in Int : Free(q, a) <=> Free(bs, a) /\ ~ In(a, bs[i + 1])
        BY <2>1, RemovedList
    <2> HIDE DEF q, c
    <2>6. i \in 1 .. Len(q) /\ q[i] = bs[i]
        BY <1>0, <2>1, <2>4
    <2>7. ASSUME NEW k \in 1 .. Len(q)
          PROVE  /\ k < i => End(q[k]) < c.offset
                 /\ k > i => End(c) < q[k].offset
        <3>1. CASE k < i
            <4>1. q[k] = bs[k] /\ k \in 1 .. Len(bs)
                BY <1>0, <2>4, <3>1
            <4>2. End(bs[k]) < bs[i].offset
                BY <3>1, <4>1 DEF FreeList
            <4> QED BY <2>2, <3>1, <4>1, <4>2
        <3>2. CASE k > i
            <4>1. PICK l \in 1 .. Len(bs) : q[k] = bs[l] /\ l > i + 1
                BY <1>0, <2>4, <3>2
            <4>2. End(bs[i + 1]) < bs[l].offset
                BY <2>1, <4>1 DEF FreeList
            <4> QED BY <2>3, <3>2, <4>1, <4>2
        <3>3. CASE k = i
            BY <3>3
        <3> QED BY <1>0, <2>4, <3>1, <3>2, <3>3
    <2>8. /\ FreeList(r)
          /\ \A a \in Int : Free(r, a) <=> In(a, c) \/ (Free(q, a) /\ ~ In(a, q[i]))
        BY <2>2, <2>3, <2>5, <2>6, <2>7, ReplacedList
    <2>9. Grown(bs, i, size) = r
        <3> DEFINE e == [bs EXCEPT ![i] = c]
                   g == RemoveAt(e, i + 1)
        <3>1. e \in Seq(Blocks) /\ Len(e) = Len(bs) /\ e[i] = c /\ \A k \in 1 .. Len(bs) : k # i => e[k] = bs[k]
            BY <1>0, <2>2
        <3>2. Grown(bs, i, size) = g
            <4>1. e = [bs EXCEPT ![i].size = @ + size + bs[i + 1].size]
                BY DEF c
            <4> QED BY <1>3, <4>1 DEF Grown
        <3> HIDE DEF e
        <3>3. /\ g \in Seq(Blocks) /\ Len(g) = Len(bs) - 1
              /\ \A k \in 1 .. Len(bs) - 1 : g[k] = IF k < i + 1 THEN e[k] ELSE e[k + 1]
            <4>1. i + 1 \in 1 .. Len(e) /\ e \in Seq(Blocks)
                BY <2>1, <3>1
            <4>2. /\ g \in Seq(Blocks) /\ Len(g) = Len(e) - 1
                  /\ \A k \in 1 .. Len(e) - 1 : g[k] = IF k < i + 1 THEN e[k] ELSE e[k + 1]
                BY ONLY <4>1, Removed
            <4> QED BY <3>1, <4>2
        <3>4. r \in Seq(Blocks) /\ Len(r) = Len(bs) - 1 /\ r[i] = c
              /\ \A k \in 1 .. Len(bs) - 1 : k # i => r[k] = q[k]
            BY <1>0, <2>2, <2>4, <2>6
        <3> HIDE DEF g, r
        <3>5. \A k \in 1 .. Len(bs) - 1 : g[k] = r[k]
            <4> SUFFICES ASSUME NEW k \in 1 .. Len(bs) - 1 PROVE g[k] = r[k]
                OBVIOUS
            <4>1. CASE k = i
                BY <1>0, <3>1, <3>3, <3>4, <4>1
            <4>2. CASE k < i
                BY <1>0, <2>4, <3>1, <3>3, <3>4, <4>2
            <4>3. CASE k > i
                <5>1. k + 1 \in 1 .. Len(bs) /\ k + 1 # i /\ ~ (k < i + 1)
                    BY <1>0, <4>3
                <5>2. g[k] = bs[k + 1]
                    BY <3>1, <3>3, <5>1
                <5>3. r[k] = bs[k + 1]
                    BY <2>4, <3>4, <4>3, <5>1
                <5> QED BY <5>2, <5>3
            <4> QED BY <1>0, <4>1, <4>2, <4>3
        <3>6. g = r
            BY <3>3, <3>4, <3>5, SeqEqual
        <3> QED BY <3>2, <3>6
    <2>10. ASSUME NEW a \in Int
           PROVE  In(a, c) <=> In(a, bs[i]) \/ (o <= a /\ a < o + size) \/ In(a, bs[i + 1])
        <3> DEFINE f == bs[i].offset
                   z == End(bs[i + 1])
        <3>1. In(a, c) <=> f <= a /\ a < z
            BY <2>2, <2>3 DEF In
        <3>2. In(a, bs[i]) <=> f <= a /\ a < o
            BY DEF In
        <3>3. In(a, bs[i + 1]) <=> o + size <= a /\ a < z
            BY <1>3 DEF In
        <3>4. f \in Nat /\ f <= o /\ z \in Int /\ o + size <= z
            <4> HIDE DEF n
            <4> QED BY <1>1, <2>1
        <3> HIDE DEF f, z
        <3> QED BY <3>1, <3>2, <3>3, <3>4
    <2>11. \A a \in Int : In(a, bs[i + 1]) => Free(bs, a)
        BY <2>1 DEF Free
    <2> HIDE DEF r
    <2> QED BY <1>2, <2>5, <2>6, <2>8, <2>9, <2>10, <2>11
<1>4. CASE ~ (i < Len(bs) /\ o + size = bs[i + 1].offset)
    <2> DEFINE c == [bs[i] EXCEPT !.size = @ + size]
    <2>1. c \in Blocks /\ c.offset = bs[i].offset /\ c.size = bs[i].size + size
        BY <1>1 DEF Blocks
    <2>2. c.size >= 1 /\ End(c) = o + size
        BY <1>1, <2>1 DEF End
    <2>3. Grown(bs, i, size) = [bs EXCEPT ![i] = c]
        BY <1>4 DEF Grown
    <2> HIDE DEF c
    <2>4. ASSUME NEW k \in 1 .. Len(bs)
          PROVE  /\ k < i => End(bs[k]) < c.offset
                 /\ k > i => End(c) < bs[k].offset
        <3>1. k < i => End(bs[k]) < c.offset
            BY <2>1 DEF FreeList
        <3>2. ASSUME k > i PROVE End(c) < bs[k].offset
            <4>1. i + 1 \in 1 .. Len(bs) /\ i < Len(bs) /\ i < i + 1
                BY <1>0, <3>2
            <4>2. End(bs[i]) < bs[i + 1].offset
                BY <4>1 DEF FreeList
            <4>3. /\ bs[i + 1].offset \in Nat /\ bs[i + 1].size \in Nat \ {0}
                  /\ End(bs[i + 1]) = bs[i + 1].offset + bs[i + 1].size
                BY <4>1, BlockIs
            <4>4. End(bs[i + 1]) <= o \/ o + size <= bs[i + 1].offset
                BY <4>1, FreedApart
            <4>5. o + size < bs[i + 1].offset
                BY <1>4, <4>1, <4>2, <4>3, <4>4
            <4>6. bs[k].offset \in Nat
                BY BlockIs
            <4>7. k = i + 1 \/ End(bs[i + 1]) < bs[k].offset
                <5>1. k = i + 1 \/ i + 1 < k
                    BY <1>0, <3>2
                <5> QED BY <4>1, <5>1 DEF FreeList
            <4> QED BY <2>2, <4>3, <4>5, <4>6, <4>7
        <3> QED BY <3>1, <3>2
    <2>5. /\ FreeList([bs EXCEPT ![i] = c])
          /\ \A a \in Int : Free([bs EXCEPT ![i] = c], a) <=> In(a, c) \/ (Free(bs, a) /\ ~ In(a, bs[i]))
        BY <2>1, <2>2, <2>4, ReplacedList
    <2>6. ASSUME NEW a \in Int
          PROVE  In(a, c) <=> In(a, bs[i]) \/ (o <= a /\ a < o + size)
        BY <1>1, <2>1, <2>2 DEF In
    <2> QED BY <1>2, <2>3, <2>5, <2>6
<1> QED BY <1>3, <1>4

\* Freeing a place makes just its units available, and the list stays sorted
\* with a gap between any two blocks.
LEMMA FreedList ==
    ASSUME NEW bs, FreeList(bs), NEW o \in Nat, NEW size \in Nat \ {0}, o + size <= Limit,
           \A a \in o .. o + size - 1 : ~ Free(bs, a)
    PROVE  /\ FreeList(Freed(bs, o, size))
           /\ \A a \in Int : Free(Freed(bs, o, size), a) <=> Free(bs, a) \/ (o <= a /\ a < o + size)
<1> DEFINE Touches(k) == End(bs[k]) = o \/ o + size = bs[k].offset
           touching == {k \in 1 .. Len(bs) : Touches(k)}
           c == Block(o, size)
<1>0. bs \in Seq(Blocks) /\ Len(bs) \in Nat
    BY DEF FreeList
<1>1. ASSUME NEW k \in 1 .. Len(bs)
      PROVE  /\ bs[k].offset \in Nat /\ bs[k].size \in Nat \ {0}
             /\ End(bs[k]) = bs[k].offset + bs[k].size
             /\ End(bs[k]) <= o \/ o + size <= bs[k].offset
    BY BlockIs, FreedApart
<1>2. CASE touching = {}
    <2> DEFINE p == InsertPos(bs, o)
    <2>1. Freed(bs, o, size) = InsertAt(bs, p, c)
        BY <1>2 DEF Freed
    <2>2. p \in 1 .. Len(bs) + 1 /\ (\A k \in 1 .. p - 1 : bs[k].offset < o) /\ (p <= Len(bs) => bs[p].offset >= o)
        BY InsertPosIs
    <2>3. c \in Blocks /\ c.offset = o /\ c.size >= 1 /\ End(c) = o + size
        BY DEF Block, Blocks, End
    <2> HIDE DEF p, c
    <2>4. ASSUME NEW k \in 1 .. Len(bs)
          PROVE  /\ k < p => End(bs[k]) < c.offset
                 /\ k >= p => End(c) < bs[k].offset
        <3>1. End(bs[k]) # o /\ o + size # bs[k].offset
            BY <1>2
        <3>2. ASSUME k < p PROVE End(bs[k]) < o
            <4>1. bs[k].offset < o
                BY <1>0, <2>2, <3>2
            <4> QED BY <1>1, <3>1, <4>1
        <3>3. ASSUME k >= p PROVE o + size < bs[k].offset
            <4>1. p \in 1 .. Len(bs)
                BY <1>0, <2>2, <3>3
            <4>2. bs[p].offset >= o /\ bs[p].offset \in Nat /\ End(bs[p]) = bs[p].offset + bs[p].size /\ bs[p].size \in Nat
                BY <1>1, <2>2, <4>1
            <4>3. k = p \/ End(bs[p]) < bs[k].offset
                <5>1. k = p \/ p < k
                    BY <1>0, <3>3, <4>1
                <5> QED BY <4>1, <5>1 DEF FreeList
            <4>4. bs[k].offset >= o
                BY <1>1, <4>2, <4>3
            <4>5. /\ bs[k].offset \in Nat /\ bs[k].size \in Nat \ {0}
                  /\ End(bs[k]) = bs[k].offset + bs[k].size
                  /\ End(bs[k]) <= o \/ o + size <= bs[k].offset
                BY <1>1
            <4>6. o + size <= bs[k].offset
                BY <4>4, <4>5
            <4> QED BY <3>1, <4>5, <4>6
        <3> QED BY <2>3, <3>2, <3>3
    <2>5. /\ FreeList(InsertAt(bs, p, c))
          /\ \A a \in Int : Free(InsertAt(bs, p, c), a) <=> In(a, c) \/ Free(bs, a)
        BY <2>2, <2>3, <2>4, InsertedList
    <2>6. \A a \in Int : In(a, c) <=> o <= a /\ a < o + size
        BY <2>3 DEF In
    <2> QED BY <2>1, <2>5, <2>6
<1>3. CASE touching # {}
    <2> DEFINE i == CHOOSE k \in touching : \A l \in touching : k <= l
    <2>1. i \in touching /\ \A l \in touching : i <= l
        <3>1. touching \in SUBSET Nat
            BY <1>0
        <3> HIDE DEF touching
        <3>2. \E k \in touching : \A l \in touching : k <= l
            BY <1>3, <3>1, Least
        <3> QED BY <3>2
    <2>2. Freed(bs, o, size) = IF End(bs[i]) = o THEN Grown(bs, i, size)
                               ELSE [bs EXCEPT ![i] = Block(o, bs[i].size + size)]
        BY <1>3 DEF Freed
    <2> HIDE DEF i
    <2>3. i \in 1 .. Len(bs)
        BY <2>1
    <2>4. CASE End(bs[i]) = o
        BY <2>2, <2>3, <2>4, GrownList
    <2>5. CASE End(bs[i]) # o
        <3> DEFINE d == Block(o, bs[i].size + size)
        <3>1. o + size = bs[i].offset
            BY <2>1, <2>5
        <3>2. bs[i].size \in Nat \ {0} /\ End(bs[i]) = bs[i].offset + bs[i].size /\ End(bs[i]) <= Limit
            BY <1>1, <2>3 DEF FreeList
        <3>3. d \in Blocks /\ d.offset = o /\ d.size = bs[i].size + size
            BY <3>2 DEF Block, Blocks
        <3> HIDE DEF d
        <3>4. d.size >= 1 /\ End(d) = End(bs[i]) /\ End(d) <= Limit
            BY <3>1, <3>2, <3>3 DEF End
        <3>5. ASSUME NEW k \in 1 .. Len(bs)
              PROVE  /\ k < i => End(bs[k]) < d.offset
                     /\ k > i => End(d) < bs[k].offset
            <4>1. ASSUME k < i PROVE End(bs[k]) < o
                <5>1. k \notin touching
                    BY <1>0, <2>1, <4>1
                <5>2. End(bs[k]) < bs[i].offset
                    BY <2>3, <4>1 DEF FreeList
                <5>3. End(bs[k]) # o
                    BY <5>1
                <5>4. ~ (o + size <= bs[k].offset)
                    BY <1>1, <3>1, <5>2
                <5>5. End(bs[k]) <= o
                    BY <1>1, <5>4
                <5>6. End(bs[k]) \in Int
                    BY <1>1
                <5> QED BY <5>3, <5>5, <5>6
            <4>2. k > i => End(bs[i]) < bs[k].offset
                BY <2>3 DEF FreeList
            <4> QED BY <3>3, <3>4, <4>1, <4>2
        <3>6. /\ FreeList([bs EXCEPT ![i] = d])
              /\ \A a \in Int : Free([bs EXCEPT ![i] = d], a) <=> In(a, d) \/ (Free(bs, a) /\ ~ In(a, bs[i]))
            BY <2>3, <3>3, <3>4, <3>5, ReplacedList
        <3>7. ASSUME NEW a \in Int
              PROVE  In(a, d) <=> In(a, bs[i]) \/ (o <= a /\ a < o + size)
            BY <3>1, <3>2, <3>3, <3>4 DEF In
        <3>8. Freed(bs, o, size) = [bs EXCEPT ![i] = d]
            BY <2>2, <2>5 DEF d
        <3>9. \A a \in Int : In(a, bs[i]) => Free(bs, a)
            BY <2>3 DEF Free
        <3> QED BY <3>6, <3>7, <3>8, <3>9
    <2> QED BY <2>4, <2>5
<1> QED BY <1>2, <1>3

\* If everything above m is free, the last block begins at or before m.
LEMMA LastBlock ==
    ASSUME NEW bs, FreeList(bs), NEW m \in 0 .. Limit - 1,
           \A a \in m .. Limit - 1 : Free(bs, a)
    PROVE  /\ Len(bs) >= 1
           /\ bs[Len(bs)].offset <= m /\ End(bs[Len(bs)]) = Limit
<1>0. bs \in Seq(Blocks) /\ Len(bs) \in Nat /\ Limit \in Nat
    BY LimitAssumption DEF FreeList
<1>1. PICK k \in 1 .. Len(bs) : In(m, bs[k])
    BY <1>0 DEF Free
<1>2. bs[k].offset <= m /\ m < End(bs[k]) /\ End(bs[k]) \in 0 .. Limit
    BY <1>1, BlockIs DEF In
<1>3. End(bs[k]) = Limit
    <2> SUFFICES ASSUME End(bs[k]) < Limit PROVE FALSE
        BY <1>0, <1>2
    <2>1. End(bs[k]) \in m .. Limit - 1
        BY <1>0, <1>2
    <2>2. PICK l \in 1 .. Len(bs) : In(End(bs[k]), bs[l])
        BY <2>1 DEF Free
    <2>3. bs[l].offset <= End(bs[k]) /\ End(bs[k]) < End(bs[l]) /\ bs[l].offset \in Nat /\ End(bs[l]) \in Int
        BY <2>2, BlockIs DEF In
    <2>4. ~ (k < l)
        BY <1>2, <2>3 DEF FreeList
    <2>5. ~ (l < k)
        <3>1. l < k => End(bs[l]) < bs[k].offset
            BY DEF FreeList
        <3>2. bs[k].offset \in Nat /\ bs[k].offset < End(bs[k])
            BY <1>1, <1>2, BlockIs
        <3> QED BY <1>2, <2>3, <3>1, <3>2
    <2>6. k = l
        BY <1>0, <2>4, <2>5
    <2> QED BY <1>2, <2>3, <2>6
<1>4. k = Len(bs)
    <2> SUFFICES ASSUME k # Len(bs) PROVE FALSE
        OBVIOUS
    <2>1. Len(bs) \in 1 .. Len(bs) /\ k < Len(bs)
        BY <1>0, <1>1
    <2>2. End(bs[k]) < bs[Len(bs)].offset
        BY <2>1 DEF FreeList
    <2>3. /\ End(bs[Len(bs)]) = bs[Len(bs)].offset + bs[Len(bs)].size /\ End(bs[Len(bs)]) <= Limit
          /\ bs[Len(bs)].offset \in Nat /\ bs[Len(bs)].size \in Nat
        BY <2>1, BlockIs DEF FreeList
    <2> QED BY <1>0, <1>3, <2>2, <2>3
<1> QED BY <1>0, <1>1, <1>2, <1>3, <1>4

\* The best fit is a block that is large enough and begins at or before m.
LEMMA BestFitIs ==
    ASSUME NEW bs, FreeList(bs), NEW m \in 0 .. Limit - 1,
           \A a \in m .. Limit - 1 : Free(bs, a),
           NEW size \in Nat \ {0}, m + size <= Limit
    PROVE  LET b == BestFit(bs, size)
           IN  b \in 1 .. Len(bs) /\ size <= bs[b].size /\ bs[b].offset <= m
<1> DEFINE n == Len(bs)
           fits == {k \in 1 .. n - 1 : bs[k].size >= size}
           b == BestFit(bs, size)
<1>0. bs \in Seq(Blocks) /\ n \in Nat /\ Limit \in Nat
    BY LimitAssumption DEF FreeList
<1>1. n \in 1 .. n /\ bs[n].offset <= m /\ End(bs[n]) = Limit
    BY <1>0, LastBlock
<1>2. \A k \in 1 .. n : bs[k].size \in Nat /\ bs[k].offset \in Nat /\ End(bs[k]) = bs[k].offset + bs[k].size
    BY BlockIs
<1>3. bs[n].size >= size
    BY <1>0, <1>1, <1>2
<1>4. \E k \in 1 .. n : IsBestFit(bs, size, k)
    <2>1. CASE fits = {}
        BY <1>1, <1>3, <2>1 DEF IsBestFit
    <2>2. CASE fits # {}
        <3> DEFINE sizes == {bs[k].size : k \in fits}
        <3>1. sizes \in SUBSET Nat /\ sizes # {}
            <4>1. \A k \in fits : bs[k].size \in Nat
                BY <1>0, <1>2
            <4> HIDE DEF fits
            <4> QED BY <2>2, <4>1
        <3>2. PICK z \in sizes : \A y \in sizes : z <= y
            <4> HIDE DEF sizes
            <4> QED BY <3>1, Least
        <3> DEFINE smallest == {k \in fits : bs[k].size = z}
        <3>3. smallest # {} /\ smallest \in SUBSET (0 .. n)
            BY <1>0, <3>2
        <3>4. PICK k \in smallest : \A l \in smallest : l <= k
            <4> HIDE DEF smallest
            <4> QED BY <1>0, <3>3, Most
        <3>5. ASSUME NEW l \in fits
              PROVE  bs[k].size < bs[l].size \/ (bs[k].size = bs[l].size /\ l <= k)
            <4>1. bs[l].size \in sizes /\ bs[l].size \in Nat /\ bs[k].size = z /\ z \in Nat
                BY <1>0, <1>2, <3>4
            <4>2. z <= bs[l].size
                BY <3>2, <4>1
            <4>3. z = bs[l].size => l <= k
                BY <3>4
            <4>4. z = bs[l].size \/ z < bs[l].size
                BY ONLY <4>1, <4>2
            <4> QED BY <4>1, <4>3, <4>4
        <3>6. k \in fits /\ k \in 1 .. n
            BY <1>0, <3>4
        <3> HIDE DEF smallest, sizes
        <3>7. IsBestFit(bs, size, k)
            BY <2>2, <3>5, <3>6 DEF IsBestFit
        <3> QED BY <3>6, <3>7
    <2> QED BY <2>1, <2>2
<1>5. b \in 1 .. n /\ IsBestFit(bs, size, b)
    BY <1>4 DEF BestFit
<1> HIDE DEF b
<1>6. CASE fits = {}
    BY <1>1, <1>5, <1>6 DEF IsBestFit, b
<1>7. CASE fits # {}
    <2>1. b \in fits
        BY <1>5, <1>7 DEF IsBestFit
    <2>2. b < n
        BY <1>0, <2>1
    <2>3. End(bs[b]) < bs[n].offset
        BY <1>1, <1>5, <2>2 DEF FreeList
    <2> QED BY <1>0, <1>1, <1>2, <1>5, <2>1, <2>3 DEF b
<1> QED BY <1>6, <1>7
=============================================================================
