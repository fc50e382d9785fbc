-------------------------- MODULE CommonLog_proofs --------------------------
(***************************************************************************)
(* Proofs about CommonLog, for every capacity of the ring, every number of *)
(* calls and every set of files.                                           *)
(*                                                                         *)
(* The inductive invariant has three parts: RingOK, the ring and what the  *)
(* entries between head and tail may carry; ControlOK, where the worker    *)
(* can be in each stage of the controller's call; and OutputsOK, types.    *)
(* All of it holds for callers that pause at any time, but for one         *)
(* conjunct: the end mark is in the ring as long as the worker has to stop *)
(* only if a second entry was free when it was put there (~ AnyPause).     *)
(***************************************************************************)
EXTENDS CommonLog, SequenceTheorems, TLAPS

RingTypes ==
    /\ entries \in Seq(Entry) /\ Size >= Capacity
    /\ head \in 0 .. Size - 1 /\ tail \in 0 .. Size - 1

\* The mark of pause() is last; all other entries that wait hold a message.
Marked ==
    \A i \in 1 .. Count :
        /\ Nth(i).isEnd <=> Ending /\ i = Count
        /\ ~ Nth(i).isEnd => Nth(i).msg \in 1 .. MaxCalls

\* A worker that has ended leaves an empty ring.
RingOK ==
    /\ RingTypes
    /\ Marked
    /\ worker = "ended" => Count = 0
    /\ ~ AnyPause /\ Ending => Count > 0

\* The worker has ended exactly if pause() has been through; until then the
\* controller waits for it.
ControlOK ==
    /\ calls \in 0 .. MaxCalls
    /\ running \in BOOLEAN
    /\ worker \in {"check", "asleep", "print", "write", "ended"}
    /\ op \in Ops \cup {"none"}
    /\ stage \in {"idle", "join", "paused", "resume", "gone"}
    /\ running => stage = "idle" /\ worker # "ended"
    /\ ~ running /\ stage # "join" => worker = "ended"
    /\ cur \in Entry
    /\ worker \in {"print", "write"} => cur.msg \in 1 .. MaxCalls

OutputsOK ==
    /\ console \in Seq(1 .. MaxCalls)
    /\ file \in Files \cup {None} /\ files \in [Files -> Seq(1 .. MaxCalls)]

IndInv == RingOK /\ ControlOK /\ OutputsOK

-----------------------------------------------------------------------------
(* Indices of the ring.                                                    *)

LEMMA SizeOK == RingTypes => Size \in Nat /\ Size >= 2
BY LogAssumption DEF RingTypes, Size

\* The number of entries that wait, and the place of the i-th one.
LEMMA Counted ==
    ASSUME RingTypes
    PROVE  /\ Count = IF tail >= head THEN tail - head ELSE tail - head + Size
           /\ Count \in 0 .. Size - 1
<1>1. PICK n \in Nat \ {0} : n = Size
    BY SizeOK
<1>2. head \in 0 .. n - 1 /\ tail \in 0 .. n - 1
    BY <1>1 DEF RingTypes
<1>3. (tail - head) % n = IF tail >= head THEN tail - head ELSE tail - head + n
    BY <1>2
<1>4. Count = (tail - head) % n
    BY <1>1 DEF Count
<1> HIDE DEF Size
<1> QED BY <1>1, <1>2, <1>3, <1>4

LEMMA Placed ==
    ASSUME RingTypes, NEW i \in 1 .. Size
    PROVE  /\ (head + i - 1) % Size = IF head + i - 1 < Size THEN head + i - 1 ELSE head + i - 1 - Size
           /\ (head + i - 1) % Size \in 0 .. Size - 1
<1>1. PICK n \in Nat \ {0} : n = Size
    BY SizeOK
<1>2. head \in 0 .. n - 1 /\ i \in 1 .. n
    BY <1>1 DEF RingTypes
<1>3. (head + i - 1) % n = IF head + i - 1 < n THEN head + i - 1 ELSE head + i - 1 - n
    BY <1>2
<1> HIDE DEF Size
<1> QED BY <1>1, <1>2, <1>3

LEMMA AfterIs ==
    ASSUME RingTypes, NEW i \in 0 .. Size - 1
    PROVE  After(i) = IF i = Size - 1 THEN 0 ELSE i + 1
<1>1. PICK n \in Nat \ {0} : n = Size
    BY SizeOK
<1>2. i \in 0 .. n - 1
    BY <1>1
<1>3. (i + 1) % n = IF i = n - 1 THEN 0 ELSE i + 1
    BY <1>2
<1> HIDE DEF Size
<1> QED BY <1>1, <1>2, <1>3 DEF After

LEMMA NthOK ==
    ASSUME RingTypes, NEW i \in 1 .. Size
    PROVE  Nth(i) \in Entry
<1>1. PICK p \in 1 .. Size : p = ((head + i - 1) % Size) + 1
    BY Placed, SizeOK
<1>2. Nth(i) = entries[p]
    BY <1>1 DEF Nth
<1> QED BY <1>1, <1>2 DEF RingTypes, Size

\* The free place at the tail is none of the places that wait, and the one
\* that follows them.
LEMMA TailFree ==
    ASSUME RingTypes
    PROVE  /\ \A i \in 1 .. Count : (head + i - 1) % Size # tail
           /\ (head + (Count + 1) - 1) % Size = tail
<1>1. Size \in Nat /\ Size >= 2 /\ head \in 0 .. Size - 1 /\ tail \in 0 .. Size - 1
    BY SizeOK DEF RingTypes
<1>2. Count = (IF tail >= head THEN tail - head ELSE tail - head + Size) /\ Count \in 0 .. Size - 1
    BY Counted
<1>3. \A i \in 1 .. Size : (head + i - 1) % Size = IF head + i - 1 < Size THEN head + i - 1 ELSE head + i - 1 - Size
    BY Placed
<1>4. Count + 1 \in 1 .. Size /\ \A i \in 1 .. Count : i \in 1 .. Size
    BY <1>1, <1>2
<1> HIDE DEF Size, Count
<1> QED BY <1>1, <1>2, <1>3, <1>4

-----------------------------------------------------------------------------
(* Steps of the ring.                                                      *)

\* An entry is put at the tail of a ring that has another one free.
LEMMA Pushed ==
    ASSUME RingTypes, entries' \in Seq(Entry), Size' = Size,
           head' = head, tail' = After(tail), After(tail) # head
    PROVE  /\ RingTypes'
           /\ Count' = Count + 1
           /\ \A i \in 1 .. Count + 1 : Nth(i)' = entries'[((head + i - 1) % Size) + 1]
<1>1. PICK n \in Nat : n = Size /\ n >= 2 /\ head \in 0 .. n - 1 /\ tail \in 0 .. n - 1
    BY SizeOK DEF RingTypes
<1>2. tail' = (IF tail = n - 1 THEN 0 ELSE tail + 1) /\ tail' # head
    BY <1>1, AfterIs
<1>3. (tail' - head) % n = (IF tail' >= head THEN tail' - head ELSE tail' - head + n)
    BY <1>1, <1>2
<1>4. Count' = (tail' - head) % n
    BY <1>1 DEF Count
<1>5. RingTypes'
    BY <1>1, <1>2 DEF RingTypes
<1>6. Count = IF tail >= head THEN tail - head ELSE tail - head + n
    BY <1>1, Counted
<1>7. Count' = Count + 1
    <2> HIDE DEF Count
    <2> QED BY <1>1, <1>2, <1>3, <1>4, <1>6
<1> QED BY <1>5, <1>7 DEF Nth

\* Grow keeps what waits and appends what es holds at the tail, in a ring with
\* free entries and in a full one.
LEMMA Grown ==
    ASSUME RingTypes, NEW es \in Seq(Entry), Len(es) = Size, Grow(es)
    PROVE  /\ RingTypes'
           /\ Count' = Count + 1
           /\ \A i \in 1 .. Count + 1 : Nth(i)' = es[((head + i - 1) % Size) + 1]
<1>1. CASE After(tail) # head
    BY <1>1, Pushed DEF Grow, Size
<1>2. CASE After(tail) = head
    <2>1. PICK n \in Nat : n = Size /\ n >= 2 /\ head \in 0 .. n - 1 /\ tail \in 0 .. n - 1
        BY SizeOK DEF RingTypes
    <2>2. head = IF tail = n - 1 THEN 0 ELSE tail + 1
        BY <1>2, <2>1, AfterIs
    <2>3. Count = n - 1
        <3>1. Count = IF tail >= head THEN tail - head ELSE tail - head + n
            BY <2>1, Counted
        <3> HIDE DEF Count
        <3> QED BY <2>1, <2>2, <3>1
    <2>4. entries' = Rotated(es, head) \o Fresh(n) /\ head' = 0 /\ tail' = n
        BY <1>2, <2>1 DEF Grow
    <2>5. Rotated(es, head) \in Seq(Entry) /\ Len(Rotated(es, head)) = n
        <3>1. Rotated(es, head) = [i \in 1 .. n |-> es[((head + i - 1) % n) + 1]]
            BY <2>1 DEF Rotated
        <3>2. \A i \in 1 .. n : ((head + i - 1) % n) + 1 \in 1 .. n
            BY <2>1
        <3>3. \A j \in 1 .. n : es[j] \in Entry
            BY <2>1
        <3> QED BY <2>1, <3>1, <3>2, <3>3
    <2>6. Fresh(n) \in Seq(Entry) /\ Len(Fresh(n)) = n
        BY <2>1, LogAssumption DEF Fresh, Unused, Entry
    <2>7. /\ entries' \in Seq(Entry) /\ Len(entries') = 2 * n
          /\ \A i \in 1 .. n : entries'[i] = Rotated(es, head)[i]
        <3>1. \A r \in Seq(Entry), t \in Seq(Entry) :
                 /\ r \o t \in Seq(Entry) /\ Len(r \o t) = Len(r) + Len(t)
                 /\ \A i \in 1 .. Len(r) : (r \o t)[i] = r[i]
            OBVIOUS
        <3>2. PICK r \in Seq(Entry), t \in Seq(Entry) :
                 r = Rotated(es, head) /\ t = Fresh(n)
            BY <2>5, <2>6
        <3>3. entries' = r \o t /\ Len(r) = n /\ Len(t) = n
            BY <2>4, <2>5, <2>6, <3>2
        <3>4. entries' \in Seq(Entry)
            BY <3>1, <3>3
        <3>5. Len(entries') = n + n
            BY <3>1, <3>3
        <3>6. \A i \in 1 .. n : entries'[i] = r[i]
            BY <3>1, <3>3
        <3> QED BY <2>1, <3>2, <3>4, <3>5, <3>6
    <2>8. RingTypes'
        BY <2>1, <2>4, <2>7, LogAssumption DEF RingTypes, Size
    <2>9. Count' = n
        <3>1. n % (2 * n) = n
            BY <2>1
        <3> QED BY <2>1, <2>4, <2>7, <3>1 DEF Count, Size
    <2>10. ASSUME NEW i \in 1 .. Count + 1
           PROVE  Nth(i)' = es[((head + i - 1) % Size) + 1]
        <3>1. i \in 1 .. n
            BY <2>1, <2>3
        <3>2. (0 + i - 1) % (2 * n) = i - 1
            BY <2>1, <3>1
        <3>3. Nth(i)' = entries'[i]
            <4>1. Nth(i)' = entries'[((head' + i - 1) % Len(entries')) + 1]
                BY DEF Nth, Size
            <4>2. ((0 + i - 1) % (2 * n)) + 1 = i
                BY <3>1, <3>2
            <4> QED BY <2>4, <2>7, <4>1, <4>2
        <3> QED BY <2>1, <2>7, <3>1, <3>3 DEF Rotated
    <2> QED BY <2>1, <2>3, <2>8, <2>9, <2>10
<1> QED BY <1>1, <1>2

\* The first entry is taken out.
LEMMA Popped ==
    ASSUME RingTypes, entries' = entries, tail' = tail, head' = After(head), head # tail
    PROVE  /\ RingTypes'
           /\ Count >= 1 /\ Count' = Count - 1
           /\ Nth(1) = entries[head + 1]
           /\ \A i \in 1 .. Count - 1 : Nth(i)' = Nth(i + 1)
<1>1. PICK n \in Nat : n = Size /\ n >= 2 /\ head \in 0 .. n - 1 /\ tail \in 0 .. n - 1
    BY SizeOK DEF RingTypes
<1>2. head' = (IF head = n - 1 THEN 0 ELSE head + 1) /\ Size' = n
    BY <1>1, AfterIs DEF Size
<1>3. Count = IF tail >= head THEN tail - head ELSE tail - head + n
    BY <1>1, Counted
<1>4. (tail - head') % n = (IF tail >= head' THEN tail - head' ELSE tail - head' + n)
    BY <1>1, <1>2
<1>5. Count' = (tail - head') % n
    BY <1>1, <1>2 DEF Count
<1>6. Count >= 1 /\ Count' = Count - 1
    <2> HIDE DEF Count
    <2> QED BY <1>1, <1>2, <1>3, <1>4, <1>5
<1>7. RingTypes'
    BY <1>1, <1>2 DEF RingTypes
<1>8. Nth(1) = entries[head + 1]
    <2>1. (head + 1 - 1) % n = head
        BY <1>1
    <2> QED BY <1>1, <2>1 DEF Nth
<1>9. ASSUME NEW i \in 1 .. Count - 1
      PROVE  Nth(i)' = Nth(i + 1)
    <2>1. i \in 1 .. n - 2
        <3> HIDE DEF Count
        <3> QED BY <1>1, <1>3
    <2>2. (head + (i + 1) - 1) % n = IF head + i < n THEN head + i ELSE head + i - n
        BY <1>1, <2>1
    <2>3. (head' + i - 1) % n = IF head' + i - 1 < n THEN head' + i - 1 ELSE head' + i - 1 - n
        BY <1>1, <1>2, <2>1
    <2>4. (head' + i - 1) % n = (head + (i + 1) - 1) % n
        BY <1>1, <1>2, <2>1, <2>2, <2>3
    <2> QED BY <1>1, <1>2, <2>4 DEF Nth
<1> QED BY <1>6, <1>7, <1>8, <1>9

\* Nothing about the ring changes as long as neither the entries that wait nor
\* the end of the worker do.
LEMMA Unmoved ==
    ASSUME RingOK, UNCHANGED ring, UNCHANGED Ending, worker' = "ended" => worker = "ended"
    PROVE  RingOK'
<1>1. Count' = Count /\ \A i : Nth(i)' = Nth(i)
    BY DEF ring, Count, Nth, Size
<1>2. RingTypes'
    BY DEF RingOK, RingTypes, ring, Size
<1>3. Marked'
    BY <1>1 DEF RingOK, Marked
<1> QED BY <1>1, <1>2, <1>3 DEF RingOK

-----------------------------------------------------------------------------
(* Type correctness and the end mark.                                      *)

LEMMA InitOK == Init => IndInv
<1> SUFFICES ASSUME Init PROVE IndInv
    OBVIOUS
<1>1. Unused \in Entry
    BY LogAssumption DEF Unused, Entry
<1>2. RingTypes
    <2>1. Fresh(Capacity) \in Seq(Entry) /\ Len(Fresh(Capacity)) = Capacity
        BY <1>1, LogAssumption DEF Fresh
    <2> QED BY <2>1, LogAssumption DEF Init, RingTypes, Size
<1>3. Count = 0
    BY <1>2, Counted DEF Init
<1>4. RingOK
    BY <1>2, <1>3 DEF RingOK, Marked, Init, Ending
<1>5. ControlOK
    BY <1>1, LogAssumption DEF Init, ControlOK, Ops
<1>6. OutputsOK
    BY DEF Init, OutputsOK
<1> QED BY <1>4, <1>5, <1>6 DEF IndInv

LEMMA LoggedIs ==
    ASSUME NEW e \in Entry, NEW m \in 0 .. MaxCalls
    PROVE  Logged(e, m) \in Entry /\ Logged(e, m).msg = m /\ ~ Logged(e, m).isEnd
BY DEF Entry, Logged

\* What add() puts in the ring, and where.
LEMMA Added ==
    ASSUME IndInv, Add
    PROVE  /\ RingTypes'
           /\ Count' = Count + 1
           /\ \A i \in 1 .. Count : Nth(i)' = Nth(i)
           /\ \A i \in {Count + 1} : Nth(i)'.msg = calls + 1 /\ ~ Nth(i)'.isEnd
<1> DEFINE es == [entries EXCEPT ![tail + 1] = Logged(@, calls')]
<1>0. RingTypes
    BY DEF IndInv, RingOK
<1>1. Size \in Nat /\ Size >= 2 /\ entries \in Seq(Entry) /\ tail + 1 \in 1 .. Len(entries) /\ tail \in Nat
    BY <1>0, SizeOK DEF RingTypes, Size
<1>2. calls' = calls + 1 /\ calls' \in 0 .. MaxCalls /\ Grow(es)
    BY LogAssumption DEF Add, IndInv, ControlOK
<1>3. es \in Seq(Entry) /\ Len(es) = Size
    <2>1. Logged(entries[tail + 1], calls') \in Entry
        BY <1>1, <1>2, LoggedIs
    <2> QED BY <1>1, <2>1 DEF Size
<1>4. /\ RingTypes' /\ Count' = Count + 1
      /\ \A i \in 1 .. Count + 1 : Nth(i)' = es[((head + i - 1) % Size) + 1]
    <2> HIDE DEF es
    <2> QED BY <1>0, <1>2, <1>3, Grown
<1>5. Count \in 0 .. Size - 1
    BY <1>0, Counted
<1>6. \A i \in 1 .. Count : Nth(i)' = Nth(i)
    <2> SUFFICES ASSUME NEW i \in 1 .. Count PROVE Nth(i)' = Nth(i)
        OBVIOUS
    <2>1. i \in 1 .. Size /\ i \in 1 .. Count + 1
        BY <1>1, <1>5
    <2>2. (head + i - 1) % Size \in 0 .. Size - 1 /\ (head + i - 1) % Size # tail
        BY <1>0, <2>1, Placed, TailFree
    <2> DEFINE p == (head + i - 1) % Size
    <2>3. Nth(i)' = es[p + 1] /\ Nth(i) = entries[p + 1]
        BY <1>4, <2>1 DEF Nth
    <2> HIDE DEF p
    <2>4. p + 1 \in 1 .. Len(entries) /\ p + 1 # tail + 1
        BY <1>1, <2>2 DEF Size, p
    <2> QED BY <1>1, <2>3, <2>4
<1>7. \A i \in {Count + 1} : Nth(i)' = es[tail + 1]
    BY <1>0, <1>4, <1>5, TailFree
<1>8. es[tail + 1] = Logged(entries[tail + 1], calls')
    BY <1>1
<1>9. entries[tail + 1] \in Entry
    BY <1>1
<1>10. Logged(entries[tail + 1], calls').msg = calls + 1 /\ ~ Logged(entries[tail + 1], calls').isEnd
    BY <1>2, <1>9, LoggedIs
<1> HIDE DEF es
<1> QED BY <1>4, <1>6, <1>7, <1>8, <1>10

LEMMA AddKeeps == ASSUME IndInv, Add PROVE IndInv'
<1>1. /\ RingTypes' /\ Count' = Count + 1
      /\ \A i \in 1 .. Count : Nth(i)' = Nth(i)
      /\ \A i \in {Count + 1} : Nth(i)'.msg = calls + 1 /\ ~ Nth(i)'.isEnd
    BY Added
<1>2. ~ Ending /\ ~ Ending' /\ worker' # "ended"
    BY DEF Add, Ending, Notify, IndInv, ControlOK
<1>3. Count \in Nat
    BY Counted, SizeOK DEF IndInv, RingOK
<1>4. calls + 1 \in 1 .. MaxCalls
    BY LogAssumption DEF Add, IndInv, ControlOK
<1>5. Marked'
    <2> SUFFICES ASSUME NEW i \in 1 .. Count + 1
                 PROVE  ~ Nth(i)'.isEnd /\ Nth(i)'.msg \in 1 .. MaxCalls
        BY <1>1, <1>2 DEF Marked
    <2>1. CASE i \in 1 .. Count
        BY <1>1, <1>2, <2>1 DEF IndInv, RingOK, Marked
    <2>2. CASE i = Count + 1
        BY <1>1, <1>4, <2>2
    <2> QED BY <1>3, <2>1, <2>2
<1>6. RingOK'
    BY <1>1, <1>2, <1>5 DEF RingOK
<1>7. ControlOK'
    BY <1>4 DEF IndInv, ControlOK, Add, Notify, controller
<1>8. OutputsOK'
    BY DEF IndInv, OutputsOK, Add, outputs
<1> QED BY <1>6, <1>7, <1>8 DEF IndInv

\* The worker takes an entry: what waits moves up by one place.
LEMMA Took ==
    ASSUME IndInv, Take
    PROVE  /\ RingTypes'
           /\ Count >= 1 /\ Count' = Count - 1
           /\ cur' = Nth(1) /\ cur' \in Entry
           /\ \A i \in 1 .. Count - 1 : Nth(i)' = Nth(i + 1)
<1>1. RingTypes /\ head # tail /\ head' = After(head) /\ entries' = entries /\ tail' = tail
    BY DEF IndInv, RingOK, Take
<1>2. cur' = entries[head + 1]
    BY DEF Take
<1>3. 1 \in 1 .. Size
    BY <1>1, SizeOK
<1> QED BY <1>1, <1>2, <1>3, Popped, NthOK

LEMMA TakeKeeps == ASSUME IndInv, Take PROVE IndInv'
<1>1. /\ RingTypes' /\ Count >= 1 /\ Count' = Count - 1
      /\ cur' = Nth(1) /\ cur' \in Entry
      /\ \A i \in 1 .. Count - 1 : Nth(i)' = Nth(i + 1)
    BY Took
<1>2. Count \in Nat
    BY Counted, SizeOK DEF IndInv, RingOK
<1>3. Marked /\ running' = running /\ worker = "check"
    BY DEF IndInv, RingOK, Take
<1>4. worker' = IF cur'.isEnd THEN "ended" ELSE "print"
    BY DEF Take
<1>5. cur'.isEnd <=> Ending /\ Count = 1
    BY <1>1, <1>2, <1>3 DEF Marked
<1>6. ~ cur'.isEnd => cur'.msg \in 1 .. MaxCalls
    BY <1>1, <1>2, <1>3 DEF Marked
<1>7. Ending' <=> Ending /\ Count # 1
    BY <1>3, <1>4, <1>5 DEF Ending
<1>8. Marked'
    <2> SUFFICES ASSUME NEW i \in 1 .. Count - 1
                 PROVE  /\ Nth(i + 1).isEnd <=> Ending' /\ i = Count - 1
                        /\ ~ Nth(i + 1).isEnd => Nth(i + 1).msg \in 1 .. MaxCalls
        BY <1>1 DEF Marked
    <2>1. i + 1 \in 1 .. Count /\ (i + 1 = Count <=> i = Count - 1) /\ Count # 1
        BY <1>2
    <2> QED BY <1>3, <1>7, <2>1 DEF Marked
<1>9. RingOK'
    <2>1. worker' = "ended" => Count' = 0
        BY <1>1, <1>4, <1>5
    <2>2. ~ AnyPause /\ Ending' => Count' > 0
        BY <1>1, <1>2, <1>7
    <2> QED BY <1>1, <1>8, <2>1, <2>2 DEF RingOK
<1>10. ControlOK'
    BY <1>1, <1>3, <1>4, <1>5, <1>6 DEF IndInv, ControlOK, Take, controller, Ending
<1>11. OutputsOK'
    BY DEF IndInv, OutputsOK, Take, outputs
<1> QED BY <1>9, <1>10, <1>11 DEF IndInv

\* pause() marks the entry at the tail; if no other one is free, it makes the
\* ring look empty.
LEMMA Paused ==
    ASSUME IndInv, NEW o \in Ops, PauseRunning(o)
    PROVE  /\ RingTypes'
           /\ Roomy => /\ Count' = Count + 1
                       /\ \A i \in 1 .. Count : Nth(i)' = Nth(i)
                       /\ \A i \in {Count + 1} : Nth(i)'.isEnd
           /\ ~ Roomy => Count' = 0
<1> DEFINE es == [entries EXCEPT ![tail + 1].isEnd = TRUE]
<1>0. RingTypes
    BY DEF IndInv, RingOK
<1>1. Size \in Nat /\ Size >= 2 /\ entries \in Seq(Entry) /\ tail + 1 \in 1 .. Len(entries) /\ tail \in Nat
    BY <1>0, SizeOK DEF RingTypes, Size
<1>2. entries' = es /\ head' = head /\ tail' = After(tail)
    BY DEF PauseRunning
<1>3. es \in Seq(Entry) /\ Len(es) = Size /\ es[tail + 1].isEnd
    <2>1. entries[tail + 1] \in Entry
        BY <1>1
    <2>2. [entries[tail + 1] EXCEPT !.isEnd = TRUE] \in Entry /\ [entries[tail + 1] EXCEPT !.isEnd = TRUE].isEnd
        BY <2>1 DEF Entry
    <2>3. es = [entries EXCEPT ![tail + 1] = [entries[tail + 1] EXCEPT !.isEnd = TRUE]]
        OBVIOUS
    <2> QED BY <1>1, <2>2, <2>3 DEF Size
<1>4. entries' \in Seq(Entry) /\ Size' = Size
    BY <1>2, <1>3 DEF Size
<1>5. ASSUME Roomy
      PROVE  /\ RingTypes' /\ Count' = Count + 1
             /\ \A i \in 1 .. Count : Nth(i)' = Nth(i)
             /\ \A i \in {Count + 1} : Nth(i)'.isEnd
    <2>1. /\ RingTypes' /\ Count' = Count + 1
          /\ \A i \in 1 .. Count + 1 : Nth(i)' = entries'[((head + i - 1) % Size) + 1]
        BY <1>0, <1>2, <1>4, <1>5, Pushed DEF Roomy
    <2>2. Count \in 0 .. Size - 1
        BY <1>0, Counted
    <2>3. ASSUME NEW i \in 1 .. Count PROVE Nth(i)' = Nth(i)
        <3>1. i \in 1 .. Size /\ i \in 1 .. Count + 1
            BY <1>1, <2>2
        <3> DEFINE p == (head + i - 1) % Size
        <3>2. p \in 0 .. Size - 1 /\ p # tail
            BY <1>0, <3>1, Placed, TailFree
        <3>3. Nth(i)' = es[p + 1] /\ Nth(i) = entries[p + 1]
            BY <1>2, <2>1, <3>1 DEF Nth
        <3> HIDE DEF p
        <3>4. p + 1 \in 1 .. Len(entries) /\ p + 1 # tail + 1
            BY <1>1, <3>2 DEF Size
        <3> QED BY <1>1, <3>3, <3>4
    <2>4. \A i \in {Count + 1} : Nth(i)' = es[tail + 1]
        BY <1>0, <1>2, <2>1, <2>2, TailFree
    <2> HIDE DEF es
    <2> QED BY <1>3, <2>1, <2>3, <2>4
<1>6. ASSUME ~ Roomy PROVE RingTypes' /\ Count' = 0
    <2>1. tail' = head /\ head' = head
        BY <1>2, <1>6 DEF Roomy
    <2>2. RingTypes'
        BY <1>0, <1>4, <2>1 DEF RingTypes
    <2>3. PICK n \in Nat \ {0} : n = Size'
        BY <1>1, <1>4
    <2>4. head - head = 0 /\ 0 % n = 0
        <3>1. head \in Int
            BY <1>0, <1>1 DEF RingTypes
        <3>2. 0 % n = 0
            OBVIOUS
        <3> QED BY <3>1, <3>2
    <2>5. Count' = 0 % n
        BY <2>1, <2>3, <2>4 DEF Count
    <2> QED BY <2>2, <2>4, <2>5
<1> QED BY <1>5, <1>6

LEMMA PauseKeeps == ASSUME IndInv, NEW o \in Ops, PauseRunning(o) PROVE IndInv'
<1>1. /\ RingTypes'
      /\ Roomy => /\ Count' = Count + 1
                  /\ \A i \in 1 .. Count : Nth(i)' = Nth(i)
                  /\ \A i \in {Count + 1} : Nth(i)'.isEnd
      /\ ~ Roomy => Count' = 0
    BY Paused
<1>2. Count \in Nat
    BY Counted, SizeOK DEF IndInv, RingOK
<1>3. ~ Ending /\ Ending'
    BY DEF PauseRunning, Ending, IndInv, ControlOK, Notify
<1>4. Marked'
    <2>1. CASE ~ Roomy
        BY <1>1, <2>1 DEF Marked
    <2>2. CASE Roomy
        <3> SUFFICES ASSUME NEW i \in 1 .. Count + 1
                     PROVE  /\ Nth(i)'.isEnd <=> i = Count + 1
                            /\ ~ Nth(i)'.isEnd => Nth(i)'.msg \in 1 .. MaxCalls
            BY <1>1, <1>3, <2>2 DEF Marked
        <3>1. CASE i \in 1 .. Count
            BY <1>1, <1>2, <1>3, <2>2, <3>1 DEF IndInv, RingOK, Marked
        <3>2. CASE i = Count + 1
            BY <1>1, <2>2, <3>2
        <3> QED BY <1>2, <3>1, <3>2
    <2> QED BY <2>1, <2>2
<1>5. ~ AnyPause => Count' > 0
    BY <1>1, <1>2 DEF PauseRunning
<1>6. RingOK'
    BY <1>1, <1>3, <1>4, <1>5 DEF RingOK, Ending
<1>7. ControlOK'
    BY DEF IndInv, ControlOK, PauseRunning, Notify, outputs
<1>8. OutputsOK'
    BY DEF IndInv, OutputsOK, PauseRunning, outputs
<1> QED BY <1>6, <1>7, <1>8 DEF IndInv

LEMMA PrintKeeps == ASSUME IndInv, PrintEntry PROVE IndInv'
<1>1. RingOK'
    BY Unmoved DEF IndInv, PrintEntry, Ending
<1>2. ControlOK'
    BY DEF IndInv, ControlOK, PrintEntry, controller
<1>3. OutputsOK'
    BY DEF IndInv, OutputsOK, ControlOK, PrintEntry
<1> QED BY <1>1, <1>2, <1>3 DEF IndInv

LEMMA WriteKeeps == ASSUME IndInv, Write PROVE IndInv'
<1>1. RingOK'
    BY Unmoved DEF IndInv, Write, Ending
<1>2. ControlOK'
    BY DEF IndInv, ControlOK, Write, controller
<1>3. OutputsOK'
    <2>1. CASE file = None
        BY <2>1 DEF IndInv, OutputsOK, Write
    <2>2. CASE file # None
        <3>1. files[file] \in Seq(1 .. MaxCalls) /\ cur.msg \in 1 .. MaxCalls
            BY <2>2 DEF IndInv, OutputsOK, ControlOK, Write
        <3>2. Append(files[file], cur.msg) \in Seq(1 .. MaxCalls)
            BY <3>1
        <3> QED BY <2>2, <3>2 DEF IndInv, OutputsOK, Write
    <2> QED BY <2>1, <2>2
<1> QED BY <1>1, <1>2, <1>3 DEF IndInv

LEMMA SetFileKeeps == ASSUME IndInv, SetFile PROVE IndInv'
<1>1. RingOK'
    BY Unmoved DEF IndInv, SetFile, Ending
<1>2. ControlOK'
    BY DEF IndInv, ControlOK, SetFile
<1>3. OutputsOK'
    <2>1. << >> \in Seq(1 .. MaxCalls)
        OBVIOUS
    <2> QED BY <2>1 DEF IndInv, OutputsOK, SetFile
<1> QED BY <1>1, <1>2, <1>3 DEF IndInv

\* A step that only moves the worker or the controller between two places, and
\* the one that discards a call.
LEMMA ControlKeeps ==
    ASSUME IndInv,
           \/ Discard \/ Wait \/ WakeUp \/ Join \/ EndPause
           \/ SetColors \/ Resume \/ Destroy
           \/ \E o \in Ops : PausePaused(o)
    PROVE  IndInv'
<1>1. UNCHANGED ring
    BY DEF Discard, Wait, WakeUp, Join, EndPause, SetColors, Resume, Destroy, PausePaused
<1>2. UNCHANGED Ending
    BY DEF Discard, Wait, WakeUp, Join, EndPause, SetColors, Resume, Destroy, PausePaused,
           Ending, IndInv, ControlOK
<1>3. RingOK'
    <2>1. worker' = "ended" => worker = "ended"
        BY DEF Discard, Wait, WakeUp, Join, EndPause, SetColors, Resume, Destroy, PausePaused
    <2> QED BY <1>1, <1>2, <2>1, Unmoved DEF IndInv
<1>4. ControlOK'
    <2> USE DEF IndInv, ControlOK
    <2>1. CASE Discard
        BY <2>1, LogAssumption DEF Discard, controller
    <2>2. CASE Wait \/ WakeUp
        BY <2>2 DEF Wait, WakeUp, controller
    <2>3. CASE Join \/ EndPause \/ SetColors \/ Destroy
        BY <2>3 DEF Join, EndPause, SetColors, Destroy
    <2>4. CASE Resume
        BY <2>4 DEF Resume
    <2>5. CASE \E o \in Ops : PausePaused(o)
        BY <2>5 DEF PausePaused
    <2> QED BY <2>1, <2>2, <2>3, <2>4, <2>5
<1>5. OutputsOK'
    BY DEF Discard, Wait, WakeUp, Join, EndPause, SetColors, Resume, Destroy, PausePaused,
           IndInv, OutputsOK, outputs
<1> QED BY <1>3, <1>4, <1>5 DEF IndInv

LEMMA NextKeeps == IndInv /\ [Next]_vars => IndInv'
<1> SUFFICES ASSUME IndInv, [Next]_vars PROVE IndInv'
    OBVIOUS
<1>1. CASE UNCHANGED vars
    <2>1. RingOK'
        BY <1>1, Unmoved DEF IndInv, vars, Ending
    <2> QED BY <1>1, <2>1 DEF IndInv, ControlOK, OutputsOK, vars, outputs, controller
<1>2. CASE Next
    BY <1>2, AddKeeps, TakeKeeps, PauseKeeps, PrintKeeps, WriteKeeps, SetFileKeeps, ControlKeeps
       DEF Next, Worker, Proceed
<1> QED BY <1>1, <1>2

LEMMA Always == Spec => []IndInv
BY InitOK, NextKeeps, PTL DEF Spec

\* The ring, the indices and what is printed stay in their types for callers
\* that pause at any time, whatever number of times the ring grows.
THEOREM TypeCorrect == Spec => []TypeOK
<1>1. IndInv => TypeOK
    BY DEF IndInv, RingOK, RingTypes, ControlOK, OutputsOK, TypeOK
<1> QED BY <1>1, Always, PTL

\* If pause() is called only while a second entry is free, its end mark is in
\* the ring exactly as long as the worker has to stop, and is the last entry.
THEOREM MarkIsLast == ~ AnyPause => (Spec => []OneEndMark)
<1> SUFFICES ASSUME ~ AnyPause PROVE Spec => []OneEndMark
    OBVIOUS
<1>1. IndInv => OneEndMark
    BY DEF IndInv, RingOK, Marked, OneEndMark
<1> QED BY <1>1, Always, PTL

-----------------------------------------------------------------------------
(* Refinement of LogQueue.                                                 *)

Held == Taken \o Waiting

\* How many messages wait in the ring.
Messages == Count - (IF Ending THEN 1 ELSE 0)

LEMMA WaitingIs ==
    ASSUME IndInv, ~ AnyPause
    PROVE  /\ Messages \in 0 .. Count
           /\ Waiting \in Seq(1 .. MaxCalls) /\ Len(Waiting) = Messages
           /\ \A i \in 1 .. Messages : Waiting[i] = Nth(i).msg
<1>1. Count \in Nat
    BY Counted, SizeOK DEF IndInv, RingOK
<1>2. Messages \in 0 .. Count
    BY <1>1 DEF Messages, IndInv, RingOK
<1>3. \A i \in 1 .. Messages : Nth(i).msg \in 1 .. MaxCalls
    <2> SUFFICES ASSUME NEW i \in 1 .. Messages PROVE Nth(i).msg \in 1 .. MaxCalls
        OBVIOUS
    <2>1. i \in 1 .. Count /\ ~ (Ending /\ i = Count)
        BY <1>1, <1>2 DEF Messages
    <2> QED BY <2>1 DEF IndInv, RingOK, Marked
<1>4. Waiting = [i \in 1 .. Messages |-> Nth(i).msg]
    BY DEF Waiting, Messages
<1> HIDE DEF Messages
<1> QED BY <1>1, <1>2, <1>3, <1>4

LEMMA TakenIs ==
    ASSUME IndInv
    PROVE  /\ Taken \in Seq(1 .. MaxCalls)
           /\ worker \in {"print", "write"} => Taken = <<cur.msg>>
           /\ worker \notin {"print", "write"} => Taken = << >>
<1>1. CASE worker \in {"print", "write"}
    <2>1. cur.msg \in 1 .. MaxCalls
        BY <1>1 DEF IndInv, ControlOK
    <2>2. <<cur.msg>> \in Seq(1 .. MaxCalls)
        BY <2>1
    <2> QED BY <1>1, <2>2 DEF Taken
<1>2. CASE worker \notin {"print", "write"}
    BY <1>2 DEF Taken
<1> QED BY <1>1, <1>2

\* No step but the three that the queue knows of changes what is held.
LEMMA HeldUnmoved ==
    ASSUME UNCHANGED ring, UNCHANGED Ending, UNCHANGED Taken
    PROVE  Held' = Held
<1>1. Count' = Count /\ \A i : Nth(i)' = Nth(i)
    BY DEF ring, Count, Nth, Size
<1> QED BY <1>1 DEF Held, Waiting

LEMMA AddLogs ==
    ASSUME IndInv, ~ AnyPause, Add
    PROVE  Held' = Append(Held, calls')
<1>1. /\ Count' = Count + 1
      /\ \A i \in 1 .. Count : Nth(i)' = Nth(i)
      /\ \A i \in {Count + 1} : Nth(i)'.msg = calls + 1
    BY Added
<1>2. IndInv'
    BY AddKeeps
<1>3. ~ Ending /\ ~ Ending' /\ calls' = calls + 1
    BY DEF Add, Ending
<1>4. Taken' = Taken
    BY DEF Add, Notify, Taken
<1>5. Count \in Nat
    BY Counted, SizeOK DEF IndInv, RingOK
<1>6. Waiting = [i \in 1 .. Count |-> Nth(i).msg]
    BY <1>3, <1>5 DEF Waiting
<1>7. Waiting' = [i \in 1 .. Count + 1 |-> Nth(i)'.msg]
    BY <1>1, <1>3, <1>5 DEF Waiting
<1>8. Waiting \in Seq(1 .. MaxCalls) /\ Taken \in Seq(1 .. MaxCalls)
    BY WaitingIs, TakenIs
<1>9. calls' \in 1 .. MaxCalls
    BY <1>3, LogAssumption DEF Add, IndInv, ControlOK
<1>10. Waiting' = Append(Waiting, calls')
    BY <1>1, <1>3, <1>5, <1>6, <1>7
<1>11. \A u \in Seq(1 .. MaxCalls), v \in Seq(1 .. MaxCalls), e \in 1 .. MaxCalls :
          u \o Append(v, e) = Append(u \o v, e)
    OBVIOUS
<1> QED BY <1>4, <1>8, <1>9, <1>10, <1>11 DEF Held

\* The message that the worker takes stays the first that is held, and the end
\* mark was never among them.
LEMMA TakeHolds ==
    ASSUME IndInv, ~ AnyPause, Take
    PROVE  Held' = Held
<1>1. /\ Count >= 1 /\ Count' = Count - 1
      /\ cur' = Nth(1)
      /\ \A i \in 1 .. Count - 1 : Nth(i)' = Nth(i + 1)
    BY Took
<1>2. IndInv'
    BY TakeKeeps
<1>3. Count \in Nat
    BY Counted, SizeOK DEF IndInv, RingOK
<1>4. Taken = << >>
    BY TakenIs DEF Take
<1>5. Waiting \in Seq(1 .. MaxCalls) /\ Len(Waiting) = Messages
      /\ \A i \in 1 .. Messages : Waiting[i] = Nth(i).msg
    BY WaitingIs
<1>6. Marked /\ running' = running /\ worker = "check" /\ worker' = IF cur'.isEnd THEN "ended" ELSE "print"
    BY DEF IndInv, RingOK, Take
<1>7. cur'.isEnd <=> Ending /\ Count = 1
    BY <1>1, <1>3, <1>6 DEF Marked
<1>8. Held = Waiting
    BY <1>4, <1>5 DEF Held
<1>9. CASE cur'.isEnd
    <2>1. Messages = 0
        BY <1>7, <1>9 DEF Messages
    <2>2. Waiting = << >>
        BY <1>5, <2>1
    <2>3. Taken' = << >> /\ ~ Ending'
        BY <1>6, <1>9 DEF Taken, Ending
    <2>4. Waiting' = << >>
        BY <1>1, <1>7, <1>9, <2>3 DEF Waiting
    <2> QED BY <1>8, <2>2, <2>3, <2>4 DEF Held
<1>10. CASE ~ cur'.isEnd
    <2>1. Taken' = <<Nth(1).msg>>
        BY <1>1, <1>6, <1>10 DEF Taken
    <2>2. Ending' = Ending
        BY <1>6, <1>10 DEF Ending
    <2>3. Messages \in Nat /\ Messages >= 1
        BY <1>1, <1>3, <1>7, <1>10 DEF Messages
    <2>4. Waiting' = [i \in 1 .. Messages - 1 |-> Nth(i)'.msg]
        BY <1>1, <1>3, <2>2 DEF Waiting, Messages
    <2>5. \A i \in 1 .. Messages - 1 : Nth(i)' = Nth(i + 1)
        BY <1>1, <1>3 DEF Messages
    <2>6. \A i \in 1 .. Messages - 1 : i + 1 \in 1 .. Messages /\ Nth(i)'.msg = Waiting[i + 1]
        BY <1>5, <2>3, <2>5
    <2>7. Waiting' = Tail(Waiting)
        <3>1. Waiting' = [i \in 1 .. Messages - 1 |-> Waiting[i + 1]]
            BY <2>4, <2>6
        <3>2. PICK w \in Seq(1 .. MaxCalls) : w = Waiting /\ Len(w) >= 1
            BY <1>5, <2>3
        <3>3. w # << >>
            BY <3>2
        <3>4. PICK t \in Seq(1 .. MaxCalls) :
                 t = Tail(w) /\ Len(t) = Len(w) - 1 /\ \A i \in 1 .. Len(t) : t[i] = w[i + 1]
            BY <3>3, HeadTailProperties
        <3>5. t = [i \in 1 .. Len(t) |-> t[i]]
            OBVIOUS
        <3> QED BY <1>5, <3>1, <3>2, <3>4, <3>5
    <2>8. Taken' = <<Waiting[1]>>
        BY <1>5, <2>1, <2>3
    <2>9. \A w \in Seq(1 .. MaxCalls) : Len(w) >= 1 => <<w[1]>> \o Tail(w) = w
        OBVIOUS
    <2> QED BY <1>5, <1>8, <2>3, <2>7, <2>8, <2>9 DEF Held
<1> QED BY <1>9, <1>10

\* The end mark is not a message.
LEMMA PauseHolds ==
    ASSUME IndInv, ~ AnyPause, NEW o \in Ops, PauseRunning(o)
    PROVE  Held' = Held
<1>1. Count' = Count + 1 /\ \A i \in 1 .. Count : Nth(i)' = Nth(i)
    BY Paused DEF PauseRunning
<1>2. Count \in Nat
    BY Counted, SizeOK DEF IndInv, RingOK
<1>3. ~ Ending /\ Ending'
    BY DEF PauseRunning, Ending, IndInv, ControlOK, Notify
<1>4. Waiting = [i \in 1 .. Count |-> Nth(i).msg]
    BY <1>2, <1>3 DEF Waiting
<1>5. Waiting' = [i \in 1 .. Count |-> Nth(i)'.msg]
    BY <1>1, <1>2, <1>3 DEF Waiting
<1>6. Taken' = Taken
    BY DEF PauseRunning, Notify, Taken
<1> QED BY <1>1, <1>4, <1>5, <1>6 DEF Held

\* The message that the worker prints and writes is the first that is held.
LEMMA Printing ==
    ASSUME IndInv, ~ AnyPause, worker \in {"print", "write"}
    PROVE  Held # << >> /\ Head(Held) = cur.msg /\ Tail(Held) = Waiting
<1>1. Taken = <<cur.msg>> /\ cur.msg \in 1 .. MaxCalls
    BY TakenIs DEF IndInv, ControlOK
<1>2. Waiting \in Seq(1 .. MaxCalls)
    BY WaitingIs
<1>3. \A e \in 1 .. MaxCalls, v \in Seq(1 .. MaxCalls) :
         <<e>> \o v # << >> /\ Head(<<e>> \o v) = e /\ Tail(<<e>> \o v) = v
    OBVIOUS
<1> QED BY <1>1, <1>2, <1>3 DEF Held

\* A worker that has ended holds nothing.
LEMMA EndedHoldsNothing ==
    ASSUME IndInv, ~ AnyPause, worker = "ended"
    PROVE  Held = << >>
<1>1. Taken = << >>
    BY TakenIs
<1>2. Count = 0 /\ ~ Ending
    BY DEF IndInv, RingOK, Ending
<1>3. Waiting = << >>
    BY <1>2 DEF Waiting
<1> QED BY <1>1, <1>3 DEF Held

LEMMA QueueStep ==
    ASSUME IndInv, ~ AnyPause, [Next]_vars
    PROVE  [Queue!Next]_(Queue!vars)
<1> USE DEF Queue!Next, Queue!vars
<1>1. CASE Add
    <2>1. Held' = Append(Held, calls')
        BY <1>1, AddLogs
    <2>2. (worker = "write")' = (worker = "write")
        BY <1>1 DEF Add, Notify
    <2> QED BY <1>1, <2>1, <2>2 DEF Add, Queue!Log, Held, outputs
<1>2. CASE Discard
    <2>1. Held' = Held
        BY <1>2, HeldUnmoved DEF Discard, Ending, Taken
    <2> QED BY <1>2, <2>1 DEF Discard, Queue!Log, Held, outputs
<1>3. CASE Take
    <2>1. Held' = Held
        BY <1>3, TakeHolds
    <2>2. worker = "check" /\ worker' # "write"
        BY <1>3 DEF Take
    <2> QED BY <1>3, <2>1, <2>2 DEF Take, Held, outputs
<1>4. CASE PrintEntry
    <2>1. Held' = Held
        BY <1>4, HeldUnmoved DEF PrintEntry, Ending, Taken
    <2>2. Held # << >> /\ Head(Held) = cur.msg
        BY <1>4, Printing DEF PrintEntry
    <2> QED BY <1>4, <2>1, <2>2 DEF PrintEntry, Queue!Show, Held
<1>5. CASE Write
    <2>1. Head(Held) = cur.msg /\ Tail(Held) = Waiting
        BY <1>5, Printing DEF Write
    <2>2. Taken' = << >>
        BY <1>5 DEF Write, Taken
    <2>3. Waiting' = Waiting
        BY <1>5 DEF Write, Waiting, Count, Nth, Size, Ending, ring
    <2>4. Held' = Waiting
        BY <1>5, <2>2, <2>3, WaitingIs DEF Held
    <2> QED BY <1>5, <2>1, <2>4 DEF Write, Queue!Store, Held
<1>6. CASE \E o \in Ops : PauseRunning(o)
    <2>1. PICK o \in Ops : PauseRunning(o)
        BY <1>6
    <2>2. Held' = Held
        BY <2>1, PauseHolds
    <2>3. (worker = "write")' = (worker = "write")
        BY <2>1 DEF PauseRunning, Notify
    <2> QED BY <2>1, <2>2, <2>3 DEF PauseRunning, Queue!Close, Held, outputs
<1>7. CASE SetFile
    <2>1. worker = "ended" /\ ~ running
        BY <1>7 DEF SetFile, IndInv, ControlOK
    <2>2. Held = << >> /\ Held' = Held
        BY <1>7, <2>1, EndedHoldsNothing, HeldUnmoved DEF SetFile, Ending, Taken
    <2>3. \E f \in Files \cup {None} : Queue!SetFile(f)
        BY <1>7, <2>1, <2>2 DEF SetFile, Queue!SetFile, Held
    <2> QED BY <2>3
<1>8. CASE Resume
    <2>1. worker = "ended" /\ ~ running
        BY <1>8 DEF Resume, IndInv, ControlOK
    <2>2. Held = << >> /\ Held' = Held
        BY <1>8, <2>1, EndedHoldsNothing, HeldUnmoved DEF Resume, Ending, Taken
    <2> QED BY <1>8, <2>1, <2>2 DEF Resume, Queue!Reopen, Held, outputs
<1>9. CASE Destroy
    <2>1. worker = "ended" /\ ~ running
        BY <1>9 DEF Destroy, IndInv, ControlOK
    <2>2. Held = << >> /\ Held' = Held
        BY <1>9, <2>1, EndedHoldsNothing, HeldUnmoved DEF Destroy, Ending, Taken
    <2>3. files = [g \in Files |-> files[g]] /\ \A g \in Files : g # None
        BY LogAssumption DEF IndInv, OutputsOK
    <2>4. Queue!SetFile(None)
        BY <1>9, <2>1, <2>2, <2>3 DEF Destroy, Queue!SetFile, Held
    <2> QED BY <2>4
<1>10. CASE Wait \/ WakeUp \/ Join \/ EndPause \/ SetColors \/ \E o \in Ops : PausePaused(o)
    <2>1. Held' = Held /\ (worker = "write")' = (worker = "write")
        BY <1>10, HeldUnmoved DEF Wait, WakeUp, Join, EndPause, SetColors, PausePaused, Ending, Taken
    <2> QED BY <1>10, <2>1 DEF Wait, WakeUp, Join, EndPause, SetColors, PausePaused, Held, outputs
<1>11. CASE UNCHANGED vars
    <2>1. Held' = Held
        BY <1>11, HeldUnmoved DEF vars, Ending, Taken
    <2> QED BY <1>11, <2>1 DEF vars, Held, outputs
<1> QED BY <1>1, <1>2, <1>3, <1>4, <1>5, <1>6, <1>7, <1>8, <1>9, <1>10, <1>11 DEF Next, Worker, Proceed

LEMMA QueueInit == Init => Queue!Init
<1> SUFFICES ASSUME Init PROVE Queue!Init
    OBVIOUS
<1>1. Count = 0 /\ ~ Ending
    BY Counted, InitOK, LogAssumption DEF Init, Ending, IndInv, RingOK
<1>2. Held = << >>
    BY <1>1 DEF Held, Taken, Waiting, Init
<1> QED BY <1>2 DEF Init, Queue!Init, Held

\* The safety part of ImplementsQueue: if pause() is called only while a second
\* entry is free, the ring, its growth, the end mark and the handing over of the
\* file are a queue.  Every message accepted is printed at most once, in order,
\* to the console and to the file set when it was logged.
THEOREM LogIsQueue == ~ AnyPause => (Spec => Queue!Init /\ [][Queue!Next]_(Queue!vars))
<1> SUFFICES ASSUME ~ AnyPause PROVE Spec => Queue!Init /\ [][Queue!Next]_(Queue!vars)
    OBVIOUS
<1>1. IndInv /\ [Next]_vars => [Queue!Next]_(Queue!vars)
    BY QueueStep
<1> QED BY <1>1, QueueInit, Always, PTL DEF Spec
=============================================================================
