-------------------------- MODULE ChatStore_proofs --------------------------
(***************************************************************************)
(* Proofs about ChatStore, for every number of sends, of conversations and *)
(* of events.                                                              *)
(***************************************************************************)
EXTENDS ChatStore, SequenceTheorems, TLAPS

Role == {"user", "assistant"}
Text == [role : Role, send : Sends, content : Seq(Piece)]
Events == {"headers", "data", "done", "error"}
Lines == {"none", "open", "over", "closed"}
Streams == [sent : Seq(Events), line : Lines]

StoreOK ==
    /\ conversations \in Seq(Convs) /\ IsInjective(conversations)
    /\ count \in 1 .. MaxConvs
    /\ current \in ToSet(conversations)
    /\ \A c \in ToSet(conversations) : c <= count
    /\ messages \in [Convs -> Seq(Text)]
    /\ \A c \in Convs \ ToSet(conversations) : messages[c] = << >>
    /\ isLoading \in BOOLEAN /\ isGenerating \in BOOLEAN
    /\ controller \in Sends \cup {None}

\* Only an event that was read can have been read in part.
PartsRead == \A s \in Sends : \A e \in 1 .. MaxEvents : <<s, e>> \in partial => e <= taken[s]

SendsOK ==
    /\ sends \in 0 .. MaxSends
    /\ at \in [Sends -> {"new", "fetch", "read", "ended"}]
    /\ aiMessageIndex \in [Sends -> Nat]
    /\ aborted \in [Sends -> BOOLEAN] /\ taken \in [Sends -> 0 .. MaxEvents]
    /\ home \in [Sends -> 1 .. count]
    /\ strayed \in [Sends -> BOOLEAN] /\ PartsRead
    /\ overlapped \subseteq Sends
    /\ \A s \in Sends : s > sends <=> at[s] = "new"

\* A stream begins with its headers, which the page reads with fetch().
StreamOK(s) ==
    /\ Len(stream[s].sent) <= MaxEvents /\ taken[s] <= Len(stream[s].sent)
    /\ \A e \in 1 .. Len(stream[s].sent) : stream[s].sent[e] = "headers" <=> e = 1
    /\ at[s] \in {"new", "fetch"} => taken[s] = 0
    /\ at[s] = "read" => taken[s] > 0
    /\ stream[s].line = "none" => stream[s].sent = << >>
    /\ stream[s].line \in {"open", "over"} => stream[s].sent # << >>
StreamsOK ==
    /\ known \in BOOLEAN
    /\ stream \in [Sends -> Streams]
    /\ \A s \in Sends : StreamOK(s)

\* Who is alone in flight has the flags.
FlagsOK ==
    /\ FlagsMatchSends
    /\ \A s \in InFlight \ overlapped : InFlight = {s}

\* The message of a send is there as long as its conversation is; and who has
\* not strayed has put its pieces there.
Kept(s, c, i) ==
    IF c = home[s] /\ i = aiMessageIndex[s]
    THEN Arrived(s, messages[c][i].content) ELSE Places(s, messages[c][i].content) = {}
AnswersOK ==
    /\ \A s \in Sends : at[s] = "new" => aiMessageIndex[s] = 0
    /\ \A s \in Sends : home[s] \in ToSet(conversations) =>
                            aiMessageIndex[s] \in 0 .. Len(messages[home[s]])
    /\ \A s \in Sends : at[s] # "new" => aiMessageIndex[s] # 0
    /\ \A s \in Sends : ~ strayed[s] =>
          \A c \in Convs : \A i \in 1 .. Len(messages[c]) : Kept(s, c, i)

IndInv == StoreOK /\ SendsOK /\ StreamsOK /\ FlagsOK /\ AnswersOK

-----------------------------------------------------------------------------
(* Streams.                                                                *)

LEMMA ClosedIs ==
    ASSUME NEW s \in Sends, NEW st \in Streams
    PROVE  Reply(s)!Closed(st) = [sent |-> st.sent, line |-> "closed"]
BY DEF Streams, Reply!Closed

LEMMA MovesAre ==
    ASSUME NEW s \in Sends, NEW st \in Streams, NEW k \in BOOLEAN, NEW next \in Reply(s)!Moves(st, k)
    PROVE  \/ /\ st.line = "none"
              /\ next = [sent |-> Append(st.sent, "headers"), line |-> "open"]
           \/ /\ st.line = "open"
              /\ \E e \in {"data", "done", "error"}, l \in {"open", "over"} :
                     next = [sent |-> Append(st.sent, e), line |-> l]
           \/ st.line = "open" /\ next = [sent |-> st.sent, line |-> "over"]
BY DEF Streams, Reply!Moves, Reply!Event, Reply!Last

LEMMA NamesAre == ASSUME NEW s \in Sends PROVE Reply(s)!Lines = Lines /\ Reply(s)!Last = {"done", "error"}
BY DEF Lines, Reply!Lines, Reply!Last

-----------------------------------------------------------------------------
(* What stays as it is.                                                    *)

LEMMA InFlightIs == InFlight \subseteq Sends
BY DEF InFlight

\* What a step that reads makes of the data, whatever it does to the streams'
\* lines; and what it reads: a whole event, or a part of one.
DataNow(s) ==
    {e \in 1 .. taken'[s] : <<s, e>> \notin partial' /\ stream[s].sent[e] \in {"data", "error"}}
Reads(s, whole) ==
    IF whole THEN partial' = partial /\ stream[s].sent[taken[s] + 1] \in {"data", "error"}
    ELSE partial' = partial \cup {<<s, taken[s] + 1>>}

LEMMA DataStays ==
    ASSUME NEW s \in Sends, taken[s] \in Nat, taken'[s] = taken[s], partial' = partial,
           \A e \in 1 .. taken[s] : stream'[s].sent[e] = stream[s].sent[e]
    PROVE  DataRead(s)' = DataRead(s)
BY DEF DataRead

LEMMA KeptStays ==
    ASSUME NEW s \in Sends, NEW c \in Convs, NEW i \in Nat, Kept(s, c, i),
           home'[s] = home[s], aiMessageIndex'[s] = aiMessageIndex[s],
           DataRead(s)' = DataRead(s), partial \subseteq partial',
           messages'[c][i].content = messages[c][i].content
    PROVE  Kept(s, c, i)'
BY DEF Kept, Arrived, Shown, Places

LEMMA AnswersStay ==
    ASSUME AnswersOK,
           UNCHANGED <<home, aiMessageIndex, messages>>,
           \A s \in Sends : at'[s] = "new" <=> at[s] = "new",
           \A s \in Sends : home[s] \in ToSet(conversations') => home[s] \in ToSet(conversations),
           partial \subseteq partial',
           \A s \in Sends : ~ strayed'[s] => ~ strayed[s] /\ DataRead(s)' = DataRead(s)
    PROVE  AnswersOK'
<1>1. ASSUME NEW s \in Sends, ~ strayed'[s], NEW c \in Convs, NEW i \in 1 .. Len(messages[c])
      PROVE  Kept(s, c, i)'
    <2>1. Kept(s, c, i) /\ DataRead(s)' = DataRead(s)
        BY <1>1 DEF AnswersOK
    <2> QED BY <2>1, KeptStays
<1> QED BY <1>1 DEF AnswersOK

LEMMA FlagsStay ==
    ASSUME FlagsOK, InFlight' = InFlight, UNCHANGED <<isGenerating, controller, aborted, overlapped>>,
           isLoading' => isLoading
    PROVE  FlagsOK'
BY DEF FlagsOK, FlagsMatchSends

-----------------------------------------------------------------------------
(* The user.                                                               *)

LEMMA InitInv == Init => IndInv
<1> SUFFICES ASSUME Init PROVE IndInv
    OBVIOUS
<1> USE StoreAssumption
<1>1. StoreOK
    <2>1. conversations = <<1>> /\ 1 \in Convs
        BY DEF Init, Convs
    <2>2. conversations \in Seq(Convs) /\ IsInjective(conversations) /\ ToSet(conversations) = {1}
        <3>1. DOMAIN conversations = {1} /\ conversations[1] = 1 /\ conversations \in Seq(Convs)
            BY <2>1
        <3>2. IsInjective(conversations)
            BY <3>1 DEF IsInjective
        <3>3. ToSet(conversations) = {1}
            <4>1. ToSet(conversations) = {conversations[k] : k \in {1}}
                BY <3>1 DEF ToSet
            <4> QED BY <3>1, <4>1
        <3> QED BY <3>1, <3>2, <3>3
    <2>3. messages \in [Convs -> Seq(Text)] /\ \A c \in Convs : messages[c] = << >>
        BY DEF Init
    <2>4. count = 1 /\ current = 1 /\ 1 \in 1 .. MaxConvs
        BY DEF Init
    <2>5. ~ isLoading /\ ~ isGenerating /\ isLoading \in BOOLEAN /\ isGenerating \in BOOLEAN
          /\ controller = None
        BY DEF Init
    <2>6. /\ current \in ToSet(conversations) /\ \A c \in ToSet(conversations) : c <= count
          /\ count \in 1 .. MaxConvs
        BY <2>2, <2>4
    <2> QED BY <2>2, <2>3, <2>5, <2>6 DEF StoreOK
<1>2. SendsOK
    BY DEF Init, SendsOK, PartsRead, Sends
<1>3. StreamsOK
    BY DEF Init, StreamsOK, StreamOK, Streams, Lines, Sends
<1>4. FlagsOK
    BY DEF Init, FlagsOK, FlagsMatchSends, InFlight
<1>5. AnswersOK
    BY DEF Init, AnswersOK
<1> QED BY <1>1, <1>2, <1>3, <1>4, <1>5 DEF IndInv

LEMMA CreatedIs ==
    ASSUME StoreOK, NEW others \in Seq(Convs), IsInjective(others),
           ToSet(others) \subseteq ToSet(conversations), Created(others)
    PROVE  /\ conversations' \in Seq(Convs) /\ IsInjective(conversations')
           /\ count' = count + 1 /\ count' \in 1 .. MaxConvs
           /\ ToSet(conversations') = ToSet(others) \cup {count'} /\ current' = count'
           /\ isLoading' = FALSE
<1> USE StoreAssumption
<1>1. /\ count' = count + 1 /\ count' \in Convs /\ current' = count' /\ isLoading' = FALSE
      /\ conversations' = <<count'>> \o others
    BY DEF StoreOK, Created, Convs
<1>2. \A k \in DOMAIN others : others[k] \in ToSet(conversations)
    BY DEF ToSet
<1>3. \A k \in DOMAIN others : others[k] # count'
    BY <1>1, <1>2 DEF StoreOK, Convs
<1>4. /\ Len(conversations') = Len(others) + 1 /\ conversations'[1] = count'
      /\ \A k \in 2 .. Len(others) + 1 : conversations'[k] = others[k - 1]
      /\ conversations' \in Seq(Convs)
    BY <1>1
<1>5. IsInjective(conversations')
    <2>1. ASSUME NEW a \in DOMAIN conversations', NEW b \in DOMAIN conversations', a # b
          PROVE  conversations'[a] # conversations'[b]
        <3>1. CASE a # 1 /\ b # 1
            <4>1. a - 1 \in DOMAIN others /\ b - 1 \in DOMAIN others /\ a - 1 # b - 1
                BY <1>4, <2>1, <3>1
            <4> QED BY <1>4, <2>1, <3>1, <4>1 DEF IsInjective
        <3>2. CASE a = 1
            <4>1. b - 1 \in DOMAIN others
                BY <1>4, <2>1, <3>2
            <4> QED BY <1>3, <1>4, <2>1, <3>2, <4>1
        <3>3. CASE b = 1
            <4>1. a - 1 \in DOMAIN others
                BY <1>4, <2>1, <3>3
            <4> QED BY <1>3, <1>4, <2>1, <3>3, <4>1
        <3> QED BY <3>1, <3>2, <3>3
    <2> QED BY <2>1 DEF IsInjective
<1>6. ToSet(conversations') = ToSet(others) \cup {count'}
    <2>1. ASSUME NEW k \in DOMAIN others PROVE others[k] \in ToSet(conversations')
        <3>1. k + 1 \in DOMAIN conversations' /\ conversations'[k + 1] = others[k]
            BY <1>4
        <3> QED BY <3>1 DEF ToSet
    <2>2. count' \in ToSet(conversations')
        BY <1>4 DEF ToSet
    <2>3. ASSUME NEW k \in DOMAIN conversations', k # 1 PROVE conversations'[k] \in ToSet(others)
        <3>1. k - 1 \in DOMAIN others /\ conversations'[k] = others[k - 1]
            BY <1>4, <2>3
        <3> QED BY <3>1 DEF ToSet
    <2> QED BY <1>4, <2>1, <2>2, <2>3 DEF ToSet
<1> QED BY <1>1, <1>4, <1>5, <1>6 DEF Convs

LEMMA CreateInv == ASSUME IndInv, CreateNewConversation PROVE IndInv'
<1> USE StoreAssumption DEF IndInv
<1> USE DEF CreateNewConversation, sendVars, server, history
<1>1. conversations \in Seq(Convs) /\ IsInjective(conversations)
    BY DEF StoreOK
<1>2. /\ conversations' \in Seq(Convs) /\ IsInjective(conversations')
      /\ count' = count + 1 /\ count' \in 1 .. MaxConvs
      /\ ToSet(conversations') = ToSet(conversations) \cup {count'} /\ current' = count'
      /\ isLoading' = FALSE
    BY <1>1, CreatedIs
<1>3. StoreOK'
    <2>1. current' \in ToSet(conversations') /\ \A c \in ToSet(conversations') : c <= count'
        <3>1. ToSet(conversations) \subseteq Convs
            BY DEF StoreOK, ToSet
        <3> QED BY <1>2, <3>1 DEF StoreOK, Convs
    <2>2. \A c \in Convs \ ToSet(conversations') : messages'[c] = << >>
        BY <1>2 DEF StoreOK
    <2> QED BY <1>2, <2>1, <2>2 DEF StoreOK
<1>4. SendsOK'
    BY <1>2 DEF SendsOK, PartsRead, StoreOK
<1>5. StreamsOK'
    BY DEF StreamsOK, StreamOK
<1>6. FlagsOK'
    BY <1>2, FlagsStay DEF InFlight
<1>7. AnswersOK'
    <2>1. \A s \in Sends : home[s] # count'
        BY <1>2 DEF SendsOK, StoreOK
    <2>2. \A s \in Sends : DataRead(s)' = DataRead(s)
        BY DEF DataRead
    <2> QED BY <1>2, <2>1, <2>2, AnswersStay
<1> QED BY <1>3, <1>4, <1>5, <1>6, <1>7

LEMMA SwitchInv == ASSUME IndInv, SwitchConversation PROVE IndInv'
<1> USE DEF IndInv, SwitchConversation, sendVars, server, history
<1>1. StoreOK'
    BY DEF StoreOK
<1>2. SendsOK' /\ StreamsOK'
    BY DEF SendsOK, PartsRead, StreamsOK, StreamOK
<1>3. FlagsOK'
    BY FlagsStay DEF InFlight
<1>4. \A s \in Sends : DataRead(s)' = DataRead(s)
    BY DEF DataRead
<1>5. AnswersOK'
    BY <1>4, AnswersStay
<1> QED BY <1>1, <1>2, <1>3, <1>5

LEMMA StopInv == ASSUME IndInv, StopGenerating PROVE IndInv'
<1> USE DEF IndInv, StopGenerating, convVars, server, history
<1>1. StoreOK'
    BY DEF StoreOK
<1>2. SendsOK' /\ StreamsOK'
    <2>1. SendsOK'
        BY DEF SendsOK, PartsRead
    <2>2. StreamsOK'
        BY DEF StreamsOK, StreamOK
    <2> QED BY <2>1, <2>2
<1>3. FlagsOK'
    <2>1. InFlight' = InFlight
        BY DEF InFlight
    <2>2. controller \in Sends
        BY DEF StoreOK
    <2>3. ASSUME NEW s \in InFlight, s \notin overlapped PROVE aborted'[s]
        BY <2>2, <2>3 DEF FlagsOK, FlagsMatchSends, SendsOK, InFlight
    <2> QED BY <2>1, <2>3 DEF FlagsOK, FlagsMatchSends
<1>4. \A s \in Sends : DataRead(s)' = DataRead(s)
    BY DEF DataRead
<1>5. AnswersOK'
    BY <1>4, AnswersStay
<1> QED BY <1>1, <1>2, <1>3, <1>5

\* A list without one of its entries.
LEMMA RemovedIs ==
    ASSUME NEW S, NEW q \in Seq(S), IsInjective(q), NEW k \in DOMAIN q
    PROVE  /\ RemoveAt(q, k) \in Seq(S) /\ IsInjective(RemoveAt(q, k))
           /\ ToSet(RemoveAt(q, k)) = ToSet(q) \ {q[k]}
<1> DEFINE r == RemoveAt(q, k)
<1>0. Len(q) \in Nat /\ k \in 1 .. Len(q)
    OBVIOUS
<1>1. /\ r \in Seq(S) /\ Len(r) = Len(q) - 1
      /\ \A i \in 1 .. Len(q) - 1 : r[i] = IF i < k THEN q[i] ELSE q[i + 1]
    <2>1. SubSeq(q, 1, k - 1) \in Seq(S) /\ Len(SubSeq(q, 1, k - 1)) = k - 1
        BY SubSeqProperties
    <2>2. SubSeq(q, k + 1, Len(q)) \in Seq(S) /\ Len(SubSeq(q, k + 1, Len(q))) = Len(q) - k
        BY SubSeqProperties
    <2>3. /\ \A i \in 1 .. k - 1 : SubSeq(q, 1, k - 1)[i] = q[i]
          /\ \A i \in 1 .. Len(q) - k : SubSeq(q, k + 1, Len(q))[i] = q[k + i]
        BY SubSeqProperties
    <2>4. r = SubSeq(q, 1, k - 1) \o SubSeq(q, k + 1, Len(q))
        BY DEF RemoveAt
    <2> HIDE DEF r
    <2>5. r \in Seq(S) /\ Len(r) = Len(q) - 1
        <3>1. r \in Seq(S) /\ Len(r) = (k - 1) + (Len(q) - k)
            BY <2>1, <2>2, <2>4
        <3> QED BY <1>0, <3>1
    <2>6. ASSUME NEW i \in 1 .. Len(q) - 1 PROVE r[i] = IF i < k THEN q[i] ELSE q[i + 1]
        <3>1. CASE i < k
            BY <2>1, <2>2, <2>3, <2>4, <3>1
        <3>2. CASE i >= k
            <4>1. i - (k - 1) \in 1 .. Len(q) - k /\ k + (i - (k - 1)) = i + 1
                BY <1>0, <3>2
            <4>2. SubSeq(q, k + 1, Len(q))[i - (k - 1)] = q[i + 1]
                BY <2>3, <4>1
            <4>3. i \in (k - 1) + 1 .. (k - 1) + (Len(q) - k)
                BY <1>0, <3>2
            <4>4. r[i] = SubSeq(q, k + 1, Len(q))[i - (k - 1)]
                <5>1. \A s, t \in Seq(S) : \A j \in Len(s) + 1 .. Len(s) + Len(t) : (s \o t)[j] = t[j - Len(s)]
                    OBVIOUS
                <5> DEFINE s == SubSeq(q, 1, k - 1)
                           t == SubSeq(q, k + 1, Len(q))
                <5>2. s \in Seq(S) /\ t \in Seq(S) /\ Len(s) = k - 1 /\ Len(t) = Len(q) - k /\ r = s \o t
                    BY <2>1, <2>2, <2>4
                <5>3. i \in Len(s) + 1 .. Len(s) + Len(t)
                    BY <4>3, <5>2
                <5> HIDE DEF s, t
                <5>4. r[i] = t[i - Len(s)]
                    BY ONLY <5>1, <5>2, <5>3
                <5> QED BY ONLY <5>2, <5>4 DEF t
            <4> QED BY <3>2, <4>2, <4>4
        <3> QED BY <3>1, <3>2
    <2> QED BY <2>5, <2>6
<1> HIDE DEF r
<1>2. IsInjective(r)
    <2>1. ASSUME NEW a \in DOMAIN r, NEW b \in DOMAIN r, a # b PROVE r[a] # r[b]
        <3> DEFINE At(i) == IF i < k THEN i ELSE i + 1
        <3>1. At(a) \in DOMAIN q /\ At(b) \in DOMAIN q /\ At(a) # At(b)
            BY <1>1, <2>1
        <3>2. r[a] = q[At(a)] /\ r[b] = q[At(b)]
            BY <1>1, <2>1
        <3> QED BY <3>1, <3>2 DEF IsInjective
    <2> QED BY <2>1 DEF IsInjective
<1>3. ASSUME NEW i \in DOMAIN q, i # k PROVE q[i] \in ToSet(r)
    <2>1. CASE i < k
        BY <1>1, <2>1 DEF ToSet
    <2>2. CASE i > k
        <3>1. i - 1 \in DOMAIN r /\ r[i - 1] = q[i]
            BY <1>1, <2>2
        <3> QED BY <3>1 DEF ToSet
    <2> QED BY <1>3, <2>1, <2>2
<1>4. ASSUME NEW i \in DOMAIN r PROVE r[i] \in ToSet(q) \ {q[k]}
    <2>1. CASE i < k
        BY <1>1, <2>1 DEF ToSet, IsInjective
    <2>2. CASE i >= k
        <3>1. i + 1 \in DOMAIN q /\ r[i] = q[i + 1] /\ i + 1 # k
            BY <1>1, <2>2
        <3> QED BY <3>1 DEF ToSet, IsInjective
    <2> QED BY <1>1, <2>1, <2>2
<1>5. ToSet(r) = ToSet(q) \ {q[k]}
    BY <1>3, <1>4 DEF ToSet
<1> QED BY <1>1, <1>2, <1>5 DEF r

LEMMA DeleteInv == ASSUME IndInv, DeleteConversation PROVE IndInv'
<1> USE DEF sendVars, server, history
<1>0. StoreOK /\ SendsOK /\ StreamsOK /\ FlagsOK /\ AnswersOK
    BY DEF IndInv
<1>1. PICK k \in DOMAIN conversations :
          Without(k) /\ messages' = [messages EXCEPT ![conversations[k]] = << >>]
    BY DEF DeleteConversation
<1>2. UNCHANGED <<isGenerating, controller, sendVars, server, history>>
    BY DEF DeleteConversation
<1> DEFINE c == conversations[k]
           others == RemoveAt(conversations, k)
<1>3. /\ conversations \in Seq(Convs) /\ IsInjective(conversations)
      /\ c \in ToSet(conversations) /\ c \in Convs /\ ToSet(conversations) \subseteq Convs
    BY <1>0 DEF StoreOK, ToSet
<1>4. others \in Seq(Convs) /\ IsInjective(others) /\ ToSet(others) = ToSet(conversations) \ {c}
    BY <1>3, RemovedIs
<1>5. others = << >> => Created(others)
    BY <1>1 DEF Without
<1>6. others # << >> => /\ conversations' = others /\ count' = count /\ isLoading' = isLoading
                        /\ current' = IF c = current THEN Head(others) ELSE current
    BY <1>1 DEF Without
<1> HIDE DEF c, others
<1>7. /\ conversations' \in Seq(Convs) /\ IsInjective(conversations')
      /\ ToSet(conversations') \subseteq (ToSet(conversations) \ {c}) \cup {count + 1}
      /\ ToSet(conversations) \ {c} \subseteq ToSet(conversations')
      /\ count' \in {count, count + 1} /\ count' \in 1 .. MaxConvs
      /\ \A d \in ToSet(conversations') : d <= count'
      /\ current' \in ToSet(conversations')
      /\ isLoading' \in BOOLEAN /\ (isLoading' => isLoading)
    <2>1. CASE others = << >>
        <3>1. /\ conversations' \in Seq(Convs) /\ IsInjective(conversations')
              /\ count' = count + 1 /\ count' \in 1 .. MaxConvs
              /\ ToSet(conversations') = ToSet(others) \cup {count'} /\ current' = count'
              /\ isLoading' = FALSE
            <4>1. ToSet(others) \subseteq ToSet(conversations)
                BY <1>4
            <4> QED BY <1>0, <1>4, <1>5, <2>1, <4>1, CreatedIs
        <3>2. \A d \in ToSet(conversations) : d \in Nat /\ d <= count /\ count \in Nat
            BY <1>0, <1>3 DEF StoreOK, Convs
        <3>3. \A d \in ToSet(conversations') : d <= count'
            BY <1>4, <3>1, <3>2
        <3> QED BY <1>4, <3>1, <3>3
    <2>2. CASE others # << >>
        <3>1. Head(others) \in ToSet(others)
            BY <1>4, <2>2 DEF ToSet
        <3>2. isLoading \in BOOLEAN /\ current \in ToSet(conversations) /\ count \in 1 .. MaxConvs
              /\ \A d \in ToSet(conversations) : d <= count
            BY <1>0 DEF StoreOK
        <3> QED BY <1>4, <1>6, <2>2, <3>1, <3>2
    <2> QED BY <2>1, <2>2
<1>8. /\ messages' \in [Convs -> Seq(Text)] /\ messages'[c] = << >>
      /\ \A d \in Convs \ {c} : messages'[d] = messages[d]
    BY <1>0, <1>1, <1>3 DEF StoreOK, c
<1>9. StoreOK'
    <2>1. ASSUME NEW d \in Convs \ ToSet(conversations') PROVE messages'[d] = << >>
        <3>1. d = c \/ d \notin ToSet(conversations)
            BY <1>7
        <3> QED BY <1>0, <1>8, <3>1 DEF StoreOK
    <2>2. isGenerating' \in BOOLEAN /\ controller' \in Sends \cup {None}
        BY <1>0, <1>2 DEF StoreOK
    <2> QED BY <1>7, <1>8, <2>1, <2>2 DEF StoreOK
<1>10. \A s \in Sends : home[s] \in 1 .. count /\ home[s] \in Convs
    <2>1. count \in 1 .. MaxConvs
        BY <1>0 DEF StoreOK
    <2> QED BY <1>0, <2>1, StoreAssumption DEF SendsOK, Convs
<1>11. SendsOK'
    <2>1. count \in 1 .. MaxConvs
        BY <1>0 DEF StoreOK
    <2>2. home' \in [Sends -> 1 .. count']
        BY <1>0, <1>2, <1>7, <2>1 DEF SendsOK
    <2> QED BY <1>0, <1>2, <2>2 DEF SendsOK, PartsRead
<1>12. StreamsOK'
    BY <1>0, <1>2 DEF StreamsOK, StreamOK
<1>13. FlagsOK'
    BY <1>0, <1>2, <1>7, FlagsStay DEF InFlight
<1>14. AnswersOK'
    <2>1. \A s \in Sends : DataRead(s)' = DataRead(s)
        BY <1>2 DEF DataRead
    <2>2. ASSUME NEW s \in Sends, home[s] \in ToSet(conversations')
          PROVE  home[s] \in ToSet(conversations) /\ messages'[home[s]] = messages[home[s]]
        <3>1. home[s] # count + 1
            BY <1>0, <1>10 DEF StoreOK
        <3> QED BY <1>7, <1>8, <1>10, <2>2, <3>1
    <2>3. \A s \in Sends : home[s] \in ToSet(conversations') =>
                                aiMessageIndex'[s] \in 0 .. Len(messages'[home[s]])
        BY <1>0, <1>2, <2>2 DEF AnswersOK
    <2>4. ASSUME NEW s \in Sends, ~ strayed[s], NEW d \in Convs, NEW m \in 1 .. Len(messages'[d])
          PROVE  Kept(s, d, m)'
        <3>1. d # c
            BY <1>8, <2>4
        <3>2. messages'[d] = messages[d]
            BY <1>8, <3>1
        <3>3. Kept(s, d, m)
            BY <1>0, <2>4, <3>2 DEF AnswersOK
        <3> QED BY <1>2, <2>1, <3>2, <3>3, KeptStays
    <2> QED BY <1>0, <1>2, <2>3, <2>4 DEF AnswersOK
<1> QED BY <1>9, <1>11, <1>12, <1>13, <1>14 DEF IndInv

LEMMA SendInv == ASSUME IndInv, SendMessage PROVE IndInv'
<1> DEFINE n == sends + 1
           q == messages[current]
           new == <<Message("user", n), Message("assistant", n)>>
<1>0. StoreOK /\ SendsOK /\ StreamsOK /\ FlagsOK /\ AnswersOK
    BY DEF IndInv
<1>1. n \in Sends /\ at[n] = "new" /\ sends \in Nat
    BY <1>0, StoreAssumption DEF SendMessage, SendsOK, Sends
<1>2. /\ current \in Convs /\ current \in ToSet(conversations) /\ current \in 1 .. count
      /\ q \in Seq(Text)
    BY <1>0, StoreAssumption DEF StoreOK, ToSet, Convs
<1>3. /\ sends' = n /\ isLoading' = TRUE /\ isGenerating' = TRUE /\ controller' = n
      /\ messages' = [messages EXCEPT ![current] = q \o new]
      /\ aiMessageIndex' = [aiMessageIndex EXCEPT ![n] = Len(q) + 2]
      /\ at' = [at EXCEPT ![n] = "fetch"]
      /\ home' = [home EXCEPT ![n] = current]
      /\ overlapped' = IF InFlight = {} THEN {} ELSE InFlight \cup {n}
      /\ UNCHANGED <<conversations, count, current, aborted, taken, stream, known, strayed, partial>>
    BY DEF SendMessage, convVars, server
<1>4. new \in Seq(Text) /\ Len(new) = 2 /\ new[1].content = << >> /\ new[2].content = << >>
    BY <1>1 DEF Message, Text, Role
<1> HIDE DEF n, q, new
<1>5. /\ messages' \in [Convs -> Seq(Text)]
      /\ \A c \in Convs \ {current} : messages'[c] = messages[c]
      /\ Len(messages'[current]) = Len(q) + 2
      /\ \A i \in 1 .. Len(q) : messages'[current][i] = q[i]
      /\ \A i \in Len(q) + 1 .. Len(q) + 2 : messages'[current][i].content = << >>
    <2>1. q \o new \in Seq(Text) /\ messages'[current] = q \o new
        BY <1>0, <1>2, <1>3, <1>4 DEF StoreOK
    <2>2. /\ Len(q \o new) = Len(q) + 2
          /\ \A i \in 1 .. Len(q) : (q \o new)[i] = q[i]
          /\ (q \o new)[Len(q) + 1] = new[1] /\ (q \o new)[Len(q) + 2] = new[2]
        <3>1. \A a, b \in Seq(Text) :
                 /\ Len(a \o b) = Len(a) + Len(b)
                 /\ \A i \in 1 .. Len(a) : (a \o b)[i] = a[i]
                 /\ \A i \in 1 .. Len(b) : (a \o b)[Len(a) + i] = b[i]
            OBVIOUS
        <3>2. 1 \in 1 .. Len(new) /\ 2 \in 1 .. Len(new) /\ q \in Seq(Text) /\ new \in Seq(Text)
            BY <1>2, <1>4
        <3>3. /\ Len(q \o new) = Len(q) + Len(new)
              /\ \A i \in 1 .. Len(q) : (q \o new)[i] = q[i]
              /\ (q \o new)[Len(q) + 1] = new[1] /\ (q \o new)[Len(q) + 2] = new[2]
            BY ONLY <3>1, <3>2
        <3> QED BY <1>4, <3>3
    <2>3. /\ messages' \in [Convs -> Seq(Text)]
          /\ \A c \in Convs \ {current} : messages'[c] = messages[c]
        BY <1>0, <1>3, <2>1 DEF StoreOK
    <2>4. ASSUME NEW i \in Len(q) + 1 .. Len(q) + 2 PROVE (q \o new)[i].content = << >>
        <3>1. Len(q) \in Nat
            BY <1>2
        <3>2. i = Len(q) + 1 \/ i = Len(q) + 2
            BY <3>1
        <3> QED BY <1>4, <2>2, <3>2
    <2> QED BY <2>1, <2>2, <2>3, <2>4
<1>6. StoreOK'
    <2>1. \A c \in Convs \ ToSet(conversations) : messages'[c] = << >>
        BY <1>0, <1>2, <1>5 DEF StoreOK
    <2> QED BY <1>0, <1>1, <1>3, <1>5, <2>1 DEF StoreOK
<1>7. SendsOK'
    <2>1. ASSUME NEW s \in Sends PROVE s > sends' <=> at'[s] = "new"
        <3>1. s \in Nat /\ (s > sends <=> at[s] = "new")
            BY <1>0 DEF SendsOK, Sends
        <3>2. sends' = sends + 1 /\ n = sends + 1
            BY <1>3 DEF n
        <3>3. at'[s] = IF s = n THEN "fetch" ELSE at[s]
            BY <1>0, <1>3 DEF SendsOK
        <3> QED BY <1>1, <3>1, <3>2, <3>3
    <2>2. /\ sends' \in 0 .. MaxSends /\ home' \in [Sends -> 1 .. count']
          /\ at' \in [Sends -> {"new", "fetch", "read", "ended"}]
          /\ overlapped' \subseteq Sends
        <3>1. sends' \in 0 .. MaxSends
            BY <1>1, <1>3, StoreAssumption DEF Sends
        <3>2. home' \in [Sends -> 1 .. count']
            BY <1>0, <1>1, <1>2, <1>3 DEF SendsOK
        <3>3. at' \in [Sends -> {"new", "fetch", "read", "ended"}]
            BY <1>0, <1>1, <1>3 DEF SendsOK
        <3>4. overlapped' \subseteq Sends
            BY <1>1, <1>3, InFlightIs
        <3> QED BY <3>1, <3>2, <3>3, <3>4
    <2>3. aiMessageIndex' \in [Sends -> Nat]
        BY <1>0, <1>1, <1>2, <1>3 DEF SendsOK
    <2> QED BY <1>0, <1>3, <2>1, <2>2, <2>3 DEF SendsOK, PartsRead
<1>8. StreamsOK'
    BY <1>0, <1>1, <1>3 DEF StreamsOK, StreamOK, SendsOK
<1>9. FlagsOK'
    <2>1. InFlight' = InFlight \cup {n}
        BY <1>0, <1>1, <1>3 DEF InFlight, SendsOK
    <2> QED BY <1>0, <1>3, <2>1 DEF FlagsOK, FlagsMatchSends
<1>10. \A s \in Sends : DataRead(s)' = DataRead(s)
    BY <1>3 DEF DataRead
<1>11. DataRead(n) = {}
    <2>1. taken[n] = 0
        BY <1>0, <1>1 DEF StreamsOK, StreamOK
    <2> QED BY <2>1 DEF DataRead
<1>12. /\ \A s \in Sends \ {n} : home'[s] = home[s] /\ aiMessageIndex'[s] = aiMessageIndex[s]
       /\ home'[n] = current /\ aiMessageIndex'[n] = Len(q) + 2 /\ aiMessageIndex[n] = 0
       /\ \A s \in Sends \ {n} : at'[s] = at[s]
       /\ at'[n] = "fetch" /\ Len(q) \in Nat
    BY <1>0, <1>1, <1>2, <1>3 DEF SendsOK, AnswersOK
<1>13. ASSUME NEW s \in Sends, home'[s] \in ToSet(conversations)
       PROVE  aiMessageIndex'[s] \in 0 .. Len(messages'[home'[s]])
    <2>1. CASE s = n
        BY <1>5, <1>12, <2>1
    <2>2. CASE s # n
        <3>1. aiMessageIndex[s] \in 0 .. Len(messages[home[s]]) /\ home[s] \in Convs
            BY <1>0, <1>12, <1>13, <2>2 DEF AnswersOK, StoreOK, ToSet
        <3>2. Len(messages[home[s]]) \in Nat
            BY <1>0, <3>1 DEF StoreOK
        <3>3. Len(messages'[home[s]]) = Len(messages[home[s]]) \/ Len(messages'[home[s]]) = Len(messages[home[s]]) + 2
            BY <1>5, <3>1 DEF q
        <3> QED BY <1>12, <2>2, <3>1, <3>2, <3>3
    <2> QED BY <2>1, <2>2
<1>14. ASSUME NEW s \in Sends, ~ strayed[s], NEW c \in Convs, NEW i \in 1 .. Len(messages'[c])
       PROVE  Kept(s, c, i)'
    <2>1. CASE ~ (c = current /\ i > Len(q))
        <3>1. i \in 1 .. Len(messages[c]) /\ messages'[c][i] = messages[c][i]
            BY <1>5, <1>12, <2>1 DEF q
        <3>2. Kept(s, c, i)
            BY <1>0, <1>14, <3>1 DEF AnswersOK
        <3>3. CASE s # n
            BY <1>3, <1>10, <1>12, <3>1, <3>2, <3>3, KeptStays
        <3>4. CASE s = n
            <4>1. Places(n, messages[c][i].content) = {}
                BY <1>12, <3>1, <3>2, <3>4 DEF Kept
            <4>2. ~ (c = current /\ i = Len(q) + 2)
                BY <1>12, <2>1
            <4> QED BY <1>12, <3>1, <3>4, <4>1, <4>2 DEF Kept, Places
        <3> QED BY <3>3, <3>4
    <2>2. CASE c = current /\ i > Len(q)
        <3>1. i \in Len(q) + 1 .. Len(q) + 2
            BY <1>5, <1>12, <2>2
        <3>2. messages'[c][i].content = << >>
            BY <1>5, <2>2, <3>1
        <3>3. Places(s, messages'[c][i].content) = {}
            BY <3>2 DEF Places
        <3>4. CASE s = n
            <4>1. Arrived(s, messages[c][i].content)'
                BY <1>10, <1>11, <3>3, <3>4 DEF Arrived, Shown, Places
            <4> QED BY <3>3, <4>1 DEF Kept, Places
        <3>5. CASE s # n
            <4>1. ASSUME c = home[s] PROVE i # aiMessageIndex[s]
                <5>1. aiMessageIndex[s] \in 0 .. Len(q)
                    BY <1>0, <1>2, <2>2, <4>1 DEF AnswersOK, q
                <5> QED BY <1>12, <2>2, <5>1
            <4> QED BY <1>12, <3>3, <3>5, <4>1 DEF Kept, Places
        <3> QED BY <3>4, <3>5
    <2> QED BY <2>1, <2>2
<1>15. AnswersOK'
    <2>1. \A s \in Sends : at'[s] = "new" <=> aiMessageIndex'[s] = 0
        BY <1>0, <1>12 DEF AnswersOK
    <2> QED BY <1>3, <1>13, <1>14, <2>1 DEF AnswersOK
<1> QED BY <1>6, <1>7, <1>8, <1>9, <1>15 DEF IndInv

-----------------------------------------------------------------------------
(* sendMessage() after an await.                                           *)

\* How a send ends, whatever it was waiting for.
LEMMA FinallyInv ==
    ASSUME IndInv, NEW s \in InFlight, Finally(s),
           UNCHANGED <<convVars, messages, known, home>>,
           taken' \in [Sends -> 0 .. MaxEvents], taken'[s] <= Len(stream[s].sent),
           \A r \in Sends \ {s} : taken'[r] = taken[r],
           strayed' \in [Sends -> BOOLEAN], \A r \in Sends : strayed[r] => strayed'[r],
           PartsRead', partial \subseteq partial',
           \A r \in Sends : ~ strayed'[r] => DataNow(r) = DataRead(r)
    PROVE  IndInv'
<1>0. StoreOK /\ SendsOK /\ StreamsOK /\ FlagsOK /\ AnswersOK
    BY DEF IndInv
<1>1. s \in Sends /\ at[s] \in {"fetch", "read"}
    BY DEF InFlight
<1>2. /\ at' = [at EXCEPT ![s] = "ended"]
      /\ ~ isLoading' /\ ~ isGenerating' /\ controller' = None
      /\ isLoading' = FALSE /\ isGenerating' = FALSE
      /\ aborted' = [aborted EXCEPT ![s] = FALSE]
      /\ overlapped' = overlapped \ {s}
      /\ UNCHANGED <<sends, aiMessageIndex, conversations, count, current, messages, known, home>>
    BY DEF Finally, convVars
<1>3. stream' = [stream EXCEPT ![s] = [sent |-> stream[s].sent, line |-> "closed"]]
    <2>1. stream[s] \in Streams
        BY <1>0, <1>1 DEF StreamsOK
    <2> QED BY <1>1, <2>1, ClosedIs DEF Finally
<1>4. StoreOK'
    BY <1>0, <1>2 DEF StoreOK
<1>5. SendsOK'
    <2>1. \A r \in Sends : at'[r] = IF r = s THEN "ended" ELSE at[r]
        BY <1>0, <1>1, <1>2 DEF SendsOK
    <2>2. /\ at' \in [Sends -> {"new", "fetch", "read", "ended"}]
          /\ aborted' \in [Sends -> BOOLEAN] /\ overlapped' \subseteq Sends
        BY <1>0, <1>1, <1>2 DEF SendsOK
    <2>3. \A r \in Sends : r > sends' <=> at'[r] = "new"
        BY <1>0, <1>1, <1>2, <2>1 DEF SendsOK
    <2> QED BY <1>0, <1>2, <2>2, <2>3 DEF SendsOK
<1>6. \A r \in Sends : stream'[r].sent = stream[r].sent
    BY <1>0, <1>1, <1>3 DEF StreamsOK
<1>7. StreamsOK'
    <2>1. stream' \in [Sends -> Streams]
        BY <1>0, <1>1, <1>3 DEF StreamsOK, Streams, Lines
    <2>2. ASSUME NEW r \in Sends, r # s
          PROVE  stream'[r] = stream[r] /\ taken'[r] = taken[r] /\ at'[r] = at[r]
        BY <1>0, <1>2, <1>3, <2>2 DEF StreamsOK, SendsOK
    <2>3. stream'[s] = [sent |-> stream[s].sent, line |-> "closed"] /\ at'[s] = "ended"
        BY <1>0, <1>1, <1>2, <1>3 DEF StreamsOK, SendsOK
    <2>4. ASSUME NEW r \in Sends PROVE StreamOK(r)'
        <3>1. StreamOK(r)
            BY <1>0 DEF StreamsOK
        <3>2. CASE r # s
            BY <2>2, <3>1, <3>2 DEF StreamOK
        <3>3. CASE r = s
            BY <2>3, <3>1, <3>3 DEF StreamOK
        <3> QED BY <3>2, <3>3
    <2> QED BY <1>0, <1>2, <2>1, <2>4 DEF StreamsOK
<1>8. FlagsOK'
    <2>1. InFlight' = InFlight \ {s}
        BY <1>0, <1>1, <1>2 DEF InFlight, SendsOK
    <2> QED BY <1>0, <1>2, <2>1 DEF FlagsOK, FlagsMatchSends
<1>9. AnswersOK'
    <2>1. \A r \in Sends : at'[r] = "new" <=> at[r] = "new"
        BY <1>0, <1>1, <1>2 DEF SendsOK
    <2>2. ASSUME NEW r \in Sends, ~ strayed'[r] PROVE DataRead(r)' = DataRead(r)
        BY <1>6, <2>2 DEF DataRead, DataNow
    <2> QED BY <1>0, <1>2, <2>1, <2>2, AnswersStay
<1> QED BY <1>4, <1>5, <1>7, <1>8, <1>9 DEF IndInv

LEMMA FetchReturnsInv == ASSUME IndInv, NEW s \in Sends, FetchReturns(s) PROVE IndInv'
<1>0. StoreOK /\ SendsOK /\ StreamsOK /\ FlagsOK /\ AnswersOK
    BY DEF IndInv
<1>1. /\ at[s] = "fetch" /\ stream[s].sent # << >>
      /\ at' = [at EXCEPT ![s] = "read"] /\ taken' = [taken EXCEPT ![s] = 1]
      /\ UNCHANGED <<convVars, messages, flags, sends, aiMessageIndex, aborted, server, history>>
    BY DEF FetchReturns
<1>2. stream[s].sent \in Seq(Events) /\ Len(stream[s].sent) <= MaxEvents /\ taken[s] = 0
    BY <1>0, <1>1 DEF StreamsOK, StreamOK, Streams
<1>3. Len(stream[s].sent) >= 1
    BY <1>1, <1>2
<1>4. \A r \in Sends : /\ at'[r] = IF r = s THEN "read" ELSE at[r]
                       /\ taken'[r] = IF r = s THEN 1 ELSE taken[r]
    <2>1. at \in [Sends -> {"new", "fetch", "read", "ended"}] /\ taken \in [Sends -> 0 .. MaxEvents]
        BY <1>0 DEF SendsOK
    <2>2. at' = [at EXCEPT ![s] = "read"] /\ taken' = [taken EXCEPT ![s] = 1]
        BY <1>1
    <2> QED BY ONLY <2>1, <2>2
<1>5. StoreOK'
    BY <1>0, <1>1 DEF StoreOK, convVars, flags
<1>6. SendsOK'
    <2>1. taken' \in [Sends -> 0 .. MaxEvents]
        BY <1>0, <1>1, <1>2, <1>3, StoreAssumption DEF SendsOK
    <2>2. /\ at' \in [Sends -> {"new", "fetch", "read", "ended"}]
          /\ \A r \in Sends : r > sends' <=> at'[r] = "new"
        BY <1>0, <1>1, <1>4 DEF SendsOK
    <2>3. PartsRead'
        <3>1. \A r \in Sends : taken[r] <= taken'[r] /\ taken[r] \in Nat /\ taken'[r] \in Nat
            <4>1. taken \in [Sends -> Nat] /\ taken[s] = 0
                BY <1>0, <1>2, StoreAssumption DEF SendsOK
            <4> QED BY <1>4, <4>1
        <3>2. PartsRead /\ partial' = partial /\ MaxEvents \in Nat
            BY <1>0, <1>1, StoreAssumption DEF SendsOK, history
        <3> QED BY <3>1, <3>2 DEF PartsRead
    <2> QED BY <1>0, <1>1, <2>1, <2>2, <2>3 DEF SendsOK, convVars, history
<1>7. StreamsOK'
    <2>1. ASSUME NEW r \in Sends PROVE StreamOK(r)'
        <3>1. StreamOK(r) /\ stream' = stream
            BY <1>0, <1>1 DEF StreamsOK, server
        <3>2. CASE r # s
            <4>1. at'[r] = at[r] /\ taken'[r] = taken[r]
                BY <1>4, <3>2
            <4> QED BY <3>1, <4>1 DEF StreamOK
        <3>3. CASE r = s
            <4>1. at'[r] = "read" /\ taken'[r] = 1
                BY <1>4, <3>3
            <4> QED BY <1>3, <3>1, <3>3, <4>1 DEF StreamOK
        <3> QED BY <3>2, <3>3
    <2> QED BY <1>0, <1>1, <2>1 DEF StreamsOK, server
<1>8. FlagsOK'
    <2>1. InFlight' = InFlight
        BY <1>1, <1>4 DEF InFlight
    <2> QED BY <1>0, <1>1, <2>1, FlagsStay DEF flags, history
<1>9. AnswersOK'
    <2>1. \A r \in Sends : at'[r] = "new" <=> at[r] = "new"
        BY <1>1, <1>4
    <2>2. ASSUME NEW r \in Sends PROVE DataRead(r)' = DataRead(r)
        <3>1. CASE r = s
            <4>1. stream[s].sent[1] = "headers"
                BY <1>0, <1>2, <1>3 DEF StreamsOK, StreamOK
            <4>2. DataRead(s) = {}
                BY <1>2 DEF DataRead
            <4>3. DataRead(s)' = {}
                <5>1. taken'[s] = 1 /\ stream' = stream
                    BY <1>1, <1>4 DEF server
                <5>2. \A e \in 1 .. 1 : stream[s].sent[e] \notin {"data", "error"}
                    BY <4>1
                <5> QED BY <5>1, <5>2 DEF DataRead
            <4> QED BY <3>1, <4>2, <4>3
        <3>2. CASE r # s
            BY <1>1, <1>4, <3>2 DEF DataRead, server, history
        <3> QED BY <3>1, <3>2
    <2> QED BY <1>0, <1>1, <2>1, <2>2, AnswersStay DEF convVars, history
<1> QED BY <1>5, <1>6, <1>7, <1>8, <1>9 DEF IndInv

LEMMA FetchFailsInv == ASSUME IndInv, NEW s \in Sends, FetchFails(s) PROVE IndInv'
<1>1. /\ s \in InFlight /\ Finally(s)
      /\ UNCHANGED <<convVars, messages, taken, known, home, strayed, partial>>
    BY DEF FetchFails, InFlight
<1>2. /\ taken \in [Sends -> 0 .. MaxEvents] /\ taken[s] <= Len(stream[s].sent)
      /\ strayed \in [Sends -> BOOLEAN] /\ PartsRead
    BY DEF IndInv, SendsOK, StreamsOK, StreamOK
<1>3. PartsRead' /\ partial \subseteq partial'
    BY <1>1, <1>2 DEF PartsRead
<1> QED BY <1>1, <1>2, <1>3, FinallyInv DEF DataRead, DataNow

LEMMA ReadEndsInv == ASSUME IndInv, NEW s \in Sends, ReadEnds(s) PROVE IndInv'
<1>1. /\ s \in InFlight /\ Finally(s)
      /\ UNCHANGED <<convVars, messages, taken, known, home, strayed, partial>>
    BY DEF ReadEnds, InFlight
<1>2. /\ taken \in [Sends -> 0 .. MaxEvents] /\ taken[s] <= Len(stream[s].sent)
      /\ strayed \in [Sends -> BOOLEAN] /\ PartsRead
    BY DEF IndInv, SendsOK, StreamsOK, StreamOK
<1>3. PartsRead' /\ partial \subseteq partial'
    BY <1>1, <1>2 DEF PartsRead
<1> QED BY <1>1, <1>2, <1>3, FinallyInv DEF DataRead, DataNow

\* What there is to read.
LEMMA ResolvesIs ==
    ASSUME IndInv, NEW s \in Sends, Resolves(s)
    PROVE  /\ s \in InFlight /\ at[s] = "read" /\ taken[s] \in Nat \ {0} /\ taken[s] + 1 <= Len(stream[s].sent)
           /\ taken[s] + 1 \in 0 .. MaxEvents
           /\ [taken EXCEPT ![s] = @ + 1] \in [Sends -> 0 .. MaxEvents]
           /\ stream[s].sent[taken[s] + 1] \in {"data", "done", "error"}
<1>1. at[s] = "read" /\ taken[s] < Len(stream[s].sent) /\ s \in InFlight
    BY DEF Resolves, InFlight
<1>2. /\ taken \in [Sends -> 0 .. MaxEvents] /\ taken[s] \in Nat /\ taken[s] > 0
      /\ stream[s].sent \in Seq(Events) /\ Len(stream[s].sent) <= MaxEvents
      /\ \A e \in 1 .. Len(stream[s].sent) : stream[s].sent[e] = "headers" <=> e = 1
    BY <1>1 DEF IndInv, SendsOK, StreamsOK, StreamOK, Streams
<1>3. taken[s] + 1 \in 1 .. Len(stream[s].sent) /\ taken[s] + 1 # 1 /\ taken[s] + 1 \in 0 .. MaxEvents
    BY <1>1, <1>2, StoreAssumption
<1>4. stream[s].sent[taken[s] + 1] \in Events /\ stream[s].sent[taken[s] + 1] # "headers"
    BY <1>2, <1>3
<1> QED BY <1>1, <1>2, <1>3, <1>4 DEF Events

LEMMA ReadDoneInv == ASSUME IndInv, NEW s \in Sends, ReadDone(s) PROVE IndInv'
<1>1. /\ Finally(s) /\ taken' = [taken EXCEPT ![s] = @ + 1]
      /\ UNCHANGED <<convVars, messages, known, home, strayed, partial>>
      /\ stream[s].sent[taken[s] + 1] = "done"
    BY DEF ReadDone, IsDone, NextEvent
<1>2. /\ s \in InFlight /\ taken[s] \in Nat \ {0} /\ taken[s] + 1 <= Len(stream[s].sent)
      /\ taken' \in [Sends -> 0 .. MaxEvents]
    BY <1>1, ResolvesIs DEF ReadDone
<1>3. /\ taken \in [Sends -> 0 .. MaxEvents]
      /\ strayed \in [Sends -> BOOLEAN] /\ PartsRead /\ MaxEvents \in Nat
    BY StoreAssumption DEF IndInv, SendsOK
<1>4. taken'[s] = taken[s] + 1 /\ \A r \in Sends \ {s} : taken'[r] = taken[r]
    BY <1>1, <1>3
<1>5. DataNow(s) = DataRead(s)
    <2>1. \A e \in 1 .. taken[s] + 1 : e \in 1 .. taken[s] \/ e = taken[s] + 1
        BY <1>2
    <2> QED BY <1>1, <1>2, <1>4, <2>1 DEF DataRead, DataNow
<1>6. \A r \in Sends : DataNow(r) = DataRead(r)
    <2> TAKE r \in Sends
    <2>1. CASE r = s
        BY <1>1, <1>5, <2>1
    <2>2. CASE r # s
        BY <1>1, <1>4, <2>2 DEF DataRead, DataNow
    <2> QED BY <2>1, <2>2
<1>7. PartsRead' /\ partial \subseteq partial'
    <2> SUFFICES ASSUME NEW r \in Sends, NEW e \in 1 .. MaxEvents, <<r, e>> \in partial
                 PROVE  e <= taken'[r]
        BY <1>1 DEF PartsRead
    <2>1. e <= taken[r] /\ taken[r] \in Nat
        BY <1>3 DEF PartsRead
    <2>2. taken'[r] = taken[r] \/ taken'[r] = taken[r] + 1
        BY <1>4
    <2> QED BY <1>3, <2>1, <2>2
<1> QED BY <1>1, <1>2, <1>3, <1>4, <1>6, <1>7, FinallyInv

\* One more event was read, as a whole or in part.
LEMMA TakenIs ==
    ASSUME IndInv, NEW s \in Sends, Resolves(s), taken' = [taken EXCEPT ![s] = @ + 1],
           NEW whole \in BOOLEAN, Reads(s, whole)
    PROVE  /\ PartsRead' /\ partial \subseteq partial'
           /\ \A r \in Sends \ {s} : DataNow(r) = DataRead(r)
           /\ whole => DataNow(s) = DataRead(s) \cup {taken[s] + 1}
           /\ ~ whole => DataNow(s) = DataRead(s)
<1>1. /\ taken[s] \in Nat \ {0} /\ taken[s] + 1 \in 0 .. MaxEvents /\ MaxEvents \in Nat
      /\ taken \in [Sends -> 0 .. MaxEvents] /\ PartsRead
    BY ResolvesIs, StoreAssumption DEF IndInv, SendsOK
<1>2. taken'[s] = taken[s] + 1 /\ \A r \in Sends \ {s} : taken'[r] = taken[r]
    BY <1>1
<1>3. /\ \A r, e : <<r, e>> \in partial => <<r, e>> \in partial'
      /\ \A r, e : <<r, e>> \in partial' => <<r, e>> \in partial \/ (~ whole /\ r = s /\ e = taken[s] + 1)
      /\ ~ whole => <<s, taken[s] + 1>> \in partial'
      /\ partial \subseteq partial'
    BY DEF Reads
<1>4. PartsRead'
    <2> SUFFICES ASSUME NEW r \in Sends, NEW e \in 1 .. MaxEvents, <<r, e>> \in partial'
                 PROVE  e <= taken'[r]
        BY DEF PartsRead
    <2>1. CASE <<r, e>> \in partial
        <3>1. e <= taken[r] /\ taken[r] \in Nat
            BY <1>1, <2>1 DEF PartsRead
        <3>2. taken'[r] = taken[r] \/ taken'[r] = taken[r] + 1
            BY <1>2
        <3> QED BY <3>1, <3>2
    <2>2. CASE r = s /\ e = taken[s] + 1
        BY <1>1, <1>2, <2>2
    <2> QED BY <1>3, <2>1, <2>2
<1>5. ASSUME NEW r \in Sends \ {s} PROVE DataNow(r) = DataRead(r)
    <2>1. \A e : <<r, e>> \in partial' <=> <<r, e>> \in partial
        BY <1>3
    <2> QED BY <1>2, <2>1 DEF DataNow, DataRead
<1>6. /\ whole => DataNow(s) = DataRead(s) \cup {taken[s] + 1}
      /\ ~ whole => DataNow(s) = DataRead(s)
    <2>1. ASSUME NEW e \in 1 .. taken[s] PROVE e \in DataNow(s) <=> e \in DataRead(s)
        <3>1. e \in 1 .. taken'[s] /\ e # taken[s] + 1
            BY <1>1, <1>2
        <3>2. <<s, e>> \in partial' <=> <<s, e>> \in partial
            BY <1>3, <3>1
        <3> QED BY <3>1, <3>2 DEF DataNow, DataRead
    <2>2. taken[s] + 1 \in DataNow(s) <=> whole
        <3>1. taken[s] + 1 \in 1 .. taken'[s]
            BY <1>1, <1>2
        <3>2. <<s, taken[s] + 1>> \notin partial
            <4>1. taken[s] + 1 \in 1 .. MaxEvents /\ ~ (taken[s] + 1 <= taken[s])
                BY <1>1
            <4> QED BY <1>1, <4>1 DEF PartsRead
        <3>3. CASE whole
            BY <3>1, <3>2, <3>3 DEF DataNow, Reads
        <3>4. CASE ~ whole
            BY <1>3, <3>4 DEF DataNow
        <3> QED BY <3>3, <3>4
    <2>3. DataRead(s) \subseteq 1 .. taken[s] /\ DataNow(s) \subseteq 1 .. taken'[s]
        BY DEF DataRead, DataNow
    <2>4. \A e \in 1 .. taken'[s] : e \in 1 .. taken[s] \/ e = taken[s] + 1
        BY <1>1, <1>2
    <2>5. taken[s] + 1 \notin 1 .. taken[s]
        BY <1>1
    <2>6. CASE whole
        BY <2>1, <2>2, <2>3, <2>4, <2>6
    <2>7. CASE ~ whole
        BY <2>1, <2>2, <2>3, <2>4, <2>7
    <2> QED BY <2>6, <2>7
<1> QED BY <1>3, <1>4, <1>5, <1>6

\* A piece is put behind a text.
LEMMA Appended ==
    ASSUME NEW q \in Seq(Piece), NEW p \in Piece, NEW r \in Sends
    PROVE  /\ Append(q, p) \in Seq(Piece)
           /\ \A k \in Places(r, q) : k \in 1 .. Len(q) /\ Append(q, p)[k] = q[k]
           /\ Append(q, p)[Len(q) + 1] = p
           /\ Places(r, Append(q, p)) = Places(r, q) \cup (IF p.send = r THEN {Len(q) + 1} ELSE {})
<1> DEFINE t == Append(q, p)
<1>1. /\ t \in Seq(Piece) /\ Len(t) = Len(q) + 1 /\ t[Len(q) + 1] = p
      /\ \A k \in 1 .. Len(q) : t[k] = q[k]
      /\ DOMAIN t = 1 .. Len(q) + 1 /\ DOMAIN q = 1 .. Len(q) /\ Len(q) \in Nat
    OBVIOUS
<1> HIDE DEF t
<1>2. \A k \in 1 .. Len(q) + 1 : k \in 1 .. Len(q) \/ k = Len(q) + 1
    BY <1>1
<1>3. Places(r, t) = Places(r, q) \cup (IF p.send = r THEN {Len(q) + 1} ELSE {})
    <2>1. ASSUME NEW k PROVE k \in Places(r, t) <=> k \in Places(r, q) \/ (k = Len(q) + 1 /\ p.send = r)
        <3>1. CASE k \in 1 .. Len(q)
            BY <1>1, <3>1 DEF Places
        <3>2. CASE k = Len(q) + 1
            BY <1>1, <3>2 DEF Places
        <3>3. CASE k \notin 1 .. Len(q) + 1
            BY <1>1, <3>3 DEF Places
        <3> QED BY <1>2, <3>1, <3>2, <3>3
    <2> QED BY <2>1
<1> QED BY <1>1, <1>3 DEF t, Places

\* Whatever is not whole comes from an event that was read in part.
PartsAre(s, content) ==
    \A k \in Places(s, content) : ~ content[k].whole => <<s, content[k].event>> \in partial

\* A text that is u now.
LEMMA KeptNow ==
    ASSUME NEW r \in Sends, NEW c \in Convs, NEW i \in Nat, NEW u,
           messages'[c][i].content = u,
           IF c = home'[r] /\ i = aiMessageIndex'[r]
           THEN /\ Shown(r, u) = DataRead(r)'
                /\ PartsAre(r, u)'
                /\ \A k, l \in Places(r, u) : k < l => u[k].event < u[l].event
           ELSE Places(r, u) = {}
    PROVE  Kept(r, c, i)'
<1>1. /\ Places(r, messages[c][i].content)' = Places(r, u)
      /\ Shown(r, messages[c][i].content)' = Shown(r, u)
    BY DEF Places, Shown
<1> QED BY <1>1 DEF Kept, Arrived, PartsAre

LEMMA PieceInv ==
    ASSUME IndInv, NEW s \in InFlight, Resolves(s), NEW piece \in Piece, piece.send = s,
           Target(s) \in 1 .. Len(messages[current]),
           messages' = [messages EXCEPT ![current][Target(s)].content = Append(@, piece)],
           taken' = [taken EXCEPT ![s] = @ + 1],
           strayed' = [strayed EXCEPT ![s] = @ \/ current # home[s]],
           piece.event = taken[s] + 1, Reads(s, piece.whole),
           UNCHANGED <<convVars, flags, sends, at, aiMessageIndex, aborted, stream, known, home, overlapped>>
    PROVE  IndInv'
<1> DEFINE t == aiMessageIndex[s]
           q == messages[current][t].content
<1>0. StoreOK /\ SendsOK /\ StreamsOK /\ FlagsOK /\ AnswersOK
    BY DEF IndInv
<1>1. /\ s \in Sends /\ at[s] = "read" /\ taken[s] \in Nat \ {0} /\ taken[s] + 1 <= Len(stream[s].sent)
      /\ taken' \in [Sends -> 0 .. MaxEvents] /\ taken[s] + 1 \in 0 .. MaxEvents
    BY ResolvesIs, InFlightIs
<1>2. current \in Convs /\ t \in 1 .. Len(messages[current]) /\ messages[current] \in Seq(Text)
    BY <1>0 DEF StoreOK, ToSet, Target
<1>3. messages[current][t] \in Text /\ q \in Seq(Piece)
    <2>1. messages[current][t] \in Text
        <3> HIDE DEF t
        <3> QED BY <1>2
    <2> QED BY <2>1 DEF Text
<1>4. /\ messages' \in [Convs -> Seq(Text)]
      /\ \A c \in Convs : Len(messages'[c]) = Len(messages[c])
      /\ \A c \in Convs : \A i \in 1 .. Len(messages[c]) :
            c # current \/ i # t => messages'[c][i] = messages[c][i]
      /\ messages'[current][t].content = Append(q, piece)
    <2>1. messages' = [messages EXCEPT ![current] =
                          [messages[current] EXCEPT ![t] = [messages[current][t] EXCEPT !.content = Append(q, piece)]]]
        BY DEF Target
    <2> DEFINE m == [messages[current][t] EXCEPT !.content = Append(q, piece)]
               l == [messages[current] EXCEPT ![t] = m]
    <2>2. m \in Text /\ m.content = Append(q, piece)
        <3>1. PICK x \in Text, y \in Seq(Piece) : x = messages[current][t] /\ y = Append(q, piece)
            <4>1. Append(q, piece) \in Seq(Piece)
                BY <1>3
            <4> QED BY <1>3, <4>1
        <3>2. m = [x EXCEPT !.content = y]
            BY <3>1
        <3> HIDE DEF m
        <3> QED BY <3>1, <3>2 DEF Text
    <2> HIDE DEF m, q, t
    <2>3. /\ l \in Seq(Text) /\ Len(l) = Len(messages[current]) /\ l[t] = m
          /\ \A i \in 1 .. Len(messages[current]) : i # t => l[i] = messages[current][i]
        BY <1>2, <2>2
    <2>4. messages' = [messages EXCEPT ![current] = l]
        BY <2>1 DEF m
    <2> HIDE DEF l
    <2>5. messages \in [Convs -> Seq(Text)]
        BY <1>0 DEF StoreOK
    <2>6. /\ messages' \in [Convs -> Seq(Text)] /\ messages'[current] = l
          /\ \A c \in Convs : c # current => messages'[c] = messages[c]
        BY <1>2, <2>3, <2>4, <2>5
    <2> QED BY <1>2, <2>2, <2>3, <2>6
<1> HIDE DEF t, q
<1>5. StoreOK'
    <2>1. \A c \in Convs \ ToSet(conversations) : messages'[c] = << >>
        <3>1. current \in ToSet(conversations)
            BY <1>0 DEF StoreOK
        <3> SUFFICES ASSUME NEW c \in Convs, c \notin ToSet(conversations) PROVE messages'[c] = << >>
            OBVIOUS
        <3>2. messages[c] = << >> /\ Len(messages[c]) = 0 /\ Len(messages'[c]) = 0 /\ messages'[c] \in Seq(Text)
            BY <1>0, <1>4 DEF StoreOK
        <3> QED BY <3>2
    <2> QED BY <1>0, <1>4, <2>1 DEF StoreOK, convVars, flags
<1>15. /\ PartsRead' /\ partial \subseteq partial'
       /\ \A r \in Sends \ {s} : DataNow(r) = DataRead(r)
       /\ piece.whole => DataNow(s) = DataRead(s) \cup {taken[s] + 1}
       /\ ~ piece.whole => DataNow(s) = DataRead(s)
    <2>1. piece.whole \in BOOLEAN
        BY DEF Piece
    <2> QED BY <1>1, <2>1, TakenIs
<1>6. SendsOK' /\ strayed' \in [Sends -> BOOLEAN]
    <2>1. strayed' \in [Sends -> BOOLEAN]
        BY <1>0, <1>1 DEF SendsOK
    <2> QED BY <1>0, <1>1, <1>15, <2>1 DEF SendsOK, convVars
<1>7. \A r \in Sends : taken'[r] = IF r = s THEN taken[s] + 1 ELSE taken[r]
    BY <1>0, <1>1 DEF SendsOK
<1>8. StreamsOK'
    <2>1. ASSUME NEW r \in Sends PROVE StreamOK(r)'
        <3>1. StreamOK(r)
            BY <1>0 DEF StreamsOK
        <3>2. CASE r # s
            BY <1>7, <3>1, <3>2 DEF StreamOK
        <3>3. CASE r = s
            BY <1>1, <1>7, <3>1, <3>3 DEF StreamOK
        <3> QED BY <3>2, <3>3
    <2> QED BY <1>0, <2>1 DEF StreamsOK
<1>9. FlagsOK'
    BY <1>0, FlagsStay DEF InFlight, flags
<1>10. \A r \in Sends : DataRead(r)' = DataNow(r)
    BY DEF DataRead, DataNow
<1>11. \A k \in DOMAIN q : q[k] \in Piece
    BY <1>3
<1>12. \A r \in Sends : ~ strayed'[r] => ~ strayed[r] /\ (r = s => current = home[s])
    BY <1>0, <1>1 DEF SendsOK
<1>13. ASSUME NEW r \in Sends, ~ strayed'[r], NEW c \in Convs, NEW i \in 1 .. Len(messages[c])
       PROVE  Kept(r, c, i)'
    <2>1. Kept(r, c, i)
        BY <1>0, <1>12, <1>13 DEF AnswersOK
    <2>2. CASE ~ (c = current /\ i = t)
        <3>1. messages'[c][i].content = messages[c][i].content
            BY <1>4, <2>2
        <3>2. CASE r # s
            BY <1>15, <1>10, <2>1, <3>1, <3>2, KeptStays
        <3>3. CASE r = s
            <4>1. ~ (c = home[r] /\ i = aiMessageIndex[r])
                BY <1>12, <1>13, <2>2, <3>3 DEF t
            <4> QED BY <2>1, <3>1, <4>1 DEF Kept, Places
        <3> QED BY <3>2, <3>3
    <2>3. CASE c = current /\ i = t
        <3>0. PICK u : u = Append(q, piece)
            OBVIOUS
        <3>1. /\ u \in Seq(Piece) /\ \A k \in Places(r, q) : k \in 1 .. Len(q) /\ u[k] = q[k]
              /\ u[Len(q) + 1] = piece
              /\ Places(r, u) = Places(r, q) \cup (IF piece.send = r THEN {Len(q) + 1} ELSE {})
            BY <1>3, <3>0, Appended
        <3>2. messages'[c][i].content = u /\ messages[c][i].content = q
            BY <1>4, <2>3, <3>0 DEF q
        <3>3. CASE r # s
            <4>1. Places(r, u) = Places(r, q)
                BY <3>1, <3>3
            <4>2. ASSUME Arrived(r, q)
                  PROVE  /\ Shown(r, u) = DataRead(r)'
                         /\ PartsAre(r, u)'
                         /\ \A k, l \in Places(r, u) : k < l => u[k].event < u[l].event
                <5>1. Shown(r, u) = Shown(r, q)
                    BY <3>1, <4>1 DEF Shown
                <5>2. \A k, l \in Places(r, u) : k < l => u[k].event < u[l].event
                    BY <3>1, <4>1, <4>2 DEF Arrived
                <5>3. Shown(r, u) = DataRead(r)'
                    BY <1>15, <1>10, <3>3, <4>2, <5>1 DEF Arrived
                <5>4. PartsAre(r, u)'
                    <6>1. \A k \in Places(r, u) : ~ u[k].whole => <<r, u[k].event>> \in partial'
                        BY <1>15, <3>1, <4>1, <4>2 DEF Arrived
                    <6> QED BY <6>1 DEF PartsAre, Places
                <5> QED BY <5>2, <5>3, <5>4
            <4>3. IF c = home[r] /\ i = aiMessageIndex[r] THEN Arrived(r, q) ELSE Places(r, q) = {}
                BY <2>1, <3>2 DEF Kept
            <4>4. CASE c = home[r] /\ i = aiMessageIndex[r]
                <5>1. Arrived(r, q)
                    BY <4>3, <4>4
                <5>2. home'[r] = home[r] /\ aiMessageIndex'[r] = aiMessageIndex[r] /\ i \in Nat
                    OBVIOUS
                <5> QED BY <3>2, <4>2, <4>4, <5>1, <5>2, KeptNow
            <4>5. CASE ~ (c = home[r] /\ i = aiMessageIndex[r])
                BY <3>2, <4>1, <4>3, <4>5, KeptNow
            <4> QED BY <4>4, <4>5
        <3>4. CASE r = s
            <4>1. c = home[s] /\ i = aiMessageIndex[s]
                BY <1>12, <1>13, <2>3, <3>4 DEF t
            <4>2. Arrived(s, q)
                BY <2>1, <3>2, <3>4, <4>1 DEF Kept
            <4>3. Places(s, u) = Places(s, q) \cup {Len(q) + 1} /\ u[Len(q) + 1].event = taken[s] + 1
                BY <3>1, <3>4
            <4>4. Shown(s, u) = DataNow(s)
                <5>0. (\A k \in Places(s, q) : u[k] = q[k]) /\ u[Len(q) + 1].whole = piece.whole
                    BY <3>1, <3>4
                <5>1. CASE piece.whole
                    <6>1. Shown(s, u) = Shown(s, q) \cup {taken[s] + 1}
                        BY ONLY <4>3, <5>0, <5>1 DEF Shown
                    <6> QED BY <1>15, <4>2, <5>1, <6>1 DEF Arrived
                <5>2. CASE ~ piece.whole
                    <6>1. Shown(s, u) = Shown(s, q)
                        BY ONLY <4>3, <5>0, <5>2 DEF Shown
                    <6> QED BY <1>15, <4>2, <5>2, <6>1 DEF Arrived
                <5> QED BY <5>1, <5>2
            <4>5. ASSUME NEW k \in Places(s, u), NEW l \in Places(s, u), k < l
                  PROVE  u[k].event < u[l].event
                <5>1. Len(q) \in Nat
                    BY <1>3
                <5>2. k \in Places(s, q)
                    BY <3>1, <3>4, <4>3, <4>5, <5>1
                <5>3. CASE l \in Places(s, q)
                    BY <3>1, <3>4, <4>2, <4>5, <5>2, <5>3 DEF Arrived
                <5>4. CASE l = Len(q) + 1
                    <6>1. q[k].event \in 1 .. MaxEvents
                        BY <1>11, <5>2 DEF Piece, Places
                    <6>2. q[k].event <= taken[s]
                        <7>1. CASE q[k].whole
                            <8>1. q[k].event \in DataRead(s)
                                BY <4>2, <5>2, <7>1 DEF Arrived, Shown
                            <8> QED BY <1>1, <8>1 DEF DataRead
                        <7>2. CASE ~ q[k].whole
                            <8>1. <<s, q[k].event>> \in partial
                                BY <4>2, <5>2, <7>2 DEF Arrived
                            <8> QED BY <1>0, <1>1, <6>1, <8>1 DEF SendsOK, PartsRead
                        <7> QED BY <7>1, <7>2
                    <6> QED BY <1>1, <3>1, <3>4, <4>3, <5>2, <5>4, <6>1, <6>2
                <5> QED BY <4>3, <5>3, <5>4
            <4>6. Shown(s, u) = DataRead(s)'
                <5>1. DataRead(s)' = DataNow(s)
                    BY DEF DataRead, DataNow
                <5> QED BY <4>4, <5>1
            <4>8. ASSUME NEW k \in Places(s, u), ~ u[k].whole PROVE <<s, u[k].event>> \in partial'
                <5>1. CASE k \in Places(s, q)
                    BY <1>15, <3>1, <3>4, <4>2, <4>8, <5>1 DEF Arrived
                <5>2. CASE k = Len(q) + 1
                    BY <3>1, <4>8, <5>2 DEF Reads
                <5> QED BY <4>3, <5>1, <5>2
            <4>7. i \in Nat /\ messages'[c][i].content = u /\ home'[s] = home[s]
                  /\ aiMessageIndex'[s] = aiMessageIndex[s]
                BY <3>2
            <4>9. Kept(s, c, i)'
                <5>1. PartsAre(s, u)'
                    BY <4>8 DEF PartsAre, Places
                <5>2. \A k, l \in Places(s, u) : k < l => u[k].event < u[l].event
                    BY <4>5
                <5>3. c = home'[s] /\ i = aiMessageIndex'[s]
                    BY <4>1, <4>7
                <5>4. s \in Sends /\ c \in Convs /\ i \in Nat /\ messages'[c][i].content = u
                    BY <1>1, <4>7
                <5>5. Shown(s, u) = DataRead(s)'
                    BY <4>6
                <5> QED BY ONLY <5>1, <5>2, <5>3, <5>4, <5>5, KeptNow
            <4> QED BY <3>4, <4>9
        <3> QED BY <3>3, <3>4
    <2> QED BY <2>2, <2>3
<1>14. AnswersOK'
    <2>1. \A r \in Sends : home[r] \in ToSet(conversations) =>
                            aiMessageIndex[r] \in 0 .. Len(messages'[home[r]])
        <3>1. ToSet(conversations) \subseteq Convs
            BY <1>0 DEF StoreOK, ToSet
        <3> QED BY <1>0, <1>4, <3>1 DEF AnswersOK
    <2>2. \A r \in Sends : ~ strayed'[r] =>
              \A c \in Convs : \A i \in 1 .. Len(messages'[c]) : Kept(r, c, i)'
        BY <1>4, <1>13
    <2>3. /\ \A r \in Sends : at'[r] = "new" => aiMessageIndex'[r] = 0
          /\ \A r \in Sends : at'[r] # "new" => aiMessageIndex'[r] # 0
        BY <1>0 DEF AnswersOK
    <2>4. \A r \in Sends : home'[r] \in ToSet(conversations') =>
              aiMessageIndex'[r] \in 0 .. Len(messages'[home'[r]])
        BY <2>1 DEF convVars
    <2> QED BY <2>2, <2>3, <2>4 DEF AnswersOK
<1> QED BY <1>5, <1>6, <1>8, <1>9, <1>14 DEF IndInv

LEMMA AppendInv ==
    ASSUME IndInv, NEW s \in Sends, Resolves(s), NEW piece \in Piece, piece.send = s,
           AppendPiece(s, piece), UNCHANGED <<convVars, known, home>>,
           piece.event = taken[s] + 1, Reads(s, piece.whole)
    PROVE  IndInv'
<1>1. /\ taken' = [taken EXCEPT ![s] = @ + 1]
      /\ strayed' = [strayed EXCEPT ![s] = @ \/ current # home[s]]
    BY DEF AppendPiece
<1>2. /\ s \in InFlight /\ at[s] = "read" /\ taken[s] \in Nat /\ taken[s] + 1 <= Len(stream[s].sent)
      /\ taken' \in [Sends -> 0 .. MaxEvents]
    BY <1>1, ResolvesIs
<1>3. CASE Target(s) \in 1 .. Len(messages[current])
    <2>1. /\ messages' = [messages EXCEPT ![current][Target(s)].content = Append(@, piece)]
          /\ UNCHANGED <<flags, sends, at, aiMessageIndex, aborted, stream, overlapped>>
        BY <1>3 DEF AppendPiece
    <2>2. UNCHANGED <<convVars, flags, sends, at, aiMessageIndex, aborted, stream, known, home, overlapped>>
        BY <2>1
    <2> QED BY <1>1, <1>2, <1>3, <2>1, <2>2, PieceInv
<1>4. CASE Target(s) \notin 1 .. Len(messages[current])
    <2>1. Finally(s) /\ UNCHANGED messages
        BY <1>4 DEF AppendPiece
    <2>2. /\ strayed \in [Sends -> BOOLEAN] /\ taken \in [Sends -> 0 .. MaxEvents]
          /\ messages \in [Convs -> Seq(Text)] /\ current \in ToSet(conversations)
        BY DEF IndInv, SendsOK, StoreOK
    <2>3. current # home[s]
        <3> SUFFICES ASSUME current = home[s] PROVE FALSE
            OBVIOUS
        <3>1. /\ aiMessageIndex[s] \in 0 .. Len(messages[current]) /\ aiMessageIndex[s] # 0
            BY <1>2, <2>2 DEF IndInv, AnswersOK
        <3> QED BY <1>4, <3>1 DEF Target
    <2>4. strayed'[s] /\ strayed' \in [Sends -> BOOLEAN] /\ \A r \in Sends : strayed[r] => strayed'[r]
        BY <1>1, <2>2, <2>3
    <2>5. taken'[s] = taken[s] + 1 /\ \A r \in Sends \ {s} : taken'[r] = taken[r]
        BY <1>1, <2>2
    <2>6. UNCHANGED <<convVars, messages, known, home>>
        BY <2>1
    <2>7. /\ PartsRead' /\ partial \subseteq partial'
          /\ \A r \in Sends \ {s} : DataNow(r) = DataRead(r)
        <3>1. piece.whole \in BOOLEAN
            BY DEF Piece
        <3> QED BY <1>1, <3>1, TakenIs
    <2>8. \A r \in Sends : ~ strayed'[r] => DataNow(r) = DataRead(r)
        BY <2>4, <2>7
    <2> QED BY <1>2, <2>1, <2>4, <2>5, <2>6, <2>7, <2>8, FinallyInv
<1> QED BY <1>3, <1>4

LEMMA ReadDataInv == ASSUME IndInv, NEW s \in Sends, ReadData(s) PROVE IndInv'
<1>0. PICK piece : piece = [send |-> s, event |-> taken[s] + 1, whole |-> TRUE]
    OBVIOUS
<1>1. /\ Resolves(s) /\ NextEvent(s) # "done" /\ AppendPiece(s, piece)
      /\ UNCHANGED <<convVars, known, home>> /\ partial' = partial
    BY <1>0 DEF ReadData, IsDone
<1>2. /\ taken[s] + 1 \in 1 .. MaxEvents /\ NextEvent(s) \in {"data", "done", "error"}
    <2>1. taken[s] \in Nat \ {0} /\ taken[s] + 1 \in 0 .. MaxEvents
        BY <1>1, ResolvesIs
    <2> QED BY <1>1, <2>1, ResolvesIs DEF NextEvent
<1>3. piece \in Piece /\ piece.send = s /\ piece.event = taken[s] + 1 /\ piece.whole
    BY <1>0, <1>2 DEF Piece
<1>4. Reads(s, piece.whole)
    BY <1>1, <1>2, <1>3 DEF NextEvent, Reads
<1> QED BY <1>1, <1>3, <1>4, AppendInv

LEMMA ReadPartInv == ASSUME IndInv, NEW s \in Sends, ReadPart(s) PROVE IndInv'
<1>0. PICK piece : piece = [send |-> s, event |-> taken[s] + 1, whole |-> FALSE]
    OBVIOUS
<1>1. /\ Resolves(s) /\ partial' = partial \cup {<<s, taken[s] + 1>>}
      /\ UNCHANGED <<convVars, known, home>>
      /\ \/ AppendPiece(s, piece)
         \/ /\ taken' = [taken EXCEPT ![s] = @ + 1]
            /\ UNCHANGED <<messages, flags, sends, at, aiMessageIndex, aborted, stream, strayed, overlapped>>
    BY <1>0 DEF ReadPart
<1>2. /\ StoreOK /\ SendsOK /\ StreamsOK /\ FlagsOK /\ AnswersOK
      /\ taken \in [Sends -> 0 .. MaxEvents] /\ MaxEvents \in Nat
    BY StoreAssumption DEF IndInv, SendsOK
<1>3. Reads(s, FALSE)
    BY <1>1 DEF Reads
<1>4. piece \in Piece /\ piece.send = s /\ piece.event = taken[s] + 1 /\ piece.whole = FALSE
    <2>1. taken[s] \in Nat \ {0} /\ taken[s] + 1 \in 0 .. MaxEvents
        BY <1>1, ResolvesIs
    <2>2. taken[s] + 1 \in 1 .. MaxEvents
        BY <1>2, <2>1
    <2> QED BY <1>0, <2>2 DEF Piece
<1>5. CASE AppendPiece(s, piece)
    BY <1>1, <1>3, <1>4, <1>5, AppendInv
<1>6. CASE /\ taken' = [taken EXCEPT ![s] = @ + 1]
           /\ UNCHANGED <<messages, flags, sends, at, aiMessageIndex, aborted, stream, strayed, overlapped>>
    <2>7. /\ PartsRead' /\ partial \subseteq partial'
          /\ \A r \in Sends \ {s} : DataNow(r) = DataRead(r)
          /\ DataNow(s) = DataRead(s)
        BY <1>1, <1>3, <1>6, TakenIs
    <2>0. /\ UNCHANGED <<messages, flags, sends, at, aiMessageIndex, aborted, stream, strayed, overlapped>>
          /\ UNCHANGED <<convVars, known, home>>
        BY <1>1, <1>6
    <2>1. /\ at[s] = "read" /\ taken[s] \in Nat \ {0} /\ taken[s] + 1 <= Len(stream[s].sent)
          /\ taken' \in [Sends -> 0 .. MaxEvents]
        BY <1>1, <1>6, ResolvesIs
    <2>2. \A r \in Sends : taken'[r] = IF r = s THEN taken[s] + 1 ELSE taken[r]
        BY <1>2, <1>6
    <2>3. StoreOK' /\ SendsOK'
        <3>1. StoreOK'
            BY <1>2, <2>0 DEF StoreOK, convVars, flags
        <3>2. SendsOK'
            BY <1>2, <2>7, <2>0, <2>1 DEF SendsOK, convVars
        <3> QED BY <3>1, <3>2
    <2>4. StreamsOK'
        <3>1. ASSUME NEW r \in Sends PROVE StreamOK(r)'
            <4>1. StreamOK(r)
                BY <1>2 DEF StreamsOK
            <4>2. CASE r # s
                BY <2>0, <2>2, <4>1, <4>2 DEF StreamOK
            <4>3. CASE r = s
                BY <2>0, <2>1, <2>2, <4>1, <4>3 DEF StreamOK
            <4> QED BY <4>2, <4>3
        <3> QED BY <1>2, <2>0, <3>1 DEF StreamsOK
    <2>5. FlagsOK'
        BY <1>2, <2>0, FlagsStay DEF InFlight, flags
    <2>6. AnswersOK'
        <3>1. ASSUME NEW r \in Sends, ~ strayed'[r] PROVE ~ strayed[r] /\ DataRead(r)' = DataRead(r)
            <4>1. DataRead(r)' = DataNow(r)
                BY <2>0 DEF DataRead, DataNow
            <4>2. ~ strayed[r]
                BY <2>0, <3>1
            <4>3. CASE r = s
                BY <2>7, <4>1, <4>2, <4>3
            <4>4. CASE r # s
                BY <2>7, <4>1, <4>2, <4>4
            <4> QED BY <4>3, <4>4
        <3>2. /\ UNCHANGED <<home, aiMessageIndex, messages>>
              /\ \A r \in Sends : at'[r] = "new" <=> at[r] = "new"
              /\ \A r \in Sends : home[r] \in ToSet(conversations') => home[r] \in ToSet(conversations)
            BY <2>0 DEF convVars
        <3> QED BY <1>2, <2>7, <3>1, <3>2, AnswersStay
    <2> QED BY <2>3, <2>4, <2>5, <2>6 DEF IndInv
<1> QED BY <1>1, <1>5, <1>6

-----------------------------------------------------------------------------
(* The server.                                                             *)

\* The streams change, and nothing else does.
LEMMA StreamsChangeInv ==
    ASSUME IndInv, UNCHANGED <<known, convVars, messages, flags, sendVars, history>>,
           stream' \in [Sends -> Streams], \A r \in Sends : StreamOK(r)',
           \A r \in Sends : \A e \in 1 .. taken[r] : stream'[r].sent[e] = stream[r].sent[e]
    PROVE  IndInv'
<1>0. StoreOK /\ SendsOK /\ StreamsOK /\ FlagsOK /\ AnswersOK
    BY DEF IndInv
<1>1. StoreOK'
    BY <1>0 DEF StoreOK, convVars, flags
<1>2. SendsOK'
    BY <1>0 DEF SendsOK, PartsRead, convVars, sendVars, history
<1>3. StreamsOK'
    BY <1>0 DEF StreamsOK
<1>4. FlagsOK'
    BY <1>0, FlagsStay DEF InFlight, flags, sendVars, history
<1>5. AnswersOK'
    <2>1. \A r \in Sends : DataRead(r)' = DataRead(r)
        <3>1. \A r \in Sends : taken[r] \in Nat /\ taken'[r] = taken[r]
            BY <1>0, StoreAssumption DEF SendsOK, sendVars
        <3>2. partial' = partial
            BY DEF history
        <3> QED BY <3>1, <3>2, DataStays
    <2> QED BY <1>0, <2>1, AnswersStay DEF convVars, sendVars, history
<1> QED BY <1>1, <1>2, <1>3, <1>4, <1>5 DEF IndInv

LEMMA ServeInv == ASSUME IndInv, NEW s \in Sends, Serve(s) PROVE IndInv'
<1>1. PICK next \in Reply(s)!Moves(stream[s], known) :
            Len(next.sent) <= MaxEvents /\ stream' = [stream EXCEPT ![s] = next]
    BY DEF Serve
<1>2. /\ UNCHANGED <<known, convVars, messages, flags, sendVars, history>>
      /\ at' = at /\ taken' = taken
    BY DEF Serve, sendVars
<1>3. /\ stream \in [Sends -> Streams] /\ known \in BOOLEAN /\ taken[s] \in Nat
      /\ \A r \in Sends : StreamOK(r)
    BY StoreAssumption DEF IndInv, StreamsOK, SendsOK
<1>4. PICK st : st = stream[s]
    OBVIOUS
<1>5. /\ st \in Streams /\ st.sent \in Seq(Events) /\ st.line \in Lines
      /\ st.line = "none" => st.sent = << >>
      /\ st.line = "open" => st.sent # << >>
      /\ \A e \in 1 .. Len(st.sent) : st.sent[e] = "headers" <=> e = 1
      /\ taken[s] <= Len(st.sent)
    BY <1>3, <1>4 DEF StreamOK, Streams
<1>6. /\ next \in Streams /\ next.line \in {"open", "over"} /\ next.sent # << >>
      /\ Len(st.sent) <= Len(next.sent)
      /\ \A e \in 1 .. Len(st.sent) : next.sent[e] = st.sent[e]
      /\ \A e \in 1 .. Len(next.sent) : next.sent[e] = "headers" <=> e = 1
    <2>0. /\ next \in Reply(s)!Moves(st, known)
          /\ \A e \in Events : /\ Append(st.sent, e) \in Seq(Events)
                               /\ Len(Append(st.sent, e)) = Len(st.sent) + 1
                               /\ Append(st.sent, e)[Len(st.sent) + 1] = e
                               /\ \A i \in 1 .. Len(st.sent) : Append(st.sent, e)[i] = st.sent[i]
          /\ Len(st.sent) \in Nat
          /\ st.sent # << >> => Len(st.sent) >= 1
        BY <1>1, <1>4, <1>5
    <2>1. CASE st.line = "none" /\ next = [sent |-> Append(st.sent, "headers"), line |-> "open"]
        <3>1. Len(st.sent) = 0
            BY <1>5, <2>1
        <3>2. next.sent \in Seq(Events) /\ next.line = "open" /\ Len(next.sent) = 1 /\ next.sent[1] = "headers"
            BY <2>0, <2>1, <3>1 DEF Events
        <3>3. next \in Streams
            BY <2>1, <3>2 DEF Streams, Lines
        <3>4. \A e \in 1 .. 1 : e = 1
            OBVIOUS
        <3> QED BY <3>1, <3>2, <3>3, <3>4
    <2>2. ASSUME st.line = "open", NEW kind \in {"data", "done", "error"}, NEW l \in {"open", "over"},
                 next = [sent |-> Append(st.sent, kind), line |-> l]
          PROVE  /\ next \in Streams /\ next.line \in {"open", "over"} /\ next.sent # << >>
                 /\ Len(st.sent) <= Len(next.sent)
                 /\ \A e \in 1 .. Len(st.sent) : next.sent[e] = st.sent[e]
                 /\ \A e \in 1 .. Len(next.sent) : next.sent[e] = "headers" <=> e = 1
        <3>1. kind \in Events /\ kind # "headers" /\ l \in Lines
            BY DEF Events, Lines
        <3>2. next \in Streams /\ next.line = l /\ next.sent = Append(st.sent, kind)
            BY <2>0, <2>2, <3>1 DEF Streams
        <3>3. /\ Len(next.sent) = Len(st.sent) + 1 /\ next.sent[Len(st.sent) + 1] = kind
              /\ \A i \in 1 .. Len(st.sent) : next.sent[i] = st.sent[i]
            BY <2>0, <3>1, <3>2
        <3> QED BY <1>5, <2>0, <2>2, <3>1, <3>2, <3>3
    <2>3. CASE st.line = "open" /\ next = [sent |-> st.sent, line |-> "over"]
        BY <1>5, <2>0, <2>3 DEF Streams, Lines
    <2> QED BY <1>3, <1>5, <2>0, <2>1, <2>2, <2>3, MovesAre
<1>7. stream' \in [Sends -> Streams] /\ \A r \in Sends : stream'[r] = IF r = s THEN next ELSE stream[r]
    BY <1>1, <1>3, <1>6
<1>8. ASSUME NEW r \in Sends PROVE StreamOK(r)'
    <2>1. StreamOK(r)
        BY <1>3
    <2>2. CASE r # s
        BY <1>2, <1>7, <2>1, <2>2 DEF StreamOK
    <2>3. CASE r = s
        <3>1. stream'[s] = next /\ taken[s] <= Len(next.sent)
            BY <1>3, <1>5, <1>6, <1>7
        <3> QED BY <1>1, <1>2, <1>6, <2>1, <2>3, <3>1 DEF StreamOK
    <2> QED BY <2>2, <2>3
<1>9. ASSUME NEW r \in Sends, NEW e \in 1 .. taken[r] PROVE stream'[r].sent[e] = stream[r].sent[e]
    <2>1. CASE r # s
        BY <1>7, <2>1
    <2>2. CASE r = s
        <3>1. e \in 1 .. Len(st.sent)
            BY <1>3, <1>5, <1>9, <2>2
        <3> QED BY <1>4, <1>6, <1>7, <2>2, <3>1
    <2> QED BY <2>1, <2>2
<1> QED BY <1>2, <1>7, <1>8, <1>9, StreamsChangeInv

\* Some connections are closed.
LEMMA ClosedInv ==
    ASSUME IndInv, UNCHANGED <<known, convVars, messages, flags, sendVars, history>>, NEW dead,
           stream' = [r \in Sends |-> IF r \in dead THEN Reply(r)!Closed(stream[r]) ELSE stream[r]]
    PROVE  IndInv'
<1>1. stream \in [Sends -> Streams] /\ \A r \in Sends : StreamOK(r)
    BY DEF IndInv, StreamsOK
<1>2. ASSUME NEW r \in Sends
      PROVE  /\ stream'[r] \in Streams /\ stream'[r].sent = stream[r].sent
             /\ stream'[r].line \in {stream[r].line, "closed"}
    <2>1. CASE r \notin dead
        BY <1>1, <2>1
    <2>2. CASE r \in dead
        <3>1. stream'[r] = [sent |-> stream[r].sent, line |-> "closed"]
            BY <1>1, <2>2, ClosedIs
        <3> QED BY <1>1, <3>1 DEF Streams, Lines
    <2> QED BY <2>1, <2>2
<1>3. stream' \in [Sends -> Streams]
    <2>1. stream' = [r \in Sends |-> stream'[r]]
        OBVIOUS
    <2> QED BY <1>2, <2>1
<1>4. \A r \in Sends : StreamOK(r)'
    BY <1>1, <1>2 DEF StreamOK, sendVars
<1> QED BY <1>2, <1>3, <1>4, StreamsChangeInv

LEMMA RefuseInv == ASSUME IndInv, NEW s \in Sends, Refuse(s) PROVE IndInv'
<1>1. stream \in [Sends -> Streams]
    BY DEF IndInv, StreamsOK
<1>2. /\ stream' = [stream EXCEPT ![s] = Reply(s)!Closed(stream[s])]
      /\ UNCHANGED <<known, convVars, messages, flags, sendVars, history>>
    BY DEF Refuse
<1>3. stream' = [r \in Sends |-> IF r \in {s} THEN Reply(r)!Closed(stream[r]) ELSE stream[r]]
    BY <1>1, <1>2
<1> QED BY <1>2, <1>3, ClosedInv

LEMMA DieInv == ASSUME IndInv, Die PROVE IndInv'
<1>1. /\ stream' = [r \in Sends |-> IF r \in InFlight THEN Reply(r)!Closed(stream[r]) ELSE stream[r]]
      /\ UNCHANGED <<known, convVars, messages, flags, sendVars, history>>
    BY DEF Die
<1> QED BY <1>1, ClosedInv

-----------------------------------------------------------------------------
(* The theorems.                                                           *)

LEMMA NextInv == IndInv /\ [Next]_vars => IndInv'
<1> SUFFICES ASSUME IndInv, [Next]_vars PROVE IndInv'
    OBVIOUS
<1>1. CASE User
    BY <1>1, SendInv, StopInv, CreateInv, SwitchInv, DeleteInv DEF User
<1>2. CASE Die
    BY <1>2, DieInv
<1>3. ASSUME NEW s \in Sends, Continue(s) \/ Serve(s) \/ Refuse(s) PROVE IndInv'
    <2>1. CASE Continue(s)
        BY <2>1, FetchReturnsInv, FetchFailsInv, ReadDoneInv, ReadDataInv, ReadPartInv, ReadEndsInv
        DEF Continue
    <2> QED BY <1>3, <2>1, ServeInv, RefuseInv
<1>4. CASE UNCHANGED vars
    <2>1. UNCHANGED <<known, convVars, messages, flags, sendVars, history>> /\ stream' = stream
        BY <1>4 DEF vars, server
    <2>2. stream \in [Sends -> Streams] /\ \A r \in Sends : StreamOK(r)
        BY DEF IndInv, StreamsOK
    <2>3. \A r \in Sends : StreamOK(r)'
        BY <2>1, <2>2 DEF StreamOK, sendVars
    <2> QED BY <2>1, <2>2, <2>3, StreamsChangeInv
<1> QED BY <1>1, <1>2, <1>3, <1>4 DEF Next

\* The store, the sends, the streams, the flags and the texts are always as
\* IndInv says, whatever the user and the server do.
THEOREM Invariance == Spec => []IndInv
<1> QED BY InitInv, NextInv, PTL DEF Spec

\* The store of the page keeps its types: among them that there always is a
\* current conversation and that no two conversations have one id, also after
\* the last one was deleted, so that sendMessage() never returns early.
THEOREM TypeCorrect == Spec => []TypeOK
<1>1. IndInv => TypeOK
    <2> SUFFICES ASSUME IndInv PROVE TypeOK
        OBVIOUS
    <2>1. /\ conversations \in Seq(Convs) /\ IsInjective(conversations)
          /\ current \in ToSet(conversations)
          /\ isLoading \in BOOLEAN /\ isGenerating \in BOOLEAN
          /\ controller \in Sends \cup {None}
          /\ at \in [Sends -> {"new", "fetch", "read", "ended"}]
        BY DEF IndInv, StoreOK, SendsOK
    <2>2. count \in ToSet(<<1>>) \cup Convs
        BY DEF IndInv, StoreOK, Convs
    <2>3. ASSUME NEW c \in Convs, NEW i \in 1 .. Len(messages[c])
          PROVE  messages[c][i].content \in Seq(Piece)
        <3>1. messages[c] \in Seq(Text)
            BY DEF IndInv, StoreOK
        <3>2. messages[c][i] \in Text
            BY <3>1
        <3> QED BY <3>2 DEF Text
    <2>4. ASSUME NEW s \in Sends
          PROVE  /\ stream[s].sent \in Seq({"headers", "data"} \cup Reply(s)!Last)
                 /\ stream[s].line \in Reply(s)!Lines
        <3>1. stream[s].sent \in Seq(Events) /\ stream[s].line \in Lines
            BY DEF IndInv, StreamsOK, Streams
        <3>2. {"headers", "data"} \cup Reply(s)!Last = Events
            BY NamesAre DEF Events
        <3> QED BY <3>1, <3>2, NamesAre
    <2> QED BY <2>1, <2>2, <2>3, <2>4 DEF TypeOK
<1> QED BY <1>1, Invariance, PTL

\* When no send is in flight the page is at rest, in whatever order the
\* overlapping sends ran their finally blocks; and a send that no other one
\* overlapped owns the controller until the user stops it.
THEOREM FlagsAreRight == Spec => []FlagsMatchSends
<1>1. IndInv => FlagsMatchSends
    BY DEF IndInv, FlagsOK
<1> QED BY <1>1, Invariance, PTL

\* The text of an answer is what the page has read of its stream: every line
\* that came as a whole, each once, in order, and in no other message; a line
\* that came in parts leaves at most a piece in its place.  For every number
\* of such lines, and every interleaving of overlapping sends, stops, switches,
\* creations and deletions.
THEOREM AnswersAreWhole == Spec => []AnswersArrive
<1>1. IndInv => AnswersArrive
    <2> SUFFICES ASSUME IndInv, NEW s \in Sends, ~ strayed[s],
                        NEW c \in ToSet(conversations), NEW i \in 1 .. Len(messages[c])
                 PROVE  IF c = home[s] /\ i = aiMessageIndex[s]
                        THEN Arrived(s, messages[c][i].content)
                        ELSE Places(s, messages[c][i].content) = {}
        BY DEF AnswersArrive
    <2>1. c \in Convs
        BY DEF IndInv, StoreOK, ToSet
    <2> QED BY <2>1 DEF IndInv, AnswersOK, Kept
<1> QED BY <1>1, Invariance, PTL
=============================================================================
