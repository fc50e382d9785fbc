------------------------- MODULE ChatServer_proofs --------------------------
(***************************************************************************)
(* Proofs about ChatServer, for any number of connections, any requests    *)
(* and contexts of any size.                                               *)
(***************************************************************************)
EXTENDS ChatServer, SequenceTheorems, TLAPS

Said == [of : Conns, part : {"user", "reply", "token", "error", "end"}, k : Nat]
Token == [of : Conns, part : {"user", "reply", "token"}, k : Nat] \cup {Bos, Pad}
EventKinds == {"metrics", "options", "invalid", "headers", "data", "error", "done", "response"}
Events == [kind : EventKinds, text : Seq(Said)]

Types ==
    /\ conn \in [Conns -> {"new", "waiting", "open", "closed"}]
    /\ peer \in [Conns -> {"here", "left", "reset", "gone"}]
    /\ req \in [Conns -> Requests \cup {Empty}]
    /\ out \in [Conns -> Seq(Events)]
    /\ backlog \in Seq(Conns)
    /\ model \in [template : BOOLEAN, bos : BOOLEAN]
    /\ transcript \in Seq(Said) /\ prevLen \in 0 .. Len(transcript)
    /\ kv \in Seq(Token) /\ Len(kv) <= NCtx
    /\ slot \in {"idle", "processing", "error"}
    /\ buffer \in Requests \cup {Empty}
    /\ batch \in Seq(Token) /\ response \in Seq(Said)
    /\ failures \in Nat

\* Where the thread is, whom it serves and what with.
Answering == pc \in {"prompt", "generate", "finish", "reply"}
ControlOK ==
    /\ pc \in {"accept", "recv", "handle", "prompt", "generate", "finish", "reply", "close", "dead"}
    /\ IF pc = "accept" THEN cur = None ELSE cur \in Conns /\ conn[cur] = "open"
    /\ IF pc = "dead" THEN sock \in {None, cur}
       ELSE sock = IF Answering /\ buffer.kind = "stream" THEN cur ELSE None
    /\ Answering => buffer.kind \in {"plain", "stream"}
    /\ pc \in {"handle", "close"} \/ Answering => buffer \in {Empty, req[cur]}
    /\ pc \in {"generate", "finish"} => model.template

\* Who has not been turned to, or has asked for nothing, was told nothing.
ConnsOK ==
    /\ IsInjective(backlog) /\ \A c \in ToSet(backlog) : conn[c] = "waiting"
    /\ \A c \in Conns : conn[c] \in {"new", "waiting"} \/ req[c] = Empty => out[c] = << >>
    /\ pc \in {"recv", "handle"} => out[cur] = << >>

\* A reply to client c: tokens, and perhaps an error as its end.
ReplyOf(c, r) ==
    \A i \in DOMAIN r : r[i] = Piece(c, "token", i) \/ (i = Len(r) /\ r[i] = Piece(c, "error", 0))
Tokenless(r) == r # << >> /\ Last(r).part = "error"
TokensOf(r) == IF Tokenless(r) THEN Len(r) - 1 ELSE Len(r)

\* The conversation: who has a part in it, and that no piece is in it twice.
TranscriptOK ==
    /\ IsInjective(transcript)
    /\ \A k \in DOMAIN transcript :
          /\ conn[transcript[k].of] \in {"open", "closed"}
          /\ pc \in {"recv", "handle", "prompt"} => transcript[k].of # cur
          /\ Replying => IF k = Len(transcript) THEN transcript[k] = Piece(cur, "user", 0)
                                                ELSE transcript[k].of # cur
    /\ Replying => transcript # << >>
    /\ model.template => prevLen = Len(transcript) - (IF Replying THEN 1 ELSE 0)
    /\ ~ model.template => kv = << >>
ResponseOK ==
    /\ pc \in {"generate", "finish", "reply"} \/ (pc = "close" /\ buffer.kind \in {"plain", "stream"})
          => ReplyOf(cur, response)
    /\ pc = "generate" => ~ Tokenless(response)

\* What is spoken in a cache is in a text, not behind b, and in its order; and
\* of the text up to b, all is in it but the ends of turns.
Follows(q, text, b) ==
    /\ \A i \in SaidIn(q) : \E k \in 1 .. b : text[k] = q[i]
    /\ \A i, j \in SaidIn(q) : j < i =>
          \A k, l \in DOMAIN text : text[k] = q[i] /\ text[l] = q[j] => l < k
Complete(q, text, b) ==
    \A k \in 1 .. b : text[k].part # "end" => \E i \in SaidIn(q) : q[i] = text[k]

\* How much of the text the model has seen, and what it sees next.
SeenLen == Len(Text) - (IF pc # "generate" THEN 0 ELSE IF response = << >> THEN 2 ELSE 1)
CacheOK ==
    /\ Follows(kv, Text, SeenLen)
    /\ failures = 0 => Complete(kv, Text, SeenLen)
BatchOK ==
    LET u == Piece(cur, "user", 0)
        r == Piece(cur, "reply", 0)
    IN  pc = "generate" =>
            IF response = << >> THEN batch \in {<<u, r>>, <<Bos, u, r>>, <<u, r, Pad>>}
                                ELSE batch = <<response[Len(response)]>>

TalkOK == pc # "dead" => TranscriptOK /\ ResponseOK /\ CacheOK /\ BatchOK

\* What the client was told of the reply, n tokens of it.
Told(c, n) ==
    /\ n + 1 <= Len(out[c])
    /\ out[c][1] = Event("headers", << >>)
    /\ \A i \in 1 .. n : out[c][i + 1] = Event("data", <<Piece(c, "token", i)>>)
StreamToldOK ==
    /\ pc = "prompt" => out[cur] = <<Event("headers", << >>)>>
    /\ pc = "generate" => Told(cur, Len(response)) /\ Len(out[cur]) = Len(response) + 1
    /\ pc = "finish" => /\ Told(cur, TokensOf(response)) /\ Len(out[cur]) = TokensOf(response) + 2
                        /\ Last(out[cur]) \in {Event("done", << >>), Event("error", << >>)}
    /\ pc \in {"reply", "close"} =>
          /\ Told(cur, TokensOf(response))
          /\ \A i \in TokensOf(response) + 2 .. Len(out[cur]) : out[cur][i].text = << >>
PlainToldOK ==
    /\ Answering => out[cur] = << >>
    /\ pc = "close" => out[cur] = <<Event("response", Fitting)>>
ToldOK ==
    /\ pc # "dead" /\ (Answering \/ pc = "close") =>
          /\ buffer.kind = "stream" => StreamToldOK
          /\ buffer.kind = "plain" => PlainToldOK
    /\ pc \in {"reply", "close"} /\ buffer.kind \in {"plain", "stream"} =>
          FirstTokens(cur, transcript, TokensOf(response))

IndInv == Types /\ ControlOK /\ ConnsOK /\ TalkOK /\ ToldOK

-----------------------------------------------------------------------------
(* What is in a cache, and in a text.                                      *)

LEMMA SaidIsSpoken == Bos \notin Said /\ Pad \notin Said
BY ServerAssumption DEF Bos, Pad, Piece, Said

\* One more token in the cache.
LEMMA SaidMore ==
    ASSUME NEW q \in Seq(Token), NEW p \in Token
    PROVE  /\ Append(q, p) \in Seq(Token)
           /\ \A i \in SaidIn(q) : i \in 1 .. Len(q) /\ Append(q, p)[i] = q[i]
           /\ Append(q, p)[Len(q) + 1] = p
           /\ SaidIn(Append(q, p)) = SaidIn(q) \cup (IF p \in {Bos, Pad} THEN {} ELSE {Len(q) + 1})
<1> DEFINE t == Append(q, p)
<1>1. /\ t \in Seq(Token) /\ Len(t) = Len(q) + 1 /\ t[Len(q) + 1] = p
      /\ \A k \in 1 .. Len(q) : t[k] = q[k]
      /\ DOMAIN t = 1 .. Len(q) + 1 /\ DOMAIN q = 1 .. Len(q) /\ Len(q) \in Nat
    OBVIOUS
<1> HIDE DEF t
<1>2. \A k \in 1 .. Len(q) + 1 : k \in 1 .. Len(q) \/ k = Len(q) + 1
    BY <1>1
<1>3. ASSUME NEW k PROVE k \in SaidIn(t) <=> k \in SaidIn(q) \/ (k = Len(q) + 1 /\ p \notin {Bos, Pad})
    <2>1. CASE k \in 1 .. Len(q)
        BY <1>1, <2>1 DEF SaidIn
    <2>2. CASE k = Len(q) + 1
        BY <1>1, <2>2 DEF SaidIn
    <2>3. CASE k \notin 1 .. Len(q) + 1
        BY <1>1, <2>3 DEF SaidIn
    <2> QED BY <1>2, <2>1, <2>2, <2>3
<1>4. SaidIn(t) = SaidIn(q) \cup (IF p \in {Bos, Pad} THEN {} ELSE {Len(q) + 1})
    BY <1>3
<1> QED BY <1>1, <1>4 DEF t, SaidIn

\* A token that stands for no text is decoded.
LEMMA FollowsNothing ==
    ASSUME NEW q \in Seq(Token), NEW text \in Seq(Said), NEW b \in 0 .. Len(text), NEW p \in {Bos, Pad},
           Follows(q, text, b)
    PROVE  /\ Follows(Append(q, p), text, b)
           /\ Complete(q, text, b) => Complete(Append(q, p), text, b)
<1>1. PICK t : t = Append(q, p)
    OBVIOUS
<1>2. SaidIn(t) = SaidIn(q) /\ \A i \in SaidIn(q) : t[i] = q[i]
    <2>1. p \in Token
        BY DEF Token
    <2>2. /\ SaidIn(t) = SaidIn(q) \cup (IF p \in {Bos, Pad} THEN {} ELSE {Len(q) + 1})
          /\ \A i \in SaidIn(q) : t[i] = q[i]
        BY <1>1, <2>1, SaidMore
    <2> QED BY <2>2
<1>3. Follows(t, text, b)
    BY <1>2 DEF Follows
<1>4. Complete(q, text, b) => Complete(t, text, b)
    BY <1>2 DEF Complete
<1> QED BY <1>1, <1>3, <1>4

\* The next piece of the text is decoded.
LEMMA FollowsOne ==
    ASSUME NEW q \in Seq(Token), NEW text \in Seq(Said), IsInjective(text),
           NEW b \in 0 .. Len(text) - 1, text[b + 1] \in Token, Follows(q, text, b)
    PROVE  /\ Follows(Append(q, text[b + 1]), text, b + 1)
           /\ Complete(q, text, b) => Complete(Append(q, text[b + 1]), text, b + 1)
<1>1. PICK p : p = text[b + 1]
    OBVIOUS
<1>2. PICK t : t = Append(q, p)
    OBVIOUS
<1>3. b + 1 \in 1 .. Len(text) /\ b \in Nat
    OBVIOUS
<1>4. p \in Said /\ p \in Token /\ p \notin {Bos, Pad}
    BY <1>1, <1>3, SaidIsSpoken
<1>5. /\ SaidIn(t) = SaidIn(q) \cup {Len(q) + 1} /\ t[Len(q) + 1] = p
      /\ \A i \in SaidIn(q) : i \in 1 .. Len(q) /\ t[i] = q[i]
      /\ Len(q) \in Nat
    BY <1>2, <1>4, SaidMore
<1>6. ASSUME NEW i \in SaidIn(t) PROVE \E k \in 1 .. b + 1 : text[k] = t[i]
    <2>1. CASE i \in SaidIn(q)
        <3>1. PICK k \in 1 .. b : text[k] = q[i]
            BY <2>1 DEF Follows
        <3> QED BY <1>3, <1>5, <2>1, <3>1
    <2>2. CASE i = Len(q) + 1
        BY <1>1, <1>3, <1>5, <2>2
    <2> QED BY <1>5, <2>1, <2>2
<1>7. ASSUME NEW i \in SaidIn(t), NEW j \in SaidIn(t), j < i,
             NEW k \in DOMAIN text, NEW l \in DOMAIN text, text[k] = t[i], text[l] = t[j]
      PROVE  l < k
    <2>1. j \in SaidIn(q)
        BY <1>5, <1>7
    <2>2. CASE i \in SaidIn(q)
        BY <1>5, <1>7, <2>1, <2>2 DEF Follows
    <2>3. CASE i = Len(q) + 1
        <3>1. k = b + 1
            BY <1>1, <1>3, <1>5, <1>7, <2>3 DEF IsInjective
        <3>2. PICK m \in 1 .. b : text[m] = q[j]
            BY <2>1 DEF Follows
        <3>3. l = m
            BY <1>3, <1>5, <1>7, <2>1, <3>2 DEF IsInjective
        <3> QED BY <1>3, <3>1, <3>3
    <2> QED BY <1>5, <2>2, <2>3
<1>8. Follows(t, text, b + 1)
    BY <1>6, <1>7 DEF Follows
<1>9. ASSUME Complete(q, text, b), NEW k \in 1 .. b + 1, text[k].part # "end"
      PROVE  \E i \in SaidIn(t) : t[i] = text[k]
    <2>1. CASE k \in 1 .. b
        <3>1. PICK i \in SaidIn(q) : q[i] = text[k]
            BY <1>9, <2>1 DEF Complete
        <3> QED BY <1>5, <3>1
    <2>2. CASE k = b + 1
        BY <1>1, <1>5, <2>2
    <2> QED BY <1>3, <2>1, <2>2
<1>10. Complete(q, text, b) => Complete(t, text, b + 1)
    BY <1>9 DEF Complete
<1> QED BY <1>1, <1>2, <1>8, <1>10

\* The text gets longer.
LEMMA FollowsLonger ==
    ASSUME NEW q \in Seq(Token), NEW text \in Seq(Said), NEW longer \in Seq(Said), IsInjective(longer),
           Len(text) <= Len(longer), \A k \in 1 .. Len(text) : longer[k] = text[k],
           NEW b \in 0 .. Len(text), Follows(q, text, b)
    PROVE  /\ Follows(q, longer, b)
           /\ Complete(q, text, b) => Complete(q, longer, b)
<1>1. /\ \A k \in 1 .. Len(text) : k \in DOMAIN longer /\ longer[k] = text[k]
      /\ Len(text) \in Nat /\ DOMAIN text = 1 .. Len(text)
    OBVIOUS
<1>2. \A k \in 1 .. b : k \in 1 .. Len(text) /\ longer[k] = text[k]
    BY <1>1
<1>3. ASSUME NEW i \in SaidIn(q), NEW k \in DOMAIN longer, longer[k] = q[i]
      PROVE  k \in 1 .. Len(text) /\ text[k] = q[i]
    <2>1. PICK m \in 1 .. b : text[m] = q[i]
        BY DEF Follows
    <2>2. m = k
        BY <1>1, <1>2, <1>3, <2>1 DEF IsInjective
    <2> QED BY <1>2, <2>1, <2>2
<1>4. Follows(q, longer, b)
    BY <1>1, <1>2, <1>3 DEF Follows
<1>5. Complete(q, text, b) => Complete(q, longer, b)
    BY <1>2 DEF Complete
<1> QED BY <1>4, <1>5

\* Less is claimed.
LEMMA FollowsWithin ==
    ASSUME NEW q, NEW text, NEW b \in Nat, NEW c \in Nat, b <= c, Follows(q, text, b)
    PROVE  Follows(q, text, c)
BY DEF Follows

LEMMA PieceIs ==
    /\ \A c \in Conns, k \in Nat : \A part \in {"user", "reply", "token", "error", "end"} :
          /\ Piece(c, part, k) \in Said
          /\ Piece(c, part, k).of = c /\ Piece(c, part, k).part = part /\ Piece(c, part, k).k = k
          /\ part \in {"user", "reply", "token"} => Piece(c, part, k) \in Token
BY DEF Piece, Said, Token

\* Two texts without a common piece.
LEMMA JoinInjective ==
    ASSUME NEW S, NEW a \in Seq(S), NEW b \in Seq(S), IsInjective(a), IsInjective(b),
           \A i \in DOMAIN a, j \in DOMAIN b : a[i] # b[j]
    PROVE  IsInjective(a \o b)
<1>0. a \in Seq(S) /\ b \in Seq(S)
    OBVIOUS
<1>1. PICK t : t = a \o b
    OBVIOUS
<1>2. /\ Len(t) = Len(a) + Len(b) /\ Len(a) \in Nat /\ Len(b) \in Nat
      /\ \A i \in 1 .. Len(a) : t[i] = a[i]
      /\ \A i \in Len(a) + 1 .. Len(a) + Len(b) : t[i] = b[i - Len(a)]
    BY ONLY <1>0, <1>1
<1>3. /\ DOMAIN a = 1 .. Len(a) /\ DOMAIN b = 1 .. Len(b) /\ DOMAIN t = 1 .. Len(a) + Len(b)
    BY ONLY <1>0, <1>1
<1>4. ASSUME NEW i \in DOMAIN t, NEW j \in DOMAIN t, i # j PROVE t[i] # t[j]
    <2>1. CASE i <= Len(a) /\ j <= Len(a)
        BY <1>2, <1>3, <1>4, <2>1 DEF IsInjective
    <2>2. CASE i > Len(a) /\ j > Len(a)
        <3>1. i - Len(a) \in DOMAIN b /\ j - Len(a) \in DOMAIN b /\ i - Len(a) # j - Len(a)
            BY ONLY <1>2, <1>3, <1>4, <2>2
        <3>2. t[i] = b[i - Len(a)] /\ t[j] = b[j - Len(a)]
            BY ONLY <1>2, <1>3, <1>4, <2>2
        <3> QED BY <3>1, <3>2 DEF IsInjective
    <2>3. CASE i <= Len(a) /\ j > Len(a)
        <3>1. j - Len(a) \in DOMAIN b /\ i \in DOMAIN a
            BY ONLY <1>2, <1>3, <1>4, <2>3
        <3>2. t[i] = a[i] /\ t[j] = b[j - Len(a)]
            BY ONLY <1>2, <1>3, <1>4, <2>3
        <3> QED BY <3>1, <3>2
    <2>4. CASE i > Len(a) /\ j <= Len(a)
        <3>1. i - Len(a) \in DOMAIN b /\ j \in DOMAIN a
            BY ONLY <1>2, <1>3, <1>4, <2>4
        <3>2. t[j] = a[j] /\ t[i] = b[i - Len(a)]
            BY ONLY <1>2, <1>3, <1>4, <2>4
        <3> QED BY <3>1, <3>2
    <2> QED BY <1>2, <1>3, <2>1, <2>2, <2>3, <2>4
<1> QED BY <1>1, <1>4 DEF IsInjective

LEMMA ReplyIs ==
    ASSUME NEW c \in Conns, NEW r \in Seq(Said), ReplyOf(c, r)
    PROVE  /\ \A i \in DOMAIN r : r[i].of = c /\ r[i].part \in {"token", "error"}
           /\ IsInjective(r)
<1>1. ASSUME NEW i \in DOMAIN r
      PROVE  r[i].of = c /\ ((r[i].part = "token" /\ r[i].k = i) \/ (r[i].part = "error" /\ i = Len(r)))
    <2>1. i \in Nat
        OBVIOUS
    <2> QED BY <2>1, PieceIs DEF ReplyOf
<1> QED BY <1>1 DEF IsInjective

\* A text to which client c adds its turn, but not yet its end.
LEMMA TurnIs ==
    ASSUME NEW c \in Conns, NEW t \in Seq(Said), IsInjective(t),
           \A k \in DOMAIN t : t[k].of # c \/ t[k] = Piece(c, "user", 0),
           NEW r \in Seq(Said), ReplyOf(c, r)
    PROVE  /\ Append(t, Piece(c, "reply", 0)) \o r \in Seq(Said)
           /\ IsInjective(Append(t, Piece(c, "reply", 0)) \o r)
           /\ Len(Append(t, Piece(c, "reply", 0)) \o r) = Len(t) + 1 + Len(r)
           /\ \A k \in 1 .. Len(t) : (Append(t, Piece(c, "reply", 0)) \o r)[k] = t[k]
           /\ (Append(t, Piece(c, "reply", 0)) \o r)[Len(t) + 1] = Piece(c, "reply", 0)
           /\ \A i \in 1 .. Len(r) : (Append(t, Piece(c, "reply", 0)) \o r)[Len(t) + 1 + i] = r[i]
<1>1. PICK x \in Said : x = Piece(c, "reply", 0)
    BY PieceIs
<1>2. PICK a : a = Append(t, x)
    OBVIOUS
<1>3. /\ a \in Seq(Said) /\ Len(a) = Len(t) + 1 /\ a[Len(t) + 1] = x /\ \A k \in 1 .. Len(t) : a[k] = t[k]
      /\ Len(t) \in Nat /\ DOMAIN t = 1 .. Len(t) /\ DOMAIN a = 1 .. Len(t) + 1
    <2>1. t \in Seq(Said) /\ x \in Said
        OBVIOUS
    <2> QED BY ONLY <1>2, <2>1
<1>4. \A k \in DOMAIN t : t[k] # x
    BY <1>1, PieceIs
<1>5. IsInjective(a)
    <2>1. ASSUME NEW i \in DOMAIN a, NEW j \in DOMAIN a, i # j PROVE a[i] # a[j]
        <3>1. (i \in DOMAIN t \/ i = Len(t) + 1) /\ (j \in DOMAIN t \/ j = Len(t) + 1)
            BY <1>3
        <3> QED BY <1>3, <1>4, <2>1, <3>1 DEF IsInjective
    <2> QED BY <2>1 DEF IsInjective
<1>6. \A i \in DOMAIN a, j \in DOMAIN r : a[i] # r[j]
    <2>1. ASSUME NEW i \in DOMAIN a, NEW j \in DOMAIN r PROVE a[i] # r[j]
        <3>1. r[j].of = c /\ r[j].part \in {"token", "error"}
            BY ReplyIs
        <3>2. a[i].of # c \/ a[i].part \in {"user", "reply"}
            <4>1. i \in DOMAIN t \/ i = Len(t) + 1
                BY <1>3
            <4>2. x.part = "reply" /\ Piece(c, "user", 0).part = "user"
                BY <1>1, PieceIs
            <4> QED BY <1>3, <4>1, <4>2
        <3> QED BY <3>1, <3>2
    <2> QED BY <2>1
<1>7. IsInjective(a \o r)
    <2>1. IsInjective(r) /\ a \in Seq(Said) /\ r \in Seq(Said)
        BY <1>3, ReplyIs
    <2> QED BY ONLY <1>5, <1>6, <2>1, JoinInjective
<1>8. /\ a \o r \in Seq(Said) /\ Len(a \o r) = Len(t) + 1 + Len(r)
      /\ \A k \in 1 .. Len(t) + 1 : (a \o r)[k] = a[k]
      /\ \A i \in 1 .. Len(r) : (a \o r)[Len(t) + 1 + i] = r[i]
    BY <1>3
<1> QED BY <1>1, <1>2, <1>3, <1>7, <1>8

\* The conversation as it stands.
LEMMA TextIs ==
    ASSUME Types, ControlOK, TalkOK, pc # "dead"
    PROVE  /\ Text \in Seq(Said) /\ IsInjective(Text) /\ SeenLen \in 0 .. Len(Text)
           /\ Replying => /\ cur \in Conns /\ Text = Append(transcript, Piece(cur, "reply", 0)) \o response
                          /\ transcript # << >> /\ transcript[Len(transcript)] = Piece(cur, "user", 0)
                          /\ Len(Text) = Len(transcript) + 1 + Len(response)
                          /\ \A k \in 1 .. Len(transcript) : Text[k] = transcript[k]
                          /\ Text[Len(transcript) + 1] = Piece(cur, "reply", 0)
                          /\ \A i \in 1 .. Len(response) : Text[Len(transcript) + 1 + i] = response[i]
           /\ ~ Replying => Text = transcript /\ SeenLen = Len(transcript)
<1>1. /\ transcript \in Seq(Said) /\ IsInjective(transcript) /\ response \in Seq(Said)
    BY DEF Types, TalkOK, TranscriptOK
<1>2. CASE ~ Replying
    <2>1. Text = transcript /\ SeenLen = Len(Text)
        BY <1>2 DEF Text, SeenLen, Replying
    <2> QED BY <1>1, <1>2, <2>1
<1>3. CASE Replying
    <2>1. cur \in Conns /\ ReplyOf(cur, response) /\ transcript # << >>
        BY <1>3 DEF Replying, ControlOK, TalkOK, ResponseOK, TranscriptOK
    <2>2. \A k \in DOMAIN transcript : transcript[k].of # cur \/ transcript[k] = Piece(cur, "user", 0)
        BY <1>3 DEF TalkOK, TranscriptOK
    <2>3. Text = Append(transcript, Piece(cur, "reply", 0)) \o response
        BY <1>3 DEF Text
    <2>4. /\ Text \in Seq(Said) /\ IsInjective(Text) /\ Len(Text) = Len(transcript) + 1 + Len(response)
          /\ \A k \in 1 .. Len(transcript) : Text[k] = transcript[k]
          /\ Text[Len(transcript) + 1] = Piece(cur, "reply", 0)
          /\ \A i \in 1 .. Len(response) : Text[Len(transcript) + 1 + i] = response[i]
        BY <1>1, <2>1, <2>2, <2>3, TurnIs
    <2>5. Len(transcript) \in Nat /\ Len(transcript) >= 1 /\ Len(response) \in Nat
          /\ (response # << >> => Len(response) >= 1)
        BY <1>1, <2>1
    <2>6. transcript[Len(transcript)] = Piece(cur, "user", 0)
        BY <1>1, <1>3, <2>5 DEF TalkOK, TranscriptOK
    <2>7. SeenLen \in 0 .. Len(Text)
        BY <2>4, <2>5 DEF SeenLen
    <2> QED BY <1>3, <2>1, <2>3, <2>4, <2>6, <2>7
<1> QED BY <1>2, <1>3

-----------------------------------------------------------------------------
(* What steps have in common.                                              *)

talkVars == <<model, transcript, prevLen, kv, batch, response, failures>>
Peers == {"here", "left", "reset", "gone"}

LEMMA RequestIs ==
    /\ Empty \notin Requests /\ Empty.kind = "none" /\ ~ Empty.marked
    /\ \A r \in Requests : r.kind \in Kinds /\ r.kind # "none"
BY ServerAssumption DEF Request, Empty, Kinds

LEMMA SendIs ==
    ASSUME Types, NEW c \in Conns, NEW kind \in EventKinds, NEW text \in Seq(Said), NEW next,
           Send(c, kind, text, next)
    PROVE  /\ peer' \in [Conns -> Peers] /\ out' \in [Conns -> Seq(Events)]
           /\ \/ pc' = "dead" /\ out' = out
              \/ /\ pc' = next /\ out'[c] = Append(out[c], Event(kind, text))
                 /\ \A d \in Conns \ {c} : out'[d] = out[d]
<1>1. peer \in [Conns -> Peers] /\ out \in [Conns -> Seq(Events)]
    BY DEF Types, Peers
<1>2. CASE peer[c] = "gone"
    BY <1>1, <1>2 DEF Send
<1>3. CASE peer[c] # "gone"
    <2>1. /\ out' = [out EXCEPT ![c] = Append(out[c], Event(kind, text))]
          /\ \E p \in AfterSend(peer[c]) : peer' = [peer EXCEPT ![c] = p]
          /\ pc' = next
        BY <1>3 DEF Send
    <2>2. Event(kind, text) \in Events
        BY DEF Event, Events
    <2>3. PICK q : q = Append(out[c], Event(kind, text))
        OBVIOUS
    <2>4. q \in Seq(Events)
        <3>1. out[c] \in Seq(Events)
            BY <1>1
        <3> QED BY ONLY <2>2, <2>3, <3>1
    <2>5. out' \in [Conns -> Seq(Events)] /\ out'[c] = q /\ \A d \in Conns \ {c} : out'[d] = out[d]
        BY <1>1, <2>1, <2>3, <2>4
    <2>6. peer[c] \in Peers /\ AfterSend(peer[c]) \subseteq Peers
        BY <1>1 DEF Peers, AfterSend
    <2>7. peer' \in [Conns -> Peers]
        BY <1>1, <2>1, <2>6
    <2> QED BY <2>1, <2>3, <2>5, <2>7
<1> QED BY <1>2, <1>3

LEMMA TellIs ==
    ASSUME Types, cur \in Conns, sock \in {None, cur}, NEW kind \in EventKinds, NEW text \in Seq(Said), NEW next,
           Tell(kind, text, next)
    PROVE  /\ peer' \in [Conns -> Peers] /\ out' \in [Conns -> Seq(Events)]
           /\ \/ pc' = "dead" /\ out' = out
              \/ /\ pc' = next
                 /\ out'[cur] = IF sock = None THEN out[cur] ELSE Append(out[cur], Event(kind, text))
                 /\ \A d \in Conns \ {cur} : out'[d] = out[d]
<1>1. CASE sock = None
    BY <1>1 DEF Tell, Types, Peers
<1>2. CASE sock # None
    <2>1. Send(cur, kind, text, next)
        BY <1>2 DEF Tell
    <2> QED BY <1>2, <2>1, SendIs
<1> QED BY <1>1, <1>2

LEMMA DeathInv ==
    ASSUME IndInv, cur \in Conns, pc # "accept", pc' = "dead", Types',
           UNCHANGED <<conn, req, backlog, out, cur>>, sock' \in {None, cur}
    PROVE  IndInv'
<1>1. ControlOK'
    BY DEF IndInv, ControlOK, Answering
<1>2. ConnsOK'
    BY DEF IndInv, ConnsOK
<1>3. TalkOK' /\ ToldOK'
    BY DEF TalkOK, ToldOK
<1> QED BY <1>1, <1>2, <1>3 DEF IndInv

LEMMA SaidBy == ASSUME Types PROVE \A k \in DOMAIN transcript : transcript[k].of \in Conns
<1>1. transcript \in Seq(Said)
    BY DEF Types
<1>2. \A k \in DOMAIN transcript : transcript[k] \in Said
    BY <1>1
<1> QED BY <1>2 DEF Said

\* The conversation goes on as it was.
LEMMA TalkStays ==
    ASSUME Types, TalkOK, UNCHANGED talkVars, UNCHANGED <<pc, cur, buffer>>,
           \A c \in Conns : conn[c] \in {"open", "closed"} => conn'[c] \in {"open", "closed"}
    PROVE  TalkOK'
<1> SUFFICES ASSUME pc # "dead" PROVE TalkOK'
    BY DEF TalkOK
<1>0. \A k \in DOMAIN transcript : transcript[k].of \in Conns
    BY SaidBy
<1>1. TranscriptOK'
    BY <1>0 DEF TalkOK, TranscriptOK, talkVars, Replying
<1>2. ResponseOK' /\ BatchOK'
    BY DEF TalkOK, ResponseOK, BatchOK, talkVars
<1>3. CacheOK'
    <2>1. Text' = Text /\ SeenLen' = SeenLen
        BY DEF Text, SeenLen, talkVars, Replying
    <2>2. kv' = kv /\ failures' = failures
        BY DEF talkVars
    <2> QED BY <2>1, <2>2 DEF TalkOK, CacheOK
<1> QED BY <1>1, <1>2, <1>3 DEF TalkOK

\* The thread turns from one thing to another, but generates no reply.
LEMMA TalkRests ==
    ASSUME Types, TalkOK, UNCHANGED talkVars, pc \notin {"generate", "finish", "dead"},
           pc' \notin {"generate", "finish", "dead"},
           \A c \in Conns : conn[c] \in {"open", "closed"} => conn'[c] \in {"open", "closed"},
           pc' \in {"recv", "handle", "prompt"} => \A k \in DOMAIN transcript : transcript[k].of # cur',
           pc' = "reply" \/ (pc' = "close" /\ buffer'.kind \in {"plain", "stream"}) => ReplyOf(cur', response)
    PROVE  TalkOK'
<1>0. ~ Replying /\ ~ Replying' /\ pc # "generate" /\ pc' # "generate"
    BY DEF Replying
<1>5. \A k \in DOMAIN transcript : transcript[k].of \in Conns
    BY SaidBy
<1>1. TranscriptOK'
    BY <1>0, <1>5 DEF TalkOK, TranscriptOK, talkVars
<1>2. ResponseOK'
    BY <1>0 DEF ResponseOK, talkVars
<1>3. BatchOK'
    BY <1>0 DEF BatchOK
<1>4. CacheOK'
    <2>1. Text' = Text /\ SeenLen' = SeenLen
        BY <1>0 DEF Text, SeenLen, talkVars
    <2>2. kv' = kv /\ failures' = failures
        BY DEF talkVars
    <2> QED BY <2>1, <2>2 DEF TalkOK, CacheOK
<1> QED BY <1>1, <1>2, <1>3, <1>4 DEF TalkOK

LEMMA ToldStays ==
    ASSUME ToldOK, UNCHANGED <<pc, cur, buffer, response, transcript, out>>
    PROVE  ToldOK'
BY DEF ToldOK, Answering, StreamToldOK, PlainToldOK, Fitting, Told, Last, TokensOf, Tokenless, FirstTokens, TokensAt

-----------------------------------------------------------------------------
(* Clients.                                                                *)

LEMMA InitInv == Init => IndInv
<1> SUFFICES ASSUME Init PROVE IndInv
    OBVIOUS
<1> USE ServerAssumption DEF Init
<1>1. Types
    BY DEF Types
<1>2. ControlOK
    BY DEF ControlOK, Answering
<1>3. ConnsOK
    BY DEF ConnsOK, IsInjective, ToSet
<1>4. TalkOK
    <2>1. TranscriptOK
        BY DEF TranscriptOK, Replying, IsInjective
    <2>2. ResponseOK /\ BatchOK
        BY DEF ResponseOK, BatchOK
    <2>3. CacheOK
        <3>1. SaidIn(kv) = {} /\ SeenLen = 0
            BY DEF SaidIn, SeenLen, Text, Replying
        <3> QED BY <3>1 DEF CacheOK, Follows, Complete
    <2> QED BY <2>1, <2>2, <2>3 DEF TalkOK
<1>5. ToldOK
    BY DEF ToldOK, Answering
<1> QED BY <1>1, <1>2, <1>3, <1>4, <1>5 DEF IndInv

LEMMA ConnectInv == ASSUME IndInv, NEW c \in Conns, Connect(c) PROVE IndInv'
<1>0. Types /\ ControlOK /\ ConnsOK /\ TalkOK /\ ToldOK
    BY DEF IndInv
<1>1. /\ conn[c] = "new" /\ conn' = [conn EXCEPT ![c] = "waiting"] /\ backlog' = Append(backlog, c)
      /\ UNCHANGED <<peer, req, out, chatVars, pc, cur, buffer, batch, response, failures>>
    BY DEF Connect
<1>2. /\ conn \in [Conns -> {"new", "waiting", "open", "closed"}] /\ backlog \in Seq(Conns)
      /\ \A d \in Conns : conn'[d] = IF d = c THEN "waiting" ELSE conn[d]
    BY <1>0, <1>1 DEF Types
<1>3. /\ backlog' \in Seq(Conns)
      /\ \A i \in DOMAIN backlog' : backlog'[i] = c \/ (i \in DOMAIN backlog /\ backlog'[i] = backlog[i])
    <2>1. backlog' = Append(backlog, c) /\ backlog \in Seq(Conns) /\ c \in Conns
        BY <1>1, <1>2
    <2> QED BY ONLY <2>1
<1>4. Types'
    BY <1>0, <1>1, <1>2, <1>3 DEF Types, chatVars
<1>5. ControlOK'
    BY <1>0, <1>1, <1>2 DEF ControlOK, Answering, chatVars
<1>6. ConnsOK'
    <2>1. IsInjective(backlog')
        <3>1. /\ <<c>> \in Seq(Conns) /\ DOMAIN <<c>> = {1} /\ <<c>>[1] = c
              /\ backlog' = backlog \o <<c>>
            BY <1>1, <1>2
        <3>3. IsInjective(<<c>>)
            BY <3>1 DEF IsInjective
        <3>2. \A i \in DOMAIN backlog : backlog[i] # c
            BY <1>0, <1>1 DEF ConnsOK, ToSet
        <3>4. IsInjective(backlog) /\ backlog \in Seq(Conns)
            BY <1>0, <1>2 DEF ConnsOK
        <3>5. \A i \in DOMAIN backlog, j \in DOMAIN <<c>> : backlog[i] # <<c>>[j]
            BY <3>1, <3>2
        <3> QED BY ONLY <3>1, <3>3, <3>4, <3>5, JoinInjective
    <2>2. \A d \in ToSet(backlog') : conn'[d] = "waiting"
        BY <1>0, <1>2, <1>3 DEF ConnsOK, ToSet
    <2>3. \A d \in Conns : conn'[d] \in {"new", "waiting"} \/ req[d] = Empty => out[d] = << >>
        BY <1>0, <1>1, <1>2 DEF ConnsOK
    <2> QED BY <1>0, <1>1, <2>1, <2>2, <2>3 DEF ConnsOK
<1>7. TalkOK'
    <2>1. \A d \in Conns : conn[d] \in {"open", "closed"} => conn'[d] \in {"open", "closed"}
        BY <1>1, <1>2
    <2> QED BY <1>0, <1>1, <2>1, TalkStays DEF talkVars, chatVars
<1>8. ToldOK'
    BY <1>0, <1>1, ToldStays DEF chatVars
<1> QED BY <1>4, <1>5, <1>6, <1>7, <1>8 DEF IndInv

LEMMA SendRequestInv == ASSUME IndInv, NEW c \in Conns, SendRequest(c) PROVE IndInv'
<1>0. Types /\ ControlOK /\ ConnsOK /\ TalkOK /\ ToldOK
    BY DEF IndInv
<1>1. /\ req[c] = Empty /\ \E r \in Requests : req' = [req EXCEPT ![c] = r]
      /\ UNCHANGED <<conn, peer, out, backlog, chatVars, pc, cur, buffer, batch, response, failures>>
    BY DEF SendRequest
<1>2. req' \in [Conns -> Requests \cup {Empty}] /\ \A d \in Conns : req'[d] = req[d] \/ req[d] = Empty
    BY <1>0, <1>1 DEF Types
<1>3. Types'
    BY <1>0, <1>1, <1>2 DEF Types, chatVars
<1>4. ControlOK'
    <2>1. pc = "accept" \/ (cur \in Conns /\ conn[cur] = "open")
        BY <1>0 DEF ControlOK
    <2> QED BY <1>0, <1>1, <1>2, <2>1 DEF ControlOK, Answering, chatVars
<1>5. ConnsOK'
    BY <1>0, <1>1, <1>2 DEF ConnsOK
<1>6. TalkOK'
    BY <1>0, <1>1, TalkStays DEF talkVars, chatVars
<1>7. ToldOK'
    BY <1>0, <1>1, ToldStays DEF chatVars
<1> QED BY <1>3, <1>4, <1>5, <1>6, <1>7 DEF IndInv

LEMMA LeaveInv == ASSUME IndInv, NEW c \in Conns, Leave(c) PROVE IndInv'
<1>0. Types /\ ControlOK /\ ConnsOK /\ TalkOK /\ ToldOK
    BY DEF IndInv
<1>1. /\ \E how \in {"left", "reset"} : peer' = [peer EXCEPT ![c] = how]
      /\ UNCHANGED <<conn, req, out, backlog, chatVars, pc, cur, buffer, batch, response, failures>>
    BY DEF Leave
<1>2. Types'
    BY <1>0, <1>1 DEF Types, chatVars
<1>3. ControlOK' /\ ConnsOK'
    BY <1>0, <1>1 DEF ControlOK, Answering, ConnsOK, chatVars
<1>4. TalkOK'
    BY <1>0, <1>1, TalkStays DEF talkVars, chatVars
<1>5. ToldOK'
    BY <1>0, <1>1, ToldStays DEF chatVars
<1> QED BY <1>2, <1>3, <1>4, <1>5 DEF IndInv

LEMMA RestartInv == ASSUME IndInv, Restart PROVE IndInv'
<1>0. Types /\ ControlOK /\ ConnsOK /\ TalkOK /\ ToldOK
    BY DEF IndInv
<1> USE DEF Restart
<1>1. Types'
    BY <1>0, ServerAssumption DEF Types
<1>2. ControlOK'
    BY <1>0 DEF ControlOK, Answering
<1>3. ConnsOK'
    <2>1. \A d \in Conns : conn'[d] \in {"new", "waiting"} => conn[d] = "new"
        OBVIOUS
    <2>2. IsInjective(backlog') /\ ToSet(backlog') = {}
        BY DEF IsInjective, ToSet
    <2> QED BY <1>0, <2>1, <2>2 DEF ConnsOK
<1>4. TalkOK'
    <2>1. TranscriptOK'
        BY DEF TranscriptOK, Replying, IsInjective
    <2>2. ResponseOK' /\ BatchOK'
        BY DEF ResponseOK, BatchOK
    <2>3. CacheOK'
        <3>1. SaidIn(kv') = {} /\ SeenLen' = 0
            BY DEF SaidIn, SeenLen, Text, Replying
        <3> QED BY <3>1 DEF CacheOK, Follows, Complete
    <2> QED BY <2>1, <2>2, <2>3 DEF TalkOK
<1>5. ToldOK'
    BY DEF ToldOK, Answering
<1> QED BY <1>1, <1>2, <1>3, <1>4, <1>5 DEF IndInv

-----------------------------------------------------------------------------
(* Requests.                                                               *)

LEMMA AcceptInv == ASSUME IndInv, Accept PROVE IndInv'
<1>0. Types /\ ControlOK /\ ConnsOK /\ TalkOK /\ ToldOK
    BY DEF IndInv
<1>1. /\ pc = "accept" /\ backlog # << >> /\ cur' = Head(backlog) /\ backlog' = Tail(backlog)
      /\ conn' = [conn EXCEPT ![cur'] = "open"] /\ pc' = "recv"
      /\ UNCHANGED <<peer, req, out, chatVars, buffer, batch, response, failures>>
    BY DEF Accept
<1>2. /\ backlog \in Seq(Conns) /\ conn \in [Conns -> {"new", "waiting", "open", "closed"}]
      /\ IsInjective(backlog)
    BY <1>0 DEF Types, ConnsOK
<1>3. /\ cur' \in Conns /\ cur' = backlog[1] /\ backlog' \in Seq(Conns) /\ 1 \in DOMAIN backlog
      /\ \A i \in DOMAIN backlog' : i + 1 \in DOMAIN backlog /\ i + 1 # 1 /\ backlog'[i] = backlog[i + 1]
    <2>1. backlog # << >> /\ cur' = Head(backlog) /\ backlog' = Tail(backlog)
        BY <1>1
    <2>2. backlog \in Seq(Conns)
        BY <1>2
    <2> QED BY ONLY <2>1, <2>2
<1>4. conn[cur'] = "waiting" /\ out[cur'] = << >>
    BY <1>0, <1>3 DEF ConnsOK, ToSet
<1>5. /\ conn' \in [Conns -> {"new", "waiting", "open", "closed"}]
      /\ \A d \in Conns : conn'[d] = IF d = cur' THEN "open" ELSE conn[d]
    BY <1>1, <1>2, <1>3
<1>6. Types'
    BY <1>0, <1>1, <1>3, <1>5 DEF Types, chatVars
<1>7. ControlOK'
    <2>1. sock' = None
        BY <1>0, <1>1 DEF ControlOK, Answering, chatVars
    <2> QED BY <1>1, <1>3, <1>5, <2>1 DEF ControlOK, Answering
<1>8. ConnsOK'
    <2>1. IsInjective(backlog')
        <3>1. ASSUME NEW i \in DOMAIN backlog', NEW j \in DOMAIN backlog', i # j PROVE backlog'[i] # backlog'[j]
            <4>1. i + 1 # j + 1
                BY <1>3, <3>1
            <4> QED BY <1>2, <1>3, <4>1 DEF IsInjective
        <3> QED BY <3>1 DEF IsInjective
    <2>2. \A d \in ToSet(backlog') : conn'[d] = "waiting"
        <3>1. ASSUME NEW i \in DOMAIN backlog' PROVE conn'[backlog'[i]] = "waiting"
            <4>1. backlog'[i] = backlog[i + 1] /\ backlog[i + 1] # cur'
                BY <1>2, <1>3 DEF IsInjective
            <4>2. backlog[i + 1] \in ToSet(backlog) /\ backlog[i + 1] \in Conns
                BY <1>2, <1>3 DEF ToSet
            <4>3. conn[backlog[i + 1]] = "waiting"
                BY <1>0, <4>2 DEF ConnsOK
            <4> QED BY <1>5, <4>1, <4>2, <4>3
        <3> QED BY <3>1 DEF ToSet
    <2>3. \A d \in Conns : conn'[d] \in {"new", "waiting"} \/ req[d] = Empty => out[d] = << >>
        BY <1>0, <1>5 DEF ConnsOK
    <2> QED BY <1>1, <1>4, <2>1, <2>2, <2>3 DEF ConnsOK
<1>9. TalkOK'
    <2>1. \A k \in DOMAIN transcript : transcript[k].of # cur'
        BY <1>0, <1>1, <1>4 DEF TalkOK, TranscriptOK
    <2>2. UNCHANGED talkVars
        BY <1>1 DEF talkVars, chatVars
    <2> QED BY <1>0, <1>1, <1>5, <2>1, <2>2, TalkRests
<1>10. ToldOK'
    BY <1>1 DEF ToldOK, Answering
<1> QED BY <1>6, <1>7, <1>8, <1>9, <1>10 DEF IndInv

\* The thread goes on to the next thing with the same client.
LEMMA TurnStays ==
    ASSUME IndInv, cur \in Conns, UNCHANGED <<conn, req, backlog, cur>>, UNCHANGED talkVars,
           pc \notin {"accept", "generate", "finish", "dead"},
           pc' \in {"handle", "prompt", "reply", "close"},
           Types', ControlOK', \A d \in Conns : out'[d] = out[d] \/ (d = cur /\ req[d] # Empty),
           pc' \in {"handle", "prompt"} => pc \in {"recv", "handle", "prompt"},
           pc' = "handle" => out'[cur] = out[cur] /\ pc = "recv",
           pc' = "reply" \/ (pc' = "close" /\ buffer'.kind \in {"plain", "stream"}) => ReplyOf(cur, response),
           ToldOK'
    PROVE  IndInv'
<1>0. Types /\ ControlOK /\ ConnsOK /\ TalkOK /\ ToldOK
    BY DEF IndInv
<1>1. ConnsOK'
    <2>1. conn[cur] = "open"
        BY <1>0 DEF ControlOK
    <2> QED BY <1>0, <2>1 DEF ConnsOK
<1>2. TalkOK'
    <2>1. pc' \in {"recv", "handle", "prompt"} => \A k \in DOMAIN transcript : transcript[k].of # cur'
        BY <1>0 DEF TalkOK, TranscriptOK
    <2> QED BY <1>0, <2>1, TalkRests
<1> QED BY <1>1, <1>2 DEF IndInv

LEMMA RecvInv == ASSUME IndInv, Recv PROVE IndInv'
<1>0. Types /\ ControlOK /\ ConnsOK /\ TalkOK /\ ToldOK
    BY DEF IndInv
<1>1. /\ pc = "recv" /\ pc' = "handle" /\ buffer' \in {req[cur], Empty}
      /\ UNCHANGED <<conn, req, backlog, out, chatVars, cur, batch, response, failures>>
      /\ \/ UNCHANGED peer
         \/ peer' = [peer EXCEPT ![cur] = "gone"]
    BY DEF Recv
<1>2. cur \in Conns /\ req[cur] \in Requests \cup {Empty}
    BY <1>0, <1>1 DEF ControlOK, Types
<1>3. Types'
    BY <1>0, <1>1, <1>2 DEF Types, chatVars
<1>4. ControlOK'
    BY <1>0, <1>1 DEF ControlOK, Answering, chatVars
<1>5. ToldOK'
    BY <1>1 DEF ToldOK, Answering
<1>6. UNCHANGED talkVars
    BY <1>1 DEF talkVars, chatVars
<1> QED BY <1>1, <1>2, <1>3, <1>4, <1>5, <1>6, TurnStays

LEMMA HandleNothingInv == ASSUME IndInv, HandleNothing PROVE IndInv'
<1>0. Types /\ ControlOK /\ ConnsOK /\ TalkOK /\ ToldOK
    BY DEF IndInv
<1>1. /\ pc = "handle" /\ buffer.kind \in {"none", "nobody"} /\ pc' = "close"
      /\ UNCHANGED <<clientVars, out, chatVars, cur, buffer, batch, response, failures>>
    BY DEF HandleNothing
<1>2. Types'
    BY <1>0, <1>1 DEF Types, clientVars, chatVars
<1>3. ControlOK' /\ cur \in Conns
    BY <1>0, <1>1 DEF ControlOK, Answering, clientVars, chatVars
<1>4. ToldOK'
    BY <1>1 DEF ToldOK, Answering
<1>5. UNCHANGED talkVars /\ UNCHANGED <<conn, req, backlog, out, cur>>
    BY <1>1 DEF talkVars, chatVars, clientVars
<1> QED BY <1>1, <1>2, <1>3, <1>4, <1>5, TurnStays

LEMMA HandlePlainInv == ASSUME IndInv, HandlePlain PROVE IndInv'
<1>0. Types /\ ControlOK /\ ConnsOK /\ TalkOK /\ ToldOK
    BY DEF IndInv
<1>1. /\ pc = "handle" /\ buffer.kind = "plain" /\ pc' = "prompt"
      /\ UNCHANGED <<clientVars, out, chatVars, cur, buffer, batch, response, failures>>
    BY DEF HandlePlain
<1>2. Types'
    BY <1>0, <1>1 DEF Types, clientVars, chatVars
<1>3. ControlOK' /\ cur \in Conns
    BY <1>0, <1>1 DEF ControlOK, Answering, clientVars, chatVars
<1>4. ToldOK'
    BY <1>0, <1>1 DEF ToldOK, Answering, PlainToldOK, ConnsOK
<1>5. UNCHANGED talkVars /\ UNCHANGED <<conn, req, backlog, out, cur>>
    BY <1>1 DEF talkVars, chatVars, clientVars
<1> QED BY <1>1, <1>2, <1>3, <1>4, <1>5, TurnStays

LEMMA HandleSimpleInv == ASSUME IndInv, HandleSimple PROVE IndInv'
<1>0. Types /\ ControlOK /\ ConnsOK /\ TalkOK /\ ToldOK
    BY DEF IndInv
<1>1. /\ pc = "handle" /\ buffer.kind \in {"metrics", "options", "invalid"}
      /\ Send(cur, buffer.kind, << >>, "close")
      /\ UNCHANGED <<conn, req, backlog, chatVars, cur, buffer, batch, response, failures>>
    BY DEF HandleSimple
<1>2. cur \in Conns /\ buffer.kind \in EventKinds /\ << >> \in Seq(Said)
    BY <1>0, <1>1 DEF ControlOK, EventKinds
<1>3. /\ peer' \in [Conns -> Peers] /\ out' \in [Conns -> Seq(Events)]
      /\ \/ pc' = "dead" /\ out' = out
         \/ pc' = "close" /\ \A d \in Conns \ {cur} : out'[d] = out[d]
    BY <1>0, <1>1, <1>2, SendIs
<1>4. Types'
    BY <1>0, <1>1, <1>3 DEF Types, chatVars, Peers
<1>5. CASE pc' = "dead" /\ out' = out
    <2>1. UNCHANGED <<conn, req, backlog, out, cur>> /\ sock' \in {None, cur}
        BY <1>0, <1>1, <1>5 DEF chatVars, ControlOK
    <2> QED BY <1>1, <1>2, <1>4, <1>5, <2>1, DeathInv
<1>6. CASE pc' = "close" /\ \A d \in Conns \ {cur} : out'[d] = out[d]
    <2>1. ControlOK'
        BY <1>0, <1>1, <1>2, <1>6 DEF ControlOK, Answering, chatVars
    <2>2. req[cur] # Empty
        BY <1>0, <1>1, RequestIs DEF ControlOK
    <2>3. ToldOK'
        BY <1>1, <1>6 DEF ToldOK, Answering
    <2>4. UNCHANGED talkVars /\ UNCHANGED <<conn, req, backlog, cur>>
        BY <1>1 DEF talkVars, chatVars
    <2> QED BY <1>1, <1>2, <1>4, <1>6, <2>1, <2>2, <2>3, <2>4, TurnStays
<1> QED BY <1>3, <1>5, <1>6

LEMMA HandleStreamInv == ASSUME IndInv, HandleStream PROVE IndInv'
<1>0. Types /\ ControlOK /\ ConnsOK /\ TalkOK /\ ToldOK
    BY DEF IndInv
<1>1. /\ pc = "handle" /\ buffer.kind = "stream" /\ sock' = cur
      /\ Send(cur, "headers", << >>, "prompt")
      /\ UNCHANGED <<conn, req, backlog, model, transcript, prevLen, kv, slot, metrics,
                     cur, buffer, batch, response, failures>>
    BY DEF HandleStream
<1>2. cur \in Conns /\ "headers" \in EventKinds /\ << >> \in Seq(Said) /\ out[cur] = << >>
    BY <1>0, <1>1 DEF ControlOK, EventKinds, ConnsOK
<1>3. /\ peer' \in [Conns -> Peers] /\ out' \in [Conns -> Seq(Events)]
      /\ \/ pc' = "dead" /\ out' = out
         \/ /\ pc' = "prompt" /\ out'[cur] = Append(out[cur], Event("headers", << >>))
            /\ \A d \in Conns \ {cur} : out'[d] = out[d]
    BY <1>0, <1>1, <1>2, SendIs
<1>4. Types'
    BY <1>0, <1>1, <1>3 DEF Types, Peers
<1>5. CASE pc' = "dead" /\ out' = out
    <2>1. UNCHANGED <<conn, req, backlog, out, cur>> /\ sock' \in {None, cur}
        BY <1>1, <1>5
    <2> QED BY <1>1, <1>2, <1>4, <1>5, <2>1, DeathInv
<1>6. CASE /\ pc' = "prompt" /\ out'[cur] = Append(out[cur], Event("headers", << >>))
           /\ \A d \in Conns \ {cur} : out'[d] = out[d]
    <2>1. ControlOK'
        BY <1>0, <1>1, <1>2, <1>6 DEF ControlOK, Answering
    <2>2. req[cur] # Empty
        BY <1>0, <1>1, RequestIs DEF ControlOK
    <2>3. ToldOK'
        <3>1. out'[cur] = <<Event("headers", << >>)>>
            BY <1>2, <1>6
        <3> QED BY <1>1, <1>6, <3>1 DEF ToldOK, Answering, StreamToldOK
    <2>4. UNCHANGED talkVars /\ UNCHANGED <<conn, req, backlog, cur>>
        BY <1>1 DEF talkVars
    <2> QED BY <1>1, <1>2, <1>4, <1>6, <2>1, <2>2, <2>3, <2>4, TurnStays
<1> QED BY <1>3, <1>5, <1>6

LEMMA ReplyStreamInv == ASSUME IndInv, ReplyStream PROVE IndInv'
<1>0. Types /\ ControlOK /\ ConnsOK /\ TalkOK /\ ToldOK
    BY DEF IndInv
<1>1. /\ pc = "reply" /\ buffer.kind = "stream" /\ sock' = None /\ pc' = "close"
      /\ UNCHANGED <<clientVars, out, model, transcript, prevLen, kv, slot, metrics,
                     cur, buffer, batch, response, failures>>
    BY DEF ReplyStream
<1>2. Types'
    BY <1>0, <1>1 DEF Types, clientVars
<1>3. ControlOK' /\ cur \in Conns
    BY <1>0, <1>1 DEF ControlOK, Answering, clientVars
<1>4. ToldOK'
    <2>1. StreamToldOK /\ FirstTokens(cur, transcript, TokensOf(response))
        BY <1>0, <1>1 DEF ToldOK, Answering
    <2>2. StreamToldOK'
        BY <1>1, <2>1 DEF StreamToldOK, Told, TokensOf, Tokenless, Last
    <2>3. FirstTokens(cur, transcript, TokensOf(response))'
        BY <1>1, <2>1 DEF FirstTokens, TokensAt, TokensOf, Tokenless, Last
    <2> QED BY <1>1, <2>2, <2>3 DEF ToldOK
<1>5. ReplyOf(cur, response)
    BY <1>0, <1>1 DEF TalkOK, ResponseOK
<1>6. UNCHANGED talkVars /\ UNCHANGED <<conn, req, backlog, out, cur>>
    BY <1>1 DEF talkVars, clientVars
<1> QED BY <1>1, <1>2, <1>3, <1>4, <1>5, <1>6, TurnStays

\* A plain reply is sent as far as there is room for it.
LEMMA FittingIs ==
    ASSUME response \in Seq(Said)
    PROVE  /\ Fitting \in Seq(Said)
           /\ Len(Fitting) = Least(Len(response), PlainMax)
           /\ \A i \in 1 .. Len(Fitting) : Fitting[i] = response[i]
<1> DEFINE m == Least(Len(response), PlainMax)
<1>1. m \in 0 .. Len(response)
    BY ServerAssumption DEF Least
<1> HIDE DEF m
<1>2. Fitting = SubSeq(response, 1, m)
    BY DEF Fitting, m
<1>3. /\ Fitting \in Seq(Said) /\ Len(Fitting) = m
      /\ \A i \in 1 .. m : Fitting[i] = response[i]
    BY <1>1, <1>2
<1> QED BY <1>3 DEF m

LEMMA ReplyPlainInv == ASSUME IndInv, ReplyPlain PROVE IndInv'
<1>0. Types /\ ControlOK /\ ConnsOK /\ TalkOK /\ ToldOK
    BY DEF IndInv
<1>1. /\ pc = "reply" /\ buffer.kind = "plain"
      /\ Send(cur, "response", Fitting, "close")
      /\ UNCHANGED <<conn, req, backlog, chatVars, cur, buffer, batch, response, failures>>
    BY DEF ReplyPlain
<1>2. cur \in Conns /\ "response" \in EventKinds /\ Fitting \in Seq(Said) /\ out[cur] = << >>
    BY <1>0, <1>1, FittingIs DEF ControlOK, EventKinds, Types, ToldOK, Answering, PlainToldOK
<1>3. /\ peer' \in [Conns -> Peers] /\ out' \in [Conns -> Seq(Events)]
      /\ \/ pc' = "dead" /\ out' = out
         \/ /\ pc' = "close" /\ out'[cur] = Append(out[cur], Event("response", Fitting))
            /\ \A d \in Conns \ {cur} : out'[d] = out[d]
    BY <1>0, <1>1, <1>2, SendIs
<1>4. Types'
    BY <1>0, <1>1, <1>3 DEF Types, Peers, chatVars
<1>5. CASE pc' = "dead" /\ out' = out
    <2>1. UNCHANGED <<conn, req, backlog, out, cur>> /\ sock' \in {None, cur}
        BY <1>0, <1>1, <1>5 DEF chatVars, ControlOK
    <2> QED BY <1>1, <1>2, <1>4, <1>5, <2>1, DeathInv
<1>6. CASE /\ pc' = "close" /\ out'[cur] = Append(out[cur], Event("response", Fitting))
           /\ \A d \in Conns \ {cur} : out'[d] = out[d]
    <2>1. ControlOK'
        BY <1>0, <1>1, <1>2, <1>6 DEF ControlOK, Answering, chatVars
    <2>2. req[cur] # Empty
        BY <1>0, <1>1, RequestIs DEF ControlOK, Answering
    <2>3. ToldOK'
        <3>1. out'[cur] = <<Event("response", Fitting)>>
            BY <1>2, <1>6
        <3>2. PlainToldOK'
            BY <1>1, <1>6, <3>1 DEF PlainToldOK, Fitting, Answering, Event
        <3>3. FirstTokens(cur, transcript, TokensOf(response))
            BY <1>0, <1>1 DEF ToldOK, Answering
        <3>4. FirstTokens(cur, transcript, TokensOf(response))'
            BY <1>1, <3>3 DEF FirstTokens, TokensAt, TokensOf, Tokenless, Last, chatVars
        <3> QED BY <1>1, <3>2, <3>4 DEF ToldOK
    <2>4. UNCHANGED talkVars /\ UNCHANGED <<conn, req, backlog, cur>>
        BY <1>1 DEF talkVars, chatVars
    <2>5. ReplyOf(cur, response)
        BY <1>0, <1>1 DEF TalkOK, ResponseOK
    <2> QED BY <1>1, <1>2, <1>4, <1>6, <2>1, <2>2, <2>3, <2>4, <2>5, TurnStays
<1> QED BY <1>3, <1>5, <1>6

LEMMA CloseInv == ASSUME IndInv, Close PROVE IndInv'
<1>0. Types /\ ControlOK /\ ConnsOK /\ TalkOK /\ ToldOK
    BY DEF IndInv
<1>1. /\ pc = "close" /\ cur' = None /\ pc' = "accept"
      /\ conn' = conn \/ conn' = [conn EXCEPT ![cur] = "closed"]
      /\ UNCHANGED <<peer, req, out, backlog, chatVars, buffer, batch, response, failures>>
    BY DEF Close
<1>2. cur \in Conns /\ conn[cur] = "open" /\ sock = None
    BY <1>0, <1>1 DEF ControlOK, Answering
<1>3. /\ conn' \in [Conns -> {"new", "waiting", "open", "closed"}]
      /\ \A d \in Conns : conn'[d] = conn[d] \/ (d = cur /\ conn'[d] = "closed")
    BY <1>0, <1>1, <1>2 DEF Types
<1>4. Types'
    BY <1>0, <1>1, <1>3 DEF Types, chatVars
<1>5. ControlOK'
    BY <1>1, <1>2 DEF ControlOK, Answering, chatVars
<1>6. ConnsOK'
    <2>1. \A d \in ToSet(backlog) : d \in Conns /\ d # cur
        BY <1>0, <1>2 DEF ConnsOK, Types, ToSet
    <2> QED BY <1>0, <1>1, <1>2, <1>3, <2>1 DEF ConnsOK
<1>7. TalkOK'
    <2>1. UNCHANGED talkVars
        BY <1>1 DEF talkVars, chatVars
    <2> QED BY <1>0, <1>1, <1>2, <1>3, <2>1, TalkRests
<1>8. ToldOK'
    BY <1>1 DEF ToldOK, Answering
<1> QED BY <1>4, <1>5, <1>6, <1>7, <1>8 DEF IndInv

-----------------------------------------------------------------------------
(* A reply begins.                                                         *)

LEMMA TokensIs ==
    ASSUME Types, NEW u \in Token, NEW r \in Token
    PROVE  Tokens(<<u, r>>) \in {<<u, r>>, <<Bos, u, r>>, <<u, r, Pad>>}
<1>1. CASE ~ model.bos
    <2>1. Tokens(<<u, r>>) = [i \in 1 .. 2 |-> IF i <= 2 THEN <<u, r>>[i] ELSE Pad]
        BY <1>1 DEF Tokens
    <2>2. Tokens(<<u, r>>) = [i \in 1 .. 2 |-> IF i = 1 THEN u ELSE r]
        BY <2>1
    <2>3. <<u, r>> = [i \in 1 .. 2 |-> IF i = 1 THEN u ELSE r]
        OBVIOUS
    <2> QED BY <2>2, <2>3
<1>2. CASE model.bos /\ kv = << >>
    <2>1. <<Bos>> \o <<u, r>> = <<Bos, u, r>>
        <3>1. PICK b : b = Bos
            OBVIOUS
        <3>2. b \in Token /\ u \in Token /\ r \in Token
            BY <3>1 DEF Token
        <3>3. PICK t : t = <<b>> \o <<u, r>>
            OBVIOUS
        <3>4. <<b>> \in Seq(Token) /\ <<u, r>> \in Seq(Token)
            BY ONLY <3>2
        <3>5. t = [i \in 1 .. 3 |-> IF i = 1 THEN b ELSE IF i = 2 THEN u ELSE r]
            BY ONLY <3>2, <3>3, <3>4
        <3>6. <<b, u, r>> = [i \in 1 .. 3 |-> IF i = 1 THEN b ELSE IF i = 2 THEN u ELSE r]
            BY ONLY <3>2
        <3>7. t = <<b, u, r>>
            BY ONLY <3>5, <3>6
        <3>8. <<b>> \o <<u, r>> = <<b, u, r>>
            BY <3>3, <3>7
        <3> QED BY ONLY <3>1, <3>8
    <2>2. Tokens(<<u, r>>) = [i \in 1 .. 3 |-> IF i <= 3 THEN <<Bos, u, r>>[i] ELSE Pad]
        BY <1>2, <2>1 DEF Tokens
    <2>3. Tokens(<<u, r>>) = [i \in 1 .. 3 |-> IF i = 1 THEN Bos ELSE IF i = 2 THEN u ELSE r]
        BY <2>2
    <2>4. <<Bos, u, r>> = [i \in 1 .. 3 |-> IF i = 1 THEN Bos ELSE IF i = 2 THEN u ELSE r]
        OBVIOUS
    <2> QED BY <2>3, <2>4
<1>3. CASE model.bos /\ kv # << >>
    <2>1. Tokens(<<u, r>>) = [i \in 1 .. 3 |-> IF i <= 2 THEN <<u, r>>[i] ELSE Pad]
        BY <1>3 DEF Tokens
    <2>2. Tokens(<<u, r>>) = [i \in 1 .. 3 |-> IF i = 1 THEN u ELSE IF i = 2 THEN r ELSE Pad]
        BY <2>1
    <2>3. <<u, r, Pad>> = [i \in 1 .. 3 |-> IF i = 1 THEN u ELSE IF i = 2 THEN r ELSE Pad]
        OBVIOUS
    <2> QED BY <2>2, <2>3
<1> QED BY <1>1, <1>2, <1>3

\* The user's turn is added to the messages.
LEMMA UserTurn ==
    ASSUME IndInv, pc = "prompt", transcript' = Append(transcript, Piece(cur, "user", 0))
    PROVE  /\ cur \in Conns /\ conn[cur] = "open" /\ transcript \in Seq(Said)
           /\ transcript' \in Seq(Said) /\ IsInjective(transcript')
           /\ Len(transcript') = Len(transcript) + 1 /\ Len(transcript) \in Nat
           /\ transcript'[Len(transcript) + 1] = Piece(cur, "user", 0)
           /\ \A k \in 1 .. Len(transcript) :
                 /\ transcript'[k] = transcript[k] /\ transcript[k].of # cur
                 /\ conn[transcript[k].of] \in {"open", "closed"}
<1>1. cur \in Conns /\ conn[cur] = "open" /\ transcript \in Seq(Said) /\ IsInjective(transcript)
    BY DEF IndInv, ControlOK, Types, TalkOK, TranscriptOK
<1>2. \A k \in 1 .. Len(transcript) :
          transcript[k].of # cur /\ conn[transcript[k].of] \in {"open", "closed"}
    <2>1. DOMAIN transcript = 1 .. Len(transcript)
        BY <1>1
    <2> QED BY <2>1 DEF IndInv, TalkOK, TranscriptOK
<1>3. PICK u \in Said : u = Piece(cur, "user", 0) /\ u.of = cur
    BY <1>1, PieceIs
<1>4. /\ transcript' \in Seq(Said) /\ Len(transcript') = Len(transcript) + 1 /\ Len(transcript) \in Nat
      /\ transcript'[Len(transcript) + 1] = u /\ \A k \in 1 .. Len(transcript) : transcript'[k] = transcript[k]
      /\ DOMAIN transcript' = 1 .. Len(transcript) + 1 /\ DOMAIN transcript = 1 .. Len(transcript)
    <2>1. transcript' = Append(transcript, u) /\ transcript \in Seq(Said) /\ u \in Said
        BY <1>1, <1>3
    <2> QED BY ONLY <2>1
<1>5. IsInjective(transcript')
    <2>1. ASSUME NEW i \in DOMAIN transcript', NEW j \in DOMAIN transcript', i # j
          PROVE  transcript'[i] # transcript'[j]
        <3>1. (i \in 1 .. Len(transcript) \/ i = Len(transcript) + 1)
              /\ (j \in 1 .. Len(transcript) \/ j = Len(transcript) + 1)
            BY <1>4
        <3> QED BY <1>1, <1>2, <1>3, <1>4, <2>1, <3>1 DEF IsInjective
    <2> QED BY <2>1 DEF IsInjective
<1> QED BY <1>1, <1>2, <1>3, <1>4, <1>5

\* What is given to the model: the user's turn and the opening of the reply.
LEMMA PromptIs ==
    ASSUME NEW t \in Seq(Said), NEW u \in Said, NEW r \in Said
    PROVE  SubSeq(Append(Append(t, u), r), Len(t) + 1, Len(Append(Append(t, u), r))) = <<u, r>>
<1>1. PICK a : a = Append(t, u)
    OBVIOUS
<1>2. a \in Seq(Said) /\ Len(a) = Len(t) + 1 /\ a[Len(t) + 1] = u /\ Len(t) \in Nat
    BY <1>1
<1>3. PICK f : f = Append(a, r)
    OBVIOUS
<1>4. f \in Seq(Said) /\ Len(f) = Len(t) + 2 /\ f[Len(t) + 1] = u /\ f[Len(t) + 2] = r
    <2>1. a \in Seq(Said) /\ r \in Said
        BY <1>2
    <2>2. f \in Seq(Said) /\ Len(f) = Len(a) + 1 /\ f[Len(a) + 1] = r /\ \A k \in 1 .. Len(a) : f[k] = a[k]
        BY ONLY <1>3, <2>1
    <2> QED BY ONLY <1>2, <2>2
<1>5. PICK n \in Nat : n = Len(t)
    BY <1>2
<1>6. PICK p : p = SubSeq(f, n + 1, n + 2)
    OBVIOUS
<1>7. p = [i \in 1 .. 2 |-> IF i = 1 THEN u ELSE r]
    <2>1. p = [i \in 1 .. 2 |-> f[n + i]]
        <3>1. p = [i \in 1 .. ((n + 2) - (n + 1) + 1) |-> f[n + 1 + i - 1]]
            BY ONLY <1>6, <1>4, <1>5
        <3> QED BY ONLY <3>1, <1>5
    <2>2. f[n + 1] = u /\ f[n + 2] = r
        BY ONLY <1>4, <1>5
    <2> QED BY ONLY <2>1, <2>2, <1>5
<1>8. <<u, r>> = [i \in 1 .. 2 |-> IF i = 1 THEN u ELSE r]
    OBVIOUS
<1>9. p = <<u, r>>
    BY ONLY <1>7, <1>8
<1>10. SubSeq(f, Len(t) + 1, Len(f)) = p
    BY ONLY <1>4, <1>5, <1>6
<1> QED BY <1>1, <1>3, <1>9, <1>10

LEMMA StartReplyInv == ASSUME IndInv, StartReply PROVE IndInv'
<1>0. Types /\ ControlOK /\ ConnsOK /\ TalkOK /\ ToldOK
    BY DEF IndInv
<1>1. /\ pc = "prompt" /\ model.template /\ pc' = "generate" /\ slot' = "processing"
      /\ transcript' = Append(transcript, Piece(cur, "user", 0))
      /\ batch' = Tokens(Prompt) /\ response' = << >>
      /\ UNCHANGED <<clientVars, out, model, prevLen, kv, sock, metrics, cur, buffer, failures>>
    BY DEF StartReply
<1>2. /\ cur \in Conns /\ conn[cur] = "open" /\ transcript \in Seq(Said)
      /\ transcript' \in Seq(Said) /\ IsInjective(transcript')
      /\ Len(transcript') = Len(transcript) + 1 /\ Len(transcript) \in Nat
      /\ transcript'[Len(transcript) + 1] = Piece(cur, "user", 0)
      /\ \A k \in 1 .. Len(transcript) :
            /\ transcript'[k] = transcript[k] /\ transcript[k].of # cur
            /\ conn[transcript[k].of] \in {"open", "closed"}
    BY <1>1, UserTurn
<1>3. PICK u \in Said, r \in Said :
          u = Piece(cur, "user", 0) /\ r = Piece(cur, "reply", 0) /\ u \in Token /\ r \in Token
    BY <1>2, PieceIs
<1>4. prevLen = Len(transcript) /\ prevLen \in 0 .. Len(transcript')
    BY <1>0, <1>1, <1>2 DEF TalkOK, TranscriptOK, Replying
<1>5. batch' \in {<<u, r>>, <<Bos, u, r>>, <<u, r, Pad>>}
    <2>1. Prompt = SubSeq(Append(Append(transcript, u), r), Len(transcript) + 1,
                          Len(Append(Append(transcript, u), r)))
        BY <1>1, <1>3, <1>4 DEF Prompt, Formatted
    <2>2. Prompt = <<u, r>>
        BY <1>2, <2>1, PromptIs
    <2> QED BY <1>0, <1>1, <1>3, <2>2, TokensIs
<1>6. batch' \in Seq(Token)
    <2>1. PICK a, b, x, y : a = u /\ b = r /\ x = Bos /\ y = Pad
        OBVIOUS
    <2>2. a \in Token /\ b \in Token /\ x \in Token /\ y \in Token
        BY <1>3, <2>1 DEF Token
    <2>3. batch' \in {<<a, b>>, <<x, a, b>>, <<a, b, y>>}
        BY <1>5, <2>1
    <2>4. <<a, b>> \in Seq(Token) /\ <<x, a, b>> \in Seq(Token) /\ <<a, b, y>> \in Seq(Token)
        BY ONLY <2>2
    <2> QED BY ONLY <2>3, <2>4
<1>7. Types'
    <2>1. << >> \in Seq(Said)
        OBVIOUS
    <2> QED BY <1>0, <1>1, <1>2, <1>4, <1>6, <2>1 DEF Types, clientVars
<1>8. ControlOK'
    BY <1>0, <1>1, <1>2 DEF ControlOK, Answering, clientVars
<1>9. ConnsOK'
    BY <1>0, <1>1 DEF ConnsOK, clientVars
<1>10. TranscriptOK'
    <2>1. \A k \in DOMAIN transcript' : k \in 1 .. Len(transcript) \/ k = Len(transcript')
        BY <1>2
    <2>2. u.of = cur
        BY <1>2, <1>3, PieceIs
    <2>3. /\ \A k \in DOMAIN transcript' : conn[transcript'[k].of] \in {"open", "closed"}
          /\ \A k \in DOMAIN transcript' : IF k = Len(transcript') THEN transcript'[k] = Piece(cur, "user", 0)
                                           ELSE transcript'[k].of # cur
        BY <1>2, <1>3, <2>1, <2>2
    <2>4. transcript' # << >> /\ prevLen = Len(transcript') - 1
        BY <1>2, <1>4
    <2> QED BY <1>1, <1>2, <2>3, <2>4 DEF TranscriptOK, Replying, clientVars
<1>11. ResponseOK'
    BY <1>1 DEF ResponseOK, ReplyOf, Tokenless
<1>12. BatchOK'
    BY <1>1, <1>3, <1>5 DEF BatchOK
<1>13. CacheOK'
    <2>1. /\ Follows(kv, transcript, Len(transcript)) /\ (failures = 0 => Complete(kv, transcript, Len(transcript)))
        <3>1. Text = transcript /\ SeenLen = Len(transcript)
            BY <1>0, <1>1, TextIs DEF Replying
        <3>2. CacheOK
            BY <1>0, <1>1 DEF TalkOK
        <3> QED BY <3>1, <3>2 DEF CacheOK
    <2>2. PICK t : t = Append(transcript', Piece(cur, "reply", 0)) \o << >>
        OBVIOUS
    <2>3. /\ t \in Seq(Said) /\ IsInjective(t) /\ Len(t) = Len(transcript') + 1
          /\ \A k \in 1 .. Len(transcript') : t[k] = transcript'[k]
        <3>1. ReplyOf(cur, << >>) /\ << >> \in Seq(Said) /\ Len(<< >>) = 0
            BY DEF ReplyOf
        <3>2. \A k \in DOMAIN transcript' : transcript'[k].of # cur \/ transcript'[k] = Piece(cur, "user", 0)
            <4>1. \A k \in DOMAIN transcript' : k \in 1 .. Len(transcript) \/ k = Len(transcript) + 1
                BY <1>2
            <4> QED BY <1>2, <4>1
        <3>3. PICK w : w = transcript'
            OBVIOUS
        <3>4. /\ Append(w, Piece(cur, "reply", 0)) \o << >> \in Seq(Said)
              /\ IsInjective(Append(w, Piece(cur, "reply", 0)) \o << >>)
              /\ Len(Append(w, Piece(cur, "reply", 0)) \o << >>) = Len(w) + 1 + Len(<< >>)
              /\ \A k \in 1 .. Len(w) : (Append(w, Piece(cur, "reply", 0)) \o << >>)[k] = w[k]
            <4>1. /\ w \in Seq(Said) /\ IsInjective(w) /\ cur \in Conns
                  /\ \A k \in DOMAIN w : w[k].of # cur \/ w[k] = Piece(cur, "user", 0)
                BY <1>2, <3>2, <3>3
            <4> QED BY ONLY <3>1, <4>1, TurnIs
        <3> QED BY <1>2, <2>2, <3>1, <3>3, <3>4
    <2>4. Text' = t /\ SeenLen' = Len(transcript)
        BY <1>1, <1>2, <2>2, <2>3 DEF Text, SeenLen, Replying
    <2>5. \A k \in 1 .. Len(transcript) : t[k] = transcript[k]
        BY <1>2, <2>3
    <2>6. /\ kv \in Seq(Token) /\ Len(transcript) <= Len(t) /\ Len(transcript) \in 0 .. Len(transcript)
        BY <1>0, <1>2, <2>3 DEF Types
    <2>7. Follows(kv, t, Len(transcript)) /\ (failures = 0 => Complete(kv, t, Len(transcript)))
        BY <1>2, <2>1, <2>3, <2>5, <2>6, FollowsLonger
    <2> QED BY <1>1, <2>4, <2>7 DEF CacheOK
<1>14. ToldOK'
    <2>1. CASE buffer.kind = "stream"
        <3>1. out[cur] = <<Event("headers", << >>)>>
            BY <1>0, <1>1, <2>1 DEF ToldOK, Answering, StreamToldOK
        <3>2. Len(out[cur]) = 1 /\ out[cur][1] = Event("headers", << >>)
            BY <3>1
        <3>3. StreamToldOK'
            BY <1>1, <3>2 DEF StreamToldOK, Told
        <3> QED BY <1>1, <2>1, <3>3 DEF ToldOK
    <2>2. CASE buffer.kind = "plain"
        BY <1>0, <1>1, <2>2 DEF ToldOK, PlainToldOK, Answering
    <2>3. CASE buffer.kind \notin {"stream", "plain"}
        BY <1>1, <2>3 DEF ToldOK
    <2> QED BY <2>1, <2>2, <2>3
<1>15. TalkOK'
    BY <1>10, <1>11, <1>12, <1>13 DEF TalkOK
<1> QED BY <1>7, <1>8, <1>9, <1>14, <1>15 DEF IndInv

LEMMA FirstTokensIn ==
    ASSUME NEW c \in Conns, NEW text \in Seq(Said), NEW m \in Nat, NEW n \in Nat, m + n <= Len(text),
           \A i \in 1 .. n : text[m + i] = Piece(c, "token", i),
           \A i \in DOMAIN text : text[i].of = c /\ text[i].part = "token" => i \in m + 1 .. m + n
    PROVE  FirstTokens(c, text, n)
<1>1. \A i \in 1 .. n : text[m + i].of = c /\ text[m + i].part = "token" /\ text[m + i].k = i
    <2>1. ASSUME NEW i \in 1 .. n PROVE text[m + i].of = c /\ text[m + i].part = "token" /\ text[m + i].k = i
        <3>1. PICK p : p = Piece(c, "token", i)
            OBVIOUS
        <3>2. p.of = c /\ p.part = "token" /\ p.k = i
            BY <3>1 DEF Piece
        <3>3. text[m + i] = p
            BY <3>1
        <3> QED BY <3>2, <3>3
    <2> QED BY <2>1
<1>2. DOMAIN text = 1 .. Len(text) /\ Len(text) \in Nat
    OBVIOUS
<1>3. \A i \in 1 .. n : m + i \in TokensAt(c, text)
    BY <1>1, <1>2 DEF TokensAt
<1>4. \A i \in TokensAt(c, text) : i \in m + 1 .. m + n
    BY DEF TokensAt
<1>5. \A i \in TokensAt(c, text) : i \in Nat /\ i - m \in 1 .. n /\ text[i].k = i - m
    <2>1. ASSUME NEW i \in TokensAt(c, text) PROVE i \in Nat /\ i - m \in 1 .. n /\ text[i].k = i - m
        <3>1. i \in m + 1 .. m + n
            BY <1>4
        <3>2. i \in Nat /\ i - m \in 1 .. n /\ m + (i - m) = i
            BY <3>1
        <3> QED BY <1>1, <3>2
    <2> QED BY <2>1
<1>6. {text[i].k : i \in TokensAt(c, text)} = 1 .. n
    <2>1. {text[i].k : i \in TokensAt(c, text)} \subseteq 1 .. n
        BY <1>5
    <2>2. ASSUME NEW j \in 1 .. n PROVE j \in {text[i].k : i \in TokensAt(c, text)}
        BY <1>1, <1>3
    <2> QED BY <2>1, <2>2
<1>7. \A i, j \in TokensAt(c, text) : i < j => text[i].k < text[j].k
    BY <1>5
<1> QED BY <1>6, <1>7 DEF FirstTokens

LEMMA NoTemplateInv == ASSUME IndInv, NoTemplate PROVE IndInv'
<1>0. Types /\ ControlOK /\ ConnsOK /\ TalkOK /\ ToldOK
    BY DEF IndInv
<1>1. /\ pc = "prompt" /\ ~ model.template /\ pc' = "reply" /\ slot' = "error"
      /\ transcript' = Append(transcript, Piece(cur, "user", 0))
      /\ response' = <<Piece(cur, "error", 0)>> /\ failures' = failures + 1
      /\ UNCHANGED <<clientVars, out, model, prevLen, kv, sock, metrics, cur, buffer, batch>>
    BY DEF NoTemplate
<1>2. /\ cur \in Conns /\ conn[cur] = "open" /\ transcript \in Seq(Said)
      /\ transcript' \in Seq(Said) /\ IsInjective(transcript')
      /\ Len(transcript') = Len(transcript) + 1 /\ Len(transcript) \in Nat
      /\ transcript'[Len(transcript) + 1] = Piece(cur, "user", 0)
      /\ \A k \in 1 .. Len(transcript) :
            /\ transcript'[k] = transcript[k] /\ transcript[k].of # cur
            /\ conn[transcript[k].of] \in {"open", "closed"}
    BY <1>1, UserTurn
<1>3. PICK u \in Said, e \in Said :
          /\ u = Piece(cur, "user", 0) /\ u.of = cur /\ u.part = "user"
          /\ e = Piece(cur, "error", 0) /\ e.part = "error"
    BY <1>2, PieceIs
<1>4. response' \in Seq(Said) /\ Len(response') = 1 /\ response'[1] = e /\ TokensOf(response') = 0
    <2>1. response' = <<e>>
        BY <1>1, <1>3
    <2>2. Tokenless(response')
        BY <1>3, <2>1 DEF Tokenless, Last
    <2> QED BY <2>1, <2>2 DEF TokensOf
<1>5. Types'
    <2>1. failures' \in Nat /\ prevLen' \in 0 .. Len(transcript')
        BY <1>0, <1>1, <1>2 DEF Types
    <2> QED BY <1>0, <1>1, <1>2, <1>4, <2>1 DEF Types, clientVars
<1>6. ControlOK'
    BY <1>0, <1>1, <1>2 DEF ControlOK, Answering, clientVars
<1>7. ConnsOK'
    BY <1>0, <1>1 DEF ConnsOK, clientVars
<1>8. \A k \in DOMAIN transcript' : k \in 1 .. Len(transcript) \/ k = Len(transcript) + 1
    BY <1>2
<1>9. TalkOK'
    <2>1. \A k \in DOMAIN transcript' : conn[transcript'[k].of] \in {"open", "closed"}
        BY <1>2, <1>3, <1>8
    <2>2. kv = << >>
        BY <1>0, <1>1 DEF TalkOK, TranscriptOK
    <2>3. TranscriptOK'
        BY <1>1, <1>2, <2>1, <2>2 DEF TranscriptOK, Replying, clientVars
    <2>4. ResponseOK' /\ BatchOK'
        BY <1>1, <1>3, <1>4 DEF ResponseOK, ReplyOf, BatchOK
    <2>5. CacheOK'
        <3>1. SaidIn(kv') = {}
            BY <1>1, <2>2 DEF SaidIn
        <3>2. failures' # 0
            BY <1>0, <1>1 DEF Types
        <3> QED BY <3>1, <3>2 DEF CacheOK, Follows
    <2> QED BY <2>3, <2>4, <2>5 DEF TalkOK
<1>10. FirstTokens(cur, transcript', 0)
    <2>1. \A i \in DOMAIN transcript' : ~ (transcript'[i].of = cur /\ transcript'[i].part = "token")
        BY <1>2, <1>3, <1>8
    <2>2. 0 \in Nat /\ 0 + 0 <= Len(transcript') /\ cur \in Conns /\ transcript' \in Seq(Said)
        BY <1>2
    <2>3. PICK t : t = transcript'
        OBVIOUS
    <2>4. FirstTokens(cur, t, 0)
        BY <2>1, <2>2, <2>3, FirstTokensIn
    <2> QED BY <2>3, <2>4
<1>11. ToldOK'
    <2>1. CASE buffer.kind = "stream"
        <3>1. out[cur] = <<Event("headers", << >>)>>
            BY <1>0, <1>1, <2>1 DEF ToldOK, Answering, StreamToldOK
        <3>2. Len(out[cur]) = 1 /\ out[cur][1] = Event("headers", << >>)
            BY <3>1
        <3>3. StreamToldOK'
            BY <1>1, <1>4, <3>2 DEF StreamToldOK, Told
        <3>4. FirstTokens(cur, transcript, TokensOf(response))'
            BY <1>1, <1>4, <1>10
        <3> QED BY <1>1, <2>1, <3>3, <3>4 DEF ToldOK
    <2>2. CASE buffer.kind = "plain"
        <3>1. out[cur] = << >>
            BY <1>0, <1>1, <2>2 DEF ToldOK, PlainToldOK, Answering
        <3>2. PlainToldOK'
            BY <1>1, <3>1 DEF PlainToldOK
        <3>3. FirstTokens(cur, transcript, TokensOf(response))'
            BY <1>1, <1>4, <1>10
        <3> QED BY <1>1, <2>2, <3>2, <3>3 DEF ToldOK
    <2>3. CASE buffer.kind \notin {"stream", "plain"}
        BY <1>1, <2>3 DEF ToldOK
    <2> QED BY <2>1, <2>2, <2>3
<1> QED BY <1>5, <1>6, <1>7, <1>9, <1>11 DEF IndInv

-----------------------------------------------------------------------------
(* The reply is generated.                                                 *)

LEMMA JoinIs ==
    ASSUME NEW q \in Seq(Token), NEW a \in Token, NEW b \in Token, NEW c \in Token
    PROVE  /\ q \o <<a>> = Append(q, a)
           /\ q \o <<a, b>> = Append(Append(q, a), b)
           /\ q \o <<a, b, c>> = Append(Append(Append(q, a), b), c)
<1>0. q \in Seq(Token) /\ a \in Token /\ b \in Token /\ c \in Token
    OBVIOUS
<1>1. q \o <<a>> = Append(q, a)
    BY ONLY <1>0
<1>2. PICK n \in Nat : n = Len(q)
    BY ONLY <1>0
<1>3. q \o <<a, b>> = Append(Append(q, a), b)
    <2>1. PICK s : s = <<a, b>>
        OBVIOUS
    <2>2. s \in Seq(Token) /\ Len(s) = 2 /\ s[1] = a /\ s[2] = b
        BY ONLY <1>0, <2>1
    <2>3. PICK t : t = q \o s
        OBVIOUS
    <2>4. t \in Seq(Token) /\ Len(t) = n + 2 /\ t[n + 1] = a /\ t[n + 2] = b /\ \A i \in 1 .. n : t[i] = q[i]
        <3>1. q \in Seq(Token) /\ s \in Seq(Token)
            BY <2>2
        <3>2. /\ t \in Seq(Token) /\ Len(t) = Len(q) + Len(s) /\ \A i \in 1 .. Len(q) : t[i] = q[i]
              /\ \A i \in Len(q) + 1 .. Len(q) + Len(s) : t[i] = s[i - Len(q)]
            BY ONLY <2>3, <3>1
        <3>3. /\ n + 1 \in Len(q) + 1 .. Len(q) + Len(s) /\ n + 2 \in Len(q) + 1 .. Len(q) + Len(s)
              /\ (n + 1) - Len(q) = 1 /\ (n + 2) - Len(q) = 2
            BY ONLY <1>2, <2>2
        <3>4. t[n + 1] = s[1] /\ t[n + 2] = s[2]
            BY ONLY <3>2, <3>3
        <3> QED BY ONLY <1>2, <2>2, <3>2, <3>4
    <2>5. PICK x : x = Append(q, a)
        OBVIOUS
    <2>6. x \in Seq(Token) /\ Len(x) = n + 1 /\ x[n + 1] = a /\ \A i \in 1 .. n : x[i] = q[i]
        BY ONLY <1>0, <1>2, <2>5
    <2>7. PICK y : y = Append(x, b)
        OBVIOUS
    <2>8. y \in Seq(Token) /\ Len(y) = n + 2 /\ y[n + 2] = b /\ \A i \in 1 .. n + 1 : y[i] = x[i]
        BY ONLY <1>0, <1>2, <2>6, <2>7
    <2>9. y[n + 1] = a /\ \A i \in 1 .. n : y[i] = q[i]
        BY ONLY <1>2, <2>6, <2>8
    <2>10. \A i \in 1 .. n + 2 : t[i] = y[i]
        BY ONLY <1>2, <2>4, <2>8, <2>9
    <2>11. t = y
        BY ONLY <2>4, <2>8, <2>10
    <2> QED BY <2>1, <2>3, <2>5, <2>7, <2>11
<1>4. <<a, b, c>> = <<a, b>> \o <<c>>
    <2>1. PICK s : s = <<a, b>> \o <<c>>
        OBVIOUS
    <2>2. s = [i \in 1 .. 3 |-> IF i = 1 THEN a ELSE IF i = 2 THEN b ELSE c]
        <3>1. <<a, b>> \in Seq(Token) /\ <<c>> \in Seq(Token)
            BY ONLY <1>0
        <3> QED BY ONLY <1>0, <2>1, <3>1
    <2>3. <<a, b, c>> = [i \in 1 .. 3 |-> IF i = 1 THEN a ELSE IF i = 2 THEN b ELSE c]
        BY ONLY <1>0
    <2> QED BY ONLY <2>1, <2>2, <2>3
<1>5. PICK x : x = Append(Append(q, a), b)
    OBVIOUS
<1>6. x \in Seq(Token) /\ x = q \o <<a, b>>
    <2>1. Append(q, a) \in Seq(Token)
        BY ONLY <1>0
    <2> QED BY <1>0, <1>3, <1>5, <2>1
<1>7. q \o <<a, b, c>> = Append(x, c)
    <2>1. (q \o <<a, b>>) \o <<c>> = q \o (<<a, b>> \o <<c>>)
        <3>1. <<a, b>> \in Seq(Token) /\ <<c>> \in Seq(Token)
            BY ONLY <1>0
        <3>2. PICK s, w : s = <<a, b>> /\ w = <<c>>
            OBVIOUS
        <3>3. (q \o s) \o w = q \o (s \o w)
            <4>1. s \in Seq(Token) /\ w \in Seq(Token)
                BY <3>1, <3>2
            <4> QED BY ONLY <1>0, <4>1, ConcatAssociative
        <3> QED BY <3>2, <3>3
    <2>2. x \o <<c>> = Append(x, c)
        BY ONLY <1>0, <1>6
    <2> QED BY <1>4, <1>6, <2>1, <2>2
<1> QED BY <1>1, <1>3, <1>5, <1>7

\* After a batch was decoded, the model has seen the text up to its end.
LEMMA DecodedIs ==
    ASSUME IndInv, Decoded
    PROVE  /\ pc = "generate" /\ cur \in Conns
           /\ kv' \in Seq(Token) /\ Len(kv') <= NCtx
           /\ Follows(kv', Text, Len(Text))
           /\ failures = 0 => Complete(kv', Text, Len(Text))
<1>0. Types /\ ControlOK /\ ConnsOK /\ TalkOK /\ ToldOK
    BY DEF IndInv
<1>1. pc = "generate" /\ kv' = kv \o batch /\ ~ ContextFull /\ Replying
    BY DEF Decoded, Replying
<1>2. cur \in Conns /\ kv \in Seq(Token) /\ batch \in Seq(Token)
    BY <1>0, <1>1 DEF ControlOK, Types
<1>3. kv' \in Seq(Token) /\ Len(kv') <= NCtx
    <2>1. kv' \in Seq(Token) /\ Len(kv') = Len(kv) + Len(batch) /\ Len(kv) \in Nat /\ Len(batch) \in Nat
        BY ONLY <1>1, <1>2
    <2> QED BY <1>1, <2>1, ServerAssumption DEF ContextFull
<1>4. PICK w : w = Text
    OBVIOUS
<1>5. /\ w \in Seq(Said) /\ IsInjective(w) /\ transcript # << >>
      /\ transcript[Len(transcript)] = Piece(cur, "user", 0)
      /\ Len(w) = Len(transcript) + 1 + Len(response)
      /\ \A k \in 1 .. Len(transcript) : w[k] = transcript[k]
      /\ w[Len(transcript) + 1] = Piece(cur, "reply", 0)
      /\ \A i \in 1 .. Len(response) : w[Len(transcript) + 1 + i] = response[i]
    BY <1>0, <1>1, <1>4, TextIs
<1>6. /\ Len(transcript) \in Nat /\ Len(transcript) >= 1 /\ Len(response) \in Nat
      /\ (response = << >> <=> Len(response) = 0)
    BY <1>0, <1>5 DEF Types
<1>7. Follows(kv, w, SeenLen) /\ (failures = 0 => Complete(kv, w, SeenLen))
    BY <1>0, <1>1, <1>4 DEF TalkOK, CacheOK
<1>8. CASE response = << >>
    <2>1. PICK b \in Nat : b = Len(transcript) - 1
        BY <1>6
    <2>2. SeenLen = b /\ Len(w) = b + 2 /\ Len(transcript) = b + 1 /\ b \in 0 .. Len(w) - 1 /\ b + 1 \in 0 .. Len(w) - 1
        BY <1>1, <1>4, <1>5, <1>6, <1>8, <2>1 DEF SeenLen
    <2>3. PICK u \in Said, r \in Said : u = w[b + 1] /\ r = w[b + 2]
        BY <1>5, <2>2
    <2>4. u = Piece(cur, "user", 0) /\ r = Piece(cur, "reply", 0)
        <3>1. Len(transcript) \in 1 .. Len(transcript) /\ Len(transcript) + 1 = b + 2
            BY <1>6, <2>2
        <3> QED BY <1>5, <2>2, <2>3, <3>1
    <2>5. batch \in {<<u, r>>, <<Bos, u, r>>, <<u, r, Pad>>}
        BY <1>0, <1>1, <1>8, <2>4 DEF TalkOK, BatchOK
    <2>6. u \in Token /\ r \in Token /\ Bos \in Token /\ Pad \in Token
        <3>1. u \in Token /\ r \in Token
            BY <1>2, <2>4, PieceIs
        <3> QED BY <3>1 DEF Token
    <2>7. ASSUME NEW q \in Seq(Token), Follows(q, w, b), failures = 0 => Complete(q, w, b)
          PROVE  /\ Append(Append(q, u), r) \in Seq(Token)
                 /\ Follows(Append(Append(q, u), r), w, b + 2)
                 /\ failures = 0 => Complete(Append(Append(q, u), r), w, b + 2)
        <3>1. PICK x : x = Append(q, u)
            OBVIOUS
        <3>2. x \in Seq(Token)
            BY ONLY <2>6, <2>7, <3>1
        <3>3. Follows(x, w, b + 1) /\ (failures = 0 => Complete(x, w, b + 1))
            BY <1>5, <2>2, <2>3, <2>6, <2>7, <3>1, FollowsOne
        <3>4. PICK c : c = b + 1
            OBVIOUS
        <3>5. Follows(x, w, c) /\ (failures = 0 => Complete(x, w, c)) /\ c \in 0 .. Len(w) - 1
            BY <2>2, <3>3, <3>4
        <3>7. w[c + 1] = r /\ c + 1 = b + 2
            BY <2>3, <3>4
        <3>9. w[c + 1] \in Token
            BY <2>6, <3>7
        <3>6. Follows(Append(x, w[c + 1]), w, c + 1) /\ (failures = 0 => Complete(Append(x, w[c + 1]), w, c + 1))
            BY <1>5, <3>2, <3>5, <3>9, FollowsOne
        <3>8. Append(x, r) \in Seq(Token)
            BY ONLY <2>6, <3>2
        <3> QED BY <3>1, <3>6, <3>7, <3>8
    <2>8. CASE batch = <<u, r>>
        <3>1. kv' = Append(Append(kv, u), r)
            BY <1>1, <1>2, <2>6, <2>8, JoinIs
        <3> QED BY <1>1, <1>2, <1>3, <1>4, <1>7, <2>2, <2>7, <3>1
    <2>9. CASE batch = <<Bos, u, r>>
        <3>1. PICK q : q = Append(kv, Bos)
            OBVIOUS
        <3>2. kv' = Append(Append(q, u), r)
            BY <1>1, <1>2, <2>6, <2>9, <3>1, JoinIs
        <3>3. q \in Seq(Token)
            <4>1. PICK x : x = Bos
                OBVIOUS
            <4>2. x \in Token /\ q = Append(kv, x)
                BY <2>6, <3>1, <4>1
            <4> QED BY ONLY <1>2, <4>2
        <3>4. Follows(q, w, b) /\ (failures = 0 => Complete(q, w, b))
            BY <1>2, <1>5, <1>7, <2>2, <3>1, FollowsNothing
        <3> QED BY <1>1, <1>2, <1>3, <1>4, <2>2, <2>7, <3>2, <3>3, <3>4
    <2>10. CASE batch = <<u, r, Pad>>
        <3>1. PICK q : q = Append(Append(kv, u), r)
            OBVIOUS
        <3>2. kv' = Append(q, Pad)
            BY <1>1, <1>2, <2>6, <2>10, <3>1, JoinIs
        <3>3. q \in Seq(Token) /\ Follows(q, w, b + 2) /\ (failures = 0 => Complete(q, w, b + 2))
            BY <1>2, <1>7, <2>2, <2>7, <3>1
        <3>4. PICK c : c = b + 2
            OBVIOUS
        <3>5. Follows(q, w, c) /\ (failures = 0 => Complete(q, w, c)) /\ c \in 0 .. Len(w) /\ c = Len(w)
            BY <2>2, <3>3, <3>4
        <3>6. Follows(Append(q, Pad), w, c) /\ (failures = 0 => Complete(Append(q, Pad), w, c))
            BY <1>5, <3>3, <3>5, FollowsNothing
        <3> QED BY <1>1, <1>2, <1>3, <1>4, <3>2, <3>5, <3>6
    <2> QED BY <2>5, <2>8, <2>9, <2>10
<1>9. CASE response # << >>
    <2>0. Len(w) - 1 \in Nat
        BY ONLY <1>5, <1>6
    <2>1. PICK b \in Nat : b = Len(w) - 1
        BY ONLY <2>0
    <2>2. SeenLen = b /\ b \in 0 .. Len(w) - 1 /\ Len(w) = b + 1 /\ b + 1 = Len(transcript) + 1 + Len(response)
        BY <1>1, <1>4, <1>5, <1>6, <1>9, <2>1 DEF SeenLen
    <2>3. batch = <<w[b + 1]>>
        <3>1. batch = <<response[Len(response)]>>
            BY <1>0, <1>1, <1>9 DEF TalkOK, BatchOK
        <3>2. Len(response) \in 1 .. Len(response)
            BY <1>6, <1>9
        <3> QED BY <1>5, <2>2, <3>1, <3>2
    <2>4. w[b + 1] \in Token
        <3>1. PICK p : p = w[b + 1]
            OBVIOUS
        <3>2. batch = <<p>> /\ batch \in Seq(Token)
            BY <1>2, <2>3, <3>1
        <3>3. p \in Token
            BY ONLY <3>2
        <3> QED BY <3>1, <3>3
    <2>5. kv' = Append(kv, w[b + 1])
        BY <1>1, <1>2, <2>3, <2>4, JoinIs
    <2>6. /\ Follows(Append(kv, w[b + 1]), w, b + 1)
          /\ failures = 0 => Complete(Append(kv, w[b + 1]), w, b + 1)
        BY <1>2, <1>5, <1>7, <2>2, <2>4, FollowsOne
    <2> QED BY <1>1, <1>2, <1>3, <1>4, <2>2, <2>5, <2>6
<1> QED BY <1>8, <1>9

LEMMA ReplyMore ==
    ASSUME NEW c \in Conns, NEW r \in Seq(Said), ReplyOf(c, r), ~ Tokenless(r),
           NEW p \in {Piece(c, "error", 0), Piece(c, "token", Len(r) + 1)}
    PROVE  /\ Append(r, p) \in Seq(Said) /\ Len(Append(r, p)) = Len(r) + 1 /\ Append(r, p)[Len(r) + 1] = p
           /\ Len(r) \in Nat /\ \A i \in 1 .. Len(r) : Append(r, p)[i] = r[i]
           /\ ReplyOf(c, Append(r, p)) /\ TokensOf(r) = Len(r)
           /\ Tokenless(Append(r, p)) <=> p = Piece(c, "error", 0)
           /\ p = Piece(c, "error", 0) => TokensOf(Append(r, p)) = Len(r)
<1>1. PICK a : a = Append(r, p)
    OBVIOUS
<1>2. p \in Said /\ (p.part = "error" <=> p = Piece(c, "error", 0))
    <2>1. Len(r) + 1 \in Nat
        OBVIOUS
    <2> QED BY <2>1, PieceIs
<1>3. /\ a \in Seq(Said) /\ Len(a) = Len(r) + 1 /\ a[Len(r) + 1] = p /\ Len(r) \in Nat
      /\ \A i \in 1 .. Len(r) : a[i] = r[i]
      /\ DOMAIN a = 1 .. Len(r) + 1 /\ DOMAIN r = 1 .. Len(r)
    <2>1. r \in Seq(Said) /\ p \in Said
        BY <1>2
    <2> QED BY ONLY <1>1, <2>1
<1>4. \A i \in DOMAIN r : r[i] = Piece(c, "token", i)
    <2>1. ASSUME NEW i \in DOMAIN r, i = Len(r) PROVE r[i] # Piece(c, "error", 0)
        <3>1. r # << >> /\ r[Len(r)].part # "error"
            BY <2>1 DEF Tokenless, Last
        <3> QED BY <2>1, <3>1, PieceIs
    <2> QED BY <2>1 DEF ReplyOf
<1>5. ReplyOf(c, a)
    <2>1. ASSUME NEW i \in DOMAIN a
          PROVE  a[i] = Piece(c, "token", i) \/ (i = Len(a) /\ a[i] = Piece(c, "error", 0))
        <3>1. CASE i \in 1 .. Len(r)
            BY <1>3, <1>4, <3>1
        <3>2. CASE i = Len(r) + 1
            BY <1>3, <3>2
        <3> QED BY <1>3, <3>1, <3>2
    <2> QED BY <2>1 DEF ReplyOf
<1>6. Tokenless(a) <=> p.part = "error"
    BY <1>3 DEF Tokenless, Last
<1>7. TokensOf(r) = Len(r)
    BY DEF TokensOf
<1>8. Tokenless(a) => TokensOf(a) = Len(r)
    <2>1. Tokenless(a) => TokensOf(a) = Len(a) - 1
        BY DEF TokensOf
    <2> QED BY ONLY <1>3, <2>1
<1> QED BY <1>1, <1>2, <1>3, <1>5, <1>6, <1>7, <1>8

LEMMA TextGrows ==
    ASSUME IndInv, pc = "generate", pc' \in {"generate", "finish"}, UNCHANGED <<transcript, cur>>,
           response' \in Seq(Said), ReplyOf(cur, response'), Len(response) <= Len(response'),
           \A i \in 1 .. Len(response) : response'[i] = response[i]
    PROVE  /\ Text' \in Seq(Said) /\ IsInjective(Text') /\ Text \in Seq(Said)
           /\ Len(Text') = Len(Text) + Len(response') - Len(response)
           /\ \A k \in 1 .. Len(Text) : Text'[k] = Text[k]
           /\ response' = response => Text' = Text
<1>0. Types /\ ControlOK /\ ConnsOK /\ TalkOK /\ ToldOK
    BY DEF IndInv
<1>1. /\ cur \in Conns /\ transcript \in Seq(Said) /\ IsInjective(transcript) /\ Replying /\ Replying'
      /\ response \in Seq(Said)
    BY <1>0 DEF ControlOK, Types, TalkOK, TranscriptOK, Replying
<1>2. PICK w, v, r : w = Text /\ v = Text' /\ r = response'
    OBVIOUS
<1>3. /\ w \in Seq(Said)
      /\ Len(w) = Len(transcript) + 1 + Len(response)
      /\ \A k \in 1 .. Len(transcript) : w[k] = transcript[k]
      /\ w[Len(transcript) + 1] = Piece(cur, "reply", 0)
      /\ \A i \in 1 .. Len(response) : w[Len(transcript) + 1 + i] = response[i]
    BY <1>0, <1>1, <1>2, TextIs
<1>4. /\ v \in Seq(Said) /\ IsInjective(v) /\ Len(v) = Len(transcript) + 1 + Len(r)
      /\ \A k \in 1 .. Len(transcript) : v[k] = transcript[k]
      /\ v[Len(transcript) + 1] = Piece(cur, "reply", 0)
      /\ \A i \in 1 .. Len(r) : v[Len(transcript) + 1 + i] = r[i]
    <2>1. v = Append(transcript, Piece(cur, "reply", 0)) \o r
        BY <1>1, <1>2 DEF Text
    <2>2. \A k \in DOMAIN transcript : transcript[k].of # cur \/ transcript[k] = Piece(cur, "user", 0)
        BY <1>0, <1>1 DEF TalkOK, TranscriptOK, Replying
    <2>3. r \in Seq(Said) /\ ReplyOf(cur, r)
        BY <1>2
    <2>4. cur \in Conns /\ transcript \in Seq(Said) /\ IsInjective(transcript)
        BY <1>1
    <2> QED BY ONLY <2>1, <2>2, <2>3, <2>4, TurnIs
<1>5. Len(transcript) \in Nat /\ Len(response) \in Nat /\ Len(r) \in Nat /\ Len(response) <= Len(r)
    BY <1>1, <1>2
<1>6. ASSUME NEW k \in 1 .. Len(w) PROVE v[k] = w[k]
    <2>1. CASE k \in 1 .. Len(transcript)
        BY <1>3, <1>4, <2>1
    <2>2. CASE k = Len(transcript) + 1
        BY <1>3, <1>4, <2>2
    <2>3. CASE k > Len(transcript) + 1
        <3>0. k \in Int /\ k - (Len(transcript) + 1) \in Nat
            BY ONLY <1>5, <1>6, <2>3
        <3>1. PICK i \in Nat : i = k - (Len(transcript) + 1)
            BY ONLY <3>0
        <3>2. i \in 1 .. Len(response) /\ i \in 1 .. Len(r) /\ k = Len(transcript) + 1 + i
            BY ONLY <1>3, <1>5, <1>6, <2>3, <3>1
        <3> QED BY <1>2, <1>3, <1>4, <3>2
    <2> QED BY <1>5, <2>1, <2>2, <2>3
<1>7. response' = response => Text' = Text
    BY <1>1 DEF Text
<1>8. Len(v) = Len(w) + Len(r) - Len(response)
    BY ONLY <1>3, <1>4, <1>5
<1> QED BY <1>2, <1>3, <1>4, <1>6, <1>7, <1>8

\* Something is told of the reply, the last of it or not.
LEMMA GenerateInv ==
    ASSUME IndInv, pc = "generate", NEW kind \in EventKinds, NEW text \in Seq(Said),
           NEW next \in {"generate", "finish"}, Tell(kind, text, next),
           UNCHANGED <<conn, req, backlog, model, transcript, prevLen, sock, cur, buffer>>,
           slot' \in {"idle", "processing", "error"}, batch' \in Seq(Token), failures' \in Nat,
           kv' \in Seq(Token), Len(kv') <= NCtx,
           Follows(kv', Text, Len(Text)), failures' = 0 => Complete(kv', Text, Len(Text)),
           response' \in Seq(Said), ReplyOf(cur, response'),
           \A i \in 1 .. Len(response) : response'[i] = response[i],
           next = "generate" => /\ Len(response') = Len(response) + 1 /\ ~ Tokenless(response')
                                /\ response'[Len(response')] = Piece(cur, "token", Len(response'))
                                /\ batch' = <<response'[Len(response')]>>
                                /\ kind = "data" /\ text = <<response'[Len(response')]>>,
           next = "finish" => /\ Len(response') >= Len(response) /\ TokensOf(response') = Len(response)
                              /\ failures' = 0 => response' = response
                              /\ kind \in {"done", "error"} /\ text = << >>
    PROVE  IndInv'
<1>0. Types /\ ControlOK /\ ConnsOK /\ TalkOK /\ ToldOK
    BY DEF IndInv
<1>1. cur \in Conns /\ conn[cur] = "open" /\ sock \in {None, cur} /\ buffer.kind \in {"plain", "stream"}
      /\ sock = (IF buffer.kind = "stream" THEN cur ELSE None) /\ req[cur] # Empty
    <2>1. cur \in Conns /\ conn[cur] = "open" /\ sock \in {None, cur} /\ buffer.kind \in {"plain", "stream"}
          /\ sock = (IF buffer.kind = "stream" THEN cur ELSE None) /\ buffer \in {Empty, req[cur]}
        BY <1>0 DEF ControlOK, Answering
    <2> QED BY <2>1, RequestIs
<1>2. /\ peer' \in [Conns -> Peers] /\ out' \in [Conns -> Seq(Events)]
      /\ \/ pc' = "dead" /\ out' = out
         \/ /\ pc' = next
            /\ out'[cur] = IF sock = None THEN out[cur] ELSE Append(out[cur], Event(kind, text))
            /\ \A d \in Conns \ {cur} : out'[d] = out[d]
    BY <1>0, <1>1, TellIs
<1>3. Types'
    BY <1>0, <1>2 DEF Types, Peers
<1>4. CASE pc' = "dead" /\ out' = out
    BY <1>1, <1>3, <1>4, DeathInv
<1>5. CASE /\ pc' = next
           /\ out'[cur] = IF sock = None THEN out[cur] ELSE Append(out[cur], Event(kind, text))
           /\ \A d \in Conns \ {cur} : out'[d] = out[d]
    <2>1. ControlOK'
        BY <1>0, <1>1, <1>5 DEF ControlOK, Answering
    <2>2. ConnsOK'
        BY <1>0, <1>1, <1>5 DEF ConnsOK
    <2>3. Len(response) \in Nat /\ Len(response') \in Nat /\ Len(response') >= Len(response)
        BY <1>0 DEF Types
    <2>4. Replying /\ Replying' /\ pc' \in {"generate", "finish"}
        BY <1>5 DEF Replying
    <2>5. TranscriptOK'
        BY <1>0, <1>5, <2>4 DEF TalkOK, TranscriptOK, ControlOK
    <2>6. ResponseOK'
        BY <1>5 DEF ResponseOK
    <2>7. BatchOK'
        <3>1. next = "generate" => response' # << >>
            BY <2>3
        <3> QED BY <1>5, <3>1 DEF BatchOK
    <2>8. CacheOK'
        <3>1. /\ Text' \in Seq(Said) /\ IsInjective(Text') /\ Text \in Seq(Said)
              /\ Len(Text') = Len(Text) + Len(response') - Len(response)
              /\ \A k \in 1 .. Len(Text) : Text'[k] = Text[k]
              /\ response' = response => Text' = Text
            BY <2>3, <2>4, TextGrows
        <3>2. PICK w, v, q : w = Text /\ v = Text' /\ q = kv'
            OBVIOUS
        <3>3. Len(w) \in Nat /\ Len(v) \in Nat /\ Len(w) <= Len(v) /\ Len(w) \in 0 .. Len(w)
            BY <2>3, <3>1, <3>2
        <3>4. Follows(q, v, Len(w)) /\ (failures' = 0 => Complete(q, v, Len(w)))
            <4>1. /\ w \in Seq(Said) /\ v \in Seq(Said) /\ IsInjective(v) /\ q \in Seq(Token)
                  /\ \A k \in 1 .. Len(w) : v[k] = w[k]
                  /\ Follows(q, w, Len(w)) /\ (failures' = 0 => Complete(q, w, Len(w)))
                BY <3>1, <3>2
            <4> QED BY <3>3, <4>1, FollowsLonger
        <3>5. CASE next = "generate"
            <4>1. SeenLen' = Len(v) - 1
                <5>1. response' # << >>
                    BY <2>3, <3>5
                <5> QED BY <1>5, <3>2, <3>5, <5>1 DEF SeenLen
            <4>2. SeenLen' = Len(w)
                <5>1. Len(v) = Len(w) + Len(response') - Len(response)
                    BY <3>1, <3>2
                <5>2. Len(response') = Len(response) + 1
                    BY <3>5
                <5> QED BY ONLY <2>3, <3>3, <4>1, <5>1, <5>2
            <4> QED BY <3>2, <3>4, <4>2 DEF CacheOK
        <3>6. CASE next = "finish"
            <4>1. SeenLen' = Len(v)
                BY <1>5, <3>2, <3>3, <3>6 DEF SeenLen
            <4>2. Follows(q, v, Len(v))
                BY <3>3, <3>4, FollowsWithin
            <4>3. failures' = 0 => Complete(q, v, Len(v))
                BY <3>1, <3>2, <3>6
            <4> QED BY <3>2, <4>1, <4>2, <4>3 DEF CacheOK
        <3> QED BY <3>5, <3>6
    <2>9. ToldOK'
        <3>1. CASE buffer.kind = "stream"
            <4>1. PICK o, e, n : o = out[cur] /\ e = Event(kind, text) /\ n = Len(response)
                OBVIOUS
            <4>2. /\ n \in Nat /\ Len(o) = n + 1 /\ o[1] = Event("headers", << >>)
                  /\ \A i \in 1 .. n : o[i + 1] = Event("data", <<Piece(cur, "token", i)>>)
                BY <1>0, <2>3, <3>1, <4>1 DEF ToldOK, Answering, StreamToldOK, Told
            <4>3. e \in Events /\ o \in Seq(Events)
                BY <1>0, <1>1, <4>1 DEF Types, Event, Events
            <4>4. PICK p : p = Append(o, e)
                OBVIOUS
            <4>5. p \in Seq(Events) /\ Len(p) = n + 2 /\ p[n + 2] = e /\ \A i \in 1 .. n + 1 : p[i] = o[i]
                BY ONLY <4>2, <4>3, <4>4
            <4>6. out'[cur] = p
                <5>1. sock # None
                    BY <1>1, <3>1, ServerAssumption
                <5> QED BY <1>5, <4>1, <4>4, <5>1
            <4>7. p[1] = Event("headers", << >>) /\ \A i \in 1 .. n : p[i + 1] = Event("data", <<Piece(cur, "token", i)>>)
                <5>1. 1 \in 1 .. n + 1 /\ \A i \in 1 .. n : i + 1 \in 1 .. n + 1
                    BY ONLY <4>2
                <5> QED BY ONLY <4>2, <4>5, <5>1
            <4>8. CASE next = "generate"
                <5>1. Len(response') = n + 1 /\ e = Event("data", <<Piece(cur, "token", n + 1)>>)
                    BY <4>1, <4>8
                <5>2. \A i \in 1 .. n + 1 : p[i + 1] = Event("data", <<Piece(cur, "token", i)>>)
                    <6>1. \A i \in 1 .. n + 1 : i \in 1 .. n \/ (i = n + 1 /\ i + 1 = n + 2)
                        BY ONLY <4>2
                    <6> QED BY ONLY <4>5, <4>7, <5>1, <6>1
                <5>3. Told(cur, Len(response))' /\ Len(out'[cur]) = Len(response') + 1
                    BY <4>2, <4>5, <4>6, <4>7, <5>1, <5>2 DEF Told
                <5> QED BY <1>5, <3>1, <4>8, <5>3 DEF ToldOK, StreamToldOK
            <4>9. CASE next = "finish"
                <5>1. TokensOf(response') = n /\ e \in {Event("done", << >>), Event("error", << >>)}
                    BY <4>1, <4>9
                <5>2. TokensOf(response)' = n
                    BY <5>1 DEF TokensOf, Tokenless, Last
                <5>3. Told(cur, TokensOf(response))' /\ Len(out'[cur]) = TokensOf(response)' + 2
                    BY <4>2, <4>5, <4>6, <4>7, <5>2 DEF Told
                <5>4. Last(out'[cur]) = e
                    BY <4>2, <4>5, <4>6 DEF Last
                <5>5. StreamToldOK'
                    BY <1>5, <4>9, <5>1, <5>3, <5>4 DEF StreamToldOK, Last
                <5> QED BY <1>5, <3>1, <4>9, <5>5 DEF ToldOK
            <4> QED BY <4>8, <4>9
        <3>2. CASE buffer.kind = "plain"
            <4>1. out'[cur] = << >>
                BY <1>0, <1>1, <1>5, <3>2, ServerAssumption DEF ToldOK, Answering, PlainToldOK
            <4> QED BY <1>5, <3>2, <4>1 DEF ToldOK, PlainToldOK
        <3> QED BY <1>1, <3>1, <3>2
    <2>10. TalkOK'
        BY <2>5, <2>6, <2>7, <2>8 DEF TalkOK
    <2> QED BY <1>3, <2>1, <2>2, <2>9, <2>10 DEF IndInv
<1> QED BY <1>2, <1>4, <1>5

\* What a failure adds to the reply.
LEMMA FailureIs ==
    ASSUME IndInv, pc = "generate", response' = Append(response, Piece(cur, "error", 0)),
           failures' = failures + 1
    PROVE  /\ response' \in Seq(Said) /\ ReplyOf(cur, response') /\ failures' \in Nat /\ failures' # 0
           /\ \A i \in 1 .. Len(response) : response'[i] = response[i]
           /\ Len(response') >= Len(response) /\ TokensOf(response') = Len(response)
<1>1. cur \in Conns /\ response \in Seq(Said) /\ ReplyOf(cur, response) /\ ~ Tokenless(response) /\ failures \in Nat
    BY DEF IndInv, ControlOK, Types, TalkOK, ResponseOK
<1>2. PICK a : a = response'
    OBVIOUS
<1>3. /\ a \in Seq(Said) /\ Len(a) = Len(response) + 1 /\ Len(response) \in Nat
      /\ \A i \in 1 .. Len(response) : a[i] = response[i]
      /\ ReplyOf(cur, a) /\ TokensOf(a) = Len(response)
    BY <1>1, <1>2, ReplyMore
<1>4. Len(a) >= Len(response)
    BY ONLY <1>3
<1>5. failures' \in Nat /\ failures' # 0
    BY <1>1
<1> QED BY <1>2, <1>3, <1>4, <1>5

LEMMA FailInv ==
    ASSUME IndInv, pc = "generate", Failed, slot' \in {"idle", "processing", "error"},
           kv' \in Seq(Token), Len(kv') <= NCtx, Follows(kv', Text, Len(Text))
    PROVE  IndInv'
<1>1. /\ Tell("error", << >>, "finish")
      /\ response' = Append(response, Piece(cur, "error", 0)) /\ failures' = failures + 1
      /\ UNCHANGED <<conn, req, backlog, model, transcript, prevLen, sock, metrics, cur, buffer, batch>>
    BY DEF Failed
<1>2. /\ response' \in Seq(Said) /\ ReplyOf(cur, response') /\ failures' \in Nat /\ failures' # 0
      /\ \A i \in 1 .. Len(response) : response'[i] = response[i]
      /\ Len(response') >= Len(response) /\ TokensOf(response') = Len(response)
    BY <1>1, FailureIs
<1>3. "error" \in EventKinds /\ << >> \in Seq(Said) /\ batch' \in Seq(Token)
    BY <1>1 DEF EventKinds, IndInv, Types
<1> QED BY <1>1, <1>2, <1>3, GenerateInv

LEMMA NothingDecoded ==
    ASSUME IndInv, pc = "generate"
    PROVE  /\ kv \in Seq(Token) /\ Len(kv) <= NCtx /\ slot \in {"idle", "processing", "error"}
           /\ Follows(kv, Text, Len(Text))
<1>1. Text \in Seq(Said) /\ SeenLen \in 0 .. Len(Text)
    BY TextIs DEF IndInv
<1>2. Follows(kv, Text, SeenLen)
    BY DEF IndInv, TalkOK, CacheOK
<1>3. PICK w, n : w = Text /\ n = SeenLen
    OBVIOUS
<1>4. n \in Nat /\ Len(w) \in Nat /\ n <= Len(w) /\ Follows(kv, w, n)
    BY <1>1, <1>2, <1>3
<1>5. Follows(kv, w, Len(w))
    BY <1>4, FollowsWithin
<1> QED BY <1>3, <1>5 DEF IndInv, Types

LEMMA ContextExceededInv == ASSUME IndInv, ContextExceeded PROVE IndInv'
<1>1. pc = "generate" /\ Failed /\ UNCHANGED <<kv, slot>>
    BY DEF ContextExceeded
<1>2. PICK w : w = Text
    OBVIOUS
<1>3. kv \in Seq(Token) /\ Len(kv) <= NCtx /\ slot \in {"idle", "processing", "error"} /\ Follows(kv, w, Len(w))
    BY <1>1, <1>2, NothingDecoded
<1>4. kv' \in Seq(Token) /\ Len(kv') <= NCtx /\ slot' \in {"idle", "processing", "error"} /\ Follows(kv', w, Len(w))
    BY <1>1, <1>3
<1> QED BY <1>1, <1>2, <1>4, FailInv

LEMMA DecodeFailsInv == ASSUME IndInv, DecodeFails PROVE IndInv'
<1>1. pc = "generate" /\ Failed /\ UNCHANGED kv /\ slot' = "error"
    BY DEF DecodeFails
<1>2. PICK w : w = Text
    OBVIOUS
<1>3. kv \in Seq(Token) /\ Len(kv) <= NCtx /\ Follows(kv, w, Len(w))
    BY <1>1, <1>2, NothingDecoded
<1>4. kv' \in Seq(Token) /\ Len(kv') <= NCtx /\ slot' \in {"idle", "processing", "error"} /\ Follows(kv', w, Len(w))
    BY <1>1, <1>3
<1> QED BY <1>1, <1>2, <1>4, FailInv

LEMMA PieceFailsInv == ASSUME IndInv, PieceFails PROVE IndInv'
<1>1. /\ Decoded /\ UNCHANGED <<slot, batch>>
      /\ Tell("error", << >>, "finish")
      /\ response' = Append(response, Piece(cur, "error", 0)) /\ failures' = failures + 1
    BY DEF PieceFails
<1>2. pc = "generate" /\ kv' \in Seq(Token) /\ Len(kv') <= NCtx /\ Follows(kv', Text, Len(Text))
    BY <1>1, DecodedIs
<1>3. Failed
    BY <1>1 DEF Failed, Decoded
<1>4. slot' \in {"idle", "processing", "error"}
    BY <1>1 DEF IndInv, Types
<1> QED BY <1>2, <1>3, <1>4, FailInv

LEMMA NextPieceInv == ASSUME IndInv, NextPiece PROVE IndInv'
<1>1. PICK p : p = Piece(cur, "token", Len(response) + 1)
    OBVIOUS
<1>2. /\ Decoded /\ response' = Append(response, p) /\ Tell("data", <<p>>, "generate")
      /\ batch' = <<p>> /\ UNCHANGED <<slot, failures>>
    BY <1>1 DEF NextPiece, BatchOf
<1>3. /\ pc = "generate" /\ cur \in Conns /\ kv' \in Seq(Token) /\ Len(kv') <= NCtx
      /\ Follows(kv', Text, Len(Text)) /\ (failures = 0 => Complete(kv', Text, Len(Text)))
    BY <1>2, DecodedIs
<1>4. /\ response \in Seq(Said) /\ ReplyOf(cur, response) /\ ~ Tokenless(response) /\ failures \in Nat
      /\ slot \in {"idle", "processing", "error"}
    BY <1>3 DEF IndInv, ControlOK, Types, TalkOK, ResponseOK
<1>5. PICK a : a = response'
    OBVIOUS
<1>6. /\ a \in Seq(Said) /\ Len(a) = Len(response) + 1 /\ a[Len(response) + 1] = p
      /\ \A i \in 1 .. Len(response) : a[i] = response[i]
      /\ ReplyOf(cur, a) /\ ~ Tokenless(a)
    <2>1. p # Piece(cur, "error", 0) /\ Len(response) + 1 \in Nat
        BY <1>1, <1>4 DEF Piece
    <2> QED BY <1>1, <1>2, <1>3, <1>4, <1>5, <2>1, ReplyMore
<1>7. p \in Said /\ p \in Token /\ <<p>> \in Seq(Said) /\ <<p>> \in Seq(Token)
    <2>1. p \in Said /\ p \in Token
        BY <1>1, <1>3, <1>4, PieceIs
    <2> QED BY ONLY <2>1
<1>8. UNCHANGED <<conn, req, backlog, model, transcript, prevLen, sock, cur, buffer>>
    BY <1>2 DEF Decoded
<1>9. "data" \in EventKinds
    BY DEF EventKinds
<1>10. /\ slot' \in {"idle", "processing", "error"} /\ batch' \in Seq(Token) /\ failures' \in Nat
       /\ (failures' = 0 => Complete(kv', Text, Len(Text)))
       /\ response' \in Seq(Said) /\ ReplyOf(cur, response')
       /\ \A i \in 1 .. Len(response) : response'[i] = response[i]
    BY <1>2, <1>3, <1>4, <1>5, <1>6, <1>7
<1>11. /\ Len(response') = Len(response) + 1 /\ ~ Tokenless(response')
       /\ response'[Len(response')] = Piece(cur, "token", Len(response'))
       /\ batch' = <<response'[Len(response')]>> /\ <<p>> = <<response'[Len(response')]>>
    BY <1>1, <1>2, <1>5, <1>6
<1> QED BY <1>2, <1>3, <1>7, <1>8, <1>9, <1>10, <1>11, GenerateInv

LEMMA EndOfReplyInv == ASSUME IndInv, EndOfReply PROVE IndInv'
<1>1. Decoded /\ Tell("done", << >>, "finish") /\ UNCHANGED <<slot, batch, response, failures>>
    BY DEF EndOfReply
<1>2. /\ pc = "generate" /\ cur \in Conns /\ kv' \in Seq(Token) /\ Len(kv') <= NCtx
      /\ Follows(kv', Text, Len(Text)) /\ (failures = 0 => Complete(kv', Text, Len(Text)))
    BY <1>1, DecodedIs
<1>3. /\ response \in Seq(Said) /\ ReplyOf(cur, response) /\ ~ Tokenless(response) /\ failures \in Nat
      /\ slot \in {"idle", "processing", "error"} /\ batch \in Seq(Token)
    BY <1>2 DEF IndInv, ControlOK, Types, TalkOK, ResponseOK
<1>4. UNCHANGED <<conn, req, backlog, model, transcript, prevLen, sock, cur, buffer>>
    BY <1>1 DEF Decoded
<1>5. /\ slot' \in {"idle", "processing", "error"} /\ batch' \in Seq(Token) /\ failures' \in Nat
      /\ (failures' = 0 => Complete(kv', Text, Len(Text)))
      /\ response' \in Seq(Said) /\ ReplyOf(cur, response') /\ response' = response
      /\ Len(response') >= Len(response) /\ TokensOf(response') = Len(response)
      /\ "done" \in EventKinds /\ << >> \in Seq(Said)
    BY <1>1, <1>2, <1>3 DEF TokensOf, Tokenless, Last, EventKinds
<1> QED BY <1>1, <1>2, <1>4, <1>5, GenerateInv

-----------------------------------------------------------------------------
(* The reply is put into the messages.                                     *)

\* The tokens of a reply.
LEMMA RepliedIs ==
    ASSUME NEW c \in Conns, NEW r \in Seq(Said), ReplyOf(c, r)
    PROVE  /\ TokensOf(r) \in 0 .. Len(r)
           /\ \A i \in 1 .. TokensOf(r) : r[i] = Piece(c, "token", i)
           /\ \A i \in DOMAIN r : r[i].part = "token" => i \in 1 .. TokensOf(r)
<1>1. PICK n, l : n = TokensOf(r) /\ l = Len(r)
    OBVIOUS
<1>2. l \in Nat /\ DOMAIN r = 1 .. l
    BY <1>1
<1>3. CASE Tokenless(r)
    <2>1. r # << >> /\ r[l].part = "error" /\ n = l - 1
        BY <1>1, <1>3 DEF Tokenless, TokensOf, Last
    <2>2. l >= 1
        BY <1>1, <2>1
    <2>3. /\ n \in 0 .. l /\ \A i \in 1 .. l : i \in 1 .. n \/ i = l
          /\ \A i \in 1 .. n : i \in 1 .. l /\ i # l
        BY ONLY <1>2, <2>1, <2>2
    <2>4. \A i \in 1 .. n : r[i] = Piece(c, "token", i)
        BY <1>1, <1>2, <2>3 DEF ReplyOf
    <2> QED BY <1>1, <1>2, <2>1, <2>3, <2>4
<1>4. CASE ~ Tokenless(r)
    <2>1. n = l
        BY <1>1, <1>4 DEF TokensOf
    <2>2. ASSUME NEW i \in 1 .. l PROVE r[i] = Piece(c, "token", i)
        <3>1. i = Len(r) => r[i] # Piece(c, "error", 0)
            <4>1. r # << >>
                BY <1>1, <1>2
            <4> QED BY <1>4, <4>1, PieceIs DEF Tokenless, Last
        <3> QED BY <1>2, <3>1 DEF ReplyOf
    <2> QED BY <1>1, <1>2, <2>1, <2>2
<1> QED BY <1>3, <1>4

LEMMA TurnJoin ==
    ASSUME NEW t \in Seq(Said), NEW r \in Said, NEW s \in Seq(Said), NEW e \in Said
    PROVE  t \o (<<r>> \o s \o <<e>>) = Append(Append(t, r) \o s, e)
<1>0. t \in Seq(Said) /\ r \in Said /\ s \in Seq(Said) /\ e \in Said
    OBVIOUS
<1>1. PICK x, y : x = <<r>> /\ y = <<e>>
    OBVIOUS
<1>2. x \in Seq(Said) /\ y \in Seq(Said) /\ t \o x = Append(t, r)
    BY ONLY <1>0, <1>1
<1>3. x \o s \in Seq(Said) /\ t \o x \in Seq(Said)
    BY ONLY <1>0, <1>2
<1>4. t \o ((x \o s) \o y) = (t \o (x \o s)) \o y
    <2>1. PICK a : a = x \o s
        OBVIOUS
    <2>2. t \in Seq(Said) /\ a \in Seq(Said) /\ y \in Seq(Said)
        BY <1>2, <1>3, <2>1
    <2>3. (t \o a) \o y = t \o (a \o y)
        BY ONLY <2>2, ConcatAssociative
    <2> QED BY <2>1, <2>3
<1>5. t \o (x \o s) = (t \o x) \o s
    <2>1. t \in Seq(Said) /\ x \in Seq(Said) /\ s \in Seq(Said)
        BY <1>2
    <2>2. (t \o x) \o s = t \o (x \o s)
        BY ONLY <2>1, ConcatAssociative
    <2> QED BY <2>2
<1>6. PICK z : z = (t \o x) \o s
    OBVIOUS
<1>7. z \o y = Append(z, e)
    <2>1. z \in Seq(Said)
        BY ONLY <1>0, <1>3, <1>6
    <2> QED BY ONLY <1>0, <1>1, <2>1
<1> QED BY <1>1, <1>2, <1>4, <1>5, <1>6, <1>7

\* The tokens of client c in the conversation are those of the reply.
LEMMA FinishedIs ==
    ASSUME IndInv, FinishReply
    PROVE  /\ pc = "finish" /\ cur \in Conns /\ Text \in Seq(Said)
           /\ transcript' \in Seq(Said) /\ Len(transcript') = Len(Text) + 1
           /\ \A k \in 1 .. Len(Text) : /\ transcript'[k] = Text[k] /\ (Text[k].part # "end" \/ Text[k].of # cur)
                                        /\ conn[Text[k].of] \in {"open", "closed"}
           /\ transcript'[Len(Text) + 1] = Piece(cur, "end", 0)
           /\ FirstTokens(cur, transcript', TokensOf(response))
<1>0. Types /\ ControlOK /\ ConnsOK /\ TalkOK /\ ToldOK
    BY DEF IndInv
<1>1. pc = "finish" /\ transcript' = transcript \o Turn /\ Replying
    BY DEF FinishReply, Remember, Replying
<1>2. /\ cur \in Conns /\ conn[cur] = "open" /\ transcript \in Seq(Said) /\ response \in Seq(Said)
      /\ ReplyOf(cur, response)
    BY <1>0, <1>1 DEF ControlOK, Types, TalkOK, ResponseOK
<1>3. PICK r \in Said, e \in Said : r = Piece(cur, "reply", 0) /\ e = Piece(cur, "end", 0)
    BY <1>2, PieceIs
<1>4. PICK w : w = Text
    OBVIOUS
<1>5. /\ w \in Seq(Said) /\ w = Append(transcript, Piece(cur, "reply", 0)) \o response
      /\ Len(w) = Len(transcript) + 1 + Len(response)
      /\ \A k \in 1 .. Len(transcript) : w[k] = transcript[k]
      /\ w[Len(transcript) + 1] = Piece(cur, "reply", 0)
      /\ \A i \in 1 .. Len(response) : w[Len(transcript) + 1 + i] = response[i]
    BY <1>0, <1>1, <1>4, TextIs
<1>6. PICK v : v = transcript'
    OBVIOUS
<1>7. v = Append(w, e)
    <2>1. Turn = <<r>> \o response \o <<e>>
        BY <1>3 DEF Turn
    <2>2. transcript \o (<<r>> \o response \o <<e>>) = Append(Append(transcript, r) \o response, e)
        BY ONLY <1>2, TurnJoin
    <2>3. w = Append(transcript, r) \o response
        BY <1>3, <1>5
    <2> QED BY <1>1, <1>6, <2>1, <2>2, <2>3
<1>8. /\ v \in Seq(Said) /\ Len(v) = Len(w) + 1 /\ v[Len(w) + 1] = e /\ \A k \in 1 .. Len(w) : v[k] = w[k]
      /\ DOMAIN v = 1 .. Len(w) + 1
    <2>1. w \in Seq(Said) /\ e \in Said
        BY <1>5
    <2> QED BY ONLY <1>7, <2>1
<1>9. Len(transcript) \in Nat /\ Len(response) \in Nat /\ DOMAIN response = 1 .. Len(response)
    BY <1>2
<1>10. ASSUME NEW k \in 1 .. Len(w)
       PROVE  \/ k \in 1 .. Len(transcript)
              \/ k = Len(transcript) + 1
              \/ \E i \in 1 .. Len(response) : k = Len(transcript) + 1 + i
    <2>1. CASE k > Len(transcript) + 1
        <3>1. k \in Int /\ k - (Len(transcript) + 1) \in 1 .. Len(response)
            BY ONLY <1>5, <1>9, <1>10, <2>1
        <3>2. k = Len(transcript) + 1 + (k - (Len(transcript) + 1))
            BY ONLY <1>9, <3>1
        <3> QED BY <3>1, <3>2
    <2> QED BY <1>9, <2>1
<1>11. ASSUME NEW k \in 1 .. Len(transcript)
       PROVE  /\ transcript[k].of # cur \/ transcript[k].part = "user"
              /\ conn[transcript[k].of] \in {"open", "closed"}
    <2>1. k \in DOMAIN transcript
        BY <1>2
    <2> QED BY <1>0, <1>1, <1>2, <2>1, PieceIs DEF TalkOK, TranscriptOK
<1>12. ASSUME NEW k \in 1 .. Len(w)
       PROVE  /\ w[k].part # "end" \/ w[k].of # cur
              /\ conn[w[k].of] \in {"open", "closed"}
    <2>1. CASE k \in 1 .. Len(transcript)
        BY <1>5, <1>11, <2>1
    <2>2. CASE k = Len(transcript) + 1
        BY <1>2, <1>5, <2>2, PieceIs
    <2>3. CASE \E i \in 1 .. Len(response) : k = Len(transcript) + 1 + i
        <3>1. PICK i \in 1 .. Len(response) : k = Len(transcript) + 1 + i
            BY <2>3
        <3>2. w[k] = response[i] /\ i \in DOMAIN response
            BY <1>5, <1>9, <3>1
        <3>3. response[i].of = cur /\ response[i].part \in {"token", "error"}
            BY ONLY <1>2, <3>2, ReplyIs
        <3> QED BY <1>2, <3>2, <3>3
    <2> QED BY <1>10, <2>1, <2>2, <2>3
<1>13. PICK n, m : n = TokensOf(response) /\ m = Len(transcript) + 1
    OBVIOUS
<1>14. /\ n \in Nat /\ n <= Len(response) /\ m \in Nat
       /\ \A i \in 1 .. n : i \in 1 .. Len(response) /\ response[i] = Piece(cur, "token", i)
       /\ \A i \in 1 .. Len(response) : response[i].part = "token" => i \in 1 .. n
    <2>1. /\ n \in 0 .. Len(response)
          /\ \A i \in 1 .. n : response[i] = Piece(cur, "token", i)
          /\ \A i \in DOMAIN response : response[i].part = "token" => i \in 1 .. n
        BY <1>2, <1>13, RepliedIs
    <2> QED BY <1>9, <1>13, <2>1
<1>15. FirstTokens(cur, v, n)
    <2>1. m + n <= Len(v)
        BY ONLY <1>5, <1>8, <1>9, <1>13, <1>14
    <2>2. ASSUME NEW i \in 1 .. n PROVE v[m + i] = Piece(cur, "token", i)
        <3>1. m + i \in 1 .. Len(w)
            BY ONLY <1>5, <1>9, <1>13, <1>14, <2>2
        <3>2. w[m + i] = response[i]
            BY <1>5, <1>13, <1>14
        <3> QED BY <1>8, <1>14, <3>1, <3>2
    <2>3. ASSUME NEW k \in DOMAIN v, v[k].of = cur, v[k].part = "token" PROVE k \in m + 1 .. m + n
        <3>1. k # Len(w) + 1
            <4>1. e.part = "end"
                BY <1>2, <1>3, PieceIs
            <4> QED BY <1>8, <2>3, <4>1
        <3>2. k \in 1 .. Len(w) /\ v[k] = w[k]
            <4>1. Len(w) \in Nat /\ k \in 1 .. Len(w) + 1
                BY <1>5, <1>8, <2>3
            <4>2. k \in 1 .. Len(w)
                BY ONLY <3>1, <4>1
            <4> QED BY <1>8, <4>2
        <3>3. k \notin 1 .. Len(transcript)
            BY <1>5, <1>11, <2>3, <3>2
        <3>4. k # Len(transcript) + 1
            BY <1>2, <1>5, <2>3, <3>2, PieceIs
        <3>5. PICK i \in 1 .. Len(response) : k = Len(transcript) + 1 + i
            BY <1>10, <3>2, <3>3, <3>4
        <3>6. w[k] = response[i]
            BY <1>5, <3>5
        <3>7. i \in 1 .. n
            BY <1>14, <2>3, <3>2, <3>6
        <3> QED BY ONLY <1>9, <1>13, <1>14, <3>5, <3>7
    <2> QED BY <1>2, <1>8, <1>14, <2>1, <2>2, <2>3, FirstTokensIn
<1> QED BY <1>1, <1>2, <1>3, <1>4, <1>5, <1>6, <1>8, <1>12, <1>13, <1>15

LEMMA FinishReplyInv == ASSUME IndInv, FinishReply PROVE IndInv'
<1>0. Types /\ ControlOK /\ ConnsOK /\ TalkOK /\ ToldOK
    BY DEF IndInv
<1>1. /\ pc = "finish" /\ pc' = "reply" /\ prevLen' = Len(transcript') /\ slot' = "idle"
      /\ UNCHANGED <<clientVars, out, model, kv, sock, cur, buffer, batch, response, failures>>
    BY DEF FinishReply, Remember
<1>2. PICK w, v : w = Text /\ v = transcript'
    OBVIOUS
<1>3. /\ cur \in Conns /\ w \in Seq(Said) /\ v \in Seq(Said) /\ Len(v) = Len(w) + 1
      /\ \A k \in 1 .. Len(w) : /\ v[k] = w[k] /\ (w[k].part # "end" \/ w[k].of # cur)
                                /\ conn[w[k].of] \in {"open", "closed"}
      /\ v[Len(w) + 1] = Piece(cur, "end", 0)
      /\ FirstTokens(cur, v, TokensOf(response))
    BY <1>2, FinishedIs
<1>4. IsInjective(w) /\ Replying
    BY <1>0, <1>1, <1>2, TextIs DEF Replying
<1>5. /\ Len(w) \in Nat /\ DOMAIN v = 1 .. Len(w) + 1 /\ DOMAIN w = 1 .. Len(w)
      /\ \A k \in DOMAIN v : k \in 1 .. Len(w) \/ k = Len(w) + 1
    BY <1>3
<1>6. conn[cur] = "open" /\ buffer.kind \in {"plain", "stream"} /\ model.template
    BY <1>0, <1>1 DEF ControlOK, Answering
<1>7. Types'
    <2>1. prevLen' \in 0 .. Len(transcript')
        BY <1>1, <1>2, <1>3, <1>5
    <2> QED BY <1>0, <1>1, <1>2, <1>3, <2>1 DEF Types, clientVars
<1>8. ControlOK'
    BY <1>0, <1>1, <1>3 DEF ControlOK, Answering, clientVars
<1>9. ConnsOK'
    BY <1>0, <1>1 DEF ConnsOK, clientVars
<1>10. \A k \in 1 .. Len(w) : v[k] # Piece(cur, "end", 0)
    BY <1>3, PieceIs
<1>11. IsInjective(v)
    <2>1. ASSUME NEW i \in DOMAIN v, NEW j \in DOMAIN v, i # j PROVE v[i] # v[j]
        <3>1. (i \in 1 .. Len(w) \/ i = Len(w) + 1) /\ (j \in 1 .. Len(w) \/ j = Len(w) + 1)
            BY <1>5
        <3> QED BY <1>3, <1>4, <1>5, <1>10, <2>1, <3>1 DEF IsInjective
    <2> QED BY <2>1 DEF IsInjective
<1>12. TranscriptOK'
    <2>1. \A k \in DOMAIN v : conn[v[k].of] \in {"open", "closed"}
        BY <1>3, <1>5, <1>6, PieceIs
    <2>2. ~ Replying' /\ pc' \notin {"recv", "handle", "prompt"}
        BY <1>1 DEF Replying
    <2>3. prevLen' = Len(transcript') - 0
        BY <1>1, <1>2, <1>3, <1>5
    <2> QED BY <1>1, <1>2, <1>6, <1>11, <2>1, <2>2, <2>3 DEF TranscriptOK, clientVars
<1>13. ResponseOK' /\ BatchOK'
    BY <1>0, <1>1 DEF TalkOK, ResponseOK, BatchOK
<1>14. CacheOK'
    <2>1. Text' = v /\ SeenLen' = Len(w) + 1
        BY <1>1, <1>2, <1>3, <1>5 DEF Text, SeenLen, Replying
    <2>2. Follows(kv, w, Len(w)) /\ (failures = 0 => Complete(kv, w, Len(w)))
        <3>1. CacheOK /\ SeenLen = Len(w)
            BY <1>0, <1>1, <1>2, <1>5 DEF TalkOK, SeenLen
        <3> QED BY <1>2, <3>1 DEF CacheOK
    <2>3. Follows(kv, v, Len(w)) /\ (failures = 0 => Complete(kv, v, Len(w)))
        <3>1. kv \in Seq(Token) /\ Len(w) <= Len(v) /\ Len(w) \in 0 .. Len(w)
            BY <1>0, <1>3, <1>5 DEF Types
        <3> QED BY <1>3, <1>11, <2>2, <3>1, FollowsLonger
    <2>4. Follows(kv, v, Len(w) + 1)
        BY <1>5, <2>3, FollowsWithin
    <2>5. failures = 0 => Complete(kv, v, Len(w) + 1)
        <3>1. v[Len(w) + 1].part = "end"
            BY <1>3, PieceIs
        <3>2. \A k \in 1 .. Len(w) + 1 : k \in 1 .. Len(w) \/ k = Len(w) + 1
            BY <1>5
        <3> QED BY <2>3, <3>1, <3>2 DEF Complete
    <2> QED BY <1>1, <2>1, <2>4, <2>5 DEF CacheOK
<1>15. FirstTokens(cur, transcript, TokensOf(response))'
    <2>1. TokensOf(response)' = TokensOf(response)
        BY <1>1 DEF TokensOf, Tokenless, Last
    <2> QED BY <1>1, <1>2, <1>3, <2>1
<1>16. ToldOK'
    <2>1. CASE buffer.kind = "stream"
        <3>1. PICK o, n : o = out[cur] /\ n = TokensOf(response)
            OBVIOUS
        <3>2. /\ Told(cur, n) /\ Len(o) = n + 2
              /\ Last(o) \in {Event("done", << >>), Event("error", << >>)}
            BY <1>0, <1>1, <2>1, <3>1 DEF ToldOK, Answering, StreamToldOK
        <3>3. n \in Nat
            BY <1>0, <3>1 DEF TokensOf, Tokenless, Types
        <3>4. \A i \in n + 2 .. Len(o) : o[i].text = << >>
            <4>1. \A i \in n + 2 .. Len(o) : i = Len(o)
                BY ONLY <3>2, <3>3
            <4>2. o[Len(o)].text = << >>
                BY <3>2 DEF Last, Event
            <4> QED BY <4>1, <4>2
        <3>5. TokensOf(response)' = n /\ out'[cur] = o
            BY <1>1, <3>1 DEF TokensOf, Tokenless, Last
        <3>6. Told(cur, n)'
            BY <1>1, <3>2 DEF Told
        <3>7. StreamToldOK'
            BY <1>1, <3>4, <3>5, <3>6 DEF StreamToldOK, Told
        <3> QED BY <1>1, <1>15, <2>1, <3>7 DEF ToldOK
    <2>2. CASE buffer.kind = "plain"
        <3>1. out[cur] = << >>
            BY <1>0, <1>1, <2>2 DEF ToldOK, Answering, PlainToldOK
        <3> QED BY <1>1, <1>15, <2>2, <3>1 DEF ToldOK, PlainToldOK
    <2> QED BY <1>6, <2>1, <2>2
<1>17. TalkOK'
    BY <1>12, <1>13, <1>14 DEF TalkOK
<1> QED BY <1>7, <1>8, <1>9, <1>16, <1>17 DEF IndInv

LEMMA StutterInv == ASSUME IndInv, UNCHANGED vars PROVE IndInv'
<1>0. Types /\ ControlOK /\ ConnsOK /\ TalkOK /\ ToldOK
    BY DEF IndInv
<1>1. UNCHANGED <<conn, peer, req, backlog, out, model, transcript, prevLen, kv, sock, slot, metrics,
                  pc, cur, buffer, batch, response, failures>>
    BY DEF vars, clientVars, chatVars
<1>2. Types' /\ ControlOK' /\ ConnsOK'
    BY <1>0, <1>1 DEF Types, ControlOK, Answering, ConnsOK
<1>3. TalkOK' /\ ToldOK'
    BY <1>0, <1>1, TalkStays, ToldStays DEF talkVars
<1> QED BY <1>2, <1>3 DEF IndInv

LEMMA NextInv == IndInv /\ [Next]_vars => IndInv'
<1> SUFFICES ASSUME IndInv, [Next]_vars PROVE IndInv'
    OBVIOUS
<1>1. ASSUME NEW c \in Conns, Client(c) PROVE IndInv'
    BY <1>1, ConnectInv, SendRequestInv, LeaveInv DEF Client
<1>2. CASE Server
    BY <1>2, AcceptInv, RecvInv, HandleNothingInv, HandleSimpleInv, HandlePlainInv, HandleStreamInv,
       StartReplyInv, NoTemplateInv, ContextExceededInv, DecodeFailsInv, PieceFailsInv, NextPieceInv,
       EndOfReplyInv, FinishReplyInv, ReplyStreamInv, ReplyPlainInv, CloseInv DEF Server
<1>3. CASE Restart
    BY <1>3, RestartInv
<1>4. CASE UNCHANGED vars
    BY <1>4, StutterInv
<1> QED BY <1>1, <1>2, <1>3, <1>4 DEF Next

\* The thread, the connections, the conversation, the cache and what was told
\* are always as IndInv says, whatever the clients do and whatever fails.
THEOREM Invariance == Spec => []IndInv
<1> QED BY InitInv, NextInv, PTL DEF Spec

\* The variables keep their types: the cache fits into the context, prev_len
\* never points behind the conversation, and client_socket is the client that is
\* served or none.
THEOREM TypeCorrect == Spec => []TypeOK
<1>1. IndInv => TypeOK
    <2> SUFFICES ASSUME IndInv PROVE TypeOK
        OBVIOUS
    <2>1. sock \in {None, cur}
        BY DEF IndInv, ControlOK
    <2> QED BY <2>1 DEF IndInv, Types, TypeOK
<1> QED BY <1>1, Invariance, PTL

\* Whatever failed and whoever left: what the model has seen is a part of the
\* conversation, in its order and each piece once.
THEOREM CacheInOrder == Spec => []KvInOrder
<1>1. IndInv => KvInOrder
    <2> SUFFICES ASSUME IndInv, pc # "dead", NEW i \in SaidIn(kv)
                 PROVE  \E k \in DOMAIN Text :
                            /\ Text[k] = kv[i]
                            /\ \A j \in SaidIn(kv) : j < i =>
                                  kv[j] # kv[i] /\ \E l \in 1 .. k - 1 : Text[l] = kv[j]
        BY DEF KvInOrder
    <2>1. PICK w, b : w = Text /\ b = SeenLen
        OBVIOUS
    <2>2. w \in Seq(Said) /\ b \in 0 .. Len(w)
        BY <2>1, TextIs DEF IndInv
    <2>3. Follows(kv, w, b)
        BY <2>1 DEF IndInv, TalkOK, CacheOK
    <2>4. Len(w) \in Nat /\ DOMAIN w = 1 .. Len(w) /\ \A k \in 1 .. b : k \in DOMAIN w
        BY <2>2
    <2>5. \A j \in SaidIn(kv) : \E k \in 1 .. b : w[k] = kv[j]
        BY <2>3 DEF Follows
    <2>6. PICK k \in 1 .. b : w[k] = kv[i]
        BY <2>5
    <2>7. ASSUME NEW j \in SaidIn(kv), j < i
          PROVE  kv[j] # kv[i] /\ \E l \in 1 .. k - 1 : w[l] = kv[j]
        <3>1. PICK l \in 1 .. b : w[l] = kv[j]
            BY <2>5
        <3>2. l < k
            BY <2>3, <2>4, <2>6, <2>7, <3>1 DEF Follows
        <3>3. kv[j] # kv[i]
            <4>1. SUFFICES ASSUME kv[j] = kv[i] PROVE FALSE
                OBVIOUS
            <4>2. k < k
                BY <2>3, <2>4, <2>6, <2>7, <4>1 DEF Follows
            <4> QED BY <4>2, <2>2
        <3>4. l \in 1 .. k - 1
            BY <2>2, <3>2
        <3> QED BY <3>1, <3>3, <3>4
    <2> QED BY <2>1, <2>4, <2>6, <2>7
<1> QED BY <1>1, Invariance, PTL

\* As long as no request failed, the model has seen, when the next connection is
\* accepted, all of the conversation but the ends of its turns.
THEOREM CacheIsComplete == Spec => []KvComplete
<1>1. IndInv => KvComplete
    <2> SUFFICES ASSUME IndInv, pc = "accept", failures = 0
                 PROVE  {kv[i] : i \in SaidIn(kv)} = {p \in ToSet(transcript) : p.part # "end"}
        BY DEF KvComplete
    <2>1. PICK w : w = transcript
        OBVIOUS
    <2>2. Text = w /\ SeenLen = Len(w) /\ w \in Seq(Said) /\ kv \in Seq(Token)
        BY <2>1, TextIs DEF IndInv, Replying, Types
    <2>3. Follows(kv, w, Len(w)) /\ Complete(kv, w, Len(w))
        BY <2>2 DEF IndInv, TalkOK, CacheOK
    <2>4. DOMAIN w = 1 .. Len(w)
        BY <2>2
    <2>5. ASSUME NEW i \in SaidIn(kv) PROVE kv[i] \in ToSet(w) /\ kv[i].part # "end"
        <3>1. \E k \in 1 .. Len(w) : w[k] = kv[i]
            BY <2>3 DEF Follows
        <3>2. kv[i] \in Token /\ kv[i] \notin {Bos, Pad}
            BY <2>2 DEF SaidIn
        <3> QED BY <2>4, <3>1, <3>2 DEF ToSet, Token
    <2>6. ASSUME NEW k \in DOMAIN w, w[k].part # "end" PROVE \E i \in SaidIn(kv) : kv[i] = w[k]
        BY <2>3, <2>4, <2>6 DEF Complete
    <2> QED BY <2>1, <2>5, <2>6 DEF ToSet
<1> QED BY <1>1, Invariance, PTL

\* A client is sent something only while its own request is handled.
THEOREM EventsOnlyToRequester == Spec => EventsGoToRequester
<1>1. IndInv /\ [Next]_vars => [\A c \in Conns : out'[c] # out[c] => c = cur]_vars
    <2> SUFFICES ASSUME IndInv, Next, NEW c \in Conns, out'[c] # out[c] PROVE c = cur
        BY DEF vars
    <2>1. CASE out' = out
        BY <2>1
    <2>2. ASSUME NEW k, NEW t, NEW n, Send(cur, k, t, n) PROVE out' = out \/ c = cur
        <3>1. CASE peer[cur] = "gone"
            BY <2>2, <3>1 DEF Send
        <3>2. CASE peer[cur] # "gone"
            <4>1. out' = [out EXCEPT ![cur] = Append(@, Event(k, t))]
                BY <2>2, <3>2 DEF Send
            <4>2. out \in [Conns -> Seq(Events)]
                BY DEF IndInv, Types
            <4> QED BY <4>1, <4>2
        <3> QED BY <3>1, <3>2
    <2>3. ASSUME NEW k, NEW t, NEW n, Tell(k, t, n), pc = "generate" PROVE out' = out \/ c = cur
        <3>1. sock \in {None, cur}
            BY <2>3 DEF IndInv, ControlOK
        <3> QED BY <2>2, <2>3, <3>1 DEF Tell
    <2>4. CASE Restart \/ \E d \in Conns : Client(d)
        BY <2>1, <2>4 DEF Restart, Client, Connect, SendRequest, Leave
    <2>5. CASE Accept \/ Recv \/ HandleNothing \/ HandlePlain \/ StartReply \/ NoTemplate \/ FinishReply
               \/ ReplyStream \/ Close
        BY <2>1, <2>5 DEF Accept, Recv, HandleNothing, HandlePlain, StartReply, NoTemplate, FinishReply,
                          ReplyStream, Close
    <2>6. CASE HandleSimple \/ HandleStream \/ ReplyPlain
        BY <2>1, <2>2, <2>6 DEF HandleSimple, HandleStream, ReplyPlain
    <2>7. CASE ContextExceeded \/ DecodeFails \/ PieceFails \/ NextPiece \/ EndOfReply
        BY <2>1, <2>3, <2>7 DEF ContextExceeded, DecodeFails, PieceFails, NextPiece, EndOfReply, Failed, Decoded
    <2> QED BY <2>4, <2>5, <2>6, <2>7 DEF Next, Server
<1> QED BY <1>1, Invariance, PTL DEF Spec, EventsGoToRequester

\* The tokens a client was sent are those the messages keep as the reply, in
\* their order, also when the reply ends in an error: all of them if the reply
\* was streamed, and as many as there is room for if it was not.
THEOREM ReplyIsKept == Spec => []ReplyIsRemembered
<1>1. IndInv => ReplyIsRemembered
    <2> SUFFICES ASSUME IndInv, pc = "close", buffer.kind \in {"plain", "stream"}
                 PROVE  \E n \in 0 .. Len(response) :
                            /\ FirstTokens(cur, transcript, n)
                            /\ IF buffer.kind = "plain"
                               THEN \A i \in DOMAIN out[cur] : FirstTokens(cur, out[cur][i].text, Least(n, PlainMax))
                               ELSE /\ 2 .. n + 1 \subseteq DOMAIN out[cur]
                                    /\ \A i \in DOMAIN out[cur] :
                                          out[cur][i].text = IF i \in 2 .. n + 1 THEN <<Piece(cur, "token", i - 1)>>
                                                                                 ELSE << >>
        BY DEF ReplyIsRemembered
    <2>1. PICK n : n = TokensOf(response)
        OBVIOUS
    <2>2. cur \in Conns /\ response \in Seq(Said) /\ ReplyOf(cur, response) /\ FirstTokens(cur, transcript, n)
          /\ out[cur] \in Seq(Events)
        BY <2>1 DEF IndInv, ControlOK, Types, TalkOK, ResponseOK, ToldOK
    <2>3. /\ n \in 0 .. Len(response)
          /\ \A i \in 1 .. n : response[i] = Piece(cur, "token", i)
          /\ \A i \in DOMAIN response : response[i].part = "token" => i \in 1 .. n
        BY <2>1, <2>2, RepliedIs
    <2>4. CASE buffer.kind = "plain"
        <3>1. out[cur] = <<Event("response", Fitting)>>
            BY <2>4 DEF IndInv, ToldOK, PlainToldOK
        <3>2. PICK k : k = Least(n, PlainMax)
            OBVIOUS
        <3>3. /\ Fitting \in Seq(Said) /\ k \in Nat /\ k <= n /\ k <= Len(Fitting)
              /\ \A i \in 1 .. Len(Fitting) : Fitting[i] = response[i] /\ i \in 1 .. Len(response)
              /\ \A i \in 1 .. Len(Fitting) : i <= n => i <= k
            BY <2>2, <2>3, <3>2, FittingIs, ServerAssumption DEF Least
        <3>4. FirstTokens(cur, Fitting, k)
            <4>1. PICK m : m = 0
                OBVIOUS
            <4>2. m \in Nat /\ m + k <= Len(Fitting) /\ \A i \in 1 .. k : m + i = i
                BY <3>3, <4>1
            <4>3. ASSUME NEW i \in 1 .. k PROVE Fitting[m + i] = Piece(cur, "token", i)
                <5>1. i \in 1 .. n /\ i \in 1 .. Len(Fitting) /\ m + i = i
                    BY <2>3, <3>3, <4>2
                <5> QED BY <2>3, <3>3, <5>1
            <4>4. \A i \in DOMAIN Fitting :
                      Fitting[i].of = cur /\ Fitting[i].part = "token" => i \in m + 1 .. m + k
                BY <2>2, <2>3, <3>3, <4>1
            <4> QED BY <2>2, <3>3, <4>2, <4>3, <4>4, FirstTokensIn
        <3>5. \A i \in DOMAIN out[cur] : out[cur][i].text = Fitting
            BY <3>1 DEF Event
        <3> QED BY <2>2, <2>3, <2>4, <3>2, <3>4, <3>5
    <2>5. CASE buffer.kind = "stream"
        <3>1. Told(cur, n) /\ \A i \in n + 2 .. Len(out[cur]) : out[cur][i].text = << >>
            BY <2>1, <2>5 DEF IndInv, ToldOK, StreamToldOK
        <3>2. PICK o : o = out[cur]
            OBVIOUS
        <3>3. /\ n \in Nat /\ Len(o) \in Nat /\ n + 1 <= Len(o) /\ DOMAIN o = 1 .. Len(o) /\ o[1].text = << >>
              /\ \A i \in 1 .. n : o[i + 1].text = <<Piece(cur, "token", i)>>
              /\ \A i \in n + 2 .. Len(o) : o[i].text = << >>
            <4>1. n \in Nat /\ o \in Seq(Events)
                BY <2>2, <2>3, <3>2
            <4>2. n + 1 <= Len(o) /\ o[1] = Event("headers", << >>)
                  /\ \A i \in 1 .. n : o[i + 1] = Event("data", <<Piece(cur, "token", i)>>)
                BY <3>1, <3>2 DEF Told
            <4>3. o[1].text = << >> /\ \A i \in 1 .. n : o[i + 1].text = <<Piece(cur, "token", i)>>
                <5>1. ASSUME NEW t, NEW k PROVE Event(k, t).text = t
                    BY DEF Event
                <5>2. o[1].text = << >>
                    BY <4>2, <5>1
                <5>3. ASSUME NEW i \in 1 .. n PROVE o[i + 1].text = <<Piece(cur, "token", i)>>
                    <6>1. o[i + 1] = Event("data", <<Piece(cur, "token", i)>>)
                        BY <4>2
                    <6> QED BY <5>1, <6>1
                <5> QED BY <5>2, <5>3
            <4>4. \A i \in n + 2 .. Len(o) : o[i].text = << >>
                BY <3>1, <3>2
            <4>5. Len(o) \in Nat /\ DOMAIN o = 1 .. Len(o)
                BY ONLY <4>1
            <4> QED BY ONLY <4>1, <4>2, <4>3, <4>4, <4>5
        <3>4. ASSUME NEW i \in DOMAIN o
              PROVE  o[i].text = IF i \in 2 .. n + 1 THEN <<Piece(cur, "token", i - 1)>> ELSE << >>
            <4>1. CASE i \in 2 .. n + 1
                <5>1. i - 1 \in 1 .. n /\ (i - 1) + 1 = i
                    BY ONLY <3>3, <4>1
                <5>2. o[(i - 1) + 1].text = <<Piece(cur, "token", i - 1)>>
                    BY <3>3, <5>1
                <5> QED BY <4>1, <5>1, <5>2
            <4>2. CASE i \notin 2 .. n + 1
                <5>1. i = 1 \/ i \in n + 2 .. Len(o)
                    BY ONLY <3>3, <3>4, <4>2
                <5> QED BY <3>3, <4>2, <5>1
            <4> QED BY <4>1, <4>2
        <3>5. 2 .. n + 1 \subseteq DOMAIN o
            BY ONLY <3>3
        <3> QED BY <2>2, <2>3, <2>5, <3>2, <3>4, <3>5
    <2> QED BY <2>4, <2>5
<1> QED BY <1>1, Invariance, PTL

-----------------------------------------------------------------------------
(* The stream of one client.                                               *)

StreamStep(c) == [Stream(c)!Next]_<<StreamTo(c), model>>

\* The parts of StreamTo.
Sent(c) == IF req[c].kind # "stream" THEN << >> ELSE [i \in 1 .. Len(out[c]) |-> out[c][i].kind]
Lost(c) == conn[c] = "closed" \/ (pc = "dead" /\ conn[c] # "new")
Finished(c) == cur # c \/ pc \in {"reply", "close"} \/ Sent(c)[Len(Sent(c))] \in {"done", "error"}
Line(c) == IF Lost(c) THEN "closed"
           ELSE IF Sent(c) = << >> THEN "none" ELSE IF Finished(c) THEN "over" ELSE "open"

LEMMA StreamIs ==
    ASSUME NEW c \in Conns PROVE StreamTo(c) = [sent |-> Sent(c), line |-> Line(c)]
<1>1. PICK s, l, f : s = Sent(c) /\ l = Lost(c) /\ f = Finished(c) /\ l \in BOOLEAN /\ f \in BOOLEAN
    BY DEF Lost, Finished
<1>2. Line(c) = IF l THEN "closed" ELSE IF s = << >> THEN "none" ELSE IF f THEN "over" ELSE "open"
    BY <1>1 DEF Line
<1>3. StreamTo(c) = [sent |-> s, line |-> CASE l -> "closed"
                                            [] ~ l /\ s = << >> -> "none"
                                            [] ~ l /\ s # << >> -> IF f THEN "over" ELSE "open"]
    BY <1>1 DEF StreamTo, Sent, Lost, Finished
<1> QED BY <1>1, <1>2, <1>3

LEMMA StreamWillBe ==
    ASSUME NEW c \in Conns PROVE StreamTo(c)' = [sent |-> Sent(c)', line |-> Line(c)']
<1>1. PICK s, l, f : s = Sent(c)' /\ l = Lost(c)' /\ f = Finished(c)' /\ l \in BOOLEAN /\ f \in BOOLEAN
    BY DEF Lost, Finished
<1>2. Line(c)' = IF l THEN "closed" ELSE IF s = << >> THEN "none" ELSE IF f THEN "over" ELSE "open"
    BY <1>1 DEF Line
<1>3. StreamTo(c)' = [sent |-> s, line |-> CASE l -> "closed"
                                             [] ~ l /\ s = << >> -> "none"
                                             [] ~ l /\ s # << >> -> IF f THEN "over" ELSE "open"]
    BY <1>1 DEF StreamTo, Sent, Lost, Finished
<1> QED BY <1>1, <1>2, <1>3

LEMMA StreamStays ==
    ASSUME NEW c \in Conns, UNCHANGED model, Sent(c)' = Sent(c), Line(c)' = Line(c)
    PROVE  StreamStep(c)
<1>1. StreamTo(c)' = StreamTo(c)
    BY StreamIs, StreamWillBe
<1> QED BY <1>1 DEF StreamStep

LEMMA StreamCloses ==
    ASSUME NEW c \in Conns, UNCHANGED model, Sent(c)' = Sent(c), Lost(c)'
    PROVE  StreamStep(c)
<1>1. PICK s, l : s = Sent(c) /\ l = Line(c)
    OBVIOUS
<1>2. StreamTo(c) = [sent |-> s, line |-> l] /\ StreamTo(c)' = [sent |-> s, line |-> "closed"]
    BY <1>1, StreamIs, StreamWillBe DEF Line
<1>3. Stream(c)!Closed(StreamTo(c)) = [sent |-> s, line |-> "closed"]
    BY <1>2 DEF Stream!Closed
<1>4. Stream(c)!Next
    BY <1>2, <1>3 DEF Stream!Next
<1> QED BY <1>4 DEF StreamStep

LEMMA StreamMoves ==
    ASSUME NEW c \in Conns, UNCHANGED model, NEW kind, Sent(c)' = Append(Sent(c), kind),
           \/ Line(c) = "none" /\ kind = "headers" /\ Line(c)' = "open"
           \/ Line(c) = "open" /\ kind = "data" /\ Line(c)' = "open" /\ model.template
           \/ Line(c) = "open" /\ kind \in {"done", "error"} /\ Line(c)' = "over" /\ model.template
    PROVE  StreamStep(c)
<1>1. PICK s, l, t : s = Sent(c) /\ l = Line(c) /\ t = model.template
    OBVIOUS
<1>2. StreamTo(c) = [sent |-> s, line |-> l] /\ StreamTo(c)' = [sent |-> Append(s, kind), line |-> Line(c)']
    BY <1>1, StreamIs, StreamWillBe
<1>3. StreamTo(c)' \in Stream(c)!Moves(StreamTo(c), model.template)
    BY <1>1, <1>2 DEF Stream!Moves, Stream!Event, Stream!Last
<1>4. Stream(c)!Next
    BY <1>3 DEF Stream!Next
<1> QED BY <1>4 DEF StreamStep

LEMMA StreamGivesUp ==
    ASSUME NEW c \in Conns, UNCHANGED model, ~ model.template, Sent(c)' = Sent(c),
           Line(c) = "open", Line(c)' = "over"
    PROVE  StreamStep(c)
<1>1. PICK s : s = Sent(c)
    OBVIOUS
<1>2. StreamTo(c) = [sent |-> s, line |-> "open"] /\ StreamTo(c)' = [sent |-> s, line |-> "over"]
    BY <1>1, StreamIs, StreamWillBe
<1>3. StreamTo(c)' \in Stream(c)!Moves(StreamTo(c), model.template)
    BY <1>2 DEF Stream!Moves
<1>4. Stream(c)!Next
    BY <1>3 DEF Stream!Next
<1> QED BY <1>4 DEF StreamStep

LEMMA StreamUnheard ==
    ASSUME NEW c \in Conns, UNCHANGED model, Sent(c) = << >>, Sent(c)' = << >>, Lost(c)' <=> Lost(c)
    PROVE  StreamStep(c)
<1>1. Line(c)' = Line(c)
    BY DEF Line
<1> QED BY <1>1, StreamStays

LEMMA SentStays == ASSUME NEW c \in Conns, out'[c] = out[c], req'[c] = req[c] PROVE Sent(c)' = Sent(c)
BY DEF Sent

LEMMA SentNothing ==
    ASSUME NEW c \in Conns
    PROVE  /\ out[c] = << >> \/ req[c].kind # "stream" => Sent(c) = << >>
           /\ out'[c] = << >> \/ req'[c].kind # "stream" => Sent(c)' = << >>
BY DEF Sent

LEMMA SentIs ==
    ASSUME Types, NEW c \in Conns, req[c].kind = "stream"
    PROVE  /\ Sent(c) \in Seq(EventKinds) /\ Len(Sent(c)) = Len(out[c])
           /\ \A i \in 1 .. Len(out[c]) : Sent(c)[i] = out[c][i].kind
<1>1. PICK o : o = out[c]
    OBVIOUS
<1>2. o \in Seq(Events)
    BY <1>1 DEF Types
<1>3. Sent(c) = [i \in 1 .. Len(o) |-> o[i].kind]
    BY <1>1 DEF Sent
<1>4. Len(o) \in Nat /\ \A i \in 1 .. Len(o) : o[i].kind \in EventKinds
    <2>1. Len(o) \in Nat /\ \A i \in 1 .. Len(o) : o[i] \in Events
        BY <1>2
    <2> QED BY <2>1 DEF Events
<1>5. PICK s : s = Sent(c)
    OBVIOUS
<1>6. s \in Seq(EventKinds) /\ Len(s) = Len(o) /\ \A i \in 1 .. Len(o) : s[i] = o[i].kind
    BY ONLY <1>3, <1>4, <1>5
<1> QED BY <1>1, <1>5, <1>6

LEMMA SentMore ==
    ASSUME Types, NEW c \in Conns, req[c].kind = "stream", req'[c] = req[c],
           NEW kind \in EventKinds, NEW text \in Seq(Said), out'[c] = Append(out[c], Event(kind, text))
    PROVE  Sent(c)' = Append(Sent(c), kind)
<1>1. PICK o, p, e : o = out[c] /\ p = out'[c] /\ e = Event(kind, text)
    OBVIOUS
<1>2. o \in Seq(Events) /\ e \in Events /\ e.kind = kind
    BY <1>1 DEF Types, Events, Event
<1>3. Len(o) \in Nat /\ Len(p) = Len(o) + 1 /\ p[Len(o) + 1] = e /\ \A i \in 1 .. Len(o) : p[i] = o[i]
    <2>1. p = Append(o, e)
        BY <1>1
    <2> QED BY ONLY <1>2, <2>1
<1>4. Sent(c)' = [i \in 1 .. Len(p) |-> p[i].kind]
    BY <1>1 DEF Sent
<1>5. PICK s : s = Sent(c)
    OBVIOUS
<1>6. s \in Seq(EventKinds) /\ Len(s) = Len(o) /\ \A i \in 1 .. Len(o) : s[i] = o[i].kind
    BY <1>1, <1>5, SentIs
<1>7. PICK t : t = Append(s, kind)
    OBVIOUS
<1>8. /\ t \in Seq(EventKinds) /\ Len(t) = Len(o) + 1 /\ t[Len(o) + 1] = kind
      /\ \A i \in 1 .. Len(o) : t[i] = s[i]
    <2>1. s \in Seq(EventKinds) /\ kind \in EventKinds
        BY <1>6
    <2>2. /\ t \in Seq(EventKinds) /\ Len(t) = Len(s) + 1 /\ t[Len(s) + 1] = kind
          /\ \A i \in 1 .. Len(s) : t[i] = s[i]
        BY ONLY <1>7, <2>1
    <2> QED BY <1>6, <2>2
<1>9. t = [i \in 1 .. Len(o) + 1 |-> t[i]]
    BY ONLY <1>3, <1>8
<1>10. \A i \in 1 .. Len(o) + 1 : t[i] = p[i].kind
    <2>1. \A i \in 1 .. Len(o) + 1 : i \in 1 .. Len(o) \/ i = Len(o) + 1
        BY <1>3
    <2> QED BY <1>2, <1>3, <1>6, <1>8, <2>1
<1>11. t = [i \in 1 .. Len(p) |-> p[i].kind]
    BY ONLY <1>3, <1>9, <1>10
<1> QED BY <1>4, <1>5, <1>7, <1>11

\* A step that is about another client.
LEMMA StreamElsewhere ==
    ASSUME NEW c \in Conns, UNCHANGED model, c # cur, c # cur', pc # "dead", pc' # "dead",
           out'[c] = out[c], req'[c] = req[c], conn'[c] = conn[c]
    PROVE  StreamStep(c)
<1>1. Sent(c)' = Sent(c)
    BY SentStays
<1>2. (Lost(c)' <=> Lost(c)) /\ Finished(c) /\ Finished(c)'
    BY DEF Lost, Finished
<1>3. Line(c)' = Line(c)
    BY <1>1, <1>2 DEF Line
<1> QED BY <1>1, <1>3, StreamStays

\* The process dies.
LEMMA StreamDies ==
    ASSUME IndInv, NEW c \in Conns, pc # "dead", pc' = "dead", UNCHANGED <<model, conn, req, out>>
    PROVE  StreamStep(c)
<1>1. Sent(c)' = Sent(c)
    BY SentStays
<1>2. CASE conn[c] = "new"
    <2>1. out[c] = << >>
        BY <1>2 DEF IndInv, ConnsOK
    <2>2. Lost(c)' <=> Lost(c)
        BY <1>2 DEF Lost
    <2> QED BY <1>1, <2>1, <2>2, SentNothing, StreamUnheard
<1>3. CASE conn[c] # "new"
    <2>1. Lost(c)'
        BY <1>3 DEF Lost
    <2> QED BY <1>1, <2>1, StreamCloses
<1> QED BY <1>2, <1>3

\* Nothing is sent.
LEMMA StreamQuiet ==
    ASSUME NEW c \in Conns, UNCHANGED <<model, conn, req, out, cur>>, pc # "dead", pc' # "dead",
           c = cur => Sent(c) = << >> \/ (Finished(c)' <=> Finished(c))
    PROVE  StreamStep(c)
<1>1. Sent(c)' = Sent(c) /\ (Lost(c)' <=> Lost(c))
    BY SentStays DEF Lost
<1>2. c # cur => Finished(c) /\ Finished(c)'
    BY DEF Finished
<1>3. Line(c)' = Line(c)
    BY <1>1, <1>2 DEF Line
<1> QED BY <1>1, <1>3, StreamStays

LEMMA ClientStream == ASSUME IndInv, NEW d \in Conns, Client(d), NEW c \in Conns PROVE StreamStep(c)
<1>1. UNCHANGED <<model, out, pc, cur>>
    BY DEF Client, Connect, SendRequest, Leave, chatVars
<1>2. conn \in [Conns -> {"new", "waiting", "open", "closed"}] /\ req \in [Conns -> Requests \cup {Empty}]
    BY DEF IndInv, Types
<1>3. Lost(c)' <=> Lost(c)
    BY <1>1, <1>2 DEF Client, Connect, SendRequest, Leave, Lost
<1>4. Sent(c)' = Sent(c)
    <2>1. CASE req'[c] = req[c]
        BY <1>1, <2>1, SentStays
    <2>2. CASE req'[c] # req[c]
        <3>1. req[c] = Empty
            BY <1>2, <2>2 DEF Client, Connect, SendRequest, Leave
        <3>2. out[c] = << >>
            BY <3>1 DEF IndInv, ConnsOK
        <3> QED BY <1>1, <3>2, SentNothing
    <2> QED BY <2>1, <2>2
<1>5. Finished(c)' <=> Finished(c)
    BY <1>1, <1>4 DEF Finished
<1>6. Line(c)' = Line(c)
    BY <1>3, <1>4, <1>5 DEF Line
<1> QED BY <1>1, <1>4, <1>6, StreamStays

LEMMA AcceptStream == ASSUME IndInv, Accept, NEW c \in Conns PROVE StreamStep(c)
<1>1. /\ pc = "accept" /\ pc' = "recv" /\ backlog # << >> /\ cur' = Head(backlog)
      /\ conn' = [conn EXCEPT ![cur'] = "open"] /\ UNCHANGED <<model, req, out>>
    BY DEF Accept, chatVars
<1>2. cur = None /\ cur \notin Conns
    BY <1>1, ServerAssumption DEF IndInv, ControlOK
<1>3. conn \in [Conns -> {"new", "waiting", "open", "closed"}]
    BY DEF IndInv, Types
<1>4. CASE c = cur'
    <2>1. backlog \in Seq(Conns) /\ 1 \in DOMAIN backlog /\ backlog[1] = c
        <3>1. backlog \in Seq(Conns)
            BY DEF IndInv, Types
        <3> QED BY <1>1, <1>4, <3>1
    <2>2. conn[c] = "waiting" /\ out[c] = << >>
        BY <2>1 DEF IndInv, ConnsOK, ToSet
    <2>3. Lost(c)' <=> Lost(c)
        BY <1>1, <1>3, <1>4, <2>2 DEF Lost
    <2> QED BY <1>1, <2>2, <2>3, SentNothing, StreamUnheard
<1>5. CASE c # cur'
    BY <1>1, <1>2, <1>3, <1>5, StreamElsewhere
<1> QED BY <1>4, <1>5

LEMMA CloseStream == ASSUME IndInv, Close, NEW c \in Conns PROVE StreamStep(c)
<1>1. /\ pc = "close" /\ pc' = "accept" /\ cur' = None /\ UNCHANGED <<model, req, out>>
      /\ conn' = conn \/ conn' = [conn EXCEPT ![cur] = "closed"]
    BY DEF Close, chatVars
<1>2. conn \in [Conns -> {"new", "waiting", "open", "closed"}] /\ c # cur'
    BY <1>1, ServerAssumption DEF IndInv, Types
<1>3. CASE c # cur
    BY <1>1, <1>2, <1>3, StreamElsewhere
<1>4. CASE c = cur
    <2>1. Sent(c)' = Sent(c) /\ Finished(c) /\ Finished(c)'
        BY <1>1, <1>2, SentStays DEF Finished
    <2>2. CASE conn' = conn
        <3>1. Line(c)' = Line(c)
            BY <1>1, <2>1, <2>2 DEF Line, Lost
        <3> QED BY <1>1, <2>1, <3>1, StreamStays
    <2>3. CASE conn'[c] = "closed"
        BY <1>1, <2>1, <2>3, StreamCloses DEF Lost
    <2> QED BY <1>1, <1>2, <1>4, <2>2, <2>3
<1> QED BY <1>3, <1>4

LEMMA RestartStream == ASSUME IndInv, Restart, NEW c \in Conns PROVE StreamStep(c)
<1>1. /\ pc = "dead" /\ pc' = "accept" /\ UNCHANGED <<model, req, out>>
      /\ conn' = [d \in Conns |-> IF conn[d] = "new" THEN "new" ELSE "closed"]
    BY DEF Restart
<1>2. Sent(c)' = Sent(c)
    BY <1>1, SentStays
<1>3. CASE conn[c] = "new"
    <2>1. out[c] = << >>
        BY <1>3 DEF IndInv, ConnsOK
    <2>2. Lost(c)' <=> Lost(c)
        BY <1>1, <1>3 DEF Lost
    <2> QED BY <1>1, <1>2, <2>1, <2>2, SentNothing, StreamUnheard
<1>4. CASE conn[c] # "new"
    BY <1>1, <1>2, <1>4, StreamCloses DEF Lost
<1> QED BY <1>3, <1>4

LEMMA HandleStreamQuiet ==
    ASSUME IndInv, Recv \/ HandleNothing \/ HandlePlain, NEW c \in Conns
    PROVE  StreamStep(c)
<1>1. UNCHANGED <<model, conn, req, out, cur>> /\ pc \in {"recv", "handle"} /\ pc' # "dead"
    BY DEF Recv, HandleNothing, HandlePlain, chatVars, clientVars
<1>2. c = cur => Sent(c) = << >>
    <2>1. out[cur] = << >>
        BY <1>1 DEF IndInv, ConnsOK
    <2> QED BY <2>1, SentNothing
<1> QED BY <1>1, <1>2, StreamQuiet

\* An answer that is no stream.
LEMMA AnswerStream ==
    ASSUME IndInv, HandleSimple \/ ReplyPlain, NEW c \in Conns
    PROVE  StreamStep(c)
<1>1. /\ UNCHANGED <<model, conn, req, cur>> /\ pc \in {"handle", "reply"}
      /\ \E kind \in EventKinds, text \in Seq(Said) : Send(cur, kind, text, "close")
      /\ buffer.kind \notin {"none", "stream"}
    <2>1. response \in Seq(Said) /\ << >> \in Seq(Said)
        BY DEF IndInv, Types
    <2>2. CASE HandleSimple
        <3>1. buffer.kind \in EventKinds /\ Send(cur, buffer.kind, << >>, "close")
            BY <2>2 DEF HandleSimple, EventKinds
        <3> QED BY <2>1, <2>2, <3>1 DEF HandleSimple, chatVars
    <2>3. CASE ReplyPlain
        <3>1. "response" \in EventKinds /\ Send(cur, "response", Fitting, "close") /\ Fitting \in Seq(Said)
            BY <2>1, <2>3, FittingIs DEF ReplyPlain, EventKinds
        <3> QED BY <2>1, <2>3, <3>1 DEF ReplyPlain, chatVars
    <2> QED BY <2>2, <2>3
<1>2. cur \in Conns /\ req[cur].kind # "stream" /\ Types
    BY <1>1, RequestIs DEF IndInv, ControlOK, Answering
<1>3. PICK kind \in EventKinds, text \in Seq(Said) : Send(cur, kind, text, "close")
    BY <1>1
<1>4. \/ pc' = "dead" /\ out' = out
      \/ pc' = "close" /\ \A d \in Conns \ {cur} : out'[d] = out[d]
    BY <1>2, <1>3, SendIs
<1>5. CASE pc' = "dead" /\ out' = out
    BY <1>1, <1>5, StreamDies
<1>6. CASE pc' = "close" /\ \A d \in Conns \ {cur} : out'[d] = out[d]
    <2>1. CASE c = cur
        <3>1. Lost(c)' <=> Lost(c)
            BY <1>1, <1>6 DEF Lost
        <3> QED BY <1>1, <1>2, <2>1, <3>1, SentNothing, StreamUnheard
    <2>2. CASE c # cur
        BY <1>1, <1>6, <2>2, StreamElsewhere
    <2> QED BY <2>1, <2>2
<1> QED BY <1>4, <1>5, <1>6

LEMMA HeadersStream == ASSUME IndInv, HandleStream, NEW c \in Conns PROVE StreamStep(c)
<1>1. /\ pc = "handle" /\ buffer.kind = "stream" /\ Send(cur, "headers", << >>, "prompt")
      /\ UNCHANGED <<model, conn, req, cur>>
    BY DEF HandleStream
<1>2. /\ Types /\ cur \in Conns /\ conn[cur] = "open" /\ req[cur].kind = "stream" /\ out[cur] = << >>
      /\ "headers" \in EventKinds /\ << >> \in Seq(Said)
    BY <1>1, RequestIs DEF IndInv, ControlOK, ConnsOK, EventKinds
<1>3. \/ pc' = "dead" /\ out' = out
      \/ /\ pc' = "prompt" /\ out'[cur] = Append(out[cur], Event("headers", << >>))
         /\ \A d \in Conns \ {cur} : out'[d] = out[d]
    BY <1>1, <1>2, SendIs
<1>4. CASE pc' = "dead" /\ out' = out
    BY <1>1, <1>4, StreamDies
<1>5. CASE /\ pc' = "prompt" /\ out'[cur] = Append(out[cur], Event("headers", << >>))
           /\ \A d \in Conns \ {cur} : out'[d] = out[d]
    <2>1. CASE c = cur
        <3>1. Sent(c) = << >> /\ Sent(c)' = Append(Sent(c), "headers")
            BY <1>1, <1>2, <1>5, <2>1, SentNothing, SentMore
        <3>2. Sent(c)' = <<"headers">>
            BY <3>1
        <3>3. Line(c) = "none" /\ Line(c)' = "open"
            BY <1>1, <1>2, <1>5, <2>1, <3>1, <3>2 DEF Line, Lost, Finished
        <3> QED BY <1>1, <3>1, <3>3, StreamMoves
    <2>2. CASE c # cur
        BY <1>1, <1>5, <2>2, StreamElsewhere
    <2> QED BY <2>1, <2>2
<1> QED BY <1>3, <1>4, <1>5

\* What the client has been sent when its reply begins.
LEMMA PromptSent ==
    ASSUME IndInv, pc = "prompt"
    PROVE  /\ cur \in Conns /\ conn[cur] = "open"
           /\ Sent(cur) = << >> \/ Sent(cur) = <<"headers">>
<1>1. cur \in Conns /\ conn[cur] = "open" /\ buffer.kind \in {"plain", "stream"}
    BY DEF IndInv, ControlOK, Answering
<1>2. out[cur] = << >> \/ out[cur] = <<Event("headers", << >>)>>
    BY <1>1 DEF IndInv, ToldOK, Answering, StreamToldOK, PlainToldOK
<1>3. CASE out[cur] = << >>
    BY <1>1, <1>3, SentNothing
<1>4. CASE out[cur] = <<Event("headers", << >>)>>
    <2>1. PICK o : o = out[cur]
        OBVIOUS
    <2>2. Len(o) = 1 /\ o[1].kind = "headers"
        BY <1>4, <2>1 DEF Event
    <2>3. Sent(cur) = << >> \/ Sent(cur) = [i \in 1 .. 1 |-> o[i].kind]
        BY <2>1, <2>2 DEF Sent
    <2>4. [i \in 1 .. 1 |-> o[i].kind] = <<"headers">>
        BY <2>2
    <2> QED BY <1>1, <2>3, <2>4
<1> QED BY <1>1, <1>2, <1>3, <1>4

LEMMA StartReplyStream == ASSUME IndInv, StartReply \/ NoTemplate, NEW c \in Conns PROVE StreamStep(c)
<1>1. /\ pc = "prompt" /\ UNCHANGED <<model, conn, req, out, cur>>
      /\ pc' = "generate" \/ (pc' = "reply" /\ ~ model.template)
    BY DEF StartReply, NoTemplate, clientVars
<1>2. cur \in Conns /\ conn[cur] = "open" /\ (Sent(cur) = << >> \/ Sent(cur) = <<"headers">>)
    BY <1>1, PromptSent
<1>3. CASE c # cur \/ Sent(c) = << >>
    BY <1>1, <1>3, StreamQuiet
<1>4. CASE c = cur /\ Sent(c) = <<"headers">>
    <2>1. Sent(c)' = <<"headers">> /\ Sent(c)' = Sent(c)
        BY <1>1, <1>4, SentStays
    <2>2. ~ Finished(c) /\ ~ Lost(c) /\ ~ Lost(c)'
        BY <1>1, <1>2, <1>4 DEF Finished, Lost
    <2>3. CASE pc' = "generate"
        <3>1. ~ Finished(c)'
            BY <1>1, <1>4, <2>1, <2>3 DEF Finished
        <3> QED BY <1>1, <2>2, <2>3, <3>1, StreamQuiet
    <2>4. CASE pc' = "reply" /\ ~ model.template
        <3>1. Finished(c)'
            BY <2>4 DEF Finished
        <3>2. Line(c) = "open" /\ Line(c)' = "over"
            BY <1>4, <2>1, <2>2, <3>1 DEF Line
        <3> QED BY <1>1, <2>1, <2>4, <3>2, StreamGivesUp
    <2> QED BY <1>1, <2>3, <2>4
<1> QED BY <1>2, <1>3, <1>4

LEMMA FinishStream == ASSUME IndInv, FinishReply \/ ReplyStream, NEW c \in Conns PROVE StreamStep(c)
<1>1. /\ pc \in {"finish", "reply"} /\ UNCHANGED <<model, conn, req, out, cur>> /\ pc' \in {"reply", "close"}
    BY DEF FinishReply, ReplyStream, clientVars
<1>2. Finished(c)'
    BY <1>1 DEF Finished
<1>3. c = cur => Sent(c) = << >> \/ Finished(c)
    <2>1. CASE pc = "reply"
        BY <2>1 DEF Finished
    <2>2. CASE pc = "finish" /\ c = cur /\ Sent(c) # << >>
        <3>1. req[c].kind = "stream" /\ out[c] # << >> /\ Types /\ buffer.kind \in {"plain", "stream"}
            BY <2>2, SentNothing DEF IndInv, ControlOK, Answering
        <3>2. Last(out[c]) \in {Event("done", << >>), Event("error", << >>)}
            BY <2>2, <3>1 DEF IndInv, ToldOK, Answering, StreamToldOK, PlainToldOK
        <3>3. out[c][Len(out[c])].kind \in {"done", "error"}
            BY <3>2 DEF Last, Event
        <3>4. Len(out[c]) \in 1 .. Len(out[c])
            <4>1. out[c] \in Seq(Events)
                BY <3>1 DEF Types
            <4> QED BY <3>1, <4>1
        <3>5. Sent(c)[Len(Sent(c))] \in {"done", "error"}
            BY <3>1, <3>3, <3>4, SentIs
        <3> QED BY <3>5 DEF Finished
    <2> QED BY <1>1, <2>1, <2>2
<1> QED BY <1>1, <1>2, <1>3, StreamQuiet

\* What is told while the reply is generated.
LEMMA GenerateStream ==
    ASSUME IndInv, pc = "generate", UNCHANGED <<model, conn, req, cur>>, NEW text \in Seq(Said),
           Tell("data", text, "generate") \/ Tell("done", text, "finish") \/ Tell("error", text, "finish"),
           NEW c \in Conns
    PROVE  StreamStep(c)
<1>1. PICK kind \in {"data", "done", "error"}, next \in {"generate", "finish"} :
          Tell(kind, text, next) /\ (next = "generate" <=> kind = "data")
    OBVIOUS
<1>2. /\ Types /\ cur \in Conns /\ conn[cur] = "open" /\ sock \in {None, cur} /\ kind \in EventKinds
      /\ buffer.kind \in {"plain", "stream"} /\ (buffer.kind = "plain" => sock = None)
      /\ (buffer.kind = "stream" => sock = cur /\ req[cur].kind = "stream") /\ model.template
    BY <1>1, RequestIs DEF IndInv, ControlOK, Answering, EventKinds
<1>3. \/ pc' = "dead" /\ out' = out
      \/ /\ pc' = next
         /\ out'[cur] = IF sock = None THEN out[cur] ELSE Append(out[cur], Event(kind, text))
         /\ \A d \in Conns \ {cur} : out'[d] = out[d]
    BY <1>1, <1>2, TellIs
<1>4. CASE pc' = "dead" /\ out' = out
    BY <1>4, StreamDies
<1>5. CASE /\ pc' = next
           /\ out'[cur] = IF sock = None THEN out[cur] ELSE Append(out[cur], Event(kind, text))
           /\ \A d \in Conns \ {cur} : out'[d] = out[d]
    <2>1. CASE c # cur
        BY <1>5, <2>1, StreamElsewhere
    <2>2. CASE c = cur /\ buffer.kind = "plain"
        <3>1. out[c] = << >> /\ out'[c] = << >>
            BY <1>2, <1>5, <2>2 DEF IndInv, ToldOK, Answering, PlainToldOK
        <3>2. Lost(c)' <=> Lost(c)
            BY <1>5 DEF Lost
        <3> QED BY <3>1, <3>2, SentNothing, StreamUnheard
    <2>3. CASE c = cur /\ buffer.kind = "stream"
        <3>1. Sent(c)' = Append(Sent(c), kind)
            <4>1. out'[c] = Append(out[c], Event(kind, text))
                BY <1>2, <1>5, <2>3, ServerAssumption
            <4> QED BY <1>2, <2>3, <4>1, SentMore
        <3>2. PICK s, n : s = Sent(c) /\ n = Len(out[c])
            OBVIOUS
        <3>3. s \in Seq(EventKinds) /\ Len(s) = n /\ \A i \in 1 .. n : s[i] = out[c][i].kind
            BY <1>2, <2>3, <3>2, SentIs
        <3>4. n \in Nat /\ n >= 1 /\ out[c][n].kind \in {"headers", "data"}
            <4>1. PICK m, o : m = Len(response) /\ o = out[c]
                OBVIOUS
            <4>2. /\ m \in Nat /\ n = m + 1 /\ o[1] = Event("headers", << >>)
                  /\ \A i \in 1 .. m : o[i + 1] = Event("data", <<Piece(cur, "token", i)>>)
                BY <2>3, <3>2, <4>1 DEF IndInv, Types, ToldOK, Answering, StreamToldOK, Told
            <4>3. ASSUME NEW k, NEW t PROVE Event(k, t).kind = k
                BY DEF Event
            <4>4. CASE m = 0
                BY <4>1, <4>2, <4>3, <4>4
            <4>5. CASE m # 0
                <5>1. m \in 1 .. m
                    BY ONLY <4>2, <4>5
                <5>2. o[m + 1] = Event("data", <<Piece(cur, "token", m)>>)
                    BY <4>2, <5>1
                <5> QED BY <4>1, <4>2, <4>3, <5>2
            <4> QED BY <4>4, <4>5
        <3>5. s # << >> /\ s[Len(s)] \notin {"done", "error"}
            BY <3>3, <3>4
        <3>6. Line(c) = "open"
            BY <1>2, <2>3, <3>2, <3>5 DEF Line, Lost, Finished
        <3>7. PICK t : t = Append(s, kind)
            OBVIOUS
        <3>8. t # << >> /\ t[Len(t)] = kind
            <4>1. s \in Seq(EventKinds) /\ kind \in EventKinds
                BY <1>2, <3>3
            <4> QED BY ONLY <3>7, <4>1
        <3>9. Line(c)' = IF kind = "data" THEN "open" ELSE "over"
            <4>1. Sent(c)' = t /\ ~ Lost(c)'
                BY <1>2, <1>5, <2>3, <3>1, <3>2, <3>7 DEF Lost
            <4>2. Finished(c)' <=> kind # "data"
                BY <1>1, <1>5, <2>3, <3>8, <4>1 DEF Finished
            <4> QED BY <3>8, <4>1, <4>2 DEF Line
        <3> QED BY <1>1, <1>2, <3>1, <3>6, <3>9, StreamMoves
    <2> QED BY <1>2, <2>1, <2>2, <2>3
<1> QED BY <1>3, <1>4, <1>5

LEMMA NextStream == ASSUME IndInv, [Next]_vars PROVE \A c \in Conns : StreamStep(c)
<1> SUFFICES ASSUME NEW c \in Conns PROVE StreamStep(c)
    OBVIOUS
<1>1. CASE \E d \in Conns : Client(d)
    BY <1>1, ClientStream
<1>2. CASE Accept \/ Close \/ Restart
    BY <1>2, AcceptStream, CloseStream, RestartStream
<1>3. CASE Recv \/ HandleNothing \/ HandlePlain
    BY <1>3, HandleStreamQuiet
<1>4. CASE HandleSimple \/ ReplyPlain
    BY <1>4, AnswerStream
<1>5. CASE HandleStream \/ StartReply \/ NoTemplate \/ FinishReply \/ ReplyStream
    BY <1>5, HeadersStream, StartReplyStream, FinishStream
<1>6. CASE ContextExceeded \/ DecodeFails \/ PieceFails \/ NextPiece \/ EndOfReply
    <2>1. pc = "generate" /\ UNCHANGED <<model, conn, req, cur>>
        BY <1>6 DEF ContextExceeded, DecodeFails, PieceFails, NextPiece, EndOfReply, Failed, Decoded
    <2>2. CASE ContextExceeded \/ DecodeFails \/ PieceFails \/ EndOfReply
        <3>1. << >> \in Seq(Said)
            OBVIOUS
        <3>2. Tell("error", << >>, "finish") \/ Tell("done", << >>, "finish")
            BY <2>2 DEF ContextExceeded, DecodeFails, PieceFails, EndOfReply, Failed
        <3> QED BY <2>1, <3>1, <3>2, GenerateStream
    <2>3. CASE NextPiece
        <3>1. PICK p : p = Piece(cur, "token", Len(response) + 1)
            OBVIOUS
        <3>2. Tell("data", <<p>>, "generate")
            BY <2>3, <3>1 DEF NextPiece
        <3>3. <<p>> \in Seq(Said)
            <4>1. cur \in Conns /\ Len(response) + 1 \in Nat
                BY <2>1 DEF IndInv, ControlOK, Types
            <4>2. p \in Said
                BY <3>1, <4>1, PieceIs
            <4> QED BY ONLY <4>2
        <3> QED BY <2>1, <3>2, <3>3, GenerateStream
    <2> QED BY <1>6, <2>2, <2>3
<1>7. CASE UNCHANGED vars
    <2>1. UNCHANGED <<model, conn, req, out, cur, pc>>
        BY <1>7 DEF vars, clientVars, chatVars
    <2>2. Sent(c)' = Sent(c)
        BY <2>1, SentStays
    <2>3. Line(c)' = Line(c)
        BY <2>1, <2>2 DEF Line, Lost, Finished
    <2> QED BY <2>1, <2>2, <2>3, StreamStays
<1> QED BY <1>1, <1>2, <1>3, <1>4, <1>5, <1>6, <1>7 DEF Next, Server

\* Every step of the server is, for every connection, a step of the stream that
\* the page reads, or none: headers, data, and one last event before the server
\* turns to another client, whatever fails and whoever leaves.
THEOREM ChatIsStream == Spec => ImplementsStream
<1>1. Init => \A c \in Conns : Stream(c)!Init
    <2> SUFFICES ASSUME Init, NEW c \in Conns PROVE Stream(c)!Init
        OBVIOUS
    <2>1. conn[c] = "new" /\ out[c] = << >> /\ model.template \in BOOLEAN
        BY DEF Init
    <2>2. Sent(c) = << >> /\ Line(c) = "none"
        BY <2>1, SentNothing DEF Line, Lost
    <2> QED BY <2>1, <2>2, StreamIs DEF Stream!Init, Stream!NoStream
<1>2. IndInv /\ [Next]_vars => [\A c \in Conns : [Stream(c)!Next]_<<StreamTo(c), model>>]_vars
    BY NextStream DEF StreamStep
<1> QED BY <1>1, <1>2, Invariance, PTL DEF Spec, ImplementsStream
=============================================================================
