----------------------------- MODULE ChatServer -----------------------------
(***************************************************************************)
(* The chat server, src/llyy.cpp/final-server.cpp.  One thread accepts a   *)
(* connection, reads one request, answers it and turns to the next one.    *)
(* All requests share one conversation: the messages, the offset prev_len  *)
(* up to which the formatted conversation was given to the model, and the  *)
(* model's KV cache, which is only ever appended to.                       *)
(*                                                                         *)
(* Text is a sequence of pieces.  A piece names the request it belongs to  *)
(* and its part of the turn; the formatted conversation is the sequence of *)
(* the pieces of its messages.  A piece is one token.  The engine is used  *)
(* through its API; KvCache models what llama_decode does to the cache.    *)
(***************************************************************************)
EXTENDS Integers, Sequences, SequencesExt

CONSTANTS
    Conns,      \* connections, each carries one request
    Requests,   \* the requests a client may send
    None,       \* no connection: client_socket = -1
    NCtx,       \* n_ctx: cells of the KV cache, n_batch is the same
    PlainMax,   \* pieces of a plain reply for which BUFFER_SIZE has room
    Backlog     \* connections that wait to be accepted

\* What the body asks for; marked: the bytes received contain "stream":true.
Kinds == {"metrics", "options", "invalid", "nobody", "plain", "stream"}
Request == [kind : Kinds, marked : BOOLEAN]
Empty == [kind |-> "none", marked |-> FALSE]

ASSUME ServerAssumption ==
    /\ None \notin Conns
    /\ Requests \subseteq Request
    /\ NCtx \in Nat \ {0} /\ Backlog \in Nat \ {0} /\ PlainMax \in Nat

VARIABLES
    \* clients and connections
    conn,       \* conn[c]: how far the server has got with connection c
    peer,       \* peer[c]: whether the client is still there
    req,        \* req[c]: the request, Empty if the client has sent none yet
    out,        \* out[c]: what was sent to the client
    backlog,    \* connections waiting for accept()
    \* the LLaMAServer object
    model,      \* properties of the model file that was loaded
    transcript, \* messages: the text the chat template makes of them
    prevLen,    \* prev_len
    kv,         \* the tokens in the KV cache, in order
    sock,       \* client_socket
    slot,       \* slot.state
    metrics,    \* n_requests_total, n_requests_failed, kv_cache_used_cells
    \* the thread
    pc,
    cur,        \* client_socket of main()
    buffer,     \* what recv() returned, Empty if nothing
    batch,      \* the tokens to be decoded next
    response,   \* the reply so far
    failures    \* history: requests for a reply that failed

clientVars == <<conn, peer, req, backlog>>
chatVars == <<model, transcript, prevLen, kv, sock, slot, metrics>>
vars == <<clientVars, out, chatVars, pc, cur, buffer, batch, response, failures>>

\* The pieces of the two turns of a request: "user", then "reply" (the opening
\* of the model's turn), "token" 1, 2, ..., perhaps "error", and "end".
Piece(c, part, k) == [of |-> c, part |-> part, k |-> k]
Bos == Piece(None, "bos", 0)  \* the token that begins a text
Pad == Piece(None, "pad", 0)  \* token 0, with which std::vector is filled

Init ==
    /\ conn = [c \in Conns |-> "new"]
    /\ peer = [c \in Conns |-> "here"]
    /\ req = [c \in Conns |-> Empty]
    /\ out = [c \in Conns |-> << >>]
    /\ backlog = << >>
    /\ model \in [template : BOOLEAN, bos : BOOLEAN]
    /\ transcript = << >> /\ prevLen = 0 /\ kv = << >>
    /\ sock = None
    /\ slot = "idle"
    /\ metrics = [requests |-> 0, failed |-> 0, used |-> 0]
    /\ pc = "accept" /\ cur = None /\ buffer = Empty
    /\ batch = << >> /\ response = << >>
    /\ failures = 0

-----------------------------------------------------------------------------
(* Clients.                                                                *)

Connect(c) ==
    /\ conn[c] = "new" /\ pc # "dead"
    /\ Len(backlog) < Backlog
    /\ conn' = [conn EXCEPT ![c] = "waiting"]
    /\ backlog' = Append(backlog, c)
    /\ UNCHANGED <<peer, req, out, chatVars, pc, cur, buffer, batch, response, failures>>

Connected(c) == conn[c] \in {"waiting", "open"} /\ peer[c] = "here"

SendRequest(c) ==
    /\ Connected(c) /\ req[c] = Empty
    /\ \E r \in Requests : req' = [req EXCEPT ![c] = r]
    /\ UNCHANGED <<conn, peer, out, backlog, chatVars, pc, cur, buffer, batch, response, failures>>

\* A client that goes away closes its socket or resets the connection.
Leave(c) ==
    /\ Connected(c)
    /\ \E how \in {"left", "reset"} : peer' = [peer EXCEPT ![c] = how]
    /\ UNCHANGED <<conn, req, out, backlog, chatVars, pc, cur, buffer, batch, response, failures>>

-----------------------------------------------------------------------------
(* Sending.                                                                *)

Event(kind, text) == [kind |-> kind, text |-> text]

\* send(): to a client that has closed its socket, it draws a reset; on a
\* connection that was reset it reports the error once and then raises
\* SIGPIPE, which kills the process.
AfterSend(p) == CASE p = "left" -> {"left", "gone"}
                  [] p = "reset" -> {"gone"}
                  [] OTHER -> {p}

Send(c, kind, text, next) ==
    IF peer[c] = "gone"
    THEN pc' = "dead" /\ UNCHANGED <<out, peer>>
    ELSE /\ out' = [out EXCEPT ![c] = Append(@, Event(kind, text))]
         /\ \E p \in AfterSend(peer[c]) : peer' = [peer EXCEPT ![c] = p]
         /\ pc' = next

\* The reply is streamed if client_socket is set.
Tell(kind, text, next) ==
    IF sock = None THEN pc' = next /\ UNCHANGED <<out, peer>>
                   ELSE Send(sock, kind, text, next)

-----------------------------------------------------------------------------
(* main() and handle_http_request().                                       *)

Accept ==
    /\ pc = "accept" /\ backlog # << >>
    /\ cur' = Head(backlog)
    /\ backlog' = Tail(backlog)
    /\ conn' = [conn EXCEPT ![cur'] = "open"]
    /\ pc' = "recv"
    /\ UNCHANGED <<peer, req, out, chatVars, buffer, batch, response, failures>>

\* Mutant of Received: a client that left is waited for.
ReceivedOnly == req[cur] # Empty
\* recv() waits for data, the end of the stream or an error.
Received == req[cur] # Empty \/ peer[cur] # "here"

Recv ==
    /\ pc = "recv" /\ Received
    /\ \/ buffer' = req[cur] /\ UNCHANGED peer
       \/ /\ peer[cur] = "reset"
          /\ buffer' = Empty
          /\ peer' = [peer EXCEPT ![cur] = "gone"]
    /\ pc' = "handle"
    /\ UNCHANGED <<conn, req, backlog, out, chatVars, cur, batch, response, failures>>

HandleNothing ==
    /\ pc = "handle" /\ buffer.kind \in {"none", "nobody"}
    /\ pc' = "close"
    /\ UNCHANGED <<clientVars, out, chatVars, cur, buffer, batch, response, failures>>

\* The metrics, the answer to OPTIONS, or an error that the request caused.
HandleSimple ==
    /\ pc = "handle" /\ buffer.kind \in {"metrics", "options", "invalid"}
    /\ Send(cur, buffer.kind, << >>, "close")
    /\ UNCHANGED <<conn, req, backlog, chatVars, cur, buffer, batch, response, failures>>

HandlePlain ==
    /\ pc = "handle" /\ buffer.kind = "plain"
    /\ pc' = "prompt"
    /\ UNCHANGED <<clientVars, out, chatVars, cur, buffer, batch, response, failures>>

HandleStream ==
    /\ pc = "handle" /\ buffer.kind = "stream"
    /\ Send(cur, "headers", << >>, "prompt")
    /\ sock' = cur
    /\ UNCHANGED <<conn, req, backlog, model, transcript, prevLen, kv, slot, metrics,
                   cur, buffer, batch, response, failures>>

-----------------------------------------------------------------------------
(* generate_response() and generate().                                     *)

\* The formatted conversation with the opening of the reply, from prev_len.
Formatted == Append(transcript', Piece(cur, "reply", 0))
Prompt == SubSeq(Formatted, prevLen + 1, Len(Formatted))

\* The vector is as long as the text with its special tokens; it is filled
\* with those of the text, which has them only if the cache is empty.
Tokens(text) ==
    LET count == Len(text) + (IF model.bos THEN 1 ELSE 0)
        got == IF model.bos /\ kv = << >> THEN <<Bos>> \o text ELSE text
    IN  [i \in 1 .. count |-> IF i <= Len(got) THEN got[i] ELSE Pad]

StartReply ==
    /\ pc = "prompt" /\ model.template
    /\ slot' = "processing"
    /\ transcript' = Append(transcript, Piece(cur, "user", 0))
    /\ batch' = Tokens(Prompt)
    /\ response' = << >>
    /\ pc' = "generate"
    /\ UNCHANGED <<clientVars, out, model, prevLen, kv, sock, metrics, cur, buffer, failures>>

\* The model has a chat template that the engine does not know.
NoTemplate ==
    /\ pc = "prompt" /\ ~ model.template
    /\ slot' = "error"
    /\ transcript' = Append(transcript, Piece(cur, "user", 0))
    /\ response' = <<Piece(cur, "error", 0)>>
    /\ failures' = failures + 1
    /\ pc' = "reply"
    /\ UNCHANGED <<clientVars, out, model, prevLen, kv, sock, metrics, cur, buffer, batch>>

ContextFull == Len(kv) + Len(batch) > NCtx

\* The error is sent as an event and kept as the end of the reply.
Failed ==
    /\ Tell("error", << >>, "finish")
    /\ response' = Append(response, Piece(cur, "error", 0))
    /\ failures' = failures + 1
    /\ UNCHANGED <<conn, req, backlog, model, transcript, prevLen, sock, metrics, cur, buffer, batch>>

\* Mutant of ContextExceeded: the client is not told.
ContextExceededSilent ==
    /\ pc = "generate" /\ ContextFull
    /\ pc' = "finish"
    /\ response' = Append(response, Piece(cur, "error", 0))
    /\ failures' = failures + 1
    /\ UNCHANGED <<clientVars, out, chatVars, cur, buffer, batch>>
ContextExceeded ==
    /\ pc = "generate" /\ ContextFull
    /\ Failed
    /\ UNCHANGED <<kv, slot>>

\* llama_decode() fails and restores the cache.
DecodeFails ==
    /\ pc = "generate" /\ ~ ContextFull
    /\ Failed
    /\ slot' = "error"
    /\ UNCHANGED kv

Decoded ==
    /\ pc = "generate" /\ ~ ContextFull
    /\ kv' = kv \o batch
    /\ UNCHANGED <<conn, req, backlog, model, transcript, prevLen, sock, metrics, cur, buffer>>

\* The token cannot be converted to text.
PieceFails ==
    /\ Decoded
    /\ Tell("error", << >>, "finish")
    /\ response' = Append(response, Piece(cur, "error", 0))
    /\ failures' = failures + 1
    /\ UNCHANGED <<slot, batch>>

\* Mutant of BatchOf: the last batch is decoded again.
BatchAgain(p) == batch
\* llama_batch_get_one(): the new token is decoded next.
BatchOf(p) == <<p>>

NextPiece ==
    LET p == Piece(cur, "token", Len(response) + 1)
    IN  /\ Decoded
        /\ response' = Append(response, p)
        /\ Tell("data", <<p>>, "generate")
        /\ batch' = BatchOf(p)
        /\ UNCHANGED <<slot, failures>>

EndOfReply ==
    /\ Decoded
    /\ Tell("done", << >>, "finish")
    /\ UNCHANGED <<slot, batch, response, failures>>

Turn == <<Piece(cur, "reply", 0)>> \o response \o <<Piece(cur, "end", 0)>>

\* Mutants of Remember: prev_len counts the opening of another reply; the
\* messages lack the reply.
RememberOpening ==
    /\ transcript' = transcript \o Turn
    /\ prevLen' = Len(transcript') + 1
RememberNothing ==
    /\ transcript' = transcript
    /\ prevLen' = Len(transcript')
Remember ==
    /\ transcript' = transcript \o Turn
    /\ prevLen' = Len(transcript')

FinishReply ==
    /\ pc = "finish"
    /\ Remember
    /\ metrics' = [metrics EXCEPT !.requests = @ + 1, !.used = Len(kv)]
    /\ slot' = "idle"
    /\ pc' = "reply"
    /\ UNCHANGED <<clientVars, out, model, kv, sock, cur, buffer, batch, response, failures>>

\* Mutant of ReplyStream: client_socket is not reset.
ReplyStreamKeeps ==
    /\ pc = "reply" /\ buffer.kind = "stream"
    /\ pc' = "close"
    /\ UNCHANGED <<clientVars, out, chatVars, cur, buffer, batch, response, failures>>
ReplyStream ==
    /\ pc = "reply" /\ buffer.kind = "stream"
    /\ sock' = None
    /\ pc' = "close"
    /\ UNCHANGED <<clientVars, out, model, transcript, prevLen, kv, slot, metrics,
                   cur, buffer, batch, response, failures>>

\* format_success_response() cuts off what its buffer has no room for.
Least(x, y) == IF x < y THEN x ELSE y
Fitting == SubSeq(response, 1, Least(Len(response), PlainMax))

ReplyPlain ==
    /\ pc = "reply" /\ buffer.kind = "plain"
    /\ Send(cur, "response", Fitting, "close")
    /\ UNCHANGED <<conn, req, backlog, chatVars, cur, buffer, batch, response, failures>>

\* The connection stays open if the request said "stream":true.
Close ==
    /\ pc = "close"
    /\ conn' = IF buffer.marked THEN conn
               ELSE [conn EXCEPT ![cur] = "closed"]
    /\ cur' = None
    /\ pc' = "accept"
    /\ UNCHANGED <<peer, req, out, backlog, chatVars, buffer, batch, response, failures>>

-----------------------------------------------------------------------------
\* The process is started anew.  Nothing of the conversation was stored.
Restart ==
    /\ pc = "dead"
    /\ conn' = [c \in Conns |-> IF conn[c] = "new" THEN "new" ELSE "closed"]
    /\ backlog' = << >>
    /\ transcript' = << >> /\ prevLen' = 0 /\ kv' = << >>
    /\ sock' = None
    /\ slot' = "idle"
    /\ metrics' = [requests |-> 0, failed |-> 0, used |-> 0]
    /\ pc' = "accept" /\ cur' = None /\ buffer' = Empty
    /\ batch' = << >> /\ response' = << >>
    /\ failures' = 0
    /\ UNCHANGED <<peer, req, out, model>>

Client(c) == Connect(c) \/ SendRequest(c) \/ Leave(c)

Server ==
    \/ Accept
    \/ Recv
    \/ HandleNothing
    \/ HandleSimple
    \/ HandlePlain
    \/ HandleStream
    \/ StartReply
    \/ NoTemplate
    \/ ContextExceeded
    \/ DecodeFails
    \/ PieceFails
    \/ NextPiece
    \/ EndOfReply
    \/ FinishReply
    \/ ReplyStream
    \/ ReplyPlain
    \/ Close

Next == Server \/ Restart \/ \E c \in Conns : Client(c)

\* A client that is connected sends its request, or leaves without one.
Asks(c) == SendRequest(c) \/ (req[c] = Empty /\ Leave(c))

\* The server's thread runs; clients ask.
Spec ==
    /\ Init /\ [][Next]_vars
    /\ WF_vars(Server)
    /\ \A c \in Conns : WF_vars(Asks(c))

-----------------------------------------------------------------------------
(* Correctness.                                                            *)

TypeOK ==
    /\ conn \in [Conns -> {"new", "waiting", "open", "closed"}]
    /\ peer \in [Conns -> {"here", "left", "reset", "gone"}]
    /\ req \in [Conns -> Requests \cup {Empty}]
    /\ prevLen \in 0 .. Len(transcript)
    /\ Len(kv) <= NCtx
    /\ sock \in {None, cur}
    /\ slot \in {"idle", "processing", "error"}
    /\ buffer \in Requests \cup {Empty}

\* The conversation so far, with the reply that is being generated.
Replying == pc \in {"generate", "finish"}
Text == IF Replying THEN Append(transcript, Piece(cur, "reply", 0)) \o response
                    ELSE transcript

\* The tokens of a cache or a batch that stand for text, by their places.
SaidIn(tokens) == {i \in DOMAIN tokens : tokens[i] \notin {Bos, Pad}}

\* Whatever fails, and whatever was cut off: what the model has seen is a
\* part of the conversation, in its order, and no piece of it twice.
KvInOrder ==
    pc # "dead" => \A i \in SaidIn(kv) :
        \E k \in DOMAIN Text :
            /\ Text[k] = kv[i]
            /\ \A j \in SaidIn(kv) : j < i =>
                  kv[j] # kv[i] /\ \E l \in 1 .. k - 1 : Text[l] = kv[j]

\* As long as no request failed, the model has seen all of the conversation,
\* except the ends of its turns, when the next request is accepted: nothing
\* is lost between prev_len, the messages and the cache.
KvComplete ==
    pc = "accept" /\ failures = 0 =>
        {kv[i] : i \in SaidIn(kv)} = {p \in ToSet(transcript) : p.part # "end"}

\* A client is sent something only while its own request is handled.
EventsGoToRequester == [][\A c \in Conns : out'[c] # out[c] => c = cur]_vars

\* What client c sees of a streamed reply.
StreamTo(c) ==
    LET sent == IF req[c].kind # "stream" THEN << >>
                ELSE [i \in 1 .. Len(out[c]) |-> out[c][i].kind]
        lost == conn[c] = "closed" \/ (pc = "dead" /\ conn[c] # "new")
        finished == cur # c \/ pc \in {"reply", "close"} \/ sent[Len(sent)] \in {"done", "error"}
    IN  [sent |-> sent, line |-> CASE lost -> "closed"
                                   [] ~ lost /\ sent = << >> -> "none"
                                   [] ~ lost /\ sent # << >> -> IF finished THEN "over" ELSE "open"]
Stream(c) == INSTANCE ChatStream WITH stream <- StreamTo(c), known <- model.template

\* On every connection, whatever fails, the server sends one stream of the form
\* that the page reads: headers, data, and one last event before the server
\* turns to another client, so that the reader knows the end, unless the
\* template of the model is unknown or the process dies.
ImplementsStream ==
    /\ \A c \in Conns : Stream(c)!Init
    /\ [][\A c \in Conns : [Stream(c)!Next]_<<StreamTo(c), model>>]_vars

\* The tokens of client c in a text, by their places; these are the first n, in
\* their order.
TokensAt(c, text) == {i \in DOMAIN text : text[i].of = c /\ text[i].part = "token"}
FirstTokens(c, text, n) ==
    /\ {text[i].k : i \in TokensAt(c, text)} = 1 .. n
    /\ \A i, j \in TokensAt(c, text) : i < j => text[i].k < text[j].k

\* The tokens a client was sent are those that the messages keep as the reply,
\* in their order: all of them if the reply was streamed, and as many as there
\* is room for if it was not.
ReplyIsRemembered ==
    pc = "close" /\ buffer.kind \in {"plain", "stream"} =>
        \E n \in 0 .. Len(response) :
            /\ FirstTokens(cur, transcript, n)
            /\ IF buffer.kind = "plain"
               THEN \A i \in DOMAIN out[cur] : FirstTokens(cur, out[cur][i].text, Least(n, PlainMax))
               ELSE /\ 2 .. n + 1 \subseteq DOMAIN out[cur]
                    /\ \A i \in DOMAIN out[cur] :
                          out[cur][i].text = IF i \in 2 .. n + 1 THEN <<Piece(cur, "token", i - 1)>>
                                                                 ELSE << >>

\* Every client in the queue is turned to and finished with, unless the
\* process dies: generation ends, because the context fills up.
Served == \A c \in Conns : conn[c] = "waiting" ~> (conn[c] # "waiting" /\ cur # c) \/ pc = "dead"

\* The vector holds as many tokens as the prompt has ("the first call to
\* llama_tokenize obtains the number of tokens").
BatchIsPrompt == pc = "generate" => \A i \in 1 .. Len(batch) : batch[i] # Pad
=============================================================================
