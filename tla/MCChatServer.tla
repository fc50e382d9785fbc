---------------------------- MODULE MCChatServer ----------------------------
(* ChatServer with two connections; the cfg gives a context of six tokens. *)
EXTENDS ChatServer

CONSTANTS c1, c2

MCConns == {c1, c2}

R(kind, marked) == [kind |-> kind, marked |-> marked]

\* Requests of which one ends in each of the branches; a stream may be asked
\* for with or without a blank after the colon.
MCRequests ==
    {R("metrics", FALSE), R("invalid", TRUE), R("nobody", FALSE), R("plain", FALSE),
     R("stream", TRUE), R("stream", FALSE)}
=============================================================================
