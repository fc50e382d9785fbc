----------------------------- MODULE ChatStream -----------------------------
(***************************************************************************)
(* A reply that src/llyy.cpp/final-server.cpp streams, as seen from the    *)
(* other end of the connection: the headers, pieces of text, and then one  *)
(* last event, "done" or "error".  The server turns to other clients after *)
(* it, and leaves the connection open.  If it does not know the chat       *)
(* template of its model, it does so without any event.  A connection is   *)
(* closed at any time: the process may die.                                *)
(*                                                                         *)
(* ChatServer implements this for each of its connections; ChatStore, the  *)
(* page, takes its streams from here.                                      *)
(***************************************************************************)
EXTENDS Sequences

VARIABLES
    stream,     \* sent: the kinds of the events so far; line: see below
    known       \* whether the server knows the template

Lines == {"none", "open", "over", "closed"}
Last == {"done", "error"}

NoStream == [sent |-> << >>, line |-> "none"]
Closed(st) == [st EXCEPT !.line = "closed"]
Event(st, kind, line) == [sent |-> Append(st.sent, kind), line |-> line]

\* What can become of a stream while the connection lasts.
Moves(st, template) ==
    CASE st.line = "none" -> {Event(st, "headers", "open")}
      [] st.line = "open" /\ template ->
            {Event(st, "data", "open")} \cup {Event(st, kind, "over") : kind \in Last}
      [] st.line = "open" /\ ~ template -> {[st EXCEPT !.line = "over"]}
      [] OTHER -> {}

Init == stream = NoStream /\ known \in BOOLEAN

Next ==
    /\ stream' \in Moves(stream, known) \cup {Closed(stream)}
    /\ UNCHANGED known

Spec == Init /\ [][Next]_<<stream, known>>
=============================================================================
