----------------------------- MODULE ChatStore ------------------------------
(***************************************************************************)
(* The store of the page, src/vue/src/stores/chat.js.  sendMessage() runs  *)
(* from one await to the next; the reply is read from a ChatStream while   *)
(* the user stops it, switches to another conversation, creates or deletes *)
(* one, or sends the next message.  All sends share the flags, the         *)
(* controller and the current conversation.  The text of error, which only *)
(* the view reads, is left out.                                            *)
(*                                                                         *)
(* A message's content is a sequence of pieces: which send read it, from   *)
(* which of its events, and whether it is all of the event's data, but for *)
(* the white space around it, which trim() takes away.                     *)
(***************************************************************************)
EXTENDS Integers, Sequences, FiniteSets, SequencesExt

CONSTANTS
    None,       \* null
    MaxSends,   \* bound: calls of sendMessage()
    MaxConvs,   \* bound: conversations that are created
    MaxEvents,  \* bound: events of a stream
    MaxUnread,  \* bound: events that were sent but not read
    MaxParts    \* bound: events that are read in part

ASSUME StoreAssumption ==
    /\ MaxSends \in Nat \ {0} /\ MaxConvs \in Nat \ {0}
    /\ MaxEvents \in Nat /\ MaxUnread \in Nat \ {0} /\ MaxParts \in Nat
    /\ None \notin 1 .. MaxSends

VARIABLES
    \* the store
    conversations,  \* their ids
    count,          \* conversationCount; the id of the last one created
    messages,       \* messages[c]: the messages of conversation c
    current,        \* currentConversationId
    isLoading, isGenerating, controller,
    \* the sends: local variables of sendMessage()
    sends,          \* how many there were
    at,             \* at[s]: where send s is
    aiMessageIndex,
    aborted,        \* aborted[s]: the signal of its controller
    taken,          \* taken[s]: the number of events it read
    \* the server
    stream, known,
    \* history
    home,           \* home[s]: the conversation in which s was sent
    strayed,        \* whether s read an event while another one was current
    partial,        \* <<s, e>>: s read its event e only in part, or not at all
    overlapped      \* the sends in flight that were not always the only one

convVars == <<conversations, count, current>>
flags == <<isLoading, isGenerating, controller>>
sendVars == <<sends, at, aiMessageIndex, aborted, taken>>
server == <<stream, known>>
history == <<home, strayed, partial, overlapped>>
vars == <<convVars, messages, flags, sendVars, server, history>>

Sends == 1 .. MaxSends
Convs == 1 .. MaxConvs
Reply(s) == INSTANCE ChatStream WITH stream <- stream[s]

Init ==
    /\ conversations = <<1>> /\ count = 1 /\ current = 1
    /\ messages = [c \in Convs |-> << >>]
    /\ isLoading = FALSE /\ isGenerating = FALSE /\ controller = None
    /\ sends = 0
    /\ at = [s \in Sends |-> "new"] /\ aiMessageIndex = [s \in Sends |-> 0]
    /\ aborted = [s \in Sends |-> FALSE] /\ taken = [s \in Sends |-> 0]
    /\ stream = [s \in Sends |-> [sent |-> << >>, line |-> "none"]] /\ known \in BOOLEAN
    /\ home = [s \in Sends |-> 1] /\ strayed = [s \in Sends |-> FALSE]
    /\ partial = {} /\ overlapped = {}

InFlight == {s \in Sends : at[s] \in {"fetch", "read"}}

-----------------------------------------------------------------------------
(* The user.                                                               *)

Message(role, s) == [role |-> role, send |-> s, content |-> << >>]

\* sendMessage() up to fetch().  The input field is disabled while isLoading.
SendMessage ==
    /\ ~ isLoading /\ sends < MaxSends
    /\ sends' = sends + 1
    /\ isLoading' = TRUE /\ isGenerating' = TRUE /\ controller' = sends'
    /\ messages' = [messages EXCEPT ![current] =
                       @ \o <<Message("user", sends'), Message("assistant", sends')>>]
    /\ aiMessageIndex' = [aiMessageIndex EXCEPT ![sends'] = Len(messages[current]) + 2]
    /\ at' = [at EXCEPT ![sends'] = "fetch"]
    /\ home' = [home EXCEPT ![sends'] = current]
    /\ overlapped' = IF InFlight = {} THEN {} ELSE InFlight \cup {sends'}
    /\ UNCHANGED <<convVars, aborted, taken, server, strayed, partial>>

StopGenerating ==
    /\ controller # None
    /\ aborted' = [aborted EXCEPT ![controller] = TRUE]
    /\ controller' = None /\ isGenerating' = FALSE
    /\ UNCHANGED <<convVars, messages, isLoading, sends, at, aiMessageIndex, taken,
                   server, history>>

Created(others) ==
    /\ count < MaxConvs
    /\ count' = count + 1
    /\ conversations' = <<count'>> \o others
    /\ current' = count'
    /\ isLoading' = FALSE

CreateNewConversation ==
    /\ Created(conversations)
    /\ UNCHANGED <<messages, isGenerating, controller, sendVars, server, history>>

SwitchConversation ==
    /\ \E c \in ToSet(conversations) : current' = c
    /\ isLoading' = FALSE
    /\ UNCHANGED <<conversations, count, messages, isGenerating, controller, sendVars,
                   server, history>>

\* Mutant of Without: the deleted conversation stays the current one.
WithoutSwitch(k) ==
    /\ conversations' = RemoveAt(conversations, k)
    /\ UNCHANGED <<count, current, isLoading>>
\* The list without its k-th conversation, the only one with that id, and
\* another one as the current one.
Without(k) ==
    LET others == RemoveAt(conversations, k)
    IN  IF others = << >> THEN Created(others)
        ELSE /\ conversations' = others
             /\ current' = IF conversations[k] = current THEN Head(others) ELSE current
             /\ UNCHANGED <<count, isLoading>>

DeleteConversation ==
    /\ \E k \in DOMAIN conversations :
          /\ Without(k)
          /\ messages' = [messages EXCEPT ![conversations[k]] = << >>]
    /\ UNCHANGED <<isGenerating, controller, sendVars, server, history>>

-----------------------------------------------------------------------------
(* sendMessage() after an await.                                           *)

\* Mutant of Finally: the controller stays.
FinallyKeeps(s) ==
    /\ at' = [at EXCEPT ![s] = "ended"]
    /\ isLoading' = FALSE /\ isGenerating' = FALSE
    /\ aborted' = [aborted EXCEPT ![s] = FALSE]
    /\ overlapped' = overlapped \ {s}
    /\ stream' = [stream EXCEPT ![s] = Reply(s)!Closed(@)]
    /\ UNCHANGED <<controller, sends, aiMessageIndex>>
\* finally { ... }, whichever send the flags and the controller belong to; the
\* controller of the send itself is garbage.  cancel() closes the connection,
\* and nothing follows it.
Finally(s) ==
    /\ at' = [at EXCEPT ![s] = "ended"]
    /\ isLoading' = FALSE /\ isGenerating' = FALSE /\ controller' = None
    /\ aborted' = [aborted EXCEPT ![s] = FALSE]
    /\ overlapped' = overlapped \ {s}
    /\ stream' = [stream EXCEPT ![s] = Reply(s)!Closed(@)]
    /\ UNCHANGED <<sends, aiMessageIndex>>

\* fetch() returns; no reply has another status than 200 OK and is read.
FetchReturns(s) ==
    /\ at[s] = "fetch" /\ ~ aborted[s]
    /\ stream[s].sent # << >>
    /\ at' = [at EXCEPT ![s] = "read"]
    /\ taken' = [taken EXCEPT ![s] = 1]
    /\ UNCHANGED <<convVars, messages, flags, sends, aiMessageIndex, aborted, server, history>>

FetchFails(s) ==
    /\ at[s] = "fetch"
    /\ aborted[s] \/ stream[s].line = "closed"
    /\ Finally(s)
    /\ UNCHANGED <<convVars, messages, taken, known, home, strayed, partial>>

\* read() resolves with the next event.
Resolves(s) == at[s] = "read" /\ ~ aborted[s] /\ taken[s] < Len(stream[s].sent)
NextEvent(s) == stream[s].sent[taken[s] + 1]

\* Mutant of IsDone: the mark is not recognised.
IsDoneNever(s) == FALSE
IsDone(s) == NextEvent(s) = "done"

ReadDone(s) ==
    /\ Resolves(s) /\ IsDone(s)
    /\ taken' = [taken EXCEPT ![s] = @ + 1]
    /\ Finally(s)
    /\ UNCHANGED <<convVars, messages, known, home, strayed, partial>>

\* Mutant of Target: the last message of the conversation.
TargetLast(s) == Len(messages[current])
\* messages[aiMessageIndex] of the conversation that is current now.
Target(s) == aiMessageIndex[s]

\* The text is appended; if there is no such message, a TypeError ends the loop.
AppendPiece(s, piece) ==
    /\ taken' = [taken EXCEPT ![s] = @ + 1]
    /\ strayed' = [strayed EXCEPT ![s] = @ \/ current # home[s]]
    /\ IF Target(s) \in 1 .. Len(messages[current])
       THEN /\ messages' = [messages EXCEPT ![current][Target(s)].content = Append(@, piece)]
            /\ UNCHANGED <<flags, sends, at, aiMessageIndex, aborted, stream, overlapped>>
       ELSE Finally(s) /\ UNCHANGED messages

\* The data of an event, also that of an error event.
ReadData(s) ==
    /\ Resolves(s) /\ ~ IsDone(s)
    /\ AppendPiece(s, [send |-> s, event |-> taken[s] + 1, whole |-> TRUE])
    /\ UNCHANGED <<convVars, known, home, partial>>

\* Each chunk is split on its own.  If a line is cut between two of them, what
\* of a part stands behind "data: " is taken for text, and the rest is
\* ignored.  So is what follows a newline in the data, and blank data.
ReadPart(s) ==
    /\ Resolves(s) /\ Cardinality(partial) < MaxParts
    /\ partial' = partial \cup {<<s, taken[s] + 1>>}
    /\ \/ AppendPiece(s, [send |-> s, event |-> taken[s] + 1, whole |-> FALSE])
       \/ /\ taken' = [taken EXCEPT ![s] = @ + 1]
          /\ UNCHANGED <<messages, flags, sends, at, aiMessageIndex, aborted, stream, strayed, overlapped>>
    /\ UNCHANGED <<convVars, known, home>>

\* read() rejects or says that the stream is over: the loop ends.
ReadEnds(s) ==
    /\ at[s] = "read"
    /\ aborted[s] \/ stream[s].line = "closed"
    /\ Finally(s)
    /\ UNCHANGED <<convVars, messages, taken, known, home, strayed, partial>>

Continue(s) ==
    \/ FetchReturns(s) \/ FetchFails(s)
    \/ ReadDone(s) \/ ReadData(s) \/ ReadPart(s) \/ ReadEnds(s)

-----------------------------------------------------------------------------
(* The server: one thread, so one stream is open at a time.  What becomes  *)
(* of a stream that the page has stopped to read is left out.              *)

Serve(s) ==
    /\ s \in InFlight /\ ~ aborted[s]
    /\ \A r \in Sends \ {s} : stream[r].line = "open" => aborted[r]
    /\ \E next \in Reply(s)!Moves(stream[s], known) :
          /\ Len(next.sent) <= MaxEvents /\ Len(next.sent) <= taken[s] + MaxUnread
          /\ stream' = [stream EXCEPT ![s] = next]
    /\ UNCHANGED <<known, convVars, messages, flags, sendVars, history>>

\* The server cannot be reached, or closes the connection without a reply.
Refuse(s) ==
    /\ at[s] = "fetch" /\ stream[s].line = "none"
    /\ stream' = [stream EXCEPT ![s] = Reply(s)!Closed(@)]
    /\ UNCHANGED <<known, convVars, messages, flags, sendVars, history>>

\* The process dies, and all connections with it.
Die ==
    /\ \E s \in InFlight : stream[s].line \in {"open", "over"}
    /\ stream' = [s \in Sends |-> IF s \in InFlight THEN Reply(s)!Closed(stream[s]) ELSE stream[s]]
    /\ UNCHANGED <<known, convVars, messages, flags, sendVars, history>>

User ==
    \/ SendMessage \/ StopGenerating
    \/ CreateNewConversation \/ SwitchConversation \/ DeleteConversation
Next ==
    \/ User
    \/ Die
    \/ \E s \in Sends : Continue(s) \/ Serve(s) \/ Refuse(s)

\* The page's event loop goes on; neither the user nor the server has to.
Spec == Init /\ [][Next]_vars /\ \A s \in Sends : WF_vars(Continue(s))

-----------------------------------------------------------------------------
(* Correctness.                                                            *)

Piece == [send : Sends, event : 1 .. MaxEvents, whole : BOOLEAN]

\* There always is a current conversation: sendMessage() does not return early.
TypeOK ==
    /\ conversations \in Seq(Convs) /\ IsInjective(conversations)
    /\ current \in ToSet(conversations) /\ count \in ToSet(<<1>>) \cup Convs
    /\ isLoading \in BOOLEAN /\ isGenerating \in BOOLEAN
    /\ controller \in Sends \cup {None}
    /\ at \in [Sends -> {"new", "fetch", "read", "ended"}]
    /\ \A c \in Convs : \A i \in 1 .. Len(messages[c]) : messages[c][i].content \in Seq(Piece)
    /\ \A s \in Sends : stream[s].sent \in Seq({"headers", "data"} \cup Reply(s)!Last)
                        /\ stream[s].line \in Reply(s)!Lines

\* The page is at rest when no send is in flight, however the sends overlapped;
\* and a send that no other one overlapped can be stopped as long as it runs.
FlagsMatchSends ==
    /\ InFlight = {} => ~ isLoading /\ ~ isGenerating /\ controller = None
    /\ \A s \in InFlight : s \notin overlapped /\ ~ aborted[s] => isGenerating /\ controller = s

\* The places of the pieces of send s in a text, the events it has all data of,
\* and the events whose data it has read as a whole.
Places(s, content) == {k \in DOMAIN content : content[k].send = s}
Shown(s, content) == {content[k].event : k \in {l \in Places(s, content) : content[l].whole}}
DataRead(s) ==
    {e \in 1 .. taken[s] : <<s, e>> \notin partial /\ stream[s].sent[e] \in {"data", "error"}}

\* The text has the data that s has read as a whole, all of it, each once, and
\* in order; what is not whole comes from an event that s read in part, and
\* stands in its place.
Arrived(s, content) ==
    /\ Shown(s, content) = DataRead(s)
    /\ \A k \in Places(s, content) : ~ content[k].whole => <<s, content[k].event>> \in partial
    /\ \A k, l \in Places(s, content) : k < l => content[k].event < content[l].event

\* What the server streams is in the message that was made for it and in no
\* other one, and in order, whatever the user does with other conversations
\* and later messages, unless another conversation was current when a piece
\* came.  Only the lines that came in parts are not complete.
AnswersArrive ==
    \A s \in Sends : at[s] # "new" /\ ~ strayed[s] =>
        \A c \in ToSet(conversations) : \A i \in 1 .. Len(messages[c]) :
            IF c = home[s] /\ i = aiMessageIndex[s]
            THEN Arrived(s, messages[c][i].content) ELSE Places(s, messages[c][i].content) = {}

\* A send ends when its stream is closed or the user has stopped it, and when
\* its stream is done, unless the line that says so came in parts.  It does
\* not when the stream is merely over: after an error event the page goes on
\* reading, and so does it without any event.
Done(s) == {e \in DOMAIN stream[s].sent : stream[s].sent[e] = "done"}
DoneInParts(s) == \E e \in Done(s) : <<s, e>> \in partial
MustEnd(s) == aborted[s] \/ stream[s].line = "closed"
SendEnds ==
    \A s \in Sends :
        (at[s] # "new" /\ (MustEnd(s) \/ Done(s) # {})) ~> (at[s] = "ended" \/ (DoneInParts(s) /\ ~ MustEnd(s)))
=============================================================================
