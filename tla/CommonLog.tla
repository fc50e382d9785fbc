------------------------------ MODULE CommonLog ------------------------------
(***************************************************************************)
(* The logger, src/llyy.cpp/common/log.cpp.  Any thread calls add(), which *)
(* puts an entry in a ring under a mutex; a worker takes the entries out   *)
(* under the mutex and prints them without it.  pause() ends the worker by *)
(* an entry of its own and waits for it; set_file(), set_colors() and the  *)
(* destructor begin with a pause().  These calls are "not thread-safe"     *)
(* (log.h), so one thread, the controller, makes them.                     *)
(***************************************************************************)
EXTENDS Integers, Sequences

CONSTANTS
    Capacity,   \* size of the ring at first
    MaxCalls,   \* bound: calls of add()
    Files,      \* the paths for set_file()
    None,       \* nullptr
    AnyPause    \* whether pause() may be called when one entry is free

ASSUME LogAssumption ==
    /\ Capacity \in Nat \ {0, 1}
    /\ MaxCalls \in Nat
    /\ None \notin Files
    /\ AnyPause \in BOOLEAN

VARIABLES
    calls,      \* calls of add() so far; the n-th one logs message n
    entries,    \* the ring; entries[i + 1] is the code's entries[i]
    head, tail,
    running,
    worker,     \* where the worker is
    cur,        \* its copy of an entry
    console,    \* what it printed
    file,       \* the open file
    files,      \* files[f]: what is in f
    op,         \* the controller's call
    stage       \* how far the call has got

ring == <<entries, head, tail>>
outputs == <<console, file, files>>
controller == <<op, stage>>
vars == <<calls, ring, running, worker, cur, outputs, controller>>

Entry == [msg : 0 .. MaxCalls, isEnd : BOOLEAN]
Unused == [msg |-> 0, isEnd |-> FALSE]
Fresh(size) == [i \in 1 .. size |-> Unused]
Size == Len(entries)
\* Mutant of After: an index past the end.
AfterLate(i) == IF i = Size THEN 0 ELSE i + 1
After(i) == (i + 1) % Size

\* The constructor calls resume().
Init ==
    /\ calls = 0
    /\ entries = Fresh(Capacity) /\ head = 0 /\ tail = 0
    /\ running = TRUE /\ worker = "check" /\ cur = Unused
    /\ console = << >> /\ file = None /\ files = [f \in Files |-> << >>]
    /\ op = "none" /\ stage = "idle"

-----------------------------------------------------------------------------
(* Loggers.                                                                *)

\* Mutant of Notify: no notify_one().
NotifyNobody(w) == w
\* cv.notify_one(): the worker checks the ring again.
Notify(w) == IF w = "asleep" THEN "check" ELSE w

\* Mutant of Logged: is_end is not reset.
LoggedOver(e, m) == [e EXCEPT !.msg = m]
Logged(e, m) == [e EXCEPT !.msg = m, !.isEnd = FALSE]

\* Mutant of Rotated: the entries are copied from the start of the vector.
RotatedNot(es, h) == es
\* The entries of a full ring, from the first one.
Rotated(es, h) == [i \in 1 .. Len(es) |-> es[((h + i - 1) % Len(es)) + 1]]

\* A ring without a free entry is replaced by one of twice the size.
Grow(es) ==
    IF After(tail) = head
    THEN /\ entries' = Rotated(es, head) \o Fresh(Size)
         /\ head' = 0 /\ tail' = Size
    ELSE /\ entries' = es
         /\ head' = head /\ tail' = After(tail)

\* add() while the log runs.
Add ==
    /\ stage # "gone" /\ calls < MaxCalls
    /\ running
    /\ calls' = calls + 1
    /\ Grow([entries EXCEPT ![tail + 1] = Logged(@, calls')])
    /\ worker' = Notify(worker)
    /\ UNCHANGED <<running, cur, outputs, controller>>

\* add() while it is paused.
Discard ==
    /\ stage # "gone" /\ calls < MaxCalls
    /\ ~ running
    /\ calls' = calls + 1
    /\ UNCHANGED <<ring, running, worker, cur, outputs, controller>>

-----------------------------------------------------------------------------
(* The worker.                                                             *)

Wait ==
    /\ worker = "check" /\ head = tail
    /\ worker' = "asleep"
    /\ UNCHANGED <<calls, ring, running, cur, outputs, controller>>

\* A condition variable may wake up by itself.
WakeUp ==
    /\ worker = "asleep"
    /\ worker' = "check"
    /\ UNCHANGED <<calls, ring, running, cur, outputs, controller>>

Take ==
    /\ worker = "check" /\ head # tail
    /\ cur' = entries[head + 1]
    /\ head' = After(head)
    /\ worker' = IF cur'.isEnd THEN "ended" ELSE "print"
    /\ UNCHANGED <<calls, entries, tail, running, outputs, controller>>

PrintEntry ==
    /\ worker = "print"
    /\ console' = Append(console, cur.msg)
    /\ worker' = "write"
    /\ UNCHANGED <<calls, ring, running, cur, file, files, controller>>

Write ==
    /\ worker = "write"
    /\ files' = IF file = None THEN files
                ELSE [files EXCEPT ![file] = Append(@, cur.msg)]
    /\ worker' = "check"
    /\ UNCHANGED <<calls, ring, running, cur, console, file, controller>>

-----------------------------------------------------------------------------
(* The controller.                                                         *)

Ops == {"pause", "file", "colors", "destroy"}

\* The discipline under which pause() is safe: an entry is left besides the
\* one for the end mark.
Roomy == After(tail) # head

PauseRunning(o) ==
    /\ stage = "idle" /\ running
    /\ Roomy \/ AnyPause
    /\ op' = o
    /\ running' = FALSE
    /\ entries' = [entries EXCEPT ![tail + 1].isEnd = TRUE]
    /\ tail' = After(tail)
    /\ worker' = Notify(worker)
    /\ stage' = "join"
    /\ UNCHANGED <<calls, head, cur, outputs>>

PausePaused(o) ==
    /\ stage = "idle" /\ ~ running
    /\ op' = o
    /\ stage' = "paused"
    /\ UNCHANGED <<calls, ring, running, worker, cur, outputs>>

\* thrd.join()
Join ==
    /\ stage = "join" /\ worker = "ended"
    /\ stage' = "paused"
    /\ UNCHANGED <<calls, ring, running, worker, cur, outputs, op>>

EndPause ==
    /\ stage = "paused" /\ op = "pause"
    /\ op' = "none" /\ stage' = "idle"
    /\ UNCHANGED <<calls, ring, running, worker, cur, outputs>>

\* set_file() with a path or without, and set_file() with a path that cannot
\* be opened; fopen() empties the file.
SetFile ==
    /\ stage = "paused" /\ op = "file"
    /\ \E f \in Files \cup {None} :
          /\ file' = f
          /\ files' = [g \in Files |-> IF g = f THEN << >> ELSE files[g]]
    /\ stage' = "resume"
    /\ UNCHANGED <<calls, ring, running, worker, cur, console, op>>

SetColors ==
    /\ stage = "paused" /\ op = "colors"
    /\ stage' = "resume"
    /\ UNCHANGED <<calls, ring, running, worker, cur, outputs, op>>

\* resume(), called by the controller or at the end of set_file(), set_colors().
Resume ==
    /\ stage \in {"idle", "resume"} /\ ~ running
    /\ running' = TRUE
    /\ worker' = "check"
    /\ op' = "none" /\ stage' = "idle"
    /\ UNCHANGED <<calls, ring, cur, outputs>>

\* ~common_log()
Destroy ==
    /\ stage = "paused" /\ op = "destroy"
    /\ file' = None
    /\ op' = "none" /\ stage' = "gone"
    /\ UNCHANGED <<calls, ring, running, worker, cur, console, files>>

-----------------------------------------------------------------------------
Worker == Wait \/ Take \/ PrintEntry \/ Write
\* What a call of the controller does after it began.
Proceed == Join \/ EndPause \/ SetFile \/ SetColors \/ (stage = "resume" /\ Resume) \/ Destroy

Next ==
    \/ Add
    \/ Discard
    \/ Worker
    \/ WakeUp
    \/ \E o \in Ops : PauseRunning(o) \/ PausePaused(o)
    \/ Proceed
    \/ Resume

\* The two threads run; nobody has to call anything.
Spec == Init /\ [][Next]_vars /\ WF_vars(Worker) /\ WF_vars(Proceed)

-----------------------------------------------------------------------------
(* Correctness.                                                            *)

Count == (tail - head) % Size

TypeOK ==
    /\ calls \in 0 .. MaxCalls
    /\ entries \in Seq(Entry) /\ Size >= Capacity
    /\ head \in 0 .. Size - 1 /\ tail \in 0 .. Size - 1
    /\ running \in BOOLEAN
    /\ worker \in {"check", "asleep", "print", "write", "ended"}
    /\ cur \in Entry
    /\ console \in Seq(1 .. MaxCalls)
    /\ file \in Files \cup {None} /\ files \in [Files -> Seq(1 .. MaxCalls)]
    /\ op \in Ops \cup {"none"}
    /\ stage \in {"idle", "join", "paused", "resume", "gone"}

\* The i-th entry that waits for the worker.
Nth(i) == entries[((head + i - 1) % Size) + 1]

\* The end mark of pause() is in the ring exactly as long as the worker is to
\* stop, and it is the last entry: entries that are used again, or moved to a
\* larger ring, carry no mark of an earlier pause.
Ending == ~ running /\ worker # "ended"
OneEndMark ==
    /\ Ending => Count > 0
    /\ \A i \in 1 .. Count : Nth(i).isEnd <=> Ending /\ i = Count

\* The messages that wait: the one the worker is busy with and those in the ring.
Taken == IF worker \in {"print", "write"} THEN <<cur.msg>> ELSE << >>
Waiting == [i \in 1 .. Count - (IF Ending THEN 1 ELSE 0) |-> Nth(i).msg]

Queue == INSTANCE LogQueue WITH
    open <- running,
    pending <- Taken \o Waiting,
    shown <- worker = "write"

\* The ring, its growth, the end mark and the handing over of the file are a
\* queue: every message logged while the log is not paused is printed once,
\* in order, to the console and to the file set when it was logged, in the end.
ImplementsQueue == Queue!Spec

\* pause() and the calls that begin with it return: the worker finds its end
\* mark ("push an entry to signal the worker thread to stop").
PauseReturns == (stage = "join") ~> (stage # "join")
=============================================================================
