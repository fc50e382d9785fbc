------------------------------ MODULE LogQueue ------------------------------
(***************************************************************************)
(* What the logger of src/llyy.cpp/common/log.cpp promises: a queue.  A    *)
(* message that is logged while the log is open is shown on the console    *)
(* and written to the file that is set, in the order of the calls; one     *)
(* that is logged while it is closed is discarded.  The file changes only  *)
(* when the queue is empty, so every message goes to the file that was set *)
(* when it was logged.                                                     *)
(***************************************************************************)
EXTENDS Naturals, Sequences

CONSTANTS
    Files,      \* paths
    None,       \* no file
    MaxCalls    \* bound: calls of add()

VARIABLES
    calls,      \* the number of calls so far; the n-th one logs message n
    open,       \* whether messages are accepted
    pending,    \* accepted, not yet done with
    shown,      \* whether the first of them is on the console
    console,    \* what was shown
    file,       \* the file that is set
    files       \* files[f]: what was written to f since it was last opened

vars == <<calls, open, pending, shown, console, file, files>>

Init ==
    /\ calls = 0 /\ open = TRUE
    /\ pending = << >> /\ shown = FALSE /\ console = << >>
    /\ file = None /\ files = [f \in Files |-> << >>]

Log ==
    /\ calls < MaxCalls
    /\ calls' = calls + 1
    /\ pending' = IF open THEN Append(pending, calls') ELSE pending
    /\ UNCHANGED <<open, shown, console, file, files>>

Show ==
    /\ pending # << >> /\ ~ shown
    /\ console' = Append(console, Head(pending))
    /\ shown' = TRUE
    /\ UNCHANGED <<calls, open, pending, file, files>>

Store ==
    /\ shown
    /\ files' = IF file = None THEN files
                ELSE [files EXCEPT ![file] = Append(@, Head(pending))]
    /\ pending' = Tail(pending)
    /\ shown' = FALSE
    /\ UNCHANGED <<calls, open, console, file>>

Close ==
    /\ open /\ open' = FALSE
    /\ UNCHANGED <<calls, pending, shown, console, file, files>>

Reopen ==
    /\ ~ open /\ pending = << >>
    /\ open' = TRUE
    /\ UNCHANGED <<calls, pending, shown, console, file, files>>

\* Opening a file empties it.
SetFile(f) ==
    /\ ~ open /\ pending = << >>
    /\ file' = f
    /\ files' = [g \in Files |-> IF g = f THEN << >> ELSE files[g]]
    /\ UNCHANGED <<calls, open, pending, shown, console>>

Next == Log \/ Show \/ Store \/ Close \/ Reopen \/ \E f \in Files \cup {None} : SetFile(f)

\* What was accepted is shown and written in the end.
Spec == Init /\ [][Next]_vars /\ WF_vars(Show) /\ WF_vars(Store)
=============================================================================
