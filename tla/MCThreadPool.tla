---------------------------- MODULE MCThreadPool ----------------------------
(* ThreadPool with three threads and graphs of three nodes, one of each    *)
(* kind; callers ask for one thread up to one too many.                    *)
EXTENDS ThreadPool

MCKinds == <<"chunked", "split", "rows">>
MCCounts == {1, 2, 3, 4}
=============================================================================
