---------------------------- MODULE MCCommonLog ----------------------------
(* CommonLog with two files; the ring starts with two entries and doubles  *)
(* twice.                                                                  *)
EXTENDS CommonLog

CONSTANTS f1, f2

MCFiles == {f1, f2}
=============================================================================
