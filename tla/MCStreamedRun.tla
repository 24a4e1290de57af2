---------------------------- MODULE MCStreamedRun ---------------------------
(* Model-checking instance of StreamedRun. *)
EXTENDS StreamedRun

CONSTANTS s1, s2, final
=============================================================================
