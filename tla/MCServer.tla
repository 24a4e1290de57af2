------------------------------ MODULE MCServer ------------------------------
(* Model-checking instance of RelayServer. *)
EXTENDS RelayServer

CONSTANTS v1, broken, edited, plain, set, r1, r2, old, n1, n2, f1, f2, f3, f4, none

\* No Tests folder yet, or one with a subfolder.
MCTrees ==
  {[f \in Folders |-> "unused"],
   [f \in Folders |-> IF f = f1 THEN "top" ELSE IF f = f2 THEN f1 ELSE "unused"]}
=============================================================================
