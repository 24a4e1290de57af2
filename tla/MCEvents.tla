------------------------------ MODULE MCEvents ------------------------------
(* Model-checking instance of RelayEvents. *)
EXTENDS RelayEvents

CONSTANTS j1, j2
=============================================================================
