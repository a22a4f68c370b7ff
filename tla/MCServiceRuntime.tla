--------------------------- MODULE MCServiceRuntime ---------------------------
(* Finite instances of ServiceRuntime: one supervised function of each kind     *)
(* and one HTTP request.                                                       *)
EXTENDS ServiceRuntime

CONSTANTS g1, l1, p1
=============================================================================
