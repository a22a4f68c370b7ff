------------------------------ MODULE MCEmitters ------------------------------
(* A finite instance of Emitters; the bounds are in the cfg.                   *)
EXTENDS Emitters, TLC
=============================================================================
