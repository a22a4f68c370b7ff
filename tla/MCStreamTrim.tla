----------------------------- MODULE MCStreamTrim -----------------------------
(* Finite instances of StreamTrim: two processes that publish to and trim the  *)
(* same stream.                                                               *)
EXTENDS StreamTrim

CONSTANTS i1, i2
=============================================================================
