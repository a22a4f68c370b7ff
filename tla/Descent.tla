-------------------------------- MODULE Descent --------------------------------
(***************************************************************************)
(* That a natural number does not decrease for ever.  Every execution of   *)
(* every specification satisfies Settles; it stands for the induction over *)
(* temporal formulas that a proof of termination needs.                    *)
(***************************************************************************)
EXTENDS Naturals

\* A state function m with natural values that from some state on never
\* increases keeps its value from some state on.  Steps are steps of v.
Settles(m, v) == [](m \in Nat) /\ <>[][m' <= m]_v => <>[][m' = m]_v
=============================================================================
