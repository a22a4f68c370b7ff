----------------------------- MODULE MCGatewayRpc -----------------------------
(* A finite instance of GatewayRpc: three calls that overlap.                 *)
EXTENDS GatewayRpc, TLC

CONSTANTS c1, c2, c3
=============================================================================
