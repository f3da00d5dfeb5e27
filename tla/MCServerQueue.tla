----------------------------- MODULE MCServerQueue -----------------------------
(***************************************************************************)
(* Instances of ServerQueue for TLC.                                       *)
(***************************************************************************)
EXTENDS ServerQueue

CONSTANTS r1, r2, r3

ThreeRequests == {r1, r2, r3}
MCPipelined == {r1, r2}
================================================================================
