----------------------------- MODULE MCAttention -----------------------------
(* The instance of Attention that TLC checks: two daemons that are each      *)
(* other's peers, `a` first by its id, and the window of one console on `a`. *)
EXTENDS Attention, TLC
CONSTANTS a, b, w
MCRank == (a :> 1) @@ (b :> 2)
MCPeersOf == (a :> {b}) @@ (b :> {a})
MCHome == w :> a
=============================================================================
