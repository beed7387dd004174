--------------------------- MODULE MCContactFinder --------------------------
(***************************************************************************)
(* Instances of ContactFinder for TLC: small networks, in each of which    *)
(* the search starts far from its target and hears of closer nodes.        *)
(***************************************************************************)
EXTENDS ContactFinder, TLC

Nodes == 0 .. 4

(* Node 4 leads to the rest; 0 is this node.                               *)
Tree == 0 :> {} @@ 1 :> {0, 2} @@ 2 :> {1, 4} @@ 3 :> {1, 2, 4} @@ 4 :> {2, 3}
=============================================================================
