--------------------------- MODULE MCRoutingTable ---------------------------
(***************************************************************************)
(* Instances of RoutingTable for TLC: 3-bit ids with the xor of the        *)
(* machine.                                                                *)
(***************************************************************************)
EXTENDS RoutingTable
LOCAL Bits == INSTANCE Bitwise

CONSTANTS a1, a2

XorBits(x, y) == Bits!^^(x, y)

(* One contact at each id, but the one with id 2 may also show up at a     *)
(* second address.                                                         *)
At(ids) == [id : ids, addr : {a1}] \cup [id : ids \cap {2}, addr : {a2}]

KnownFar == At({0, 1, 2, 4})
=============================================================================
