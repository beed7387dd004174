------------------------------- MODULE MCNode -------------------------------
(***************************************************************************)
(* Instances of Node and Dht for TLC.  A run is the life of one of them;   *)
(* the other stays as it begins, where nothing of it is under way and no   *)
(* fairness asks for a step.                                               *)
(***************************************************************************)
EXTENDS Node, Dht, TLC

CONSTANTS c1, c2, self, n1, n2, here, a1

At(i, a) == [id |-> i, addr |-> a]
To(c, skip) == [id |-> c.id, addr |-> c.addr, skipIDCheck |-> skip]

(* The node asked, its id from elsewhere, and this node's id, from there.  *)
Lives == {At(n1, a1), At(n1, here), At(self, a1)}

(* A query to a node; for one call also a ping of its address under        *)
(* another, made-up id, as of a seed node, and a query to this node's id.  *)
Query   == To(At(n1, a1), FALSE)
Queries == c1 :> {Query, To(At(n2, a1), TRUE), To(At(self, here), FALSE)} @@ c2 :> {Query}

-----------------------------------------------------------------------------
VARIABLE part       \* whose life it is

MCInit == part \in {"node", "dht"} /\ Init /\ DhtInit /\ (part = "node" => ~rpcPort)

MCNext ==
    /\ UNCHANGED part
    /\ \/ part = "node" /\ Next /\ UNCHANGED dhtVars
       \/ part = "dht" /\ DhtNext /\ UNCHANGED vars

MCSpec == MCInit /\ [][MCNext]_<<part, vars, dhtVars>> /\ Fairness /\ DhtFairness
=============================================================================
