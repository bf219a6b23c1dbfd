------------------------------ MODULE RouteMap ------------------------------
(***************************************************************************)
(* What the routing table of RHRouter promises its callers: a map from     *)
(* destinations to next hops with room for Capacity destinations, which    *)
(* forgets a destination only when it is told to or when a new one finds   *)
(* no room.                                                                *)
(***************************************************************************)
EXTENDS Naturals, FiniteSets

CONSTANTS Dest, Hop, NoHop, Capacity

VARIABLE hop                    \* hop[d]: where to send what is for d

Known == {d \in Dest : hop[d] # NoHop}

RMInit == hop = [d \in Dest |-> NoHop]

(* A new destination takes a free place, or the place of some other.       *)
Learn(d, h) ==
    \/ /\ hop[d] # NoHop \/ Cardinality(Known) < Capacity
       /\ hop' = [hop EXCEPT ![d] = h]
    \/ /\ hop[d] = NoHop /\ Cardinality(Known) >= Capacity
       /\ \E v \in Known : hop' = [hop EXCEPT ![v] = NoHop, ![d] = h]

Forget(d) == hop' = [hop EXCEPT ![d] = NoHop]

ForgetAll == hop' = [d \in Dest |-> NoHop]

RMNext ==
    \/ \E d \in Dest, h \in Hop : Learn(d, h)
    \/ \E d \in Dest : Forget(d)
    \/ ForgetAll

RMSpec == RMInit /\ [][RMNext]_hop
=============================================================================
