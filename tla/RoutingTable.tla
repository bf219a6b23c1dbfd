---------------------------- MODULE RoutingTable ----------------------------
(***************************************************************************)
(* The routing table of RHRouter.cpp: an array of entries that is searched *)
(* from its start, in which a deletion moves the later entries down and    *)
(* leaves stale entries, marked Invalid, behind.                           *)
(***************************************************************************)
EXTENDS Naturals, FiniteSets

CONSTANTS
    Size,           \* RH_ROUTING_TABLE_SIZE
    Dest, Hop,      \* addresses of destinations and of neighbours
    NoHop           \* the NULL of getRouteTo()

ASSUME SizeAssumption == Size \in Nat \ {0}
ASSUME HopAssumption == NoHop \notin Hop

VARIABLE routes                 \* _routes

Slots == 0 .. Size - 1
Entry == [dest : Dest, next_hop : Hop, state : {"Invalid", "Discovering", "Valid"}]

First(S) == CHOOSE i \in S : \A j \in S : i <= j

Matching(d) == {i \in Slots : routes[i].dest = d}
InvalidSlots(r) == {i \in Slots : r[i].state = "Invalid"}
Usable(d) == {i \in Matching(d) : routes[i].state # "Invalid"}

(* getRouteTo()                                                            *)
GetRouteTo(d) == IF Usable(d) = {} THEN NoHop ELSE routes[First(Usable(d))].next_hop

(* Mutant: the last entry stays valid.                                     *)
ShiftedDown(r, index) ==
    [i \in Slots |-> IF i >= index /\ i < Size - 1 THEN r[i + 1] ELSE r[i]]

(* Mutant: the entry after the one asked for goes.                         *)
DeletedNext(r, index) ==
    [i \in Slots |->
        IF i = Size - 1 THEN [r[i] EXCEPT !.state = "Invalid"]
        ELSE IF i > index THEN r[i + 1] ELSE r[i]]

(* deleteRoute(): the entries after index move down by one; the last slot  *)
(* keeps its destination.                                                  *)
Deleted(r, index) ==
    [i \in Slots |->
        IF i = Size - 1 THEN [r[i] EXCEPT !.state = "Invalid"]
        ELSE IF i >= index THEN r[i + 1] ELSE r[i]]

(* Mutant: the invalid entries are not used before the oldest is retired.  *)
AddedByRetiring(r, e) ==
    IF Matching(e.dest) # {} THEN [r EXCEPT ![First(Matching(e.dest))] = e]
    ELSE LET retired == Deleted(r, 0)
         IN [i \in Slots |-> IF i \in InvalidSlots(retired) THEN e ELSE retired[i]]

(* addRouteTo(): update the entry of d, stale or not; else take the first  *)
(* invalid one; else retire the oldest and write every invalid entry.      *)
Added(r, e) ==
    IF Matching(e.dest) # {} THEN [r EXCEPT ![First(Matching(e.dest))] = e]
    ELSE IF InvalidSlots(r) # {} THEN [r EXCEPT ![First(InvalidSlots(r))] = e]
    ELSE LET retired == Deleted(r, 0)
         IN [i \in Slots |-> IF i \in InvalidSlots(retired) THEN e ELSE retired[i]]

AddRouteTo(d, h) ==
    \E s \in {"Discovering", "Valid"} :
        routes' = Added(routes, [dest |-> d, next_hop |-> h, state |-> s])

DeleteRouteTo(d) ==
    /\ Matching(d) # {}
    /\ routes' = Deleted(routes, First(Matching(d)))

RetireOldestRoute == routes' = Deleted(routes, 0)

ClearRoutingTable == routes' = [i \in Slots |-> [routes[i] EXCEPT !.state = "Invalid"]]

(* The constructor clears a table whose memory it has not written.         *)
Init == routes \in [Slots -> {e \in Entry : e.state = "Invalid"}]

Next ==
    \/ \E d \in Dest, h \in Hop : AddRouteTo(d, h)
    \/ \E d \in Dest : DeleteRouteTo(d)
    \/ RetireOldestRoute
    \/ ClearRoutingTable

Spec == Init /\ [][Next]_routes

-----------------------------------------------------------------------------
TypeOK == routes \in [Slots -> Entry]

(* Of the entries of a destination only the first can be in use.  Without  *)
(* it addRouteTo() would update a stale entry and leave an old route to be *)
(* found, and deleteRouteTo() delete a stale one and leave the route.      *)
FirstWins ==
    \A i, j \in Slots :
        i < j /\ routes[i].dest = routes[j].dest => routes[j].state = "Invalid"

(* The table is the map its callers see through getRouteTo(): it forgets   *)
(* no route it is not told to forget while there is room for a new one.    *)
HopOf == [d \in Dest |-> GetRouteTo(d)]
Map == INSTANCE RouteMap WITH hop <- HopOf, Capacity <- Size
ImplementsMap == Map!RMSpec

(* Each operation does to the map what its arguments say: addRouteTo()     *)
(* makes d known whatever the stale entries, and deleteRouteTo(), whose    *)
(* search takes stale entries for routes, takes d's route and no other.    *)
ActsAsMap ==
    [][/\ \A d \in Dest, h \in Hop : AddRouteTo(d, h) => Map!Learn(d, h)
       /\ \A d \in Dest : DeleteRouteTo(d) => Map!Forget(d)
       /\ ClearRoutingTable => Map!ForgetAll]_routes
=============================================================================
