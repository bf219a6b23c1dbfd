-------------------------- MODULE RoutingTableProofs --------------------------
(***************************************************************************)
(* The routing table, for every size and every set of addresses.           *)
(***************************************************************************)
EXTENDS RoutingTable, WellFoundedInduction, FiniteSetTheorems, TLAPS

(* FirstWins of any table, so that it can be said of an intermediate one.  *)
OnlyFirstInUse(r) ==
    \A i, j \in Slots : i < j /\ r[i].dest = r[j].dest => r[j].state = "Invalid"

(* A search from the start of the table finds the lowest matching slot.    *)
LEMMA FirstIsLeast ==
  ASSUME NEW S \in SUBSET Nat, S # {}
  PROVE  First(S) \in S /\ \A j \in S : First(S) <= j
<1> DEFINE R == {ss \in Nat \X Nat : ss[1] < ss[2]}
<1>1. IsWellFoundedOn(R, Nat)
  BY NatLessThanWellFounded DEF OpToRel
<1>2. PICK x \in S : \A y \in S : ~(<<y, x>> \in R)
  <2> HIDE DEF R
  <2> QED BY <1>1, WFMin
<1>3. \A y \in S : x <= y
  <2> TAKE y \in S
  <2>1. x \in Nat /\ y \in Nat
    OBVIOUS
  <2>2. ~(y < x)
    BY <1>2, <2>1
  <2> QED BY <2>1, <2>2
<1> QED BY <1>3 DEF First

(* deleteRoute() leaves a table, with a free last slot.                    *)
LEMMA DeletedType ==
  ASSUME NEW r \in [Slots -> Entry], NEW k \in Slots
  PROVE  /\ Deleted(r, k) \in [Slots -> Entry]
         /\ Size - 1 \in InvalidSlots(Deleted(r, k))
<1>1. Size \in Nat \ {0}
  BY SizeAssumption
<1>2. ASSUME NEW i \in Slots
      PROVE  Deleted(r, k)[i] \in Entry
  <2>1. CASE i = Size - 1
    BY <2>1 DEF Deleted, Entry
  <2>2. CASE i # Size - 1 /\ i >= k
    <3>1. i + 1 \in Slots
      BY <1>1, <2>2 DEF Slots
    <3> QED BY <2>2, <3>1 DEF Deleted
  <2>3. CASE i # Size - 1 /\ ~(i >= k)
    BY <2>3 DEF Deleted
  <2> QED BY <2>1, <2>2, <2>3
<1>3. Deleted(r, k) \in [Slots -> Entry]
  BY <1>2 DEF Deleted
<1>4. Size - 1 \in Slots
  BY <1>1 DEF Slots
<1>5. Deleted(r, k)[Size - 1].state = "Invalid"
  BY <1>4 DEF Deleted, Entry
<1> QED BY <1>3, <1>4, <1>5 DEF InvalidSlots

(* deleteRoute() never lets a second entry of a destination into use.      *)
LEMMA DeletedOnlyFirst ==
  ASSUME NEW r \in [Slots -> Entry], NEW k \in Slots, OnlyFirstInUse(r)
  PROVE  OnlyFirstInUse(Deleted(r, k))
<1> DEFINE From(i) == IF i >= k THEN i + 1 ELSE i
<1>1. Size \in Nat \ {0}
  BY SizeAssumption
<1>2. ASSUME NEW i \in Slots, NEW j \in Slots, i < j,
             Deleted(r, k)[i].dest = Deleted(r, k)[j].dest
      PROVE  Deleted(r, k)[j].state = "Invalid"
  <2>1. CASE j = Size - 1
    BY <2>1, DeletedType DEF InvalidSlots
  <2>2. CASE j # Size - 1
    <3>1. /\ From(i) \in Slots /\ From(j) \in Slots
          /\ From(i) < From(j)
      BY <1>1, <1>2, <2>2 DEF Slots
    <3>2. Deleted(r, k)[i] = r[From(i)] /\ Deleted(r, k)[j] = r[From(j)]
      BY <1>1, <1>2, <2>2 DEF Slots, Deleted
    <3> HIDE DEF From
    <3> QED BY <1>2, <3>1, <3>2 DEF OnlyFirstInUse
  <2> QED BY <2>1, <2>2
<1> QED BY <1>2 DEF OnlyFirstInUse

(* A full table frees exactly its last slot when it retires the oldest, so *)
(* the last loop of addRouteTo(), which does not stop at the first entry   *)
(* it writes, writes one.                                                  *)
LEMMA RetiringFreesOneSlot ==
  ASSUME TypeOK, InvalidSlots(routes) = {}
  PROVE  InvalidSlots(Deleted(routes, 0)) = {Size - 1}
<1>1. Size \in Nat \ {0} /\ 0 \in Slots
  BY SizeAssumption DEF Slots
<1>2. Size - 1 \in InvalidSlots(Deleted(routes, 0))
  BY <1>1, DeletedType DEF TypeOK
<1>3. ASSUME NEW i \in Slots, i # Size - 1
      PROVE  i \notin InvalidSlots(Deleted(routes, 0))
  <2>1. i >= 0 /\ i + 1 \in Slots
    BY <1>1, <1>3 DEF Slots
  <2>2. Deleted(routes, 0)[i] = routes[i + 1]
    BY <1>3, <2>1 DEF Deleted
  <2> QED BY <2>1, <2>2 DEF InvalidSlots
<1> QED BY <1>2, <1>3 DEF InvalidSlots

(* addRouteTo() leaves a table with one entry in use per destination.      *)
LEMMA AddedOnlyFirst ==
  ASSUME TypeOK, FirstWins, NEW e \in Entry
  PROVE  /\ Added(routes, e) \in [Slots -> Entry]
         /\ OnlyFirstInUse(Added(routes, e))
<1>1. Size \in Nat \ {0} /\ 0 \in Slots /\ Slots \subseteq Nat
  BY SizeAssumption DEF Slots
<1>2. CASE Matching(e.dest) # {}
  <2> DEFINE k == First(Matching(e.dest))
  <2>1. k \in Matching(e.dest) /\ \A i \in Matching(e.dest) : k <= i
    BY <1>1, <1>2, FirstIsLeast DEF Matching
  <2>2. Added(routes, e) = [routes EXCEPT ![k] = e]
    BY <1>2 DEF Added
  <2> HIDE DEF k
  <2>3. \A i, j \in Slots : i < j /\ Added(routes, e)[i].dest = Added(routes, e)[j].dest
           => Added(routes, e)[j].state = "Invalid"
    BY <1>1, <2>1, <2>2 DEF Matching, FirstWins, TypeOK
  <2> QED BY <2>1, <2>2, <2>3 DEF OnlyFirstInUse, TypeOK, Matching
<1>3. CASE Matching(e.dest) = {} /\ InvalidSlots(routes) # {}
  <2> DEFINE k == First(InvalidSlots(routes))
  <2>1. k \in InvalidSlots(routes)
    BY <1>1, <1>3, FirstIsLeast DEF InvalidSlots
  <2>2. Added(routes, e) = [routes EXCEPT ![k] = e]
    BY <1>3 DEF Added
  <2> HIDE DEF k
  <2>3. \A i, j \in Slots : i < j /\ Added(routes, e)[i].dest = Added(routes, e)[j].dest
           => Added(routes, e)[j].state = "Invalid"
    BY <1>1, <1>3, <2>1, <2>2 DEF Matching, InvalidSlots, FirstWins, TypeOK
  <2> QED BY <2>1, <2>2, <2>3 DEF OnlyFirstInUse, TypeOK, InvalidSlots
<1>4. CASE Matching(e.dest) = {} /\ InvalidSlots(routes) = {}
  <2> DEFINE retired == Deleted(routes, 0)
  <2>1. InvalidSlots(retired) = {Size - 1} /\ retired \in [Slots -> Entry]
    BY <1>1, <1>4, RetiringFreesOneSlot, DeletedType DEF TypeOK
  <2>2. OnlyFirstInUse(retired)
    BY <1>1, DeletedOnlyFirst DEF TypeOK, FirstWins, OnlyFirstInUse
  <2>3. \A i \in Slots \ {Size - 1} : retired[i].dest # e.dest
    <3> SUFFICES ASSUME NEW i \in Slots, i # Size - 1
                 PROVE  retired[i].dest # e.dest
      OBVIOUS
    <3>1. i >= 0 /\ i + 1 \in Slots
      BY <1>1 DEF Slots
    <3>2. retired[i] = routes[i + 1]
      BY <3>1 DEF Deleted
    <3> QED BY <1>4, <3>1, <3>2 DEF Matching
  <2>4. Added(routes, e) = [i \in Slots |-> IF i \in {Size - 1} THEN e ELSE retired[i]]
    BY <1>4, <2>1 DEF Added
  <2> HIDE DEF retired
  <2>5. \A i, j \in Slots : i < j /\ Added(routes, e)[i].dest = Added(routes, e)[j].dest
           => Added(routes, e)[j].state = "Invalid"
    <3> SUFFICES ASSUME NEW i \in Slots, NEW j \in Slots, i < j,
                        Added(routes, e)[i].dest = Added(routes, e)[j].dest
                 PROVE  Added(routes, e)[j].state = "Invalid"
      OBVIOUS
    <3>1. i # Size - 1
      BY <1>1 DEF Slots
    <3>2. Added(routes, e)[i] = retired[i]
      BY <2>4, <3>1
    <3>3. j # Size - 1
      BY <2>3, <2>4, <3>1, <3>2
    <3> QED BY <2>2, <2>4, <3>2, <3>3 DEF OnlyFirstInUse
  <2>6. Added(routes, e) \in [Slots -> Entry]
    BY <2>1, <2>4
  <2> QED BY <2>5, <2>6 DEF OnlyFirstInUse
<1> QED BY <1>2, <1>3, <1>4

-----------------------------------------------------------------------------
(* The inductive invariant of the table.                                   *)
TableInv == TypeOK /\ FirstWins

(* A constructed table satisfies the invariant.                            *)
LEMMA InitTableInv == Init => TableInv
<1> SUFFICES ASSUME Init PROVE TableInv
  OBVIOUS
<1>1. routes \in [Slots -> {e \in Entry : e.state = "Invalid"}]
  BY DEF Init
<1> QED BY <1>1 DEF TableInv, TypeOK, FirstWins

(* Every operation preserves it.                                           *)
LEMMA NextTableInv == TableInv /\ [Next]_routes => TableInv'
<1> SUFFICES ASSUME TableInv, [Next]_routes PROVE TableInv'
  OBVIOUS
<1> USE DEF TableInv
<1>0. FirstWins => OnlyFirstInUse(routes)
  BY DEF FirstWins, OnlyFirstInUse
<1>1. CASE \E d \in Dest, h \in Hop : AddRouteTo(d, h)
  <2>1. PICK e \in Entry : routes' = Added(routes, e)
    BY <1>1 DEF AddRouteTo, Entry
  <2> QED BY <2>1, AddedOnlyFirst DEF TypeOK, FirstWins, OnlyFirstInUse
<1>2. CASE \E d \in Dest : DeleteRouteTo(d)
  <2>1. PICK d \in Dest : DeleteRouteTo(d)
    BY <1>2
  <2>2. First(Matching(d)) \in Slots
    BY <2>1, SizeAssumption, FirstIsLeast DEF DeleteRouteTo, Matching, Slots
  <2> QED BY <1>0, <2>1, <2>2, DeletedType, DeletedOnlyFirst
          DEF DeleteRouteTo, TypeOK, FirstWins, OnlyFirstInUse
<1>3. CASE RetireOldestRoute
  <2>1. 0 \in Slots
    BY SizeAssumption DEF Slots
  <2> QED BY <1>0, <1>3, <2>1, DeletedType, DeletedOnlyFirst
          DEF RetireOldestRoute, TypeOK, FirstWins, OnlyFirstInUse
<1>4. CASE ClearRoutingTable
  <2>1. \A i \in Slots : routes'[i] \in Entry /\ routes'[i].state = "Invalid"
    BY <1>4 DEF ClearRoutingTable, TypeOK, Entry
  <2>2. routes' = [i \in Slots |-> routes'[i]]
    BY <1>4 DEF ClearRoutingTable
  <2> QED BY <2>1, <2>2 DEF TypeOK, FirstWins
<1>5. CASE UNCHANGED routes
  BY <1>5 DEF TypeOK, FirstWins
<1> QED BY <1>1, <1>2, <1>3, <1>4, <1>5 DEF Next

(* The array of RHRouter always holds RH_ROUTING_TABLE_SIZE entries.       *)
THEOREM TypeCorrect == Spec => []TypeOK
<1>1. TableInv => TypeOK
  BY DEF TableInv
<1> QED BY InitTableInv, NextTableInv, <1>1, PTL DEF Spec

(* However addRouteTo(), deleteRouteTo(), retireOldestRoute() and          *)
(* clearRoutingTable() follow each other, a destination has one entry in   *)
(* use, and no stale entry of its own before it.                           *)
THEOREM OneEntryInUse == Spec => []FirstWins
<1>1. TableInv => FirstWins
  BY DEF TableInv
<1> QED BY InitTableInv, NextTableInv, <1>1, PTL DEF Spec
-----------------------------------------------------------------------------
(* The map behind the table.                                               *)
InUse(i, d) == routes[i].dest = d /\ routes[i].state # "Invalid"

(* getRouteTo() finds the entry in use, wherever it is.                    *)
LEMMA LookupSound ==
  TableInv =>
    /\ HopOf \in [Dest -> Hop \cup {NoHop}]
    /\ \A i \in Slots, d \in Dest :
         InUse(i, d) => HopOf[d] = routes[i].next_hop /\ HopOf[d] # NoHop
    /\ \A d \in Dest : HopOf[d] # NoHop => \E i \in Slots : InUse(i, d)
<1> SUFFICES ASSUME TableInv
             PROVE  \A d \in Dest :
                      /\ GetRouteTo(d) \in Hop \cup {NoHop}
                      /\ \A i \in Slots : InUse(i, d) =>
                           GetRouteTo(d) = routes[i].next_hop /\ GetRouteTo(d) # NoHop
                      /\ GetRouteTo(d) # NoHop => \E i \in Slots : InUse(i, d)
  BY DEF HopOf
<1> TAKE d \in Dest
<1>1. Slots \subseteq Nat /\ Usable(d) \subseteq Slots
  BY SizeAssumption DEF Slots, Usable, Matching
<1>2. \A i \in Slots : i \in Usable(d) <=> InUse(i, d)
  BY DEF Usable, Matching, InUse
<1>3. CASE Usable(d) = {}
  BY <1>2, <1>3 DEF GetRouteTo
<1>4. CASE Usable(d) # {}
  <2> DEFINE k == First(Usable(d))
  <2>1. k \in Usable(d) /\ \A j \in Usable(d) : k <= j
    BY <1>1, <1>4, FirstIsLeast
  <2>2. GetRouteTo(d) = routes[k].next_hop
    BY <1>4 DEF GetRouteTo
  <2> HIDE DEF k
  <2>3. \A j \in Usable(d) : j = k
    <3> SUFFICES ASSUME NEW j \in Usable(d), j # k PROVE FALSE
      OBVIOUS
    <3>1. k \in Nat /\ j \in Nat /\ k <= j
      BY <1>1, <2>1
    <3>2. k < j
      BY <3>1
    <3> QED BY <1>1, <2>1, <3>2 DEF TableInv, FirstWins, Usable, Matching
  <2>4. routes[k].next_hop \in Hop
    BY <1>1, <2>1 DEF TableInv, TypeOK, Entry
  <2> QED BY <1>1, <1>2, <2>1, <2>2, <2>3, <2>4, HopAssumption
<1> QED BY <1>3, <1>4

(* RouteMap counts its destinations as this module does.                   *)
LEMMA MapCardinality == \A S : Map!Cardinality(S) = Cardinality(S)
  BY DEF Map!Cardinality, Cardinality

(* The known destinations take a slot each.                                *)
LEMMA RoomLeft ==
  TableInv =>
    /\ IsFiniteSet(Map!Known)
    /\ InvalidSlots(routes) # {} => Cardinality(Map!Known) < Size
    /\ InvalidSlots(routes) = {} => Cardinality(Map!Known) >= Size
<1> SUFFICES ASSUME TableInv
             PROVE  /\ IsFiniteSet(Map!Known)
                    /\ InvalidSlots(routes) # {} => Cardinality(Map!Known) < Size
                    /\ InvalidSlots(routes) = {} => Cardinality(Map!Known) >= Size
  OBVIOUS
<1> DEFINE K == Map!Known
           Held == Slots \ InvalidSlots(routes)
           slot == [d \in K |-> CHOOSE i \in Slots : InUse(i, d)]
<1>1. IsFiniteSet(Slots) /\ Cardinality(Slots) = Size
  BY SizeAssumption, FS_Interval DEF Slots
<1>2. \A d \in K : slot[d] \in Held /\ InUse(slot[d], d)
  BY LookupSound DEF Map!Known, InUse, InvalidSlots
<1>3. slot \in Injection(K, Held)
  BY <1>2 DEF Injection, IsInjective, InUse
<1>4. IsFiniteSet(Held) /\ Cardinality(Held) <= Size
  BY <1>1, FS_Subset
<1>5. IsFiniteSet(K) /\ Cardinality(K) <= Cardinality(Held)
  <2> HIDE DEF slot, K, Held
  <2> QED BY <1>3, <1>4, FS_Injection
<1>6. ASSUME InvalidSlots(routes) # {}
      PROVE  Cardinality(K) < Size
  <2>1. PICK k \in Slots : k \in InvalidSlots(routes)
    BY <1>6 DEF InvalidSlots
  <2>2. IsFiniteSet(Slots \ {k}) /\ Cardinality(Slots \ {k}) = Size - 1
    BY <1>1, <2>1, FS_RemoveElement
  <2>3. Held \in SUBSET (Slots \ {k})
    BY <2>1
  <2>4. Cardinality(Held) <= Size - 1
    BY <2>2, <2>3, FS_Subset
  <2> HIDE DEF K, Held
  <2>5. Cardinality(K) \in Nat /\ Cardinality(Held) \in Nat
    BY <1>4, <1>5, FS_CardinalityType
  <2> QED BY <1>5, <2>4, <2>5, SizeAssumption
<1>7. ASSUME InvalidSlots(routes) = {}
      PROVE  Cardinality(K) >= Size
  <2> DEFINE dest == [i \in Slots |-> routes[i].dest]
  <2>1. \A i \in Slots : routes[i].dest \in Dest /\ InUse(i, routes[i].dest)
    BY <1>7 DEF TableInv, TypeOK, Entry, InvalidSlots, InUse
  <2>2. \A i \in Slots : routes[i].dest \in K
    BY <2>1, LookupSound DEF Map!Known
  <2>3. \A i, j \in Slots : routes[i].dest = routes[j].dest => i = j
    <3> SUFFICES ASSUME NEW i \in Slots, NEW j \in Slots, i < j,
                        routes[i].dest = routes[j].dest
                 PROVE  FALSE
      BY SizeAssumption DEF Slots
    <3> QED BY <1>7 DEF TableInv, FirstWins, InvalidSlots
  <2>4. dest \in Injection(Slots, K)
    BY <2>2, <2>3 DEF Injection, IsInjective
  <2>5. Cardinality(Slots) <= Cardinality(K)
    <3> HIDE DEF dest, K
    <3> QED BY <1>5, <2>4, FS_Injection
  <2> HIDE DEF K
  <2> QED BY <1>1, <1>5, <2>5, FS_CardinalityType, SizeAssumption
<1> QED BY <1>5, <1>6, <1>7
-----------------------------------------------------------------------------
(* Every operation maps to a step of the map.                              *)

(* LookupSound of the table an operation leaves.                           *)
LEMMA LookupSoundNext ==
  TableInv' =>
    /\ HopOf' \in [Dest -> Hop \cup {NoHop}]
    /\ \A i \in Slots, d \in Dest :
         InUse(i, d)' => HopOf'[d] = routes'[i].next_hop /\ HopOf'[d] # NoHop
    /\ \A d \in Dest : HopOf'[d] # NoHop => \E i \in Slots : InUse(i, d)'
<1>1. (TableInv =>
         /\ HopOf \in [Dest -> Hop \cup {NoHop}]
         /\ \A i \in Slots, d \in Dest :
              InUse(i, d) => HopOf[d] = routes[i].next_hop /\ HopOf[d] # NoHop
         /\ \A d \in Dest : HopOf[d] # NoHop => \E i \in Slots : InUse(i, d))'
  BY LookupSound, PTL
<1> QED BY <1>1

(* An entry in use that only moves keeps its destination's next hop.       *)
LEMMA MovedRoute ==
  ASSUME TableInv, TableInv', NEW x \in Dest,
         \A i \in Slots : InUse(i, x) =>
           \E j \in Slots : InUse(j, x)' /\ routes'[j].next_hop = routes[i].next_hop,
         \A j \in Slots : InUse(j, x)' => \E i \in Slots : InUse(i, x)
  PROVE  HopOf'[x] = HopOf[x]
<1>1. CASE \E i \in Slots : InUse(i, x)
  <2>1. PICK i \in Slots : InUse(i, x)
    BY <1>1
  <2>2. PICK j \in Slots : InUse(j, x)' /\ routes'[j].next_hop = routes[i].next_hop
    BY <2>1
  <2> QED BY <2>1, <2>2, LookupSound, LookupSoundNext
<1>2. CASE \A i \in Slots : ~InUse(i, x)
  <2>1. HopOf[x] = NoHop
    BY <1>2, LookupSound
  <2>2. HopOf'[x] = NoHop
    BY <1>2, LookupSoundNext
  <2> QED BY <2>1, <2>2
<1> QED BY <1>1, <1>2

(* deleteRoute() takes away the route of the deleted entry and no other.   *)
LEMMA DeletedMap ==
  ASSUME TableInv, TableInv', NEW k \in Slots, routes' = Deleted(routes, k), NEW x \in Dest
  PROVE  HopOf'[x] = IF InUse(k, x) THEN NoHop ELSE HopOf[x]
<1> DEFINE From(i) == IF i >= k THEN i + 1 ELSE i
           To(i) == IF i > k THEN i - 1 ELSE i
<1>0. Size \in Nat \ {0}
  BY SizeAssumption
<1>1. ASSUME NEW j \in Slots, InUse(j, x)'
      PROVE  From(j) \in Slots /\ From(j) # k /\ InUse(From(j), x)
  <2>1. j # Size - 1
    BY <1>1, DeletedType DEF InUse, InvalidSlots, TableInv, TypeOK
  <2>2. From(j) \in Slots /\ From(j) # k
    BY <1>0, <2>1 DEF Slots
  <2>3. routes'[j] = routes[From(j)]
    BY <2>1 DEF Deleted
  <2> HIDE DEF From
  <2> QED BY <1>1, <2>2, <2>3 DEF InUse
<1>2. ASSUME NEW i \in Slots, i # k
      PROVE  To(i) \in Slots /\ routes'[To(i)] = routes[i]
  <2>1. To(i) \in Slots /\ To(i) # Size - 1 /\ From(To(i)) = i
    BY <1>0, <1>2 DEF Slots
  <2>2. routes'[To(i)] = routes[From(To(i))]
    <3> HIDE DEF To
    <3> QED BY <2>1 DEF Deleted
  <2> HIDE DEF To, From
  <2> QED BY <2>1, <2>2
<1> HIDE DEF From, To
<1>3. CASE InUse(k, x)
  <2>1. ASSUME NEW j \in Slots, InUse(j, x)'
        PROVE  FALSE
    <3>1. From(j) \in Slots /\ From(j) # k /\ InUse(From(j), x)
      BY <1>1, <2>1
    <3>2. From(j) < k \/ k < From(j)
      BY <1>0, <3>1 DEF Slots
    <3> QED BY <1>3, <3>1, <3>2 DEF InUse, TableInv, FirstWins
  <2> QED BY <1>3, <2>1, LookupSoundNext
<1>4. CASE ~InUse(k, x)
  <2>1. ASSUME NEW i \in Slots, InUse(i, x)
        PROVE  \E j \in Slots : InUse(j, x)' /\ routes'[j].next_hop = routes[i].next_hop
    <3>1. To(i) \in Slots /\ routes'[To(i)] = routes[i]
      BY <1>2, <1>4, <2>1
    <3> QED BY <2>1, <3>1 DEF InUse
  <2>2. HopOf'[x] = HopOf[x]
    BY <1>1, <2>1, MovedRoute
  <2> QED BY <1>4, <2>2
<1> QED BY <1>3, <1>4

(* deleteRouteTo() takes the route of its argument away, if there is one.  *)
LEMMA DeleteForgets ==
  ASSUME TableInv, TableInv', NEW d \in Dest, DeleteRouteTo(d)
  PROVE  Map!Forget(d)
<1> DEFINE k == First(Matching(d))
<1>0. Slots \subseteq Nat
  BY SizeAssumption DEF Slots
<1>1. k \in Slots /\ routes[k].dest = d /\ \A i \in Matching(d) : k <= i
  BY <1>0, FirstIsLeast DEF DeleteRouteTo, Matching
<1>2. routes' = Deleted(routes, k)
  BY DEF DeleteRouteTo
<1> HIDE DEF k
<1>3. \A x \in Dest : HopOf'[x] = IF InUse(k, x) THEN NoHop ELSE HopOf[x]
  BY <1>1, <1>2, DeletedMap
<1>4. HopOf'[d] = NoHop
  <2>1. CASE InUse(k, d)
    BY <1>3, <2>1
  <2>2. CASE ~InUse(k, d)
    <3>1. ASSUME NEW i \in Slots, InUse(i, d)
          PROVE  FALSE
      <4>1. i \in Matching(d) /\ i # k
        BY <2>2, <3>1 DEF InUse, Matching
      <4>2. i \in Nat /\ k \in Nat /\ k <= i
        BY <1>0, <1>1, <4>1
      <4>3. k < i
        BY <4>1, <4>2
      <4> QED BY <1>1, <3>1, <4>3 DEF InUse, TableInv, FirstWins
    <3> QED BY <1>3, <2>2, <3>1, LookupSound
  <2> QED BY <2>1, <2>2
<1>5. \A x \in Dest \ {d} : HopOf'[x] = HopOf[x]
  BY <1>1, <1>3 DEF InUse
<1> QED BY <1>4, <1>5, LookupSound, LookupSoundNext DEF Map!Forget

(* retireOldestRoute() takes away one route, or none.                      *)
LEMMA RetireForgets ==
  ASSUME TableInv, TableInv', RetireOldestRoute
  PROVE  (\E d \in Dest : Map!Forget(d)) \/ HopOf' = HopOf
<1>0. 0 \in Slots
  BY SizeAssumption DEF Slots
<1>1. \A x \in Dest : HopOf'[x] = IF InUse(0, x) THEN NoHop ELSE HopOf[x]
  BY <1>0, DeletedMap DEF RetireOldestRoute
<1>2. routes[0].dest \in Dest
  BY <1>0 DEF TableInv, TypeOK, Entry
<1>3. CASE routes[0].state # "Invalid"
  <2>1. HopOf' = [HopOf EXCEPT ![routes[0].dest] = NoHop]
    BY <1>1, <1>2, <1>3, LookupSound, LookupSoundNext DEF InUse
  <2> QED BY <1>2, <2>1 DEF Map!Forget
<1>4. CASE routes[0].state = "Invalid"
  BY <1>1, <1>4, LookupSound, LookupSoundNext DEF InUse
<1> QED BY <1>3, <1>4

(* clearRoutingTable() takes every route away.                             *)
LEMMA ClearForgetsAll ==
  ASSUME TableInv, TableInv', ClearRoutingTable
  PROVE  Map!ForgetAll
<1>1. \A i \in Slots : routes'[i].state = "Invalid"
  BY DEF ClearRoutingTable, TableInv, TypeOK, Entry
<1>2. \A d \in Dest : HopOf'[d] = NoHop
  BY <1>1, LookupSoundNext DEF InUse
<1> QED BY <1>2, LookupSoundNext DEF Map!ForgetAll

(* An entry written over a free one, or over the destination's own.        *)
LEMMA WrittenMap ==
  ASSUME TableInv, TableInv', NEW k \in Slots, NEW e \in Entry, e.state # "Invalid",
         routes' = [routes EXCEPT ![k] = e],
         routes[k].dest = e.dest \/ routes[k].state = "Invalid"
  PROVE  HopOf' = [HopOf EXCEPT ![e.dest] = e.next_hop]
<1>0. routes \in [Slots -> Entry] /\ e.dest \in Dest
  BY DEF TableInv, TypeOK, Entry
<1>1. HopOf'[e.dest] = e.next_hop
  <2>1. routes'[k] = e
    BY <1>0
  <2>2. InUse(k, e.dest)'
    BY <2>1 DEF InUse
  <2> QED BY <1>0, <2>1, <2>2, LookupSoundNext
<1>2. ASSUME NEW x \in Dest \ {e.dest}
      PROVE  HopOf'[x] = HopOf[x]
  <2>1. \A i \in Slots : InUse(i, x) => InUse(i, x)' /\ routes'[i].next_hop = routes[i].next_hop
    BY <1>0, <1>2 DEF InUse
  <2>2. \A i \in Slots : InUse(i, x)' => InUse(i, x)
    BY <1>0, <1>2 DEF InUse
  <2> QED BY <2>1, <2>2, MovedRoute
<1> QED BY <1>0, <1>1, <1>2, LookupSound, LookupSoundNext

(* An entry that takes the slot the oldest has freed.                      *)
LEMMA EvictedMap ==
  ASSUME TableInv, TableInv', NEW e \in Entry, e.state # "Invalid",
         Matching(e.dest) = {}, InvalidSlots(routes) = {},
         routes' = Added(routes, e)
  PROVE  HopOf' = [HopOf EXCEPT ![routes[0].dest] = NoHop, ![e.dest] = e.next_hop]
<1>0. /\ Size \in Nat \ {0} /\ 0 \in Slots /\ Size - 1 \in Slots
      /\ routes \in [Slots -> Entry] /\ e.dest \in Dest
  BY SizeAssumption DEF Slots, TableInv, TypeOK, Entry
<1>a. PICK oldest \in Dest : oldest = routes[0].dest
  BY <1>0 DEF Entry
<1>1. \A i \in Slots : routes[i].state # "Invalid" /\ routes[i].dest # e.dest
  BY DEF Matching, InvalidSlots
<1>2. routes' = [i \in Slots |-> IF i = Size - 1 THEN e ELSE routes[i + 1]]
  <2>1. InvalidSlots(Deleted(routes, 0)) = {Size - 1}
    BY RetiringFreesOneSlot DEF TableInv
  <2>2. routes' = [i \in Slots |-> IF i \in {Size - 1} THEN e ELSE Deleted(routes, 0)[i]]
    BY <2>1 DEF Added
  <2>3. \A i \in Slots \ {Size - 1} : Deleted(routes, 0)[i] = routes[i + 1]
    BY <1>0 DEF Deleted, Slots
  <2> QED BY <2>2, <2>3
<1>3. HopOf'[e.dest] = e.next_hop
  <2>1. routes'[Size - 1] = e
    BY <1>0, <1>2
  <2>2. InUse(Size - 1, e.dest)'
    BY <2>1 DEF InUse
  <2> QED BY <1>0, <2>1, <2>2, LookupSoundNext
<1>4. \A i \in Slots \ {0} : i - 1 \in Slots /\ i - 1 # Size - 1 /\ routes'[i - 1] = routes[i]
  <2> SUFFICES ASSUME NEW i \in Slots, i # 0
               PROVE  i - 1 \in Slots /\ i - 1 # Size - 1 /\ routes'[i - 1] = routes[i]
    OBVIOUS
  <2>1. i - 1 \in Slots /\ i - 1 # Size - 1 /\ (i - 1) + 1 = i
    BY <1>0 DEF Slots
  <2> QED BY <1>2, <2>1
<1>5. ASSUME NEW j \in Slots, NEW x \in Dest \ {e.dest}, InUse(j, x)'
      PROVE  j + 1 \in Slots /\ j + 1 # 0 /\ InUse(j + 1, x)
  <2>1. j # Size - 1
    BY <1>2, <1>5 DEF InUse
  <2>2. j + 1 \in Slots /\ j + 1 # 0
    BY <1>0, <2>1 DEF Slots
  <2> QED BY <1>2, <1>5, <2>1, <2>2 DEF InUse
<1>6. HopOf'[oldest] = NoHop
  <2>1. ASSUME NEW j \in Slots, InUse(j, oldest)'
        PROVE  FALSE
    <3>1. j + 1 \in Slots /\ 0 < j + 1 /\ InUse(j + 1, oldest)
      <4>1. j + 1 \in Slots /\ j + 1 # 0 /\ InUse(j + 1, oldest)
        BY <1>0, <1>1, <1>5, <1>a, <2>1
      <4> QED BY <4>1, SizeAssumption DEF Slots
    <3> QED BY <1>0, <1>a, <3>1 DEF InUse, TableInv, FirstWins
  <2> QED BY <1>0, <2>1, LookupSoundNext
<1>7. ASSUME NEW x \in Dest \ {e.dest, oldest}
      PROVE  HopOf'[x] = HopOf[x]
  <2>1. ASSUME NEW i \in Slots, InUse(i, x)
        PROVE  \E j \in Slots : InUse(j, x)' /\ routes'[j].next_hop = routes[i].next_hop
    <3>1. i # 0
      BY <1>7, <1>a, <2>1 DEF InUse
    <3>2. i - 1 \in Slots /\ routes'[i - 1] = routes[i]
      BY <1>4, <3>1
    <3> QED BY <2>1, <3>2 DEF InUse
  <2>2. \A j \in Slots : InUse(j, x)' => \E i \in Slots : InUse(i, x)
    BY <1>5, <1>7
  <2> QED BY <2>1, <2>2, MovedRoute
<1>8. oldest # e.dest
  BY <1>0, <1>1, <1>a
<1>9. HopOf' = [HopOf EXCEPT ![oldest] = NoHop, ![e.dest] = e.next_hop]
  BY <1>0, <1>3, <1>6, <1>7, <1>8, LookupSound, LookupSoundNext
<1> QED BY <1>9, <1>a

(* addRouteTo() makes its destination known; it takes a route away only    *)
(* when its destination is new and no slot is free.                        *)
LEMMA AddLearns ==
  ASSUME TableInv, TableInv', NEW d \in Dest, NEW h \in Hop, AddRouteTo(d, h)
  PROVE  Map!Learn(d, h)
<1>0. Slots \subseteq Nat /\ 0 \in Slots /\ routes \in [Slots -> Entry]
  BY SizeAssumption DEF Slots, TableInv, TypeOK
<1>1. PICK e \in Entry : /\ e.dest = d /\ e.next_hop = h /\ e.state # "Invalid"
                         /\ routes' = Added(routes, e)
  BY DEF AddRouteTo, Entry
<1>2. CASE Matching(d) # {}
  <2> DEFINE k == First(Matching(d))
  <2>1. k \in Slots /\ routes[k].dest = d
    BY <1>0, <1>2, FirstIsLeast DEF Matching
  <2>2. routes' = [routes EXCEPT ![k] = e]
    BY <1>1, <1>2 DEF Added
  <2> HIDE DEF k
  <2>3. HopOf' = [HopOf EXCEPT ![d] = h]
    BY <1>1, <2>1, <2>2, WrittenMap
  <2>4. HopOf[d] # NoHop \/ InvalidSlots(routes) # {}
    BY <2>1, LookupSound DEF InUse, InvalidSlots
  <2> QED BY <2>3, <2>4, RoomLeft, MapCardinality DEF Map!Learn
<1>3. CASE Matching(d) = {} /\ InvalidSlots(routes) # {}
  <2> DEFINE k == First(InvalidSlots(routes))
  <2>1. k \in Slots /\ routes[k].state = "Invalid"
    BY <1>0, <1>3, FirstIsLeast DEF InvalidSlots
  <2>2. routes' = [routes EXCEPT ![k] = e]
    BY <1>1, <1>3 DEF Added
  <2> HIDE DEF k
  <2>3. HopOf' = [HopOf EXCEPT ![d] = h]
    BY <1>1, <2>1, <2>2, WrittenMap
  <2> QED BY <1>3, <2>3, RoomLeft, MapCardinality DEF Map!Learn
<1>4. CASE Matching(d) = {} /\ InvalidSlots(routes) = {}
  <2>1. HopOf' = [HopOf EXCEPT ![routes[0].dest] = NoHop, ![d] = h]
    BY <1>1, <1>4, EvictedMap
  <2>2. routes[0].dest \in Dest /\ InUse(0, routes[0].dest)
    BY <1>0, <1>4 DEF InUse, InvalidSlots, Entry
  <2>3. routes[0].dest \in Map!Known
    BY <1>0, <2>2, LookupSound DEF Map!Known
  <2>4. HopOf[d] = NoHop
    BY <1>4, LookupSound DEF InUse, Matching
  <2> QED BY <1>4, <2>1, <2>3, <2>4, RoomLeft, MapCardinality DEF Map!Learn
<1> QED BY <1>2, <1>3, <1>4

(* Each operation changes the map its callers see as its arguments say.    *)
THEOREM OperationsActAsMap == Spec => ActsAsMap
<1> DEFINE Acts == /\ \A d \in Dest, h \in Hop : AddRouteTo(d, h) => Map!Learn(d, h)
                   /\ \A d \in Dest : DeleteRouteTo(d) => Map!Forget(d)
                   /\ ClearRoutingTable => Map!ForgetAll
<1>1. TableInv /\ TableInv' => Acts
  BY AddLearns, DeleteForgets, ClearForgetsAll
<1> HIDE DEF Acts
<1>2. Spec => [][Acts]_routes
  BY <1>1, InitTableInv, NextTableInv, PTL DEF Spec
<1> QED BY <1>2 DEF ActsAsMap, Acts

(* The table implements the map of RouteMap: no route is ever lost but to  *)
(* its deletion or to a new destination that finds the table full.         *)
THEOREM TableImplementsMap == Spec => ImplementsMap
<1>1. Init => Map!RMInit
  <2> SUFFICES ASSUME Init PROVE Map!RMInit
    OBVIOUS
  <2>1. TableInv /\ \A i \in Slots : routes[i].state = "Invalid"
    BY InitTableInv DEF Init
  <2>2. \A d \in Dest : HopOf[d] = NoHop
    BY <2>1, LookupSound DEF InUse
  <2> QED BY <2>1, <2>2, LookupSound DEF Map!RMInit
<1>2. TableInv /\ TableInv' /\ [Next]_routes => [Map!RMNext]_HopOf
  <2> SUFFICES ASSUME TableInv, TableInv', [Next]_routes
               PROVE  Map!RMNext \/ HopOf' = HopOf
    OBVIOUS
  <2>1. CASE \E d \in Dest, h \in Hop : AddRouteTo(d, h)
    BY <2>1, AddLearns DEF Map!RMNext
  <2>2. CASE \E d \in Dest : DeleteRouteTo(d)
    BY <2>2, DeleteForgets DEF Map!RMNext
  <2>3. CASE RetireOldestRoute
    BY <2>3, RetireForgets DEF Map!RMNext
  <2>4. CASE ClearRoutingTable
    BY <2>4, ClearForgetsAll DEF Map!RMNext
  <2>5. CASE UNCHANGED routes
    BY <2>5 DEF HopOf, GetRouteTo, Usable, Matching
  <2> QED BY <2>1, <2>2, <2>3, <2>4, <2>5 DEF Next
<1>3. Spec => Map!RMSpec
  BY <1>1, <1>2, InitTableInv, NextTableInv, PTL DEF Spec, Map!RMSpec
<1> QED BY <1>3 DEF ImplementsMap
=============================================================================
