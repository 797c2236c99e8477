---------------------------- MODULE RoutingProofs ----------------------------
(***************************************************************************)
(* Proofs about Routing, for any peers, virtual nodes and replication      *)
(* factor: where the binary search of Route ends, and what its walk picks. *)
(***************************************************************************)
EXTENDS Routing, FiniteSetTheorems, TLAPS

\* Everything before lo is below the target and nothing from hi on is.
SearchInv ==
  /\ \A i \in 0 .. lo - 1 : EntryAt(i) < target
  /\ \A i \in hi .. N - 1 : EntryAt(i) >= target

\* Where the walk starts: the first entry at or after the target, or the first of all.
Landed ==
  /\ idx \in 0 .. N - 1
  /\ \A i \in 0 .. idx - 1 : EntryAt(i) < target
  /\ EntryAt(idx) >= target \/ (idx = 0 /\ \A i \in 0 .. N - 1 : EntryAt(i) < target)

RingOK ==
  /\ ring \in Seq(Nat)
  /\ \A i, j \in 1 .. N : i < j => ring[i] < ring[j]

IndInv ==
  /\ RingOK
  /\ pc \in {"idle", "search", "walk"}
  /\ pc # "idle" => N > 0
  /\ target \in Nat
  /\ lo \in 0 .. N /\ hi \in 0 .. N /\ lo <= hi
  /\ pc = "idle" => lo = 0 /\ hi = 0
  /\ pc = "search" => SearchInv
  /\ pc = "walk" => Landed

-----------------------------------------------------------------------------
\* A set of virtual nodes is a finite set of naturals.
LEMMA VirtualNodesFinite ==
  ASSUME NEW S
  PROVE  /\ IsFiniteSet(VirtualNodes(S)) /\ Cardinality(VirtualNodes(S)) \in Nat
         /\ VirtualNodes(S) \subseteq Nat
<1>1. Cardinality(Peers) \in Nat
  BY RoutingAssumption, FS_CardinalityType
<1> DEFINE k == Cardinality(Peers) * VNodes
<1>2. k \in Nat
  <2>1. VNodes \in Nat
    BY RoutingAssumption
  <2>2. \A a, b \in Nat : a * b \in Nat
    OBVIOUS
  <2> QED
    BY <1>1, <2>1, <2>2, Zenon
<1>p. Positions = 0 .. k - 1
  BY Zenon DEF Positions
<1> HIDE DEF k
<1>3. IsFiniteSet(Positions) /\ Positions \subseteq Nat
  <2>1. 0 \in Int /\ k - 1 \in Int /\ 0 .. k - 1 \subseteq Nat
    BY <1>2
  <2>2. IsFiniteSet(0 .. k - 1)
    BY <2>1, FS_Interval, Zenon
  <2> QED
    BY <1>p, <2>1, <2>2, Zenon
<1>4. VirtualNodes(S) \subseteq Positions
  BY DEF VirtualNodes
<1>5. IsFiniteSet(VirtualNodes(S))
  BY <1>3, <1>4, FS_Subset
<1> QED
  BY <1>3, <1>4, <1>5, FS_CardinalityType

\* The ring SetPeers installs is sorted (std::sort).
LEMMA SetPeersSorts ==
  ASSUME NEW S, SetPeers(S)
  PROVE  RingOK'
<1> DEFINE H == VirtualNodes(S)
<1>1. Cardinality(H) \in Nat /\ H \subseteq Nat
  BY VirtualNodesFinite
<1>2. ring' \in [1 .. Cardinality(H) -> H] /\ \A i, j \in DOMAIN ring' : i < j => ring'[i] < ring'[j]
  BY DEF SetPeers, IsSortOf
<1> HIDE DEF H
<1>3. ring' \in [1 .. Cardinality(H) -> Nat]
  BY <1>1, <1>2
<1>4. ring' \in Seq(Nat)
  BY <1>1, <1>3
<1>5. DOMAIN ring' = 1 .. Len(ring')
  BY <1>4
<1> QED
  BY <1>2, <1>4, <1>5 DEF RingOK, N

\* The remainder the walk starts from: lo itself, or 0 past the end.
LEMMA WrapOnce ==
  ASSUME NEW n \in Nat, n > 0, NEW x \in 0 .. n
  PROVE  x % n = IF x = n THEN 0 ELSE x
BY SMT

\* The middle of a nonempty range is inside it.
LEMMA MidInside ==
  ASSUME NEW l \in Nat, NEW h \in Nat, l < h
  PROVE  l + (h - l) \div 2 \in l .. h - 1
BY SMT

\* One turn of the binary search keeps what is known on both sides.
LEMMA SearchKeeps ==
  ASSUME IndInv, Search
  PROVE  IndInv'
<1> DEFINE m == Mid
<1>1. lo \in Nat /\ hi \in Nat /\ lo < hi /\ hi <= N /\ N \in Nat /\ target \in Nat /\ SearchInv
  BY DEF IndInv, Search, RingOK, N
<1>2. m \in lo .. hi - 1
  BY <1>1, MidInside DEF Mid
<1>3. UNCHANGED <<ring, target, pc>> /\ pc = "search"
  BY DEF Search
<1>4. \A i \in 0 .. N - 1 : EntryAt(i) \in Nat
  BY <1>1 DEF IndInv, RingOK, N, EntryAt
<1>5. \A i, j \in 0 .. N - 1 : i < j => EntryAt(i) < EntryAt(j)
  BY <1>1 DEF IndInv, RingOK, N, EntryAt
<1> HIDE DEF m
<1>6. CASE EntryAt(m) < target
  <2>1. lo' = m + 1 /\ hi' = hi
    BY <1>6 DEF Search, Below, m
  <2>2. \A i \in 0 .. m : EntryAt(i) < target
    BY <1>1, <1>2, <1>4, <1>5, <1>6
  <2>3. SearchInv'
    BY <1>1, <1>2, <1>3, <2>1, <2>2 DEF SearchInv, EntryAt, N
  <2> QED
    BY <1>1, <1>2, <1>3, <2>1, <2>3 DEF IndInv, RingOK, N
<1>7. CASE ~(EntryAt(m) < target)
  <2>1. lo' = lo /\ hi' = m
    BY <1>7 DEF Search, m
  <2>2. \A i \in m .. N - 1 : EntryAt(i) >= target
    BY <1>1, <1>2, <1>4, <1>5, <1>7
  <2>3. SearchInv'
    BY <1>1, <1>2, <1>3, <2>1, <2>2 DEF SearchInv, EntryAt, N
  <2> QED
    BY <1>1, <1>2, <1>3, <2>1, <2>3 DEF IndInv, RingOK, N
<1> QED
  BY <1>6, <1>7

\* The search ends where the walk has to start.
LEMMA SearchEndsLands ==
  ASSUME IndInv, SearchEnds
  PROVE  IndInv'
<1>1. lo = hi /\ lo \in 0 .. N /\ N \in Nat /\ N > 0 /\ SearchInv
  BY DEF IndInv, SearchEnds, RingOK, N
<1>2. UNCHANGED <<ring, target, lo, hi>> /\ pc' = "walk" /\ idx' = lo % N
  BY DEF SearchEnds, search, Start
<1>3. idx' = IF lo = N THEN 0 ELSE lo
  BY <1>1, <1>2, WrapOnce
<1>4. Landed'
  BY <1>1, <1>2, <1>3 DEF Landed, SearchInv, EntryAt, N
<1> QED
  BY <1>1, <1>2, <1>4 DEF IndInv, RingOK, N

\* Every step keeps the invariant.
LEMMA IndInvStep ==
  ASSUME IndInv, [Next]_vars
  PROVE  IndInv'
<1>1. ASSUME NEW S \in SUBSET Peers, SetPeers(S) PROVE IndInv'
  <2>1. RingOK'
    BY <1>1, SetPeersSorts
  <2>2. pc = "idle" /\ UNCHANGED <<pc, target, lo, hi>>
    BY <1>1 DEF SetPeers, search
  <2> QED
    BY <2>1, <2>2 DEF IndInv, RingOK, N
<1>2. ASSUME NEW t \in Targets, BeginRoute(t) PROVE IndInv'
  <2>1. t \in Nat
    BY RoutingAssumption, FS_CardinalityType DEF Targets
  <2>2. ring # <<>> /\ ring \in Seq(Nat)
    BY <1>2 DEF BeginRoute, IndInv, RingOK
  <2>3. N \in Nat /\ N > 0
    BY <2>2 DEF N
  <2>4. target' = t /\ lo' = 0 /\ hi' = N /\ pc' = "search" /\ ring' = ring
    BY <1>2 DEF BeginRoute
  <2> QED
    BY <2>1, <2>3, <2>4 DEF IndInv, RingOK, N, SearchInv, EntryAt
<1>3. CASE Search
  BY <1>3, SearchKeeps
<1>4. CASE SearchEnds
  BY <1>4, SearchEndsLands
<1>5. CASE Walk
  BY <1>5 DEF IndInv, Walk, search, RingOK, N, SearchInv, Landed, EntryAt
<1>6. CASE Return
  BY <1>6 DEF IndInv, Return, RingOK, N
<1>7. CASE UNCHANGED vars
  BY <1>7 DEF vars, search, walk, IndInv, RingOK, N, SearchInv, Landed, EntryAt
<1> QED
  BY <1>1, <1>2, <1>3, <1>4, <1>5, <1>6, <1>7 DEF Next, RouteStep

\* Until SetPeers the ring is empty and no route is under way.
LEMMA IndInvInit ==
  Init => IndInv
BY DEF Init, IndInv, RingOK, N

\* The sortedness of the ring, the bounds of the search and what it knows hold throughout.
THEOREM IndInvHolds == Spec => []IndInv
BY IndInvInit, IndInvStep, PTL DEF Spec

\* For every ring and target, Route's binary search ends at the first entry with
\* hash >= target, or wraps to the first of all.
THEOREM SearchLandsOnSuccessorHolds == Spec => []SearchLandsOnSuccessor
<1>1. IndInv => SearchLandsOnSuccessor
  BY DEF IndInv, Landed, SearchLandsOnSuccessor
<1> QED
  BY <1>1, IndInvHolds, PTL

-----------------------------------------------------------------------------
\* The peer met at the j-th turn of the walk.
Met(j) == owner[EntryAt((idx + j) % N)]

\* What the walk has picked: each peer met so far, once, and no more than wanted.
PicksDistinct ==
  pc = "walk" =>
    /\ step \in 0 .. N
    /\ picked \in Seq({Met(j) : j \in 0 .. step - 1})
    /\ \A j \in 0 .. step - 1 : Met(j) \in Seen
    /\ \A i, j \in 1 .. Len(picked) : picked[i] = picked[j] => i = j
    /\ Len(picked) <= Want

\* A turn of the walk appends a peer it has not seen.
LEMMA WalkPicks ==
  ASSUME IndInv, PicksDistinct, Walk
  PROVE  PicksDistinct'
<1> DEFINE S(k) == {Met(j) : j \in 0 .. k - 1}
           v == Visited
<1>1. /\ pc = "walk" /\ N \in Nat /\ step \in 0 .. N /\ step < N /\ Len(picked) < Want
      /\ picked \in Seq(S(step))
      /\ \A i, j \in 1 .. Len(picked) : picked[i] = picked[j] => i = j
      /\ \A j \in 0 .. step - 1 : Met(j) \in Seen
  BY DEF IndInv, RingOK, N, PicksDistinct, Walk, Walking
<1>2. step' = step + 1 /\ pc' = "walk" /\ UNCHANGED <<owner, ring, idx>>
  BY <1>1 DEF Walk
<1>i. step \in Nat /\ 0 .. step - 1 \subseteq 0 .. (step + 1) - 1 /\ step \in 0 .. (step + 1) - 1
  BY <1>1
<1>v. v = Met(step)
  BY DEF Visited, Met
<1>3. v = Met(step) /\ S(step) \subseteq S(step + 1) /\ v \in S(step + 1)
  <2>1. S(step) \subseteq S(step + 1)
    BY <1>i, Zenon
  <2>2. v \in S(step + 1)
    BY <1>i, <1>v, Zenon
  <2> QED
    BY <1>v, <2>1, <2>2
<1>4. \A j \in 0 .. step : Met(j)' = Met(j)
  BY <1>2 DEF Met, EntryAt, N
<1>5. {Met(j)' : j \in 0 .. step' - 1} = S(step + 1)
  BY <1>1, <1>2, <1>4
<1>6. picked \in Seq(S(step + 1)) /\ Len(picked) \in Nat /\ DOMAIN picked = 1 .. Len(picked)
  BY <1>1, <1>3
<1>7. Seen = {picked[i] : i \in 1 .. Len(picked)}
  BY <1>6 DEF Seen
<1>n. N' = N /\ Want \in Nat
  BY <1>2, RoutingAssumption DEF N, Want
<1>t. step' \in 0 .. N'
  BY <1>1, <1>2, <1>n
<1> HIDE DEF v, S
<1>8. CASE v \in Seen
  <2>1. picked' = picked
    BY <1>8 DEF Walk, IsNew, v
  <2>2. Seen' = Seen
    BY <2>1 DEF Seen
  <2>3. \A j \in 0 .. step' - 1 : Met(j)' \in Seen'
    BY <1>1, <1>2, <1>3, <1>4, <1>8, <2>2
  <2> QED
    <3>1. picked' \in Seq({Met(j)' : j \in 0 .. step' - 1})
      BY <1>5, <1>6, <2>1
    <3>2. Len(picked') <= Want
      BY <1>1, <1>6, <1>n, <2>1
    <3> QED
      BY <1>1, <1>t, <2>1, <2>3, <3>1, <3>2 DEF PicksDistinct
<1>9. CASE v \notin Seen
  <2>1. picked' = Append(picked, v)
    BY <1>9 DEF Walk, IsNew, v
  <2>2. /\ picked' \in Seq(S(step + 1)) /\ Len(picked') = Len(picked) + 1
        /\ \A i \in 1 .. Len(picked) : picked'[i] = picked[i]
        /\ picked'[Len(picked) + 1] = v
    BY <1>3, <1>6, <2>1
  <2>3. \A i \in 1 .. Len(picked) : picked[i] # v
    BY <1>7, <1>9
  <2>4. \A i, j \in 1 .. Len(picked') : picked'[i] = picked'[j] => i = j
    BY <1>1, <1>6, <2>2, <2>3
  <2>5. Seen' = {picked'[i] : i \in 1 .. Len(picked')}
    BY <2>2 DEF Seen
  <2>6. Seen \subseteq Seen' /\ v \in Seen'
    BY <1>6, <1>7, <2>2, <2>5
  <2>7. \A j \in 0 .. step' - 1 : Met(j)' \in Seen'
    BY <1>1, <1>2, <1>3, <1>4, <2>6
  <2> QED
    <3>1. picked' \in Seq({Met(j)' : j \in 0 .. step' - 1})
      BY <1>5, <2>2
    <3>2. Len(picked') <= Want
      BY <1>1, <1>6, <1>n, <2>2
    <3> QED
      BY <1>t, <2>4, <2>7, <3>1, <3>2 DEF PicksDistinct
<1> QED
  BY <1>8, <1>9

\* The walk of Route meets the peers clockwise and picks each once, never more than RF.
THEOREM PicksDistinctHolds == Spec => []PicksDistinct
<1>1. Init => PicksDistinct
  BY DEF Init, PicksDistinct
<1>2. ASSUME IndInv, PicksDistinct, [Next]_vars PROVE PicksDistinct'
  <2>1. ASSUME NEW S \in SUBSET Peers, SetPeers(S) PROVE PicksDistinct'
    BY <2>1 DEF SetPeers, PicksDistinct
  <2>2. ASSUME NEW t \in Targets, BeginRoute(t) PROVE PicksDistinct'
    BY <2>2 DEF BeginRoute, PicksDistinct
  <2>3. CASE Search
    BY <2>3 DEF Search, PicksDistinct
  <2>4. CASE SearchEnds
    <3>1. step' = 0 /\ picked' = <<>> /\ N \in Nat /\ ring' = ring
      BY <1>2, <2>4 DEF SearchEnds, IndInv, RingOK, N
    <3>2. picked' \in Seq({Met(j)' : j \in 0 .. step' - 1}) /\ Len(picked') = 0
      BY <3>1
    <3> QED
      BY <3>1, <3>2, RoutingAssumption DEF PicksDistinct, N, Want
  <2>5. CASE Walk
    BY <1>2, <2>5, WalkPicks
  <2>6. CASE Return
    BY <2>6 DEF Return, PicksDistinct
  <2>7. CASE UNCHANGED vars
    <3>1. UNCHANGED <<owner, ring, pc, idx, step, picked>>
      BY <2>7 DEF vars, walk
    <3>2. \A j : Met(j)' = Met(j)
      BY <3>1 DEF Met, EntryAt, N
    <3> QED
      BY <1>2, <3>1, <3>2 DEF PicksDistinct, N, Seen, Want
  <2> QED
    BY <1>2, <2>1, <2>2, <2>3, <2>4, <2>5, <2>6, <2>7 DEF Next, RouteStep
<1> QED
  BY <1>1, <1>2, IndInvHolds, PTL DEF Spec

-----------------------------------------------------------------------------
\* A walk of n turns from anywhere on a ring of n entries visits every entry.
LEMMA WalkCovers ==
  ASSUME NEW n \in Nat, n > 0, NEW s \in 0 .. n - 1, NEW k \in 0 .. n - 1
  PROVE  \E j \in 0 .. n - 1 : (s + j) % n = k
<1>1. CASE k >= s
  <2>1. k - s \in 0 .. n - 1 /\ s + (k - s) = k
    BY <1>1
  <2>2. k % n = k
    BY WrapOnce
  <2> QED
    BY <2>1, <2>2
<1>2. CASE k < s
  <2>1. k + n - s \in 0 .. n - 1 /\ s + (k + n - s) = k + n
    BY <1>2
  <2>2. (k + n) % n = k
    BY SMT
  <2> QED
    BY <2>1, <2>2
<1> QED
  BY <1>1, <1>2

\* A route that names fewer than RF peers names all the peers of the ring.
ShortRouteIsAll ==
  pc = "walk" /\ ~Walking /\ Len(picked) < Want => \A i \in 0 .. N - 1 : owner[EntryAt(i)] \in Seen

\* A walk that ends short has gone all round the ring.
LEMMA ShortRoute ==
  ASSUME IndInv, PicksDistinct
  PROVE  ShortRouteIsAll
<1>1. ASSUME pc = "walk", ~Walking, Len(picked) < Want, NEW i \in 0 .. N - 1
      PROVE  owner[EntryAt(i)] \in Seen
  <2>1. N \in Nat /\ N > 0 /\ idx \in 0 .. N - 1 /\ step = N
    BY <1>1 DEF IndInv, RingOK, N, Landed, PicksDistinct, Walking
  <2>2. PICK j \in 0 .. N - 1 : (idx + j) % N = i
    BY <2>1, WalkCovers
  <2>3. Met(j) = owner[EntryAt(i)]
    BY <2>2 DEF Met
  <2> QED
    BY <1>1, <2>1, <2>3 DEF PicksDistinct
<1> QED
  BY <1>1 DEF ShortRouteIsAll

\* When fewer peers than the replication factor are on the ring, Route returns them all.
THEOREM ShortRouteIsAllHolds == Spec => []ShortRouteIsAll
BY ShortRoute, IndInvHolds, PicksDistinctHolds, PTL

-----------------------------------------------------------------------------
(***************************************************************************)
(* Route returns the nearest peers clockwise.                              *)
(***************************************************************************)
\* The ring is the peers' virtual nodes, in order; every peer has some.
RingIs ==
  /\ owner \in [Positions -> Peers] /\ peers \subseteq Peers
  /\ \A p \in Peers : VirtualNodes({p}) # {}
  /\ IsSortOf(ring, VirtualNodes(peers))
  /\ target \in Targets

\* p was met before q, if q was met at all.
MetBefore(p, q) == \E j \in 0 .. step - 1 : Met(j) = p /\ \A l \in 0 .. j : Met(l) # q

\* The peers were picked in the order they were met.
PicksInOrder ==
  pc = "walk" => \A i, j \in 1 .. Len(picked) : i < j => MetBefore(picked[i], picked[j])

\* Positions are naturals, and fewer than there are targets.
LEMMA PositionsAre ==
  /\ Cardinality(Positions) \in Nat
  /\ \A h \in Positions : h \in Nat /\ h < Cardinality(Positions)
  /\ \A t \in Targets : t \in Nat /\ t <= Cardinality(Positions)
<1> DEFINE k == Cardinality(Peers) * VNodes
<1>1. k \in Nat
  <2>1. VNodes \in Nat /\ Cardinality(Peers) \in Nat
    BY RoutingAssumption, FS_CardinalityType
  <2>2. \A a, b \in Nat : a * b \in Nat
    OBVIOUS
  <2> QED
    BY <2>1, <2>2, Zenon
<1>2. Positions = 0 .. k - 1 /\ Targets = 0 .. k
  BY Zenon DEF Positions, Targets
<1> HIDE DEF k
<1>3. Cardinality(0 .. k - 1) = k
  <2>1. 0 \in Int /\ k - 1 \in Int
    BY <1>1
  <2>2. Cardinality(0 .. k - 1) = IF 0 > k - 1 THEN 0 ELSE (k - 1) - 0 + 1
    BY <2>1, FS_Interval
  <2> QED
    BY <1>1, <2>2
<1> QED
  BY <1>1, <1>2, <1>3

\* Init gives each peer VNodes > 0 virtual nodes and an empty ring.
LEMMA RingIsInit == Init => RingIs
<1> SUFFICES ASSUME Init PROVE RingIs
  OBVIOUS
<1>1. owner \in [Positions -> Peers] /\ \A p \in Peers : Cardinality({h \in Positions : owner[h] = p}) = VNodes
  BY DEF Init
<1>2. ASSUME NEW p \in Peers, VirtualNodes({p}) = {}
      PROVE  FALSE
  <2>1. {h \in Positions : owner[h] = p} = {}
    BY <1>2 DEF VirtualNodes
  <2>2. VNodes = 0
    BY <1>1, <2>1, FS_EmptySet
  <2> QED
    BY <2>2, RoutingAssumption
<1>3. VirtualNodes({}) = {} /\ Cardinality({}) = 0
  BY FS_EmptySet DEF VirtualNodes
<1>4. ring \in [1 .. 0 -> {}] /\ DOMAIN ring = {}
  BY DEF Init
<1>5. IsSortOf(ring, VirtualNodes(peers))
  BY <1>3, <1>4 DEF IsSortOf, Init
<1>6. target \in Targets
  BY RoutingAssumption, FS_CardinalityType DEF Init, Targets
<1> QED
  BY <1>1, <1>2, <1>5, <1>6 DEF RingIs, Init

\* SetPeers sorts the points of the alive peers, and Route never writes the ring.
LEMMA RingIsStep ==
  ASSUME RingIs, [Next]_vars
  PROVE  RingIs'
<1>0. 0 \in Targets
  BY RoutingAssumption, FS_CardinalityType DEF Targets
<1>1. owner' = owner
  BY DEF Next, RouteStep, SetPeers, BeginRoute, Search, SearchEnds, Walk, Return, vars
<1>2. \A S : VirtualNodes(S)' = VirtualNodes(S)
  BY <1>1 DEF VirtualNodes
<1>3. ASSUME NEW S \in SUBSET Peers, SetPeers(S)
      PROVE  RingIs'
  BY <1>1, <1>2, <1>3 DEF RingIs, SetPeers, search, VirtualNodes, IsSortOf
<1>4. CASE UNCHANGED <<peers, ring>> /\ target' \in Targets
  BY <1>1, <1>2, <1>4 DEF RingIs, VirtualNodes, IsSortOf
<1>5. ASSUME NEW t \in Targets, BeginRoute(t)
      PROVE  RingIs'
  BY <1>4, <1>5 DEF BeginRoute
<1>6. CASE Search \/ SearchEnds \/ Walk
  BY <1>4, <1>6 DEF Search, SearchEnds, Walk, search, RingIs
<1>7. CASE Return
  BY <1>0, <1>4, <1>7 DEF Return
<1>8. CASE UNCHANGED vars
  BY <1>4, <1>8 DEF vars, search, RingIs
<1> QED
  BY <1>3, <1>5, <1>6, <1>7, <1>8 DEF Next, RouteStep

\* What the walk meets next is picked after what it met before.
LEMMA PicksInOrderStep ==
  ASSUME IndInv, PicksDistinct, PicksInOrder, [Next]_vars
  PROVE  PicksInOrder'
<1>1. CASE pc' # "walk"
  BY <1>1 DEF PicksInOrder
<1>2. CASE picked' = <<>>
  BY <1>2 DEF PicksInOrder
<1>3. CASE Walk
  <2> DEFINE n == Len(picked)
             v == Met(step)
  <2>1. /\ pc = "walk" /\ step \in Nat /\ step' = step + 1 /\ UNCHANGED <<owner, ring, idx>>
        /\ picked \in Seq({Met(j) : j \in 0 .. step - 1})
        /\ \A j \in 0 .. step - 1 : Met(j) \in Seen
        /\ picked' = IF v \notin Seen THEN Append(picked, v) ELSE picked
    <3>1. pc = "walk" /\ Visited = v
      BY <1>3 DEF Walk, Visited, Met
    <3>2. N \in Nat
      BY DEF IndInv, RingOK, N
    <3> QED
      BY <1>3, <3>1, <3>2 DEF Walk, PicksDistinct, IsNew
  <2>2. \A j : Met(j)' = Met(j)
    BY <2>1 DEF Met, EntryAt, N
  <2>3. \A p, q : MetBefore(p, q) => MetBefore(p, q)'
    <3>1. 0 .. step - 1 \subseteq 0 .. step' - 1
      BY <2>1
    <3> QED
      BY <2>2, <3>1, Zenon DEF MetBefore
  <2>4. n \in Nat /\ DOMAIN picked = 1 .. n
    BY <2>1
  <2>5. \A i \in 1 .. n : \E j \in 0 .. step - 1 : picked[i] = Met(j)
    BY <2>1, <2>4
  <2>6. ASSUME v \notin Seen, NEW i \in 1 .. n
        PROVE  MetBefore(picked[i], v)
    <3>1. PICK j \in 0 .. step - 1 : picked[i] = Met(j)
      BY <2>5
    <3>2. 0 .. j \subseteq 0 .. step - 1
      BY <2>1
    <3>3. \A l \in 0 .. j : Met(l) # v
      BY <2>1, <2>6, <3>2
    <3> QED
      BY <3>1, <3>3 DEF MetBefore
  <2>7. \A i, j \in 1 .. n : i < j => MetBefore(picked[i], picked[j])
    BY <2>1 DEF PicksInOrder
  <2> HIDE DEF n, v
  <2>8. CASE v \in Seen
    <3>1. picked' = picked
      BY <2>1, <2>8
    <3> QED
      BY <2>3, <2>7, <3>1 DEF PicksInOrder, n
  <2>9. CASE v \notin Seen
    <3>1. /\ Len(picked') = n + 1 /\ picked'[n + 1] = v
          /\ \A i \in 1 .. n : picked'[i] = picked[i]
      BY <2>1, <2>4, <2>9 DEF n
    <3>2. ASSUME NEW i \in 1 .. n + 1, NEW j \in 1 .. n + 1, i < j
          PROVE  MetBefore(picked'[i], picked'[j])
      <4>1. CASE j = n + 1
        <5>1. i \in 1 .. n
          BY <2>4, <3>2, <4>1
        <5> QED
          BY <2>6, <2>9, <3>1, <4>1, <5>1
      <4>2. CASE j # n + 1
        <5>1. i \in 1 .. n /\ j \in 1 .. n
          BY <2>4, <3>2, <4>2
        <5> QED
          BY <2>7, <3>1, <3>2, <5>1
      <4> QED
        BY <4>1, <4>2
    <3>3. ASSUME NEW i \in 1 .. Len(picked'), NEW j \in 1 .. Len(picked'), i < j
          PROVE  MetBefore(picked[i], picked[j])'
      <4>1. i \in 1 .. n + 1 /\ j \in 1 .. n + 1
        BY <3>1
      <4>2. MetBefore(picked'[i], picked'[j])
        BY <3>2, <3>3, <4>1
      <4> QED
        BY <2>3, <4>2
    <3> QED
      BY <3>3 DEF PicksInOrder
  <2> QED
    BY <2>8, <2>9
<1>4. CASE UNCHANGED vars
  <2>1. UNCHANGED <<owner, ring, pc, idx, step, picked>>
    BY <1>4 DEF vars, walk
  <2>2. \A j : Met(j)' = Met(j)
    BY <2>1 DEF Met, EntryAt, N
  <2> QED
    BY <2>1, <2>2 DEF PicksInOrder, MetBefore
<1>5. SearchEnds => picked' = <<>>
  BY DEF SearchEnds
<1>6. Search \/ Return \/ (\E S \in SUBSET Peers : SetPeers(S)) \/ (\E t \in Targets : BeginRoute(t)) =>
        pc' # "walk"
  BY DEF Search, Return, SetPeers, BeginRoute
<1> QED
  BY <1>1, <1>2, <1>3, <1>4, <1>5, <1>6 DEF Next, RouteStep

\* Where a turn of the walk is on the ring.
LEMMA Turn ==
  ASSUME NEW n \in Nat, n > 0, NEW s \in 0 .. n - 1, NEW j \in 0 .. n - 1
  PROVE  (s + j) % n = IF s + j < n THEN s + j ELSE s + j - n
BY SMT

\* The walk goes clockwise: each virtual node is farther from the target than the last.
LEMMA WalkRecedes ==
  ASSUME IndInv, RingIs, pc = "walk", NEW j \in 0 .. N - 1, NEW l \in 0 .. N - 1, j < l
  PROVE  /\ EntryAt((idx + j) % N) \in VirtualNodes(peers)
         /\ Ahead(target, EntryAt((idx + j) % N)) < Ahead(target, EntryAt((idx + l) % N))
<1> DEFINE c == Cardinality(Positions)
           E(i) == EntryAt(i)
<1>1. N \in Nat /\ N > 0 /\ idx \in 0 .. N - 1 /\ target \in Nat /\ c \in Nat /\ target <= c
  BY PositionsAre DEF IndInv, RingOK, N, Landed, RingIs
<1>2. \A i \in 0 .. N - 1 : E(i) \in VirtualNodes(peers)
  <2>1. ring \in [1 .. Cardinality(VirtualNodes(peers)) -> VirtualNodes(peers)] /\ ring \in Seq(Nat)
    BY DEF RingIs, IsSortOf, IndInv, RingOK
  <2>2. \A i \in 0 .. N - 1 : i + 1 \in DOMAIN ring
    <3>1. ring \in Seq(Nat)
      BY <2>1
    <3>2. DOMAIN ring = 1 .. N
      BY <3>1 DEF N
    <3> QED
      BY <1>1, <3>2
  <2> QED
    BY <2>1, <2>2 DEF EntryAt
<1>3. \A i \in 0 .. N - 1 : E(i) \in Nat /\ E(i) < c
  BY <1>2, PositionsAre DEF VirtualNodes
<1>4. \A i, k \in 0 .. N - 1 : i < k => E(i) < E(k)
  BY <1>1 DEF IndInv, RingOK, EntryAt, N
<1>5. /\ \A i \in 0 .. idx - 1 : E(i) < target
      /\ E(idx) >= target \/ (idx = 0 /\ \A i \in 0 .. N - 1 : E(i) < target)
  BY DEF IndInv, Landed
<1> DEFINE J == (idx + j) % N
           L == (idx + l) % N
<1>6. /\ J = IF idx + j < N THEN idx + j ELSE idx + j - N
      /\ L = IF idx + l < N THEN idx + l ELSE idx + l - N
  BY <1>1, Turn
<1>7. E(J) \in VirtualNodes(peers)
  <2>1. J \in 0 .. N - 1
    BY <1>1, <1>6
  <2> QED
    BY <1>2, <2>1
<1> HIDE DEF c, E, J, L
<1>8. Ahead(target, E(J)) < Ahead(target, E(L))
  <2>1. Ahead(target, E(J)) = IF E(J) >= target THEN E(J) - target ELSE E(J) - target + c + 1
    BY DEF Ahead, c
  <2>2. Ahead(target, E(L)) = IF E(L) >= target THEN E(L) - target ELSE E(L) - target + c + 1
    BY DEF Ahead, c
  <2>3. J \in 0 .. N - 1 /\ L \in 0 .. N - 1
    BY <1>1, <1>6
  <2>4. E(J) \in Nat /\ E(L) \in Nat /\ E(J) < c /\ E(L) < c
    BY <1>3, <2>3
  <2>5. E(idx) \in Nat /\ idx \in 0 .. N - 1
    BY <1>1, <1>3
  <2>6. CASE L < J
    <3>1. L < idx /\ J >= idx /\ L \in 0 .. idx - 1
      BY <1>1, <1>6, <2>3, <2>6
    <3>2. E(L) < target
      BY <1>5, <3>1
    <3>3. E(idx) >= target /\ E(J) >= E(idx)
      BY <1>1, <1>4, <1>5, <2>3, <2>4, <2>5, <3>1
    <3> QED
      BY <1>1, <2>1, <2>2, <2>4, <2>5, <3>2, <3>3
  <2>7. CASE J < L
    <3>1. E(J) < E(L)
      BY <1>4, <2>3, <2>7
    <3>2. E(J) < target => E(L) < target
      <4>1. CASE L < idx
        BY <1>5, <2>3, <4>1, <1>1
      <4>2. CASE L >= idx
        <5>1. J >= idx
          BY <1>1, <1>6, <2>3, <2>7, <4>2
        <5>2. E(J) >= E(idx)
          BY <1>4, <2>3, <2>4, <2>5, <5>1
        <5>3. CASE E(idx) >= target
          BY <1>1, <2>4, <2>5, <5>2, <5>3
        <5>4. CASE \A i \in 0 .. N - 1 : E(i) < target
          BY <2>3, <5>4
        <5> QED
          BY <1>5, <5>3, <5>4
      <4> QED
        BY <1>1, <2>3, <4>1, <4>2
    <3> QED
      BY <1>1, <2>1, <2>2, <2>4, <3>1, <3>2
  <2>8. J # L
    BY <1>1, <1>6
  <2> QED
    BY <2>3, <2>6, <2>7, <2>8
<1> QED
  BY <1>7, <1>8 DEF E, J, L

\* Every virtual node of the peers is on the ring: a sorted list as long as the set.
LEMMA EveryEntryIsThere ==
  ASSUME IndInv, RingIs, NEW g \in VirtualNodes(peers)
  PROVE  \E i \in 0 .. N - 1 : EntryAt(i) = g
<1> DEFINE H == VirtualNodes(peers)
           n == Cardinality(H)
<1>1. IsFiniteSet(H) /\ n \in Nat /\ H \subseteq Nat
  BY VirtualNodesFinite
<1>2. ring \in [1 .. n -> H] /\ \A i, j \in DOMAIN ring : i < j => ring[i] < ring[j]
  BY DEF RingIs, IsSortOf
<1>3. Cardinality(1 .. n) = n
  BY <1>1, FS_Interval
<1> HIDE DEF H
<1>a. ring \in Seq(Nat)
  BY DEF IndInv, RingOK
<1>b. DOMAIN ring = 1 .. N
  BY <1>a DEF N
<1>c. DOMAIN ring = 1 .. n
  BY <1>2
<1> HIDE DEF n
<1>4. ASSUME NEW i \in 1 .. n, NEW j \in 1 .. n, ring[i] = ring[j]
      PROVE  i = j
  <2>1. ring[i] \in Nat /\ ring[j] \in Nat
    BY <1>1, <1>2
  <2>2. ~(i < j) /\ ~(j < i)
    BY <1>2, <1>c, <1>4, <2>1
  <2> QED
    BY <1>1, <2>2
<1>5. ring \in Injection(1 .. n, H)
  BY <1>2, <1>4, Zenon DEF Injection, IsInjective
<1>6. ring \in Surjection(1 .. n, H)
  BY <1>1, <1>3, <1>5, FS_Injection DEF n
<1>7. PICK i \in 1 .. n : ring[i] = g
  BY <1>6, Zenon DEF Surjection, H
<1>8. i \in 1 .. N /\ N \in Nat
  <2>1. N \in Nat
    BY <1>a DEF N
  <2>2. i \in 1 .. N
    BY <1>b, <1>c, <1>7, Zenon
  <2> QED
    BY <2>1, <2>2
<1>9. i - 1 \in 0 .. N - 1 /\ (i - 1) + 1 = i
  BY <1>8
<1> QED
  BY <1>7, <1>9 DEF EntryAt

\* A set of naturals has a least member.
LEMMA LeastExists ==
  ASSUME NEW D \in SUBSET Nat, D # {}
  PROVE  \E d \in D : \A e \in D : d <= e
<1>1. PICK d \in D : \A e \in D : ~(<<e, d>> \in OpToRel(<, Nat))
  BY NatLessThanWellFounded, WFMin, Zenon
<1>2. \A e \in D : ~(e < d)
  BY <1>1 DEF OpToRel
<1> QED
  BY <1>2

\* The distance to a peer is that of its first virtual node.
LEMMA DistanceIsLeast ==
  ASSUME NEW t \in Targets, NEW p, VirtualNodes({p}) # {}
  PROVE  /\ Distance(t, p) \in Nat
         /\ \E h \in VirtualNodes({p}) : Distance(t, p) = Ahead(t, h)
         /\ \A h \in VirtualNodes({p}) : Distance(t, p) <= Ahead(t, h)
<1> DEFINE D == {Ahead(t, h) : h \in VirtualNodes({p})}
<1>1. \A h \in VirtualNodes({p}) : Ahead(t, h) \in Nat
  BY PositionsAre DEF VirtualNodes, Ahead
<1>2. D \in SUBSET Nat /\ D # {}
  BY <1>1
<1>3. \E d \in D : \A e \in D : d <= e
  <2> HIDE DEF D
  <2> QED
    BY <1>2, LeastExists
<1>4. Distance(t, p) = CHOOSE d \in D : \A e \in D : d <= e
  BY DEF Distance
<1>5. Distance(t, p) \in D /\ \A e \in D : Distance(t, p) <= e
  <2> HIDE DEF D
  <2> QED
    BY <1>3, <1>4, Zenon
<1> QED
  BY <1>1, <1>5

\* A peer on the ring met before another is nearer.
LEMMA MetBeforeIsNearer ==
  ASSUME IndInv, RingIs, pc = "walk", step \in 0 .. N,
         NEW p \in peers, NEW q \in peers, MetBefore(p, q)
  PROVE  Distance(target, p) < Distance(target, q)
<1>1. /\ N \in Nat /\ N > 0 /\ idx \in 0 .. N - 1 /\ target \in Targets
      /\ VirtualNodes({p}) # {} /\ VirtualNodes({q}) # {}
  <2>1. N \in Nat /\ N > 0 /\ idx \in 0 .. N - 1
    BY DEF IndInv, RingOK, N, Landed
  <2>2. target \in Targets /\ p \in Peers /\ q \in Peers
    BY DEF RingIs
  <2> QED
    BY <2>1, <2>2 DEF RingIs
<1>2. PICK j \in 0 .. step - 1 : Met(j) = p /\ \A l \in 0 .. j : Met(l) # q
  BY DEF MetBefore
<1>3. j \in 0 .. N - 1
  BY <1>1, <1>2
<1> DEFINE h == EntryAt((idx + j) % N)
<1>4. PICK g \in VirtualNodes({q}) : Distance(target, q) = Ahead(target, g)
  BY <1>1, DistanceIsLeast
<1>5. g \in VirtualNodes(peers) /\ owner[g] = q
  BY DEF VirtualNodes
<1>6. PICK i \in 0 .. N - 1 : EntryAt(i) = g
  BY <1>5, EveryEntryIsThere
<1>7. PICK l \in 0 .. N - 1 : (idx + l) % N = i
  BY <1>1, WalkCovers
<1>8. Met(l) = q
  BY <1>5, <1>6, <1>7 DEF Met
<1>9. j < l
  <2>1. l \notin 0 .. j
    BY <1>2, <1>8
  <2> QED
    BY <1>3, <2>1
<1>10. /\ h \in VirtualNodes(peers)
       /\ Ahead(target, h) < Ahead(target, EntryAt((idx + l) % N))
  BY <1>3, <1>9, WalkRecedes
<1>11. h \in VirtualNodes({p})
  BY <1>2, <1>10 DEF VirtualNodes, Met
<1>12. Distance(target, p) <= Ahead(target, h) /\ Distance(target, p) \in Nat
  BY <1>1, <1>11, DistanceIsLeast
<1>13. Ahead(target, h) < Ahead(target, g)
  BY <1>6, <1>7, <1>10
<1>14. Ahead(target, h) \in Nat /\ Ahead(target, g) \in Nat
  BY <1>1, <1>5, <1>10, PositionsAre DEF VirtualNodes, Ahead
<1> QED
  BY <1>4, <1>12, <1>13, <1>14

\* The walk meets peers of the ring.
LEMMA MetArePeers ==
  ASSUME IndInv, RingIs, pc = "walk", NEW j \in 0 .. N - 1
  PROVE  Met(j) \in peers
<1>1. N \in Nat /\ N > 0 /\ idx \in 0 .. N - 1
  BY DEF IndInv, RingOK, N, Landed
<1>2. (idx + j) % N \in 0 .. N - 1
  BY <1>1, Turn
<1>3. ring \in Seq(Nat)
  BY DEF IndInv, RingOK
<1>4. DOMAIN ring = 1 .. N
  BY <1>3 DEF N
<1>5. ((idx + j) % N) + 1 \in DOMAIN ring
  BY <1>1, <1>2, <1>4
<1>6. EntryAt((idx + j) % N) \in VirtualNodes(peers)
  BY <1>5 DEF RingIs, IsSortOf, EntryAt
<1> QED
  BY <1>6 DEF VirtualNodes, Met

\* A list without repetitions is as long as the set of its members is large.
LEMMA ListSize ==
  ASSUME NEW T, NEW s \in Seq(T), \A i, j \in 1 .. Len(s) : s[i] = s[j] => i = j
  PROVE  LET R == {s[i] : i \in 1 .. Len(s)}
         IN  IsFiniteSet(R) /\ Cardinality(R) = Len(s)
<1> DEFINE R == {s[i] : i \in 1 .. Len(s)}
           n == Len(s)
<1>1. n \in Nat /\ s \in [1 .. n -> R]
  <2>1. n \in Nat /\ DOMAIN s = 1 .. n /\ s = [i \in 1 .. n |-> s[i]]
    OBVIOUS
  <2> QED
    BY <2>1
<1>2. IsFiniteSet(1 .. n) /\ Cardinality(1 .. n) = n
  <2>1. Cardinality(1 .. n) = (IF 1 > n THEN 0 ELSE n - 1 + 1) /\ IsFiniteSet(1 .. n)
    BY <1>1, FS_Interval
  <2> QED
    BY <1>1, <2>1
<1>3. \A t \in R : \E i \in 1 .. n : s[i] = t
  OBVIOUS
<1>4. \A i, j \in 1 .. n : s[i] = s[j] => i = j
  OBVIOUS
<1> HIDE DEF R, n
<1>5. s \in Surjection(1 .. n, R) /\ s \in Injection(1 .. n, R)
  BY <1>1, <1>3, <1>4, Zenon DEF Surjection, Injection, IsInjective
<1>6. IsFiniteSet(R) /\ Cardinality(R) = n
  BY <1>2, <1>5, FS_Surjection
<1> QED
  BY <1>6 DEF R, n

\* The walk ends with the route of the target.
LEMMA WalkEndsInRoute ==
  ASSUME IndInv, RingIs, PicksDistinct, PicksInOrder, pc = "walk", ~Walking
  PROVE  IsRoute(picked, target, peers)
<1> DEFINE n == Len(picked)
<1>1. /\ N \in Nat /\ step \in 0 .. N /\ picked \in Seq({Met(j) : j \in 0 .. step - 1})
      /\ \A j \in 0 .. step - 1 : Met(j) \in Seen
      /\ \A i, j \in 1 .. n : picked[i] = picked[j] => i = j
      /\ n <= Want /\ Want \in Nat
  BY RoutingAssumption DEF IndInv, RingOK, N, PicksDistinct, Want
<1>2. n \in Nat /\ DOMAIN picked = 1 .. n /\ Seen = {picked[i] : i \in 1 .. n}
  BY <1>1 DEF Seen
<1>3. \A i \in 1 .. n : \E j \in 0 .. step - 1 : picked[i] = Met(j)
  BY <1>1, <1>2
<1>4. \A i \in 1 .. n : picked[i] \in peers
  <2>1. \A j \in 0 .. step - 1 : j \in 0 .. N - 1
    BY <1>1
  <2> QED
    BY <1>3, <2>1, MetArePeers
<1>5. IsFiniteSet(Seen) /\ Cardinality(Seen) = n
  BY <1>1, <1>2, ListSize
<1>6. IsFiniteSet(peers) /\ Cardinality(peers) \in Nat
  BY RoutingAssumption, FS_Subset, FS_CardinalityType DEF RingIs
<1>7. Seen \subseteq peers
  BY <1>2, <1>4
<1> HIDE DEF n
<1>8. n <= Cardinality(peers)
  BY <1>5, <1>6, <1>7, FS_Subset
<1>9. n < Want => Cardinality(peers) = n
  <2>1. ASSUME n < Want, NEW p \in peers PROVE p \in Seen
    <3>1. PICK g \in VirtualNodes({p}) : TRUE
      BY DEF RingIs
    <3>2. g \in VirtualNodes(peers) /\ owner[g] = p
      BY DEF VirtualNodes
    <3>3. PICK i \in 0 .. N - 1 : EntryAt(i) = g
      BY <3>2, EveryEntryIsThere
    <3> QED
      BY <2>1, <3>2, <3>3, ShortRoute DEF ShortRouteIsAll, n
  <2>2. ASSUME n < Want PROVE Seen = peers
    BY <1>7, <2>1, <2>2, Zenon
  <2> QED
    BY <1>5, <2>2
<1>10. n = IF Want < Cardinality(peers) THEN Want ELSE Cardinality(peers)
  <2>1. n \in Nat /\ Want \in Nat /\ n <= Want /\ Cardinality(peers) \in Nat
    BY <1>1, <1>2, <1>6
  <2> QED
    BY <1>8, <1>9, <2>1
<1>11. ASSUME NEW i \in 1 .. n, NEW j \in 1 .. n, i < j
       PROVE  Distance(target, picked[i]) < Distance(target, picked[j])
  <2>1. MetBefore(picked[i], picked[j])
    BY <1>11 DEF PicksInOrder, n
  <2> QED
    BY <1>1, <1>4, <2>1, MetBeforeIsNearer
<1>12. ASSUME NEW p \in peers, p \notin Seen, NEW i \in 1 .. n
       PROVE  Distance(target, picked[i]) < Distance(target, p)
  <2>1. PICK j \in 0 .. step - 1 : picked[i] = Met(j)
    BY <1>3
  <2>2. 0 .. j \subseteq 0 .. step - 1
    BY <1>1
  <2>3. MetBefore(picked[i], p)
    BY <1>1, <1>12, <2>1, <2>2 DEF MetBefore
  <2> QED
    BY <1>1, <1>4, <2>3, MetBeforeIsNearer
<1>13. {picked[i] : i \in DOMAIN picked} = Seen
  BY DEF Seen
<1> QED
  BY <1>2, <1>4, <1>10, <1>11, <1>12, <1>13 DEF IsRoute, n

\* The last route returned is a route still: owner does not change.
PrevOK ==
  /\ prev = [peers |-> prev.peers, target |-> prev.target, picked |-> prev.picked]
  /\ \A r, t, S : prev = [peers |-> S, target |-> t, picked |-> r] /\ prev # NoRoute =>
       r \in Seq(Peers) /\ S \subseteq Peers /\ IsRoute(r, t, S)

\* A finished walk's picks are peers.
LEMMA PickedArePeers ==
  ASSUME IndInv, RingIs, PicksDistinct, pc = "walk"
  PROVE  picked \in Seq(Peers)
<1>1. /\ N \in Nat /\ step \in 0 .. N /\ picked \in Seq({Met(j) : j \in 0 .. step - 1})
  BY DEF IndInv, RingOK, N, PicksDistinct
<1>2. \A j \in 0 .. step - 1 : Met(j) \in Peers
  <2>1. \A j \in 0 .. step - 1 : j \in 0 .. N - 1
    BY <1>1
  <2> QED
    BY <2>1, MetArePeers DEF RingIs
<1>3. {Met(j) : j \in 0 .. step - 1} \subseteq Peers
  BY <1>2
<1> QED
  BY <1>1, <1>3

\* The route remembered from before a removal stays a route of the ring it was taken from.
LEMMA PrevOKStep ==
  ASSUME IndInv, RingIs, PicksDistinct, PicksInOrder, PrevOK, [Next]_vars
  PROVE  PrevOK'
<1>1. owner' = owner
  BY DEF Next, RouteStep, SetPeers, BeginRoute, Search, SearchEnds, Walk, Return, vars
<1>2. \A r, t, S : IsRoute(r, t, S)' = IsRoute(r, t, S)
  BY <1>1 DEF IsRoute, Distance, VirtualNodes, Ahead, Want
<1>3. CASE UNCHANGED prev
  BY <1>2, <1>3, Zenon DEF PrevOK
<1>4. CASE Return
  <2>1. /\ prev' = [peers |-> peers, target |-> target, picked |-> picked]
        /\ pc = "walk" /\ ~Walking
    BY <1>4 DEF Return
  <2>2. prev'.peers = peers /\ prev'.target = target /\ prev'.picked = picked
    BY <2>1
  <2>3. IsRoute(picked, target, peers) /\ picked \in Seq(Peers) /\ peers \subseteq Peers
    BY <2>1, WalkEndsInRoute, PickedArePeers DEF RingIs
  <2>4. ASSUME NEW r, NEW t, NEW S, prev' = [peers |-> S, target |-> t, picked |-> r]
        PROVE  r \in Seq(Peers) /\ S \subseteq Peers /\ IsRoute(r, t, S)'
    <3>1. r = picked /\ t = target /\ S = peers
      BY <2>2, <2>4
    <3> QED
      BY <1>2, <2>3, <3>1, Zenon
  <2> QED
    BY <2>1, <2>2, <2>4, Zenon DEF PrevOK
<1> QED
  BY <1>3, <1>4 DEF Next, RouteStep, SetPeers, BeginRoute, Search, SearchEnds, Walk, vars

\* All of it holds throughout.
THEOREM RouteInvHolds == Spec => [](IndInv /\ RingIs /\ PicksDistinct /\ PicksInOrder /\ PrevOK)
<1>1. Init => PicksInOrder /\ PrevOK
  BY DEF Init, PicksInOrder, PrevOK, NoRoute
<1>2. IndInv /\ RingIs /\ PicksDistinct /\ PicksInOrder /\ PrevOK /\ [Next]_vars =>
        (RingIs /\ PicksInOrder /\ PrevOK)'
  BY RingIsStep, PicksInOrderStep, PrevOKStep
<1> QED
  BY <1>1, <1>2, RingIsInit, IndInvHolds, PicksDistinctHolds, PTL DEF Spec

\* For every ring, block and replication factor, Route returns the RF peers whose virtual
\* nodes come first clockwise from the block, nearest first and each once, or all there are.
THEOREM RouteIsClockwiseHolds == Spec => []RouteIsClockwise
<1>1. PrevOK => RouteIsClockwise
  BY DEF PrevOK, RouteIsClockwise
<1> QED
  BY <1>1, RouteInvHolds, PTL

-----------------------------------------------------------------------------
\* What of the route r is in S is in the route s, first and in the order of r.
Agrees(r, s, S) ==
  /\ \A k \in DOMAIN r : r[k] \in S => \E j \in DOMAIN s : s[j] = r[k]
  /\ \A i, j \in DOMAIN s : \A l \in DOMAIN r :
       i < j /\ s[j] = r[l] => \E k \in DOMAIN r : k < l /\ s[i] = r[k]

\* The routes of a target among some peers and among a part of them agree on that part.
LEMMA PartKeepsRoute ==
  ASSUME NEW R \in SUBSET Peers, NEW S \in SUBSET R, NEW t,
         NEW r \in Seq(Peers), NEW s \in Seq(Peers), IsRoute(r, t, R), IsRoute(s, t, S),
         \A p \in Peers : Distance(t, p) \in Nat
  PROVE  Agrees(r, s, S)
<1> DEFINE D(p) == Distance(t, p)
           In(q) == {q[i] : i \in DOMAIN q}
           m == Len(r)
           n == Len(s)
<1>1. /\ m \in Nat /\ DOMAIN r = 1 .. m /\ n \in Nat /\ DOMAIN s = 1 .. n
  OBVIOUS
<1>2. /\ \A i \in 1 .. m : r[i] \in R /\ D(r[i]) \in Nat
      /\ \A i, j \in 1 .. m : i < j => D(r[i]) < D(r[j])
      /\ \A p \in R \ In(r) : \A i \in 1 .. m : D(r[i]) < D(p)
      /\ m = IF Want < Cardinality(R) THEN Want ELSE Cardinality(R)
  BY <1>1 DEF IsRoute
<1>3. /\ \A i \in 1 .. n : s[i] \in S /\ s[i] \in R /\ D(s[i]) \in Nat
      /\ \A i, j \in 1 .. n : i < j => D(s[i]) < D(s[j])
      /\ \A p \in S \ In(s) : \A i \in 1 .. n : D(s[i]) < D(p)
      /\ n = IF Want < Cardinality(S) THEN Want ELSE Cardinality(S)
  BY <1>1 DEF IsRoute
<1>4. /\ In(r) = {r[i] : i \in 1 .. m} /\ In(s) = {s[i] : i \in 1 .. n}
  BY <1>1
<1> HIDE DEF D, m, n
<1>5. \A i, j \in 1 .. m : r[i] = r[j] => i = j
  <2> SUFFICES ASSUME NEW i \in 1 .. m, NEW j \in 1 .. m, r[i] = r[j], i # j PROVE FALSE
    OBVIOUS
  <2>1. D(r[i]) = D(r[j]) /\ D(r[i]) \in Nat /\ D(r[j]) \in Nat
    BY <1>2
  <2>2. i < j \/ j < i
    BY <1>1
  <2> QED
    BY <1>2, <2>1, <2>2
<1>6. \A i, j \in 1 .. n : s[i] = s[j] => i = j
  <2> SUFFICES ASSUME NEW i \in 1 .. n, NEW j \in 1 .. n, s[i] = s[j], i # j PROVE FALSE
    OBVIOUS
  <2>1. D(s[i]) = D(s[j]) /\ D(s[i]) \in Nat /\ D(s[j]) \in Nat
    BY <1>3
  <2>2. i < j \/ j < i
    BY <1>1
  <2> QED
    BY <1>3, <2>1, <2>2
<1>7. /\ IsFiniteSet(In(r)) /\ Cardinality(In(r)) = m
      /\ IsFiniteSet(In(s)) /\ Cardinality(In(s)) = n
  BY <1>4, <1>5, <1>6, ListSize DEF m, n
<1>8. /\ IsFiniteSet(R) /\ IsFiniteSet(S) /\ Cardinality(S) \in Nat /\ Cardinality(R) \in Nat
      /\ Want \in Nat
  BY RoutingAssumption, FS_Subset, FS_CardinalityType DEF Want
\* What is nearer than a peer of the larger route is in it.
<1>9. ASSUME NEW l \in 1 .. m, NEW i \in 1 .. n, D(s[i]) < D(r[l])
      PROVE  s[i] \in In(r)
  <2>1. s[i] \notin In(r) => D(r[l]) < D(s[i])
    BY <1>2, <1>3
  <2>2. D(s[i]) \in Nat /\ D(r[l]) \in Nat
    BY <1>2, <1>3
  <2> QED
    BY <1>9, <2>1, <2>2
<1>10. ASSUME NEW k \in 1 .. m, r[k] \in S, r[k] \notin In(s)
       PROVE  FALSE
  <2> DEFINE U == In(s) \cup {r[k]}
  <2>1. \A i \in 1 .. n : s[i] \in In(r)
    BY <1>3, <1>9, <1>10
  <2>2. U \subseteq In(r) /\ U \subseteq S
    BY <1>3, <1>4, <1>10, <2>1
  <2>3. IsFiniteSet(U) /\ Cardinality(U) = n + 1
    BY <1>7, <1>10, FS_AddElement
  <2> HIDE DEF U
  <2>4. n + 1 <= m /\ n + 1 <= Cardinality(S)
    BY <1>7, <1>8, <2>2, <2>3, FS_Subset
  <2>5. n = Want /\ m <= Want
    BY <1>1, <1>2, <1>3, <1>8, <2>4
  <2> QED
    BY <1>1, <1>8, <2>4, <2>5
<1>11. ASSUME NEW i \in 1 .. n, NEW j \in 1 .. n, NEW l \in 1 .. m, i < j, s[j] = r[l]
       PROVE  \E k \in 1 .. m : k < l /\ s[i] = r[k]
  <2>1. D(s[i]) < D(r[l])
    BY <1>3, <1>11
  <2>2. PICK k \in 1 .. m : s[i] = r[k]
    BY <1>4, <1>9, <2>1
  <2>3. D(r[k]) < D(r[l]) /\ D(r[k]) \in Nat /\ D(r[l]) \in Nat
    BY <1>2, <2>1, <2>2
  <2>4. ~(l < k) /\ k # l
    BY <1>2, <2>3
  <2> QED
    BY <1>1, <2>2, <2>4
<1> QED
  BY <1>1, <1>4, <1>10, <1>11 DEF Agrees

\* Taking peers off the ring never moves a block among those that stay, whatever the ring,
\* the block and the replication factor.
THEOREM RemovalIsStableHolds == Spec => []RemovalIsStable
<1>1. ASSUME IndInv, RingIs, PicksDistinct, PicksInOrder, PrevOK
      PROVE  RemovalIsStable
  <2> SUFFICES ASSUME pc = "walk", ~Walking, prev # NoRoute, prev.target = target,
                      peers \subseteq prev.peers
               PROVE  RemovalIsStable
    BY DEF RemovalIsStable
  <2>1. IsRoute(picked, target, peers) /\ picked \in Seq(Peers)
    BY <1>1, WalkEndsInRoute, PickedArePeers
  <2>2. /\ prev.picked \in Seq(Peers) /\ prev.peers \subseteq Peers
        /\ IsRoute(prev.picked, target, prev.peers)
    BY <1>1 DEF PrevOK
  <2>3. \A p \in Peers : Distance(target, p) \in Nat
    BY <1>1, DistanceIsLeast DEF RingIs
  <2>r. prev.peers \in SUBSET Peers /\ peers \in SUBSET prev.peers
    BY <2>2
  <2>4. Agrees(prev.picked, picked, peers)
    BY <2>1, <2>2, <2>3, <2>r, PartKeepsRoute
  <2> QED
    BY <2>4 DEF RemovalIsStable, Agrees
<1> QED
  BY <1>1, RouteInvHolds, PTL

-----------------------------------------------------------------------------
\* Outside the walk its locals are not set.
Resting == pc # "walk" => idx = 0 /\ step = 0 /\ picked = <<>>

\* Router's state and Route's locals have their types: no index of the search or the walk
\* leaves the ring.
THEOREM TypeCorrect == Spec => []TypeOK
<1>1. Init => Resting
  BY DEF Init, Resting
<1>2. Resting /\ [Next]_vars => Resting'
  BY DEF Resting, Next, RouteStep, SetPeers, BeginRoute, Search, SearchEnds, Walk, Return, vars,
     search, walk
<1>3. ASSUME IndInv, RingIs, PicksDistinct, Resting
      PROVE  TypeOK
  <2>1. N \in Nat /\ ring \in Seq(Nat)
    BY <1>3 DEF IndInv, RingOK, N
  <2>2. ring \in Seq(Positions)
    <3>1. ring \in [1 .. Cardinality(VirtualNodes(peers)) -> Positions]
      BY <1>3 DEF RingIs, IsSortOf, VirtualNodes
    <3>2. Cardinality(VirtualNodes(peers)) \in Nat
      BY VirtualNodesFinite
    <3> QED
      BY <3>1, <3>2
  <2>3. CASE pc = "walk"
    <3>1. idx \in 0 .. N /\ step \in 0 .. N
      BY <1>3, <2>1, <2>3 DEF IndInv, Landed, PicksDistinct
    <3>2. picked \in Seq(Peers)
      BY <1>3, <2>3, PickedArePeers
    <3> QED
      BY <1>3, <2>2, <3>1, <3>2 DEF TypeOK, IndInv, RingIs
  <2>4. CASE pc # "walk"
    <3>1. idx \in 0 .. N /\ step \in 0 .. N /\ picked \in Seq(Peers)
      BY <1>3, <2>1, <2>4 DEF Resting
    <3> QED
      BY <1>3, <2>2, <3>1 DEF TypeOK, IndInv, RingIs
  <2> QED
    BY <2>3, <2>4
<1> QED
  BY <1>1, <1>2, <1>3, RouteInvHolds, PTL DEF Spec
=============================================================================
