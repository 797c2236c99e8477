------------------------------- MODULE Routing -------------------------------
(***************************************************************************)
(* The consistent-hash ring of one node (cache_server/src/routing.cpp):    *)
(* SetPeers, which sorts the virtual nodes of the peers by their hash, and *)
(* Route, a binary search and a clockwise walk, taken a step at a time.    *)
(* Route holds the ring's lock shared and SetPeers swaps under it          *)
(* exclusively, so a ring never changes under a walk.                      *)
(*                                                                         *)
(* A hash is a position; BLAKE3 is external and gives no two virtual nodes *)
(* the same one.  The ring's indices are the code's, from 0.               *)
(***************************************************************************)
EXTENDS Integers, Sequences, FiniteSets

CONSTANTS
  Peers,       \* every peer there may be
  VNodes,      \* vnodes_per_peer_
  RF,          \* replication_factor_
  MaxChanges   \* bound: calls of SetPeers in a behaviour

ASSUME RoutingAssumption ==
  /\ IsFiniteSet(Peers) /\ VNodes \in Nat \ {0} /\ RF \in Nat /\ MaxChanges \in Nat

Positions == 0 .. Cardinality(Peers) * VNodes - 1
Targets == 0 .. Cardinality(Peers) * VNodes   \* the last is past every virtual node

VARIABLES
  owner,    \* position -> the peer whose virtual node hashes to it
  peers,    \* peers_
  ring,     \* ring_: the positions of the peers' virtual nodes, as sorted
  pc,       \* "idle", "search" or "walk"
  target,   \* HashBlock of the block to route
  lo, hi,   \* of the binary search
  idx,      \* where the walk starts
  step,     \* of the walk
  picked,   \* the route: the primary, then the replicas
  prev,     \* history: the peers and the result of the last Route that ended
  changes   \* how often SetPeers was called

search == <<target, lo, hi>>
walk == <<idx, step, picked>>
vars == <<owner, peers, ring, pc, search, walk, prev, changes>>

NoRoute == [peers |-> {}, target |-> 0, picked |-> <<>>]

\* The virtual nodes of a set of peers.
VirtualNodes(S) == {h \in Positions : owner[h] \in S}

\* The members of a set of positions, lowest first.
ByRank(H) ==
  [i \in 1 .. Cardinality(H) |-> CHOOSE h \in H : Cardinality({g \in H : g < h}) = i - 1]

\* What std::sort promises: the same entries, in order.
IsSortOf(r, H) ==
  /\ r \in [1 .. Cardinality(H) -> H]
  /\ \A i, j \in DOMAIN r : i < j => r[i] < r[j]

N == Len(ring)
EntryAt(i) == ring[i + 1]

Init ==
  /\ owner \in {o \in [Positions -> Peers] :
                  \A p \in Peers : Cardinality({h \in Positions : o[h] = p}) = VNodes}
  /\ peers = {} /\ ring = <<>>
  /\ pc = "idle" /\ target = 0 /\ lo = 0 /\ hi = 0
  /\ idx = 0 /\ step = 0 /\ picked = <<>>
  /\ prev = NoRoute /\ changes = 0

SetPeers(S) ==
  /\ pc = "idle" /\ changes < MaxChanges
  /\ ring' = ByRank(VirtualNodes(S)) /\ IsSortOf(ring', VirtualNodes(S))
  /\ peers' = S
  /\ changes' = changes + 1
  /\ UNCHANGED <<owner, pc, search, walk, prev>>

\* An empty ring routes nowhere.
BeginRoute(t) ==
  /\ pc = "idle" /\ ring # <<>>
  /\ target' = t /\ lo' = 0 /\ hi' = N
  /\ pc' = "search"
  /\ UNCHANGED <<owner, peers, ring, walk, prev, changes>>

Mid == lo + (hi - lo) \div 2

\* Mutant of Below: the middle is kept.
BelowMid(m) == lo' = m /\ UNCHANGED hi
Below(m) == lo' = m + 1 /\ UNCHANGED hi

\* One turn of the binary search for the first entry with hash >= target.
Search ==
  /\ pc = "search" /\ lo < hi
  /\ IF EntryAt(Mid) < target THEN Below(Mid) ELSE hi' = Mid /\ UNCHANGED lo
  /\ UNCHANGED <<owner, peers, ring, pc, target, walk, prev, changes>>

\* Mutant of Start: a target past the last entry starts at the last one.
StartClamped == IF lo = N THEN N - 1 ELSE lo
Start == lo % N

SearchEnds ==
  /\ pc = "search" /\ lo = hi
  /\ idx' = Start
  /\ step' = 0 /\ picked' = <<>>
  /\ pc' = "walk"
  /\ UNCHANGED <<owner, peers, ring, search, prev, changes>>

Want == IF RF > 1 THEN RF ELSE 1
Visited == owner[EntryAt((idx + step) % N)]
Seen == {picked[i] : i \in DOMAIN picked}

\* Mutant of IsNew: two virtual nodes of a peer count as two peers.
IsNewVirtualNode(p) == TRUE
IsNew(p) == p \notin Seen

Walking == step < N /\ Len(picked) < Want

Walk ==
  /\ pc = "walk" /\ Walking
  /\ picked' = IF IsNew(Visited) THEN Append(picked, Visited) ELSE picked
  /\ step' = step + 1
  /\ UNCHANGED <<owner, peers, ring, pc, search, idx, prev, changes>>

Return ==
  /\ pc = "walk" /\ ~Walking
  /\ prev' = [peers |-> peers, target |-> target, picked |-> picked]
  /\ pc' = "idle" /\ target' = 0 /\ lo' = 0 /\ hi' = 0
  /\ idx' = 0 /\ step' = 0 /\ picked' = <<>>
  /\ UNCHANGED <<owner, peers, ring, changes>>

RouteStep == Search \/ SearchEnds \/ Walk \/ Return

Next ==
  \/ \E S \in SUBSET Peers : SetPeers(S)
  \/ \E t \in Targets : BeginRoute(t)
  \/ RouteStep

Spec == Init /\ [][Next]_vars

\* A call of Route runs on.
FairSpec == Spec /\ WF_vars(RouteStep)

-----------------------------------------------------------------------------
(***************************************************************************)
(* Properties.                                                             *)
(***************************************************************************)
\* The types of the state of Router and of Route's locals.
TypeOK ==
  /\ owner \in [Positions -> Peers] /\ peers \subseteq Peers
  /\ ring \in Seq(Positions) /\ pc \in {"idle", "search", "walk"}
  /\ target \in Targets /\ lo \in 0 .. N /\ hi \in 0 .. N
  /\ lo <= hi /\ idx \in 0 .. N /\ step \in 0 .. N
  /\ picked \in Seq(Peers)

\* How far clockwise from t a position is, and the first virtual node of a peer.
Ahead(t, h) == IF h >= t THEN h - t ELSE h - t + Cardinality(Positions) + 1
Distance(t, p) ==
  LET D == {Ahead(t, h) : h \in VirtualNodes({p})}
  IN CHOOSE d \in D : \A e \in D : d <= e

\* r is the route of t among the peers S: the nearest peers clockwise, nearest first,
\* RF of them or all there are.
IsRoute(r, t, S) ==
  /\ Len(r) = IF Want < Cardinality(S) THEN Want ELSE Cardinality(S)
  /\ \A i \in DOMAIN r : r[i] \in S
  /\ \A i, j \in DOMAIN r : i < j => Distance(t, r[i]) < Distance(t, r[j])
  /\ \A p \in S \ {r[i] : i \in DOMAIN r} : \A i \in DOMAIN r : Distance(t, r[i]) < Distance(t, p)

\* The binary search of Route ends at the first entry with hash >= target, or wraps to
\* the first of all.
SearchLandsOnSuccessor ==
  pc = "walk" => /\ \A i \in 0 .. idx - 1 : EntryAt(i) < target
                 /\ EntryAt(idx) >= target \/ (idx = 0 /\ \A i \in 0 .. N - 1 : EntryAt(i) < target)

\* Route returns the RF peers whose virtual nodes come first clockwise from the block, each
\* once, or all the peers there are.
RouteIsClockwise == prev # NoRoute => IsRoute(prev.picked, prev.target, prev.peers)

\* Taking peers off the ring moves only the blocks they held: the other peers of a route
\* stay in it, and come before any new one, in the order they had.
RemovalIsStable ==
  pc = "walk" /\ ~Walking /\ prev # NoRoute /\ prev.target = target /\ peers \subseteq prev.peers =>
    LET old == DOMAIN prev.picked
    IN /\ \A k \in old : prev.picked[k] \in peers => \E j \in DOMAIN picked : picked[j] = prev.picked[k]
       /\ \A i, j \in DOMAIN picked : \A l \in old :
            i < j /\ picked[j] = prev.picked[l] =>
              \E k \in old : k < l /\ picked[i] = prev.picked[k]

\* Route ends.
RouteEnds == (pc = "search") ~> (pc = "idle")
=============================================================================
