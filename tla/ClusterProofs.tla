---------------------------- MODULE ClusterProofs ----------------------------
(***************************************************************************)
(* Proofs about Cluster, for any nodes, blocks, ring and numbers of        *)
(* faults: what a client finds, and that a cluster which has come to rest  *)
(* after a death has every block at its target.                            *)
(***************************************************************************)
EXTENDS Cluster, FiniteSetTheorems, TLAPS

\* Backends for the leaves that name none: Zenon, and where it gives up SMT.
USE ZenonT(10), SMTT(40)

-----------------------------------------------------------------------------
(***************************************************************************)
(* Routes.                                                                 *)
(***************************************************************************)
\* Sets of nodes are finite.
LEMMA NodeSets ==
  ASSUME NEW S \in SUBSET Nodes
  PROVE  IsFiniteSet(S) /\ Cardinality(S) \in Nat
  BY FS_Subset, FS_CardinalityType, ClusterAssumption

\* The replication factor is positive.
LEMMA RFType ==
  RF \in Nat /\ RF > 0
  BY ClusterAssumption, SMTT(40)

\* Distances from a block are numbers and differ.
LEMMA Ranks ==
  ASSUME NEW b \in Blocks, NEW n \in Nodes
  PROVE  Rank[b][n] \in Nat /\ \A m \in Nodes : Rank[b][m] = Rank[b][n] => m = n
  BY ClusterAssumption, SMTT(40)

\* One of any nodes is the nearest to a block.
LEMMA NearestExists ==
  ASSUME NEW b \in Blocks, NEW P \in SUBSET Nodes, P # {}
  PROVE  \E n \in P : Nearer(P, b, n) = {}
<1> DEFINE F == {Nearer(P, b, n) : n \in P}
           Below == StrictSubsetOrdering(P)
<1>1. F \subseteq FiniteSubsetsOf(P) /\ F # {}
  BY NodeSets, ZenonT(40) DEF Nearer, FiniteSubsetsOf
<1>2. IsWellFoundedOn(Below, FiniteSubsetsOf(P))
  BY FS_StrictSubsetOrderingWellFounded, Zenon
<1> HIDE DEF F, Below
<1>3. PICK x \in F : \A y \in F : ~(<<y, x>> \in Below)
  BY <1>1, <1>2, WFMin, Zenon
<1>4. PICK n \in P : x = Nearer(P, b, n)
  BY DEF F
<1>5. ASSUME NEW m \in Nearer(P, b, n)
      PROVE  FALSE
  <2>1. m \in P /\ m \in Nodes /\ n \in Nodes
    BY DEF Nearer
  <2>2. Rank[b][m] < Rank[b][n] /\ Rank[b][m] \in Nat /\ Rank[b][n] \in Nat
    BY <2>1, Ranks DEF Nearer
  <2>3. \A k \in P : Rank[b][k] \in Nat
    BY Ranks
  <2>4. Nearer(P, b, m) \subseteq Nearer(P, b, n)
    BY <2>2, <2>3 DEF Nearer
  <2>5. m \notin Nearer(P, b, m)
    BY <2>2 DEF Nearer
  <2>6. Nearer(P, b, m) \in F
    BY <2>1 DEF F
  <2>7. Nearer(P, b, m) \subseteq P /\ Nearer(P, b, n) \subseteq P
    BY DEF Nearer
  <2>8. <<Nearer(P, b, m), x>> \in Below
    BY <1>4, <1>5, <2>4, <2>5, <2>7 DEF Below, StrictSubsetOrdering
  <2> QED
    BY <1>3, <2>6, <2>8
<1> QED
  BY <1>5

\* The primary among some nodes is the nearest of them, and the only one that is.
LEMMA PrimaryIsNearest ==
  ASSUME NEW b \in Blocks, NEW P \in SUBSET Nodes, P # {}
  PROVE  /\ Primary(P, b) \in P /\ Nearer(P, b, Primary(P, b)) = {}
         /\ \A n \in P : Nearer(P, b, n) = {} => n = Primary(P, b)
<1>1. Primary(P, b) \in P /\ Nearer(P, b, Primary(P, b)) = {}
  BY NearestExists DEF Primary
<1>2. ASSUME NEW n \in P, Nearer(P, b, n) = {}
      PROVE  n = Primary(P, b)
  <2> DEFINE m == Primary(P, b)
  <2>1. Rank[b][n] \in Nat /\ Rank[b][m] \in Nat /\ (Rank[b][m] = Rank[b][n] => m = n)
    BY <1>1, Ranks
  <2>2. ~(Rank[b][n] < Rank[b][m]) /\ ~(Rank[b][m] < Rank[b][n])
    BY <1>1, <1>2 DEF Nearer
  <2> QED
    BY <2>1, <2>2
<1> QED
  BY <1>1, <1>2

\* A node's own primary is the primary of every ring that has it.
LEMMA PrimaryStays ==
  ASSUME NEW b \in Blocks, NEW R \in SUBSET Nodes, Primary(Nodes, b) \in R
  PROVE  Primary(R, b) = Primary(Nodes, b)
<1>1. Nearer(Nodes, b, Primary(Nodes, b)) = {}
  BY PrimaryIsNearest, SMTT(40)
<1>2. Nearer(R, b, Primary(Nodes, b)) = {}
  BY <1>1 DEF Nearer
<1> QED
  BY <1>2, PrimaryIsNearest, SMTT(40)

\* Nodes nearer than a given one are not that one.
LEMMA NearerIsOther ==
  ASSUME NEW b \in Blocks, NEW R \in SUBSET Nodes, NEW n \in R
  PROVE  /\ Nearer(R, b, n) \in SUBSET (R \ {n})
         /\ IsFiniteSet(R \ {n}) /\ Cardinality(R \ {n}) = Cardinality(R) - 1
         /\ IsFiniteSet(Nearer(R, b, n)) /\ Cardinality(Nearer(R, b, n)) \in Nat
         /\ Cardinality(Nearer(R, b, n)) <= Cardinality(R) - 1
<1>1. Rank[b][n] \in Nat
  BY Ranks
<1>2. Nearer(R, b, n) \in SUBSET (R \ {n})
  BY <1>1, SMTT(40) DEF Nearer
<1>3. IsFiniteSet(R \ {n}) /\ Cardinality(R \ {n}) = Cardinality(R) - 1
  BY NodeSets, FS_RemoveElement
<1> QED
  BY <1>2, <1>3, FS_Subset, FS_CardinalityType, SMTT(40)

\* A ring of at most RF nodes is the route of every block.
LEMMA SmallRoute ==
  ASSUME NEW b \in Blocks, NEW R \in SUBSET Nodes, Cardinality(R) <= RF
  PROVE  Route(R, b) = R
<1>1. ASSUME NEW n \in R
      PROVE  Cardinality(Nearer(R, b, n)) < RF
  <2>1. /\ Cardinality(Nearer(R, b, n)) \in Nat
        /\ Cardinality(Nearer(R, b, n)) <= Cardinality(R) - 1
    BY NearerIsOther, ZenonT(40)
  <2>2. Cardinality(R) \in Nat
    BY NodeSets
  <2> QED
    BY <2>1, <2>2, RFType
<1> QED
  BY <1>1 DEF Route

\* A primary is in its route.
LEMMA PrimaryInRoute ==
  ASSUME NEW b \in Blocks, NEW R \in SUBSET Nodes, R # {}
  PROVE  Primary(R, b) \in Route(R, b)
<1>1. Primary(R, b) \in R /\ Nearer(R, b, Primary(R, b)) = {}
  BY PrimaryIsNearest
<1>2. Cardinality(Nearer(R, b, Primary(R, b))) = 0
  BY <1>1, FS_EmptySet
<1> QED
  BY <1>1, <1>2, RFType DEF Route

\* One node at most is outside the routes of a cluster of RF + 1 nodes.
LEMMA FullRoute ==
  ASSUME NEW b \in Blocks, Cardinality(Nodes) <= RF + 1
  PROVE  Cardinality(Route(Nodes, b)) >= Least(RF, Cardinality(Nodes))
<1> DEFINE out == Nodes \ Route(Nodes, b)
<1>1. Route(Nodes, b) \in SUBSET Nodes
  BY DEF Route
<1>2. Cardinality(Nodes) \in Nat /\ IsFiniteSet(Nodes) /\ RF \in Nat
  BY NodeSets, ClusterAssumption
<1>3. ASSUME NEW u \in out
      PROVE  Nearer(Nodes, b, u) = Nodes \ {u} /\ Cardinality(Nodes) = RF + 1
  <2>1. /\ Nearer(Nodes, b, u) \in SUBSET (Nodes \ {u})
        /\ Cardinality(Nodes \ {u}) = Cardinality(Nodes) - 1
        /\ Cardinality(Nearer(Nodes, b, u)) \in Nat
        /\ Cardinality(Nearer(Nodes, b, u)) <= Cardinality(Nodes) - 1
    BY NearerIsOther, ZenonT(40)
  <2>2. ~(Cardinality(Nearer(Nodes, b, u)) < RF)
    BY DEF Route
  <2>3. Cardinality(Nodes \ {u}) = Cardinality(Nearer(Nodes, b, u)) /\ Cardinality(Nodes) = RF + 1
    BY <1>2, <2>1, <2>2, SMTT(40)
  <2> QED
    BY <2>1, <2>3, NearerIsOther, FS_Subset
<1>4. \A u, v \in out : u = v
  <2> SUFFICES ASSUME NEW u \in out, NEW v \in out, u # v
               PROVE  FALSE
    OBVIOUS
  <2>1. u \in Nearer(Nodes, b, v) /\ v \in Nearer(Nodes, b, u)
    BY <1>3
  <2>2. Rank[b][u] \in Nat /\ Rank[b][v] \in Nat
    BY Ranks
  <2> QED
    BY <2>1, <2>2 DEF Nearer
<1>5. CASE out = {}
  <2>1. Route(Nodes, b) = Nodes
    BY <1>1, <1>5
  <2> QED
    BY <1>2, <2>1 DEF Least
<1>6. CASE out # {}
  <2>1. PICK u \in out : TRUE
    BY <1>6
  <2>2. Route(Nodes, b) = Nodes \ {u}
    BY <1>1, <1>4, <2>1
  <2>3. Cardinality(Nodes \ {u}) = Cardinality(Nodes) - 1 /\ Cardinality(Nodes) = RF + 1
    BY <1>3, <2>1, NearerIsOther, ZenonT(40)
  <2> QED
    BY <1>2, <2>2, <2>3 DEF Least
<1> QED
  BY <1>5, <1>6

\* A client with a ring asks the block's primary in it.
LEMMA AskedIsPrimary ==
  ASSUME NEW b \in Blocks, NEW P \in ClientPeers, P # {}, NEW n, n \in Asked(P, b)
  PROVE  P \in SUBSET Nodes /\ n \in P /\ n = Primary(P, b)
<1>1. P \in SUBSET Nodes
  BY ClusterAssumption
<1>2. n = Primary(P, b)
  BY DEF Asked
<1>3. Primary(P, b) \in P
  BY <1>1, PrimaryIsNearest, ZenonT(40)
<1> QED
  BY <1>1, <1>2, <1>3

\* A client that misses fewer than RF nodes asks one of the block's route.
LEMMA AskedIsInRoute ==
  ASSUME NEW b \in Blocks, NEW P \in SUBSET Nodes, P # {}, Cardinality(Nodes \ P) < RF
  PROVE  Primary(P, b) \in Route(Nodes, b)
<1> DEFINE n == Primary(P, b)
<1>1. n \in P /\ Nearer(P, b, n) = {}
  BY PrimaryIsNearest
<1>2. Nearer(Nodes, b, n) \in SUBSET (Nodes \ P)
  BY <1>1 DEF Nearer
<1>3. Cardinality(Nearer(Nodes, b, n)) <= Cardinality(Nodes \ P)
  BY <1>2, NodeSets, FS_Subset
<1>4. Cardinality(Nearer(Nodes, b, n)) \in Nat /\ Cardinality(Nodes \ P) \in Nat /\ RF \in Nat
  BY <1>1, NodeSets, NearerIsOther, ClusterAssumption, ZenonT(40)
<1> QED
  BY <1>1, <1>3, <1>4, SMTT(40) DEF Route

-----------------------------------------------------------------------------
(***************************************************************************)
(* Types, and what the steps that fill a queue put into it.                *)
(***************************************************************************)
\* What an Insert queues: the block, from the node, to others.
LEMMA ReplicateOutPushes ==
  ASSUME TypeOK, NEW n \in Nodes, NEW b \in Blocks
  PROVE  ReplicateOut(n, b) \subseteq {p \in Pushes : p.from = n /\ p.block = b}
<1>1. Route(ring[n], b) \subseteq Nodes
  BY DEF TypeOK, Route
<1> QED
  BY <1>1 DEF ReplicateOut, Pushes

\* What a round queues: blocks held, from the node, to others.
LEMMA RoundPushes ==
  ASSUME TypeOK, NEW n \in Nodes, NEW R \in SUBSET Nodes
  PROVE  Round(n, R) \subseteq {p \in Pushes : p.from = n /\ p.block \in store[n]}
<1> SUFFICES ASSUME NEW p \in Round(n, R)
             PROVE  p \in Pushes /\ p.from = n /\ p.block \in store[n]
  OBVIOUS
<1>1. PICK b \in store[n] : p \in [from : {n}, to : Route(R, b) \ {n}, block : {b}]
  BY DEF Round
<1>2. Route(R, b) \subseteq Nodes /\ b \in Blocks
  BY DEF TypeOK, Route
<1> QED
  BY <1>1, <1>2 DEF Pushes

\* The types hold at the start.
LEMMA InitType ==
  Init => TypeOK
  BY ClusterAssumption, SMTT(40) DEF Init, TypeOK, Idle

\* What the types say of the nodes and of the pushes.
NodesType ==
  /\ up \subseteq Nodes /\ store \in [Nodes -> SUBSET Blocks]
  /\ ring \in [Nodes -> SUBSET Nodes] /\ seen \in [Nodes -> SUBSET Nodes]
  /\ \A n \in Nodes : n \in ring[n]
  /\ net \subseteq Pushes /\ queue \in [Nodes -> SUBSET Pushes]
  /\ \A n \in Nodes : \A p \in queue[n] : p.from = n
  /\ fault \in {"none", "crash", "restart", "lost"} /\ inserted \subseteq Blocks

\* What they say of the client.
ClientType ==
  cl \in [pc : {"idle", "lookup", "fetch", "done"}, block : Blocks \cup {NoNode},
          peers : SUBSET Nodes, at : Nodes \cup {NoNode}, tries : 0 .. MaxAttempts - 1,
          got : {"none", "miss", "hit", "bytes"}, held : BOOLEAN, due : BOOLEAN]

\* An Insert or a received push at a node keeps the types.
LEMMA AcceptType ==
  ASSUME TypeOK, NEW n \in Nodes, NEW b \in Blocks, Accept(n, b)
  PROVE  /\ store' \in [Nodes -> SUBSET Blocks] /\ queue' \in [Nodes -> SUBSET Pushes]
         /\ \A k \in Nodes : \A p \in queue'[k] : p.from = k
<1>1. CASE b \in store[n]
  BY <1>1 DEF Accept, TypeOK
<1>2. CASE b \notin store[n]
  <2>1. /\ store' = [store EXCEPT ![n] = @ \cup {b}]
        /\ queue' = [queue EXCEPT ![n] = @ \cup ReplicateOut(n, b)]
    BY <1>2 DEF Accept
  <2> QED
    BY <2>1, ReplicateOutPushes, SMTT(40) DEF TypeOK
<1> QED
  BY <1>1, <1>2

\* Steps of the nodes keep the types.
LEMMA NodeStepType ==
  ASSUME TypeOK, NodeStep
  PROVE  NodesType' /\ cl' = cl
<1>1. ASSUME NEW p \in Pushes, Send(p)
      PROVE  NodesType' /\ cl' = cl
  BY <1>1 DEF Send, TypeOK, NodesType
<1>2. ASSUME NEW p \in Pushes, Receive(p)
      PROVE  NodesType' /\ cl' = cl
  <2>1. p.to \in Nodes /\ p.block \in Blocks /\ Accept(p.to, p.block)
    BY <1>2 DEF Receive, Received, Pushes
  <2> QED
    BY <1>2, <2>1, AcceptType DEF Receive, TypeOK, NodesType
<1>3. ASSUME NEW p \in Pushes, Fail(p)
      PROVE  NodesType' /\ cl' = cl
  BY <1>3 DEF Fail, TypeOK, NodesType
<1>4. ASSUME NEW n \in Nodes, NEW m \in Nodes, DeclareDead(n, m)
      PROVE  NodesType' /\ cl' = cl
  <2>1. ring[n] \ {m} \in SUBSET Nodes /\ m # n
    BY <1>4 DEF DeclareDead, TypeOK
  <2>2. Round(n, ring[n] \ {m}) \subseteq {p \in Pushes : p.from = n /\ p.block \in store[n]}
    BY <2>1, RoundPushes
  <2> QED
    BY <1>4, <2>1, <2>2, ZenonT(40) DEF DeclareDead, TypeOK, NodesType
<1>5. ASSUME NEW n \in Nodes, NEW m \in Nodes, Heartbeat(n, m)
      PROVE  NodesType' /\ cl' = cl
  BY <1>5, SMTT(40) DEF Heartbeat, TypeOK, NodesType
<1> QED
  BY <1>1, <1>2, <1>3, <1>4, <1>5 DEF NodeStep

\* Inserts, crashes and restarts keep the types.
LEMMA FaultType ==
  ASSUME TypeOK, NEW n \in Nodes
  PROVE  /\ \A b \in Blocks : Insert(n, b) => NodesType' /\ ClientType'
         /\ Crash(n) \/ Restart(n) => NodesType' /\ ClientType'
<1>1. ASSUME NEW b \in Blocks, Insert(n, b)
      PROVE  NodesType' /\ ClientType'
  <2>1. Accept(n, b)
    BY <1>1 DEF Insert
  <2> QED
    BY <1>1, <2>1, AcceptType, SMTT(40) DEF Insert, TypeOK, NodesType, ClientType
<1>2. ASSUME Crash(n)
      PROVE  NodesType' /\ ClientType'
  <2>1. NodesType'
    BY <1>2, SMTT(40) DEF Crash, TypeOK, NodesType
  <2>2. ClientType'
    BY <1>2, ZenonT(40) DEF Crash, TypeOK, ClientType
  <2> QED
    BY <2>1, <2>2
<1>3. ASSUME Restart(n)
      PROVE  NodesType' /\ ClientType'
  BY <1>3, SMTT(40) DEF Restart, TypeOK, NodesType, ClientType
<1> QED
  BY <1>1, <1>2, <1>3

\* Steps of the client keep the types, and leave the nodes as they are.
LEMMA ClientStepType ==
  ASSUME TypeOK
  PROVE  /\ \A b \in Blocks, P \in ClientPeers, n \in Nodes : StartLookup(b, P, n) => ClientType'
         /\ Lookup \/ Fetch => ClientType'
<1>0. 0 \in 0 .. MaxAttempts - 1 /\ ClientPeers \subseteq SUBSET Nodes
  BY ClusterAssumption, SMTT(40)
<1>1. ASSUME NEW b \in Blocks, NEW P \in ClientPeers, NEW n \in Nodes, StartLookup(b, P, n)
      PROVE  ClientType'
  BY <1>0, <1>1 DEF StartLookup, ClientType
<1>2. ASSUME NEW g \in {"miss", "hit", "bytes"}, Done(g)
      PROVE  ClientType'
  BY <1>0, <1>2, ZenonT(40) DEF Done, TypeOK, ClientType
<1>3. ASSUME NEW g \in {"miss", "hit", "bytes"}, Retry(g)
      PROVE  ClientType'
  BY <1>2, <1>3, ClusterAssumption, SMTT(40) DEF Retry, TypeOK, ClientType
<1>4. ASSUME NEW s, FetchIntoResult(s)
      PROVE  ClientType'
  <2>1. CASE s \in cl.peers
    <3>1. s \in Nodes /\ cl' = [cl EXCEPT !.pc = "fetch", !.at = s, !.tries = 0]
      BY <1>4, <2>1 DEF FetchIntoResult, TypeOK
    <3> QED
      BY <1>0, <3>1, ZenonT(40) DEF TypeOK, ClientType
  <2> QED
    BY <1>2, <1>4, <2>1 DEF FetchIntoResult
<1>5. ASSUME Lookup
      PROVE  ClientType'
  <2>1. CASE Answer(Source(cl.at, cl.block))
    BY <1>2, <1>4, <2>1 DEF Answer
  <2> QED
    BY <1>3, <1>5, <2>1 DEF Lookup
<1>6. ASSUME Fetch
      PROVE  ClientType'
  BY <1>2, <1>3, <1>6 DEF Fetch
<1> QED
  BY <1>1, <1>5, <1>6

\* The types are inductive.
LEMMA TypeStep ==
  TypeOK /\ [Next]_vars => TypeOK'
<1> SUFFICES ASSUME TypeOK, [Next]_vars
             PROVE  NodesType' /\ ClientType'
  BY DEF TypeOK, NodesType, ClientType
<1>1. NodesType /\ ClientType
  BY DEF TypeOK, NodesType, ClientType
<1>2. CASE NodeStep
  <2>1. NodesType' /\ cl' = cl
    BY <1>2, NodeStepType
  <2> QED
    BY <1>1, <2>1 DEF ClientType
<1>3. CASE \E n \in Nodes : Crash(n) \/ Restart(n) \/ \E b \in Blocks : Insert(n, b)
  BY <1>3, FaultType
<1>4. CASE \/ \E b \in Blocks, P \in ClientPeers, n \in Nodes : StartLookup(b, P, n)
           \/ Lookup \/ Fetch
  <2>1. ClientType'
    BY <1>4, ClientStepType
  <2>2. UNCHANGED <<nodes, net, fault, inserted>>
    BY <1>4 DEF StartLookup, Lookup, Fetch
  <2> QED
    BY <1>1, <2>1, <2>2 DEF NodesType, nodes
<1>5. CASE UNCHANGED vars
  BY <1>1, <1>5 DEF vars, NodesType, ClientType
<1> QED
  BY <1>2, <1>3, <1>4, <1>5 DEF Next

\* The types hold throughout: a node stays in its own ring, a queue holds the pushes of its
\* own node only, and none is from a node to itself.
THEOREM TypeCorrect ==
  Spec => []TypeOK
  BY InitType, TypeStep, PTL DEF Spec

-----------------------------------------------------------------------------
(***************************************************************************)
(* What a client finds.                                                    *)
(***************************************************************************)
\* An accepted block is in the store, and nothing is lost.
LEMMA AcceptGrows ==
  ASSUME TypeOK, NEW n \in Nodes, NEW b \in Blocks, Accept(n, b)
  PROVE  /\ store'[n] = store[n] \cup {b} /\ \A k \in Nodes \ {n} : store'[k] = store[k]
         /\ \A p \in queue'[n] : p \in queue[n] \/ p.block = b
         /\ queue[n] \subseteq queue'[n] /\ \A k \in Nodes \ {n} : queue'[k] = queue[k]
<1>1. CASE b \in store[n]
  BY <1>1 DEF Accept, TypeOK
<1>2. CASE b \notin store[n]
  <2>1. /\ store' = [store EXCEPT ![n] = @ \cup {b}]
        /\ queue' = [queue EXCEPT ![n] = @ \cup ReplicateOut(n, b)]
    BY <1>2 DEF Accept
  <2> QED
    BY <2>1, ReplicateOutPushes, SMTT(40) DEF TypeOK
<1> QED
  BY <1>1, <1>2

\* No store shrinks, no node dies and the client does nothing.
Grows == up \subseteq up' /\ cl' = cl /\ \A k \in Nodes : store[k] \subseteq store'[k]

\* That is so in every step but a crash and the client's own.
LEMMA NodesGrow ==
  ASSUME TypeOK
  PROVE  /\ NodeStep => Grows
         /\ \A n \in Nodes : Restart(n) \/ (\E b \in Blocks : Insert(n, b)) => Grows
<1>1. ASSUME NEW p \in Pushes, Send(p) \/ Fail(p)
      PROVE  Grows
  BY <1>1 DEF Send, Fail, Grows
<1>2. ASSUME NEW p \in Pushes, Receive(p)
      PROVE  Grows
  <2>1. p.to \in Nodes /\ p.block \in Blocks /\ Accept(p.to, p.block) /\ up' = up /\ cl' = cl
    BY <1>2 DEF Receive, Received, Pushes
  <2> QED
    BY <2>1, AcceptGrows DEF Grows
<1>3. ASSUME NEW n \in Nodes, NEW m \in Nodes, DeclareDead(n, m) \/ Heartbeat(n, m)
      PROVE  Grows
  BY <1>3 DEF DeclareDead, Heartbeat, Grows
<1>4. ASSUME NEW n \in Nodes, Restart(n)
      PROVE  Grows
  BY <1>4 DEF Restart, Grows
<1>5. ASSUME NEW n \in Nodes, NEW b \in Blocks, Insert(n, b)
      PROVE  Grows
  <2>1. Accept(n, b) /\ up' = up /\ cl' = cl
    BY <1>5 DEF Insert
  <2> QED
    BY <2>1, AcceptGrows DEF Grows
<1> QED
  BY <1>1, <1>2, <1>3, <1>4, <1>5 DEF NodeStep

\* A lookup that is at a holder stays there while nothing shrinks.
LEMMA GrowsKeepsHolder ==
  ASSUME TypeOK, Grows, AtHolder
  PROVE  AtHolder'
  BY DEF TypeOK, Grows, AtHolder

\* Of a holder, Lookup and Fetch bring the bytes.
LEMMA CallsKeepHolder ==
  ASSUME TypeOK, Lookup \/ Fetch
  PROVE  /\ cl'.held = cl.held /\ cl'.due = cl.due
         /\ AtHolder => AtHolder'
<1> DEFINE Same == cl'.held = cl.held /\ cl'.due = cl.due
<1>a. \A g : Done(g) => Same
  BY DEF TypeOK, Done
<1>t. cl' = [cl EXCEPT !.tries = @ + 1] => Same
  BY DEF TypeOK
<1>f. \A s : cl' = [cl EXCEPT !.pc = "fetch", !.at = s, !.tries = 0] => Same
  BY DEF TypeOK
<1> HIDE DEF Same
<1>b. \A g : Retry(g) => Same
  BY <1>a, <1>t, ZenonT(40) DEF Retry
<1>c. \A s : FetchIntoResult(s) => Same
  BY <1>a, <1>f, ZenonT(40) DEF FetchIntoResult
<1>d. \A s : Answer(s) => Same
  BY <1>a, <1>c, ZenonT(40) DEF Answer
<1>0. Same
  BY <1>a, <1>b, <1>d, ZenonT(40) DEF Lookup, Fetch
<1>1. /\ cl'.held = cl.held /\ cl'.due = cl.due
  BY <1>0 DEF Same
<1>2. ASSUME AtHolder, Lookup
      PROVE  AtHolder'
  <2>1. cl.at \in up /\ cl.at \in cl.peers /\ cl.block \in store[cl.at]
    BY <1>2 DEF AtHolder, Lookup
  <2>2. Answer(Source(cl.at, cl.block)) /\ UNCHANGED <<up, store>>
    BY <1>2, <2>1 DEF Lookup, Retry, nodes
  <2>3. Source(cl.at, cl.block) = cl.at /\ cl.at # NoNode
    BY <2>1, ClusterAssumption, SMTT(40) DEF Source, TypeOK
  <2>4. cl' = [cl EXCEPT !.pc = "fetch", !.at = cl.at, !.tries = 0]
    BY <2>1, <2>2, <2>3 DEF Answer, FetchIntoResult
  <2>5. cl'.pc = "fetch" /\ cl'.at = cl.at /\ cl'.peers = cl.peers /\ cl'.block = cl.block
    BY <2>4 DEF TypeOK
  <2> QED
    BY <2>1, <2>2, <2>5 DEF AtHolder
<1>3. ASSUME AtHolder, Fetch
      PROVE  AtHolder'
  <2>1. cl.at \in up /\ cl.block \in store[cl.at]
    BY <1>3 DEF AtHolder, Fetch
  <2>2. Done("bytes")
    BY <1>3, <2>1 DEF Fetch, Retry
  <2>3. cl'.pc = "done" /\ cl'.got = "bytes"
    BY <2>2 DEF Done, TypeOK
  <2> QED
    BY <2>3 DEF AtHolder
<1> QED
  BY <1>1, <1>2, <1>3

\* A crash ends what was promised of the lookups at the node, or under way.
LEMMA CrashKeepsHolder ==
  ASSUME TypeOK, NEW n \in Nodes, Crash(n), AtHolder
  PROVE  HeldOK' /\ DueOK'
<1>1. /\ cl'.pc = cl.pc /\ cl'.at = cl.at /\ cl'.peers = cl.peers /\ cl'.block = cl.block
      /\ cl'.got = cl.got
      /\ cl'.held = (cl.held /\ cl.at # n) /\ cl'.due = (cl.due /\ cl.pc = "done")
  BY DEF Crash, TypeOK
<1>2. up' = up \ {n} /\ \A k \in Nodes : k # n => store'[k] = store[k]
  BY DEF Crash, TypeOK
<1>3. up \subseteq Nodes
  BY DEF TypeOK
<1>4. cl'.held => AtHolder'
  BY <1>1, <1>2, <1>3, ZenonT(40) DEF AtHolder
<1>5. cl'.due => AtHolder'
  BY <1>1, ZenonT(40) DEF AtHolder
<1> QED
  BY <1>4, <1>5 DEF HeldOK, DueOK

\* A crash renews no promise.
LEMMA CrashPromises ==
  ASSUME TypeOK, NEW n \in Nodes, Crash(n)
  PROVE  (cl'.held => cl.held) /\ (cl'.due => cl.due)
  BY DEF Crash, TypeOK

\* HeldOK is inductive.
LEMMA HeldStep ==
  TypeOK /\ HeldOK /\ [Next]_vars => HeldOK'
<1> SUFFICES ASSUME TypeOK, HeldOK, [Next]_vars
             PROVE  HeldOK'
  OBVIOUS
<1>1. CASE Grows
  BY <1>1, GrowsKeepsHolder DEF HeldOK, Grows
<1>2. CASE Lookup \/ Fetch
  BY <1>2, CallsKeepHolder, ZenonT(40) DEF HeldOK
<1>3. ASSUME NEW n \in Nodes, Crash(n)
      PROVE  HeldOK'
  BY <1>3, CrashKeepsHolder, CrashPromises DEF HeldOK
<1>4. ASSUME NEW b \in Blocks, NEW P \in ClientPeers, NEW n \in Nodes, StartLookup(b, P, n)
      PROVE  HeldOK'
  <2> SUFFICES ASSUME P # {}, n \in up, b \in store[n]
               PROVE  AtHolder'
    BY <1>4, ZenonT(40) DEF HeldOK, StartLookup
  <2>1. n \in P
    <3>1. n \in Asked(P, b)
      BY <1>4, ZenonT(40) DEF StartLookup
    <3> QED
      BY <3>1, AskedIsPrimary, ZenonT(40)
  <2>2. /\ cl'.pc = "lookup" /\ cl'.at = n /\ cl'.peers = P /\ cl'.block = b
        /\ UNCHANGED <<up, store>>
    BY <1>4 DEF StartLookup, nodes
  <2> QED
    BY <2>1, <2>2 DEF AtHolder
<1>5. CASE UNCHANGED vars
  BY <1>5 DEF vars, HeldOK, AtHolder
<1> QED
  BY <1>1, <1>2, <1>3, <1>4, <1>5, NodesGrow DEF Next

\* A lookup of a block that the node asked has, until the call is over, brings its bytes: the
\* node finds it, names itself and sends the bytes, whatever the other nodes do, die or
\* forget meanwhile.
THEOREM LookupFindsHeld ==
  Spec => []FoundWhileHeld
<1>1. Init => HeldOK
  BY SMTT(40) DEF Init, Idle, HeldOK
<1>2. TypeOK /\ HeldOK => FoundWhileHeld
  BY DEF HeldOK, AtHolder, FoundWhileHeld
<1> QED
  BY <1>1, <1>2, HeldStep, TypeCorrect, PTL DEF Spec

-----------------------------------------------------------------------------
(***************************************************************************)
(* Before the first fault.                                                 *)
(***************************************************************************)
\* An Insert at the primary, of a node whose ring is R, queues a push to each other node of
\* the block's route.
LEMMA InsertPushes ==
  ASSUME TypeOK, NEW n \in Nodes, NEW b \in Blocks, Insert(n, b), Primary(ring[n], b) = n
  PROVE  /\ b \in store'[n]
         /\ \A m \in Route(ring[n], b) : m = n \/ Push(n, m, b) \in queue'[n]
<1>1. /\ store' = [store EXCEPT ![n] = @ \cup {b}]
      /\ queue' = [queue EXCEPT ![n] = @ \cup ReplicateOut(n, b)]
  BY DEF Insert, Accept
<1>2. ASSUME NEW m \in Route(ring[n], b), m # n
      PROVE  Push(n, m, b) \in ReplicateOut(n, b)
  BY <1>2 DEF ReplicateOut, Push
<1> QED
  BY <1>1, <1>2 DEF TypeOK

\* A block that comes goes on coming while the stores and the queues grow.
LEMMA GrowsComes ==
  ASSUME NEW s \in Nodes, NEW m \in Nodes, NEW b \in Blocks, Comes(s, m, b),
         store[m] \subseteq store'[m], queue[s] \subseteq queue'[s], net' = net
  PROVE  Comes(s, m, b)'
  BY DEF Comes

\* A push sent still comes.
LEMMA SendComes ==
  ASSUME TypeOK, NEW p \in Pushes, Send(p), NEW s \in Nodes, NEW m \in Nodes, NEW b \in Blocks,
         Comes(s, m, b)
  PROVE  Comes(s, m, b)'
<1>1. /\ queue' = [queue EXCEPT ![p.from] = @ \ {p}] /\ net' = net \cup {p} /\ store' = store
  BY DEF Send
<1>2. queue[s] \subseteq queue'[s] \cup {p}
  BY <1>1 DEF TypeOK
<1> QED
  BY <1>1, <1>2 DEF Comes

\* A push received has come.
LEMMA ReceiveComes ==
  ASSUME TypeOK, NEW p \in Pushes, Receive(p), NEW s \in Nodes, NEW m \in Nodes,
         NEW b \in Blocks, Comes(s, m, b)
  PROVE  Comes(s, m, b)'
<1>1. p.to \in Nodes /\ p.block \in Blocks /\ Accept(p.to, p.block) /\ net' = net \ {p}
  BY DEF Receive, Received, Pushes
<1>2. store[m] \subseteq store'[m] /\ queue[s] \subseteq queue'[s]
  BY <1>1, AcceptGrows
<1>3. CASE Push(s, m, b) = p
  <2>1. p.to = m /\ p.block = b
    BY <1>3 DEF Push
  <2>2. b \in store'[m]
    BY <1>1, <2>1, AcceptGrows, SMTT(40)
  <2> QED
    BY <2>2 DEF Comes
<1>4. CASE Push(s, m, b) # p
  BY <1>1, <1>2, <1>4 DEF Comes
<1> QED
  BY <1>3, <1>4

\* A primary is a node.
LEMMA PrimaryType ==
  ASSUME NEW b \in Blocks, Nodes # {}
  PROVE  Primary(Nodes, b) \in Nodes /\ Route(Nodes, b) \subseteq Nodes
  BY PrimaryIsNearest DEF Route

\* The invariant of a cluster without faults, without its guard.
Fresh ==
  /\ up = Nodes
  /\ \A n \in Nodes : /\ ring[n] = Nodes /\ store[n] \subseteq inserted
                      /\ \A p \in queue[n] \cup net : p.block \in inserted
  /\ \A b \in inserted : LET s == Primary(Nodes, b) IN
       b \in store[s] /\ \A n \in Route(Nodes, b) : Comes(s, n, b)

\* An Insert keeps it.
LEMMA InsertFresh ==
  ASSUME TypeOK, Fresh, Routed, NEW n \in Nodes, NEW b \in Blocks, Insert(n, b)
  PROVE  Fresh'
<1>1. /\ Accept(n, b) /\ n = Primary(Nodes, b) /\ inserted' = inserted \cup {b}
      /\ UNCHANGED <<up, ring, net>>
  BY DEF Insert
<1>2. ring[n] = Nodes /\ Primary(ring[n], b) = n
  BY <1>1 DEF Fresh
<1>3. /\ store'[n] = store[n] \cup {b} /\ \A k \in Nodes \ {n} : store'[k] = store[k]
      /\ \A p \in queue'[n] : p \in queue[n] \/ p.block = b
      /\ queue[n] \subseteq queue'[n] /\ \A k \in Nodes \ {n} : queue'[k] = queue[k]
  BY <1>1, AcceptGrows
<1>4. \A k \in Nodes : /\ ring'[k] = Nodes /\ store'[k] \subseteq inserted'
                       /\ \A p \in queue'[k] \cup net' : p.block \in inserted'
  BY <1>1, <1>3 DEF Fresh
<1>5. ASSUME NEW c \in inserted'
      PROVE  LET s == Primary(Nodes, c) IN
               b \in store'[n] /\ c \in store'[s] /\ \A k \in Route(Nodes, c) : Comes(s, k, c)'
  <2>1. c \in Blocks /\ Primary(Nodes, c) \in Nodes /\ Route(Nodes, c) \subseteq Nodes
    BY <1>1, PrimaryType DEF TypeOK
  <2>2. CASE c \in inserted
    <3>1. c \in store[Primary(Nodes, c)] /\ \A k \in Route(Nodes, c) : Comes(Primary(Nodes, c), k, c)
      BY <2>2 DEF Fresh
    <3> QED
      BY <1>1, <1>3, <2>1, <3>1, GrowsComes
  <2>3. CASE c = b
    BY <1>1, <1>2, <1>3, <2>3, InsertPushes DEF Comes
  <2> QED
    BY <1>1, <2>2, <2>3
<1> QED
  BY <1>1, <1>4, <1>5 DEF Fresh

\* Pushes keep it.
LEMMA PushFresh ==
  ASSUME TypeOK, Fresh, NEW p \in Pushes, Send(p) \/ Receive(p)
  PROVE  Fresh'
<1>1. up' = up /\ ring' = ring /\ inserted' = inserted
  BY DEF Send, Receive
<1>2. \A k \in Nodes : /\ store'[k] \subseteq inserted
                       /\ \A q \in queue'[k] \cup net' : q.block \in inserted
  <2>1. CASE Send(p)
    BY <2>1, SMTT(40) DEF Send, Fresh, TypeOK
  <2>2. CASE Receive(p)
    <3>1. /\ p \in net /\ p.to \in Nodes /\ p.block \in Blocks /\ Accept(p.to, p.block)
          /\ net' = net \ {p}
      BY <2>2 DEF Receive, Received, Pushes
    <3>2. p.block \in inserted
      BY <3>1 DEF Fresh
    <3> QED
      BY <3>1, <3>2, AcceptGrows, SMTT(40) DEF Fresh
  <2> QED
    BY <2>1, <2>2
<1>3. \A k \in Nodes : store[k] \subseteq store'[k]
  <2>1. NodeStep
    BY DEF NodeStep
  <2> QED
    BY <2>1, NodesGrow DEF Grows
<1>4. ASSUME NEW c \in inserted
      PROVE  LET s == Primary(Nodes, c) IN
               c \in store'[s] /\ \A k \in Route(Nodes, c) : Comes(s, k, c)'
  <2>1. c \in Blocks /\ Primary(Nodes, c) \in Nodes /\ Route(Nodes, c) \subseteq Nodes
    BY PrimaryType DEF TypeOK, Pushes
  <2>2. c \in store[Primary(Nodes, c)] /\ \A k \in Route(Nodes, c) : Comes(Primary(Nodes, c), k, c)
    BY DEF Fresh
  <2> QED
    BY <1>3, <2>1, <2>2, SendComes, ReceiveComes
<1> QED
  BY <1>1, <1>2, <1>4 DEF Fresh

\* FreshOK is inductive where Inserts go to the primary.
LEMMA FreshStep ==
  ASSUME Routed
  PROVE  TypeOK /\ FreshOK /\ [Next]_vars => FreshOK'
<1> SUFFICES ASSUME TypeOK, FreshOK, [Next]_vars, fault' = "none"
             PROVE  Fresh'
  BY DEF FreshOK, Fresh
<1>1. ASSUME fault = "none"
      PROVE  Fresh
  BY <1>1 DEF FreshOK, Fresh
<1>2. ASSUME NEW n \in Nodes, NEW b \in Blocks, Insert(n, b)
      PROVE  Fresh'
  <2>1. fault = "none"
    BY <1>2 DEF Insert
  <2> QED
    BY <1>1, <1>2, <2>1, InsertFresh
<1>3. ASSUME NEW p \in Pushes, Send(p) \/ Receive(p)
      PROVE  Fresh'
  <2>1. fault = "none"
    BY <1>3 DEF Send, Receive
  <2> QED
    BY <1>1, <1>3, <2>1, PushFresh
<1>4. ASSUME NEW p \in Pushes, Fail(p)
      PROVE  FALSE
  <2>1. p.to \in Nodes
    BY DEF Pushes
  <2>2. fault = "none" /\ p.to \notin up
    BY <1>4 DEF Fail
  <2> QED
    BY <1>1, <2>1, <2>2 DEF Fresh
<1>5. ASSUME NEW n \in Nodes, NEW m \in Nodes, DeclareDead(n, m) \/ Heartbeat(n, m)
      PROVE  Fresh'
  <2>1. fault = "none" /\ Fresh
    BY <1>1, <1>5 DEF DeclareDead, Heartbeat
  <2>2. Heartbeat(n, m)
    BY <1>5, <2>1 DEF DeclareDead, Fresh
  <2>3. ring' = [ring EXCEPT ![n] = @ \cup {m}] /\ UNCHANGED <<up, store, queue, net, inserted>>
    BY <2>2 DEF Heartbeat
  <2>4. \A k \in Nodes : ring'[k] = Nodes
    BY <2>1, <2>3, SMTT(40) DEF Fresh, TypeOK
  <2> QED
    BY <2>1, <2>3, <2>4 DEF Fresh, Comes
<1>6. ASSUME NEW n \in Nodes, Crash(n) \/ Restart(n)
      PROVE  FALSE
  BY <1>6 DEF Crash, Restart
<1>7. CASE \/ \E b \in Blocks, P \in ClientPeers, n \in Nodes : StartLookup(b, P, n)
           \/ Lookup \/ Fetch \/ UNCHANGED vars
  <2>1. UNCHANGED <<up, store, ring, queue, net, fault, inserted>>
    BY <1>7 DEF StartLookup, Lookup, Fetch, nodes, vars
  <2>2. Fresh
    BY <1>1, <2>1
  <2> QED
    BY <2>1, <2>2 DEF Fresh, Comes
<1> QED
  BY <1>2, <1>3, <1>4, <1>5, <1>6, <1>7 DEF Next, NodeStep

\* DueOK is inductive for clients whose ring lacks fewer than RF nodes.
LEMMA DueStep ==
  ASSUME \A P \in ClientPeers : P # {} => Cardinality(Nodes \ P) < RF
  PROVE  TypeOK /\ FreshOK /\ DueOK /\ [Next]_vars => DueOK'
<1> SUFFICES ASSUME TypeOK, FreshOK, DueOK, [Next]_vars
             PROVE  DueOK'
  OBVIOUS
<1>1. CASE Grows
  BY <1>1, GrowsKeepsHolder DEF DueOK, Grows
<1>2. CASE Lookup \/ Fetch
  BY <1>2, CallsKeepHolder, ZenonT(40) DEF DueOK
<1>3. ASSUME NEW n \in Nodes, Crash(n)
      PROVE  DueOK'
  BY <1>3, CrashKeepsHolder, CrashPromises DEF DueOK
<1>4. ASSUME NEW b \in Blocks, NEW P \in ClientPeers, NEW n \in Nodes, StartLookup(b, P, n)
      PROVE  DueOK'
  <2> SUFFICES ASSUME P # {}, b \in inserted, Settled, fault = "none"
               PROVE  AtHolder'
    BY <1>4, ZenonT(40) DEF DueOK, StartLookup
  <2>1. n \in P /\ n = Primary(P, b) /\ P \in SUBSET Nodes
    <3>1. n \in Asked(P, b)
      BY <1>4, ZenonT(40) DEF StartLookup
    <3> QED
      BY <3>1, AskedIsPrimary, ZenonT(40)
  <2>2. n \in Route(Nodes, b)
    BY <2>1, AskedIsInRoute, ZenonT(40)
  <2>3. Comes(Primary(Nodes, b), n, b) /\ up = Nodes /\ Primary(Nodes, b) \in Nodes
    BY <2>2, PrimaryType DEF FreshOK
  <2>4. b \in store[n]
    BY <2>3 DEF Comes, Settled
  <2>5. /\ cl'.pc = "lookup" /\ cl'.at = n /\ cl'.peers = P /\ cl'.block = b
        /\ UNCHANGED <<up, store>>
    BY <1>4 DEF StartLookup, nodes
  <2> QED
    BY <2>1, <2>3, <2>4, <2>5 DEF AtHolder
<1>5. CASE UNCHANGED vars
  BY <1>5, ZenonT(40) DEF vars, DueOK, AtHolder
<1> QED
  BY <1>1, <1>2, <1>3, <1>4, <1>5, NodesGrow DEF Next

\* Where Inserts go to the primary, and a client's ring lacks fewer than RF nodes, a block
\* inserted before any fault is found with its bytes once the pushes are done: the node the
\* client asks is in the block's route, so a push has brought it the block.
THEOREM InsertsAreFound ==
  ASSUME Routed, \A P \in ClientPeers : P # {} => Cardinality(Nodes \ P) < RF
  PROVE  Spec => []InsertedIsFound
<1>1. Init => FreshOK /\ DueOK
  BY SMTT(40) DEF Init, Idle, FreshOK, DueOK
<1>2. TypeOK /\ FreshOK /\ [Next]_vars => FreshOK'
  BY FreshStep
<1>3. TypeOK /\ FreshOK /\ DueOK /\ [Next]_vars => DueOK'
  BY DueStep
<1>4. TypeOK /\ DueOK => InsertedIsFound
  BY DEF DueOK, AtHolder, InsertedIsFound
<1> QED
  BY <1>1, <1>2, <1>3, <1>4, TypeCorrect, PTL DEF Spec

-----------------------------------------------------------------------------
(***************************************************************************)
(* Pushes, crashes and restarts, where a node restarts only once its death *)
(* is known and none dies while a return is not noticed everywhere.        *)
(***************************************************************************)
\* A node that is alone declares nobody dead and hears from nobody.
LEMMA AloneIsQuiet ==
  ASSUME TypeOK, Alone, NEW n \in Nodes, NEW m \in Nodes
  PROVE  ~DeclareDead(n, m) /\ ~Heartbeat(n, m)
  BY DEF Alone, DeclareDead, Heartbeat

\* An Insert, or a push received, keeps PushesOK.
LEMMA AcceptPushes ==
  ASSUME TypeOK, PushesOK, NEW n \in up, NEW b \in Blocks, Accept(n, b), net' \subseteq net,
         UNCHANGED <<up, ring, seen>>
  PROVE  PushesOK'
<1>1. n \in Nodes
  BY DEF TypeOK
<1>2. /\ store'[n] = store[n] \cup {b} /\ \A k \in Nodes \ {n} : store'[k] = store[k]
      /\ \A p \in queue'[n] : p \in queue[n] \/ p.block = b
      /\ queue[n] \subseteq queue'[n] /\ \A k \in Nodes \ {n} : queue'[k] = queue[k]
  BY <1>1, AcceptGrows
<1>3. QueuedOK'
  BY <1>2 DEF PushesOK, QueuedOK
<1>4. EndedOK'
  BY DEF PushesOK, EndedOK
<1>5. SentOK'
  <2>1. Alone' <=> Alone
    BY DEF Alone
  <2>2. \A k \in Nodes : store[k] \subseteq store'[k]
    BY <1>2
  <2>3. up \subseteq Nodes
    BY DEF TypeOK
  <2> QED
    BY <2>1, <2>2, <2>3 DEF PushesOK, SentOK
<1> QED
  BY <1>3, <1>4, <1>5 DEF PushesOK

\* Sending keeps it: what is sent was queued.
LEMMA SendPushes ==
  ASSUME TypeOK, PushesOK, NEW p \in Pushes, Send(p)
  PROVE  PushesOK'
<1>1. /\ p.from \in up /\ p \in queue[p.from] /\ p.from \in Nodes
      /\ queue' = [queue EXCEPT ![p.from] = @ \ {p}] /\ net' = net \cup {p}
      /\ UNCHANGED <<up, store, ring, seen>>
  BY DEF Send, Pushes
<1>2. p.block \in store[p.from]
  BY <1>1 DEF PushesOK, QueuedOK
<1>3. QueuedOK'
  BY <1>1 DEF PushesOK, QueuedOK, TypeOK
<1>4. EndedOK'
  BY <1>1 DEF PushesOK, EndedOK
<1>5. SentOK'
  <2>1. Alone' <=> Alone
    BY <1>1 DEF Alone
  <2> QED
    BY <1>1, <1>2, <2>1 DEF PushesOK, SentOK
<1> QED
  BY <1>3, <1>4, <1>5 DEF PushesOK

\* A death declared keeps it: what the dead node sent has ended.
LEMMA DeclarePushes ==
  ASSUME TypeOK, PushesOK, NEW n \in Nodes, NEW m \in Nodes, DeclareDead(n, m)
  PROVE  PushesOK'
<1> DEFINE R == ring[n] \ {m}
<1>1. /\ n \in up /\ m \notin up /\ \A p \in net : p.from # m
      /\ ring' = [ring EXCEPT ![n] = R] /\ queue' = [queue EXCEPT ![n] = @ \cup Round(n, R)]
      /\ UNCHANGED <<up, store, net>>
  BY DEF DeclareDead
<1>2. R \in SUBSET Nodes
  BY DEF TypeOK
<1> HIDE DEF R
<1>3. Round(n, R) \subseteq {p \in Pushes : p.from = n /\ p.block \in store[n]}
  BY <1>2, RoundPushes
<1>4. QueuedOK'
  BY <1>1, <1>3 DEF PushesOK, QueuedOK, TypeOK
<1>5. EndedOK'
  <2>1. \A k \in up, j \in Nodes \ up : j \notin ring'[k] => j \notin ring[k] \/ j = m
    BY <1>1 DEF TypeOK, R
  <2> QED
    BY <1>1, <2>1 DEF PushesOK, EndedOK
<1>6. SentOK'
  BY <1>1, AloneIsQuiet DEF PushesOK, SentOK
<1> QED
  BY <1>4, <1>5, <1>6 DEF PushesOK

\* A heartbeat keeps it.
LEMMA HeartbeatPushes ==
  ASSUME TypeOK, PushesOK, NEW n \in Nodes, NEW m \in Nodes, Heartbeat(n, m)
  PROVE  PushesOK'
<1>1. ring' = [ring EXCEPT ![n] = @ \cup {m}] /\ UNCHANGED <<up, store, queue, net>>
  BY DEF Heartbeat
<1>2. QueuedOK'
  BY <1>1 DEF PushesOK, QueuedOK
<1>3. EndedOK'
  <2>1. \A k \in Nodes : ring[k] \subseteq ring'[k]
    BY <1>1 DEF TypeOK
  <2>2. up \subseteq Nodes
    BY DEF TypeOK
  <2> QED
    BY <1>1, <2>1, <2>2 DEF PushesOK, EndedOK
<1>4. SentOK'
  BY <1>1, AloneIsQuiet DEF PushesOK, SentOK
<1> QED
  BY <1>2, <1>3, <1>4 DEF PushesOK

\* A crash keeps it: every survivor still has the node in its ring.
LEMMA CrashPushes ==
  ASSUME TypeOK, PushesOK, ~EarlyCrash, NEW n \in Nodes, Crash(n)
  PROVE  PushesOK'
<1>1. /\ n \in up /\ up' = up \ {n} /\ UNCHANGED <<ring, seen, net>>
      /\ queue' = [queue EXCEPT ![n] = {}] /\ \A k \in up : n \in ring[k]
  BY DEF Crash
<1>2. \A k \in Nodes : k # n => store'[k] = store[k]
  BY DEF Crash, TypeOK
<1>3. up \subseteq Nodes
  BY DEF TypeOK
<1>4. QueuedOK'
  BY <1>1, <1>2 DEF PushesOK, QueuedOK, TypeOK
<1>5. EndedOK'
  BY <1>1, ZenonT(40) DEF PushesOK, EndedOK
<1>6. SentOK'
  <2>1. CASE Alone
    BY <1>1, <2>1 DEF Alone, SentOK
  <2>2. CASE ~Alone
    BY <1>1, <1>2, <1>3, <2>2 DEF PushesOK, SentOK
  <2> QED
    BY <2>1, <2>2
<1> QED
  BY <1>4, <1>5, <1>6 DEF PushesOK

\* A restart keeps it: the node's death was declared, or nobody lives to declare it.
LEMMA RestartPushes ==
  ASSUME TypeOK, PushesOK, ~FastRestart, NEW n \in Nodes, Restart(n)
  PROVE  PushesOK'
<1>1. /\ n \notin up /\ up' = up \cup {n} /\ UNCHANGED <<store, queue, net>>
      /\ ring' = [ring EXCEPT ![n] = Nodes] /\ seen' = [seen EXCEPT ![n] = {n}]
      /\ \A k \in up : n \notin ring[k]
  BY DEF Restart
<1>2. /\ ring'[n] = Nodes /\ seen'[n] = {n} /\ \A k \in Nodes \ {n} : ring'[k] = ring[k]
      /\ up \subseteq Nodes
  BY <1>1 DEF TypeOK
<1>3. QueuedOK'
  BY <1>1, ZenonT(40) DEF PushesOK, QueuedOK
<1>4. EndedOK'
  BY <1>1, <1>2 DEF PushesOK, EndedOK
<1>5. SentOK'
  <2>1. CASE up = {}
    <3>1. up' = {n}
      BY <1>1, <2>1
    <3> QED
      BY <1>2, <3>1 DEF SentOK, Alone
  <2>2. CASE up # {}
    <3>1. PICK k \in up : n \notin ring[k]
      BY <1>1, <2>2
    <3>2. \A p \in net : p.from # n
      BY <1>1, <3>1 DEF PushesOK, EndedOK
    <3>3. ~Alone
      BY <3>1 DEF Alone
    <3>4. \A p \in net : p.from \in up => p.block \in store[p.from]
      BY <3>3 DEF PushesOK, SentOK
    <3> QED
      BY <1>1, <3>2, <3>4 DEF SentOK
  <2> QED
    BY <2>1, <2>2
<1> QED
  BY <1>3, <1>4, <1>5 DEF PushesOK

\* A step that leaves the nodes alone, and adds no push, keeps it.
LEMMA QuietPushes ==
  ASSUME PushesOK, UNCHANGED nodes, net' \subseteq net
  PROVE  PushesOK'
<1>1. QueuedOK' /\ EndedOK'
  BY DEF PushesOK, QueuedOK, EndedOK, nodes
<1>2. SentOK'
  BY DEF PushesOK, SentOK, Alone, nodes
<1> QED
  BY <1>1, <1>2 DEF PushesOK

\* PushesOK is inductive.
LEMMA PushesStep ==
  ASSUME ~FastRestart, ~EarlyCrash
  PROVE  TypeOK /\ PushesOK /\ [Next]_vars => PushesOK'
<1> SUFFICES ASSUME TypeOK, PushesOK, [Next]_vars
             PROVE  PushesOK'
  OBVIOUS
<1>1. ASSUME NEW n \in Nodes, NEW b \in Blocks, Insert(n, b)
      PROVE  PushesOK'
  BY <1>1, AcceptPushes DEF Insert
<1>2. ASSUME NEW p \in Pushes, Receive(p)
      PROVE  PushesOK'
  <2>1. /\ p.to \in up /\ p.block \in Blocks /\ Accept(p.to, p.block) /\ net' \subseteq net
        /\ UNCHANGED <<up, ring, seen>>
    BY <1>2 DEF Receive, Received, Pushes
  <2> QED
    BY <2>1, AcceptPushes
<1>3. ASSUME NEW p \in Pushes, Fail(p)
      PROVE  PushesOK'
  BY <1>3, QuietPushes DEF Fail, nodes
<1>4. CASE \/ \E b \in Blocks, P \in ClientPeers, n \in Nodes : StartLookup(b, P, n)
           \/ Lookup \/ Fetch \/ UNCHANGED vars
  <2>1. UNCHANGED <<nodes, net>>
    BY <1>4, ZenonT(40) DEF StartLookup, Lookup, Fetch, nodes, vars
  <2> QED
    BY <2>1, QuietPushes
<1> QED
  BY <1>1, <1>2, <1>3, <1>4, SendPushes, DeclarePushes, HeartbeatPushes, CrashPushes,
     RestartPushes DEF Next, NodeStep

-----------------------------------------------------------------------------
(***************************************************************************)
(* After a death, in a cluster of at most RF + 1 nodes.                    *)
(***************************************************************************)
\* The invariant of a cluster after a death, without its guard.
AfterDeath ==
  /\ up # Nodes /\ \A n \in up : up \subseteq ring[n]
  /\ \A b \in Blocks : Covered(b)

\* With a node dead, the route of every block is all that live.
LEMMA RouteOfLive ==
  ASSUME Cardinality(Nodes) <= RF + 1, NEW U \in SUBSET Nodes, U # Nodes, NEW b \in Blocks
  PROVE  Route(U, b) = U
<1>1. PICK x \in Nodes : x \notin U
  OBVIOUS
<1>2. U \in SUBSET (Nodes \ {x})
  BY <1>1
<1>3. Cardinality(U) <= Cardinality(Nodes \ {x})
  BY <1>2, NodeSets, FS_Subset
<1>4. Cardinality(Nodes \ {x}) = Cardinality(Nodes) - 1
  BY NearerIsOther, ZenonT(40)
<1>5. Cardinality(U) \in Nat /\ Cardinality(Nodes) \in Nat /\ RF \in Nat
  BY NodeSets, RFType
<1>6. Cardinality(U) <= RF
  BY <1>3, <1>4, <1>5
<1> QED
  BY <1>6, SmallRoute

\* It depends on the nodes and the pushes only.
LEMMA SameAfterDeath ==
  ASSUME AfterDeath, UNCHANGED <<up, store, ring, queue, net>>
  PROVE  AfterDeath'
<1>1. \A s, n, b : Comes(s, n, b)' <=> Comes(s, n, b)
  BY DEF Comes
<1>2. \A b : Holders(b)' = Holders(b)
  BY DEF Holders
<1>3. \A b \in Blocks : Covered(b)'
  BY <1>1, <1>2 DEF AfterDeath, Covered
<1> QED
  BY <1>3 DEF AfterDeath

\* An Insert keeps it.
LEMMA InsertAfterDeath ==
  ASSUME TypeOK, AfterDeath, Routed, Cardinality(Nodes) <= RF + 1,
         NEW n \in Nodes, NEW b \in Blocks, Insert(n, b)
  PROVE  AfterDeath'
<1>1. /\ Accept(n, b) /\ n \in up /\ n = Primary(Nodes, b) /\ UNCHANGED <<up, ring, net>>
  BY DEF Insert
<1>2. /\ store'[n] = store[n] \cup {b} /\ \A k \in Nodes \ {n} : store'[k] = store[k]
      /\ queue[n] \subseteq queue'[n] /\ \A k \in Nodes \ {n} : queue'[k] = queue[k]
  BY <1>1, AcceptGrows, ZenonT(40)
<1>3. up \in SUBSET Nodes /\ ring[n] \in SUBSET Nodes /\ n \in ring[n]
  BY DEF TypeOK
<1>4. Covered(b)'
  <2>1. n \in Holders(b)'
    BY <1>1, <1>2 DEF Holders
  <2>2. CASE ring[n] = up
    <3>1. Route(ring[n], b) = up
      BY <1>3, <2>2, RouteOfLive DEF AfterDeath
    <3>2. Primary(ring[n], b) = n
      BY <1>1, <1>3, PrimaryStays
    <3>3. \A m \in up : Comes(n, m, b)'
      BY <3>1, <3>2, InsertPushes DEF Comes
    <3> QED
      BY <1>1, <2>1, <3>3 DEF Covered
  <2>3. CASE ring[n] # up
    BY <1>1, <2>1, <2>3 DEF Covered
  <2> QED
    BY <2>2, <2>3
<1>5. ASSUME NEW c \in Blocks, c # b
      PROVE  Covered(c)'
  <2>1. Holders(c)' = Holders(c)
    BY <1>1, <1>2, <1>3, <1>5 DEF Holders
  <2>2. \A s \in Nodes, m \in Nodes : Comes(s, m, c) => Comes(s, m, c)'
    BY <1>1, <1>2, GrowsComes, ZenonT(40)
  <2>3. \A s \in Holders(c) : s \in Nodes
    BY <1>3 DEF Holders
  <2> QED
    BY <1>1, <1>3, <2>1, <2>2, <2>3 DEF AfterDeath, Covered
<1> QED
  BY <1>1, <1>4, <1>5 DEF AfterDeath

\* Sending keeps it.
LEMMA SendAfterDeath ==
  ASSUME TypeOK, AfterDeath, NEW p \in Pushes, Send(p)
  PROVE  AfterDeath'
<1>1. UNCHANGED <<up, ring, store>> /\ up \in SUBSET Nodes
  BY DEF Send, TypeOK
<1>2. ASSUME NEW c \in Blocks
      PROVE  Covered(c)'
  <2>1. Holders(c)' = Holders(c) /\ \A s \in Holders(c) : s \in Nodes
    BY <1>1 DEF Holders
  <2>2. \A s \in Nodes, m \in Nodes : Comes(s, m, c) => Comes(s, m, c)'
    BY SendComes
  <2> QED
    BY <1>1, <2>1, <2>2 DEF AfterDeath, Covered
<1> QED
  BY <1>1, <1>2 DEF AfterDeath

\* A push received keeps it: a block that had no live holder was sent by a node whose death
\* the receiver has yet to declare.
LEMMA ReceiveAfterDeath ==
  ASSUME TypeOK, PushesOK, AfterDeath, NEW p \in Pushes, Receive(p)
  PROVE  AfterDeath'
<1> DEFINE t == p.to
<1>1. /\ p \in net /\ t \in up /\ t \in Nodes /\ p.from \in Nodes /\ p.from # t
      /\ p.block \in Blocks /\ Accept(t, p.block) /\ UNCHANGED <<up, ring>>
      /\ up \in SUBSET Nodes
  BY DEF Receive, Received, Pushes, TypeOK
<1>2. /\ store'[t] = store[t] \cup {p.block}
      /\ \A k \in Nodes \ {t} : store'[k] = store[k]
  BY <1>1, AcceptGrows
<1>3. ASSUME NEW c \in Blocks
      PROVE  Covered(c)'
  <2>1. Holders(c) \subseteq Holders(c)' /\ \A s \in Holders(c) : s \in Nodes
    BY <1>1, <1>2 DEF Holders
  <2>2. \A s \in Nodes, m \in Nodes : Comes(s, m, c) => Comes(s, m, c)'
    BY ReceiveComes
  <2>3. CASE Holders(c) # {}
    BY <1>1, <2>1, <2>2, <2>3 DEF AfterDeath, Covered
  <2>4. CASE Holders(c) = {} /\ Holders(c)' # {}
    <3>1. p.block = c /\ t \in Holders(c)'
      BY <1>1, <1>2, <2>4 DEF Holders
    <3>2. p.from \notin up
      <4>1. SUFFICES ASSUME p.from \in up
                     PROVE  FALSE
        OBVIOUS
      <4>2. c \notin store[p.from]
        BY <2>4, <4>1 DEF Holders
      <4>3. Alone
        BY <1>1, <3>1, <4>1, <4>2 DEF PushesOK, SentOK
      <4> QED
        BY <1>1, <4>1, <4>3, SMTT(40) DEF Alone
    <3>3. p.from \in ring[t]
      BY <1>1, <3>2 DEF PushesOK, EndedOK
    <3> QED
      BY <1>1, <3>1, <3>2, <3>3 DEF Covered
  <2> QED
    BY <2>3, <2>4, ZenonT(40) DEF Covered
<1> QED
  BY <1>1, <1>3 DEF AfterDeath

\* A push to a dead node that fails keeps it.
LEMMA FailAfterDeath ==
  ASSUME TypeOK, AfterDeath, NEW p \in Pushes, Fail(p), p.to \notin up
  PROVE  AfterDeath'
<1>1. net' = net \ {p} /\ UNCHANGED <<up, ring, store, queue>> /\ up \in SUBSET Nodes
  BY DEF Fail, TypeOK
<1>2. ASSUME NEW c \in Blocks
      PROVE  Covered(c)'
  <2>1. Holders(c)' = Holders(c)
    BY <1>1 DEF Holders
  <2>2. ASSUME NEW s, NEW m \in up, Comes(s, m, c)
        PROVE  Comes(s, m, c)'
    <3>1. Push(s, m, c) # p
      BY DEF Push
    <3> QED
      BY <1>1, <2>2, <3>1 DEF Comes
  <2> QED
    BY <1>1, <2>1, <2>2 DEF AfterDeath, Covered
<1> QED
  BY <1>1, <1>2 DEF AfterDeath

\* A death declared keeps it: the last one a node has to declare starts a round to all that
\* live.
LEMMA DeclareAfterDeath ==
  ASSUME TypeOK, AfterDeath, Cardinality(Nodes) <= RF + 1,
         NEW n \in Nodes, NEW m \in Nodes, DeclareDead(n, m)
  PROVE  AfterDeath'
<1> DEFINE R == ring[n] \ {m}
<1>1. /\ n \in up /\ m \notin up /\ ring' = [ring EXCEPT ![n] = R]
      /\ queue' = [queue EXCEPT ![n] = @ \cup Round(n, R)]
      /\ UNCHANGED <<up, store, net>> /\ up \in SUBSET Nodes
  BY DEF DeclareDead, TypeOK
<1>2. up \subseteq R
  BY <1>1 DEF AfterDeath
<1> HIDE DEF R
<1>3. /\ ring'[n] = R /\ \A k \in Nodes \ {n} : ring'[k] = ring[k]
      /\ queue'[n] = queue[n] \cup Round(n, R) /\ \A k \in Nodes \ {n} : queue'[k] = queue[k]
  BY <1>1 DEF TypeOK
<1>4. ASSUME NEW c \in Blocks
      PROVE  Covered(c)'
  <2>1. Holders(c)' = Holders(c) /\ \A s \in Holders(c) : s \in Nodes
    BY <1>1 DEF Holders
  <2>2. \A s \in Nodes, k \in Nodes : Comes(s, k, c) => Comes(s, k, c)'
    BY <1>1, <1>3, GrowsComes, ZenonT(40)
  <2>3. SUFFICES ASSUME NEW s \in Holders(c), ring[s] # up \/ \A k \in up : Comes(s, k, c)
                 PROVE  \E q \in Holders(c) : ring'[q] # up \/ \A k \in up : Comes(q, k, c)'
    BY <1>1, <2>1 DEF AfterDeath, Covered
  <2>4. CASE s # n
    BY <1>1, <1>3, <2>1, <2>2, <2>3, <2>4
  <2>5. CASE s = n /\ R # up
    BY <1>3, <2>3, <2>5, ZenonT(40)
  <2>6. CASE s = n /\ R = up
    <3>1. Route(R, c) = R
      BY <1>1, <2>6, RouteOfLive DEF AfterDeath
    <3>2. c \in store[n] /\ n \in Route(R, c)
      BY <1>1, <2>6, <3>1 DEF Holders
    <3>3. ASSUME NEW k \in up, k # n
          PROVE  Push(n, k, c) \in Round(n, R)
      <4>1. Push(n, k, c) \in [from : {n}, to : Route(R, c) \ {n}, block : {c}]
        BY <2>6, <3>1, <3>3 DEF Push
      <4> QED
        BY <3>2, <4>1 DEF Round
    <3>4. \A k \in up : Comes(n, k, c)'
      BY <1>1, <1>3, <3>2, <3>3 DEF Comes
    <3> QED
      BY <2>3, <2>6, <3>4, ZenonT(40)
  <2> QED
    BY <2>4, <2>5, <2>6
<1>5. \A k \in up : up \subseteq ring'[k]
  BY <1>1, <1>2, <1>3 DEF AfterDeath
<1> QED
  BY <1>1, <1>4, <1>5 DEF AfterDeath

\* A heartbeat keeps it: it brings into the ring no node that was out of it.
LEMMA HeartbeatAfterDeath ==
  ASSUME TypeOK, AfterDeath, NEW n \in Nodes, NEW m \in Nodes, Heartbeat(n, m)
  PROVE  AfterDeath'
<1>1. /\ n \in up /\ m \in up /\ ring' = [ring EXCEPT ![n] = @ \cup {m}]
      /\ UNCHANGED <<up, store, queue, net>>
  BY DEF Heartbeat
<1>2. ring' = ring
  BY <1>1, SMTT(40) DEF AfterDeath, TypeOK
<1> QED
  BY <1>1, <1>2, SameAfterDeath, ZenonT(40)

\* A crash makes it so: every survivor has the dead node in its ring.
LEMMA CrashAfterDeath ==
  ASSUME TypeOK, ~EarlyCrash, NEW n \in Nodes, Crash(n)
  PROVE  AfterDeath'
<1>1. /\ n \in up /\ up' = up \ {n} /\ ring' = ring /\ \A k, m \in up : k \in ring[m]
  BY DEF Crash
<1>2. ASSUME NEW c \in Blocks, NEW s \in Holders(c)'
      PROVE  s \in up' /\ ring'[s] # up'
  BY <1>1 DEF Holders
<1>3. \A c \in Blocks : Covered(c)'
  BY <1>2 DEF Covered
<1> QED
  BY <1>1, <1>3 DEF AfterDeath

\* CrashOK is inductive.
LEMMA CrashStep ==
  ASSUME Routed, ~EarlyCrash, Cardinality(Nodes) <= RF + 1
  PROVE  TypeOK /\ PushesOK /\ CrashOK /\ [Next]_vars => CrashOK'
<1> SUFFICES ASSUME TypeOK, PushesOK, CrashOK, [Next]_vars, fault' = "crash"
             PROVE  AfterDeath'
  BY DEF CrashOK, AfterDeath
<1>0. ASSUME fault = "crash"
      PROVE  AfterDeath
  BY <1>0 DEF CrashOK, AfterDeath
<1>1. ASSUME NEW n \in Nodes, NEW b \in Blocks, Insert(n, b)
      PROVE  AfterDeath'
  BY <1>0, <1>1, InsertAfterDeath DEF Insert
<1>2. ASSUME NEW p \in Pushes, Send(p)
      PROVE  AfterDeath'
  BY <1>0, <1>2, SendAfterDeath, ZenonT(40) DEF Send
<1>3. ASSUME NEW p \in Pushes, Receive(p)
      PROVE  AfterDeath'
  BY <1>0, <1>3, ReceiveAfterDeath DEF Receive
<1>4. ASSUME NEW p \in Pushes, Fail(p)
      PROVE  AfterDeath'
  <2>1. p.to \notin up /\ fault = "crash"
    BY <1>4 DEF Fail
  <2> QED
    BY <1>0, <1>4, <2>1, FailAfterDeath
<1>5. ASSUME NEW n \in Nodes, NEW m \in Nodes, DeclareDead(n, m)
      PROVE  AfterDeath'
  BY <1>0, <1>5, DeclareAfterDeath, ZenonT(40) DEF DeclareDead
<1>6. ASSUME NEW n \in Nodes, NEW m \in Nodes, Heartbeat(n, m)
      PROVE  AfterDeath'
  BY <1>0, <1>6, HeartbeatAfterDeath, ZenonT(40) DEF Heartbeat
<1>7. ASSUME NEW n \in Nodes, Restart(n)
      PROVE  FALSE
  BY <1>7 DEF Restart
<1>8. CASE \/ \E b \in Blocks, P \in ClientPeers, n \in Nodes : StartLookup(b, P, n)
           \/ Lookup \/ Fetch \/ UNCHANGED vars
  <2>1. UNCHANGED <<up, store, ring, queue, net, fault>>
    BY <1>8, ZenonT(40) DEF StartLookup, Lookup, Fetch, nodes, vars
  <2>2. AfterDeath
    BY <1>0, <2>1
  <2> QED
    BY <2>1, <2>2, SameAfterDeath, ZenonT(40)
<1> QED
  BY <1>1, <1>2, <1>3, <1>4, <1>5, <1>6, <1>7, <1>8, CrashAfterDeath DEF Next, NodeStep

\* At rest, the invariants say that every block is at its target.
LEMMA RestIsTarget ==
  ASSUME TypeOK, FreshOK, CrashOK, Cardinality(Nodes) <= RF + 1
  PROVE  ConvergedOnceSettled
<1> SUFFICES ASSUME Settled, fault \in {"none", "crash"}, NEW b \in Blocks, Holders(b) # {}
             PROVE  Cardinality(Holders(b)) >= Least(RF, Cardinality(up))
  BY DEF ConvergedOnceSettled, AtTarget
<1>1. up \in SUBSET Nodes /\ Holders(b) \in SUBSET Nodes
  BY DEF TypeOK, Holders
<1>2. CASE fault = "none"
  <2>1. up = Nodes /\ \A n \in Nodes : store[n] \subseteq inserted
    BY <1>2 DEF FreshOK
  <2>2. b \in inserted
    BY <1>1, <2>1 DEF Holders
  <2>3. Primary(Nodes, b) \in Nodes /\ Route(Nodes, b) \subseteq Nodes
    BY <1>1, PrimaryType
  <2>4. \A n \in Route(Nodes, b) : Comes(Primary(Nodes, b), n, b)
    BY <1>2, <2>2 DEF FreshOK
  <2>5. Route(Nodes, b) \subseteq Holders(b)
    BY <2>1, <2>3, <2>4 DEF Comes, Settled, Holders
  <2>6. Cardinality(Route(Nodes, b)) <= Cardinality(Holders(b))
    BY <1>1, <2>5, NodeSets, FS_Subset
  <2>7. Cardinality(Route(Nodes, b)) >= Least(RF, Cardinality(Nodes))
    BY FullRoute
  <2>8. /\ Cardinality(Route(Nodes, b)) \in Nat /\ Cardinality(Holders(b)) \in Nat
        /\ Least(RF, Cardinality(Nodes)) \in Nat
    BY <1>1, <2>3, NodeSets, RFType DEF Least
  <2> QED
    BY <2>1, <2>6, <2>7, <2>8
<1>3. CASE fault = "crash"
  <2>1. PICK s \in Holders(b) : ring[s] # up \/ \A n \in up : Comes(s, n, b)
    BY <1>3 DEF CrashOK, Covered
  <2>2. s \in up /\ ring[s] = up /\ queue[s] = {} /\ net = {}
    BY <2>1 DEF Settled, Holders
  <2>3. Holders(b) = up
    BY <2>1, <2>2 DEF Comes, Holders
  <2>4. Cardinality(up) \in Nat /\ RF \in Nat
    BY <1>1, NodeSets, RFType
  <2> QED
    BY <2>3, <2>4 DEF Least
<1> QED
  BY <1>2, <1>3

\* In a cluster of at most RF + 1 nodes, as the three of the deployment with RF = 2, every
\* block that a live node holds is on RF of them, or on all, once the pushes and the
\* detectors have come to rest after the last death: for any blocks, any hash ring, and any
\* number of Inserts at the primary, deaths, returns and lost pushes before.
THEOREM SettledIsConverged ==
  ASSUME Routed, ~FastRestart, ~EarlyCrash, Cardinality(Nodes) <= RF + 1
  PROVE  Spec => []ConvergedOnceSettled
<1>1. Init => FreshOK /\ PushesOK /\ CrashOK
  BY DEF Init, FreshOK, PushesOK, QueuedOK, EndedOK, SentOK, CrashOK
<1>2. TypeOK /\ FreshOK /\ [Next]_vars => FreshOK'
  BY FreshStep
<1>3. TypeOK /\ PushesOK /\ [Next]_vars => PushesOK'
  BY PushesStep
<1>4. TypeOK /\ PushesOK /\ CrashOK /\ [Next]_vars => CrashOK'
  BY CrashStep
<1>5. TypeOK /\ FreshOK /\ CrashOK => ConvergedOnceSettled
  BY RestIsTarget
<1> QED
  BY <1>1, <1>2, <1>3, <1>4, <1>5, TypeCorrect, PTL DEF Spec
=============================================================================
