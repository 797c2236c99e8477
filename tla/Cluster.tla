------------------------------- MODULE Cluster -------------------------------
(***************************************************************************)
(* The nodes of a cluster and a client, composed: LetheCache::Insert and   *)
(* Lookup behind the gRPC handlers, the pushes of the Replicators, which   *)
(* are Inserts at the peer, what a membership change does at each node,    *)
(* crashes and restarts, and the calls of the Python client.               *)
(*                                                                         *)
(* Each part is as coarse as its own module shows it may be: a store is a  *)
(* set of blocks that only a crash shrinks (TieredStore); a queue is a set *)
(* of pushes and a round enters it at once (Replicator); a change installs *)
(* the ring and starts the round in one step (Membership); a route is the  *)
(* RF nearest nodes of the ring (Routing).                                 *)
(***************************************************************************)
EXTENDS Integers, FiniteSets

CONSTANTS
  Nodes, Blocks,
  Rank,         \* block -> node -> its distance from the block on the hash ring
  RF,           \* cfg.replication_factor
  ClientPeers,  \* the peers a client may have been given; none: it has a primary_address only
  Routed,       \* an Insert goes to the block's primary, as the chaos suite loads it
  FastRestart,  \* a node may be back before its peers have declared it dead
  EarlyCrash,   \* a node may die while a return is not noticed everywhere
  MaxCrashes,   \* bound: crashes in a behaviour
  MaxRestarts,  \* bound: restarts in a behaviour
  MaxLost,      \* bound: pushes to a live peer that fail (kSendDeadlineMs)
  MaxAttempts,  \* _MAX_ATTEMPTS of the client
  NoNode

ASSUME ClusterAssumption ==
  /\ IsFiniteSet(Nodes) /\ ClientPeers \subseteq SUBSET Nodes /\ NoNode \notin Nodes
  /\ Rank \in [Blocks -> [Nodes -> Nat]]
  /\ \A b \in Blocks, m, n \in Nodes : Rank[b][m] = Rank[b][n] => m = n
  /\ RF \in Nat \ {0} /\ MaxAttempts \in Nat \ {0}

VARIABLES
  up,       \* the nodes whose process runs
  store,    \* node -> the blocks it holds
  ring,     \* node -> the peers of its Router, itself among them
  seen,     \* node -> the peers it has reached (ever_seen)
  queue,    \* node -> the pushes its workers have to send
  net,      \* the pushes being sent
  cl,       \* the client's lookup; held, due: see StartLookup
  fault,    \* history: the last fault, "none", "crash", "restart" or "lost"
  inserted, \* history: the blocks some Insert accepted
  count     \* the crashes, restarts and lost pushes so far

vars == <<up, store, ring, seen, queue, net, cl, fault, inserted, count>>
nodes == <<up, store, ring, seen, queue>>

Pushes == {p \in [from : Nodes, to : Nodes, block : Blocks] : p.from # p.to}
Idle == [pc |-> "idle", block |-> NoNode, peers |-> {}, at |-> NoNode, tries |-> 0, got |-> "none",
         held |-> FALSE, due |-> FALSE]

Init ==
  /\ up = Nodes
  /\ store = [n \in Nodes |-> {}]
  /\ ring = [n \in Nodes |-> Nodes]
  /\ seen = [n \in Nodes |-> Nodes]
  /\ queue = [n \in Nodes |-> {}]
  /\ net = {}
  /\ cl = Idle
  /\ fault = "none" /\ inserted = {}
  /\ count = [crash |-> 0, restart |-> 0, lost |-> 0]

-----------------------------------------------------------------------------
(***************************************************************************)
(* Routes, as Routing shows them to be.                                    *)
(***************************************************************************)
Nearer(R, b, n) == {m \in R : Rank[b][m] < Rank[b][n]}
Route(R, b) == {n \in R : Cardinality(Nearer(R, b, n)) < RF}
Primary(R, b) == CHOOSE n \in R : Nearer(R, b, n) = {}

-----------------------------------------------------------------------------
(***************************************************************************)
(* Insert, pushes and rounds.                                              *)
(***************************************************************************)
\* ReplicateOut: the replicas of the block's route other than the node itself.
ReplicateOut(n, b) ==
  [from : {n}, to : Route(ring[n], b) \ {Primary(ring[n], b), n}, block : {b}]

\* LetheCache::Insert at a node that runs; a block it has is accepted no more.
Accept(n, b) ==
  IF b \in store[n] THEN UNCHANGED <<store, queue>>
  ELSE /\ store' = [store EXCEPT ![n] = @ \cup {b}]
       /\ queue' = [queue EXCEPT ![n] = @ \cup ReplicateOut(n, b)]

\* LetheClient.insert: one call, at one node.
Insert(n, b) ==
  /\ n \in up /\ (Routed => n = Primary(Nodes, b))
  /\ b \notin store[n]
  /\ Accept(n, b)
  /\ inserted' = inserted \cup {b}
  /\ UNCHANGED <<up, ring, seen, net, cl, fault, count>>

\* A worker takes a push from the queue and sends it.
Send(p) ==
  /\ p.from \in up /\ p \in queue[p.from]
  /\ queue' = [queue EXCEPT ![p.from] = @ \ {p}]
  /\ net' = net \cup {p}
  /\ UNCHANGED <<up, store, ring, seen, cl, fault, inserted, count>>

\* Mutant of Received: a push is acknowledged and not stored.
ReceivedDrops(p) == UNCHANGED <<store, queue>>
\* A push is an Insert at the receiver, which replicates what is new to it.
Received(p) == Accept(p.to, p.block)

Receive(p) ==
  /\ p \in net /\ p.to \in up
  /\ Received(p)
  /\ net' = net \ {p}
  /\ UNCHANGED <<up, ring, seen, cl, fault, inserted, count>>

\* A Send that fails is forgotten: the peer is down, or the deadline passed.
Fail(p) ==
  /\ p \in net
  /\ \/ p.to \notin up /\ UNCHANGED count
     \/ p.to \in up /\ count.lost < MaxLost /\ count' = [count EXCEPT !.lost = @ + 1]
  /\ fault' = IF p.to \in up THEN "lost" ELSE fault
  /\ net' = net \ {p}
  /\ UNCHANGED <<up, store, ring, seen, queue, cl, inserted>>

\* Mutant of Round: a round pushes to the replicas only.
RoundToReplicas(n, R) ==
  UNION {[from : {n}, to : Route(R, b) \ {n, Primary(R, b)}, block : {b}]
           : b \in {c \in store[n] : n \in Route(R, c)}}
\* TriggerReReplication: of every block held whose route has this node, to all of its
\* route.
Round(n, R) ==
  UNION {[from : {n}, to : Route(R, b) \ {n}, block : {b}]
           : b \in {c \in store[n] : n \in Route(R, c)}}

\* Mutant of DeclareDead: the router keeps the dead peer.
DeclareDeadKeepsRing(n, m) ==
  /\ n \in up /\ m \in ring[n] /\ m \notin up /\ m \in seen[n]
  /\ \A p \in net : p.from # m
  /\ queue' = [queue EXCEPT ![n] = @ \cup Round(n, ring[n])]
  /\ UNCHANGED <<up, store, ring, seen, net, cl, fault, inserted, count>>
\* A peer is declared dead: OnMembershipChange with a lost peer.  A peer never reached
\* is never declared dead.  A push ends by its deadline, before dead_after has passed.
DeclareDead(n, m) ==
  LET R == ring[n] \ {m} IN
  /\ n \in up /\ m \in ring[n] /\ m \notin up /\ m \in seen[n]
  /\ \A p \in net : p.from # m
  /\ ring' = [ring EXCEPT ![n] = R]
  /\ queue' = [queue EXCEPT ![n] = @ \cup Round(n, R)]
  /\ UNCHANGED <<up, store, seen, net, cl, fault, inserted, count>>

\* A heartbeat gets through: a dead peer is back in the ring, and no round is started.
Heartbeat(n, m) ==
  /\ {n, m} \subseteq up /\ n # m
  /\ m \notin seen[n] \/ m \notin ring[n]
  /\ seen' = [seen EXCEPT ![n] = @ \cup {m}]
  /\ ring' = [ring EXCEPT ![n] = @ \cup {m}]
  /\ UNCHANGED <<up, store, queue, net, cl, fault, inserted, count>>

\* The process dies, with its queue; the disk may keep some of its blocks.
Crash(n) ==
  /\ n \in up /\ count.crash < MaxCrashes
  /\ ~EarlyCrash => \A k, m \in up : k \in ring[m] /\ k \in seen[m]
  /\ up' = up \ {n}
  /\ \E S \in SUBSET store[n] : store' = [store EXCEPT ![n] = S]
  /\ queue' = [queue EXCEPT ![n] = {}]
  /\ cl' = [cl EXCEPT !.held = @ /\ cl.at # n, !.due = @ /\ cl.pc = "done"]
  /\ fault' = "crash"
  /\ count' = [count EXCEPT !.crash = @ + 1]
  /\ UNCHANGED <<ring, seen, net, inserted>>

\* LetheCache's constructor: the ring is every seed, none of them reached yet.
Restart(n) ==
  /\ n \notin up /\ count.restart < MaxRestarts
  /\ ~FastRestart => \A m \in up : n \notin ring[m]
  /\ up' = up \cup {n}
  /\ ring' = [ring EXCEPT ![n] = Nodes]
  /\ seen' = [seen EXCEPT ![n] = {n}]
  /\ fault' = "restart"
  /\ count' = [count EXCEPT !.restart = @ + 1]
  /\ UNCHANGED <<store, queue, net, cl, inserted>>

-----------------------------------------------------------------------------
(***************************************************************************)
(* LetheClient.lookup of one block: the call to its primary, with retries, *)
(* and the Fetch that follows a hit.                                       *)
(***************************************************************************)
\* Nothing is left to send, and every live node knows which nodes are dead.
Settled ==
  /\ net = {} /\ \A n \in up : queue[n] = {}
  /\ \A n \in up : ring[n] = up

\* The nodes that may be asked: the primary of the client's ring, or its primary_address.
Asked(P, b) == IF P = {} THEN Nodes ELSE {Primary(P, b)}

\* held: the client has a ring and the node it asks has the block, until that dies; due:
\* it has a ring, and the block was inserted into a cluster without faults, now at rest.
StartLookup(b, P, n) ==
  /\ cl.pc \in {"idle", "done"} /\ n \in Asked(P, b)
  /\ cl' = [pc |-> "lookup", block |-> b, peers |-> P, at |-> n, tries |-> 0, got |-> "none",
            held |-> P # {} /\ n \in up /\ b \in store[n],
            due |-> P # {} /\ b \in inserted /\ Settled /\ fault = "none"]
  /\ UNCHANGED <<nodes, net, fault, inserted, count>>

\* The answer of LetheCache::Lookup at n: the node that has the block, itself or, so far
\* as it knows, the primary; or no node.
Source(n, b) ==
  IF b \in store[n] THEN n
  ELSE IF Primary(ring[n], b) # n THEN Primary(ring[n], b) ELSE NoNode

Done(got) == cl' = [cl EXCEPT !.pc = "done", !.at = NoNode, !.peers = {}, !.tries = 0, !.got = got]

\* A call that fails is made again, MaxAttempts times in all.
Retry(got) ==
  /\ cl.at \notin up
  /\ IF cl.tries + 1 < MaxAttempts THEN cl' = [cl EXCEPT !.tries = @ + 1] ELSE Done(got)

\* A hit's bytes are asked of the node it names; one that the client has no address of is
\* left as it is.
FetchIntoResult(s) ==
  IF s \in cl.peers THEN cl' = [cl EXCEPT !.pc = "fetch", !.at = s, !.tries = 0] ELSE Done("hit")

\* Mutant of Answer: the store is not consulted.
AnswerRoute(s) ==
  LET q == Primary(ring[cl.at], cl.block) IN
  IF q = cl.at THEN Done("miss") ELSE FetchIntoResult(q)
\* What the client does with the answer.
Answer(s) == IF s = NoNode THEN Done("miss") ELSE FetchIntoResult(s)

Lookup ==
  /\ cl.pc = "lookup"
  /\ \/ cl.at \in up /\ Answer(Source(cl.at, cl.block))
     \/ Retry("miss")
  /\ UNCHANGED <<nodes, net, fault, inserted, count>>

\* The Fetch handler, FetchLocal: without bytes the block stays among the hits.
Fetch ==
  /\ cl.pc = "fetch"
  /\ \/ cl.at \in up /\ Done(IF cl.block \in store[cl.at] THEN "bytes" ELSE "hit")
     \/ Retry("hit")
  /\ UNCHANGED <<nodes, net, fault, inserted, count>>

-----------------------------------------------------------------------------
\* What the nodes do by themselves.
NodeStep ==
  \/ \E p \in Pushes : Send(p) \/ Receive(p) \/ Fail(p)
  \/ \E n, m \in Nodes : DeclareDead(n, m) \/ Heartbeat(n, m)

Next ==
  \/ NodeStep
  \/ \E n \in Nodes, b \in Blocks : Insert(n, b)
  \/ \E n \in Nodes : Crash(n) \/ Restart(n)
  \/ \E b \in Blocks, P \in ClientPeers, n \in Nodes : StartLookup(b, P, n)
  \/ Lookup \/ Fetch

Spec == Init /\ [][Next]_vars

\* Workers, heartbeats and detectors run on, and a push ends by its deadline.  There are only
\* finitely many such steps between two faults, so it is enough that one of them is taken.
FairSpec == Spec /\ WF_vars(NodeStep)

-----------------------------------------------------------------------------
(***************************************************************************)
(* Properties.                                                             *)
(***************************************************************************)
\* The types; a node is in its own ring, and pushes nothing to itself.
TypeOK ==
  /\ up \subseteq Nodes /\ store \in [Nodes -> SUBSET Blocks]
  /\ ring \in [Nodes -> SUBSET Nodes] /\ seen \in [Nodes -> SUBSET Nodes]
  /\ \A n \in Nodes : n \in ring[n]
  /\ net \subseteq Pushes /\ queue \in [Nodes -> SUBSET Pushes]
  /\ \A n \in Nodes : \A p \in queue[n] : p.from = n
  /\ cl \in [pc : {"idle", "lookup", "fetch", "done"}, block : Blocks \cup {NoNode},
             peers : SUBSET Nodes, at : Nodes \cup {NoNode}, tries : 0 .. MaxAttempts - 1,
             got : {"none", "miss", "hit", "bytes"}, held : BOOLEAN, due : BOOLEAN]
  /\ fault \in {"none", "crash", "restart", "lost"} /\ inserted \subseteq Blocks

Holders(b) == {n \in up : b \in store[n]}
Least(i, j) == IF i < j THEN i ELSE j

\* A block some live node holds is on RF of them, or on all.
AtTarget == \A b \in Blocks : Holders(b) # {} => Cardinality(Holders(b)) >= Least(RF, Cardinality(up))

\* INV-3 of the chaos suite, as a state: once the pushes and the detectors have come to
\* rest after a death, every block is back at the replication target.
ConvergedOnceSettled == Settled /\ fault \in {"none", "crash"} => AtTarget

\* INV-3 as progress: after a death the Replicators bring every block back to the target,
\* unless a node returns or a push to a live node fails.
Reconverges == (fault = "crash") ~> (fault # "crash" \/ AtTarget)

\* The blocks are inserted and at rest, before any fault.
Loaded == inserted = Blocks /\ Settled /\ fault = "none"

\* INV-3 of the restart scenario ("verify the node rejoins and the cluster reconverges",
\* chaos/invariants.py): the blocks are loaded before the node is killed, and after its
\* return every one gets to the target again.
RejoinReconverges ==
  [](Loaded => [](fault = "restart" => <>(fault # "restart" \/ AtTarget)))

\* INV-4: a dead node leaves the ring of every live node that had reached it, so that their
\* Lookups name it no more.  (The faults are bounded: after the last one what holds time and
\* again holds in the end.)
DeadLeavesRings == []<>(\A m \in Nodes \ up, n \in up : m \in seen[n] => m \notin ring[n])

\* INV-4 as the chaos suite words it, of every survivor.
NoSurvivorNamesDead == []<>(\A m \in Nodes \ up, n \in up : m \notin ring[n])

\* A block inserted into a cluster without faults is found by every client with a ring, once
\* the pushes are done ("Either way, bytes round-trip exactly", test_three_node_python.py).
InsertedIsFound == cl.pc = "done" /\ cl.due => cl.got = "bytes"

\* What LetheClient.lookup's comment says: a block whose Fetch failed is a Miss.
FailedFetchIsMiss == cl.pc = "done" => cl.got # "hit"

\* A lookup of a block that the node asked has throughout the call brings its bytes.
FoundWhileHeld == cl.pc = "done" /\ cl.held => cl.got = "bytes"

-----------------------------------------------------------------------------
(***************************************************************************)
(* The inductive invariants behind FoundWhileHeld, InsertedIsFound and     *)
(* ConvergedOnceSettled.                                                   *)
(***************************************************************************)
\* The lookup is at a live node that the client knows and that has the block, or has brought
\* its bytes.
AtHolder ==
  /\ cl.pc \in {"lookup", "fetch"} => cl.at \in up \cap cl.peers /\ cl.block \in store[cl.at]
  /\ cl.pc = "done" => cl.got = "bytes"

HeldOK == cl.held => AtHolder
DueOK == cl.due => AtHolder

Push(s, n, b) == [from |-> s, to |-> n, block |-> b]

\* Block b is at node n, or a push of it from s is under way.
Comes(s, n, b) == b \in store[n] \/ Push(s, n, b) \in queue[s] \cup net

\* Before the first fault every block comes from its primary to all of its route.
FreshOK ==
  fault = "none" =>
    /\ up = Nodes
    /\ \A n \in Nodes : /\ ring[n] = Nodes /\ store[n] \subseteq inserted
                        /\ \A p \in queue[n] \cup net : p.block \in inserted
    /\ \A b \in inserted : LET s == Primary(Nodes, b) IN
         b \in store[s] /\ \A n \in Route(Nodes, b) : Comes(s, n, b)

\* Every node is down, or all are but one that has come back and reached nobody.
Alone == up = {} \/ \E n \in Nodes : up = {n} /\ ring[n] = Nodes /\ seen[n] = {n}

\* A node holds what it has queued, and a dead one has nothing queued.
QueuedOK ==
  \A n \in Nodes : /\ n \notin up => queue[n] = {}
                   /\ \A p \in queue[n] : p.block \in store[n]

\* What a dead node sent has ended when a live one has declared it dead.
EndedOK == \A n \in up, m \in Nodes \ up : m \notin ring[n] => \A p \in net : p.from # m

\* A live node holds what it sends.
SentOK == Alone \/ \A p \in net : p.from \in up => p.block \in store[p.from]

PushesOK == QueuedOK /\ EndedOK /\ SentOK

\* A block with a live holder has one that has a death yet to declare, and a round to start,
\* or from which the block comes to every live node.
Covered(b) ==
  Holders(b) # {} =>
    \E s \in Holders(b) : ring[s] # up \/ \A n \in up : Comes(s, n, b)

CrashOK ==
  fault = "crash" =>
    /\ up # Nodes /\ \A n \in up : up \subseteq ring[n]
    /\ \A b \in Blocks : Covered(b)
=============================================================================
