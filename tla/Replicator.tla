----------------------------- MODULE Replicator -----------------------------
(***************************************************************************)
(* The Replicator of one node: the bounded queue of pushes and its worker  *)
(* threads, the Insert handlers that enqueue (ReplicateOut), and the       *)
(* re-replication round that the membership thread builds when a peer is   *)
(* lost (TriggerReReplication) and that the membership and the sweep       *)
(* threads drain (DrainReReplication).                                     *)
(*                                                                         *)
(* Two locks order the threads: mu around each look at the queue, rerep_mu *)
(* around a whole drain.  The field dr.by is the holder of rerep_mu; every *)
(* action is what a thread does in one acquisition of mu or of one tier's  *)
(* lock, with the routes it then uses: a ring change between the two would *)
(* start a new round, or, as the return of a peer, end what this one owes. *)
(* The HBM tier, off by default, is left out.                              *)
(***************************************************************************)
EXTENDS Integers, Sequences, FiniteSets

CONSTANTS Blocks, Peers, Self,
          Rank,        \* block -> node -> its distance from the block on the hash ring
          RF,          \* cfg.replication_factor
          QueueMax,    \* kReplicationQueueMax
          Batch,       \* kReReplicationBatch
          Workers, Handlers,
          NoTask,      \* a worker that sends nothing
          MaxMoves,    \* bound: moves of blocks between tiers in a behaviour
          MaxInserts,  \* bound: Insert requests in a behaviour
          MaxChanges   \* bound: ring changes in a behaviour

Nodes == Peers \cup {Self}
Tasks == [peer : Peers, block : Blocks]

ASSUME ReplicatorAssumption ==
    /\ IsFiniteSet(Blocks) /\ IsFiniteSet(Peers) /\ Self \notin Peers
    /\ Rank \in [Blocks -> [Nodes -> Nat]]
    /\ \A b \in Blocks, m, n \in Nodes : Rank[b][m] = Rank[b][n] => m = n
    /\ RF \in Nat \ {0} /\ Batch \in Nat \ {0} /\ QueueMax \in Nat
    /\ Cardinality(Peers) <= QueueMax
    /\ NoTask \notin Tasks
    /\ MaxMoves \in Nat /\ MaxInserts \in Nat /\ MaxChanges \in Nat

\* The tiers in the order TriggerReReplication snapshots them.
ScanOrder == <<"DRAM", "SSD">>
Tiers == {"DRAM", "SSD"}

VARIABLES store,    \* tier -> the blocks it holds
          ring,     \* the peers of the Router
          queue,    \* the pushes to do
          wk,       \* worker -> the push it is sending
          hd,       \* handler -> where its Insert is
          mb,       \* where the membership thread is
          round, cursor, active,  \* rerep_round, rerep_cursor, rerep_active
          dr,       \* the drain under way
          gauge,    \* lethe_under_replicated
          hist      \* history: see Init

vars == <<store, ring, queue, wk, hd, mb, round, cursor, active, dr, gauge, hist>>

-----------------------------------------------------------------------------
(***************************************************************************)
(* Router::Route: the RF nodes of the ring met first from the block.       *)
(***************************************************************************)
Nearer(R, b, n) == {m \in R : Rank[b][m] < Rank[b][n]}
RouteIn(R, b) == {n \in R : Cardinality(Nearer(R, b, n)) < RF}
Route(b) == RouteIn(ring, b)
Replicas(b) == {n \in Route(b) : Nearer(ring, b, n) # {}}

\* The peers in T in the order of the route.
InOrder(b, T) == {s \in [1 .. Cardinality(T) -> T] :
                    \A i, j \in DOMAIN s : i < j => Rank[b][s[i]] < Rank[b][s[j]]}

Held == store["DRAM"] \cup store["SSD"]

IdleHandler == [pc |-> "idle", id |-> NoTask, todo |-> <<>>]
IdleMember == [pc |-> "idle", tier |-> 1, cands |-> <<>>]
NoDrain == [by |-> "none", pc |-> "loop", targets |-> {}, count |-> 0]

\* hist.due: the pushes a round owes since a peer was last lost: of every block
\* held at that time, to every other node of its route; hist.moved: the blocks of
\* hist.due that have changed tiers since; the counters of
\* the bounds.
Init == /\ store = [t \in Tiers |-> {}]
        /\ ring = Nodes
        /\ queue = <<>>
        /\ wk = [w \in Workers |-> NoTask]
        /\ hd = [h \in Handlers |-> IdleHandler]
        /\ mb = IdleMember
        /\ round = <<>> /\ cursor = 1 /\ active = FALSE
        /\ dr = NoDrain
        /\ gauge = 0
        /\ hist = [due |-> {}, moved |-> {}, inserts |-> 0, changes |-> 0, moves |-> 0]

-----------------------------------------------------------------------------
(***************************************************************************)
(* LetheCache::Insert and ReplicateOut.  A block is put, then its route is *)
(* read, then each push is enqueued under mu.                              *)
(***************************************************************************)
Enqueued(pairs) == [hist EXCEPT !.due = @ \ pairs]

Insert(h, b) ==
    /\ hd[h].pc = "idle" /\ hist.inserts < MaxInserts
    /\ b \notin Held
    /\ store' = [store EXCEPT !["DRAM"] = @ \cup {b}]
    /\ hd' = [hd EXCEPT ![h] = [pc |-> "route", id |-> b, todo |-> <<>>]]
    /\ hist' = [hist EXCEPT !.inserts = @ + 1]
    /\ UNCHANGED <<ring, queue, wk, mb, round, cursor, active, dr, gauge>>

ReadRoute(h) ==
    /\ hd[h].pc = "route"
    /\ \E s \in InOrder(hd[h].id, Replicas(hd[h].id) \ {Self}) :
          hd' = [hd EXCEPT ![h] = IF s = <<>> THEN IdleHandler
                                  ELSE [pc |-> "enqueue", id |-> hd[h].id, todo |-> s]]
    /\ UNCHANGED <<store, ring, queue, wk, mb, round, cursor, active, dr, gauge, hist>>

ReplicateOut(h) ==
    LET id == hd[h].id
        peer == Head(hd[h].todo)
    IN  /\ hd[h].pc = "enqueue"
        /\ IF Len(queue) >= QueueMax
           THEN UNCHANGED <<queue, hist>>
           ELSE /\ queue' = Append(queue, [peer |-> peer, block |-> id])
                /\ hist' = Enqueued({<<id, peer>>})
        /\ hd' = [hd EXCEPT ![h] =
                     IF Len(hd[h].todo) = 1 THEN IdleHandler
                     ELSE [pc |-> "enqueue", id |-> id, todo |-> Tail(hd[h].todo)]]
        /\ UNCHANGED <<store, ring, wk, mb, round, cursor, active, dr, gauge>>

-----------------------------------------------------------------------------
(***************************************************************************)
(* The workers.                                                            *)
(***************************************************************************)
TakeTask(w) ==
    /\ wk[w] = NoTask /\ queue # <<>>
    /\ wk' = [wk EXCEPT ![w] = Head(queue)]
    /\ queue' = Tail(queue)
    /\ UNCHANGED <<store, ring, hd, mb, round, cursor, active, dr, gauge, hist>>

\* Whatever Send answers, the worker forgets the push.
SendReturns(w) ==
    /\ wk[w] # NoTask
    /\ wk' = [wk EXCEPT ![w] = NoTask]
    /\ UNCHANGED <<store, ring, queue, hd, mb, round, cursor, active, dr, gauge, hist>>

-----------------------------------------------------------------------------
(***************************************************************************)
(* Membership installs a ring.  Only the loss of a peer starts a round;    *)
(* its thread is then busy with it until its own first drain has ended.    *)
(***************************************************************************)
Lose(p) ==
    /\ mb.pc = "idle" /\ hist.changes < MaxChanges
    /\ p \in ring \cap Peers
    /\ ring' = ring \ {p}
    /\ mb' = [IdleMember EXCEPT !.pc = "scan"]
    /\ hist' = [hist EXCEPT !.changes = @ + 1, !.moved = {},
                            !.due = UNION {{b} \X (RouteIn(ring', b) \ {Self}) :
                                           b \in {x \in Held : Self \in RouteIn(ring', x)}}]
    /\ UNCHANGED <<store, queue, wk, hd, round, cursor, active, dr, gauge>>

\* A heartbeat handler, or the membership thread, finds a peer alive again.
Return(p) ==
    /\ hist.changes < MaxChanges
    /\ p \in Peers \ ring
    /\ ring' = ring \cup {p}
    /\ hist' = [hist EXCEPT !.changes = @ + 1, !.due = {}, !.moved = {}]
    /\ UNCHANGED <<store, queue, wk, hd, mb, round, cursor, active, dr, gauge>>

\* TriggerReReplication snapshots one tier after the other.
ScanTier ==
    LET found == {b \in store[ScanOrder[mb.tier]] : Self \in Route(b)}
    IN  /\ mb.pc = "scan"
        /\ \E s \in [1 .. Cardinality(found) -> found] :
              /\ \A i, j \in DOMAIN s : s[i] = s[j] => i = j
              /\ mb' = [pc |-> IF mb.tier = Len(ScanOrder) THEN "install" ELSE "scan",
                        tier |-> IF mb.tier = Len(ScanOrder) THEN 1 ELSE mb.tier + 1,
                        cands |-> mb.cands \o s]
        /\ UNCHANGED <<store, ring, queue, wk, hd, round, cursor, active, dr, gauge, hist>>

\* The new round replaces one that is not finished.
InstallRound ==
    /\ mb.pc = "install" /\ dr.by = "none"
    /\ round' = mb.cands
    /\ cursor' = 1
    /\ active' = (mb.cands # <<>>)
    /\ mb' = [mb EXCEPT !.pc = "gauge"]
    /\ UNCHANGED <<store, ring, queue, wk, hd, dr, gauge, hist>>

\* The gauge is set after rerep_mu is released.
RecordRound ==
    /\ mb.pc = "gauge"
    /\ gauge' = Len(mb.cands)
    /\ mb' = [IdleMember EXCEPT !.pc = "kick"]
    /\ UNCHANGED <<store, ring, queue, wk, hd, round, cursor, active, dr, hist>>

-----------------------------------------------------------------------------
(***************************************************************************)
(* DrainReReplication.                                                     *)
(***************************************************************************)
\* Mutant of SweepBegins: nothing but the trigger drains a round.
SweepNeverBegins ==
    /\ FALSE
    /\ UNCHANGED vars

\* The sweep thread, every kReReplicationSweepInterval.
SweepBegins ==
    /\ dr.by = "none" /\ active
    /\ dr' = [NoDrain EXCEPT !.by = "sweep"]
    /\ UNCHANGED <<store, ring, queue, wk, hd, mb, round, cursor, active, gauge, hist>>

\* TriggerReReplication drains a first batch itself.
KickBegins ==
    /\ mb.pc = "kick" /\ dr.by = "none"
    /\ IF active THEN dr' = [NoDrain EXCEPT !.by = "member"] ELSE UNCHANGED dr
    /\ mb' = IF active THEN [mb EXCEPT !.pc = "kicked"] ELSE IdleMember
    /\ UNCHANGED <<store, ring, queue, wk, hd, round, cursor, active, gauge, hist>>

MoreToDrain == dr.count < Batch /\ cursor <= Len(round)
Targets(b) == Route(b) \ {Self}

\* A block with no other node in its route is covered.
DrainCovered ==
    /\ dr.by # "none" /\ dr.pc = "loop" /\ MoreToDrain
    /\ Targets(round[cursor]) = {}
    /\ cursor' = cursor + 1
    /\ UNCHANGED <<store, ring, queue, wk, hd, mb, round, active, dr, gauge, hist>>

\* Mutants of DrainHasRoom: the queue's limit is not looked at; a block that
\* finds the queue full is skipped.
DrainIgnoresRoom ==
    LET T == Targets(round[cursor])
    IN  /\ dr.by # "none" /\ dr.pc = "loop" /\ MoreToDrain
        /\ T # {}
        /\ dr' = [dr EXCEPT !.pc = "get", !.targets = T]
        /\ UNCHANGED <<store, ring, queue, wk, hd, mb, round, cursor, active, gauge, hist>>
DrainSkipsWhenFull ==
    LET T == Targets(round[cursor])
        full == Len(queue) + Cardinality(T) > QueueMax
    IN  /\ dr.by # "none" /\ dr.pc = "loop" /\ MoreToDrain
        /\ T # {}
        /\ cursor' = IF full THEN cursor + 1 ELSE cursor
        /\ dr' = IF full THEN dr ELSE [dr EXCEPT !.pc = "get", !.targets = T]
        /\ UNCHANGED <<store, ring, queue, wk, hd, mb, round, active, gauge, hist>>

\* Under mu: is there room for all of the block's pushes?
DrainHasRoom ==
    LET T == Targets(round[cursor])
    IN  /\ dr.by # "none" /\ dr.pc = "loop" /\ MoreToDrain
        /\ T # {}
        /\ dr' = IF Len(queue) + Cardinality(T) > QueueMax
                 THEN [dr EXCEPT !.pc = "end"]
                 ELSE [by |-> dr.by, pc |-> "get", targets |-> T, count |-> dr.count]
        /\ UNCHANGED <<store, ring, queue, wk, hd, mb, round, cursor, active, gauge, hist>>

\* TieredStore::Get looks in one tier after the other; a block found in none is
\* passed over.
DrainGet ==
    LET found == round[cursor] \in store[IF dr.pc = "get" THEN "DRAM" ELSE "SSD"]
    IN  /\ dr.pc \in {"get", "getssd"}
        /\ \/ /\ found
              /\ dr' = [dr EXCEPT !.pc = "push"]
              /\ UNCHANGED cursor
           \/ /\ ~found /\ dr.pc = "get"
              /\ dr' = [dr EXCEPT !.pc = "getssd"]
              /\ UNCHANGED cursor
           \/ /\ ~found /\ dr.pc = "getssd"
              /\ dr' = [dr EXCEPT !.pc = "loop", !.targets = {}]
              /\ cursor' = cursor + 1
        /\ UNCHANGED <<store, ring, queue, wk, hd, mb, round, active, gauge, hist>>

\* Under mu again.
DrainPush ==
    LET b == round[cursor]
    IN  /\ dr.pc = "push"
        /\ \E s \in InOrder(b, dr.targets) :
              queue' = queue \o [i \in 1 .. Len(s) |-> [peer |-> s[i], block |-> b]]
        /\ cursor' = cursor + 1
        /\ dr' = [dr EXCEPT !.pc = "loop", !.targets = {}, !.count = @ + 1]
        /\ hist' = Enqueued({b} \X dr.targets)
        /\ UNCHANGED <<store, ring, wk, hd, mb, round, active, gauge>>

DrainEnds ==
    /\ dr.by # "none"
    /\ \/ dr.pc = "end"
       \/ dr.pc = "loop" /\ ~MoreToDrain
    /\ gauge' = Len(round) - (cursor - 1)
    /\ active' = (cursor <= Len(round))
    /\ mb' = IF dr.by = "member" THEN IdleMember ELSE mb
    /\ dr' = NoDrain
    /\ UNCHANGED <<store, ring, queue, wk, hd, round, cursor, hist>>

-----------------------------------------------------------------------------
(***************************************************************************)
(* The TieredStore meanwhile: an Evictor erases a block; a promotion or a  *)
(* demotion copies one to another tier, then drops the first copy.         *)
(***************************************************************************)
Evict(b) ==
    /\ b \in Held
    /\ store' = [t \in Tiers |-> store[t] \ {b}]
    /\ hist' = [hist EXCEPT !.due = {d \in @ : d[1] # b}]
    /\ UNCHANGED <<ring, queue, wk, hd, mb, round, cursor, active, dr, gauge>>

CopyTo(t, b) ==
    /\ b \in Held \ store[t] /\ hist.moves < MaxMoves
    /\ store' = [store EXCEPT ![t] = @ \cup {b}]
    /\ hist' = [hist EXCEPT !.moved = @ \cup ({b} \cap {d[1] : d \in hist.due}),
                            !.moves = @ + 1]
    /\ UNCHANGED <<ring, queue, wk, hd, mb, round, cursor, active, dr, gauge>>

DropFrom(t, b) ==
    /\ \A u \in Tiers : b \in store[u]
    /\ store' = [store EXCEPT ![t] = @ \ {b}]
    /\ UNCHANGED <<ring, queue, wk, hd, mb, round, cursor, active, dr, gauge, hist>>

-----------------------------------------------------------------------------
HandlerStep(h) == ReadRoute(h) \/ ReplicateOut(h)
WorkerStep(w) == TakeTask(w) \/ SendReturns(w)
TriggerStep == ScanTier \/ InstallRound \/ RecordRound \/ KickBegins
DrainStep == SweepBegins \/ DrainCovered \/ DrainHasRoom \/ DrainGet \/ DrainPush \/ DrainEnds

Next == \/ \E h \in Handlers : HandlerStep(h) \/ \E b \in Blocks : Insert(h, b)
        \/ \E w \in Workers : WorkerStep(w)
        \/ TriggerStep
        \/ DrainStep
        \/ \E p \in Peers : Lose(p) \/ Return(p)
        \/ \E b \in Blocks : Evict(b) \/ \E t \in Tiers : CopyTo(t, b) \/ DropFrom(t, b)

Spec == Init /\ [][Next]_vars

\* The threads run.  Nothing makes clients insert, peers die or blocks move.
FairSpec == /\ Spec
            /\ \A h \in Handlers : WF_vars(HandlerStep(h))
            /\ \A w \in Workers : WF_vars(WorkerStep(w))
            /\ WF_vars(TriggerStep)
            /\ WF_vars(DrainStep)

-----------------------------------------------------------------------------
\* The queue, the threads and the round have their types.
TypeOK == /\ store \in [Tiers -> SUBSET Blocks]
          /\ ring \subseteq Nodes /\ Self \in ring
          /\ queue \in Seq(Tasks)
          /\ wk \in [Workers -> Tasks \cup {NoTask}]
          /\ round \in Seq(Blocks)
          /\ cursor \in 1 .. Len(round) + 1
          /\ active \in BOOLEAN
          /\ dr.by \in {"none", "sweep", "member"}
          /\ gauge \in Nat

\* The queue exceeds its limit by the pushes of one block at most, although
\* DrainReReplication looks for room and pushes in two acquisitions of mu and
\* ReplicateOut fills the queue in between: the excesses do not add up, as a
\* push always starts from a queue within the limit.
QueueBounded == /\ Len(queue) <= QueueMax + Cardinality(Peers)
                /\ dr.pc = "push" => Len(queue) <= QueueMax

-----------------------------------------------------------------------------
(***************************************************************************)
(* The inductive invariant behind TypeOK and QueueBounded: what each       *)
(* thread carries, and that a drain past its test for room still stands in *)
(* the round, with room or with the one excess ahead of it.                *)
(***************************************************************************)
HandlersTyped ==
    /\ hd \in [Handlers -> [pc : {"idle", "route", "enqueue"},
                            id : Blocks \cup {NoTask}, todo : Seq(Peers)]]
    /\ \A h \in Handlers : /\ hd[h].pc # "idle" => hd[h].id \in Blocks
                           /\ hd[h].pc = "enqueue" => hd[h].todo # <<>>

MemberTyped == mb \in [pc : {"idle", "scan", "install", "gauge", "kick", "kicked"},
                       tier : {1, 2}, cands : Seq(Blocks)]

DrainTyped ==
    /\ dr \in [by : {"none", "sweep", "member"}, pc : {"loop", "get", "getssd", "push", "end"},
               targets : SUBSET Peers, count : Nat]
    /\ dr.by = "none" => dr.pc = "loop"
    /\ dr.pc \in {"get", "getssd", "push"} => cursor <= Len(round) /\ Len(queue) <= QueueMax

IndInv == TypeOK /\ HandlersTyped /\ MemberTyped /\ DrainTyped /\ QueueBounded

-----------------------------------------------------------------------------
\* The limit itself: "bounded queue" (replication.cpp:9), of
\* kReplicationQueueMax pushes.
QueueWithinMax == Len(queue) <= QueueMax

Quiet == mb.pc = "idle" /\ dr.by = "none" /\ ~active

\* When a round is over, every block the node held when the peer was lost, still
\* holds and has not moved between tiers meanwhile has been enqueued for every
\* other node of its route, by DrainReReplication or by the block's own Insert.
RoundCovers == Quiet => \A d \in hist.due : d[1] \in hist.moved

\* The same of every block: "We build the FULL candidate set - every block this
\* node holds and is in-route for under the new ring" (replication.cpp:360).
RoundCoversAll == Quiet => hist.due = {}

\* Whenever no round is pending, the gauge says so: "the count still pending,
\* zeroed by DrainReReplication on completion" (replication.cpp:418).
GaugeIsZeroed == Quiet => gauge = 0

\* A round ends, however often the queue is found full.
RoundCompletes == active ~> ~active

-----------------------------------------------------------------------------
(***************************************************************************)
(* The inductive invariant behind RoundCovers: what a round owes it will   *)
(* still meet.  A block owed, and not moved since the peer was lost, is    *)
(* yet to be scanned, or a candidate, or ahead of the cursor of a round    *)
(* that is active.                                                         *)
(***************************************************************************)
Among(b, s) == \E i \in DOMAIN s : s[i] = b
OnSsdOnly(b) == b \in store["SSD"] /\ b \notin store["DRAM"]
Pending(b) == active /\ \E i \in cursor .. Len(round) : round[i] = b

\* What is owed is of a block held, between nodes of its route.
HistTyped == hist \in [due : SUBSET (Blocks \X Peers), moved : SUBSET Blocks,
                       inserts : Nat, changes : Nat, moves : Nat]

DueOK == \A d \in hist.due : /\ d[1] \in Held
                             /\ Self \in Route(d[1])
                             /\ d[2] \in Targets(d[1])

Met(b) == /\ mb.pc = "scan" /\ mb.tier = 2 => Among(b, mb.cands) \/ OnSsdOnly(b)
          /\ mb.pc = "install" => Among(b, mb.cands)
          /\ mb.pc \notin {"scan", "install"} => Pending(b)

MetOK == \A d \in hist.due : d[1] \notin hist.moved => Met(d[1])

\* A drain that has read the routes of a block since the peer was lost has the
\* block's targets, and one that did not find it in DRAM will find it on the SSD.
DrainOK == mb.pc \notin {"scan", "install"} /\ dr.pc \in {"get", "getssd", "push"} =>
             \A d \in hist.due : d[1] = round[cursor] =>
               /\ d[2] \in dr.targets
               /\ dr.pc = "getssd" /\ d[1] \notin hist.moved => OnSsdOnly(d[1])

\* The trigger waits for the drain it began.
KickOK == dr.by = "member" => mb.pc = "kicked"

CoverInv == HistTyped /\ DueOK /\ MetOK /\ DrainOK
=============================================================================
