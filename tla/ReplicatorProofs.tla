--------------------------- MODULE ReplicatorProofs ---------------------------
(***************************************************************************)
(* Proofs about Replicator, for any number of blocks, peers, handlers and  *)
(* workers and any length of the queue.                                    *)
(***************************************************************************)
EXTENDS Replicator, FiniteSetTheorems, FunctionTheorems, TLAPS

\* Backends for the leaves that name none: Zenon, and where it gives up SMT.
USE ZenonT(10), SMTT(40)

\* Any set of peers is finite and no larger than the set of all of them.
LEMMA PeerSets ==
  ASSUME NEW T \in SUBSET Peers
  PROVE  IsFiniteSet(T) /\ Cardinality(T) \in Nat /\ Cardinality(T) <= Cardinality(Peers)
         /\ Cardinality(Peers) \in Nat
  BY FS_Subset, FS_CardinalityType, ReplicatorAssumption

\* A route in order is a sequence of the peers it orders, as long as they are
\* many.
LEMMA InOrderIsSeq ==
  ASSUME NEW T \in SUBSET Peers, NEW b, NEW s \in InOrder(b, T)
  PROVE  s \in Seq(Peers) /\ Len(s) = Cardinality(T)
<1>1. s \in [1 .. Cardinality(T) -> T] /\ Cardinality(T) \in Nat
  BY PeerSets DEF InOrder
<1> QED
  BY <1>1

\* The replicas of a block that a handler pushes to are peers.
LEMMA ReplicasArePeers ==
  ASSUME TypeOK, NEW b
  PROVE  Replicas(b) \ {Self} \in SUBSET Peers /\ Targets(b) \in SUBSET Peers
  BY DEF TypeOK, Replicas, Targets, Route, RouteIn, Nodes

\* What is left of a handler's list of peers when its first is taken.
LEMMA HeadAndTail ==
  ASSUME NEW s \in Seq(Peers), s # <<>>
  PROVE  Head(s) \in Peers /\ Tail(s) \in Seq(Peers) /\ (Len(s) # 1 => Tail(s) # <<>>)
<1>1. /\ Head(s) \in Peers /\ Tail(s) \in Seq(Peers)
      /\ Len(Tail(s)) = Len(s) - 1 /\ Len(s) \in Nat
  OBVIOUS
<1>2. Len(<<>>) = 0
  OBVIOUS
<1> QED
  BY <1>1, <1>2

\* What a drain appends for one block: a push to each of the peers in order.
LEMMA PushesAreTasks ==
  ASSUME NEW s \in Seq(Peers), NEW b \in Blocks
  PROVE  /\ [i \in 1 .. Len(s) |-> [peer |-> s[i], block |-> b]] \in Seq(Tasks)
         /\ Len([i \in 1 .. Len(s) |-> [peer |-> s[i], block |-> b]]) = Len(s)
<1>1. Len(s) \in Nat /\ \A i \in 1 .. Len(s) : s[i] \in Peers
  OBVIOUS
<1>2. \A i \in 1 .. Len(s) : [peer |-> s[i], block |-> b] \in Tasks
  BY <1>1 DEF Tasks
<1> HIDE DEF Tasks
<1> DEFINE f == [i \in 1 .. Len(s) |-> [peer |-> s[i], block |-> b]]
<1>3. f \in [1 .. Len(s) -> Tasks]
  BY <1>2
<1> HIDE DEF f
<1>4. f \in Seq(Tasks) /\ Len(f) = Len(s)
  BY <1>1, <1>3
<1> QED
  BY <1>4 DEF f

\* What joining two sequences does to the length.
LEMMA Joined ==
  ASSUME NEW T, NEW s \in Seq(T), NEW u \in Seq(T)
  PROVE  s \o u \in Seq(T) /\ Len(s \o u) = Len(s) + Len(u)
  OBVIOUS

\* The node starts with nothing queued.
LEMMA InitIndInv == Init => IndInv
<1> SUFFICES ASSUME Init PROVE IndInv
  OBVIOUS
<1>1. TypeOK
  <2>1. store \in [Tiers -> SUBSET Blocks] /\ ring \subseteq Nodes /\ Self \in ring
    BY DEF Init, Nodes
  <2>2. queue \in Seq(Tasks) /\ wk \in [Workers -> Tasks \cup {NoTask}]
    BY DEF Init
  <2>3. round \in Seq(Blocks) /\ Len(round) = 0 /\ cursor = 1
    BY DEF Init
  <2>4. active \in BOOLEAN /\ gauge \in Nat /\ dr.by \in {"none", "sweep", "member"}
    BY DEF Init, NoDrain
  <2> QED
    BY <2>1, <2>2, <2>3, <2>4, SMTT(40) DEF TypeOK
<1>2. HandlersTyped
  BY DEF Init, HandlersTyped, IdleHandler
<1>3. MemberTyped
  BY DEF Init, MemberTyped, IdleMember
<1>4. DrainTyped
  BY ReplicatorAssumption DEF Init, DrainTyped, NoDrain
<1>5. QueueBounded
  BY ReplicatorAssumption, PeerSets, SMTT(40) DEF Init, QueueBounded, NoDrain
<1> QED
  BY <1>1, <1>2, <1>3, <1>4, <1>5 DEF IndInv

\* Putting a block touches the store and one handler.
LEMMA InsertKeeps ==
  ASSUME IndInv, NEW h \in Handlers, NEW b \in Blocks, Insert(h, b)
  PROVE  IndInv'
<1> USE DEF IndInv, Insert
<1>1. TypeOK'
  BY DEF TypeOK
<1>2. HandlersTyped'
  BY SMTT(40) DEF HandlersTyped
<1>3. MemberTyped' /\ DrainTyped' /\ QueueBounded'
  BY DEF MemberTyped, DrainTyped, QueueBounded
<1> QED
  BY <1>1, <1>2, <1>3

\* A handler goes on with the peers of its block's route.
LEMMA ReadRouteKeeps ==
  ASSUME IndInv, NEW h \in Handlers, ReadRoute(h)
  PROVE  IndInv'
<1> USE DEF IndInv, ReadRoute
<1>2. HandlersTyped'
  <2>1. PICK s \in InOrder(hd[h].id, Replicas(hd[h].id) \ {Self}) :
          hd' = [hd EXCEPT ![h] = IF s = <<>> THEN IdleHandler
                                  ELSE [pc |-> "enqueue", id |-> hd[h].id, todo |-> s]]
    OBVIOUS
  <2>2. s \in Seq(Peers)
    BY ReplicasArePeers, InOrderIsSeq
  <2>3. hd[h].id \in Blocks
    BY DEF HandlersTyped
  <2> QED
    BY <2>1, <2>2, <2>3 DEF HandlersTyped, IdleHandler
<1>1. TypeOK' /\ MemberTyped' /\ DrainTyped' /\ QueueBounded'
  BY DEF TypeOK, MemberTyped, DrainTyped, QueueBounded
<1> QED
  BY <1>1, <1>2

\* A handler appends one push, and only to a queue within its limit.
LEMMA ReplicateOutKeeps ==
  ASSUME IndInv, NEW h \in Handlers, ReplicateOut(h)
  PROVE  IndInv'
<1> USE DEF IndInv, ReplicateOut
<1> DEFINE todo == hd[h].todo
<1>0. hd[h].id \in Blocks /\ todo \in Seq(Peers) /\ todo # <<>>
  BY DEF HandlersTyped
<1> HIDE DEF todo
<1>a. /\ Head(todo) \in Peers /\ Tail(todo) \in Seq(Peers)
      /\ Len(todo) # 1 => Tail(todo) # <<>>
  BY <1>0, HeadAndTail
<1>1. TypeOK'
  <2> DEFINE task == [peer |-> Head(todo), block |-> hd[h].id]
  <2>1. task \in Tasks
    BY <1>0, <1>a DEF Tasks
  <2>2. queue' = queue \/ queue' = Append(queue, task)
    BY DEF todo
  <2>3. queue \in Seq(Tasks)
    BY DEF TypeOK
  <2>4. queue' \in Seq(Tasks)
    <3> HIDE DEF task, ReplicateOut, IndInv
    <3> QED
      BY <2>1, <2>2, <2>3
  <2> QED
    BY <2>4 DEF TypeOK
<1>2. HandlersTyped'
  <2> DEFINE new == IF Len(todo) = 1 THEN [pc |-> "idle", id |-> NoTask, todo |-> <<>>]
                    ELSE [pc |-> "enqueue", id |-> hd[h].id, todo |-> Tail(todo)]
  <2>1. hd' = [hd EXCEPT ![h] = new]
    BY DEF todo, IdleHandler
  <2>2. HandlersTyped
    OBVIOUS
  <2> HIDE DEF ReplicateOut, IndInv
  <2>3. /\ new \in [pc : {"idle", "route", "enqueue"},
                    id : Blocks \cup {NoTask}, todo : Seq(Peers)]
        /\ new.pc # "idle" => new.id \in Blocks
        /\ new.pc = "enqueue" => new.todo # <<>>
    <3>1. CASE Len(todo) = 1
      <4>1. <<>> \in Seq(Peers)
        OBVIOUS
      <4> QED
        BY <3>1, <4>1
    <3>2. CASE Len(todo) # 1
      BY <3>2, <1>0, <1>a
    <3> QED
      BY <3>1, <3>2
  <2> HIDE DEF new
  <2> QED
    BY <2>1, <2>2, <2>3 DEF HandlersTyped
<1>4. DrainTyped'
  BY ReplicatorAssumption, SMTT(40) DEF DrainTyped
<1>5. QueueBounded'
  <2>1. Cardinality(Peers) \in Nat /\ Len(queue) \in Nat /\ QueueMax \in Nat
    BY PeerSets, ReplicatorAssumption, SMTT(40) DEF TypeOK
  <2>2. Len(queue') = Len(queue) \/ (Len(queue) < QueueMax /\ Len(queue') = Len(queue) + 1)
    BY <2>1 DEF TypeOK
  <2> QED
    BY <2>1, <2>2 DEF QueueBounded
<1>3. MemberTyped'
  BY DEF MemberTyped
<1> QED
  BY <1>1, <1>2, <1>3, <1>4, <1>5

\* A worker shortens the queue.
LEMMA TakeTaskKeeps ==
  ASSUME IndInv, NEW w \in Workers, TakeTask(w)
  PROVE  IndInv'
<1> USE DEF IndInv, TakeTask
<1>1. TypeOK'
  BY SMTT(40) DEF TypeOK
<1>4. DrainTyped'
  BY ReplicatorAssumption, SMTT(40) DEF DrainTyped
<1>5. QueueBounded'
  <2>1. Cardinality(Peers) \in Nat /\ Len(queue) \in Nat /\ QueueMax \in Nat
    BY PeerSets, ReplicatorAssumption, SMTT(40) DEF TypeOK
  <2>2. Len(queue') = Len(queue) - 1
    BY DEF TypeOK
  <2> QED
    BY <2>1, <2>2 DEF QueueBounded
<1>2. HandlersTyped' /\ MemberTyped'
  BY DEF HandlersTyped, MemberTyped
<1> QED
  BY <1>1, <1>2, <1>4, <1>5

\* A worker that is done sending changes nothing else.
LEMMA SendReturnsKeeps ==
  ASSUME IndInv, NEW w \in Workers, SendReturns(w)
  PROVE  IndInv'
<1> USE DEF IndInv, SendReturns
<1>1. TypeOK'
  BY DEF TypeOK
<1>2. HandlersTyped' /\ MemberTyped' /\ DrainTyped' /\ QueueBounded'
  BY DEF HandlersTyped, MemberTyped, DrainTyped, QueueBounded
<1> QED
  BY <1>1, <1>2

\* Losing a peer leaves a smaller ring and starts a scan.
LEMMA LoseKeeps ==
  ASSUME IndInv, NEW p \in Peers, Lose(p)
  PROVE  IndInv'
<1> USE DEF IndInv, Lose
<1>1. TypeOK'
  BY ReplicatorAssumption DEF TypeOK, Nodes
<1>3. MemberTyped'
  <2>1. mb' = [pc |-> "scan", tier |-> 1, cands |-> <<>>]
    BY DEF IdleMember
  <2>2. <<>> \in Seq(Blocks)
    OBVIOUS
  <2> HIDE DEF Lose, IndInv
  <2> QED
    BY <2>1, <2>2 DEF MemberTyped
<1>2. HandlersTyped' /\ DrainTyped' /\ QueueBounded'
  BY DEF HandlersTyped, DrainTyped, QueueBounded
<1> QED
  BY <1>1, <1>2, <1>3

\* A peer's return leaves a ring of known nodes.
LEMMA ReturnKeeps ==
  ASSUME IndInv, NEW p \in Peers, Return(p)
  PROVE  IndInv'
<1> USE DEF IndInv, Return
<1>1. TypeOK'
  BY ReplicatorAssumption DEF TypeOK, Nodes
<1>2. HandlersTyped' /\ MemberTyped' /\ DrainTyped' /\ QueueBounded'
  BY DEF HandlersTyped, MemberTyped, DrainTyped, QueueBounded
<1> QED
  BY <1>1, <1>2

\* The candidates of a tier are blocks.
LEMMA ScanTierKeeps ==
  ASSUME IndInv, ScanTier
  PROVE  IndInv'
<1> USE DEF IndInv, ScanTier
<1>3. MemberTyped'
  <2> DEFINE found == {b \in store[ScanOrder[mb.tier]] : Self \in Route(b)}
  <2>1. found \in SUBSET Blocks
    BY SMTT(40) DEF TypeOK, MemberTyped, ScanOrder, Tiers
  <2>2. Cardinality(found) \in Nat
    BY <2>1, FS_Subset, FS_CardinalityType, ReplicatorAssumption
  <2>3. PICK s \in [1 .. Cardinality(found) -> found] :
          mb' = [pc |-> IF mb.tier = Len(ScanOrder) THEN "install" ELSE "scan",
                 tier |-> IF mb.tier = Len(ScanOrder) THEN 1 ELSE mb.tier + 1,
                 cands |-> mb.cands \o s]
    OBVIOUS
  <2> HIDE DEF found
  <2>4. s \in Seq(Blocks)
    BY <2>1, <2>2, SMTT(40)
  <2>5. mb.cands \o s \in Seq(Blocks)
    BY <2>4, SMTT(40) DEF MemberTyped
  <2>6. Len(ScanOrder) = 2 /\ mb.tier \in {1, 2}
    BY DEF ScanOrder, MemberTyped
  <2> DEFINE cands == mb.cands \o s
  <2>7. mb' = [pc |-> IF mb.tier = 2 THEN "install" ELSE "scan",
               tier |-> IF mb.tier = 2 THEN 1 ELSE mb.tier + 1, cands |-> cands]
    BY <2>3, <2>6
  <2> HIDE DEF cands, ScanTier, IndInv
  <2>8. cands \in Seq(Blocks)
    BY <2>5 DEF cands
  <2> QED
    BY <2>6, <2>7, <2>8, SMTT(40) DEF MemberTyped
<1>1. /\ UNCHANGED <<store, ring, queue, wk, hd, round, cursor, active, dr, gauge>>
      /\ TypeOK /\ HandlersTyped /\ DrainTyped /\ QueueBounded
  OBVIOUS
<1> HIDE DEF IndInv, ScanTier
<1>2. TypeOK' /\ HandlersTyped'
  BY <1>1 DEF TypeOK, HandlersTyped
<1>4. DrainTyped' /\ QueueBounded'
  BY <1>1 DEF DrainTyped, QueueBounded
<1> QED
  BY <1>2, <1>3, <1>4 DEF IndInv

\* A round is installed while nobody drains, with the cursor at its start.
LEMMA InstallRoundKeeps ==
  ASSUME IndInv, InstallRound
  PROVE  IndInv'
<1> USE DEF IndInv, InstallRound
<1>1. TypeOK'
  <2>1. mb.cands \in Seq(Blocks)
    BY DEF MemberTyped
  <2>2. round' \in Seq(Blocks) /\ cursor' \in 1 .. Len(round') + 1 /\ active' \in BOOLEAN
    BY <2>1
  <2> QED
    BY <2>2 DEF TypeOK
<1>3. MemberTyped'
  BY DEF MemberTyped
<1>4. DrainTyped'
  BY DEF DrainTyped
<1>2. HandlersTyped' /\ QueueBounded'
  BY DEF HandlersTyped, QueueBounded
<1> QED
  BY <1>1, <1>2, <1>3, <1>4

\* The gauge is the number of candidates.
LEMMA RecordRoundKeeps ==
  ASSUME IndInv, RecordRound
  PROVE  IndInv'
<1> USE DEF IndInv, RecordRound
<1>1. TypeOK'
  BY SMTT(40) DEF TypeOK
<1>3. MemberTyped'
  <2>1. mb' = [pc |-> "kick", tier |-> 1, cands |-> <<>>]
    BY DEF IdleMember
  <2>2. <<>> \in Seq(Blocks)
    OBVIOUS
  <2> HIDE DEF RecordRound, IndInv
  <2> QED
    BY <2>1, <2>2 DEF MemberTyped
<1>2. HandlersTyped' /\ DrainTyped' /\ QueueBounded'
  BY DEF HandlersTyped, DrainTyped, QueueBounded
<1> QED
  BY <1>1, <1>2, <1>3

\* The sweep thread begins to drain.
LEMMA SweepBeginsKeeps ==
  ASSUME IndInv, SweepBegins
  PROVE  IndInv'
<1> USE DEF IndInv, SweepBegins
<1>1. TypeOK'
  BY DEF TypeOK, NoDrain
<1>4. DrainTyped'
  BY DEF DrainTyped, NoDrain
<1>5. QueueBounded'
  BY DEF QueueBounded, NoDrain
<1>2. HandlersTyped' /\ MemberTyped'
  BY DEF HandlersTyped, MemberTyped
<1> QED
  BY <1>1, <1>2, <1>4, <1>5

\* The membership thread begins to drain, or finds nothing to do.
LEMMA KickBeginsKeeps ==
  ASSUME IndInv, KickBegins
  PROVE  IndInv'
<1> USE DEF IndInv, KickBegins
<1>1. TypeOK'
  BY DEF TypeOK, NoDrain
<1>3. MemberTyped'
  BY SMTT(40) DEF MemberTyped, IdleMember
<1>4. DrainTyped'
  BY SMTT(40) DEF DrainTyped, NoDrain
<1>5. QueueBounded'
  BY DEF QueueBounded, NoDrain
<1>2. HandlersTyped'
  BY DEF HandlersTyped
<1> QED
  BY <1>1, <1>2, <1>3, <1>4, <1>5

\* Passing over a block keeps the cursor within the round or right behind it.
LEMMA DrainCoveredKeeps ==
  ASSUME IndInv, DrainCovered
  PROVE  IndInv'
<1> USE DEF IndInv, DrainCovered
<1>1. TypeOK'
  <2>1. cursor \in Nat /\ Len(round) \in Nat /\ cursor >= 1
    BY SMTT(40) DEF TypeOK
  <2>2. cursor <= Len(round)
    BY <2>1 DEF MoreToDrain
  <2>3. cursor' \in 1 .. Len(round) + 1
    BY <2>1, <2>2, SMTT(40) DEF TypeOK
  <2> QED
    BY <2>3 DEF TypeOK
<1>4. DrainTyped'
  BY DEF DrainTyped
<1>2. HandlersTyped' /\ MemberTyped' /\ QueueBounded'
  BY DEF HandlersTyped, MemberTyped, QueueBounded
<1> QED
  BY <1>1, <1>2, <1>4

\* A drain that finds room stands at a block of the round, the queue within
\* its limit.
LEMMA DrainHasRoomKeeps ==
  ASSUME IndInv, DrainHasRoom
  PROVE  IndInv'
<1> USE DEF IndInv, DrainHasRoom
<1>1. TypeOK'
  BY SMTT(40) DEF TypeOK
<1>4. DrainTyped'
  <2> DEFINE T == Targets(round[cursor])
  <2>1. T \in SUBSET Peers /\ Cardinality(T) \in Nat
    BY ReplicasArePeers, PeerSets
  <2>2. cursor <= Len(round) /\ Len(queue) \in Nat /\ QueueMax \in Nat
    BY ReplicatorAssumption, SMTT(40) DEF MoreToDrain, TypeOK
  <2>3. /\ dr.by \in {"sweep", "member"} /\ dr.targets \in SUBSET Peers /\ dr.count \in Nat
        /\ UNCHANGED <<queue, round, cursor>>
    BY DEF DrainTyped
  <2>4. \/ dr' = [by |-> dr.by, pc |-> "end", targets |-> dr.targets, count |-> dr.count]
        \/ /\ Len(queue) + Cardinality(T) <= QueueMax
           /\ dr' = [by |-> dr.by, pc |-> "get", targets |-> T, count |-> dr.count]
    <3>1. dr' = IF Len(queue) + Cardinality(T) > QueueMax
                THEN [dr EXCEPT !.pc = "end"]
                ELSE [by |-> dr.by, pc |-> "get", targets |-> T, count |-> dr.count]
      OBVIOUS
    <3>2. DrainTyped
      OBVIOUS
    <3> HIDE DEF T, DrainHasRoom, IndInv
    <3>3. [dr EXCEPT !.pc = "end"]
            = [by |-> dr.by, pc |-> "end", targets |-> dr.targets, count |-> dr.count]
      BY <3>2, SMTT(40) DEF DrainTyped
    <3>4. Len(queue) + Cardinality(T) > QueueMax \/ Len(queue) + Cardinality(T) <= QueueMax
      BY <2>1, <2>2
    <3> QED
      BY <3>1, <3>3, <3>4
  <2> HIDE DEF T, DrainHasRoom, IndInv
  <2>5. CASE dr' = [by |-> dr.by, pc |-> "end", targets |-> dr.targets, count |-> dr.count]
    BY <2>3, <2>5 DEF DrainTyped
  <2>6. CASE /\ Len(queue) + Cardinality(T) <= QueueMax
             /\ dr' = [by |-> dr.by, pc |-> "get", targets |-> T, count |-> dr.count]
    <3>1. Len(queue) <= QueueMax
      BY <2>1, <2>2, <2>6
    <3> QED
      BY <2>1, <2>2, <2>3, <2>6, <3>1 DEF DrainTyped
  <2> QED
    BY <2>4, <2>5, <2>6
<1>5. QueueBounded'
  BY DEF QueueBounded
<1>2. HandlersTyped' /\ MemberTyped'
  BY DEF HandlersTyped, MemberTyped
<1> QED
  BY <1>1, <1>2, <1>4, <1>5

\* Reading the block keeps the room, or passes over the block.
LEMMA DrainGetKeeps ==
  ASSUME IndInv, DrainGet
  PROVE  IndInv'
<1> USE DEF IndInv, DrainGet
<1>1. TypeOK'
  <2>1. cursor \in Nat /\ Len(round) \in Nat /\ cursor >= 1
    BY SMTT(40) DEF TypeOK
  <2>2. cursor <= Len(round)
    BY <2>1 DEF DrainTyped
  <2>3. cursor' \in 1 .. Len(round) + 1
    BY <2>1, <2>2, SMTT(40) DEF TypeOK
  <2> QED
    BY <2>3 DEF TypeOK, DrainTyped
<1>4. DrainTyped'
  <2>1. \/ dr' = [dr EXCEPT !.pc = "push"] /\ UNCHANGED cursor
        \/ dr' = [dr EXCEPT !.pc = "getssd"] /\ UNCHANGED cursor
        \/ dr' = [dr EXCEPT !.pc = "loop", !.targets = {}]
    OBVIOUS
  <2> QED
    BY <2>1 DEF DrainTyped
<1>5. QueueBounded'
  BY DEF QueueBounded, DrainTyped
<1>2. HandlersTyped' /\ MemberTyped'
  BY DEF HandlersTyped, MemberTyped
<1> QED
  BY <1>1, <1>2, <1>4, <1>5

\* The pushes of one block take a queue within its limit past it by at most one
\* push per peer.
LEMMA DrainPushKeeps ==
  ASSUME IndInv, DrainPush
  PROVE  IndInv'
<1> USE DEF IndInv, DrainPush
<1> DEFINE pushes(s) == [i \in 1 .. Len(s) |-> [peer |-> s[i], block |-> round[cursor]]]
<1>0. PICK s \in InOrder(round[cursor], dr.targets) : queue' = queue \o pushes(s)
  OBVIOUS
<1>a. dr.targets \in SUBSET Peers /\ s \in Seq(Peers) /\ Len(s) = Cardinality(dr.targets)
  BY InOrderIsSeq DEF DrainTyped
<1>b. cursor \in 1 .. Len(round) /\ round[cursor] \in Blocks
  BY SMTT(40) DEF DrainTyped, TypeOK
<1>c. pushes(s) \in Seq(Tasks) /\ Len(pushes(s)) = Len(s)
  BY <1>a, <1>b, PushesAreTasks
<1>d. queue' \in Seq(Tasks) /\ Len(queue') = Len(queue) + Len(s)
  <2>1. queue \in Seq(Tasks)
    BY DEF TypeOK
  <2> DEFINE more == pushes(s)
  <2>2. queue' = queue \o more /\ more \in Seq(Tasks) /\ Len(more) = Len(s)
    BY <1>0, <1>c
  <2> HIDE DEF more, pushes, DrainPush, IndInv
  <2>3. queue \o more \in Seq(Tasks) /\ Len(queue \o more) = Len(queue) + Len(more)
    BY <2>1, <2>2, Joined
  <2> QED
    BY <2>2, <2>3
<1> HIDE DEF pushes
<1>1. TypeOK'
  <2>1. queue' \in Seq(Tasks)
    BY <1>d
  <2>2. cursor' \in 1 .. Len(round) + 1
    BY <1>b, SMTT(40) DEF TypeOK
  <2> QED
    BY <2>1, <2>2 DEF TypeOK, DrainTyped
<1>4. DrainTyped'
  <2> DEFINE more == dr.count + 1
  <2>1. dr' = [by |-> dr.by, pc |-> "loop", targets |-> {}, count |-> more]
    BY DEF DrainTyped
  <2>2. dr.by \in {"sweep", "member"} /\ more \in Nat
    BY SMTT(40) DEF DrainTyped
  <2> HIDE DEF DrainPush, IndInv, more
  <2> QED
    BY <2>1, <2>2 DEF DrainTyped
<1>5. QueueBounded'
  <2>1. Cardinality(Peers) \in Nat /\ Len(queue) \in Nat /\ QueueMax \in Nat
    BY PeerSets, ReplicatorAssumption, SMTT(40) DEF TypeOK
  <2>2. Len(s) \in Nat /\ Len(s) <= Cardinality(Peers)
    BY <1>a, PeerSets
  <2>3. Len(queue') = Len(queue) + Len(s)
    BY <1>d
  <2>4. Len(queue) <= QueueMax /\ dr'.pc = "loop"
    BY DEF DrainTyped
  <2> QED
    BY <2>1, <2>2, <2>3, <2>4 DEF QueueBounded
<1>2. HandlersTyped' /\ MemberTyped'
  BY DEF HandlersTyped, MemberTyped
<1> QED
  BY <1>1, <1>2, <1>4, <1>5

\* The gauge is what is left of the round.
LEMMA DrainEndsKeeps ==
  ASSUME IndInv, DrainEnds
  PROVE  IndInv'
<1> USE DEF IndInv, DrainEnds
<1>1. TypeOK'
  BY SMTT(40) DEF TypeOK, NoDrain
<1>3. MemberTyped'
  BY SMTT(40) DEF MemberTyped, IdleMember
<1>4. DrainTyped'
  BY DEF DrainTyped, NoDrain
<1>5. QueueBounded'
  BY DEF QueueBounded, NoDrain
<1>2. HandlersTyped'
  BY DEF HandlersTyped
<1> QED
  BY <1>1, <1>2, <1>3, <1>4, <1>5

\* Evicting a block touches the store only.
LEMMA EvictKeeps ==
  ASSUME IndInv, NEW b \in Blocks, Evict(b)
  PROVE  IndInv'
<1> USE DEF IndInv, Evict
<1>1. TypeOK'
  BY DEF TypeOK
<1>2. HandlersTyped' /\ MemberTyped' /\ DrainTyped' /\ QueueBounded'
  BY DEF HandlersTyped, MemberTyped, DrainTyped, QueueBounded
<1> QED
  BY <1>1, <1>2

\* Copying a block to a tier touches the store only.
LEMMA CopyToKeeps ==
  ASSUME IndInv, NEW t \in Tiers, NEW b \in Blocks, CopyTo(t, b)
  PROVE  IndInv'
<1> USE DEF IndInv, CopyTo
<1>1. TypeOK'
  BY DEF TypeOK
<1>2. HandlersTyped' /\ MemberTyped' /\ DrainTyped' /\ QueueBounded'
  BY DEF HandlersTyped, MemberTyped, DrainTyped, QueueBounded
<1> QED
  BY <1>1, <1>2

\* Dropping a copy touches the store only.
LEMMA DropFromKeeps ==
  ASSUME IndInv, NEW t \in Tiers, NEW b \in Blocks, DropFrom(t, b)
  PROVE  IndInv'
<1> USE DEF IndInv, DropFrom
<1>1. TypeOK'
  BY DEF TypeOK
<1>2. HandlersTyped' /\ MemberTyped' /\ DrainTyped' /\ QueueBounded'
  BY DEF HandlersTyped, MemberTyped, DrainTyped, QueueBounded
<1> QED
  BY <1>1, <1>2

\* Every step keeps the invariant.
LEMMA NextKeepsIndInv == IndInv /\ [Next]_vars => IndInv'
<1>1. IndInv /\ Next => IndInv'
  BY InsertKeeps, ReadRouteKeeps, ReplicateOutKeeps, TakeTaskKeeps, SendReturnsKeeps,
     LoseKeeps, ReturnKeeps, ScanTierKeeps, InstallRoundKeeps, RecordRoundKeeps,
     SweepBeginsKeeps, KickBeginsKeeps, DrainCoveredKeeps, DrainHasRoomKeeps,
     DrainGetKeeps, DrainPushKeeps, DrainEndsKeeps, EvictKeeps, CopyToKeeps, DropFromKeeps
     DEF Next, HandlerStep, WorkerStep, TriggerStep, DrainStep
<1>2. IndInv /\ UNCHANGED vars => IndInv'
  <2> SUFFICES ASSUME IndInv, UNCHANGED vars
               PROVE  IndInv'
    OBVIOUS
  <2>1. TypeOK' /\ HandlersTyped'
    BY DEF vars, IndInv, TypeOK, HandlersTyped
  <2>2. MemberTyped' /\ DrainTyped' /\ QueueBounded'
    BY DEF vars, IndInv, MemberTyped, DrainTyped, QueueBounded
  <2> QED
    BY <2>1, <2>2 DEF IndInv
<1> QED
  BY <1>1, <1>2

\* The types of the queue, the threads and the round, for any bounds.
THEOREM TypeCorrect == Spec => []TypeOK
<1>1. IndInv => TypeOK
  BY DEF IndInv
<1> QED
  BY <1>1, InitIndInv, NextKeepsIndInv, PTL DEF Spec

\* The queue exceeds kReplicationQueueMax by at most one push per peer, however
\* many Insert handlers race the drain between its test for room and its push.
THEOREM QueueBoundedHolds == Spec => []QueueBounded
<1>1. IndInv => QueueBounded
  BY DEF IndInv
<1> QED
  BY <1>1, InitIndInv, NextKeepsIndInv, PTL DEF Spec

-----------------------------------------------------------------------------
(***************************************************************************)
(* A round covers what it owes.                                            *)
(***************************************************************************)
\* A step that leaves the round, the drain and the membership thread alone keeps
\* the invariant when it adds no debt, and when the blocks still owed stay
\* held; one that was on the SSD only, and has not moved, still is.
LEMMA CoverKept ==
  ASSUME CoverInv, UNCHANGED <<ring, mb, round, cursor, active, dr>>, HistTyped',
         hist'.due \subseteq hist.due, hist.moved \subseteq hist'.moved,
         \A d \in hist'.due : d[1] \in Held',
         \A d \in hist'.due : d[1] \notin hist'.moved /\ OnSsdOnly(d[1]) => OnSsdOnly(d[1])'
  PROVE  CoverInv'
<1>1. DueOK'
  BY DEF CoverInv, DueOK, Route, RouteIn, Nearer, Targets
<1>2. ASSUME NEW d \in hist'.due, d[1] \notin hist'.moved
      PROVE  Met(d[1])'
  <2>1. Met(d[1])
    BY <1>2 DEF CoverInv, MetOK
  <2>2. OnSsdOnly(d[1]) => OnSsdOnly(d[1])'
    BY <1>2
  <2> QED
    BY <2>1, <2>2 DEF Met, Among, Pending
<1>3. DrainOK'
  <2>1. \A d \in hist'.due : d[1] \notin hist'.moved => d \in hist.due /\ d[1] \notin hist.moved
    OBVIOUS
  <2> QED
    BY <2>1 DEF CoverInv, DrainOK
<1> QED
  BY <1>1, <1>2, <1>3 DEF CoverInv, MetOK

\* Handlers, workers and the store.
LEMMA InsertCovers ==
  ASSUME IndInv, CoverInv, NEW h \in Handlers, NEW b \in Blocks, Insert(h, b)
  PROVE  CoverInv'
<1>1. /\ hist' = [hist EXCEPT !.inserts = @ + 1] /\ b \notin Held
      /\ store' = [store EXCEPT !["DRAM"] = @ \cup {b}]
      /\ UNCHANGED <<ring, mb, round, cursor, active, dr>>
  BY DEF Insert
<1>2. HistTyped' /\ hist'.due = hist.due /\ hist'.moved = hist.moved
  BY <1>1, SMTT(40) DEF CoverInv, HistTyped
<1>3. store'["DRAM"] = store["DRAM"] \cup {b} /\ store'["SSD"] = store["SSD"]
  BY <1>1 DEF IndInv, TypeOK, Tiers
<1>4. \A d \in hist.due : d[1] \in Held /\ d[1] # b
  BY <1>1 DEF CoverInv, DueOK
<1> QED
  BY <1>1, <1>2, <1>3, <1>4, CoverKept DEF Held, OnSsdOnly

\* A handler that reads its route (ReplicateOut, before the queue's lock) changes nothing a round reads.
LEMMA ReadRouteCovers ==
  ASSUME IndInv, CoverInv, NEW h \in Handlers, ReadRoute(h)
  PROVE  CoverInv'
<1>1. UNCHANGED <<store, ring, mb, round, cursor, active, dr, hist>>
  BY DEF ReadRoute
<1>2. HistTyped' /\ \A d \in hist.due : d[1] \in Held'
  BY <1>1 DEF CoverInv, HistTyped, DueOK, Held
<1> QED
  BY <1>1, <1>2, CoverKept DEF OnSsdOnly

\* A worker takes a push or sees Send return (WorkerLoop); neither touches a round.
LEMMA WorkersCover ==
  ASSUME IndInv, CoverInv, NEW w \in Workers, WorkerStep(w)
  PROVE  CoverInv'
<1>1. UNCHANGED <<store, ring, mb, round, cursor, active, dr, hist>>
  BY DEF WorkerStep, TakeTask, SendReturns
<1>2. HistTyped' /\ \A d \in hist.due : d[1] \in Held'
  BY <1>1 DEF CoverInv, HistTyped, DueOK, Held
<1> QED
  BY <1>1, <1>2, CoverKept DEF OnSsdOnly

\* An Insert's own pushes (ReplicateOut) only take pairs out of what is due.
LEMMA ReplicateOutCovers ==
  ASSUME IndInv, CoverInv, NEW h \in Handlers, ReplicateOut(h)
  PROVE  CoverInv'
<1>1. UNCHANGED <<store, ring, mb, round, cursor, active, dr>>
  BY DEF ReplicateOut
<1>2. \E p : hist' = hist \/ hist' = [hist EXCEPT !.due = @ \ p]
  BY DEF ReplicateOut, Enqueued
<1>3. HistTyped' /\ hist'.due \subseteq hist.due /\ hist'.moved = hist.moved
  BY <1>2 DEF CoverInv, HistTyped
<1>4. \A d \in hist'.due : d[1] \in Held'
  BY <1>1, <1>3 DEF CoverInv, DueOK, Held
<1> QED
  BY <1>1, <1>3, <1>4, CoverKept DEF OnSsdOnly

\* An evicted block is owed no more.
LEMMA EvictCovers ==
  ASSUME IndInv, CoverInv, NEW b \in Blocks, Evict(b)
  PROVE  CoverInv'
<1>1. /\ UNCHANGED <<ring, mb, round, cursor, active, dr>>
      /\ hist' = [hist EXCEPT !.due = {d \in @ : d[1] # b}]
      /\ store' = [t \in Tiers |-> store[t] \ {b}]
  BY DEF Evict
<1>2. /\ HistTyped' /\ hist'.due = {d \in hist.due : d[1] # b} /\ hist'.moved = hist.moved
  BY <1>1 DEF CoverInv, HistTyped
<1>3. store'["DRAM"] = store["DRAM"] \ {b} /\ store'["SSD"] = store["SSD"] \ {b}
  BY <1>1 DEF Tiers
<1>4. \A d \in hist'.due : d \in hist.due /\ d[1] # b /\ d[1] \in Held
  BY <1>2 DEF CoverInv, DueOK
<1> QED
  BY <1>1, <1>2, <1>3, <1>4, CoverKept DEF Held, OnSsdOnly

\* A block copied to another tier has moved.
LEMMA CopyToCovers ==
  ASSUME IndInv, CoverInv, NEW t \in Tiers, NEW b \in Blocks, CopyTo(t, b)
  PROVE  CoverInv'
<1>1. /\ UNCHANGED <<ring, mb, round, cursor, active, dr>>
      /\ hist' = [hist EXCEPT !.moved = @ \cup ({b} \cap {d[1] : d \in hist.due}),
                              !.moves = @ + 1]
      /\ store' = [store EXCEPT ![t] = @ \cup {b}]
  BY DEF CopyTo
<1>2. /\ hist'.due = hist.due
      /\ hist'.moved = hist.moved \cup ({b} \cap {d[1] : d \in hist.due})
  BY <1>1 DEF CoverInv, HistTyped
<1>3. HistTyped'
  <2> DEFINE m == hist.moved \cup ({b} \cap {d[1] : d \in hist.due})
             n == hist.moves + 1
  <2>1. hist' = [hist EXCEPT !.moved = m, !.moves = n]
    BY <1>1
  <2>2. HistTyped /\ m \in SUBSET Blocks /\ n \in Nat
    BY DEF CoverInv, HistTyped
  <2> HIDE DEF m, n
  <2> QED
    BY <2>1, <2>2 DEF HistTyped
<1>4. \A u \in Tiers : store[u] \subseteq store'[u] /\ store'[u] \subseteq store[u] \cup {b}
  BY <1>1 DEF IndInv, TypeOK
<1>5. "DRAM" \in Tiers /\ "SSD" \in Tiers
  BY DEF Tiers
<1>6. \A d \in hist'.due : d[1] \in Held'
  BY <1>2, <1>4, <1>5 DEF CoverInv, DueOK, Held
<1>7. ASSUME NEW d \in hist'.due, d[1] \notin hist'.moved, OnSsdOnly(d[1])
      PROVE  OnSsdOnly(d[1])'
  <2>1. d[1] # b
    BY <1>2, <1>7
  <2> QED
    BY <1>4, <1>5, <1>7, <2>1 DEF OnSsdOnly
<1> QED
  BY <1>1, <1>2, <1>3, <1>6, <1>7, CoverKept

\* A copy is dropped of a block that another tier has, too.
LEMMA DropFromCovers ==
  ASSUME IndInv, CoverInv, NEW t \in Tiers, NEW b \in Blocks, DropFrom(t, b)
  PROVE  CoverInv'
<1>1. /\ UNCHANGED <<ring, mb, round, cursor, active, dr, hist>>
      /\ store' = [store EXCEPT ![t] = @ \ {b}]
      /\ b \in store["DRAM"] /\ b \in store["SSD"]
  BY DEF DropFrom, Tiers
<1>2. \/ store'["DRAM"] = store["DRAM"] /\ store'["SSD"] = store["SSD"] \ {b}
      \/ store'["SSD"] = store["SSD"] /\ store'["DRAM"] = store["DRAM"] \ {b}
  BY <1>1 DEF IndInv, TypeOK, Tiers
<1>3. HistTyped' /\ \A d \in hist.due : d[1] \in Held
  BY <1>1 DEF CoverInv, HistTyped, DueOK
<1> QED
  BY <1>1, <1>2, <1>3, CoverKept DEF Held, OnSsdOnly

\* A peer is lost: the new debts are of blocks held, and nothing is scanned yet.
LEMMA LoseCovers ==
  ASSUME IndInv, CoverInv, NEW p \in Peers, Lose(p)
  PROVE  CoverInv'
<1> DEFINE R == ring'
           owing == {x \in Held : Self \in RouteIn(R, x)}
           due == UNION {{b} \X (RouteIn(R, b) \ {Self}) : b \in owing}
           n == hist.changes + 1
<1>1. /\ hist' = [hist EXCEPT !.changes = n, !.moved = {}, !.due = due]
      /\ mb' = [IdleMember EXCEPT !.pc = "scan"] /\ ring' = ring \ {p}
      /\ UNCHANGED <<store, round, cursor, active, dr>>
  BY DEF Lose
<1>2. mb'.pc = "scan" /\ mb'.tier = 1
  BY <1>1 DEF IdleMember
<1>3. R \subseteq Nodes
  BY <1>1 DEF IndInv, TypeOK
<1>4. Held \subseteq Blocks
  BY DEF Held, IndInv, TypeOK, Tiers
<1>5. ASSUME NEW d \in due
      PROVE  /\ d \in Blocks \X Peers /\ d[1] \in Held /\ Self \in RouteIn(R, d[1])
             /\ d[2] \in RouteIn(R, d[1]) \ {Self}
  <2>1. PICK b \in owing : d \in {b} \X (RouteIn(R, b) \ {Self})
    OBVIOUS
  <2>2. d[1] = b /\ d[2] \in RouteIn(R, b) \ {Self} /\ d = <<d[1], d[2]>>
    BY <2>1, SMTT(40)
  <2>3. RouteIn(R, b) \ {Self} \subseteq Peers
    BY <1>3 DEF RouteIn, Nodes
  <2>4. b \in Blocks /\ b \in Held /\ Self \in RouteIn(R, b)
    BY <1>4
  <2> HIDE DEF R, owing, due
  <2> QED
    BY <2>2, <2>3, <2>4
<1> HIDE DEF R, owing, due
<1>6. due \in SUBSET (Blocks \X Peers) /\ n \in Nat
  BY <1>5, SMTT(40) DEF CoverInv, HistTyped
<1> HIDE DEF n
<1>7. HistTyped' /\ hist'.due = due
  BY <1>1, <1>6 DEF CoverInv, HistTyped
<1>8. DueOK'
  <2>1. Held' = Held
    BY <1>1 DEF Held
  <2>2. \A b : Route(b)' = RouteIn(R, b)
    BY DEF Route, R, RouteIn, Nearer
  <2>3. \A b : Targets(b)' = RouteIn(R, b) \ {Self}
    BY <2>2 DEF Targets
  <2> QED
    BY <1>5, <1>7, <2>1, <2>2, <2>3 DEF DueOK
<1>9. MetOK' /\ DrainOK'
  BY <1>2 DEF MetOK, Met, DrainOK
<1> QED
  BY <1>7, <1>8, <1>9 DEF CoverInv

\* A peer's return ends what is owed.
LEMMA ReturnCovers ==
  ASSUME IndInv, CoverInv, NEW p \in Peers, Return(p)
  PROVE  CoverInv'
<1> DEFINE n == hist.changes + 1
<1>1. hist' = [hist EXCEPT !.changes = n, !.due = {}, !.moved = {}]
  BY DEF Return
<1>2. n \in Nat
  BY DEF CoverInv, HistTyped
<1> HIDE DEF n
<1>3. HistTyped' /\ hist'.due = {}
  BY <1>1, <1>2 DEF CoverInv, HistTyped
<1> QED
  BY <1>3 DEF CoverInv, DueOK, MetOK, DrainOK

\* An injective list as long as a set lists all of it.
LEMMA ListsAll ==
  ASSUME NEW S, IsFiniteSet(S), NEW s \in [1 .. Cardinality(S) -> S],
         \A i, j \in DOMAIN s : s[i] = s[j] => i = j
  PROVE  \A x \in S : Among(x, s)
<1> DEFINE n == Cardinality(S)
<1>1. n \in Nat
  BY FS_CardinalityType
<1>2. Cardinality(1 .. n) = n
  BY <1>1, FS_Interval, SMTT(40)
<1>a. s \in [1 .. n -> S] /\ \A i, j \in 1 .. n : s[i] = s[j] => i = j
  OBVIOUS
<1> HIDE DEF n
<1>3. s \in Injection(1 .. n, S)
  BY <1>a, Fun_IsInj
<1>4. s \in Surjection(1 .. n, S)
  BY <1>2, <1>3, FS_Injection DEF n
<1>5. \A x \in S : \E i \in 1 .. n : s[i] = x
  BY <1>4, Zenon DEF Surjection
<1> QED
  BY <1>a, <1>5 DEF Among

\* What is among two lists is among the two joined.
LEMMA AmongJoined ==
  ASSUME NEW T, NEW s \in Seq(T), NEW u \in Seq(T), NEW x, Among(x, s) \/ Among(x, u)
  PROVE  Among(x, s \o u)
<1>1. CASE Among(x, s)
  <2>1. PICK i \in 1 .. Len(s) : s[i] = x
    BY <1>1 DEF Among
  <2>2. i \in 1 .. Len(s \o u) /\ (s \o u)[i] = s[i]
    BY <2>1
  <2>3. DOMAIN (s \o u) = 1 .. Len(s \o u)
    OBVIOUS
  <2> QED
    BY <2>1, <2>2, <2>3 DEF Among
<1>2. CASE Among(x, u)
  <2>1. PICK i \in 1 .. Len(u) : u[i] = x
    BY <1>2 DEF Among
  <2>2. i + Len(s) \in 1 .. Len(s \o u) /\ (s \o u)[i + Len(s)] = u[i]
    BY <2>1
  <2>3. DOMAIN (s \o u) = 1 .. Len(s \o u)
    OBVIOUS
  <2> QED
    BY <2>1, <2>2, <2>3 DEF Among
<1> QED
  BY <1>1, <1>2

\* The scan of a tier takes every block of it that the round owes.
LEMMA ScanTierCovers ==
  ASSUME IndInv, CoverInv, ScanTier
  PROVE  CoverInv'
<1> DEFINE tier == ScanOrder[mb.tier]
           found == {b \in store[tier] : Self \in Route(b)}
<1>1. /\ UNCHANGED <<store, ring, round, cursor, active, dr, hist>> /\ mb.pc = "scan"
      /\ mb.tier \in {1, 2} /\ mb.cands \in Seq(Blocks)
  BY DEF ScanTier, IndInv, MemberTyped
<1>2. (mb.tier = 1 => tier = "DRAM") /\ (mb.tier = 2 => tier = "SSD")
  BY SMTT(40) DEF ScanOrder
<1>3. found \in SUBSET Blocks
  BY <1>1, <1>2 DEF IndInv, TypeOK, Tiers
<1>4. IsFiniteSet(found) /\ Cardinality(found) \in Nat
  BY <1>3, FS_Subset, FS_CardinalityType, ReplicatorAssumption
<1>5. PICK s \in [1 .. Cardinality(found) -> found] :
        /\ \A i, j \in DOMAIN s : s[i] = s[j] => i = j
        /\ mb' = [pc |-> IF mb.tier = Len(ScanOrder) THEN "install" ELSE "scan",
                  tier |-> IF mb.tier = Len(ScanOrder) THEN 1 ELSE mb.tier + 1,
                  cands |-> mb.cands \o s]
  BY DEF ScanTier
<1>6. Len(ScanOrder) = 2
  BY DEF ScanOrder
<1> HIDE DEF found
<1>7. s \in Seq(Blocks)
  BY <1>3, <1>4
<1>8. /\ mb'.cands = mb.cands \o s
      /\ mb.tier = 1 => mb'.pc = "scan" /\ mb'.tier = 2
      /\ mb.tier = 2 => mb'.pc = "install"
  BY <1>1, <1>5, <1>6, SMTT(40)
<1>9. \A b \in found : Among(b, mb.cands \o s)
  BY <1>1, <1>4, <1>5, <1>7, ListsAll, AmongJoined
<1>10. \A b : Among(b, mb.cands) => Among(b, mb.cands \o s)
  BY <1>1, <1>7, AmongJoined
<1>11. ASSUME NEW d \in hist.due, d[1] \notin hist.moved
       PROVE  Met(d[1])'
  <2>1. d[1] \in Held /\ Self \in Route(d[1])
    BY DEF CoverInv, DueOK
  <2>2. CASE mb.tier = 1
    <3>1. d[1] \in store["DRAM"] => d[1] \in found
      BY <1>2, <2>1, <2>2 DEF found
    <3>2. d[1] \notin store["DRAM"] => OnSsdOnly(d[1])'
      BY <1>1, <2>1 DEF Held, OnSsdOnly
    <3> QED
      BY <1>8, <1>9, <2>2, <3>1, <3>2 DEF Met
  <2>3. CASE mb.tier = 2
    <3>1. Among(d[1], mb.cands) \/ OnSsdOnly(d[1])
      BY <1>1, <1>11, <2>3 DEF CoverInv, MetOK, Met
    <3>2. OnSsdOnly(d[1]) => d[1] \in found
      BY <1>2, <2>1, <2>3 DEF found, OnSsdOnly
    <3>3. Among(d[1], mb'.cands)
      BY <1>8, <1>9, <1>10, <3>1, <3>2
    <3> QED
      BY <1>8, <2>3, <3>3 DEF Met, Among
  <2> QED
    BY <1>1, <2>2, <2>3
<1>12. mb'.pc \in {"scan", "install"}
  BY <1>1, <1>8
<1>13. DueOK' /\ HistTyped'
  BY <1>1 DEF CoverInv, DueOK, HistTyped, Held, Route, RouteIn, Nearer, Targets
<1>14. DrainOK'
  BY <1>12 DEF DrainOK
<1> QED
  BY <1>1, <1>11, <1>13, <1>14 DEF CoverInv, MetOK

\* The candidates become the round, all of it ahead of the cursor.
LEMMA InstallCovers ==
  ASSUME IndInv, CoverInv, InstallRound
  PROVE  CoverInv'
<1>1. /\ UNCHANGED <<store, ring, dr, hist>> /\ mb.pc = "install" /\ mb'.pc = "gauge"
      /\ round' = mb.cands /\ cursor' = 1 /\ active' = (mb.cands # <<>>) /\ dr.by = "none"
  BY DEF InstallRound, IndInv, MemberTyped
<1>2. mb.cands \in Seq(Blocks) /\ dr.pc = "loop"
  BY <1>1 DEF IndInv, MemberTyped, DrainTyped
<1>3. ASSUME NEW d \in hist.due, d[1] \notin hist.moved
      PROVE  Met(d[1])'
  <2>1. Among(d[1], mb.cands)
    BY <1>1, <1>3 DEF CoverInv, MetOK, Met
  <2>2. PICK i \in 1 .. Len(mb.cands) : mb.cands[i] = d[1]
    BY <1>2, <2>1 DEF Among
  <2>3. mb.cands # <<>> /\ i \in cursor' .. Len(round')
    BY <1>1, <1>2, <2>2
  <2>4. Pending(d[1])'
    BY <1>1, <2>2, <2>3 DEF Pending
  <2> QED
    BY <1>1, <2>4 DEF Met
<1>4. DueOK' /\ HistTyped'
  BY <1>1 DEF CoverInv, DueOK, HistTyped, Held, Route, RouteIn, Nearer, Targets
<1>5. DrainOK'
  BY <1>1, <1>2 DEF DrainOK
<1> QED
  BY <1>1, <1>3, <1>4, <1>5 DEF CoverInv, MetOK

\* Steps past the installation of a round that keep it and the cursor: what was
\* pending still is.
LEMMA RoundKept ==
  ASSUME CoverInv, UNCHANGED <<store, ring, round, cursor, active, hist>>,
         mb.pc \notin {"scan", "install"} <=> mb'.pc \notin {"scan", "install"},
         mb.pc \in {"scan", "install"} => mb' = mb, DrainOK'
  PROVE  CoverInv'
<1>1. DueOK' /\ HistTyped'
  BY DEF CoverInv, DueOK, HistTyped, Held, Route, RouteIn, Nearer, Targets
<1>2. ASSUME NEW d \in hist.due, d[1] \notin hist.moved
      PROVE  Met(d[1])'
  <2>1. Met(d[1])
    BY <1>2 DEF CoverInv, MetOK
  <2> QED
    BY <2>1 DEF Met, Pending, OnSsdOnly
<1> QED
  BY <1>1, <1>2 DEF CoverInv, MetOK

\* Publishing the gauge (TriggerReReplication, its last statement before the kick) leaves the round alone.
LEMMA RecordCovers ==
  ASSUME IndInv, CoverInv, RecordRound
  PROVE  CoverInv'
<1>1. /\ UNCHANGED <<store, ring, round, cursor, active, dr, hist>>
      /\ mb.pc = "gauge" /\ mb'.pc = "kick"
  BY DEF RecordRound, IdleMember
<1>2. DrainOK'
  BY <1>1 DEF CoverInv, DrainOK, OnSsdOnly
<1> QED
  BY <1>1, <1>2, RoundKept

\* The sweep's call of DrainReReplication starts with the round as it stands.
LEMMA SweepCovers ==
  ASSUME IndInv, CoverInv, SweepBegins
  PROVE  CoverInv'
<1>1. UNCHANGED <<store, ring, mb, round, cursor, active, hist>> /\ dr'.pc = "loop"
  BY DEF SweepBegins, NoDrain
<1>2. DrainOK'
  BY <1>1 DEF DrainOK
<1> QED
  BY <1>1, <1>2, RoundKept

\* The drain that TriggerReReplication kicks starts with the round as it stands.
LEMMA KickCovers ==
  ASSUME IndInv, CoverInv, KickBegins
  PROVE  CoverInv'
<1>1. /\ UNCHANGED <<store, ring, round, cursor, active, hist>>
      /\ mb.pc = "kick" /\ dr.by = "none"
      /\ dr' = (IF active THEN [NoDrain EXCEPT !.by = "member"] ELSE dr)
      /\ mb' = (IF active THEN [mb EXCEPT !.pc = "kicked"] ELSE IdleMember)
  BY DEF KickBegins
<1>2. dr.pc = "loop"
  BY <1>1 DEF IndInv, DrainTyped
<1>3. dr'.pc = "loop"
  BY <1>1, <1>2 DEF NoDrain
<1>4. mb'.pc \in {"kicked", "idle"}
  BY <1>1 DEF IndInv, MemberTyped, IdleMember
<1>5. DrainOK'
  BY <1>3 DEF DrainOK
<1> QED
  BY <1>1, <1>4, <1>5, RoundKept

\* The cursor passes a block that is not owed, or not any more.
LEMMA PassedOver ==
  ASSUME IndInv, CoverInv, UNCHANGED <<store, ring, mb, round, active>>, HistTyped',
         hist'.due \subseteq hist.due, hist'.moved = hist.moved,
         cursor' = cursor + 1, cursor <= Len(round), dr'.pc = "loop",
         mb.pc \notin {"scan", "install"} =>
           \A d \in hist'.due : d[1] \notin hist.moved => d[1] # round[cursor]
  PROVE  CoverInv'
<1>1. cursor \in Nat /\ Len(round) \in Nat
  BY SMTT(40) DEF IndInv, TypeOK
<1>2. DueOK'
  BY DEF CoverInv, DueOK, Held, Route, RouteIn, Nearer, Targets
<1>3. DrainOK'
  BY DEF DrainOK
<1>4. ASSUME NEW d \in hist'.due, d[1] \notin hist'.moved
      PROVE  Met(d[1])'
  <2>1. Met(d[1])
    BY <1>4 DEF CoverInv, MetOK
  <2>2. CASE mb.pc \in {"scan", "install"}
    BY <2>1, <2>2 DEF Met, OnSsdOnly
  <2>3. CASE mb.pc \notin {"scan", "install"}
    <3>1. PICK i \in cursor .. Len(round) : round[i] = d[1]
      BY <2>1, <2>3 DEF Met, Pending
    <3>2. active /\ i # cursor
      BY <1>4, <2>1, <2>3, <3>1 DEF Met, Pending
    <3>3. i \in cursor' .. Len(round')
      BY <1>1, <3>1, <3>2, SMTT(40)
    <3>4. active' /\ round'[i] = d[1]
      BY <3>1, <3>2
    <3> QED
      BY <2>3, <3>3, <3>4 DEF Met, Pending
  <2> QED
    BY <2>2, <2>3
<1> QED
  BY <1>2, <1>3, <1>4 DEF CoverInv, MetOK

\* DrainReReplication steps over a block that no other node of the route needs.
LEMMA DrainCoveredCovers ==
  ASSUME IndInv, CoverInv, DrainCovered
  PROVE  CoverInv'
<1>1. /\ UNCHANGED <<store, ring, mb, round, active, dr, hist>> /\ cursor' = cursor + 1
      /\ cursor <= Len(round) /\ dr.pc = "loop" /\ Targets(round[cursor]) = {}
  BY DEF DrainCovered, MoreToDrain
<1>2. HistTyped' /\ \A d \in hist.due : d[1] # round[cursor]
  BY <1>1 DEF CoverInv, HistTyped, DueOK
<1> QED
  BY <1>1, <1>2, PassedOver

\* DrainReReplication finds room for a block's pushes and goes on to push them.
LEMMA DrainHasRoomCovers ==
  ASSUME IndInv, CoverInv, DrainHasRoom
  PROVE  CoverInv'
<1> DEFINE T == Targets(round[cursor])
<1>1. UNCHANGED <<store, ring, mb, round, cursor, active, hist>>
  BY DEF DrainHasRoom
<1>2. dr'.pc = "end" \/ (dr'.pc = "get" /\ dr'.targets = T)
  BY DEF DrainHasRoom, IndInv, DrainTyped
<1>3. \A d \in hist.due : d[1] = round[cursor] => d[2] \in T
  BY DEF CoverInv, DueOK
<1> HIDE DEF T
<1>4. DrainOK'
  BY <1>1, <1>2, <1>3 DEF DrainOK
<1> QED
  BY <1>1, <1>4, RoundKept

\* A block that is owed and has not moved is found, in DRAM or then on the SSD.
LEMMA DrainGetCovers ==
  ASSUME IndInv, CoverInv, DrainGet
  PROVE  CoverInv'
<1> DEFINE found == round[cursor] \in store[IF dr.pc = "get" THEN "DRAM" ELSE "SSD"]
<1>1. UNCHANGED <<store, ring, mb, round, active, hist>> /\ dr.pc \in {"get", "getssd"}
  BY DEF DrainGet
<1>2. dr \in [by : {"none", "sweep", "member"}, pc : {"loop", "get", "getssd", "push", "end"},
              targets : SUBSET Peers, count : Nat] /\ cursor <= Len(round)
  BY <1>1 DEF IndInv, DrainTyped
<1>3. CASE found /\ dr' = [dr EXCEPT !.pc = "push"] /\ UNCHANGED cursor
  <2>1. dr'.pc = "push" /\ dr'.targets = dr.targets
    BY <1>2, <1>3
  <2>2. DrainOK'
    BY <1>1, <1>3, <2>1 DEF CoverInv, DrainOK
  <2> QED
    BY <1>1, <1>3, <2>2, RoundKept
<1>4. CASE ~found /\ dr.pc = "get" /\ dr' = [dr EXCEPT !.pc = "getssd"] /\ UNCHANGED cursor
  <2>1. dr'.pc = "getssd" /\ dr'.targets = dr.targets
    BY <1>2, <1>4
  <2>2. \A d \in hist.due : d[1] = round[cursor] => OnSsdOnly(d[1])
    BY <1>4 DEF CoverInv, DueOK, Held, OnSsdOnly
  <2>3. DrainOK'
    BY <1>1, <1>4, <2>1, <2>2 DEF CoverInv, DrainOK, OnSsdOnly
  <2> QED
    BY <1>1, <1>4, <2>3, RoundKept
<1>5. CASE /\ ~found /\ dr.pc = "getssd" /\ dr' = [dr EXCEPT !.pc = "loop", !.targets = {}]
           /\ cursor' = cursor + 1
  <2>1. dr'.pc = "loop" /\ HistTyped'
    BY <1>1, <1>2, <1>5 DEF CoverInv, HistTyped
  <2>2. mb.pc \notin {"scan", "install"} =>
           \A d \in hist.due : d[1] \notin hist.moved => d[1] # round[cursor]
    BY <1>5 DEF CoverInv, DrainOK, OnSsdOnly
  <2> QED
    BY <1>1, <1>2, <1>5, <2>1, <2>2, PassedOver
<1> QED
  BY <1>3, <1>4, <1>5 DEF DrainGet

\* The pushes of a block end what is owed of it.
LEMMA DrainPushCovers ==
  ASSUME IndInv, CoverInv, DrainPush
  PROVE  CoverInv'
<1> DEFINE pairs == {round[cursor]} \X dr.targets
<1>1. /\ UNCHANGED <<store, ring, mb, round, active>> /\ dr.pc = "push"
      /\ cursor' = cursor + 1 /\ hist' = [hist EXCEPT !.due = @ \ pairs]
  BY DEF DrainPush, Enqueued
<1>2. cursor <= Len(round) /\ dr'.pc = "loop"
  BY <1>1 DEF DrainPush, IndInv, DrainTyped
<1>3. HistTyped' /\ hist'.due = hist.due \ pairs /\ hist'.moved = hist.moved
  <2> HIDE DEF pairs
  <2> QED
    BY <1>1 DEF CoverInv, HistTyped
<1>4. ASSUME mb.pc \notin {"scan", "install"}, NEW d \in hist'.due
      PROVE  d[1] # round[cursor]
  <2>1. d \in hist.due /\ d \notin pairs /\ d = <<d[1], d[2]>>
    BY <1>3, SMTT(40) DEF CoverInv, HistTyped
  <2>2. d[1] = round[cursor] => d[2] \in dr.targets
    BY <1>1, <1>4, <2>1 DEF CoverInv, DrainOK
  <2>3. d[1] = round[cursor] /\ d[2] \in dr.targets => <<d[1], d[2]>> \in pairs
    OBVIOUS
  <2> QED
    BY <2>1, <2>2, <2>3
<1> HIDE DEF pairs
<1> QED
  BY <1>1, <1>2, <1>3, <1>4, PassedOver

\* A drain that ends before the end of the round leaves it active.
LEMMA DrainEndsCovers ==
  ASSUME IndInv, CoverInv, KickOK, DrainEnds
  PROVE  CoverInv'
<1>1. /\ UNCHANGED <<store, ring, round, cursor, hist>> /\ dr'.pc = "loop"
      /\ active' = (cursor <= Len(round)) /\ dr.by # "none"
      /\ mb' = (IF dr.by = "member" THEN IdleMember ELSE mb)
  BY DEF DrainEnds, NoDrain
<1>2. cursor \in Nat /\ Len(round) \in Nat
  BY DEF IndInv, TypeOK
<1>3. dr.by = "member" => mb.pc = "kicked"
  BY <1>1 DEF KickOK
<1>4. DueOK' /\ HistTyped'
  BY <1>1 DEF CoverInv, DueOK, HistTyped, Held, Route, RouteIn, Nearer, Targets
<1>5. DrainOK'
  BY <1>1 DEF DrainOK
<1>6. mb' = mb \/ (mb.pc = "kicked" /\ mb'.pc = "idle")
  BY <1>1, <1>3 DEF IdleMember
<1>7. ASSUME NEW d \in hist.due, d[1] \notin hist.moved
      PROVE  Met(d[1])'
  <2>1. Met(d[1])
    BY <1>7 DEF CoverInv, MetOK
  <2>2. CASE mb.pc \in {"scan", "install"}
    BY <1>1, <1>6, <2>1, <2>2 DEF Met, OnSsdOnly
  <2>3. CASE mb.pc \notin {"scan", "install"}
    <3>1. PICK i \in cursor .. Len(round) : round[i] = d[1]
      BY <2>1, <2>3 DEF Met, Pending
    <3>2. active'
      <4>1. cursor <= Len(round)
        BY <1>2, <3>1
      <4> QED
        BY <1>1, <4>1
    <3>3. Pending(d[1])'
      BY <1>1, <3>1, <3>2 DEF Pending
    <3> QED
      BY <1>6, <2>3, <3>3 DEF Met
  <2> QED
    BY <2>2, <2>3
<1> QED
  BY <1>1, <1>4, <1>5, <1>7 DEF CoverInv, MetOK

\* The drain that a membership change kicks is over before OnMembershipChange returns.
LEMMA NextKeepsKickOK ==
  ASSUME IndInv, KickOK, [Next]_vars
  PROVE  KickOK'
<1>1. CASE UNCHANGED <<mb, dr>>
  BY <1>1 DEF KickOK
<1>2. CASE dr' = NoDrain
  BY <1>2 DEF KickOK, NoDrain
<1>3. CASE UNCHANGED dr /\ mb.pc # "kicked"
  BY <1>3 DEF KickOK
<1>4. CASE KickBegins
  BY <1>4 DEF KickBegins, KickOK, NoDrain, IndInv, MemberTyped
<1>5. CASE UNCHANGED mb /\ (dr'.by = dr.by \/ dr'.by = "sweep")
  BY <1>5 DEF KickOK
<1>6. CASE SweepBegins \/ DrainHasRoom \/ DrainGet \/ DrainPush
  <2>1. dr \in [by : {"none", "sweep", "member"}, pc : {"loop", "get", "getssd", "push", "end"},
                targets : SUBSET Peers, count : Nat]
    BY DEF IndInv, DrainTyped
  <2>2. UNCHANGED mb /\ (dr'.by = dr.by \/ dr'.by = "sweep")
    <3>1. CASE SweepBegins
      BY <3>1 DEF SweepBegins, NoDrain
    <3>2. CASE DrainHasRoom
      BY <2>1, <3>2 DEF DrainHasRoom
    <3>3. CASE DrainGet
      BY <2>1, <3>3 DEF DrainGet
    <3>4. CASE DrainPush
      BY <2>1, <3>4 DEF DrainPush
    <3> QED
      BY <1>6, <3>1, <3>2, <3>3, <3>4
  <2> QED
    BY <2>2, <1>5
<1>7. CASE DrainEnds
  BY <1>7, <1>2 DEF DrainEnds
<1>8. CASE ScanTier \/ InstallRound \/ RecordRound
  BY <1>8, <1>3 DEF ScanTier, InstallRound, RecordRound
<1>9. CASE \E p \in Peers : Lose(p) \/ Return(p)
  BY <1>9, <1>1, <1>3 DEF Lose, Return
<1>10. CASE \/ UNCHANGED vars \/ DrainCovered
            \/ \E h \in Handlers : HandlerStep(h) \/ \E b \in Blocks : Insert(h, b)
            \/ \E w \in Workers : WorkerStep(w)
            \/ \E b \in Blocks : Evict(b) \/ \E t \in Tiers : CopyTo(t, b) \/ DropFrom(t, b)
  BY <1>10, <1>1 DEF vars, DrainCovered, HandlerStep, Insert, ReadRoute, ReplicateOut,
     WorkerStep, TakeTask, SendReturns, Evict, CopyTo, DropFrom
<1> QED
  BY <1>4, <1>6, <1>7, <1>8, <1>9, <1>10 DEF Next, TriggerStep, DrainStep

\* No round is pending when the node starts.
LEMMA CoverInit == Init => CoverInv /\ KickOK
<1> SUFFICES ASSUME Init
             PROVE  CoverInv /\ KickOK
  OBVIOUS
<1>1. hist = [due |-> {}, moved |-> {}, inserts |-> 0, changes |-> 0, moves |-> 0]
  BY DEF Init
<1>2. HistTyped
  BY <1>1, SMTT(40) DEF HistTyped
<1>3. hist.due = {}
  BY <1>1
<1>4. DueOK /\ MetOK /\ DrainOK
  BY <1>3 DEF DueOK, MetOK, DrainOK
<1>5. KickOK
  BY SMTT(40) DEF Init, NoDrain, KickOK
<1> QED
  BY <1>2, <1>4, <1>5 DEF CoverInv

\* Every step keeps what is due either still in the round or moved to another tier.
LEMMA NextKeepsCover ==
  ASSUME IndInv, CoverInv, KickOK, [Next]_vars
  PROVE  CoverInv'
<1>1. CASE UNCHANGED vars
  <2>1. UNCHANGED <<store, ring, mb, round, cursor, active, dr, hist>>
    BY <1>1 DEF vars
  <2>2. HistTyped' /\ Held' = Held /\ \A b : OnSsdOnly(b)' = OnSsdOnly(b)
    BY <2>1 DEF CoverInv, HistTyped, Held, OnSsdOnly
  <2>3. \A d \in hist.due : d[1] \in Held
    BY DEF CoverInv, DueOK
  <2> QED
    BY <2>1, <2>2, <2>3, CoverKept
<1>2. ASSUME NEW h \in Handlers, HandlerStep(h) \/ \E b \in Blocks : Insert(h, b)
      PROVE  CoverInv'
  BY <1>2, InsertCovers, ReadRouteCovers, ReplicateOutCovers DEF HandlerStep
<1>3. ASSUME NEW w \in Workers, WorkerStep(w)
      PROVE  CoverInv'
  BY <1>3, WorkersCover
<1>4. CASE TriggerStep
  BY <1>4, ScanTierCovers, InstallCovers, RecordCovers, KickCovers DEF TriggerStep
<1>5. CASE DrainStep
  BY <1>5, SweepCovers, DrainCoveredCovers, DrainHasRoomCovers, DrainGetCovers,
     DrainPushCovers, DrainEndsCovers DEF DrainStep
<1>6. ASSUME NEW p \in Peers, Lose(p) \/ Return(p)
      PROVE  CoverInv'
  BY <1>6, LoseCovers, ReturnCovers
<1>7. ASSUME NEW b \in Blocks, Evict(b) \/ \E t \in Tiers : CopyTo(t, b) \/ DropFrom(t, b)
      PROVE  CoverInv'
  BY <1>7, EvictCovers, CopyToCovers, DropFromCovers
<1> QED
  BY <1>1, <1>2, <1>3, <1>4, <1>5, <1>6, <1>7 DEF Next

\* When the trigger, the drain and the round are at rest, every push the last
\* loss of a peer called for has been enqueued, but for blocks that changed tier
\* meanwhile: for any queue limit, any number of workers and handlers, any
\* rings and any routes (TriggerReReplication, DrainReReplication).
THEOREM RoundCoversHolds == Spec => []RoundCovers
<1>1. IndInv /\ CoverInv => RoundCovers
  BY DEF CoverInv, MetOK, Met, Pending, RoundCovers, Quiet
<1>2. IndInv /\ CoverInv /\ KickOK /\ [Next]_vars => (CoverInv /\ KickOK)'
  BY NextKeepsCover, NextKeepsKickOK
<1> QED
  BY <1>1, <1>2, InitIndInv, NextKeepsIndInv, CoverInit, PTL DEF Spec
=============================================================================
