------------------------------ MODULE Membership ------------------------------
(***************************************************************************)
(* Failure detection at one node (cache_server/src/membership.cpp).  The   *)
(* heartbeat thread HB sends heartbeats to the seed peers, refreshes the   *)
(* peers that answered, declares the silent ones dead and sleeps; gRPC     *)
(* handlers refresh the peers whose heartbeats come in.  Whoever changes   *)
(* the set of live peers then runs OnMembershipChange: bump the epoch,     *)
(* read the live set, install it in the Router, start re-replication.      *)
(* PeerInfo is refreshed under mu_, but the four steps of                  *)
(* OnMembershipChange take no common lock, so two threads may be inside it *)
(* together.                                                               *)
(*                                                                         *)
(* Time is counted in heartbeat intervals: age[p] is now - last_seen,      *)
(* capped once past DeadAfter.  A status is the pair (alive, suspected):   *)
(* a dead peer is always suspected too.  last_seen_epoch is left out,      *)
(* nothing in the server or the client reads it.                           *)
(***************************************************************************)
EXTENDS Integers, FiniteSets

CONSTANTS
  Self,          \* local_node_id_
  Seeds,         \* the static peers, whose addresses are known
  Strangers,     \* nodes that send heartbeats and are not in the seed list
  HB,            \* the heartbeat thread
  Handlers,      \* the threads that run OnHeartbeat
  SuspectAfter,  \* suspect_after, in heartbeat intervals
  DeadAfter,     \* dead_after, in heartbeat intervals
  MaxFaults,     \* bound: crashes, lost heartbeats and stalls of a behaviour
  Overlap        \* may a change begin while another thread is inside one?

Peers == Seeds \cup Strangers
Threads == Handlers \cup {HB}

ASSUME MembershipAssumption ==
  /\ Self \notin Peers
  /\ HB \notin Handlers
  /\ SuspectAfter \in Nat /\ DeadAfter \in Nat /\ SuspectAfter <= DeadAfter
  /\ MaxFaults \in Nat
  /\ Overlap \in BOOLEAN

VARIABLES
  up,        \* the peers that are running: what the detector has to find out
  faults,    \* faults of the environment so far
  known,     \* the keys of peers_
  status,    \* PeerInfo::alive and ::suspected
  ever,      \* PeerInfo::ever_seen, as a set
  age,       \* now - PeerInfo::last_seen
  epoch,     \* epoch_
  ring,      \* the peers of the Router
  th         \* where each thread is

vars == <<up, faults, known, status, ever, age, epoch, ring, th>>
peerInfo == <<known, status, ever, age>>

AlivePeers == {p \in known : status[p] # "dead"}

\* The steps of OnMembershipChange still ahead of a thread.
Changing == {"bump", "read", "install", "trigger"}

\* A thread at pc, with the peers it has just heard from.
Hearing(pc, S) == [pc |-> pc, heard |-> S, lost |-> {}, list |-> {}, then |-> "idle"]
At(pc) == Hearing(pc, {})

\* A thread inside OnMembershipChange(lost), called from code that goes on at
\* pc then; list is alive_ids.
Inside(pc, lost, list, then) ==
  [pc |-> pc, heard |-> {}, lost |-> lost, list |-> list, then |-> then]

Init ==
  /\ up \in SUBSET Peers
  /\ faults = 0
  /\ known = Seeds
  /\ status = [p \in Peers |-> "alive"]
  /\ ever = {}
  /\ age = [p \in Peers |-> 0]
  /\ epoch = 0
  /\ ring = {Self} \cup Seeds
  /\ th = [t \in Threads |-> IF t = HB THEN At("send") ELSE At("idle")]

-----------------------------------------------------------------------------
\* The environment: peers die and come back, time passes.

Crash(p) ==
  /\ p \in up /\ faults < MaxFaults
  /\ up' = up \ {p}
  /\ faults' = faults + 1
  /\ UNCHANGED <<peerInfo, epoch, ring, th>>

Recover(p) ==
  /\ p \notin up
  /\ up' = up \cup {p}
  /\ UNCHANGED <<faults, peerInfo, epoch, ring, th>>

Older == [p \in Peers |-> IF age[p] > DeadAfter THEN age[p] ELSE age[p] + 1]

\* An interval passes while the heartbeat thread is busy, not asleep.
Stall ==
  /\ th[HB].pc # "sleep" /\ faults < MaxFaults
  /\ age' = Older
  /\ faults' = faults + 1
  /\ UNCHANGED <<up, known, status, ever, epoch, ring, th>>

-----------------------------------------------------------------------------
\* The threads.

\* A change of the live set is followed by OnMembershipChange(lost), and the
\* thread then goes on at pc.
Change(t, lost, pc) ==
  /\ Overlap \/ \A u \in Threads \ {t} : th[u].pc \notin Changing
  /\ th' = [th EXCEPT ![t] = Inside("bump", lost, {}, pc)]

\* The wait_for of the heartbeat loop runs out.
WakeUp ==
  /\ th[HB].pc = "sleep"
  /\ age' = Older
  /\ th' = [th EXCEPT ![HB] = At("send")]
  /\ UNCHANGED <<up, faults, known, status, ever, epoch, ring>>

\* Mutant of SendHeartbeats: peers held dead are not tried again.
SendHeartbeatsToAlive ==
  /\ th[HB].pc = "send"
  /\ th' = [th EXCEPT ![HB] = Hearing("replies", Seeds \cap up \cap AlivePeers)]
  /\ UNCHANGED <<up, faults, peerInfo, epoch, ring>>

\* One heartbeat to every peer with an address, dead ones included.  The
\* replies of running peers may miss the deadline: that is a fault.
SendHeartbeats ==
  /\ th[HB].pc = "send"
  /\ \E late \in SUBSET (Seeds \cap up) :
       /\ late # {} => faults < MaxFaults
       /\ faults' = faults + (IF late = {} THEN 0 ELSE 1)
       /\ th' = [th EXCEPT ![HB] = Hearing("replies", (Seeds \cap up) \ late)]
  /\ UNCHANGED <<up, peerInfo, epoch, ring>>

\* What a successful heartbeat in either direction does to PeerInfo.
Refresh(S) ==
  /\ known' = known \cup S
  /\ status' = [p \in Peers |-> IF p \in S THEN "alive" ELSE status[p]]
  /\ ever' = ever \cup S
  /\ age' = [p \in Peers |-> IF p \in S THEN 0 ELSE age[p]]

Resurrects(S) == \E p \in S : status[p] = "dead"

\* Mutant of HearReplies: a reply brings a dead peer back without a change.
HearRepliesQuietly ==
  /\ th[HB].pc = "replies"
  /\ Refresh(th[HB].heard)
  /\ th' = [th EXCEPT ![HB] = At("evaluate")]
  /\ UNCHANGED <<up, faults, epoch, ring>>

\* The thread has the successful replies and refreshes their peers under mu_.
HearReplies ==
  /\ th[HB].pc = "replies"
  /\ Refresh(th[HB].heard)
  /\ IF Resurrects(th[HB].heard)
     THEN Change(HB, {}, "evaluate")
     ELSE th' = [th EXCEPT ![HB] = At("evaluate")]
  /\ UNCHANGED <<up, faults, epoch, ring>>

\* Mutant of Watched: a suspected peer is not looked at again.
WatchedUnsuspected(p) == p \in known /\ p \in ever /\ status[p] = "alive"

\* A peer that was never reached is alive by assumption.
Watched(p) == p \in known /\ p \in ever /\ status[p] # "dead"

Verdict(p) ==
  IF age[p] > DeadAfter THEN "dead"
  ELSE IF age[p] > SuspectAfter THEN "suspected" ELSE "alive"

EvaluateSuspicions ==
  LET lost == {p \in Peers : Watched(p) /\ Verdict(p) = "dead"} IN
  /\ th[HB].pc = "evaluate"
  /\ status' = [p \in Peers |-> IF Watched(p) THEN Verdict(p) ELSE status[p]]
  /\ IF lost # {} THEN Change(HB, lost, "sleep")
     ELSE th' = [th EXCEPT ![HB] = At("sleep")]
  /\ UNCHANGED <<up, faults, known, ever, age, epoch, ring>>

\* A running peer's heartbeat reaches a free handler, which may be slow.
Arrive(h, p) ==
  /\ th[h].pc = "idle" /\ p \in up
  /\ th' = [th EXCEPT ![h] = Hearing("arrived", {p})]
  /\ UNCHANGED <<up, faults, peerInfo, epoch, ring>>

OnHeartbeat(h) ==
  /\ th[h].pc = "arrived"
  /\ Refresh(th[h].heard)
  /\ IF Resurrects(th[h].heard)
     THEN Change(h, {}, "idle")
     ELSE th' = [th EXCEPT ![h] = At("idle")]
  /\ UNCHANGED <<up, faults, epoch, ring>>

\* Mutant of ReadAlive: the list is not filtered by info.alive.
ReadAll(t) ==
  /\ th[t].pc = "read"
  /\ th' = [th EXCEPT ![t] = Inside("install", th[t].lost, {Self} \cup known, th[t].then)]
  /\ UNCHANGED <<up, faults, peerInfo, epoch, ring>>

\* OnMembershipChange, step by step.
BumpEpoch(t) ==
  /\ th[t].pc = "bump"
  /\ epoch' = epoch + 1
  /\ th' = [th EXCEPT ![t] = Inside("read", th[t].lost, {}, th[t].then)]
  /\ UNCHANGED <<up, faults, peerInfo, ring>>

ReadAlive(t) ==
  /\ th[t].pc = "read"
  /\ th' = [th EXCEPT ![t] =
               Inside("install", th[t].lost, {Self} \cup AlivePeers, th[t].then)]
  /\ UNCHANGED <<up, faults, peerInfo, epoch, ring>>

Done(t) == th' = [th EXCEPT ![t] = At(th[t].then)]

SetPeers(t) ==
  /\ th[t].pc = "install"
  /\ ring' = th[t].list
  /\ IF th[t].lost # {}
     THEN th' = [th EXCEPT ![t] = Inside("trigger", th[t].lost, {}, th[t].then)]
     ELSE Done(t)
  /\ UNCHANGED <<up, faults, peerInfo, epoch>>

TriggerReReplication(t) ==
  /\ th[t].pc = "trigger"
  /\ Done(t)
  /\ UNCHANGED <<up, faults, peerInfo, epoch, ring>>

OnMembershipChange(t) == BumpEpoch(t) \/ ReadAlive(t) \/ SetPeers(t) \/ TriggerReReplication(t)

Heartbeat == WakeUp \/ SendHeartbeats \/ HearReplies \/ EvaluateSuspicions

Next ==
  \/ \E p \in Peers : Crash(p) \/ Recover(p)
  \/ Stall
  \/ Heartbeat
  \/ \E h \in Handlers : OnHeartbeat(h) \/ \E p \in Peers : Arrive(h, p)
  \/ \E t \in Threads : OnMembershipChange(t)

Spec == Init /\ [][Next]_vars

\* Every thread is scheduled; whether a peer's own heartbeats arrive is not
\* up to this node, so Arrive has no fairness.
FairSpec ==
  /\ Spec
  /\ WF_vars(Heartbeat)
  /\ \A h \in Handlers : WF_vars(OnHeartbeat(h))
  /\ \A t \in Threads : WF_vars(OnMembershipChange(t))

-----------------------------------------------------------------------------
\* Properties.

ThreadStates ==
  [pc : {"idle", "arrived", "send", "replies", "evaluate", "sleep"} \cup Changing,
   heard : SUBSET Peers, lost : SUBSET Peers, list : SUBSET (Peers \cup {Self}),
   then : {"idle", "evaluate", "sleep"}]

\* Every variable stays in its range, and no thread leaves its own code: the
\* heartbeat thread is always in its loop, a handler only ever in its call.
TypeOK ==
  /\ up \in SUBSET Peers
  /\ faults \in 0 .. MaxFaults
  /\ known \in SUBSET Peers
  /\ status \in [Peers -> {"alive", "suspected", "dead"}]
  /\ ever \in SUBSET known
  /\ age \in [Peers -> 0 .. DeadAfter + 1]
  /\ epoch \in Nat
  /\ ring \in SUBSET (Peers \cup {Self})
  /\ th \in [Threads -> ThreadStates]
  /\ th[HB].pc \notin {"idle", "arrived"}
  /\ th[HB].pc \in Changing => th[HB].then # "idle"
  /\ \A h \in Handlers : /\ th[h].pc \in {"idle", "arrived"} \cup Changing
                         /\ th[h].then = "idle"

NoChangeUnderWay == \A t \in Threads : th[t].pc \notin Changing

\* Once no thread is inside OnMembershipChange, the Router routes over the
\* local node and exactly the peers Membership holds alive.
RingMatchesAlive == NoChangeUnderWay => ring = {Self} \cup AlivePeers

\* Once detection completes no route points at a peer declared dead: the
\* ring handed to Router::SetPeers never brings one back.
NoStaleRouting == NoChangeUnderWay => \A p \in ring : p = Self \/ status[p] # "dead"

\* When TriggerReReplication(lost) runs, the ring it computes new replicas
\* from has lost its dead peers: SetPeers comes first.
RoundSeesNewRing ==
  \A t \in Threads : th[t].pc = "trigger" =>
    \A p \in th[t].lost \cap ring : status[p] # "dead"

-----------------------------------------------------------------------------
(***************************************************************************)
(* The inductive invariant behind RingMatchesAlive and RoundSeesNewRing    *)
(* when changes come one at a time and every peer is a seed: one thread at *)
(* most is inside OnMembershipChange, and past its reading of the live set *)
(* what it carries or has installed is still that set.                     *)
(***************************************************************************)
OneChange ==
  \A t, u \in Threads : th[t].pc \in Changing /\ th[u].pc \in Changing => t = u

ChangeIsCurrent ==
  \A t \in Threads : /\ th[t].pc = "install" => th[t].list = {Self} \cup AlivePeers
                     /\ th[t].pc = "trigger" => ring = {Self} \cup AlivePeers

IndInv == TypeOK /\ known = Seeds /\ OneChange /\ ChangeIsCurrent /\ RingMatchesAlive

-----------------------------------------------------------------------------
\* A peer that stays down after it was once seen is routed around for good:
\* its silence outlasts dead_after, and the ring is rebuilt without it.
DeathIsDetected ==
  \A p \in Seeds : <>[](p \notin up /\ p \in ever) => <>[](p \notin ring)

\* A seed peer that stays up is routed to for good: either direction of
\* heartbeat brings it back, and the ring is rebuilt with it.
ReturnIsNoticed == \A p \in Seeds : <>[](p \in up) => <>[](p \in ring)
=============================================================================
