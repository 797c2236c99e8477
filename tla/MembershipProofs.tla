--------------------------- MODULE MembershipProofs ---------------------------
(***************************************************************************)
(* Proofs about Membership, for any seed list, any number of handlers and  *)
(* any timeouts.                                                           *)
(***************************************************************************)
EXTENDS Membership, TLAPS

\* The heartbeat thread is none of the handlers.
LEMMA HBIsThread == HB \in Threads /\ HB \notin Handlers /\ Handlers \subseteq Threads
  BY MembershipAssumption DEF Threads

\* The records that the actions give a thread are thread states.
LEMMA StatesOfThreads ==
  /\ \A S \in SUBSET Peers :
       /\ Hearing("replies", S) \in ThreadStates
       /\ Hearing("arrived", S) \in ThreadStates
  /\ \A pc \in {"idle", "send", "evaluate", "sleep"} : At(pc) \in ThreadStates
  /\ \A S \in SUBSET Peers, L \in SUBSET (Peers \cup {Self}) :
       \A pc \in Changing, then \in {"idle", "evaluate", "sleep"} :
         Inside(pc, S, L, then) \in ThreadStates
  BY DEF ThreadStates, Hearing, At, Inside, Changing

\* An interval more keeps every age in its range.
LEMMA OlderType == TypeOK => Older \in [Peers -> 0 .. DeadAfter + 1]
  BY MembershipAssumption DEF TypeOK, Older

\* The initial state has its types, and the Router starts with every seed.
LEMMA InitIndInv == Init => TypeOK /\ OneChange /\ ChangeIsCurrent /\ RingMatchesAlive
<1> SUFFICES ASSUME Init PROVE TypeOK /\ OneChange /\ ChangeIsCurrent /\ RingMatchesAlive
  OBVIOUS
<1>1. \A t \in Threads : th[t] \in ThreadStates /\ th[t].pc \notin Changing
  BY StatesOfThreads DEF Init, At, Hearing, Changing
<1>2. TypeOK
  <2>1. th \in [Threads -> ThreadStates] /\ th[HB].pc = "send"
    BY <1>1, HBIsThread DEF Init, At, Hearing
  <2>2. \A h \in Handlers : th[h].pc = "idle" /\ th[h].then = "idle"
    BY HBIsThread DEF Init, At, Hearing
  <2> QED
    BY <2>1, <2>2, MembershipAssumption DEF Init, TypeOK, Peers, Changing
<1>3. AlivePeers = Seeds
  BY DEF Init, AlivePeers, Peers
<1> QED
  BY <1>1, <1>2, <1>3 DEF Init, OneChange, ChangeIsCurrent, RingMatchesAlive, Changing

-----------------------------------------------------------------------------
\* The parts of TypeOK about threads, when one thread gets a new state.
LEMMA ThreadType ==
  ASSUME TypeOK, NEW t \in Threads, NEW new \in ThreadStates,
         th' = [th EXCEPT ![t] = new],
         IF t = HB THEN /\ new.pc \notin {"idle", "arrived"}
                        /\ new.pc \in Changing => new.then # "idle"
         ELSE new.pc \in {"idle", "arrived"} \cup Changing /\ new.then = "idle"
  PROVE  /\ th' \in [Threads -> ThreadStates]
         /\ th'[HB].pc \notin {"idle", "arrived"}
         /\ th'[HB].pc \in Changing => th'[HB].then # "idle"
         /\ \A h \in Handlers : /\ th'[h].pc \in {"idle", "arrived"} \cup Changing
                                /\ th'[h].then = "idle"
  BY HBIsThread DEF TypeOK

\* Hearing from peers keeps PeerInfo in its ranges.
LEMMA RefreshType ==
  ASSUME TypeOK, NEW S \in SUBSET Peers, Refresh(S)
  PROVE  /\ known' \in SUBSET Peers
         /\ status' \in [Peers -> {"alive", "suspected", "dead"}]
         /\ ever' \in SUBSET known'
         /\ age' \in [Peers -> 0 .. DeadAfter + 1]
  BY MembershipAssumption DEF TypeOK, Refresh

\* Every step keeps the types.
LEMMA NextKeepsTypeOK == TypeOK /\ [Next]_vars => TypeOK'
<1> SUFFICES ASSUME TypeOK, [Next]_vars PROVE TypeOK'
  OBVIOUS
<1>1. CASE \E p \in Peers : Crash(p) \/ Recover(p)
  BY <1>1, MembershipAssumption DEF Crash, Recover, TypeOK, peerInfo
<1>2. CASE Stall
  BY <1>2, OlderType, MembershipAssumption DEF Stall, TypeOK
<1>3. CASE WakeUp
  <2>1. th' = [th EXCEPT ![HB] = At("send")] /\ At("send").pc = "send"
    BY <1>3 DEF WakeUp, At, Hearing
  <2> QED
    BY <1>3, <2>1, ThreadType, HBIsThread, StatesOfThreads, OlderType
       DEF WakeUp, TypeOK, Changing
<1>4. CASE SendHeartbeats
  <2>1. PICK late \in SUBSET (Seeds \cap up) :
          /\ late # {} => faults < MaxFaults
          /\ faults' = faults + (IF late = {} THEN 0 ELSE 1)
          /\ th' = [th EXCEPT ![HB] = Hearing("replies", (Seeds \cap up) \ late)]
    BY <1>4 DEF SendHeartbeats
  <2>2. Hearing("replies", (Seeds \cap up) \ late) \in ThreadStates
    BY StatesOfThreads DEF Peers
  <2>3. Hearing("replies", (Seeds \cap up) \ late).pc = "replies"
    BY DEF Hearing
  <2>4. faults' \in 0 .. MaxFaults
    BY <2>1, MembershipAssumption DEF TypeOK
  <2> QED
    BY <1>4, <2>1, <2>2, <2>3, <2>4, ThreadType, HBIsThread
       DEF SendHeartbeats, TypeOK, Changing, peerInfo
<1>5. CASE HearReplies
  <2>1. th[HB].heard \in SUBSET Peers
    BY HBIsThread DEF TypeOK, ThreadStates
  <2>2. PICK new \in ThreadStates : /\ th' = [th EXCEPT ![HB] = new]
                                    /\ new.pc \in {"bump", "evaluate"}
                                    /\ new.pc = "bump" => new.then = "evaluate"
    <3>1. CASE Resurrects(th[HB].heard)
      BY <1>5, <3>1, StatesOfThreads DEF HearReplies, Change, Changing, Inside
    <3>2. CASE ~Resurrects(th[HB].heard)
      <4>1. th' = [th EXCEPT ![HB] = At("evaluate")]
        BY <1>5, <3>2 DEF HearReplies
      <4>2. At("evaluate") \in ThreadStates /\ At("evaluate").pc = "evaluate"
        BY StatesOfThreads DEF At, Hearing
      <4> QED
        BY <4>1, <4>2
    <3> QED
      BY <3>1, <3>2
  <2> QED
    BY <1>5, <2>1, <2>2, RefreshType, ThreadType, HBIsThread
       DEF HearReplies, TypeOK, Changing
<1>6. CASE EvaluateSuspicions
  <2> DEFINE lost == {p \in Peers : Watched(p) /\ Verdict(p) = "dead"}
  <2>1. PICK new \in ThreadStates : /\ th' = [th EXCEPT ![HB] = new]
                                    /\ new.pc \in {"bump", "sleep"}
                                    /\ new.pc = "bump" => new.then = "sleep"
    <3>1. CASE lost # {}
      BY <1>6, <3>1, StatesOfThreads DEF EvaluateSuspicions, Change, Changing, Inside
    <3>2. CASE lost = {}
      BY <1>6, <3>2, StatesOfThreads DEF EvaluateSuspicions, At, Hearing
    <3> QED
      BY <3>1, <3>2
  <2>2. status' \in [Peers -> {"alive", "suspected", "dead"}]
    BY <1>6 DEF EvaluateSuspicions, TypeOK, Verdict
  <2> QED
    BY <1>6, <2>1, <2>2, ThreadType, HBIsThread DEF EvaluateSuspicions, TypeOK, Changing
<1>7. ASSUME NEW h \in Handlers, NEW p \in Peers, Arrive(h, p) PROVE TypeOK'
  <2>1. /\ Hearing("arrived", {p}) \in ThreadStates
        /\ Hearing("arrived", {p}).pc = "arrived" /\ Hearing("arrived", {p}).then = "idle"
    BY StatesOfThreads DEF Hearing
  <2> QED
    BY <1>7, <2>1, ThreadType, HBIsThread DEF Arrive, TypeOK, Changing, peerInfo
<1>8. ASSUME NEW h \in Handlers, OnHeartbeat(h) PROVE TypeOK'
  <2>1. th[h].heard \in SUBSET Peers
    BY HBIsThread DEF TypeOK, ThreadStates
  <2>2. PICK new \in ThreadStates : /\ th' = [th EXCEPT ![h] = new]
                                    /\ new.pc \in {"bump", "idle"}
                                    /\ new.then = "idle"
    <3>1. CASE Resurrects(th[h].heard)
      <4>1. th' = [th EXCEPT ![h] = Inside("bump", {}, {}, "idle")]
        BY <1>8, <3>1 DEF OnHeartbeat, Change
      <4>2. Inside("bump", {}, {}, "idle") \in ThreadStates
        BY StatesOfThreads DEF Changing
      <4>3. /\ Inside("bump", {}, {}, "idle").pc = "bump"
            /\ Inside("bump", {}, {}, "idle").then = "idle"
        BY DEF Inside
      <4> QED
        BY <4>1, <4>2, <4>3
    <3>2. CASE ~Resurrects(th[h].heard)
      BY <1>8, <3>2, StatesOfThreads DEF OnHeartbeat, At, Hearing
    <3> QED
      BY <3>1, <3>2
  <2> QED
    BY <1>8, <2>1, <2>2, RefreshType, ThreadType, HBIsThread
       DEF OnHeartbeat, TypeOK, Changing
<1>9. ASSUME NEW t \in Threads, OnMembershipChange(t) PROVE TypeOK'
  <2>1. /\ t # HB => t \in Handlers
        /\ IF t = HB THEN th[t].then \in {"evaluate", "sleep"} ELSE th[t].then = "idle"
    BY <1>9 DEF Threads, OnMembershipChange, BumpEpoch, ReadAlive, SetPeers,
       TriggerReReplication, TypeOK, Changing, ThreadStates
  <2>2. /\ th[t].lost \in SUBSET Peers /\ th[t].list \in SUBSET (Peers \cup {Self})
        /\ {Self} \cup AlivePeers \in SUBSET (Peers \cup {Self})
    BY DEF TypeOK, ThreadStates, AlivePeers
  <2>3. ASSUME NEW pc \in Changing, NEW L \in SUBSET (Peers \cup {Self})
        PROVE  LET new == Inside(pc, th[t].lost, L, th[t].then)
               IN  new \in ThreadStates /\ new.pc = pc /\ new.then = th[t].then
    BY <2>1, <2>2, StatesOfThreads DEF Inside
  <2>4. /\ At(th[t].then) \in ThreadStates
        /\ At(th[t].then).pc = th[t].then /\ At(th[t].then).then = "idle"
    BY <2>1, StatesOfThreads DEF At, Hearing
  <2> DEFINE ThreadPart == /\ th \in [Threads -> ThreadStates]
                           /\ th[HB].pc \notin {"idle", "arrived"}
                           /\ th[HB].pc \in Changing => th[HB].then # "idle"
                           /\ \A h \in Handlers :
                                /\ th[h].pc \in {"idle", "arrived"} \cup Changing
                                /\ th[h].then = "idle"
  <2>a. ASSUME NEW pc \in Changing, NEW L \in SUBSET (Peers \cup {Self}),
               th' = [th EXCEPT ![t] = Inside(pc, th[t].lost, L, th[t].then)]
        PROVE  ThreadPart'
    <3>1. pc \notin {"idle", "arrived"}
      BY DEF Changing
    <3> DEFINE new == Inside(pc, th[t].lost, L, th[t].then)
    <3>2. new \in ThreadStates /\ new.pc = pc /\ new.then = th[t].then /\ th' = [th EXCEPT ![t] = new]
      BY <2>a, <2>3
    <3> HIDE DEF new
    <3>3. IF t = HB THEN /\ new.pc \notin {"idle", "arrived"}
                         /\ new.pc \in Changing => new.then # "idle"
          ELSE new.pc \in {"idle", "arrived"} \cup Changing /\ new.then = "idle"
      BY <2>1, <3>1, <3>2
    <3> QED
      BY <3>2, <3>3, ThreadType
  <2>b. ASSUME Done(t) PROVE ThreadPart'
    <3> DEFINE new == At(th[t].then)
    <3>1. th' = [th EXCEPT ![t] = new]
      BY <2>b DEF Done
    <3>2. new \in ThreadStates /\ new.pc = th[t].then /\ new.then = "idle"
      BY <2>4
    <3> HIDE DEF new
    <3>3. IF t = HB THEN /\ new.pc \notin {"idle", "arrived"}
                         /\ new.pc \in Changing => new.then # "idle"
          ELSE new.pc \in {"idle", "arrived"} \cup Changing /\ new.then = "idle"
      BY <2>1, <3>2 DEF Changing
    <3> QED
      BY <3>1, <3>2, <3>3, ThreadType
  <2>c. ASSUME ThreadPart', UNCHANGED <<up, faults, peerInfo>>,
               epoch' \in Nat, ring' \in SUBSET (Peers \cup {Self})
        PROVE  TypeOK'
    BY <2>c DEF TypeOK, peerInfo
  <2>d. epoch \in Nat /\ ring \in SUBSET (Peers \cup {Self})
    BY DEF TypeOK
  <2>e. /\ "read" \in Changing /\ "install" \in Changing /\ "trigger" \in Changing
        /\ {} \in SUBSET (Peers \cup {Self})
    BY DEF Changing
  <2> HIDE DEF ThreadPart
  <2>5. CASE BumpEpoch(t)
    <3>1. ThreadPart'
      BY <2>5, <2>a, <2>e DEF BumpEpoch
    <3> QED
      BY <2>5, <3>1, <2>c, <2>d DEF BumpEpoch
  <2>6. CASE ReadAlive(t)
    <3>1. ThreadPart'
      BY <2>6, <2>2, <2>a, <2>e DEF ReadAlive
    <3> QED
      BY <2>6, <3>1, <2>c, <2>d DEF ReadAlive
  <2>7. CASE SetPeers(t)
    <3>1. ThreadPart'
      BY <2>7, <2>a, <2>b, <2>e DEF SetPeers
    <3> QED
      BY <2>7, <3>1, <2>2, <2>c, <2>d DEF SetPeers
  <2>8. CASE TriggerReReplication(t)
    <3>1. ThreadPart'
      BY <2>8, <2>b DEF TriggerReReplication
    <3> QED
      BY <2>8, <3>1, <2>c, <2>d DEF TriggerReReplication
  <2> QED
    BY <1>9, <2>5, <2>6, <2>7, <2>8 DEF OnMembershipChange
<1>10. CASE UNCHANGED vars
  BY <1>10 DEF vars, TypeOK
<1> QED
  BY <1>1, <1>2, <1>3, <1>4, <1>5, <1>6, <1>7, <1>8, <1>9, <1>10 DEF Next, Heartbeat

\* The types hold in every reachable state, overlapping changes or not.
THEOREM TypeCorrect == Spec => []TypeOK
  BY InitIndInv, NextKeepsTypeOK, PTL DEF Spec

-----------------------------------------------------------------------------
(***************************************************************************)
(* The ring, when changes come one at a time and every peer is a seed.     *)
(***************************************************************************)
RingInv == OneChange /\ ChangeIsCurrent /\ RingMatchesAlive

\* A step of a thread outside OnMembershipChange that leaves the live peers and
\* the ring alone.
LEMMA QuietStep ==
  ASSUME TypeOK, RingInv, NEW t \in Threads, NEW new \in ThreadStates,
         th' = [th EXCEPT ![t] = new],
         th[t].pc \notin Changing, new.pc \notin Changing,
         AlivePeers' = AlivePeers, ring' = ring
  PROVE  RingInv'
<1>1. \A u \in Threads : th'[u] = IF u = t THEN new ELSE th[u]
  BY DEF TypeOK
<1>2. \A u \in Threads : th'[u].pc \in Changing => th'[u] = th[u] /\ u # t
  BY <1>1
<1>3. OneChange'
  BY <1>2 DEF RingInv, OneChange
<1>4. ChangeIsCurrent'
  BY <1>2 DEF RingInv, ChangeIsCurrent, Changing
<1>5. RingMatchesAlive'
  BY <1>1 DEF RingInv, RingMatchesAlive, NoChangeUnderWay
<1> QED
  BY <1>3, <1>4, <1>5 DEF RingInv

\* A thread that has changed the live peers is the only one inside
\* OnMembershipChange, and has read nothing yet.
LEMMA ChangeStep ==
  ASSUME TypeOK, RingInv, ~Overlap, NEW t \in Threads, NEW lost, NEW pc, Change(t, lost, pc)
  PROVE  RingInv'
<1>1. \A u \in Threads \ {t} : th[u].pc \notin Changing /\ th'[u] = th[u]
  BY DEF Change, TypeOK
<1>2. th'[t].pc = "bump"
  BY DEF Change, TypeOK, Inside
<1>3. OneChange'
  BY <1>1 DEF OneChange
<1>4. ChangeIsCurrent'
  BY <1>1, <1>2 DEF ChangeIsCurrent, Changing
<1>5. RingMatchesAlive'
  BY <1>2 DEF RingMatchesAlive, NoChangeUnderWay, Changing
<1> QED
  BY <1>3, <1>4, <1>5 DEF RingInv

\* Hearing only from seeds that are alive leaves the live peers as they are.
LEMMA RefreshKeepsAlive ==
  ASSUME TypeOK, known = Seeds, Strangers = {}, NEW S \in SUBSET Peers,
         Refresh(S), ~Resurrects(S)
  PROVE  AlivePeers' = AlivePeers
<1>1. known' = known /\ S \subseteq known
  BY DEF Refresh, Peers
<1>2. \A p \in Peers : status'[p] = "dead" <=> status[p] = "dead"
  BY DEF Refresh, Resurrects, TypeOK
<1> QED
  BY <1>1, <1>2 DEF AlivePeers, TypeOK

\* Every step keeps the ring in step with the live peers.
LEMMA NextKeepsRingInv ==
  ASSUME TypeOK, known = Seeds, RingInv, ~Overlap, Strangers = {}, [Next]_vars
  PROVE  known' = Seeds /\ RingInv'
<1>1. ASSUME UNCHANGED <<known, status, ring, th>> PROVE known' = Seeds /\ RingInv'
  BY <1>1 DEF RingInv, OneChange, ChangeIsCurrent, RingMatchesAlive, NoChangeUnderWay,
     AlivePeers
<1>2. ASSUME UNCHANGED <<known, status>> PROVE known' = Seeds /\ AlivePeers' = AlivePeers
  BY <1>2 DEF AlivePeers
<1>3. CASE (\E p \in Peers : Crash(p) \/ Recover(p)) \/ Stall \/ UNCHANGED vars
  BY <1>1, <1>3 DEF Crash, Recover, Stall, vars, peerInfo
<1>4. CASE WakeUp
  <2>1. At("send") \in ThreadStates /\ At("send").pc \notin Changing
    BY StatesOfThreads DEF At, Hearing, Changing
  <2> QED
    BY <1>2, <1>4, <2>1, QuietStep, HBIsThread DEF WakeUp, Changing
<1>5. CASE SendHeartbeats
  <2>1. PICK S \in SUBSET Peers : th' = [th EXCEPT ![HB] = Hearing("replies", S)]
    BY <1>5 DEF SendHeartbeats, Peers
  <2>2. Hearing("replies", S) \in ThreadStates /\ Hearing("replies", S).pc \notin Changing
    BY StatesOfThreads DEF Hearing, Changing
  <2> QED
    BY <1>2, <1>5, <2>1, <2>2, QuietStep, HBIsThread DEF SendHeartbeats, Changing, peerInfo
<1>6. CASE HearReplies
  <2>1. th[HB].heard \in SUBSET Peers /\ Refresh(th[HB].heard) /\ ring' = ring
    BY <1>6, HBIsThread DEF TypeOK, ThreadStates, HearReplies
  <2>2. known' = Seeds
    BY <2>1 DEF Refresh, Peers
  <2>3. CASE Resurrects(th[HB].heard)
    BY <1>6, <2>2, <2>3, ChangeStep, HBIsThread DEF HearReplies
  <2>4. CASE ~Resurrects(th[HB].heard)
    <3>1. At("evaluate") \in ThreadStates /\ At("evaluate").pc \notin Changing
      BY StatesOfThreads DEF At, Hearing, Changing
    <3>2. AlivePeers' = AlivePeers
      BY <2>1, <2>4, RefreshKeepsAlive
    <3> QED
      BY <1>6, <2>1, <2>2, <2>4, <3>1, <3>2, QuietStep, HBIsThread DEF HearReplies, Changing
  <2> QED
    BY <2>3, <2>4
<1>7. CASE EvaluateSuspicions
  <2> DEFINE lost == {p \in Peers : Watched(p) /\ Verdict(p) = "dead"}
  <2>1. known' = Seeds /\ ring' = ring
    BY <1>7 DEF EvaluateSuspicions
  <2>2. CASE lost # {}
    BY <1>7, <2>1, <2>2, ChangeStep, HBIsThread DEF EvaluateSuspicions
  <2>3. CASE lost = {}
    <3>1. At("sleep") \in ThreadStates /\ At("sleep").pc \notin Changing
      BY StatesOfThreads DEF At, Hearing, Changing
    <3>2. \A p \in Peers : status'[p] = "dead" <=> status[p] = "dead"
      BY <1>7, <2>3 DEF EvaluateSuspicions, Watched, Verdict, TypeOK
    <3>3. AlivePeers' = AlivePeers
      BY <2>1, <3>2 DEF AlivePeers, TypeOK
    <3> QED
      BY <1>7, <2>1, <2>3, <3>1, <3>3, QuietStep, HBIsThread DEF EvaluateSuspicions, Changing
  <2> QED
    BY <2>2, <2>3
<1>8. ASSUME NEW h \in Handlers, NEW p \in Peers, Arrive(h, p) PROVE known' = Seeds /\ RingInv'
  <2>1. Hearing("arrived", {p}) \in ThreadStates /\ Hearing("arrived", {p}).pc \notin Changing
    BY StatesOfThreads DEF Hearing, Changing
  <2> QED
    BY <1>2, <1>8, <2>1, QuietStep, HBIsThread DEF Arrive, Changing, peerInfo
<1>9. ASSUME NEW h \in Handlers, OnHeartbeat(h) PROVE known' = Seeds /\ RingInv'
  <2>1. th[h].heard \in SUBSET Peers /\ Refresh(th[h].heard) /\ ring' = ring
    BY <1>9, HBIsThread DEF TypeOK, ThreadStates, OnHeartbeat
  <2>2. known' = Seeds
    BY <2>1 DEF Refresh, Peers
  <2>3. CASE Resurrects(th[h].heard)
    BY <1>9, <2>2, <2>3, ChangeStep, HBIsThread DEF OnHeartbeat
  <2>4. CASE ~Resurrects(th[h].heard)
    <3>1. At("idle") \in ThreadStates /\ At("idle").pc \notin Changing
      BY StatesOfThreads DEF At, Hearing, Changing
    <3>2. AlivePeers' = AlivePeers
      BY <2>1, <2>4, RefreshKeepsAlive
    <3> QED
      BY <1>9, <2>1, <2>2, <2>4, <3>1, <3>2, QuietStep, HBIsThread DEF OnHeartbeat, Changing
  <2> QED
    BY <2>3, <2>4
<1>10. ASSUME NEW t \in Threads, OnMembershipChange(t) PROVE known' = Seeds /\ RingInv'
  <2>1. known' = Seeds /\ AlivePeers' = AlivePeers
    BY <1>2, <1>10 DEF OnMembershipChange, BumpEpoch, ReadAlive, SetPeers,
       TriggerReReplication, peerInfo
  <2>2. \A u \in Threads \ {t} : th[u].pc \notin Changing /\ th'[u] = th[u]
    BY <1>10 DEF RingInv, OneChange, OnMembershipChange, BumpEpoch, ReadAlive, SetPeers,
       TriggerReReplication, Done, Changing, TypeOK
  <2>3. OneChange'
    BY <2>2 DEF OneChange
  <2>4. ASSUME th'[t].pc = "install" => th'[t].list = {Self} \cup AlivePeers,
               th'[t].pc = "trigger" \/ th'[t].pc \notin Changing
                 => ring' = {Self} \cup AlivePeers
        PROVE  RingInv'
    <3>1. ChangeIsCurrent'
      BY <2>1, <2>2, <2>4 DEF ChangeIsCurrent, Changing
    <3>2. RingMatchesAlive'
      BY <2>1, <2>4 DEF RingMatchesAlive, NoChangeUnderWay
    <3> QED
      BY <2>3, <3>1, <3>2 DEF RingInv
  <2>5. CASE BumpEpoch(t)
    <3>1. th'[t].pc = "read"
      BY <2>5 DEF BumpEpoch, Inside, TypeOK
    <3> QED
      BY <2>1, <2>4, <3>1 DEF Changing
  <2>6. CASE ReadAlive(t)
    <3>1. th'[t].pc = "install" /\ th'[t].list = {Self} \cup AlivePeers
      BY <2>6 DEF ReadAlive, Inside, TypeOK
    <3> QED
      BY <2>1, <2>4, <3>1 DEF Changing
  <2>7. CASE SetPeers(t)
    <3>1. ring' = {Self} \cup AlivePeers
      BY <2>7 DEF SetPeers, RingInv, ChangeIsCurrent
    <3>2. th'[t].pc # "install"
      <4>1. th \in [Threads -> ThreadStates] /\ th[t].then \in {"idle", "evaluate", "sleep"}
        BY DEF TypeOK, ThreadStates
      <4>2. CASE th[t].lost # {}
        BY <2>7, <4>1, <4>2 DEF SetPeers, Inside
      <4>3. CASE th[t].lost = {}
        BY <2>7, <4>1, <4>3 DEF SetPeers, Done, At, Hearing
      <4> QED
        BY <4>2, <4>3
    <3> QED
      BY <2>1, <2>4, <3>1, <3>2
  <2>8. CASE TriggerReReplication(t)
    <3>1. ring' = {Self} \cup AlivePeers
      BY <2>8 DEF TriggerReReplication, RingInv, ChangeIsCurrent
    <3>2. th'[t].pc # "install"
      BY <2>8 DEF TriggerReReplication, Done, At, Hearing, TypeOK, ThreadStates
    <3> QED
      BY <2>1, <2>4, <3>1, <3>2
  <2> QED
    BY <1>10, <2>5, <2>6, <2>7, <2>8 DEF OnMembershipChange
<1> QED
  BY <1>3, <1>4, <1>5, <1>6, <1>7, <1>8, <1>9, <1>10 DEF Next, Heartbeat

\* When changes come one at a time and every peer is a seed, the inductive
\* invariant holds for any number of peers and handlers and any timeouts.
THEOREM IndInvHolds ==
  ASSUME ~Overlap, Strangers = {}
  PROVE  Spec => []IndInv
<1>1. Init => IndInv
  BY InitIndInv DEF Init, IndInv
<1>2. IndInv /\ [Next]_vars => IndInv'
  BY NextKeepsTypeOK, NextKeepsRingInv DEF IndInv, RingInv
<1> QED
  BY <1>1, <1>2, PTL DEF Spec

\* Under the same conditions the Router's ring is the local node and the live
\* peers whenever no thread is inside OnMembershipChange.
THEOREM RingMatchesAliveHolds ==
  ASSUME ~Overlap, Strangers = {}
  PROVE  Spec => []RingMatchesAlive
<1>1. IndInv => RingMatchesAlive
  BY DEF IndInv
<1> QED
  BY <1>1, IndInvHolds, PTL

\* Under the same conditions TriggerReReplication never computes replicas from
\* a ring that still has a peer it was told is lost.
THEOREM RoundSeesNewRingHolds ==
  ASSUME ~Overlap, Strangers = {}
  PROVE  Spec => []RoundSeesNewRing
<1>1. IndInv => RoundSeesNewRing
  BY MembershipAssumption DEF IndInv, ChangeIsCurrent, RoundSeesNewRing, TypeOK,
     ThreadStates, AlivePeers
<1> QED
  BY <1>1, IndInvHolds, PTL
=============================================================================
