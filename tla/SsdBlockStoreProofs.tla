------------------------- MODULE SsdBlockStoreProofs -------------------------
(***************************************************************************)
(* Proofs about SsdBlockStore, for any number of slots and any set of      *)
(* blocks.                                                                 *)
(***************************************************************************)
EXTENDS SsdHostCrash, ByteSums

\* Backends for the leaves that name none: Zenon, and where it gives up SMT.
USE ZenonT(10), SMTT(40)

\* A free list may be empty.
LEMMA EmptyIsSeq ==
    ASSUME NEW T
    PROVE  <<>> \in Seq(T)
  OBVIOUS

\* What popping free_slots_ leaves: the list without its last element.
LEMMA PopFacts ==
    ASSUME NEW S, NEW s \in Seq(S), s # <<>>
    PROVE  /\ Len(s) \in Nat \ {0}
           /\ s[Len(s)] \in S
           /\ SubSeq(s, 1, Len(s) - 1) \in Seq(S)
           /\ Len(SubSeq(s, 1, Len(s) - 1)) = Len(s) - 1
           /\ \A i \in 1 .. Len(s) - 1 : SubSeq(s, 1, Len(s) - 1)[i] = s[i]
<1>1. Len(s) \in Nat \ {0}
  OBVIOUS
<1>2. \A i \in 1 .. Len(s) : s[i] \in S
  OBVIOUS
<1>3. \A i \in 1 .. Len(s) - 1 : s[i] \in S
  BY <1>1, <1>2
<1>4. /\ SubSeq(s, 1, Len(s) - 1) \in Seq(S)
      /\ Len(SubSeq(s, 1, Len(s) - 1))
           = IF 1 <= Len(s) - 1 THEN (Len(s) - 1) - 1 + 1 ELSE 0
      /\ \A i \in 1 .. (Len(s) - 1) - 1 + 1 :
            SubSeq(s, 1, Len(s) - 1)[i] = s[1 + i - 1]
  BY <1>1, <1>3
<1>5. Len(SubSeq(s, 1, Len(s) - 1)) = Len(s) - 1
  <2> DEFINE L == Len(s)
             M == Len(SubSeq(s, 1, Len(s) - 1))
  <2>1. L \in Nat \ {0} /\ M = IF 1 <= L - 1 THEN (L - 1) - 1 + 1 ELSE 0
    BY <1>1, <1>4
  <2> HIDE DEF L, M
  <2>2. M = L - 1
    BY <2>1
  <2> QED
    BY <2>2 DEF L, M
<1>6. ASSUME NEW i \in 1 .. Len(s) - 1 PROVE SubSeq(s, 1, Len(s) - 1)[i] = s[i]
  <2>1. i \in 1 .. (Len(s) - 1) - 1 + 1 /\ 1 + i - 1 = i
    BY <1>1
  <2> QED
    BY <1>4, <2>1
<1> QED
  BY <1>1, <1>2, <1>4, <1>5, <1>6

\* A fresh file, all zeros, satisfies the invariant.
LEMMA InitIndInv == Init => IndInv
<1> SUFFICES ASSUME Init PROVE IndInv
  OBVIOUS
<1>1. FreshSlot \in SlotImages /\ ~FreshSlot.live
  BY DEF FreshSlot, SlotImages
<1>2. TypeOK
  BY <1>1, EmptyIsSeq DEF Init, TypeOK
<1>3. \A n \in Slots : ~mem[n].live
  BY <1>1 DEF Init
<1> QED
  BY <1>2, <1>3 DEF Init, IndInv, LiveMeansWhole, LiveIdsDiffer, IndexMirrorsSlots,
     FreeMirrorsSlots

\* Slot numbers are naturals, so the sentinel of index_ is none of them.
LEMMA NoSlotIsNoSlot == NoSlot \notin Slots
  BY SsdAssumption DEF NoSlot, Slots

\* RebuildIndexFromMmap makes index_ and free_slots_ mirror the slot headers.
LEMMA RebuildKeepsIndInv == IndInv /\ RebuildIndexFromMmap => IndInv'
<1> SUFFICES ASSUME IndInv, RebuildIndexFromMmap PROVE IndInv'
  OBVIOUS
<1> USE SsdAssumption
<1>1. \A n \in Slots : LiveSlot(n) <=> mem[n].live
  BY DEF IndInv, LiveMeansWhole, Intact, LiveSlot, Fits
<1>2. mem' = mem /\ up' = TRUE
  BY DEF RebuildIndexFromMmap
<1>3. ASSUME NEW b \in Ids
      PROVE  /\ Rebuilt(b) \in Slots \cup {NoSlot}
             /\ \A n \in Slots : Rebuilt(b) = n <=> mem[n].live /\ mem[n].id = b
  <2> DEFINE claims == {n \in Slots : LiveSlot(n) /\ mem[n].id = b}
  <2>1. CASE claims = {}
    BY <2>1, <1>1, NoSlotIsNoSlot DEF Rebuilt
  <2>2. CASE claims # {}
    <3>1. PICK c \in claims : TRUE
      BY <2>2
    <3>2. claims = {c}
      BY <3>1, <1>1 DEF IndInv, LiveIdsDiffer
    <3>3. Rebuilt(b) \in claims
      BY <2>2, <3>2 DEF Rebuilt, Slots
    <3> QED
      BY <3>2, <3>3, <1>1
  <2> QED
    BY <2>1, <2>2
<1>4. IndexMirrorsSlots' /\ index' \in [Ids -> Slots \cup {NoSlot}]
  BY <1>2, <1>3 DEF IndexMirrorsSlots, RebuildIndexFromMmap
<1>5. TypeOK'
  <2>1. PICK k \in 0 .. TotalSlots : free' \in [1 .. k -> Slots]
    BY DEF RebuildIndexFromMmap
  <2>2. free' \in Seq(Slots)
    BY <2>1
  <2> QED
    BY <1>2, <1>4, <2>2 DEF IndInv, TypeOK
<1>6. FreeMirrorsSlots'
  <2>0. PICK k \in 0 .. TotalSlots : \E g \in [1 .. k -> Slots] :
          /\ \A i, j \in 1 .. k : i < j => g[i] < g[j]
          /\ {g[i] : i \in 1 .. k} = {n \in Slots : ~LiveSlot(n)}
          /\ free' = g
    BY Zenon DEF RebuildIndexFromMmap
  <2>1. PICK f \in [1 .. k -> Slots] :
          /\ \A i, j \in 1 .. k : i < j => f[i] < f[j]
          /\ {f[i] : i \in 1 .. k} = {n \in Slots : ~LiveSlot(n)}
          /\ free' = f
    BY <2>0, Zenon
  <2>2. Len(free') = k
    BY <2>1
  <2>3. ASSUME NEW i \in 1 .. k, NEW j \in 1 .. k, f[i] = f[j]
        PROVE  i = j
    <3>1. f[i] \in Nat /\ f[j] \in Nat
      BY <2>1 DEF Slots
    <3>2. ~(i < j) /\ ~(j < i)
      BY <2>1, <2>3, <3>1
    <3> QED
      BY <3>2
  <2>4. ASSUME NEW n \in Slots
        PROVE  (\E i \in 1 .. k : f[i] = n) <=> ~mem[n].live
    <3>1. (\E i \in 1 .. k : f[i] = n) <=> n \in {f[i] : i \in 1 .. k}
      OBVIOUS
    <3> QED
      BY <2>1, <3>1, <1>1
  <2> QED
    BY <1>2, <2>1, <2>2, <2>3, <2>4 DEF FreeMirrorsSlots
<1> QED
  BY <1>2, <1>4, <1>5, <1>6 DEF IndInv, LiveMeansWhole, LiveIdsDiffer

\* The slot AllocSlot hands out is free and leaves the free list.
LEMMA AllocFacts ==
    ASSUME IndInv, up, free # <<>>
    PROVE  /\ AllocSlot \in Slots
           /\ ~mem[AllocSlot].live
           /\ Pop \in Seq(Slots)
           /\ \A i, j \in 1 .. Len(Pop) : Pop[i] = Pop[j] => i = j
           /\ \A n \in Slots : (\E i \in 1 .. Len(Pop) : Pop[i] = n)
                                  <=> ~mem[n].live /\ n # AllocSlot
<1> DEFINE k == Len(free)
<1>1. /\ free \in Seq(Slots)
      /\ \A i, j \in 1 .. k : free[i] = free[j] => i = j
      /\ \A n \in Slots : (\E i \in 1 .. k : free[i] = n) <=> ~mem[n].live
  BY DEF IndInv, TypeOK, FreeMirrorsSlots
<1>2. /\ k \in Nat \ {0}
      /\ free[k] \in Slots
      /\ Pop \in Seq(Slots)
      /\ Len(Pop) = k - 1
      /\ \A i \in 1 .. k - 1 : Pop[i] = free[i]
  BY <1>1, PopFacts DEF Pop
<1> HIDE DEF k
<1>3. AllocSlot = free[k]
  BY DEF AllocSlot, k
<1>4. AllocSlot \in Slots /\ ~mem[AllocSlot].live
  BY <1>1, <1>2, <1>3
<1>5. \A i, j \in 1 .. Len(Pop) : Pop[i] = Pop[j] => i = j
  BY <1>1, <1>2
<1>6. ASSUME NEW n \in Slots
      PROVE  (\E i \in 1 .. Len(Pop) : Pop[i] = n) <=> ~mem[n].live /\ n # AllocSlot
  <2>1. ASSUME NEW i \in 1 .. Len(Pop), Pop[i] = n PROVE ~mem[n].live /\ n # AllocSlot
    BY <1>1, <1>2, <1>3, <2>1
  <2>2. ASSUME ~mem[n].live, n # AllocSlot PROVE \E i \in 1 .. Len(Pop) : Pop[i] = n
    <3>1. PICK i \in 1 .. k : free[i] = n
      BY <1>1, <2>2
    <3>2. i \in 1 .. k - 1
      BY <1>2, <1>3, <2>2, <3>1
    <3> QED
      BY <1>2, <3>1, <3>2
  <2> QED
    BY <2>1, <2>2
<1> QED
  BY <1>2, <1>4, <1>5, <1>6

\* Whatever prefix of its stores Put made, the slot is live only when the last
\* of them, the magic, was made, and then it holds the whole block.
LEMMA PutStageFacts ==
    ASSUME NEW im \in SlotImages, NEW b \in Ids, NEW k \in 1 .. PutStores, ~im.live
    PROVE  /\ PutStage(im, b, k) \in SlotImages
           /\ PutStage(im, b, k).live <=> k = PutStores
           /\ k = PutStores => PutStage(im, b, k).id = b /\ Intact(PutStage(im, b, k), b)
<1> DEFINE new == PutStage(im, b, k)
<1>1. new.live \in BOOLEAN /\ (new.live <=> k = PutStores)
  <2>1. CASE k = PutStores
    BY <2>1 DEF PutStores, PutStage
  <2>2. CASE k # PutStores
    <3>1. ~(k >= 6)
      BY <2>2 DEF PutStores
    <3>2. new.live = im.live
      BY <3>1 DEF PutStage
    <3>3. im.live = FALSE
      BY DEF SlotImages
    <3> QED
      BY <2>2, <3>2, <3>3
  <2> QED
    BY <2>1, <2>2
<1>2. /\ new.size \in Nat
      /\ new.id \in Ids \cup {NoId}
      /\ new.lo \in Ids \cup {NoId}
      /\ new.hi \in Ids \cup {NoId}
  BY SsdAssumption DEF SlotImages, PutStage
<1>3. new = [live |-> new.live, size |-> new.size, id |-> new.id, lo |-> new.lo,
             hi |-> new.hi]
  BY DEF PutStage
<1>4. new \in SlotImages
  <2> HIDE DEF new
  <2> QED
    BY <1>1, <1>2, <1>3 DEF SlotImages
<1>5. k = PutStores => new.id = b /\ Intact(new, b)
  BY DEF PutStores, PutStage, Intact
<1> QED
  BY <1>1, <1>4, <1>5

\* Whatever prefix of its stores Erase made, the slot is dead from the first on,
\* and nothing in it is touched before.
LEMMA EraseStageFacts ==
    ASSUME NEW im \in SlotImages, NEW k \in 1 .. EraseStores
    PROVE  EraseStage(im, k) \in SlotImages /\ ~EraseStage(im, k).live
<1> DEFINE new == EraseStage(im, k)
<1>1. k >= 1
  BY DEF EraseStores
<1>2. new.live = FALSE
  BY <1>1 DEF EraseStage
<1>3. new.size \in Nat /\ new.id = im.id /\ new.lo = im.lo /\ new.hi = im.hi
  BY DEF SlotImages, EraseStage
<1>4. new = [live |-> new.live, size |-> new.size, id |-> new.id, lo |-> new.lo,
             hi |-> new.hi]
  BY DEF EraseStage
<1> HIDE DEF new
<1>5. new \in SlotImages /\ ~new.live
  BY <1>2, <1>3, <1>4 DEF SlotImages
<1> QED
  BY <1>5 DEF new

\* A whole Put makes the slot it allocated live for its block and no other.
LEMMA PutKeepsIndInv == \A b \in Ids : IndInv /\ Put(b) => IndInv'
<1> SUFFICES ASSUME NEW b \in Ids, IndInv, Put(b) PROVE IndInv'
  OBVIOUS
<1> DEFINE n == AllocSlot
           im == PutStage(mem[n], b, PutStores)
<1>1. /\ up /\ up' /\ free # <<>> /\ Fits(b) /\ index[b] = NoSlot
      /\ mem' = [mem EXCEPT ![n] = im]
      /\ index' = [index EXCEPT ![b] = n]
      /\ free' = Pop
  BY DEF Put, CanPut
<1>2. /\ n \in Slots /\ ~mem[n].live /\ Pop \in Seq(Slots)
      /\ \A i, j \in 1 .. Len(Pop) : Pop[i] = Pop[j] => i = j
      /\ \A m \in Slots : (\E i \in 1 .. Len(Pop) : Pop[i] = m)
                              <=> ~mem[m].live /\ m # n
  BY <1>1, AllocFacts
<1>3. im \in SlotImages /\ im.live /\ im.id = b /\ Intact(im, b)
  BY <1>2, PutStageFacts DEF IndInv, TypeOK, PutStores
<1>4. \A m \in Slots : mem'[m] = IF m = n THEN im ELSE mem[m]
  BY <1>1 DEF IndInv, TypeOK
<1>5. \A m \in Slots : ~(mem[m].live /\ mem[m].id = b)
  BY <1>1, NoSlotIsNoSlot DEF IndInv, IndexMirrorsSlots
<1> HIDE DEF n, im
<1>6. TypeOK'
  BY <1>1, <1>2, <1>3 DEF IndInv, TypeOK
<1>7. LiveMeansWhole'
  BY <1>1, <1>3, <1>4 DEF IndInv, LiveMeansWhole, Intact, Fits, Spans
<1>8. LiveIdsDiffer'
  BY <1>3, <1>4, <1>5 DEF IndInv, LiveIdsDiffer
<1>9. IndexMirrorsSlots'
  BY <1>1, <1>2, <1>3, <1>4, <1>5, NoSlotIsNoSlot DEF IndInv, TypeOK, IndexMirrorsSlots
<1>10. FreeMirrorsSlots'
  BY <1>1, <1>2, <1>3, <1>4 DEF FreeMirrorsSlots
<1> QED
  BY <1>6, <1>7, <1>8, <1>9, <1>10 DEF IndInv

\* A whole Erase kills the block's only live slot and gives it back.
LEMMA EraseKeepsIndInv == \A b \in Ids : IndInv /\ Erase(b) => IndInv'
<1> SUFFICES ASSUME NEW b \in Ids, IndInv, Erase(b) PROVE IndInv'
  OBVIOUS
<1> DEFINE n == index[b]
           im == EraseStage(mem[n], EraseStores)
<1>1. /\ up /\ up' /\ n # NoSlot
      /\ mem' = [mem EXCEPT ![n] = im]
      /\ index' = [index EXCEPT ![b] = NoSlot]
      /\ free' = Append(free, n)
  BY DEF Erase
<1>2. n \in Slots /\ mem[n].live /\ mem[n].id = b
  BY <1>1 DEF IndInv, TypeOK, IndexMirrorsSlots
<1>3. im \in SlotImages /\ ~im.live
  BY <1>2, EraseStageFacts DEF IndInv, TypeOK, EraseStores
<1>4. \A m \in Slots : mem'[m] = IF m = n THEN im ELSE mem[m]
  BY <1>1 DEF IndInv, TypeOK
<1>5. /\ Append(free, n) \in Seq(Slots)
      /\ Len(free) \in Nat
      /\ Len(Append(free, n)) = Len(free) + 1
      /\ \A i \in 1 .. Len(free) : Append(free, n)[i] = free[i]
      /\ Append(free, n)[Len(free) + 1] = n
  BY <1>2 DEF IndInv, TypeOK
<1>6. /\ \A i, j \in 1 .. Len(free) : free[i] = free[j] => i = j
      /\ \A m \in Slots : (\E i \in 1 .. Len(free) : free[i] = m) <=> ~mem[m].live
  BY <1>1 DEF IndInv, FreeMirrorsSlots
<1> HIDE DEF n, im
<1>7. TypeOK'
  BY <1>1, <1>2, <1>3, <1>5 DEF IndInv, TypeOK
<1>8. LiveMeansWhole'
  BY <1>3, <1>4 DEF IndInv, LiveMeansWhole, Intact, Fits, Spans
<1>9. LiveIdsDiffer'
  BY <1>3, <1>4 DEF IndInv, LiveIdsDiffer
<1>10. IndexMirrorsSlots'
  BY <1>1, <1>2, <1>3, <1>4, NoSlotIsNoSlot DEF IndInv, TypeOK, IndexMirrorsSlots
<1>11. FreeMirrorsSlots'
  <2>1. \A i, j \in 1 .. Len(free') : free'[i] = free'[j] => i = j
    BY <1>1, <1>2, <1>5, <1>6
  <2>2. ASSUME NEW m \in Slots
        PROVE  (\E i \in 1 .. Len(free') : free'[i] = m) <=> ~mem'[m].live
    <3>1. CASE m = n
      <4>1. Len(free) + 1 \in 1 .. Len(free') /\ free'[Len(free) + 1] = m
        BY <1>1, <1>5, <3>1
      <4> QED
        BY <1>3, <1>4, <3>1, <4>1
    <3>2. CASE m # n
      <4>1. ASSUME NEW i \in 1 .. Len(free'), free'[i] = m PROVE ~mem'[m].live
        BY <1>1, <1>4, <1>5, <1>6, <3>2, <4>1
      <4>2. ASSUME ~mem'[m].live PROVE \E i \in 1 .. Len(free') : free'[i] = m
        <5>1. PICK i \in 1 .. Len(free) : free[i] = m
          BY <1>4, <1>6, <3>2, <4>2
        <5> QED
          BY <1>1, <1>5, <5>1
      <4> QED
        BY <4>1, <4>2
    <3> QED
      BY <3>1, <3>2
  <2> QED
    BY <2>1, <2>2 DEF FreeMirrorsSlots
<1> QED
  BY <1>7, <1>8, <1>9, <1>10, <1>11 DEF IndInv

\* After the process ends only the slots count.
LEMMA StoppedKeepsIndInv ==
    ASSUME IndInv, Stopped, mem' \in [Slots -> SlotImages], LiveMeansWhole', LiveIdsDiffer'
    PROVE  IndInv'
<1>1. TypeOK'
  BY EmptyIsSeq DEF Stopped, TypeOK
<1> QED
  BY <1>1 DEF Stopped, IndInv, IndexMirrorsSlots, FreeMirrorsSlots

\* Ending the process between operations leaves the slots as they are.
LEMMA KillKeepsIndInv == IndInv /\ Kill => IndInv'
<1> SUFFICES ASSUME IndInv, Kill PROVE IndInv'
  OBVIOUS
<1>1. mem' \in [Slots -> SlotImages] /\ LiveMeansWhole' /\ LiveIdsDiffer'
  BY DEF Kill, IndInv, TypeOK, LiveMeansWhole, LiveIdsDiffer
<1> QED
  BY <1>1, StoppedKeepsIndInv DEF Kill

\* A Put cut short leaves a dead slot, or a live one with the whole block.
LEMMA KillInPutKeepsIndInv == \A b \in Ids : IndInv /\ KillInPut(b) => IndInv'
<1> SUFFICES ASSUME NEW b \in Ids, IndInv, KillInPut(b) PROVE IndInv'
  OBVIOUS
<1> DEFINE n == AllocSlot
<1>1. PICK k \in 1 .. PutStores : mem' = [mem EXCEPT ![n] = PutStage(mem[n], b, k)]
  BY DEF KillInPut
<1> DEFINE im == PutStage(mem[n], b, k)
<1>2. up /\ free # <<>> /\ Fits(b) /\ index[b] = NoSlot /\ Stopped
  BY DEF KillInPut, CanPut
<1>3. n \in Slots /\ ~mem[n].live
  BY <1>2, AllocFacts
<1>4. /\ im \in SlotImages
      /\ im.live <=> k = PutStores
      /\ k = PutStores => im.id = b /\ Intact(im, b)
  BY <1>3, PutStageFacts DEF IndInv, TypeOK
<1>5. \A m \in Slots : mem'[m] = IF m = n THEN im ELSE mem[m]
  BY <1>1 DEF IndInv, TypeOK
<1>6. \A m \in Slots : ~(mem[m].live /\ mem[m].id = b)
  BY <1>2, NoSlotIsNoSlot DEF IndInv, IndexMirrorsSlots
<1>7. mem' \in [Slots -> SlotImages]
  BY <1>1, <1>4 DEF IndInv, TypeOK
<1> HIDE DEF n, im
<1>8. LiveMeansWhole'
  BY <1>2, <1>4, <1>5 DEF IndInv, LiveMeansWhole, Intact, Fits, Spans
<1>9. LiveIdsDiffer'
  BY <1>4, <1>5, <1>6 DEF IndInv, LiveIdsDiffer
<1> QED
  BY <1>2, <1>7, <1>8, <1>9, StoppedKeepsIndInv

\* An Erase cut short after its first store leaves a dead slot.
LEMMA KillInEraseKeepsIndInv == \A b \in Ids : IndInv /\ KillInErase(b) => IndInv'
<1> SUFFICES ASSUME NEW b \in Ids, IndInv, KillInErase(b) PROVE IndInv'
  OBVIOUS
<1> DEFINE n == index[b]
<1>1. PICK k \in 1 .. EraseStores : mem' = [mem EXCEPT ![n] = EraseStage(mem[n], k)]
  BY DEF KillInErase
<1> DEFINE im == EraseStage(mem[n], k)
<1>2. n \in Slots /\ Stopped
  BY DEF KillInErase, IndInv, TypeOK
<1>3. im \in SlotImages /\ ~im.live
  BY <1>2, EraseStageFacts DEF IndInv, TypeOK
<1>4. \A m \in Slots : mem'[m] = IF m = n THEN im ELSE mem[m]
  BY <1>1 DEF IndInv, TypeOK
<1>5. mem' \in [Slots -> SlotImages]
  BY <1>1, <1>3 DEF IndInv, TypeOK
<1> HIDE DEF n, im
<1>6. LiveMeansWhole' /\ LiveIdsDiffer'
  BY <1>3, <1>4 DEF IndInv, LiveMeansWhole, LiveIdsDiffer, Intact, Fits, Spans
<1> QED
  BY <1>2, <1>5, <1>6, StoppedKeepsIndInv

\* A step that changes nothing keeps the invariant.
LEMMA StutterKeepsIndInv == IndInv /\ UNCHANGED vars => IndInv'
  BY DEF IndInv, TypeOK, LiveMeansWhole, LiveIdsDiffer, IndexMirrorsSlots,
     FreeMirrorsSlots, Intact, Fits, Spans, vars

\* Every step of the store, whole or cut short by a kill, keeps the inductive
\* invariant.
THEOREM IndInvHolds == Spec => []IndInv
<1>1. IndInv /\ [Next]_vars => IndInv'
  BY RebuildKeepsIndInv, PutKeepsIndInv, EraseKeepsIndInv, KillKeepsIndInv,
     KillInPutKeepsIndInv, KillInEraseKeepsIndInv, StutterKeepsIndInv DEF Next
<1> QED
  BY <1>1, InitIndInv, PTL DEF Spec

\* The type invariant, for any number of slots and blocks.
THEOREM TypeCorrect == Spec => []TypeOK
<1>1. IndInv => TypeOK
  BY DEF IndInv
<1> QED
  BY <1>1, IndInvHolds, PTL

\* No slot is ever shared and none leaks, whatever was killed when.
THEOREM SlotAccountingHolds == Spec => []SlotAccounting
<1>1. ASSUME IndInv, up PROVE \A b \in Ids : \A n \in Slots :
                                  index[b] = n <=> mem[n].live /\ mem[n].id = b
  BY <1>1 DEF IndInv, IndexMirrorsSlots
<1>2. ASSUME IndInv, up PROVE \A a, b \in Indexed : index[a] = index[b] => a = b
  BY <1>1, <1>2 DEF IndInv, TypeOK, Indexed
<1>3. ASSUME IndInv, up, NEW n \in Slots
      PROVE  (\E i \in 1 .. Len(free) : free[i] = n) <=> ~ \E b \in Indexed : index[b] = n
  <2>1. mem[n].live <=> \E b \in Indexed : index[b] = n
    <3>1. mem[n].live => mem[n].id \in Ids
      BY <1>3 DEF IndInv, LiveMeansWhole
    <3> QED
      BY <1>1, <1>3, <3>1, NoSlotIsNoSlot DEF Indexed
  <2> QED
    BY <1>3, <2>1 DEF IndInv, FreeMirrorsSlots
<1>4. IndInv => SlotAccounting
  BY <1>2, <1>3 DEF IndInv, FreeMirrorsSlots, SlotAccounting
<1> QED
  BY <1>4, IndInvHolds, PTL

\* A read never returns another block's bytes or part of a block.
THEOREM ReadsAreIntactHolds == Spec => []ReadsAreIntact
<1>1. ASSUME IndInv, NEW b \in Indexed PROVE GetCopy(b).hit /\ Intact(GetCopy(b), b)
  <2> DEFINE n == index[b]
  <2>1. n \in Slots /\ n # NoSlot /\ mem[n].live /\ mem[n].id = b
    BY <1>1 DEF IndInv, TypeOK, IndexMirrorsSlots, Indexed
  <2>2. Intact(mem[n], b)
    BY <1>1, <2>1 DEF IndInv, LiveMeansWhole
  <2>3. GetCopy(b) = [hit |-> TRUE, size |-> mem[n].size, lo |-> mem[n].lo,
                      hi |-> mem[n].hi]
    BY <2>1 DEF GetCopy
  <2> QED
    BY <2>2, <2>3 DEF Intact
<1>2. IndInv => ReadsAreIntact
  BY <1>1 DEF ReadsAreIntact
<1> QED
  BY <1>2, IndInvHolds, PTL

-----------------------------------------------------------------------------
(***************************************************************************)
(* The byte counter.                                                       *)
(***************************************************************************)
\* used_bytes_ against the blocks of index_.
UsedOK == up => used = Total(Size, Indexed)

\* There are finitely many indexed blocks, one per slot at most, and each has a size.
LEMMA IndexedSizes ==
    ASSUME IndInv, up
    PROVE  Sizes(Size, Indexed)
<1>1. IsFiniteSet(Slots)
  BY SsdAssumption, FS_Interval DEF Slots
<1>2. \A b \in Indexed : index[b] \in Slots /\ mem[index[b]].id = b
  BY DEF IndInv, TypeOK, Indexed, IndexMirrorsSlots
<1> DEFINE f == [b \in Indexed |-> index[b]]
<1>3. f \in Injection(Indexed, Slots)
  BY <1>2 DEF Injection, IsInjective
<1>4. IsFiniteSet(Indexed)
  BY <1>1, <1>3, FS_Injection, Zenon
<1> QED
  BY <1>4, SsdAssumption DEF Sizes, Indexed

\* RebuildIndexFromMmap adds up the payload sizes in the live headers, slot by slot.
LEMMA LiveBytesTotal ==
    LiveBytes = Total([n \in Slots |-> mem[n].size], {n \in Slots : LiveSlot(n)})
<1> DEFINE L == {n \in Slots : LiveSlot(n)}
           f == [n \in Slots |-> mem[n].size]
           g == CHOOSE g : g = [s \in SUBSET L |->
                  IF s = {} THEN 0 ELSE mem[Pick(s)].size + g[s \ {Pick(s)}]]
<1>1. LiveBytes = g[L]
  BY Zenon DEF LiveBytes, MapThenSumSet, MapThenFoldSet, Pick
<1>2. IsFiniteSet(L)
  <2>1. IsFiniteSet(Slots)
    BY SsdAssumption, FS_Interval DEF Slots
  <2> QED
    BY <2>1, FS_Subset
<1>3. ASSUME NEW h
      PROVE  [s \in SUBSET L |-> IF s = {} THEN 0 ELSE mem[Pick(s)].size + h[s \ {Pick(s)}]]
               = Unfold(f, h, L)
  <2>1. \A s \in SUBSET L : s # {} => mem[Pick(s)].size = f[Pick(s)]
    BY DEF Pick
  <2> HIDE DEF f, L
  <2> QED
    BY <2>1 DEF Unfold
<1>4. \E h : h = [s \in SUBSET L |->
                  IF s = {} THEN 0 ELSE mem[Pick(s)].size + h[s \ {Pick(s)}]]
  <2>1. PICK h : h = Unfold(f, h, L)
    BY <1>2, Solvable
  <2> QED
    BY <1>3, <2>1, Zenon
<1>5. g = [s \in SUBSET L |-> IF s = {} THEN 0 ELSE mem[Pick(s)].size + g[s \ {Pick(s)}]]
  BY <1>4, Zenon
<1> HIDE DEF g, f, L
<1>6. g = Unfold(f, g, L)
  BY <1>3, <1>5, Zenon
<1>7. g[L] = Total(f, L)
  BY <1>2, <1>6, SolutionIsTotal
<1> QED
  BY <1>1, <1>7 DEF f, L

\* What it adds up is the size of the blocks it indexes.
LEMMA RebuildCounts ==
    ASSUME IndInv, IndInv', RebuildIndexFromMmap
    PROVE  UsedOK'
<1> DEFINE L == {n \in Slots : LiveSlot(n)}
           f == [n \in Slots |-> mem[n].size]
           h == [n \in Slots |-> mem[n].id]
<1>1. \A n \in L : n \in Slots /\ mem[n].live /\ mem[n].id \in Ids /\ mem[n].size = Size[mem[n].id]
  BY DEF IndInv, LiveMeansWhole, LiveSlot, Intact
<1>2. \A n \in L : f[n] \in Nat /\ f[n] = Size[h[n]]
  BY <1>1, SsdAssumption
<1>3. \A m, n \in L : h[m] = h[n] => m = n
  BY <1>1 DEF IndInv, LiveIdsDiffer
<1>4. IsFiniteSet(L)
  <2>1. IsFiniteSet(Slots)
    BY SsdAssumption, FS_Interval DEF Slots
  <2> QED
    BY <2>1, FS_Subset
<1>5. {h[n] : n \in L} = Indexed'
  <2>1. mem' = mem /\ up'
    BY DEF RebuildIndexFromMmap
  <2>2. \A n \in Slots : mem[n].live => n \in L
    BY DEF IndInv, LiveMeansWhole, LiveSlot, Intact, Fits
  <2>3. \A b \in Ids : \A n \in Slots : index'[b] = n <=> mem[n].live /\ mem[n].id = b
    BY <2>1 DEF IndInv, IndexMirrorsSlots
  <2>4. \A b \in Ids : index'[b] \in Slots \cup {NoSlot}
    BY DEF IndInv, TypeOK
  <2>5. \A b \in Indexed' : \E n \in L : h[n] = b
    <3> TAKE b \in Indexed'
    <3>1. b \in Ids /\ index'[b] \in Slots
      BY <2>4 DEF Indexed
    <3> QED
      BY <2>2, <2>3, <3>1
  <2>6. \A n \in L : h[n] \in Indexed'
    BY <1>1, <2>3, NoSlotIsNoSlot DEF Indexed
  <2> QED
    BY <2>5, <2>6
<1>6. used' = Total(f, L)
  BY LiveBytesTotal DEF RebuildIndexFromMmap
<1> HIDE DEF f, h, L
<1>7. Total(f, L) = Total(Size, {h[n] : n \in L})
  BY <1>2, <1>3, <1>4, TotalReindexed
<1> QED
  BY <1>5, <1>6, <1>7 DEF UsedOK

\* Put counts the block that it indexes.
LEMMA PutCounts ==
    ASSUME IndInv, IndInv', UsedOK, NEW b \in Ids, Put(b)
    PROVE  UsedOK'
<1>1. /\ up /\ up' /\ index[b] = NoSlot /\ free # <<>>
      /\ index' = [index EXCEPT ![b] = AllocSlot] /\ used' = used + Size[b]
  BY DEF Put, CanPut
<1>2. AllocSlot # NoSlot
  BY <1>1, AllocFacts, NoSlotIsNoSlot
<1>3. b \notin Indexed /\ Indexed' = Indexed \cup {b}
  BY <1>1, <1>2 DEF Indexed, IndInv, TypeOK
<1>4. Sizes(Size, Indexed) /\ Sizes(Size, Indexed \cup {b})
  BY <1>1, IndexedSizes, FS_AddElement, SsdAssumption DEF Sizes
<1>5. Total(Size, Indexed \cup {b}) = Size[b] + Total(Size, Indexed)
  BY <1>3, <1>4, TotalWith
<1>6. Total(Size, Indexed) \in Nat /\ Size[b] \in Nat
  BY <1>4, TotalType, SsdAssumption
<1> QED
  BY <1>1, <1>3, <1>5, <1>6 DEF UsedOK

\* Erase takes off what the header of the block's slot says, which is the block's size.
LEMMA EraseCounts ==
    ASSUME IndInv, UsedOK, NEW b \in Ids, Erase(b)
    PROVE  UsedOK'
<1>1. /\ up /\ up' /\ index[b] # NoSlot
      /\ index' = [index EXCEPT ![b] = NoSlot] /\ used' = used - mem[index[b]].size
  BY DEF Erase
<1>2. mem[index[b]].size = Size[b]
  <2>1. index[b] \in Slots /\ mem[index[b]].live /\ mem[index[b]].id = b
    BY <1>1 DEF IndInv, TypeOK, IndexMirrorsSlots
  <2> QED
    BY <2>1 DEF IndInv, LiveMeansWhole, Intact
<1>3. b \in Indexed /\ Indexed' = Indexed \ {b}
  BY <1>1 DEF Indexed, IndInv, TypeOK
<1>4. Sizes(Size, Indexed) /\ Sizes(Size, Indexed \ {b})
  BY <1>1, IndexedSizes, FS_RemoveElement DEF Sizes
<1>5. Total(Size, Indexed) = Size[b] + Total(Size, Indexed \ {b})
  BY <1>3, <1>4, TotalWithout
<1>6. Total(Size, Indexed \ {b}) \in Nat /\ Size[b] \in Nat
  BY <1>4, TotalType, SsdAssumption
<1> QED
  BY <1>1, <1>2, <1>3, <1>5, <1>6 DEF UsedOK

\* used_bytes_ is at all times the sum of the sizes of the indexed blocks: it is rebuilt
\* from the headers of a file that any number of kills left behind, and Put and Erase
\* keep it.
THEOREM UsedMatchesIndexHolds == Spec => []UsedMatchesIndex
<1>1. Init => UsedOK
  BY DEF Init, UsedOK
<1>2. ASSUME IndInv, IndInv', UsedOK, [Next]_vars
      PROVE  UsedOK'
  <2>1. CASE UNCHANGED vars
    BY <1>2, <2>1 DEF vars, UsedOK, Indexed
  <2>2. ASSUME NEW b \in Ids, KillInPut(b) \/ KillInErase(b)
        PROVE  UsedOK'
    BY <2>2 DEF KillInPut, KillInErase, Stopped, UsedOK
  <2>3. CASE Kill
    BY <2>3 DEF Kill, Stopped, UsedOK
  <2> QED
    BY <1>2, <2>1, <2>2, <2>3, RebuildCounts, PutCounts, EraseCounts DEF Next
<1>3. UsedOK => UsedMatchesIndex
  BY TotalIsSum, Zenon DEF UsedOK, UsedMatchesIndex
<1> QED
  BY <1>1, <1>2, <1>3, IndInvHolds, PTL DEF Spec

-----------------------------------------------------------------------------
\* While the invariant holds, what a restart recovers is what the live magics
\* name.
LEMMA RecoverableIsLive ==
    IndInv => Recoverable = {b \in Ids : \E n \in Slots : mem[n].live /\ mem[n].id = b}
  BY DEF IndInv, LiveMeansWhole, Recoverable, LiveSlot, Intact, Fits

\* One slot is overwritten: the recoverable set gains the block now live there
\* and loses the one that was.
LEMMA RecoverableStep ==
    ASSUME IndInv, IndInv', NEW n \in Slots, NEW im \in SlotImages,
           mem' = [mem EXCEPT ![n] = im]
    PROVE  /\ ~mem[n].live /\ im.live => Recoverable' = Recoverable \cup {im.id}
           /\ ~mem[n].live /\ ~im.live => Recoverable' = Recoverable
           /\ mem[n].live /\ ~im.live => Recoverable' = Recoverable \ {mem[n].id}
<1> DEFINE Live == {b \in Ids : \E m \in Slots : mem[m].live /\ mem[m].id = b}
<1>1. Recoverable = Live
  BY RecoverableIsLive
<1>2. Recoverable' = {b \in Ids : \E m \in Slots : mem'[m].live /\ mem'[m].id = b}
  BY DEF IndInv, LiveMeansWhole, Recoverable, LiveSlot, Intact, Fits
<1>3. \A m \in Slots : mem'[m] = IF m = n THEN im ELSE mem[m]
  BY DEF IndInv, TypeOK
<1>4. mem'[n].live => mem'[n].id \in Ids
  BY DEF IndInv, LiveMeansWhole
<1>5. \A m \in Slots : mem[m].live /\ mem[n].live /\ mem[m].id = mem[n].id => m = n
  BY DEF IndInv, LiveIdsDiffer
<1> QED
  BY <1>1, <1>2, <1>3, <1>4, <1>5

\* The slot array with its kills and restarts implements the durable set: an
\* acknowledged Put survives, an Erase is final.
THEOREM Refinement == Spec => ImplementsDurableBlockSet
<1>1. Init => Abstract!Init
  <2> SUFFICES ASSUME Init PROVE Recoverable = {} /\ up = FALSE
    BY DEF Abstract!Init
  <2> QED
    BY DEF Init, Recoverable, LiveSlot, FreshSlot
<1>2. ASSUME IndInv, IndInv', [Next]_vars PROVE [Abstract!Next]_(Abstract!vars)
  <2> USE <1>2
  <2>1. CASE UNCHANGED vars
    BY <2>1 DEF vars, Abstract!vars, Recoverable, LiveSlot, Intact
  <2>2. CASE RebuildIndexFromMmap \/ Kill
    <3>1. mem' = mem
      BY <2>2 DEF RebuildIndexFromMmap, Kill
    <3>2. Recoverable' = Recoverable
      BY <3>1 DEF Recoverable, LiveSlot, Intact
    <3>3. CASE RebuildIndexFromMmap
      BY <3>2, <3>3 DEF RebuildIndexFromMmap, Abstract!Next, Abstract!Restart
    <3>4. CASE Kill
      BY <3>2, <3>4 DEF Kill, Stopped, Abstract!Next, Abstract!Kill
    <3> QED
      BY <2>2, <3>3, <3>4
  <2>3. ASSUME NEW b \in Ids, Put(b) \/ KillInPut(b) PROVE Abstract!Next
    <3> DEFINE n == AllocSlot
    <3>1. PICK k \in 1 .. PutStores : mem' = [mem EXCEPT ![n] = PutStage(mem[n], b, k)]
      BY <2>3 DEF Put, KillInPut, PutStores
    <3> DEFINE im == PutStage(mem[n], b, k)
    <3>2. n \in Slots /\ ~mem[n].live
      BY <2>3, AllocFacts DEF Put, KillInPut, CanPut
    <3>3. im \in SlotImages /\ (im.live => im.id = b)
      BY <3>2, PutStageFacts DEF IndInv, TypeOK
    <3>4. Recoverable' \in {Recoverable, Recoverable \cup {b}}
      BY <3>1, <3>2, <3>3, RecoverableStep
    <3>5. CASE KillInPut(b)
      BY <3>4, <3>5 DEF KillInPut, Stopped, Abstract!Next, Abstract!Kill
    <3>6. CASE Put(b)
      <4>1. mem' = [mem EXCEPT ![n] = PutStage(mem[n], b, PutStores)] /\ up /\ up' = up
        BY <3>6 DEF Put, CanPut
      <4>2. /\ PutStage(mem[n], b, PutStores) \in SlotImages
            /\ PutStage(mem[n], b, PutStores).live
            /\ PutStage(mem[n], b, PutStores).id = b
        BY <3>2, PutStageFacts DEF IndInv, TypeOK, PutStores
      <4>3. Recoverable' = Recoverable \cup {b}
        BY <3>2, <4>1, <4>2, RecoverableStep
      <4> QED
        BY <4>1, <4>3 DEF Abstract!Next, Abstract!Put
    <3> QED
      BY <2>3, <3>5, <3>6
  <2>4. ASSUME NEW b \in Ids, Erase(b) \/ KillInErase(b) PROVE Abstract!Next
    <3> DEFINE n == index[b]
    <3>1. PICK k \in 1 .. EraseStores : mem' = [mem EXCEPT ![n] = EraseStage(mem[n], k)]
      BY <2>4 DEF Erase, KillInErase, EraseStores
    <3>2. up /\ n \in Slots /\ mem[n].live /\ mem[n].id = b
      BY <2>4 DEF Erase, KillInErase, Stopped, IndInv, TypeOK, IndexMirrorsSlots
    <3>3. EraseStage(mem[n], k) \in SlotImages /\ ~EraseStage(mem[n], k).live
      BY <3>2, EraseStageFacts DEF IndInv, TypeOK
    <3>4. Recoverable' = Recoverable \ {b}
      BY <3>1, <3>2, <3>3, RecoverableStep
    <3> QED
      BY <2>4, <3>2, <3>4 DEF Erase, KillInErase, Stopped, Abstract!Next,
         Abstract!Erase, Abstract!Kill
  <2> QED
    BY <2>1, <2>2, <2>3, <2>4 DEF Next
<1> QED
  BY <1>1, <1>2, IndInvHolds, PTL DEF Spec, ImplementsDurableBlockSet, Abstract!Spec

-----------------------------------------------------------------------------
(***************************************************************************)
(* The store under host crashes.                                           *)
(***************************************************************************)
\* A fresh file satisfies the invariant.
LEMMA HostInitInv == HostInit => HostInv
<1> SUFFICES ASSUME HostInit PROVE HostInv
  OBVIOUS
<1>1. FreshSlot \in SlotImages /\ ~FreshSlot.live
  BY DEF FreshSlot, SlotImages
<1>2. TypeOK
  BY <1>1, EmptyIsSeq DEF HostInit, Init, TypeOK
<1>3. \A n \in Slots : ~mem[n].live
  BY <1>1 DEF HostInit, Init
<1> QED
  BY <1>2, <1>3 DEF HostInit, Init, HostInv, TypeOK, HeadsAreWhole, IndexNamesSlots, Indexed,
     FreeSlotsAreDead

\* An indexed block's slot is a slot, and no two blocks have one.
LEMMA IndexedSlots ==
    ASSUME HostInv
    PROVE  /\ \A b \in Indexed : index[b] \in Slots
           /\ \A a, b \in Indexed : index[a] = index[b] => a = b
  BY DEF HostInv, TypeOK, Indexed, IndexNamesSlots

\* Writing a slot that is dead, or that was the slot of the block just dropped,
\* disturbs no other block.
LEMMA WriteKeepsHeads ==
    ASSUME HostInv, NEW n \in Slots, NEW im \in SlotImages, mem' = [mem EXCEPT ![n] = im],
           im.live => /\ im.id \in Ids /\ Fits(im.id)
                      /\ im.size = Size[im.id] /\ im.lo = im.id
    PROVE  /\ mem' \in [Slots -> SlotImages] /\ HeadsAreWhole(mem')
           /\ \A m \in Slots : mem'[m] = IF m = n THEN im ELSE mem[m]
<1>1. mem \in [Slots -> SlotImages]
  BY DEF HostInv, TypeOK
<1>2. mem' \in [Slots -> SlotImages] /\ \A m \in Slots : mem'[m] = IF m = n THEN im ELSE mem[m]
  BY <1>1
<1> QED
  BY <1>2 DEF HostInv, HeadsAreWhole

\* The index built at start names the lowest live slot of each id.
LEMMA RebuildKeepsHostInv ==
    ASSUME HostInv, RebuildIndexFromMmap, UNCHANGED disk
    PROVE  HostInv'
<1> USE SsdAssumption
<1>1. \A n \in Slots : LiveSlot(n) <=> mem[n].live
  BY DEF HostInv, HeadsAreWhole, LiveSlot, Fits
<1>2. mem' = mem /\ up' = TRUE /\ index' = [b \in Ids |-> Rebuilt(b)]
  BY DEF RebuildIndexFromMmap
<1>3. ASSUME NEW b \in Ids
      PROVE  /\ Rebuilt(b) \in Slots \cup {NoSlot}
             /\ Rebuilt(b) # NoSlot => mem[Rebuilt(b)].live /\ mem[Rebuilt(b)].id = b
  <2> DEFINE claims == {n \in Slots : LiveSlot(n) /\ mem[n].id = b}
  <2>1. CASE claims = {}
    BY <2>1 DEF Rebuilt
  <2>2. CASE claims # {}
    <3>1. claims \in SUBSET Nat
      BY DEF Slots
    <3>2. \E n \in claims : \A m \in claims : n <= m
      <4> HIDE DEF claims
      <4> QED
        BY <2>2, <3>1, Least
    <3>3. Rebuilt(b) = CHOOSE n \in claims : \A m \in claims : n <= m
      BY <2>2 DEF Rebuilt
    <3>4. Rebuilt(b) \in claims
      <4> HIDE DEF claims
      <4> QED
        BY <3>2, <3>3, Zenon
    <3> QED
      BY <1>1, <3>4
  <2> QED
    BY <2>1, <2>2
<1>4. index' \in [Ids -> Slots \cup {NoSlot}] /\ IndexNamesSlots'
  BY <1>2, <1>3 DEF IndexNamesSlots, Indexed
<1>5. PICK k \in 0 .. TotalSlots : \E g \in [1 .. k -> Slots] :
        /\ \A i, j \in 1 .. k : i < j => g[i] < g[j]
        /\ {g[i] : i \in 1 .. k} = {n \in Slots : ~LiveSlot(n)}
        /\ free' = g
  BY Zenon DEF RebuildIndexFromMmap
<1>6. PICK f \in [1 .. k -> Slots] :
        /\ \A i, j \in 1 .. k : i < j => f[i] < f[j]
        /\ {f[i] : i \in 1 .. k} = {n \in Slots : ~LiveSlot(n)}
        /\ free' = f
  BY <1>5, Zenon
<1>7. Len(free') = k /\ free' \in Seq(Slots)
  BY <1>6
<1>8. ASSUME NEW i \in 1 .. k, NEW j \in 1 .. k, f[i] = f[j]
      PROVE  i = j
  <2>1. f[i] \in Nat /\ f[j] \in Nat
    BY <1>6 DEF Slots
  <2>2. ~(i < j) /\ ~(j < i)
    BY <1>6, <1>8, <2>1
  <2> QED
    BY <2>2
<1>9. ASSUME NEW i \in 1 .. k PROVE ~mem[f[i]].live
  <2>1. f[i] \in {n \in Slots : ~LiveSlot(n)}
    BY <1>6
  <2> QED
    BY <1>1, <2>1
<1>10. FreeSlotsAreDead'
  BY <1>2, <1>6, <1>7, <1>8, <1>9 DEF FreeSlotsAreDead
<1>11. TypeOK'
  BY <1>2, <1>4, <1>7 DEF HostInv, TypeOK
<1> QED
  BY <1>2, <1>4, <1>10, <1>11 DEF HostInv, HeadsAreWhole

\* The slot AllocSlot hands out is dead, and leaves the free list.
LEMMA HostAllocFacts ==
    ASSUME HostInv, free # <<>>
    PROVE  /\ AllocSlot \in Slots /\ ~mem[AllocSlot].live
           /\ Pop \in Seq(Slots)
           /\ \A i, j \in 1 .. Len(Pop) : Pop[i] = Pop[j] => i = j
           /\ \A i \in 1 .. Len(Pop) : ~mem[Pop[i]].live /\ Pop[i] # AllocSlot
<1> DEFINE k == Len(free)
<1>1. /\ free \in Seq(Slots)
      /\ \A i, j \in 1 .. k : free[i] = free[j] => i = j
      /\ \A i \in 1 .. k : ~mem[free[i]].live
  BY DEF HostInv, TypeOK, FreeSlotsAreDead
<1>2. /\ k \in Nat \ {0}
      /\ free[k] \in Slots
      /\ Pop \in Seq(Slots)
      /\ Len(Pop) = k - 1
      /\ \A i \in 1 .. k - 1 : Pop[i] = free[i]
  BY <1>1, PopFacts DEF Pop
<1>3. AllocSlot = free[k]
  BY DEF AllocSlot
<1> HIDE DEF k
<1> QED
  BY <1>1, <1>2, <1>3

\* Put writes a dead slot, whole.
LEMMA PutKeepsHostInv ==
    ASSUME HostInv, NEW b \in Ids, Put(b), UNCHANGED disk
    PROVE  HostInv'
<1> DEFINE n == AllocSlot
           im == PutStage(mem[n], b, PutStores)
<1>1. /\ up /\ up' /\ free # <<>> /\ Fits(b)
      /\ mem' = [mem EXCEPT ![n] = im]
      /\ index' = [index EXCEPT ![b] = n]
      /\ free' = Pop
  BY DEF Put, CanPut
<1>2. /\ n \in Slots /\ ~mem[n].live /\ Pop \in Seq(Slots)
      /\ \A i, j \in 1 .. Len(Pop) : Pop[i] = Pop[j] => i = j
      /\ \A i \in 1 .. Len(Pop) : Pop[i] \in Slots /\ ~mem[Pop[i]].live /\ Pop[i] # n
  BY <1>1, HostAllocFacts
<1>3. im \in SlotImages /\ im.live /\ im.id = b /\ im.size = Size[b] /\ im.lo = b
  BY <1>2, PutStageFacts DEF HostInv, TypeOK, PutStores, Intact
<1> HIDE DEF n, im
<1>4. /\ mem' \in [Slots -> SlotImages] /\ HeadsAreWhole(mem')
      /\ \A m \in Slots : mem'[m] = IF m = n THEN im ELSE mem[m]
  BY <1>1, <1>2, <1>3, WriteKeepsHeads
<1>5. TypeOK'
  BY <1>1, <1>2, <1>4 DEF HostInv, TypeOK
<1>6. IndexNamesSlots'
  BY <1>1, <1>2, <1>3, <1>4 DEF HostInv, TypeOK, IndexNamesSlots, Indexed
<1>7. FreeSlotsAreDead'
  BY <1>1, <1>2, <1>4 DEF FreeSlotsAreDead
<1> QED
  BY <1>4, <1>5, <1>6, <1>7 DEF HostInv, HeadsAreWhole

\* Erase gives back the slot it killed.
LEMMA EraseKeepsHostInv ==
    ASSUME HostInv, NEW b \in Ids, Erase(b), UNCHANGED disk
    PROVE  HostInv'
<1> DEFINE n == index[b]
           im == EraseStage(mem[n], EraseStores)
<1>1. /\ up /\ up' /\ n # NoSlot /\ b \in Indexed
      /\ mem' = [mem EXCEPT ![n] = im]
      /\ index' = [index EXCEPT ![b] = NoSlot]
      /\ free' = Append(free, n)
  BY DEF Erase, Indexed
<1>2. n \in Slots /\ mem[n].live /\ mem[n].id = b
  BY <1>1, IndexedSlots DEF HostInv, IndexNamesSlots
<1>3. im \in SlotImages /\ ~im.live
  BY <1>2, EraseStageFacts DEF HostInv, TypeOK, EraseStores
<1>4. /\ free \in Seq(Slots) /\ Append(free, n) \in Seq(Slots)
      /\ Len(free) \in Nat
      /\ Len(Append(free, n)) = Len(free) + 1
      /\ \A i \in 1 .. Len(free) : Append(free, n)[i] = free[i] /\ free[i] \in Slots
      /\ Append(free, n)[Len(free) + 1] = n
  BY <1>2 DEF HostInv, TypeOK
<1>5. /\ \A i, j \in 1 .. Len(free) : free[i] = free[j] => i = j
      /\ \A i \in 1 .. Len(free) : ~mem[free[i]].live
  BY DEF HostInv, FreeSlotsAreDead
<1> HIDE DEF n, im
<1>6. /\ mem' \in [Slots -> SlotImages] /\ HeadsAreWhole(mem')
      /\ \A m \in Slots : mem'[m] = IF m = n THEN im ELSE mem[m]
  BY <1>1, <1>2, <1>3, WriteKeepsHeads
<1>7. TypeOK'
  BY <1>1, <1>4, <1>6 DEF HostInv, TypeOK
<1>8. ASSUME NEW a \in Indexed' PROVE mem'[index'[a]].live /\ mem'[index'[a]].id = a
  <2>1. a \in Indexed /\ a # b /\ index'[a] = index[a]
    BY <1>1, <1>8 DEF Indexed, HostInv, TypeOK
  <2>2. index[a] # n /\ index[a] \in Slots
    BY <1>1, <2>1, IndexedSlots DEF n
  <2> QED
    BY <1>6, <2>1, <2>2 DEF HostInv, IndexNamesSlots
<1>9. IndexNamesSlots'
  BY <1>1, <1>8 DEF IndexNamesSlots
<1>10. FreeSlotsAreDead'
  BY <1>1, <1>2, <1>3, <1>4, <1>5, <1>6 DEF FreeSlotsAreDead
<1> QED
  BY <1>6, <1>7, <1>9, <1>10 DEF HostInv, HeadsAreWhole

\* After the process ends only the slots count.
LEMMA StoppedKeepsHostInv ==
    ASSUME HostInv, Stopped, UNCHANGED disk, mem' \in [Slots -> SlotImages], HeadsAreWhole(mem')
    PROVE  HostInv'
<1>1. TypeOK'
  BY EmptyIsSeq DEF Stopped, TypeOK
<1> QED
  BY <1>1 DEF Stopped, HostInv, HeadsAreWhole, IndexNamesSlots, Indexed, FreeSlotsAreDead

\* A Put or an Erase cut short leaves a dead slot or one with a whole header page.
LEMMA KillsKeepHostInv ==
    ASSUME HostInv, UNCHANGED disk, NEW b \in Ids, KillInPut(b) \/ KillInErase(b)
    PROVE  HostInv'
<1>1. CASE KillInPut(b)
  <2> DEFINE n == AllocSlot
  <2>1. PICK k \in 1 .. PutStores : mem' = [mem EXCEPT ![n] = PutStage(mem[n], b, k)]
    BY <1>1 DEF KillInPut
  <2> DEFINE im == PutStage(mem[n], b, k)
  <2>2. free # <<>> /\ Fits(b) /\ Stopped
    BY <1>1 DEF KillInPut, CanPut
  <2>3. n \in Slots /\ ~mem[n].live
    BY <2>2, HostAllocFacts
  <2>4. im \in SlotImages /\ (im.live => im.id = b /\ im.size = Size[b] /\ im.lo = b)
    BY <2>3, PutStageFacts DEF HostInv, TypeOK, Intact
  <2> HIDE DEF n, im
  <2>5. mem' \in [Slots -> SlotImages] /\ HeadsAreWhole(mem')
    BY <2>1, <2>2, <2>3, <2>4, WriteKeepsHeads DEF im
  <2> QED
    BY <2>2, <2>5, StoppedKeepsHostInv
<1>2. CASE KillInErase(b)
  <2> DEFINE n == index[b]
  <2>1. PICK k \in 1 .. EraseStores : mem' = [mem EXCEPT ![n] = EraseStage(mem[n], k)]
    BY <1>2 DEF KillInErase
  <2> DEFINE im == EraseStage(mem[n], k)
  <2>2. n \in Slots /\ Stopped
    BY <1>2 DEF KillInErase, HostInv, TypeOK
  <2>3. im \in SlotImages /\ ~im.live
    BY <2>2, EraseStageFacts DEF HostInv, TypeOK
  <2> HIDE DEF n, im
  <2>4. mem' \in [Slots -> SlotImages] /\ HeadsAreWhole(mem')
    BY <2>1, <2>2, <2>3, WriteKeepsHeads DEF im
  <2> QED
    BY <2>2, <2>4, StoppedKeepsHostInv
<1> QED
  BY <1>1, <1>2

\* Write-back copies the header's page whole, and leaves it alone when it copies
\* the pages after it.
LEMMA WritebackKeepsHostInv ==
    ASSUME HostInv, NEW n \in Slots, WritebackHead(n) \/ WritebackTail(n)
    PROVE  HostInv'
<1>1. UNCHANGED <<mem, up, index, free, used>>
  BY DEF WritebackHead, WritebackTail, vars
<1>2. mem \in [Slots -> SlotImages] /\ disk \in [Slots -> SlotImages]
  BY DEF HostInv, TypeOK
<1> DEFINE im == disk'[n]
<1>3. /\ disk' \in [Slots -> SlotImages]
      /\ \A m \in Slots : m # n => disk'[m] = disk[m]
      /\ \/ im.live = mem[n].live /\ im.id = mem[n].id /\ im.size = mem[n].size /\ im.lo = mem[n].lo
         \/ im.live = disk[n].live /\ im.id = disk[n].id /\ im.size = disk[n].size /\ im.lo = disk[n].lo
  <2>1. mem[n] \in SlotImages /\ disk[n] \in SlotImages
    BY <1>2
  <2>2. CASE WritebackHead(n)
    <3> DEFINE new == [mem[n] EXCEPT !.hi = disk[n].hi]
    <3>1. new \in SlotImages /\ new.live = mem[n].live /\ new.id = mem[n].id
          /\ new.size = mem[n].size /\ new.lo = mem[n].lo
      BY <2>1 DEF SlotImages
    <3>2. disk' = [disk EXCEPT ![n] = new]
      BY <2>2 DEF WritebackHead
    <3> HIDE DEF new
    <3> QED
      BY <1>2, <3>1, <3>2
  <2>3. CASE WritebackTail(n)
    <3> DEFINE new == [disk[n] EXCEPT !.hi = mem[n].hi]
    <3>1. new \in SlotImages /\ new.live = disk[n].live /\ new.id = disk[n].id
          /\ new.size = disk[n].size /\ new.lo = disk[n].lo
      BY <2>1 DEF SlotImages
    <3>2. disk' = [disk EXCEPT ![n] = new]
      BY <2>3 DEF WritebackTail
    <3> HIDE DEF new
    <3> QED
      BY <1>2, <3>1, <3>2
  <2> QED
    BY <2>2, <2>3
<1>4. HeadsAreWhole(disk')
  BY <1>3 DEF HostInv, HeadsAreWhole
<1>5. TypeOK' /\ IndexNamesSlots' /\ FreeSlotsAreDead'
  BY <1>1 DEF HostInv, TypeOK, IndexNamesSlots, Indexed, FreeSlotsAreDead
<1> QED
  BY <1>1, <1>3, <1>4, <1>5 DEF HostInv, HeadsAreWhole

\* After a host crash the page cache is what the device holds.
LEMMA HostCrashKeepsHostInv ==
    ASSUME HostInv, HostCrash
    PROVE  HostInv'
<1>1. TypeOK'
  BY EmptyIsSeq DEF HostCrash, TypeOK, HostInv
<1> QED
  BY <1>1 DEF HostCrash, HostInv, HeadsAreWhole, IndexNamesSlots, Indexed, FreeSlotsAreDead

\* The invariant holds through every operation, kill, write-back and host crash.
THEOREM HostInvHolds == HostSpec => []HostInv
<1>1. ASSUME HostInv, [HostNext]_hostVars PROVE HostInv'
  <2>1. CASE StoreStep
    <3>1. UNCHANGED disk /\ Next
      BY <2>1 DEF StoreStep
    <3>2. CASE Kill
      <4>1. Stopped /\ mem' \in [Slots -> SlotImages] /\ HeadsAreWhole(mem')
        BY <1>1, <3>2 DEF Kill, HostInv, TypeOK, HeadsAreWhole
      <4> QED
        BY <1>1, <3>1, <4>1, StoppedKeepsHostInv
    <3> QED
      BY <1>1, <3>1, <3>2, RebuildKeepsHostInv, PutKeepsHostInv, EraseKeepsHostInv,
         KillsKeepHostInv DEF Next
  <2>2. CASE UNCHANGED hostVars
    BY <1>1, <2>2 DEF hostVars, vars, HostInv, TypeOK, HeadsAreWhole, IndexNamesSlots, Indexed,
       FreeSlotsAreDead
  <2> QED
    BY <1>1, <2>1, <2>2, WritebackKeepsHostInv, HostCrashKeepsHostInv DEF HostNext
<1> QED
  BY <1>1, HostInitInv, PTL DEF HostSpec

\* A block that fits the page of its header is read whole or not at all, whatever
\* the kernel had written back when the host crashed.
THEOREM SinglePageReadsAreIntactHolds == HostSpec => []SinglePageReadsAreIntact
<1>1. ASSUME HostInv, NEW b \in Indexed, ~Spans(b)
      PROVE  Intact(GetCopy(b), b)
  <2> DEFINE n == index[b]
  <2>1. n \in Slots /\ n # NoSlot /\ mem[n].live /\ mem[n].id = b
    BY <1>1, IndexedSlots DEF HostInv, IndexNamesSlots, Indexed
  <2>2. mem[n].size = Size[b] /\ mem[n].lo = b
    BY <1>1, <2>1 DEF HostInv, HeadsAreWhole
  <2>3. GetCopy(b) = [hit |-> TRUE, size |-> mem[n].size, lo |-> mem[n].lo,
                      hi |-> mem[n].hi]
    BY <2>1 DEF GetCopy
  <2> QED
    BY <1>1, <2>2, <2>3 DEF Intact
<1>2. HostInv => SinglePageReadsAreIntact
  BY <1>1 DEF SinglePageReadsAreIntact
<1> QED
  BY <1>2, HostInvHolds, PTL

\* No slot is handed out twice, even after a host crash brought one id back in two
\* slots.
THEOREM SlotsAreNeverSharedHolds == HostSpec => []SlotsAreNeverShared
<1>1. HostInv => SlotsAreNeverShared
  <2> SUFFICES ASSUME HostInv PROVE SlotsAreNeverShared
    OBVIOUS
  <2>1. \A i \in 1 .. Len(free) : \A b \in Indexed : free[i] # index[b]
    BY DEF HostInv, FreeSlotsAreDead, IndexNamesSlots
  <2> QED
    BY <2>1, IndexedSlots DEF HostInv, FreeSlotsAreDead, SlotsAreNeverShared
<1> QED
  BY <1>1, HostInvHolds, PTL
=============================================================================
