-------------------------- MODULE TieredStoreProofs --------------------------
(***************************************************************************)
(* Proofs about TieredStore, for any blocks, capacities and handlers: the  *)
(* byte counters, and what promotions and demotions keep when they cannot  *)
(* meet.                                                                   *)
(***************************************************************************)
EXTENDS TieredStore, ByteSums

USE ZenonT(20), SMTT(40)

-----------------------------------------------------------------------------
(***************************************************************************)
(* The tiers and the records of the threads.                               *)
(***************************************************************************)
\* The lookup order: Top, then Below, down to the SSD.
LEMMA TierFacts ==
    /\ Top \in {"HBM", "DRAM"} /\ Top \in Tiers
    /\ Below["HBM"] = "DRAM" /\ Below["DRAM"] = "SSD"
    /\ Evictors \subseteq Tiers /\ "DRAM" \in Evictors
    /\ \A t \in Tiers : /\ PromotionTarget(t) \in Tiers
                        /\ t # "SSD" => Below[t] \in Tiers
<1>1. Top \in {"HBM", "DRAM"} /\ Top \in Tiers
  BY DEF Top, Tiers
<1>2. Below["HBM"] = "DRAM" /\ Below["DRAM"] = "SSD"
  BY DEF Below
<1>3. Evictors \subseteq Tiers /\ "DRAM" \in Evictors
  BY DEF Evictors, Tiers
<1>4. \A t \in Tiers : PromotionTarget(t) \in Tiers
  BY DEF PromotionTarget, Tiers
<1>5. \A t \in Tiers : t # "SSD" => Below[t] \in Tiers
  BY <1>2 DEF Tiers
<1> QED
  BY <1>1, <1>2, <1>3, <1>4, <1>5

\* Capacities are numbers, and HBM has none when it does not exist.
LEMMA Capacities ==
    /\ Cap("HBM") = HbmBytes /\ Cap("DRAM") = DramBytes
    /\ \A t \in Tiers \ {"SSD"} : Cap(t) \in Nat
BY TieredAssumption DEF Cap, Tiers

\* The records of idle threads.
LEMMA IdleType == IdleClient \in Working /\ IdleEvictor \in Evicting
<1>1. IdleClient \in ClientType
  BY TierFacts, SMTT(40) DEF IdleClient, ClientType, NoSpan, Tiers
<1>2. IdleEvictor \in EvictorType
  BY TierFacts, SMTT(40) DEF IdleEvictor, EvictorType, NoSpan
<1>3. IdleClient.pc = "idle" /\ IdleEvictor.pc = "idle"
  BY DEF IdleClient, IdleEvictor
<1> QED
  BY <1>1, <1>2, <1>3 DEF Working, Evicting

SameFields(s, r) == /\ s.pc = r.pc /\ s.id = r.id /\ s.tier = r.tier
                    /\ s.span = r.span /\ s.bytes = r.bytes

\* A span that dangles is all that Dangle changes in a record.
LEMMA DangleClient ==
    ASSUME NEW r \in Working, NEW t \in Tiers, NEW b \in Ids
    PROVE  /\ Dangle(r, t, b) \in Working
           /\ SameFields(Dangle(r, t, b), r)
           /\ r.span # t => Dangle(r, t, b) = r
<1> DEFINE s == [r EXCEPT !.stale = TRUE]
<1>1. r \in ClientType
  BY DEF Working
<1>2. s \in ClientType
  BY <1>1 DEF ClientType
<1>3. s.pc = r.pc /\ s.id = r.id /\ s.tier = r.tier
  BY <1>1 DEF ClientType
<1>4. s.span = r.span /\ s.bytes = r.bytes
  BY <1>1 DEF ClientType
<1>5. s \in Working
  BY <1>2, <1>3 DEF Working
<1>6. Dangle(r, t, b) = IF r.span = t /\ r.id = b /\ Holds(t, b) THEN s ELSE r
  BY DEF Dangle
<1> HIDE DEF s
<1> QED
  BY <1>3, <1>4, <1>5, <1>6 DEF SameFields

\* Freed bytes only mark the span an Evictor borrowed from them.
LEMMA DangleEvictor ==
    ASSUME NEW r \in Evicting, NEW t \in Tiers, NEW b \in Ids
    PROVE  /\ Dangle(r, t, b) \in Evicting
           /\ SameFields(Dangle(r, t, b), r)
           /\ r.span # t => Dangle(r, t, b) = r
<1> DEFINE s == [r EXCEPT !.stale = TRUE]
<1>1. r \in EvictorType
  BY DEF Evicting
<1>2. s \in EvictorType
  BY <1>1 DEF EvictorType
<1>3. s.pc = r.pc /\ s.id = r.id /\ s.tier = r.tier
  BY <1>1 DEF EvictorType
<1>4. s.span = r.span /\ s.bytes = r.bytes
  BY <1>1 DEF EvictorType
<1>5. s \in Evicting
  BY <1>2, <1>3 DEF Evicting
<1>6. Dangle(r, t, b) = IF r.span = t /\ r.id = b /\ Holds(t, b) THEN s ELSE r
  BY DEF Dangle
<1> HIDE DEF s
<1> QED
  BY <1>3, <1>4, <1>5, <1>6 DEF SameFields

\* Putting a block where there is room, and erasing one, keep the tiers'
\* blocks and counters well formed; the counters stay within the capacities.
LEMMA PutType ==
    ASSUME StoreOK, NEW t \in Tiers, NEW b \in Ids, NEW v \in {"ok", "junk"},
           PutOk(t, b), PutToTier(t, b, v)
    PROVE  /\ data' \in [Tiers -> [Ids -> {"none", "ok", "junk"}]]
           /\ used' \in [Tiers -> Int]
           /\ \A u \in Tiers \ {"SSD"} : used'[u] <= Cap(u)
<1>1. CASE Holds(t, b)
  BY <1>1 DEF PutToTier, StoreOK
<1>2. CASE ~Holds(t, b)
  <2>1. data' = [data EXCEPT ![t][b] = v] /\ used' = [used EXCEPT ![t] = @ + Size[b]]
    BY <1>2 DEF PutToTier
  <2>2. data' \in [Tiers -> [Ids -> {"none", "ok", "junk"}]]
    BY <2>1 DEF StoreOK
  <2>3. Size[b] \in Int
    BY TieredAssumption, SMTT(40)
  <2>4. used' \in [Tiers -> Int]
    BY <2>1, <2>3, SMTT(40) DEF StoreOK
  <2>5. t # "SSD" => used[t] + Size[b] <= Cap(t)
    BY <1>2 DEF PutOk
  <2>6. \A u \in Tiers \ {"SSD"} : used'[u] <= Cap(u)
    BY <2>1, <2>5 DEF StoreOK
  <2> QED
    BY <2>2, <2>4, <2>6
<1> QED
  BY <1>1, <1>2

\* Erasing a block from a tier (EraseFromTier) gives back its bytes at most.
LEMMA EraseType ==
    ASSUME StoreOK, NEW t \in Tiers, NEW b \in Ids, EraseFromTier(t, b)
    PROVE  /\ data' \in [Tiers -> [Ids -> {"none", "ok", "junk"}]]
           /\ used' \in [Tiers -> Int]
           /\ \A u \in Tiers \ {"SSD"} : used'[u] <= Cap(u)
<1>1. CASE Holds(t, b)
  <2>1. data' = [data EXCEPT ![t][b] = "none"] /\ used' = [used EXCEPT ![t] = @ - Size[b]]
    BY <1>1 DEF EraseFromTier
  <2>2. data' \in [Tiers -> [Ids -> {"none", "ok", "junk"}]]
    BY <2>1 DEF StoreOK
  <2>3. Size[b] \in Nat
    BY TieredAssumption
  <2>4. used' \in [Tiers -> Int]
    BY <2>1, <2>3, SMTT(40) DEF StoreOK
  <2>5. \A u \in Tiers : used'[u] <= used[u]
    BY <2>1, <2>3 DEF StoreOK
  <2>6. \A u \in Tiers \ {"SSD"} : used'[u] <= Cap(u)
    BY <2>4, <2>5, Capacities DEF StoreOK
  <2> QED
    BY <2>2, <2>4, <2>6
<1>2. CASE ~Holds(t, b)
  BY <1>2 DEF EraseFromTier, StoreOK
<1> QED
  BY <1>1, <1>2

-----------------------------------------------------------------------------
(***************************************************************************)
(* Every step keeps the types.                                             *)
(***************************************************************************)
\* A handler's step sets that handler's record.
LEMMA SetClient ==
    ASSUME TypeOK, NEW c \in Clients, NEW r \in Working, cl' = [cl EXCEPT ![c] = r]
    PROVE  cl' \in [Clients -> Working]
BY DEF TypeOK

\* An Evictor's own record is replaced by one of its type.
LEMMA SetEvictor ==
    ASSUME TypeOK, NEW e \in Evictors, NEW r \in Evicting, ev' = [ev EXCEPT ![e] = r]
    PROVE  ev' \in [Evictors -> Evicting]
BY DEF TypeOK

\* A request arrives.
LEMMA StartType ==
    ASSUME TypeOK, NEW c \in Clients, NEW b \in Ids, NEW h \in Tiers,
           StartGet(c, b) \/ StartIngest(c, b) \/ StartInsert(c, b, h)
    PROVE  TypeOK'
<1>1. IdleClient \in ClientType
  BY IdleType DEF Working
<1>2. [IdleClient EXCEPT !.pc = "probe", !.id = b] \in Working
  BY <1>1 DEF Working, ClientType
<1>3. [IdleClient EXCEPT !.pc = "before", !.op = "insert", !.id = b, !.hint = h] \in Working
  BY <1>1 DEF Working, ClientType
<1>4. [IdleClient EXCEPT !.pc = "put", !.op = "ingest", !.id = b, !.tier = "DRAM"] \in Working
  BY <1>1 DEF Working, ClientType, Tiers
<1>5. cl' \in [Clients -> Working]
  BY <1>2, <1>3, <1>4, SetClient DEF StartGet, StartIngest, StartInsert
<1>6. UNCHANGED <<data, used, counts, visited, ev, owed>>
  BY DEF StartGet, StartIngest, StartInsert
<1> QED
  BY <1>5, <1>6 DEF TypeOK, StoreOK, Cap

\* Get finds the block in a tier, or goes one tier down, or misses.
LEMMA ProbeType ==
    ASSUME TypeOK, NEW c \in Clients, Probe(c)
    PROVE  TypeOK'
<1> DEFINE r == cl[c]
<1>1. r \in ClientType /\ r.pc = "probe" /\ r.id \in Ids /\ r.tier \in Tiers
  BY DEF Probe, TypeOK, Working, ClientType
<1> HIDE DEF r
<1>2. Holds(r.tier, r.id) => data[r.tier][r.id] \in {"ok", "junk"}
  BY <1>1 DEF Holds, TypeOK, StoreOK
<1>3. \A v \in {"ok", "junk"}, s \in Tiers \cup {NoSpan} :
        [r EXCEPT !.pc = "bump", !.bytes = v, !.span = s] \in Working
  BY <1>1 DEF Working, ClientType
<1>4. \A t \in Tiers : [r EXCEPT !.tier = t] \in Working
  BY <1>1 DEF Working, ClientType
<1>5. PICK n \in Working : cl' = [cl EXCEPT ![c] = n]
  <2>1. CASE Holds(r.tier, r.id)
    <3>1. (IF r.tier = "SSD" THEN NoSpan ELSE r.tier) \in Tiers \cup {NoSpan}
      BY <1>1
    <3> QED
      BY <2>1, <1>2, <1>3, <3>1 DEF Probe, r
  <2>2. CASE ~Holds(r.tier, r.id) /\ r.tier # "SSD"
    BY <2>2, <1>1, <1>4, TierFacts DEF Probe, r
  <2>3. CASE ~Holds(r.tier, r.id) /\ r.tier = "SSD"
    BY <2>3, IdleType DEF Probe, r
  <2> QED
    BY <2>1, <2>2, <2>3
<1>6. cl' \in [Clients -> Working]
  BY <1>5, SetClient
<1>7. UNCHANGED <<data, used, counts, visited, ev, owed>>
  BY DEF Probe
<1> QED
  BY <1>6, <1>7 DEF TypeOK, StoreOK, Cap

\* Get counts the access and decides whether to promote.
LEMMA BumpType ==
    ASSUME TypeOK, NEW c \in Clients, Bump(c)
    PROVE  TypeOK'
<1> DEFINE r == cl[c]
<1>1. r \in ClientType /\ r.pc = "bump" /\ r.id \in Ids
  BY DEF Bump, TypeOK, Working, ClientType
<1> HIDE DEF r
<1>2. Copied(r, r.bytes) \subseteq {"ok", "junk"}
  BY <1>1 DEF Copied, ClientType
<1>3. \A v \in {"ok", "junk"} :
        /\ [r EXCEPT !.pc = "promote", !.bytes = v, !.span = NoSpan, !.stale = FALSE] \in Working
        /\ [IdleClient EXCEPT !.bytes = v] \in Working
  BY <1>1, IdleType DEF Working, ClientType
<1>4. PICK n \in Working : cl' = [cl EXCEPT ![c] = n]
  BY <1>2, <1>3 DEF Bump, r
<1>5. cl' \in [Clients -> Working]
  BY <1>4, SetClient
<1>6. counts' \in [Ids -> 0 .. Threshold]
  BY <1>1, TieredAssumption, SMTT(40) DEF Bump, TypeOK, StoreOK, r
<1>7. visited' \subseteq Ids
  BY <1>1 DEF Bump, TypeOK, StoreOK, r
<1>8. UNCHANGED <<data, used, ev, owed>>
  BY DEF Bump
<1> QED
  BY <1>5, <1>6, <1>7, <1>8 DEF TypeOK, StoreOK, Cap

\* A promotion puts the copy it read; when it cannot, it ends.
LEMMA PromoteType ==
    ASSUME TypeOK, NEW c \in Clients, Promote(c)
    PROVE  TypeOK'
<1> DEFINE r == cl[c]
           target == PromotionTarget(r.tier)
<1>1. r \in ClientType /\ r.pc = "promote" /\ r.id \in Ids /\ r.tier \in Tiers
      /\ r.bytes \in {"ok", "junk"}
  BY DEF Promote, TypeOK, Working, ClientType
<1>2. target \in Tiers
  BY <1>1, TierFacts
<1> HIDE DEF r, target
<1>3. [r EXCEPT !.pc = "dropcold"] \in Working /\ [IdleClient EXCEPT !.bytes = r.bytes] \in Working
  BY <1>1, IdleType DEF Working, ClientType
<1>4. UNCHANGED <<counts, visited, ev, owed>>
  BY DEF Promote
<1>5. CASE PutOk(target, r.id)
  <2>1. PutToTier(target, r.id, r.bytes) /\ cl' = [cl EXCEPT ![c] = [r EXCEPT !.pc = "dropcold"]]
    BY <1>5 DEF Promote, r, target
  <2>2. cl' \in [Clients -> Working]
    BY <2>1, <1>3, SetClient
  <2>3. StoreOK'
    BY <1>1, <1>2, <1>4, <1>5, <2>1, PutType DEF TypeOK, StoreOK, Cap
  <2> QED
    BY <1>4, <2>2, <2>3 DEF TypeOK
<1>6. CASE ~PutOk(target, r.id)
  <2>1. /\ cl' = [cl EXCEPT ![c] = [IdleClient EXCEPT !.bytes = r.bytes]]
        /\ UNCHANGED <<data, used>>
    BY <1>6 DEF Promote, r, target
  <2>2. cl' \in [Clients -> Working]
    BY <2>1, <1>3, SetClient
  <2> QED
    BY <1>4, <2>1, <2>2 DEF TypeOK, StoreOK, Cap
<1> QED
  BY <1>5, <1>6

\* A copy dropped on behalf of any thread: the others' records stay in type.
LEMMA DropCopyType ==
    ASSUME TypeOK, NEW t \in Tiers, NEW b \in Ids, NEW clNow \in [Clients -> Working],
           NEW evNow \in [Evictors -> Evicting], DropCopy(t, b, clNow, evNow),
           counts' \in [Ids -> 0 .. Threshold], visited' \subseteq Ids, owed' \subseteq Ids
    PROVE  TypeOK'
<1>1. EraseFromTier(t, b)
  BY DEF DropCopy
<1>2. cl' = [c \in Clients |-> Dangle(clNow[c], t, b)]
      /\ ev' = [e \in Evictors |-> Dangle(evNow[e], t, b)]
  BY DEF DropCopy
<1>3. \A c \in Clients : Dangle(clNow[c], t, b) \in Working
  BY DangleClient
<1>4. \A e \in Evictors : Dangle(evNow[e], t, b) \in Evicting
  BY DangleEvictor
<1>5. cl' \in [Clients -> Working] /\ ev' \in [Evictors -> Evicting]
  BY <1>2, <1>3, <1>4
<1>6. StoreOK'
  BY <1>1, EraseType DEF TypeOK, StoreOK, Cap
<1> QED
  BY <1>5, <1>6 DEF TypeOK

\* The record of a handler that drops the cold copy is idle again.
LEMMA DropColdType ==
    ASSUME TypeOK, NEW c \in Clients, DropCold(c)
    PROVE  TypeOK'
<1> DEFINE r == cl[c]
           now == [cl EXCEPT ![c] = [IdleClient EXCEPT !.bytes = r.bytes]]
<1>1. r \in ClientType /\ r.id \in Ids /\ r.tier \in Tiers /\ r.bytes \in {"ok", "junk"}
  BY DEF DropCold, TypeOK, Working, ClientType
<1>2. DropCopy(r.tier, r.id, now, ev) /\ UNCHANGED <<counts, visited, owed>>
  BY DEF DropCold
<1>3. [IdleClient EXCEPT !.bytes = r.bytes] \in Working
  BY <1>1, IdleType DEF Working, ClientType
<1>4. now \in [Clients -> Working]
  BY <1>3 DEF TypeOK
<1> HIDE DEF r, now
<1> QED
  BY <1>1, <1>2, <1>4, DropCopyType DEF TypeOK, StoreOK

\* Insert reads the counters.
LEMMA ReadUsedType ==
    ASSUME TypeOK, NEW c \in Clients, ReadUsed(c)
    PROVE  TypeOK'
<1> DEFINE r == cl[c]
           sum == r.sum + used[r.tier]
<1>1. r \in ClientType /\ r.pc # "idle" /\ r.id \in Ids /\ r.tier \in Tiers /\ r.hint \in Tiers
  BY DEF ReadUsed, TypeOK, Working, ClientType
<1>2. sum \in Int
  BY <1>1, SMTT(40) DEF TypeOK, StoreOK, ClientType
<1> DEFINE accepted == sum > r.base
<1>3. accepted \in BOOLEAN
  OBVIOUS
<1> HIDE DEF r, sum, accepted
<1>4. \A t \in Tiers : [r EXCEPT !.sum = sum, !.tier = t] \in Working
  BY <1>1, <1>2 DEF Working, ClientType
<1>z. \A t \in Tiers, i \in Int :
        [r EXCEPT !.pc = "put", !.base = sum, !.sum = i, !.tier = t] \in Working
  BY <1>1, <1>2 DEF Working, ClientType
<1>i. 0 \in Int
  OBVIOUS
<1>5. [r EXCEPT !.pc = "put", !.base = sum, !.sum = 0, !.tier = r.hint] \in Working
  BY <1>1, <1>z, <1>i
<1>6. [IdleClient EXCEPT !.accepted = accepted] \in Working
  BY <1>3, IdleType DEF Working, ClientType
<1>7. PICK n \in Working : cl' = [cl EXCEPT ![c] = n]
  <2>1. CASE r.tier # "SSD"
    BY <2>1, <1>1, <1>4, TierFacts DEF ReadUsed, r, sum
  <2>2. CASE r.tier = "SSD" /\ r.pc = "before"
    BY <2>2, <1>5 DEF ReadUsed, r, sum
  <2>3. CASE r.tier = "SSD" /\ r.pc # "before"
    BY <2>3, <1>6 DEF ReadUsed, r, sum, accepted
  <2> QED
    BY <2>1, <2>2, <2>3
<1>8. cl' \in [Clients -> Working]
  BY <1>7, SetClient
<1>9. UNCHANGED <<data, used, counts, visited, ev, owed>>
  BY DEF ReadUsed
<1> QED
  BY <1>8, <1>9 DEF TypeOK, StoreOK, Cap

\* Put tries a tier.
LEMMA PutStepType ==
    ASSUME TypeOK, NEW c \in Clients, PutStep(c)
    PROVE  TypeOK'
<1> DEFINE r == cl[c]
           fresh == ~Present(r.id)
<1>1. r \in ClientType /\ r.pc = "put" /\ r.id \in Ids /\ r.tier \in Tiers
  BY DEF PutStep, TypeOK, Working, ClientType
<1>2. fresh \in BOOLEAN
  OBVIOUS
<1> HIDE DEF r, fresh
<1>3. [r EXCEPT !.pc = "after", !.tier = Top, !.fresh = fresh] \in Working
  BY <1>1, <1>2, TierFacts DEF Working, ClientType
<1>4. \A t \in Tiers : [r EXCEPT !.tier = t] \in Working
  BY <1>1 DEF Working, ClientType
<1>5. UNCHANGED <<counts, visited, ev>>
  BY DEF PutStep
<1>6. CASE PutOk(r.tier, r.id)
  <2>1. PICK n \in Working : cl' = [cl EXCEPT ![c] = n]
    BY <1>6, <1>3, IdleType DEF PutStep, r, fresh
  <2>2. PutToTier(r.tier, r.id, "ok") /\ owed' = owed \cup {r.id}
    BY <1>6 DEF PutStep, r
  <2>3. cl' \in [Clients -> Working]
    BY <2>1, SetClient
  <2>4. StoreOK'
    BY <1>1, <1>5, <1>6, <2>2, PutType DEF TypeOK, StoreOK, Cap
  <2> QED
    BY <1>5, <2>3, <2>4 DEF TypeOK
<1>7. CASE ~PutOk(r.tier, r.id)
  <2>1. PICK n \in Working : cl' = [cl EXCEPT ![c] = n]
    BY <1>7, <1>1, <1>4, IdleType, TierFacts DEF PutStep, r
  <2>2. UNCHANGED <<data, used, owed>>
    BY <1>7 DEF PutStep, r
  <2>3. cl' \in [Clients -> Working]
    BY <2>1, SetClient
  <2> QED
    BY <1>5, <2>2, <2>3 DEF TypeOK, StoreOK, Cap
<1> QED
  BY <1>6, <1>7

\* A pass begins when the tier is over its watermark, and ends with the walk.
LEMMA PassType ==
    ASSUME TypeOK, NEW e \in Evictors, BeginPass(e) \/ EndPass(e)
    PROVE  TypeOK'
<1> DEFINE r == ev[e]
           need == used[e] - Low(e)
<1>1. r \in EvictorType
  BY DEF TypeOK, Evicting
<1>2. need \in Int
  <2>1. used[e] \in Int
    BY TierFacts DEF TypeOK, StoreOK
  <2>2. Cap(e) \in Int /\ LowPct \in Int
    BY TierFacts, TieredAssumption, SMTT(40) DEF Cap, Tiers
  <2>3. Low(e) \in Int
    BY <2>2, SMTT(40) DEF Low
  <2> QED
    BY <2>1, <2>3, SMTT(40)
<1> HIDE DEF r, need
<1>3. [r EXCEPT !.pc = "snapshot", !.need = need] \in Evicting
  BY <1>1, <1>2 DEF Evicting, EvictorType
<1>4. CASE BeginPass(e)
  <2>1. ev' = [ev EXCEPT ![e] = [r EXCEPT !.pc = "snapshot", !.need = need]]
    BY <1>4 DEF BeginPass, r, need
  <2>2. ev' \in [Evictors -> Evicting]
    BY <1>3, <2>1, SetEvictor
  <2>3. UNCHANGED <<data, used, counts, visited, cl, owed>>
    BY <1>4 DEF BeginPass
  <2> QED
    BY <2>2, <2>3 DEF TypeOK, StoreOK, Cap
<1>5. CASE EndPass(e)
  <2>1. ev' \in [Evictors -> Evicting]
    BY <1>5, IdleType, SetEvictor DEF EndPass
  <2>2. UNCHANGED <<data, used, counts, visited, cl, owed>>
    BY <1>5 DEF EndPass
  <2> QED
    BY <2>1, <2>2 DEF TypeOK, StoreOK, Cap
<1> QED
  BY <1>4, <1>5

\* The snapshot is a sequence of the tier's blocks.
LEMMA SnapshotType ==
    ASSUME TypeOK, NEW e \in Evictors, TakeSnapshot(e)
    PROVE  TypeOK'
<1> DEFINE r == ev[e]
           n == Cardinality(Held(e))
<1>1. r \in EvictorType
  BY DEF TypeOK, Evicting
<1>2. n \in Nat
  BY TieredAssumption, FS_Subset, FS_CardinalityType DEF Held
<1> HIDE DEF n
<1>3. PICK order \in [1 .. n -> Held(e)] :
        ev' = [ev EXCEPT ![e] = IF Held(e) = {} THEN IdleEvictor
                                ELSE [@ EXCEPT !.pc = "overlay", !.walk = order]]
  BY DEF TakeSnapshot, n
<1>4. Held(e) \subseteq Ids
  BY DEF Held
<1>5. order \in Seq(Ids)
  BY <1>2, <1>4, SMTT(40)
<1> HIDE DEF r
<1>6. [r EXCEPT !.pc = "overlay", !.walk = order] \in Evicting
  BY <1>1, <1>5 DEF Evicting, EvictorType
<1>7. PICK s \in Evicting : ev' = [ev EXCEPT ![e] = s]
  BY <1>3, <1>6, IdleType DEF r
<1>8. ev' \in [Evictors -> Evicting]
  BY <1>7, SetEvictor
<1>9. UNCHANGED <<data, used, counts, visited, cl, owed>>
  BY DEF TakeSnapshot
<1> QED
  BY <1>8, <1>9 DEF TypeOK, StoreOK, Cap

\* Snapshot's second half, the overlay of the visited bits, keeps the types.
LEMMA OverlayType ==
    ASSUME TypeOK, NEW e \in Evictors, OverlayVisited(e)
    PROVE  TypeOK'
<1> DEFINE r == ev[e]
           vis == {r.walk[i] : i \in DOMAIN r.walk} \cap visited
<1>1. r \in EvictorType
  BY DEF TypeOK, Evicting
<1>2. vis \in SUBSET Ids
  BY DEF TypeOK, StoreOK
<1>3. ev' = [ev EXCEPT ![e] = [r EXCEPT !.pc = "walk", !.vis = vis]]
  BY DEF OverlayVisited
<1> HIDE DEF r, vis
<1>4. [r EXCEPT !.pc = "walk", !.vis = vis] \in Evicting
  BY <1>1, <1>2 DEF Evicting, EvictorType
<1>5. ev' \in [Evictors -> Evicting]
  BY <1>3, <1>4, SetEvictor
<1>6. UNCHANGED <<data, used, counts, visited, cl, owed>>
  BY DEF OverlayVisited
<1> QED
  BY <1>5, <1>6 DEF TypeOK, StoreOK, Cap

\* In the middle of a walk there is a block at hand.
LEMMA HandType ==
    ASSUME NEW r \in EvictorType, ~WalkDone(r)
    PROVE  AtHand(r) \in Ids
<1>1. r.walk \in Seq(Ids) /\ r.step \in Nat
  BY DEF EvictorType
<1>2. r.step < 2 * Len(r.walk)
  BY <1>1, SMTT(40) DEF WalkDone
<1>3. Len(r.walk) \in Nat \ {0}
  BY <1>1, <1>2, SMTT(40)
<1>4. (r.step % Len(r.walk)) + 1 \in 1 .. Len(r.walk)
  BY <1>1, <1>3, SMTT(40)
<1> QED
  BY <1>1, <1>4, SMTT(40) DEF AtHand

\* Giving a visited block its second chance keeps the types.
LEMMA ClearVisitedType ==
    ASSUME TypeOK, NEW e \in Evictors, ClearVisited(e)
    PROVE  TypeOK'
<1> DEFINE r == ev[e]
           vis == r.vis \ {AtHand(r)}
           step == r.step + 1
<1>1. r \in EvictorType /\ r.pc = "walk"
  BY DEF TypeOK, Evicting, ClearVisited
<1>2. vis \in SUBSET Ids
  BY <1>1 DEF EvictorType
<1>3. step \in Nat
  BY <1>1, SMTT(40) DEF EvictorType
<1>4. ev' = [ev EXCEPT ![e] = [r EXCEPT !.vis = vis, !.step = step]]
  BY DEF ClearVisited
<1>5. UNCHANGED <<data, used, counts, cl, owed>> /\ visited' \subseteq visited
  BY DEF ClearVisited
<1> HIDE DEF r, vis, step
<1>6. [r EXCEPT !.vis = vis, !.step = step] \in Evicting
  BY <1>1, <1>2, <1>3 DEF Evicting, EvictorType
<1>7. ev' \in [Evictors -> Evicting]
  BY <1>4, <1>6, SetEvictor
<1> QED
  BY <1>5, <1>7 DEF TypeOK, StoreOK, Cap

\* Choosing the block to demote or to drop keeps the types.
LEMMA PickVictimType ==
    ASSUME TypeOK, NEW e \in Evictors, PickVictim(e)
    PROVE  TypeOK'
<1> DEFINE r == ev[e]
           id == AtHand(r)
           pc == IF e = "SSD" THEN "erase" ELSE "demote"
<1>1. r \in EvictorType /\ ~WalkDone(r)
  BY DEF TypeOK, Evicting, PickVictim
<1>2. id \in Ids
  BY <1>1, HandType
<1>3. ev' = [ev EXCEPT ![e] = [r EXCEPT !.id = id, !.tier = Top, !.pc = pc]]
  BY DEF PickVictim
<1>4. pc \in {"erase", "demote"}
  OBVIOUS
<1> HIDE DEF r, id, pc
<1>5. [r EXCEPT !.id = id, !.tier = Top, !.pc = pc] \in Evicting
  BY <1>1, <1>2, <1>4, TierFacts DEF Evicting, EvictorType
<1>6. ev' \in [Evictors -> Evicting]
  BY <1>3, <1>5, SetEvictor
<1>7. UNCHANGED <<data, used, counts, visited, cl, owed>>
  BY DEF PickVictim
<1> QED
  BY <1>6, <1>7 DEF TypeOK, StoreOK, Cap

\* Demote looks for its victim, puts a copy one tier down, and drops the one it
\* moved; or goes on to erase.
LEMMA DemoteProbeType ==
    ASSUME TypeOK, NEW e \in Evictors, DemoteProbe(e)
    PROVE  TypeOK'
<1> DEFINE r == ev[e]
<1>1. r \in EvictorType /\ r.id \in Ids /\ r.tier \in Tiers \ {"SSD"} /\ r.pc = "demote"
  BY DEF TypeOK, Evicting, EvictorType, DemoteProbe
<1> HIDE DEF r
<1>2. Holds(r.tier, r.id) => data[r.tier][r.id] \in {"ok", "junk"}
  BY <1>1 DEF Holds, TypeOK, StoreOK
<1>3. \A v \in {"ok", "junk"} :
        [r EXCEPT !.pc = "demoteput", !.span = r.tier, !.stale = FALSE, !.bytes = v] \in Evicting
  BY <1>1 DEF Evicting, EvictorType
<1>4. [r EXCEPT !.tier = "DRAM"] \in Evicting
  BY <1>1, TierFacts DEF Evicting, EvictorType
<1>5. [r EXCEPT !.pc = "erase", !.tier = Top] \in Evicting
  BY <1>1, TierFacts DEF Evicting, EvictorType
<1>6. PICK s \in Evicting : ev' = [ev EXCEPT ![e] = s]
  <2>1. CASE Holds(r.tier, r.id)
    BY <2>1, <1>2, <1>3 DEF DemoteProbe, r
  <2>2. CASE ~Holds(r.tier, r.id) /\ r.tier = "HBM"
    BY <2>2, <1>4 DEF DemoteProbe, r
  <2>3. CASE ~Holds(r.tier, r.id) /\ r.tier # "HBM"
    BY <2>3, <1>5 DEF DemoteProbe, r
  <2> QED
    BY <2>1, <2>2, <2>3
<1>7. ev' \in [Evictors -> Evicting]
  BY <1>6, SetEvictor
<1>8. UNCHANGED <<data, used, counts, visited, cl, owed>>
  BY DEF DemoteProbe
<1> QED
  BY <1>7, <1>8 DEF TypeOK, StoreOK, Cap

\* Demote's Put into the tier below keeps the types and the capacities.
LEMMA DemotePutType ==
    ASSUME TypeOK, NEW e \in Evictors, DemotePut(e)
    PROVE  TypeOK'
<1> DEFINE r == ev[e]
           target == IF r.pc = "demoteput" THEN Below[r.tier] ELSE "SSD"
<1>1. r \in EvictorType /\ r.id \in Ids /\ r.tier \in Tiers \ {"SSD"}
  BY DEF TypeOK, Evicting, EvictorType, DemotePut
<1>2. target \in Tiers
  BY <1>1, TierFacts DEF Tiers
<1> HIDE DEF r, target
<1>3. Copied(r, r.bytes) \subseteq {"ok", "junk"}
  BY <1>1 DEF Copied, EvictorType
<1>4. [r EXCEPT !.pc = "demotedrop", !.span = NoSpan, !.stale = FALSE] \in Evicting
  BY <1>1 DEF Evicting, EvictorType
<1>5. [r EXCEPT !.pc = "demotessd"] \in Evicting
  BY <1>1 DEF Evicting, EvictorType
<1>6. [r EXCEPT !.pc = "erase", !.tier = Top, !.span = NoSpan, !.stale = FALSE] \in Evicting
  BY <1>1, TierFacts DEF Evicting, EvictorType
<1>7. UNCHANGED <<counts, visited, cl, owed>>
  BY DEF DemotePut
<1>8. CASE PutOk(target, r.id)
  <2>1. /\ \E v \in Copied(r, r.bytes) : PutToTier(target, r.id, v)
        /\ ev' = [ev EXCEPT ![e] = [r EXCEPT !.pc = "demotedrop", !.span = NoSpan,
                                             !.stale = FALSE]]
    BY <1>8 DEF DemotePut, r, target
  <2>2. ev' \in [Evictors -> Evicting]
    BY <2>1, <1>4, SetEvictor
  <2>3. PICK v \in {"ok", "junk"} : PutToTier(target, r.id, v)
    BY <2>1, <1>3
  <2>4. StoreOK'
    BY <1>1, <1>2, <1>7, <1>8, <2>3, PutType DEF TypeOK, StoreOK, Cap
  <2> QED
    BY <1>7, <2>2, <2>4 DEF TypeOK
<1>9. CASE ~PutOk(target, r.id)
  <2>1. PICK s \in Evicting : ev' = [ev EXCEPT ![e] = s]
    BY <1>9, <1>5, <1>6 DEF DemotePut, r, target
  <2>2. UNCHANGED <<data, used>>
    BY <1>9 DEF DemotePut, r, target
  <2>3. ev' \in [Evictors -> Evicting]
    BY <2>1, SetEvictor
  <2> QED
    BY <1>7, <2>2, <2>3 DEF TypeOK, StoreOK, Cap
<1> QED
  BY <1>8, <1>9

\* The next step of the walk, with what was freed taken off what is needed.
LEMMA WalkOnType ==
    ASSUME NEW r \in EvictorType, NEW freed \in Int
    PROVE  Minus(r.need, freed) \in Int /\ NextInWalk(r, freed) \in Evicting
<1> DEFINE m == Minus(r.need, freed)
           n == r.step + 1
<1>1. m \in Int
  BY SMTT(40) DEF Minus, EvictorType
<1>2. n \in Nat
  BY SMTT(40) DEF EvictorType
<1>3. r.walk \in Seq(Ids) /\ r.vis \in SUBSET Ids
  BY DEF EvictorType
<1>4. NextInWalk(r, freed) = [IdleEvictor EXCEPT !.pc = "walk", !.walk = r.walk, !.vis = r.vis,
                                                 !.step = n, !.need = m]
  BY DEF NextInWalk
<1>5. IdleEvictor \in EvictorType
  BY IdleType DEF Evicting
<1> HIDE DEF m, n
<1>6. NextInWalk(r, freed) \in Evicting
  BY <1>1, <1>2, <1>3, <1>4, <1>5 DEF Evicting, EvictorType
<1> QED
  BY <1>1, <1>6 DEF m

\* Demote's Erase of the source keeps the types.
LEMMA DemoteDropType ==
    ASSUME TypeOK, NEW e \in Evictors, DemoteDrop(e)
    PROVE  TypeOK'
<1> DEFINE r == ev[e]
           now == [ev EXCEPT ![e] = NextInWalk(r, Size[r.id])]
<1>1. r \in EvictorType /\ r.id \in Ids /\ r.tier \in Tiers
  BY DEF TypeOK, Evicting, EvictorType, DemoteDrop
<1>2. Size[r.id] \in Int
  BY <1>1, TieredAssumption, SMTT(40)
<1>3. now \in [Evictors -> Evicting]
  BY <1>1, <1>2, WalkOnType DEF TypeOK
<1>4. DropCopy(r.tier, r.id, cl, now) /\ UNCHANGED <<counts, visited, owed>>
  BY DEF DemoteDrop
<1> HIDE DEF r, now
<1> QED
  BY <1>1, <1>3, <1>4, DropCopyType DEF TypeOK, StoreOK

\* The eviction of a block that cannot be demoted keeps the types.
LEMMA EraseStepType ==
    ASSUME TypeOK, NEW e \in Evictors, EraseStep(e)
    PROVE  TypeOK'
<1> DEFINE r == ev[e]
           freed == IF Holds(r.tier, r.id) THEN Size[r.id] ELSE 0
           need == Minus(r.need, freed)
           pc == IF r.tier = "SSD" THEN "wipe" ELSE "erase"
           tier == IF r.tier = "SSD" THEN Top ELSE Below[r.tier]
           next == [r EXCEPT !.need = need, !.pc = pc, !.tier = tier]
           now == [ev EXCEPT ![e] = next]
<1>1. r \in EvictorType /\ r.id \in Ids /\ r.tier \in Tiers
  BY DEF TypeOK, Evicting, EvictorType, EraseStep
<1>2. freed \in Int
  BY <1>1, TieredAssumption, SMTT(40)
<1> HIDE DEF freed
<1>3. need \in Int
  BY <1>1, <1>2, WalkOnType
<1>4. pc \in {"wipe", "erase"} /\ tier \in Tiers
  BY <1>1, TierFacts
<1>5. DropCopy(r.tier, r.id, cl, now) /\ owed' = owed \ {r.id} /\ UNCHANGED <<counts, visited>>
  BY DEF EraseStep, freed
<1> HIDE DEF r, need, pc, tier
<1>6. next \in Evicting
  BY <1>1, <1>3, <1>4 DEF Evicting, EvictorType
<1>7. now \in [Evictors -> Evicting]
  BY <1>6 DEF TypeOK
<1> HIDE DEF now
<1> QED
  BY <1>1, <1>5, <1>7, DropCopyType DEF TypeOK, StoreOK

\* Forgetting a block's bookkeeping keeps the types.
LEMMA WipeType ==
    ASSUME TypeOK, NEW e \in Evictors, WipeBookkeeping(e)
    PROVE  TypeOK'
<1> DEFINE r == ev[e]
<1>1. r \in EvictorType /\ r.id \in Ids
  BY DEF TypeOK, Evicting, EvictorType, WipeBookkeeping
<1>2. 0 \in Int /\ 0 \in 0 .. Threshold
  BY TieredAssumption, SMTT(40)
<1>3. counts' \in [Ids -> 0 .. Threshold] /\ visited' \subseteq Ids
  BY <1>1, <1>2 DEF WipeBookkeeping, TypeOK, StoreOK
<1>4. ev' = [ev EXCEPT ![e] = NextInWalk(r, 0)] /\ UNCHANGED <<data, used, cl, owed>>
  BY DEF WipeBookkeeping
<1>5. ev' \in [Evictors -> Evicting]
  BY <1>1, <1>2, <1>4, WalkOnType, SetEvictor
<1> QED
  BY <1>3, <1>4, <1>5 DEF TypeOK, StoreOK, Cap

\* Every reachable state is well typed, and neither memory tier is ever filled
\* beyond its capacity, whatever handlers and Evictors do to it at once: the
\* room is checked and taken under one lock (PutToTier).
THEOREM TypeCorrect == Spec => []TypeOK
<1>1. Init => TypeOK
  <2> SUFFICES ASSUME Init PROVE TypeOK
    OBVIOUS
  <2>1. cl \in [Clients -> Working] /\ ev \in [Evictors -> Evicting]
    BY IdleType DEF Init
  <2>2. counts \in [Ids -> 0 .. Threshold]
    BY TieredAssumption, SMTT(40) DEF Init
  <2>3. \A t \in Tiers \ {"SSD"} : used[t] <= Cap(t)
    BY Capacities, SMTT(40) DEF Init
  <2>4. used \in [Tiers -> Int]
    BY SMTT(40) DEF Init
  <2>5. /\ data \in [Tiers -> [Ids -> {"none", "ok", "junk"}]]
        /\ visited \subseteq Ids /\ owed \subseteq Ids
    BY SMTT(40) DEF Init
  <2> QED
    BY <2>1, <2>2, <2>3, <2>4, <2>5 DEF TypeOK, StoreOK
<1>2. TypeOK /\ [Next]_vars => TypeOK'
  <2> SUFFICES ASSUME TypeOK, [Next]_vars PROVE TypeOK'
    OBVIOUS
  <2>1. CASE UNCHANGED vars
    BY <2>1 DEF vars, TypeOK, StoreOK, Cap
  <2>2. ASSUME NEW c \in Clients, NEW b \in Ids, StartGet(c, b) \/ StartIngest(c, b)
        PROVE  TypeOK'
    BY <2>2, TierFacts, StartType
  <2>3. ASSUME NEW c \in Clients, NEW b \in Ids, NEW h \in Hints, StartInsert(c, b, h)
        PROVE  TypeOK'
    BY <2>3, StartType, TieredAssumption
  <2>4. ASSUME NEW c \in Clients, ClientStep(c)
        PROVE  TypeOK'
    BY <2>4, ProbeType, BumpType, PromoteType, DropColdType, ReadUsedType, PutStepType
       DEF ClientStep
  <2>5. ASSUME NEW e \in Evictors, EvictorStep(e)
        PROVE  TypeOK'
    BY <2>5, PassType, SnapshotType, OverlayType, ClearVisitedType, PickVictimType,
       DemoteProbeType, DemotePutType, DemoteDropType, EraseStepType, WipeType DEF EvictorStep
  <2> QED
    BY <2>1, <2>2, <2>3, <2>4, <2>5 DEF Next
<1> QED
  BY <1>1, <1>2, PTL DEF Spec

-----------------------------------------------------------------------------
(***************************************************************************)
(* What puts and erasures do to the copies of the blocks.                  *)
(***************************************************************************)
\* A put adds the copy it is for and leaves the others alone.
LEMMA PutKeeps ==
    ASSUME StoreOK, NEW t \in Tiers, NEW b \in Ids, NEW v \in {"ok", "junk"},
           PutToTier(t, b, v)
    PROVE  /\ data'[t][b] # "none" /\ data'[t][b] \in {data[t][b], v}
           /\ \A u \in Tiers, d \in Ids : u # t \/ d # b => data'[u][d] = data[u][d]
           /\ \A u \in Tiers : u # t => used'[u] = used[u]
<1>1. data \in [Tiers -> [Ids -> {"none", "ok", "junk"}]] /\ used \in [Tiers -> Int]
  BY DEF StoreOK
<1>2. CASE Holds(t, b)
  BY <1>2 DEF PutToTier, Holds
<1>3. CASE ~Holds(t, b)
  <2>1. data' = [data EXCEPT ![t][b] = v] /\ used' = [used EXCEPT ![t] = @ + Size[b]]
    BY <1>3 DEF PutToTier
  <2>2. data'[t][b] = v
    BY <1>1, <2>1, SMTT(40)
  <2>3. \A u \in Tiers, d \in Ids : u # t \/ d # b => data'[u][d] = data[u][d]
    BY <1>1, <2>1, SMTT(40)
  <2>4. \A u \in Tiers : u # t => used'[u] = used[u]
    BY <1>1, <2>1, SMTT(40)
  <2> QED
    BY <2>2, <2>3, <2>4
<1> QED
  BY <1>2, <1>3

\* An erasure takes one copy away.
LEMMA EraseKeeps ==
    ASSUME StoreOK, NEW t \in Tiers, NEW b \in Ids, EraseFromTier(t, b)
    PROVE  /\ data'[t][b] = "none"
           /\ \A u \in Tiers, d \in Ids : u # t \/ d # b => data'[u][d] = data[u][d]
           /\ \A u \in Tiers : u # t => used'[u] = used[u]
<1>1. data \in [Tiers -> [Ids -> {"none", "ok", "junk"}]] /\ used \in [Tiers -> Int]
  BY DEF StoreOK
<1>2. CASE ~Holds(t, b)
  BY <1>2 DEF EraseFromTier, Holds
<1>3. CASE Holds(t, b)
  <2>1. data' = [data EXCEPT ![t][b] = "none"] /\ used' = [used EXCEPT ![t] = @ - Size[b]]
    BY <1>3 DEF EraseFromTier
  <2>2. data'[t][b] = "none"
    BY <1>1, <2>1, SMTT(40)
  <2>3. \A u \in Tiers, d \in Ids : u # t \/ d # b => data'[u][d] = data[u][d]
    BY <1>1, <2>1, SMTT(40)
  <2>4. \A u \in Tiers : u # t => used'[u] = used[u]
    BY <1>1, <2>1, SMTT(40)
  <2> QED
    BY <2>2, <2>3, <2>4
<1> QED
  BY <1>2, <1>3

\* The tiers above a tier.
LEMMA FasterFacts ==
    /\ Faster["HBM"] = {} /\ Faster["DRAM"] = {"HBM"} /\ Faster["SSD"] = {"HBM", "DRAM"}
    /\ \A t \in Tiers : Faster[t] \subseteq Tiers /\ t \notin Faster[t]
    /\ \A t \in Tiers : \A u \in Faster[t] : Faster[u] \subseteq Faster[t]
    /\ \A t \in Tiers : PromotionTarget(t) # t => PromotionTarget(t) \in Faster[t]
<1>1. Faster["HBM"] = {} /\ Faster["DRAM"] = {"HBM"} /\ Faster["SSD"] = {"HBM", "DRAM"}
  BY DEF Faster
<1>2. \A t \in Tiers : Faster[t] \subseteq Tiers /\ t \notin Faster[t]
  BY <1>1 DEF Tiers
<1>3. \A t \in Tiers : \A u \in Faster[t] : Faster[u] \subseteq Faster[t]
  BY <1>1 DEF Tiers
<1>4. \A t \in Tiers : PromotionTarget(t) # t => PromotionTarget(t) \in Faster[t]
  BY <1>1, SMTT(40) DEF Tiers, PromotionTarget
<1> QED
  BY <1>1, <1>2, <1>3, <1>4

-----------------------------------------------------------------------------
(***************************************************************************)
(* The byte counters.                                                      *)
(***************************************************************************)
\* used_bytes_ of every tier against the blocks it holds, and what bounds those of the SSD.
BytesOK ==
    /\ \A t \in Tiers : used[t] = Total(Size, Held(t))
    /\ Cardinality(Held("SSD")) <= SsdSlots
    /\ \A b \in Held("SSD") : Size[b] <= SlotPayload

\* Any set of blocks has a size.
LEMMA BlockSizes ==
    ASSUME NEW S \in SUBSET Ids
    PROVE  Sizes(Size, S)
BY TieredAssumption, FS_Subset DEF Sizes

\* PutToTier counts the block, when it was not there.
LEMMA PutCounts ==
    ASSUME StoreOK, BytesOK, NEW t \in Tiers, NEW b \in Ids, NEW v \in {"ok", "junk"},
           PutOk(t, b), PutToTier(t, b, v)
    PROVE  BytesOK'
<1>1. CASE Holds(t, b)
  BY <1>1 DEF PutToTier, BytesOK, Held, Holds
<1>2. CASE ~Holds(t, b)
  <2>1. \A u \in Tiers : u # t => Held(u)' = Held(u) /\ used'[u] = used[u]
    BY PutKeeps DEF Held, Holds
  <2>2. b \notin Held(t) /\ Held(t)' = Held(t) \cup {b}
    BY <1>2, PutKeeps DEF Held, Holds
  <2>3. used'[t] = used[t] + Size[b]
    BY <1>2 DEF PutToTier, StoreOK
  <2>4. Sizes(Size, Held(t)) /\ Sizes(Size, Held(t) \cup {b})
    BY BlockSizes DEF Held
  <2>5. Total(Size, Held(t) \cup {b}) = Size[b] + Total(Size, Held(t))
    BY <2>2, <2>4, TotalWith
  <2>6. Total(Size, Held(t)) \in Nat /\ Size[b] \in Nat
    BY <2>4, TotalType, TieredAssumption
  <2>7. used'[t] = Total(Size, Held(t)')
    BY <2>2, <2>3, <2>5, <2>6, SMTT(40) DEF BytesOK
  <2>8. \A u \in Tiers : used'[u] = Total(Size, Held(u)')
    BY <2>1, <2>7 DEF BytesOK
  <2>9. t = "SSD" => /\ Cardinality(Held("SSD")') <= SsdSlots
                     /\ \A d \in Held("SSD")' : Size[d] <= SlotPayload
    <3>1. SUFFICES ASSUME t = "SSD"
                   PROVE  /\ Cardinality(Held("SSD")') <= SsdSlots
                          /\ \A d \in Held("SSD")' : Size[d] <= SlotPayload
      OBVIOUS
    <3>2. Size[b] <= SlotPayload /\ Cardinality(Held("SSD")) < SsdSlots
      BY <1>2, <3>1 DEF PutOk
    <3>3. Cardinality(Held("SSD")') = Cardinality(Held("SSD")) + 1 /\ Cardinality(Held("SSD")) \in Nat
      BY <2>2, <2>4, <3>1, FS_AddElement, FS_CardinalityType DEF Sizes
    <3> QED
      BY <2>2, <3>1, <3>2, <3>3, TieredAssumption, SMTT(40) DEF BytesOK
  <2> QED
    BY <2>1, <2>8, <2>9 DEF BytesOK, Tiers
<1> QED
  BY <1>1, <1>2

\* EraseFromTier takes the block off, when it was there.
LEMMA EraseCounts ==
    ASSUME StoreOK, BytesOK, NEW t \in Tiers, NEW b \in Ids, EraseFromTier(t, b)
    PROVE  BytesOK'
<1>1. CASE ~Holds(t, b)
  BY <1>1 DEF EraseFromTier, BytesOK, Held, Holds
<1>2. CASE Holds(t, b)
  <2>1. \A u \in Tiers : u # t => Held(u)' = Held(u) /\ used'[u] = used[u]
    BY EraseKeeps DEF Held, Holds
  <2>2. b \in Held(t) /\ Held(t)' = Held(t) \ {b}
    BY <1>2, EraseKeeps DEF Held, Holds
  <2>3. used'[t] = used[t] - Size[b]
    BY <1>2 DEF EraseFromTier, StoreOK
  <2>4. Sizes(Size, Held(t)) /\ Sizes(Size, Held(t) \ {b})
    BY BlockSizes DEF Held
  <2>5. Total(Size, Held(t)) = Size[b] + Total(Size, Held(t) \ {b})
    BY <2>2, <2>4, TotalWithout
  <2>6. Total(Size, Held(t) \ {b}) \in Nat /\ Size[b] \in Nat
    BY <2>4, TotalType, TieredAssumption
  <2>7. used'[t] = Total(Size, Held(t)')
    BY <2>2, <2>3, <2>5, <2>6, SMTT(40) DEF BytesOK
  <2>8. \A u \in Tiers : used'[u] = Total(Size, Held(u)')
    BY <2>1, <2>7 DEF BytesOK
  <2>9. t = "SSD" => /\ Cardinality(Held("SSD")') <= SsdSlots
                     /\ \A d \in Held("SSD")' : Size[d] <= SlotPayload
    <3>1. SUFFICES ASSUME t = "SSD"
                   PROVE  /\ Cardinality(Held("SSD")') <= SsdSlots
                          /\ \A d \in Held("SSD")' : Size[d] <= SlotPayload
      OBVIOUS
    <3>2. Cardinality(Held("SSD")') = Cardinality(Held("SSD")) - 1 /\ Cardinality(Held("SSD")) \in Nat
      BY <2>2, <2>4, <3>1, FS_RemoveElement, FS_CardinalityType DEF Sizes
    <3> QED
      BY <2>2, <3>1, <3>2, TieredAssumption, SMTT(40) DEF BytesOK
  <2> QED
    BY <2>1, <2>8, <2>9 DEF BytesOK, Tiers
<1> QED
  BY <1>1, <1>2

\* A thread puts one block in one tier, or takes one out of one, or does neither: whatever
\* promotes, demotes, inserts or evicts holds one tier's lock at a time.
LEMMA OneTierAtATime ==
    ASSUME TypeOK, [Next]_vars
    PROVE  \/ UNCHANGED <<data, used>>
           \/ \E t \in Tiers, b \in Ids, v \in {"ok", "junk"} : PutOk(t, b) /\ PutToTier(t, b, v)
           \/ \E t \in Tiers, b \in Ids : EraseFromTier(t, b)
<1> DEFINE Puts == \E t \in Tiers, b \in Ids, v \in {"ok", "junk"} : PutOk(t, b) /\ PutToTier(t, b, v)
           Erases == \E t \in Tiers, b \in Ids : EraseFromTier(t, b)
           Goal == UNCHANGED <<data, used>> \/ Puts \/ Erases
<1>1. CASE UNCHANGED vars
  BY <1>1 DEF vars
<1>2. ASSUME NEW c \in Clients, NEW b \in Ids, NEW h \in Hints,
             StartGet(c, b) \/ StartIngest(c, b) \/ StartInsert(c, b, h)
      PROVE  Goal
  BY <1>2 DEF StartGet, StartIngest, StartInsert
<1>3. ASSUME NEW c \in Clients, Probe(c) \/ Bump(c) \/ ReadUsed(c)
      PROVE  Goal
  BY <1>3 DEF Probe, Bump, ReadUsed
<1>4. ASSUME NEW c \in Clients, Promote(c)
      PROVE  Goal
  <2>1. /\ cl[c].id \in Ids /\ cl[c].bytes \in {"ok", "junk"}
        /\ PromotionTarget(cl[c].tier) \in Tiers
    BY <1>4, TierFacts DEF Promote, TypeOK, Working, ClientType
  <2> QED
    BY <1>4, <2>1 DEF Promote
<1>5. ASSUME NEW c \in Clients, PutStep(c)
      PROVE  Goal
  <2>1. cl[c].id \in Ids /\ cl[c].tier \in Tiers
    BY <1>5 DEF PutStep, TypeOK, Working, ClientType
  <2> QED
    BY <1>5, <2>1 DEF PutStep
<1>6. ASSUME NEW c \in Clients, DropCold(c)
      PROVE  Goal
  <2>1. cl[c].id \in Ids /\ cl[c].tier \in Tiers
    BY <1>6 DEF DropCold, TypeOK, Working, ClientType
  <2> QED
    BY <1>6, <2>1 DEF DropCold, DropCopy
<1>7. ASSUME NEW e \in Evictors,
             \/ BeginPass(e) \/ TakeSnapshot(e) \/ OverlayVisited(e) \/ EndPass(e)
             \/ ClearVisited(e) \/ PickVictim(e) \/ DemoteProbe(e) \/ WipeBookkeeping(e)
      PROVE  Goal
  BY <1>7 DEF BeginPass, TakeSnapshot, OverlayVisited, EndPass, ClearVisited, PickVictim,
     DemoteProbe, WipeBookkeeping
<1>8. ASSUME NEW e \in Evictors, DemotePut(e)
      PROVE  Goal
  <2> DEFINE target == IF ev[e].pc = "demoteput" THEN Below[ev[e].tier] ELSE "SSD"
  <2>1. /\ ev[e].id \in Ids /\ ev[e].bytes \in {"ok", "junk"}
        /\ ev[e].pc = "demoteput" => ev[e].tier \in Tiers /\ ev[e].tier # "SSD"
    BY <1>8 DEF DemotePut, TypeOK, Evicting, EvictorType
  <2>2. target \in Tiers
    BY <2>1, TierFacts DEF Tiers
  <2>3. \A v \in Copied(ev[e], ev[e].bytes) : v \in {"ok", "junk"}
    BY <2>1 DEF Copied
  <2>4. \/ UNCHANGED <<data, used>>
        \/ PutOk(target, ev[e].id) /\ \E v \in Copied(ev[e], ev[e].bytes) : PutToTier(target, ev[e].id, v)
    BY <1>8 DEF DemotePut
  <2> HIDE DEF target
  <2> QED
    BY <2>1, <2>2, <2>3, <2>4
<1>9. ASSUME NEW e \in Evictors, DemoteDrop(e) \/ EraseStep(e)
      PROVE  Goal
  <2>1. ev[e].id \in Ids /\ ev[e].tier \in Tiers
    BY <1>9 DEF DemoteDrop, EraseStep, TypeOK, Evicting, EvictorType
  <2> QED
    BY <1>9, <2>1 DEF DemoteDrop, EraseStep, DropCopy
<1> HIDE DEF Goal
<1>10. Goal
  <2>1. CASE \E c \in Clients, b \in Ids :
               StartGet(c, b) \/ StartIngest(c, b) \/ \E h \in Hints : StartInsert(c, b, h)
    BY <2>1 DEF StartGet, StartIngest, StartInsert, Goal
  <2>2. ASSUME NEW c \in Clients, ClientStep(c)
        PROVE  Goal
    BY <2>2, <1>3, <1>4, <1>5, <1>6 DEF ClientStep
  <2>3. ASSUME NEW e \in Evictors, EvictorStep(e)
        PROVE  Goal
    BY <2>3, <1>7, <1>8, <1>9 DEF EvictorStep
  <2>4. CASE UNCHANGED vars
    BY <2>4, <1>1 DEF Goal
  <2> QED
    BY <2>1, <2>2, <2>3, <2>4 DEF Next
<1> QED
  BY <1>10 DEF Goal

\* The counters' invariant is kept by every step.
LEMMA BytesStep == TypeOK /\ BytesOK /\ [Next]_vars => BytesOK'
<1> SUFFICES ASSUME TypeOK, BytesOK, [Next]_vars PROVE BytesOK'
  OBVIOUS
<1>1. CASE UNCHANGED <<data, used>>
  BY <1>1 DEF BytesOK, Held, Holds
<1>2. StoreOK
  BY DEF TypeOK
<1> QED
  BY <1>1, <1>2, OneTierAtATime, PutCounts, EraseCounts

\* Empty tiers hold no bytes.
LEMMA BytesInit == Init => BytesOK
<1> SUFFICES ASSUME Init PROVE BytesOK
  OBVIOUS
<1>1. \A t \in Tiers : Held(t) = {} /\ used[t] = 0
  BY DEF Init, Held, Holds
<1>2. "SSD" \in Tiers /\ 0 <= SsdSlots
  BY TieredAssumption DEF Tiers
<1> QED
  BY <1>1, <1>2, TotalOfNone, FS_EmptySet DEF BytesOK

\* used_bytes_ of every tier is at all times the size of the blocks the tier holds, and
\* within its capacity: the memory tiers check the room in bytes, the SSD has a slot for
\* every block.
THEOREM UsedMatchesBlocksHolds == Spec => []UsedMatchesBlocks
<1>1. ASSUME TypeOK, BytesOK
      PROVE  UsedMatchesBlocks
  <2>1. \A t \in Tiers : used[t] = MapThenSumSet(LAMBDA b : Size[b], Held(t))
    BY <1>1, TotalIsSum, Zenon DEF BytesOK
  <2>2. \A t \in Tiers \ {"SSD"} : used[t] <= Cap(t)
    BY <1>1 DEF TypeOK, StoreOK
  <2>3. used["SSD"] <= Cap("SSD")
    <3> DEFINE n == Cardinality(Held("SSD"))
    <3>1. Sizes(Size, Held("SSD")) /\ n \in Nat
      BY BlockSizes, FS_CardinalityType DEF Sizes, Held
    <3>2. Total(Size, Held("SSD")) <= n * SlotPayload
      BY <1>1, <3>1, TotalBound, TieredAssumption DEF Sizes, BytesOK
    <3>3. n <= SsdSlots /\ SsdSlots \in Nat /\ SlotPayload \in Nat
      BY <1>1, TieredAssumption DEF BytesOK
    <3>4. Total(Size, Held("SSD")) \in Nat
      BY <3>1, TotalType
    <3>5. used["SSD"] = Total(Size, Held("SSD")) /\ Cap("SSD") = SsdSlots * SlotPayload
      BY <1>1 DEF BytesOK, Tiers, Cap
    <3> HIDE DEF n
    <3>6. \A i, j, k \in Nat : i <= j => i * k <= j * k /\ i * k \in Nat /\ j * k \in Nat
      BY SMTT(40)
    <3> QED
      BY <3>1, <3>2, <3>3, <3>4, <3>5, <3>6, SMTT(40)
  <2> QED
    BY <2>1, <2>2, <2>3 DEF UsedMatchesBlocks
<1> QED
  BY <1>1, BytesInit, BytesStep, TypeCorrect, PTL DEF Spec

-----------------------------------------------------------------------------
(***************************************************************************)
(* Promotions while no Evictor has a pass to run.                          *)
(***************************************************************************)
\* An Evictor under its watermark stays idle.
LEMMA NoPass ==
    ASSUME TypeOK, NEW e \in Evictors, ev[e] = IdleEvictor, used[e] <= High(e)
    PROVE  ~EvictorStep(e)
<1>1. ev[e].pc = "idle"
  BY DEF IdleEvictor
<1>2. used[e] \in Int
  BY TierFacts DEF TypeOK, StoreOK
<1>3. High(e) \in Int
  <2>1. Cap(e) \in Int /\ HighPct \in Int
    BY TierFacts, TieredAssumption, SMTT(40) DEF Cap, Tiers
  <2> QED
    BY <2>1, SMTT(40) DEF High
<1>4. ~(used[e] > High(e))
  BY <1>2, <1>3, SMTT(40)
<1> QED
  BY <1>1, <1>4, ZenonT(40)
     DEF EvictorStep, BeginPass, TakeSnapshot, OverlayVisited, EndPass, ClearVisited,
         PickVictim, DemoteProbe, DemotePut, DemoteDrop, EraseStep, WipeBookkeeping

\* A step of one handler that takes no copy away keeps the invariant, when the
\* handler's own next step is fit to be taken and what it put is there.
LEMMA PromotionKept ==
    ASSUME TypeOK, PromotionOK, NEW c \in Clients, NEW n,
           cl' = [cl EXCEPT ![c] = n], ev' = ev,
           n.pc = "promote" => PromotionTarget(n.tier) # n.tier,
           n.pc = "dropcold" => \E t \in Faster[n.tier] : data'[t][n.id] # "none",
           \A t \in Tiers, b \in Ids : data[t][b] # "none" => data'[t][b] # "none",
           \A b \in owed' : b \in owed \/ \E t \in Tiers : data'[t][b] # "none"
    PROVE  PromotionOK'
<1>1. cl'[c] = n /\ \A d \in Clients : d # c => cl'[d] = cl[d]
  BY DEF TypeOK
<1>2. ASSUME NEW d \in Clients, d # c, cl[d].pc = "dropcold"
      PROVE  \E t \in Faster[cl[d].tier] : data'[t][cl[d].id] # "none"
  <2>1. cl[d].id \in Ids /\ cl[d].tier \in Tiers
    BY <1>2 DEF TypeOK, Working, ClientType
  <2>2. PICK t \in Faster[cl[d].tier] : data[t][cl[d].id] # "none"
    BY <1>2 DEF PromotionOK, Holds
  <2> QED
    BY <2>1, <2>2, FasterFacts
<1>3. \A d \in Clients :
        /\ cl'[d].pc = "promote" => PromotionTarget(cl'[d].tier) # cl'[d].tier
        /\ cl'[d].pc = "dropcold" => \E t \in Faster[cl'[d].tier] : data'[t][cl'[d].id] # "none"
  BY <1>1, <1>2, SMTT(40) DEF PromotionOK
<1>4. \A b \in owed' : \E t \in Tiers : data'[t][b] # "none"
  <2> TAKE b \in owed'
  <2>1. CASE b \in owed
    <3>1. PICK t \in Tiers : data[t][b] # "none"
      BY <2>1 DEF PromotionOK, NoSilentLoss, Present, Holds
    <3>2. b \in Ids
      BY <2>1 DEF TypeOK, StoreOK
    <3> QED
      BY <3>1, <3>2
  <2> QED
    BY <2>1
<1> QED
  BY <1>3, <1>4, ZenonT(40)
     DEF PromotionOK, NoSilentLoss, Present, Holds, PromotionTarget, IdleEvictor, Top

\* Requests arrive, tiers are probed, counters are read: nothing is moved.
LEMMA QuietMoves ==
    ASSUME TypeOK, NEW c \in Clients, NEW b \in Ids, NEW h \in Tiers,
           \/ StartGet(c, b) \/ StartIngest(c, b) \/ StartInsert(c, b, h)
           \/ Probe(c) \/ ReadUsed(c)
    PROVE  /\ UNCHANGED <<data, used, ev, owed>>
           /\ \E n : n.pc \notin {"promote", "dropcold"} /\ cl' = [cl EXCEPT ![c] = n]
<1> DEFINE Calmly(n) == n.pc \notin {"promote", "dropcold"}
<1>1. UNCHANGED <<data, used, ev, owed>>
  BY DEF StartGet, StartIngest, StartInsert, Probe, ReadUsed
<1>2. cl[c] \in ClientType /\ IdleClient \in ClientType
  BY IdleType DEF TypeOK, Working
<1>3. Calmly(IdleClient) /\ \A x : Calmly([IdleClient EXCEPT !.accepted = x])
  BY <1>2 DEF IdleClient
<1>4. CASE StartGet(c, b) \/ StartIngest(c, b) \/ StartInsert(c, b, h)
  <2>1. /\ [IdleClient EXCEPT !.pc = "probe", !.id = b].pc = "probe"
        /\ [IdleClient EXCEPT !.pc = "before", !.op = "insert", !.id = b, !.hint = h].pc = "before"
        /\ [IdleClient EXCEPT !.pc = "put", !.op = "ingest", !.id = b, !.tier = "DRAM"].pc = "put"
    BY DEF IdleClient
  <2>2. PICK n : Calmly(n) /\ cl' = [cl EXCEPT ![c] = n]
    BY <1>4, <2>1 DEF StartGet, StartIngest, StartInsert
  <2> QED
    BY <1>1, <2>2
<1>5. CASE Probe(c)
  <2> DEFINE r == cl[c]
  <2>1. \A v, s : [r EXCEPT !.pc = "bump", !.bytes = v, !.span = s].pc = "bump"
    BY <1>2 DEF ClientType
  <2>2. \A t : [r EXCEPT !.tier = t].pc = r.pc
    BY <1>2 DEF ClientType
  <2>3. r.pc = "probe"
    BY <1>5 DEF Probe
  <2> HIDE DEF r
  <2>4. PICK n : Calmly(n) /\ cl' = [cl EXCEPT ![c] = n]
    <3>1. CASE Holds(r.tier, r.id)
      BY <3>1, <1>5, <2>1 DEF Probe, r
    <3>2. CASE ~Holds(r.tier, r.id) /\ r.tier # "SSD"
      BY <3>2, <1>5, <2>2, <2>3 DEF Probe, r
    <3>3. CASE ~Holds(r.tier, r.id) /\ r.tier = "SSD"
      BY <3>3, <1>5, <1>3 DEF Probe, r
    <3> QED
      BY <3>1, <3>2, <3>3
  <2> QED
    BY <1>1, <2>4
<1>6. CASE ReadUsed(c)
  <2> DEFINE r == cl[c]
  <2>1. \A s, t : [r EXCEPT !.sum = s, !.tier = t].pc = r.pc
    BY <1>2 DEF ClientType
  <2>2. \A u, s, t : [r EXCEPT !.pc = "put", !.base = u, !.sum = s, !.tier = t].pc = "put"
    BY <1>2 DEF ClientType
  <2>3. r.pc \in {"before", "after"}
    BY <1>6 DEF ReadUsed
  <2> HIDE DEF r
  <2>4. PICK n : Calmly(n) /\ cl' = [cl EXCEPT ![c] = n]
    <3>1. CASE r.tier # "SSD"
      BY <3>1, <1>6, <2>1, <2>3 DEF ReadUsed, r
    <3>2. CASE r.tier = "SSD" /\ r.pc = "before"
      BY <3>2, <1>6, <2>2 DEF ReadUsed, r
    <3>3. CASE r.tier = "SSD" /\ r.pc # "before"
      BY <3>3, <1>6, <1>3 DEF ReadUsed, r
    <3> QED
      BY <3>1, <3>2, <3>3
  <2> QED
    BY <1>1, <2>4
<1> QED
  BY <1>4, <1>5, <1>6

\* The steps of a handler that write no tier lose no block.
LEMMA QuietPromotion ==
    ASSUME TypeOK, PromotionOK, NEW c \in Clients, NEW b \in Ids, NEW h \in Tiers,
           \/ StartGet(c, b) \/ StartIngest(c, b) \/ StartInsert(c, b, h)
           \/ Probe(c) \/ ReadUsed(c)
    PROVE  PromotionOK'
<1>1. PICK n : n.pc \notin {"promote", "dropcold"} /\ cl' = [cl EXCEPT ![c] = n]
  BY QuietMoves
<1>2. UNCHANGED <<data, ev, owed>>
  BY QuietMoves
<1> QED
  BY <1>1, <1>2, PromotionKept

\* Get decides to promote only to a faster tier.
LEMMA BumpPromotion ==
    ASSUME TypeOK, PromotionOK, NEW c \in Clients, Bump(c)
    PROVE  PromotionOK'
<1> DEFINE r == cl[c]
<1>1. r \in ClientType
  BY DEF TypeOK, Working
<1> HIDE DEF r
<1>2. \A v : LET n == [r EXCEPT !.pc = "promote", !.bytes = v, !.span = NoSpan, !.stale = FALSE]
             IN  n.pc = "promote" /\ n.tier = r.tier
  BY <1>1 DEF ClientType
<1>3. \A v : [IdleClient EXCEPT !.bytes = v].pc = "idle"
  BY DEF IdleClient
<1>4. PICK n : /\ cl' = [cl EXCEPT ![c] = n]
               /\ n.pc # "dropcold"
               /\ n.pc = "promote" => PromotionTarget(n.tier) # n.tier
  <2>1. CASE PromotionTarget(r.tier) = r.tier
    <3>1. PICK v : cl' = [cl EXCEPT ![c] = [IdleClient EXCEPT !.bytes = v]]
      BY <2>1 DEF Bump, r
    <3> QED
      BY <3>1, <1>3
  <2>2. CASE PromotionTarget(r.tier) # r.tier
    <3>1. PICK v : \/ cl' = [cl EXCEPT ![c] = [IdleClient EXCEPT !.bytes = v]]
                   \/ cl' = [cl EXCEPT ![c] = [r EXCEPT !.pc = "promote", !.bytes = v,
                                                        !.span = NoSpan, !.stale = FALSE]]
      BY DEF Bump, r
    <3>2. CASE cl' = [cl EXCEPT ![c] = [IdleClient EXCEPT !.bytes = v]]
      BY <3>2, <1>3
    <3> DEFINE n == [r EXCEPT !.pc = "promote", !.bytes = v, !.span = NoSpan, !.stale = FALSE]
    <3>3. n.pc = "promote" /\ n.tier = r.tier
      BY <1>2
    <3>4. CASE cl' = [cl EXCEPT ![c] = n]
      BY <3>3, <3>4, <2>2
    <3> QED
      BY <3>1, <3>2, <3>4
  <2> QED
    BY <2>1, <2>2
<1>5. UNCHANGED <<data, ev, owed>>
  BY DEF Bump
<1> QED
  BY <1>4, <1>5, PromotionKept

\* A promotion goes on to drop the cold copy only when the faster tier has one.
LEMMA PromotePromotion ==
    ASSUME TypeOK, PromotionOK, NEW c \in Clients, Promote(c)
    PROVE  PromotionOK'
<1> DEFINE r == cl[c]
           target == PromotionTarget(r.tier)
<1>1. r \in ClientType /\ r.pc = "promote" /\ r.id \in Ids /\ r.tier \in Tiers
      /\ r.bytes \in {"ok", "junk"}
  BY DEF Promote, TypeOK, Working, ClientType
<1>2. target \in Tiers /\ target \in Faster[r.tier]
  BY <1>1, TierFacts, FasterFacts DEF PromotionOK
<1> HIDE DEF r, target
<1>3. UNCHANGED <<ev, owed>>
  BY DEF Promote
<1>4. CASE PutOk(target, r.id)
  <2> DEFINE n == [r EXCEPT !.pc = "dropcold"]
  <2>1. PutToTier(target, r.id, r.bytes) /\ cl' = [cl EXCEPT ![c] = n]
    BY <1>4 DEF Promote, r, target
  <2>2. n.pc = "dropcold" /\ n.id = r.id /\ n.tier = r.tier
    BY <1>1 DEF ClientType
  <2> HIDE DEF n
  <2>3. /\ data'[target][r.id] # "none"
        /\ \A u \in Tiers, d \in Ids : data[u][d] # "none" => data'[u][d] # "none"
    BY <1>1, <1>2, <2>1, PutKeeps, SMTT(40) DEF TypeOK
  <2> QED
    BY <1>2, <1>3, <2>1, <2>2, <2>3, PromotionKept
<1>5. CASE ~PutOk(target, r.id)
  <2>1. cl' = [cl EXCEPT ![c] = [IdleClient EXCEPT !.bytes = r.bytes]] /\ UNCHANGED data
    BY <1>5 DEF Promote, r, target
  <2>2. [IdleClient EXCEPT !.bytes = r.bytes].pc = "idle"
    BY DEF IdleClient
  <2> QED
    BY <1>3, <2>1, <2>2, PromotionKept
<1> QED
  BY <1>4, <1>5

\* Put puts good bytes in a tier that has room, or goes one tier down.
LEMMA PutMoves ==
    ASSUME TypeOK, NEW c \in Clients, PutStep(c)
    PROVE  /\ ev' = ev
           /\ \E n : n.pc \notin {"promote", "dropcold"} /\ cl' = [cl EXCEPT ![c] = n]
           /\ \/ UNCHANGED <<data, used, owed>>
              \/ \E t \in Tiers, b \in Ids :
                    PutOk(t, b) /\ PutToTier(t, b, "ok") /\ owed' = owed \cup {b}
<1> DEFINE r == cl[c]
<1>1. r \in ClientType /\ r.pc = "put" /\ r.id \in Ids /\ r.tier \in Tiers
  BY DEF PutStep, TypeOK, Working, ClientType
<1> HIDE DEF r
<1>2. /\ \A t, f : [r EXCEPT !.pc = "after", !.tier = t, !.fresh = f].pc = "after"
      /\ \A t : [r EXCEPT !.tier = t].pc = "put"
      /\ IdleClient.pc = "idle"
  BY <1>1 DEF ClientType, IdleClient
<1>3. \E n : n.pc \notin {"promote", "dropcold"} /\ cl' = [cl EXCEPT ![c] = n]
  BY <1>2 DEF PutStep, r
<1>4. \/ UNCHANGED <<data, used, owed>>
      \/ \E t \in Tiers, b \in Ids :
            PutOk(t, b) /\ PutToTier(t, b, "ok") /\ owed' = owed \cup {b}
  BY <1>1 DEF PutStep, r
<1>5. ev' = ev
  BY DEF PutStep
<1> QED
  BY <1>3, <1>4, <1>5

\* What Put puts is there.
LEMMA PutStepPromotion ==
    ASSUME TypeOK, PromotionOK, NEW c \in Clients, PutStep(c)
    PROVE  PromotionOK'
<1>1. PICK n : n.pc \notin {"promote", "dropcold"} /\ cl' = [cl EXCEPT ![c] = n]
  BY PutMoves
<1>2. ev' = ev
  BY PutMoves
<1>3. CASE UNCHANGED <<data, used, owed>>
  BY <1>1, <1>2, <1>3, PromotionKept
<1>4. ASSUME NEW t \in Tiers, NEW b \in Ids, PutToTier(t, b, "ok"), owed' = owed \cup {b}
      PROVE  PromotionOK'
  <2>1. /\ data'[t][b] # "none"
        /\ \A u \in Tiers, d \in Ids : data[u][d] # "none" => data'[u][d] # "none"
    BY <1>4, PutKeeps, SMTT(40) DEF TypeOK
  <2>2. \A d \in owed' : d \in owed \/ \E u \in Tiers : data'[u][d] # "none"
    BY <1>4, <2>1
  <2> QED
    BY <1>1, <1>2, <2>1, <2>2, PromotionKept
<1> QED
  BY <1>3, <1>4, PutMoves

\* Nothing dangles in an idle Evictor.
LEMMA IdleSpans ==
    ASSUME NEW t \in Tiers, NEW b \in Ids
    PROVE  Dangle(IdleEvictor, t, b) = IdleEvictor
<1>1. IdleEvictor.span = "none"
  BY DEF IdleEvictor, NoSpan
<1> QED
  BY <1>1 DEF Dangle, Tiers

\* Dropping the cold copy leaves the faster one the handler knows of; another
\* handler that knew of the dropped one knows of that.
LEMMA DropColdPromotion ==
    ASSUME TypeOK, PromotionOK, NEW c \in Clients, DropCold(c)
    PROVE  PromotionOK'
<1> DEFINE r == cl[c]
           idle == [IdleClient EXCEPT !.bytes = r.bytes]
           now == [cl EXCEPT ![c] = idle]
<1>1. r.pc = "dropcold" /\ r.id \in Ids /\ r.tier \in Tiers /\ r.bytes \in {"ok", "junk"}
  BY DEF DropCold, TypeOK, Working, ClientType
<1>2. PICK f \in Faster[r.tier] : data[f][r.id] # "none"
  BY <1>1 DEF PromotionOK, Holds
<1>3. f \in Tiers /\ f # r.tier
  BY <1>1, <1>2, FasterFacts
<1>4. DropCopy(r.tier, r.id, now, ev) /\ owed' = owed
  BY DEF DropCold
<1>5. \A u \in Tiers, d \in Ids : u # r.tier \/ d # r.id => data'[u][d] = data[u][d]
  BY <1>1, <1>4, EraseKeeps DEF DropCopy, TypeOK
<1>6. idle \in Working /\ idle.pc = "idle"
  BY <1>1, IdleType DEF Working, ClientType, IdleClient
<1>7. now[c] = idle /\ \A d \in Clients : d # c => now[d] = cl[d]
  BY DEF TypeOK
<1> HIDE DEF idle, now
<1>8. \A d \in Clients : now[d] \in Working /\ cl'[d] = Dangle(now[d], r.tier, r.id)
  BY <1>4, <1>6, <1>7 DEF DropCopy, TypeOK
<1>9. \A d \in Clients : SameFields(cl'[d], now[d])
  BY <1>1, <1>8, DangleClient, SMTT(40)
<1>10. ev' = [e \in Evictors |-> IdleEvictor]
  BY <1>1, <1>4, IdleSpans DEF DropCopy, PromotionOK
<1>11. ASSUME NEW d \in Clients, cl'[d].pc \in {"promote", "dropcold"}
       PROVE  /\ d # c /\ cl'[d].pc = cl[d].pc /\ cl'[d].tier = cl[d].tier /\ cl'[d].id = cl[d].id
              /\ cl[d].tier \in Tiers /\ cl[d].id \in Ids
  <2>1. d # c
    BY <1>11, <1>6, <1>7, <1>9 DEF SameFields
  <2>2. cl'[d].pc = cl[d].pc /\ cl'[d].tier = cl[d].tier /\ cl'[d].id = cl[d].id
    BY <2>1, <1>7, <1>9 DEF SameFields
  <2>3. cl[d].tier \in Tiers /\ cl[d].id \in Ids
    BY <1>11, <2>2 DEF TypeOK, Working, ClientType
  <2> QED
    BY <2>1, <2>2, <2>3
<1>12. ASSUME NEW d \in Clients, cl'[d].pc = "dropcold"
       PROVE  \E t \in Faster[cl'[d].tier] : data'[t][cl'[d].id] # "none"
  <2>1. /\ cl[d].pc = "dropcold" /\ cl'[d].tier = cl[d].tier /\ cl'[d].id = cl[d].id
        /\ cl[d].tier \in Tiers /\ cl[d].id \in Ids
    BY <1>11, <1>12
  <2>2. PICK t \in Faster[cl[d].tier] : data[t][cl[d].id] # "none"
    BY <2>1 DEF PromotionOK, Holds
  <2>3. t \in Tiers
    BY <2>1, <2>2, FasterFacts
  <2>4. CASE t # r.tier \/ cl[d].id # r.id
    BY <2>1, <2>2, <2>3, <2>4, <1>5, SMTT(40)
  <2>5. CASE t = r.tier /\ cl[d].id = r.id
    <3>1. f \in Faster[cl[d].tier]
      BY <2>1, <2>2, <2>5, <1>2, FasterFacts
    <3>2. data'[f][r.id] # "none"
      BY <1>1, <1>2, <1>3, <1>5
    <3> QED
      BY <2>1, <2>5, <3>1, <3>2
  <2> QED
    BY <2>4, <2>5
<1>13. \A d \in Clients :
         cl'[d].pc = "promote" => PromotionTarget(cl'[d].tier) # cl'[d].tier
  BY <1>11 DEF PromotionOK
<1>14. \A b \in owed' : \E t \in Tiers : data'[t][b] # "none"
  <2> TAKE b \in owed'
  <2>1. b \in Ids /\ b \in owed
    BY <1>4 DEF TypeOK, StoreOK
  <2>2. PICK t \in Tiers : data[t][b] # "none"
    BY <2>1 DEF PromotionOK, NoSilentLoss, Present, Holds
  <2>3. CASE t # r.tier \/ b # r.id
    BY <2>1, <2>2, <2>3, <1>5
  <2>4. CASE b = r.id
    BY <2>1, <2>4, <1>2, <1>3, <1>5
  <2> QED
    BY <2>3, <2>4
<1> QED
  BY <1>10, <1>12, <1>13, <1>14, ZenonT(40)
     DEF PromotionOK, NoSilentLoss, Present, Holds, PromotionTarget, IdleEvictor, Top

\* The step of any thread.
LEMMA PromotionStep ==
    ASSUME TypeOK, PromotionOK, Calm, [Next]_vars
    PROVE  PromotionOK'
<1>1. CASE UNCHANGED vars
  BY <1>1, ZenonT(40)
     DEF vars, PromotionOK, NoSilentLoss, Present, Holds, PromotionTarget, IdleEvictor, Top
<1>2. ASSUME NEW c \in Clients, NEW b \in Ids, StartGet(c, b) \/ StartIngest(c, b)
      PROVE  PromotionOK'
  BY <1>2, TierFacts, QuietPromotion
<1>3. ASSUME NEW c \in Clients, NEW b \in Ids, NEW h \in Hints, StartInsert(c, b, h)
      PROVE  PromotionOK'
  BY <1>3, TieredAssumption, QuietPromotion
<1>4. ASSUME NEW c \in Clients, ClientStep(c)
      PROVE  PromotionOK'
  <2>1. CASE Probe(c) \/ ReadUsed(c)
    <3>1. cl[c].id \in Ids
      BY <2>1 DEF Probe, ReadUsed, TypeOK, Working
    <3> QED
      BY <2>1, <3>1, TierFacts, QuietPromotion
  <2> QED
    BY <1>4, <2>1, BumpPromotion, PromotePromotion, DropColdPromotion, PutStepPromotion
       DEF ClientStep
<1>5. ASSUME NEW e \in Evictors, EvictorStep(e)
      PROVE  FALSE
  BY <1>5, NoPass DEF Calm, PromotionOK
<1> QED
  BY <1>1, <1>2, <1>3, <1>4, <1>5 DEF Next

\* Nothing is held and nobody is at work when the node starts.
LEMMA PromotionInit == Init => PromotionOK
<1> SUFFICES ASSUME Init PROVE PromotionOK
  OBVIOUS
<1>1. \A c \in Clients : cl[c].pc = "idle"
  BY DEF Init, IdleClient
<1> QED
  BY <1>1 DEF Init, PromotionOK, NoSilentLoss

\* As long as no tier is over its watermark, so that no Evictor has a pass to
\* run, Get's promotions lose no block, however many handlers read, promote and
\* put at once: the cold copy is dropped only after the faster tier has one
\* (tiered_store.cpp, TieredStore::Get).
THEOREM PromotionsKeepBlocks == Spec /\ []Calm => []NoSilentLoss
<1>1. TypeOK /\ PromotionOK /\ Calm /\ [Next]_vars => PromotionOK'
  BY PromotionStep
<1>2. PromotionOK => NoSilentLoss
  BY DEF PromotionOK
<1> QED
  BY <1>1, <1>2, PromotionInit, TypeCorrect, PTL DEF Spec

-----------------------------------------------------------------------------
(***************************************************************************)
(* Reads without HBM, while no Evictor has a pass to run.                  *)
(***************************************************************************)
\* An absent HBM takes no block.
LEMMA HbmTakesNothing ==
    ASSUME HbmBytes = 0, TypeOK, HbmAbsent, NEW b \in Ids
    PROVE  ~PutOk("HBM", b)
<1>1. ~Holds("HBM", b)
  BY DEF HbmAbsent, Held
<1>2. Size[b] \in Nat \ {0} /\ used["HBM"] = 0 /\ Cap("HBM") = 0
  BY TieredAssumption, Capacities DEF HbmAbsent
<1>3. ~(used["HBM"] + Size[b] <= Cap("HBM"))
  BY <1>2, SMTT(40)
<1> QED
  BY <1>1, <1>3 DEF PutOk

\* Puts of good bytes keep it empty, and keep all copies good.
LEMMA GoodPut ==
    ASSUME HbmBytes = 0, TypeOK, HbmAbsent, CopiesAreIntact,
           \/ UNCHANGED <<data, used>>
           \/ \E t \in Tiers, b \in Ids : PutOk(t, b) /\ PutToTier(t, b, "ok")
    PROVE  HbmAbsent' /\ CopiesAreIntact'
<1>1. CASE UNCHANGED <<data, used>>
  BY <1>1 DEF HbmAbsent, Held, Holds, CopiesAreIntact
<1>2. ASSUME NEW t \in Tiers, NEW b \in Ids, PutOk(t, b), PutToTier(t, b, "ok")
      PROVE  HbmAbsent' /\ CopiesAreIntact'
  <2>1. t # "HBM" /\ "HBM" \in Tiers
    BY <1>2, HbmTakesNothing DEF Tiers
  <2>2. /\ data'[t][b] \in {data[t][b], "ok"}
        /\ \A u \in Tiers, d \in Ids : u # t \/ d # b => data'[u][d] = data[u][d]
        /\ \A u \in Tiers : u # t => used'[u] = used[u]
    BY <1>2, PutKeeps DEF TypeOK
  <2>3. used'["HBM"] = used["HBM"] /\ \A d \in Ids : data'["HBM"][d] = data["HBM"][d]
    BY <2>1, <2>2
  <2>4. HbmAbsent'
    BY <2>3 DEF HbmAbsent, Held, Holds
  <2>5. \A u \in Tiers, d \in Ids : data'[u][d] # "junk"
    BY <2>2, SMTT(40) DEF CopiesAreIntact
  <2> QED
    BY <2>4, <2>5 DEF CopiesAreIntact
<1> QED
  BY <1>1, <1>2

\* The record of a handler whose bytes are good and whose span holds.
Good(n) == ~n.stale /\ n.span # "SSD" /\ n.bytes = "ok"

\* A handler that at most puts a whole copy leaves every borrowed span valid.
LEMMA BorrowedKept ==
    ASSUME HbmBytes = 0, TypeOK, BorrowedOK, NEW c \in Clients, NEW n, Good(n),
           cl' = [cl EXCEPT ![c] = n],
           \/ UNCHANGED <<data, used>>
           \/ \E t \in Tiers, b \in Ids : PutOk(t, b) /\ PutToTier(t, b, "ok")
    PROVE  BorrowedOK'
<1>1. HbmAbsent' /\ CopiesAreIntact'
  BY GoodPut DEF BorrowedOK
<1>2. \A d \in Clients : Good(cl'[d])
  BY DEF BorrowedOK, ReadsAreIntact, Good, TypeOK
<1> QED
  BY <1>1, <1>2 DEF BorrowedOK, ReadsAreIntact, Good

\* Without HBM and with idle Evictors, no step frees bytes that a handler has borrowed.
LEMMA BorrowedStep ==
    ASSUME HbmBytes = 0, TypeOK, PromotionOK, BorrowedOK, Calm, [Next]_vars
    PROVE  BorrowedOK'
<1>1. CASE UNCHANGED vars
  BY <1>1 DEF vars, BorrowedOK, HbmAbsent, Held, Holds, ReadsAreIntact, CopiesAreIntact
<1>2. IdleClient \in ClientType /\ Good(IdleClient)
  BY IdleType DEF Working, Good, IdleClient, NoSpan
<1>3. ASSUME NEW c \in Clients, NEW b \in Ids, NEW h,
             StartGet(c, b) \/ StartIngest(c, b) \/ StartInsert(c, b, h)
      PROVE  BorrowedOK'
  <2>1. /\ Good([IdleClient EXCEPT !.pc = "probe", !.id = b])
        /\ Good([IdleClient EXCEPT !.pc = "before", !.op = "insert", !.id = b, !.hint = h])
        /\ Good([IdleClient EXCEPT !.pc = "put", !.op = "ingest", !.id = b, !.tier = "DRAM"])
    BY <1>2 DEF Good, ClientType
  <2>2. PICK n : Good(n) /\ cl' = [cl EXCEPT ![c] = n]
    BY <1>3, <2>1 DEF StartGet, StartIngest, StartInsert
  <2>3. UNCHANGED <<data, used>>
    BY <1>3 DEF StartGet, StartIngest, StartInsert
  <2> QED
    BY <2>2, <2>3, BorrowedKept
<1>4. ASSUME NEW c \in Clients, ClientStep(c)
      PROVE  BorrowedOK'
  <2> DEFINE r == cl[c]
  <2>1. r \in ClientType /\ Good(r) /\ r.id \in Ids /\ r.tier \in Tiers
    <3>1. r \in ClientType /\ Good(r)
      BY DEF TypeOK, Working, BorrowedOK, ReadsAreIntact, Good
    <3>2. r.pc # "idle"
      BY <1>4 DEF ClientStep, Probe, Bump, Promote, DropCold, ReadUsed, PutStep
    <3> QED
      BY <3>1, <3>2 DEF TypeOK, Working, ClientType
  <2> HIDE DEF r
  <2>2. CASE Probe(c)
    <3>1. \A s : s # "SSD" => Good([r EXCEPT !.pc = "bump", !.bytes = "ok", !.span = s])
      BY <2>1 DEF Good, ClientType
    <3>2. \A t : Good([r EXCEPT !.tier = t])
      BY <2>1 DEF Good, ClientType
    <3>3. Holds(r.tier, r.id) => data[r.tier][r.id] = "ok"
      BY <2>1 DEF Holds, BorrowedOK, CopiesAreIntact, TypeOK, StoreOK
    <3>4. PICK n : Good(n) /\ cl' = [cl EXCEPT ![c] = n]
      <4>1. CASE Holds(r.tier, r.id)
        <5>1. (IF r.tier = "SSD" THEN NoSpan ELSE r.tier) # "SSD"
          BY DEF NoSpan
        <5> QED
          BY <2>2, <3>1, <3>3, <4>1, <5>1 DEF Probe, r
      <4>2. CASE ~Holds(r.tier, r.id) /\ r.tier # "SSD"
        BY <2>2, <3>2, <4>2 DEF Probe, r
      <4>3. CASE ~Holds(r.tier, r.id) /\ r.tier = "SSD"
        BY <2>2, <1>2, <4>3 DEF Probe, r
      <4> QED
        BY <4>1, <4>2, <4>3
    <3>5. UNCHANGED <<data, used>>
      BY <2>2 DEF Probe
    <3> QED
      BY <3>4, <3>5, BorrowedKept
  <2>3. CASE Bump(c)
    <3>1. Copied(r, r.bytes) = {"ok"}
      BY <2>1 DEF Copied, Good
    <3>2. /\ Good([r EXCEPT !.pc = "promote", !.bytes = "ok", !.span = NoSpan, !.stale = FALSE])
          /\ Good([IdleClient EXCEPT !.bytes = "ok"])
      BY <1>2, <2>1 DEF Good, ClientType, NoSpan
    <3>3. PICK n : Good(n) /\ cl' = [cl EXCEPT ![c] = n]
      BY <2>3, <3>1, <3>2 DEF Bump, r
    <3>4. UNCHANGED <<data, used>>
      BY <2>3 DEF Bump
    <3> QED
      BY <3>3, <3>4, BorrowedKept
  <2>4. CASE Promote(c)
    <3>1. /\ Good([r EXCEPT !.pc = "dropcold"])
          /\ Good([IdleClient EXCEPT !.bytes = r.bytes])
      BY <1>2, <2>1 DEF Good, ClientType
    <3>2. PICK n : Good(n) /\ cl' = [cl EXCEPT ![c] = n]
      BY <2>4, <3>1 DEF Promote, r
    <3>3. r.bytes = "ok" /\ PromotionTarget(r.tier) \in Tiers
      BY <2>1, TierFacts DEF Good
    <3>4. \/ UNCHANGED <<data, used>>
          \/ \E t \in Tiers, b \in Ids : PutOk(t, b) /\ PutToTier(t, b, "ok")
      BY <2>1, <2>4, <3>3 DEF Promote, r
    <3> QED
      BY <3>2, <3>4, BorrowedKept
  <2>5. CASE ReadUsed(c)
    <3>1. /\ \A s, t : Good([r EXCEPT !.sum = s, !.tier = t])
          /\ \A u, s, t : Good([r EXCEPT !.pc = "put", !.base = u, !.sum = s, !.tier = t])
          /\ \A x : Good([IdleClient EXCEPT !.accepted = x])
      BY <1>2, <2>1 DEF Good, ClientType
    <3>2. PICK n : Good(n) /\ cl' = [cl EXCEPT ![c] = n]
      <4>1. CASE r.tier # "SSD"
        BY <2>5, <3>1, <4>1 DEF ReadUsed, r
      <4>2. CASE r.tier = "SSD" /\ r.pc = "before"
        BY <2>5, <3>1, <4>2 DEF ReadUsed, r
      <4>3. CASE r.tier = "SSD" /\ r.pc # "before"
        BY <2>5, <3>1, <4>3 DEF ReadUsed, r
      <4> QED
        BY <4>1, <4>2, <4>3
    <3>3. UNCHANGED <<data, used>>
      BY <2>5 DEF ReadUsed
    <3> QED
      BY <3>2, <3>3, BorrowedKept
  <2>6. CASE PutStep(c)
    <3>1. /\ \A t, f : Good([r EXCEPT !.pc = "after", !.tier = t, !.fresh = f])
          /\ \A t : Good([r EXCEPT !.tier = t])
      BY <2>1 DEF Good, ClientType
    <3>2. PICK n : Good(n) /\ cl' = [cl EXCEPT ![c] = n]
      BY <2>6, <3>1, <1>2 DEF PutStep, r
    <3>3. \/ UNCHANGED <<data, used>>
          \/ \E t \in Tiers, b \in Ids : PutOk(t, b) /\ PutToTier(t, b, "ok")
      BY <2>1, <2>6 DEF PutStep, r
    <3> QED
      BY <3>2, <3>3, BorrowedKept
  <2>7. CASE DropCold(c)
    <3> DEFINE idle == [IdleClient EXCEPT !.bytes = r.bytes]
               now == [cl EXCEPT ![c] = idle]
    <3>1. r.tier = "SSD"
      <4>1. PICK f \in Faster[r.tier] : Holds(f, r.id)
        BY <2>7 DEF DropCold, PromotionOK, r
      <4>2. f # "HBM"
        BY <2>1, <4>1 DEF BorrowedOK, HbmAbsent, Held
      <4> QED
        BY <2>1, <4>1, <4>2, FasterFacts DEF Tiers
    <3>2. DropCopy("SSD", r.id, now, ev)
      BY <2>7, <3>1 DEF DropCold, r
    <3>3. idle \in Working /\ Good(idle)
      BY <1>2, <2>1, IdleType DEF Working, ClientType, Good
    <3> HIDE DEF idle
    <3>4. \A d \in Clients : now[d] \in Working /\ Good(now[d])
      BY <3>3 DEF TypeOK, BorrowedOK, ReadsAreIntact, Good
    <3> HIDE DEF now
    <3>5. \A d \in Clients : cl'[d] = now[d]
      BY <2>1, <3>1, <3>2, <3>4, DangleClient, SMTT(40) DEF DropCopy, Good
    <3>6. /\ data'["SSD"][r.id] = "none"
          /\ \A u \in Tiers, d \in Ids : u # "SSD" \/ d # r.id => data'[u][d] = data[u][d]
          /\ \A u \in Tiers : u # "SSD" => used'[u] = used[u]
      BY <2>1, <3>1, <3>2, EraseKeeps, SMTT(40) DEF DropCopy, TypeOK
    <3>7. HbmAbsent'
      <4>1. used'["HBM"] = used["HBM"] /\ \A d \in Ids : data'["HBM"][d] = data["HBM"][d]
        BY <3>6 DEF Tiers
      <4> QED
        BY <4>1 DEF BorrowedOK, HbmAbsent, Held, Holds
    <3>8. \A u \in Tiers, d \in Ids : data'[u][d] # "junk"
      BY <3>6, SMTT(40) DEF BorrowedOK, CopiesAreIntact
    <3> QED
      BY <3>4, <3>5, <3>7, <3>8 DEF BorrowedOK, CopiesAreIntact, ReadsAreIntact, Good
  <2> QED
    BY <1>4, <2>2, <2>3, <2>4, <2>5, <2>6, <2>7 DEF ClientStep
<1>5. ASSUME NEW e \in Evictors, EvictorStep(e)
      PROVE  FALSE
  BY <1>5, NoPass DEF Calm, PromotionOK
<1> QED
  BY <1>1, <1>3, <1>4, <1>5 DEF Next

\* A tier without capacity starts empty.
LEMMA HbmAbsentInit == Init => HbmAbsent
<1> SUFFICES ASSUME Init PROVE HbmAbsent
  OBVIOUS
<1>1. used["HBM"] = 0 /\ \A b \in Ids : data["HBM"][b] = "none"
  BY DEF Init, Tiers
<1> QED
  BY <1>1 DEF HbmAbsent, Held, Holds

\* Nobody has borrowed a span when the node starts.
LEMMA BorrowedInit == Init => BorrowedOK
<1> SUFFICES ASSUME Init PROVE BorrowedOK
  OBVIOUS
<1>1. \A c \in Clients : ~cl[c].stale /\ cl[c].span # "SSD" /\ cl[c].bytes = "ok"
  BY DEF Init, IdleClient, NoSpan
<1>2. \A t \in Tiers, b \in Ids : data[t][b] # "junk"
  BY DEF Init
<1> QED
  BY <1>1, <1>2, HbmAbsentInit DEF BorrowedOK, ReadsAreIntact, CopiesAreIntact

\* Without HBM, and as long as no tier is over its watermark, every Get returns
\* the block's own bytes and no copy is ever junk: a handler that drops a cold
\* copy drops it from the SSD, which lends no spans.
THEOREM CalmReadsAreIntact ==
    ASSUME HbmBytes = 0
    PROVE  Spec /\ []Calm => []ReadsAreIntact /\ []CopiesAreIntact
<1>1. TypeOK /\ PromotionOK /\ Calm /\ [Next]_vars => PromotionOK'
  BY PromotionStep
<1>2. TypeOK /\ PromotionOK /\ BorrowedOK /\ Calm /\ [Next]_vars => BorrowedOK'
  BY BorrowedStep
<1>3. BorrowedOK => ReadsAreIntact /\ CopiesAreIntact
  BY DEF BorrowedOK
<1> QED
  BY <1>1, <1>2, <1>3, PromotionInit, BorrowedInit, TypeCorrect, PTL DEF Spec

-----------------------------------------------------------------------------
(***************************************************************************)
(* Demotions without HBM and without promotion, while the SSD's Evictor    *)
(* has no pass to run.                                                     *)
(***************************************************************************)
\* Without HBM the only Evictors are the DRAM's and the SSD's.
LEMMA NoHbmFacts ==
    ASSUME HbmBytes = 0
    PROVE  Top = "DRAM" /\ Evictors \subseteq {"DRAM", "SSD"}
<1>1. Top = "DRAM"
  BY SMTT(40) DEF Top
<1>2. ~(HbmBytes > 0)
  BY SMTT(40)
<1>3. "HBM" \notin Evictors
  BY <1>2 DEF Evictors
<1> QED
  BY <1>1, <1>3, TierFacts DEF Tiers

\* A handler's step that starts no promotion keeps the invariant: it only adds
\* copies of good bytes.
LEMMA DemotionKept ==
    ASSUME HbmBytes = 0, TypeOK, DemotionOK, NEW c \in Clients, NEW n,
           n.pc \notin {"promote", "dropcold"}, cl' = [cl EXCEPT ![c] = n], ev' = ev,
           \/ UNCHANGED <<data, used, owed>>
           \/ \E t \in Tiers, b \in Ids :
                 PutOk(t, b) /\ PutToTier(t, b, "ok") /\ owed' = owed \cup {b}
    PROVE  DemotionOK'
<1>1. HbmAbsent' /\ CopiesAreIntact'
  BY GoodPut DEF DemotionOK
<1>2. \A d \in Clients : cl'[d].pc \notin {"promote", "dropcold"}
  BY DEF DemotionOK, TypeOK
<1>3. /\ \A u \in Tiers, d \in Ids : data[u][d] # "none" => data'[u][d] # "none"
      /\ \A d \in owed' : d \in owed \/ \E u \in Tiers : data'[u][d] # "none"
  <2>1. CASE UNCHANGED <<data, used, owed>>
    BY <2>1
  <2>2. ASSUME NEW t \in Tiers, NEW b \in Ids, PutToTier(t, b, "ok"), owed' = owed \cup {b}
        PROVE  /\ \A u \in Tiers, d \in Ids : data[u][d] # "none" => data'[u][d] # "none"
               /\ \A d \in owed' : d \in owed \/ \E u \in Tiers : data'[u][d] # "none"
    <3>1. /\ data'[t][b] # "none"
          /\ \A u \in Tiers, d \in Ids : data[u][d] # "none" => data'[u][d] # "none"
      BY <2>2, PutKeeps, SMTT(40) DEF TypeOK
    <3> QED
      BY <2>2, <3>1
  <2> QED
    BY <2>1, <2>2
<1>4. \A d \in owed' : \E u \in Tiers : data'[u][d] # "none"
  BY <1>3 DEF DemotionOK, NoSilentLoss, Present, Holds, TypeOK, StoreOK
<1>5. ev["DRAM"].pc = "demotedrop" => data'["SSD"][ev["DRAM"].id] # "none"
  <2> SUFFICES ASSUME ev["DRAM"].pc = "demotedrop" PROVE data'["SSD"][ev["DRAM"].id] # "none"
    OBVIOUS
  <2>1. ev["DRAM"].id \in Ids
    BY TierFacts DEF TypeOK, Evicting
  <2>2. data["SSD"][ev["DRAM"].id] # "none" /\ "SSD" \in Tiers
    BY DEF DemotionOK, DemoterOK, Holds, Tiers
  <2> QED
    BY <1>3, <2>1, <2>2
<1>6. DemoterOK(ev["DRAM"])'
  BY <1>5 DEF DemotionOK, DemoterOK, Holds
<1>7. ("SSD" \in Evictors => ev["SSD"] = IdleEvictor)'
  BY DEF DemotionOK, Evictors, IdleEvictor, Top
<1> QED
  BY <1>1, <1>2, <1>4, <1>6, <1>7 DEF DemotionOK, NoSilentLoss, Present, Holds

\* A step of the DRAM's Evictor that leaves the tiers alone.
LEMMA DemoterKept ==
    ASSUME TypeOK, DemotionOK, NEW n, ev' = [ev EXCEPT !["DRAM"] = n], DemoterOK(n),
           UNCHANGED <<data, used, cl, owed>>
    PROVE  DemotionOK'
<1>1. ev'["DRAM"] = n /\ ("SSD" \in Evictors => ev'["SSD"] = ev["SSD"])
  BY TierFacts DEF TypeOK
<1>2. DemoterOK(ev["DRAM"])'
  BY <1>1 DEF DemoterOK, Holds
<1>3. ("SSD" \in Evictors => ev["SSD"] = IdleEvictor)'
  BY <1>1 DEF DemotionOK, Evictors, IdleEvictor, Top
<1> QED
  BY <1>2, <1>3
     DEF DemotionOK, HbmAbsent, Held, NoSilentLoss, Present, Holds, CopiesAreIntact

\* The record of an Evictor between two blocks, or in a hard Erase.
Walking(n) == /\ ~n.stale /\ n.bytes = "ok" /\ n.span = NoSpan
              /\ n.pc \notin {"demote", "demoteput", "demotessd", "demotedrop"}

\* A copy the DRAM's Evictor drops: it is not the last one of a block that is
\* still owed.
LEMMA DemotionDrops ==
    ASSUME TypeOK, DemotionOK, NEW t \in Tiers, NEW b \in Ids, NEW n \in Evicting,
           Walking(n), DropCopy(t, b, cl, [ev EXCEPT !["DRAM"] = n]), owed' \subseteq owed,
           b \in owed' => \E u \in Tiers : u # t /\ data[u][b] # "none"
    PROVE  DemotionOK'
<1> DEFINE now == [ev EXCEPT !["DRAM"] = n]
<1>1. now["DRAM"] = n /\ ("SSD" \in Evictors => now["SSD"] = IdleEvictor)
  BY TierFacts DEF TypeOK, DemotionOK
<1>2. EraseFromTier(t, b) /\ \A e \in Evictors : ev'[e] = Dangle(now[e], t, b)
  BY DEF DropCopy
<1>3. \A c \in Clients : cl'[c] = Dangle(cl[c], t, b)
  BY DEF DropCopy
<1> HIDE DEF now
<1>4. NoSpan # t
  BY DEF NoSpan, Tiers
<1>5. ev'["DRAM"] = n
  BY <1>1, <1>2, <1>4, TierFacts, DangleEvictor DEF Walking
<1>6. "SSD" \in Evictors => ev'["SSD"] = IdleEvictor
  BY <1>1, <1>2, IdleSpans
<1>7. \A c \in Clients : cl'[c].pc = cl[c].pc
  BY <1>3, DangleClient, SMTT(40) DEF TypeOK, SameFields
<1>8. /\ data'[t][b] = "none"
      /\ \A u \in Tiers, d \in Ids : u # t \/ d # b => data'[u][d] = data[u][d]
      /\ \A u \in Tiers : u # t => used'[u] = used[u]
  BY <1>2, EraseKeeps DEF TypeOK
<1>9. HbmAbsent'
  <2>1. CASE t = "HBM"
    <3>1. UNCHANGED <<data, used>>
      BY <1>2, <2>1 DEF EraseFromTier, DemotionOK, HbmAbsent, Held
    <3> QED
      BY <3>1 DEF DemotionOK, HbmAbsent, Held, Holds
  <2>2. CASE t # "HBM"
    <3>1. used'["HBM"] = used["HBM"] /\ \A d \in Ids : data'["HBM"][d] = data["HBM"][d]
      BY <1>8, <2>2 DEF Tiers
    <3> QED
      BY <3>1 DEF DemotionOK, HbmAbsent, Held, Holds
  <2> QED
    BY <2>1, <2>2
<1>10. \A u \in Tiers, d \in Ids : data'[u][d] # "junk"
  BY <1>8, SMTT(40) DEF DemotionOK, CopiesAreIntact
<1>11. \A d \in owed' : \E u \in Tiers : data'[u][d] # "none"
  <2> TAKE d \in owed'
  <2>1. CASE d = b
    BY <1>8, <2>1
  <2>2. CASE d # b
    <3>1. d \in Ids /\ d \in owed
      BY DEF TypeOK, StoreOK
    <3>2. PICK u \in Tiers : data[u][d] # "none"
      BY <3>1 DEF DemotionOK, NoSilentLoss, Present, Holds
    <3> QED
      BY <1>8, <2>2, <3>1, <3>2
  <2> QED
    BY <2>1, <2>2
<1>12. DemoterOK(ev["DRAM"])'
  BY <1>5 DEF DemoterOK, Walking
<1>13. ("SSD" \in Evictors => ev["SSD"] = IdleEvictor)'
  BY <1>6 DEF Evictors, IdleEvictor, Top
<1>14. \A c \in Clients : cl'[c].pc \notin {"promote", "dropcold"}
  BY <1>7 DEF DemotionOK
<1> QED
  BY <1>9, <1>10, <1>11, <1>12, <1>13, <1>14
     DEF DemotionOK, NoSilentLoss, Present, Holds, CopiesAreIntact

\* The steps of a pass that only choose.
LEMMA ChooseDemotion ==
    ASSUME HbmBytes = 0, TypeOK, DemotionOK,
           \/ BeginPass("DRAM") \/ TakeSnapshot("DRAM") \/ OverlayVisited("DRAM")
           \/ EndPass("DRAM") \/ ClearVisited("DRAM") \/ PickVictim("DRAM")
           \/ WipeBookkeeping("DRAM")
    PROVE  DemotionOK'
<1> DEFINE r == ev["DRAM"]
<1>1. r \in EvictorType /\ IdleEvictor \in EvictorType
  BY TierFacts, IdleType DEF TypeOK, Evicting
<1>2. r.pc \in {"idle", "snapshot", "overlay", "walk", "wipe"}
  BY DEF BeginPass, TakeSnapshot, OverlayVisited, EndPass, ClearVisited, PickVictim,
         WipeBookkeeping
<1>3. Walking(r) /\ Walking(IdleEvictor)
  BY <1>2 DEF DemotionOK, DemoterOK, Walking, IdleEvictor
<1>4. \A n : Walking(n) => DemoterOK(n)
  BY DEF Walking, DemoterOK
<1> HIDE DEF r
<1>5. /\ \A x : Walking([r EXCEPT !.pc = "snapshot", !.need = x])
      /\ \A x : Walking([r EXCEPT !.pc = "overlay", !.walk = x])
      /\ \A x : Walking([r EXCEPT !.pc = "walk", !.vis = x])
      /\ \A x, y : Walking([r EXCEPT !.vis = x, !.step = y])
  BY <1>1, <1>3 DEF Walking, EvictorType
<1>6. Walking(NextInWalk(r, 0))
  BY <1>1, <1>3 DEF Walking, NextInWalk, EvictorType
<1>7. \A x : DemoterOK([r EXCEPT !.id = x, !.tier = Top, !.pc = "demote"])
  BY <1>1, <1>3, NoHbmFacts DEF Walking, DemoterOK, EvictorType
<1>8. UNCHANGED <<data, used, cl, owed>>
  BY DEF BeginPass, TakeSnapshot, OverlayVisited, EndPass, ClearVisited, PickVictim,
         WipeBookkeeping
<1>9. PICK n : DemoterOK(n) /\ ev' = [ev EXCEPT !["DRAM"] = n]
  <2>1. CASE BeginPass("DRAM")
    BY <2>1, <1>4, <1>5 DEF BeginPass, r
  <2>2. CASE TakeSnapshot("DRAM")
    BY <2>2, <1>3, <1>4, <1>5 DEF TakeSnapshot, r
  <2>3. CASE OverlayVisited("DRAM")
    BY <2>3, <1>4, <1>5 DEF OverlayVisited, r
  <2>4. CASE EndPass("DRAM")
    BY <2>4, <1>3, <1>4 DEF EndPass
  <2>5. CASE ClearVisited("DRAM")
    BY <2>5, <1>4, <1>5 DEF ClearVisited, r
  <2>6. CASE PickVictim("DRAM")
    BY <2>6, <1>7 DEF PickVictim, r
  <2>7. CASE WipeBookkeeping("DRAM")
    BY <2>7, <1>4, <1>6 DEF WipeBookkeeping, r
  <2> QED
    BY <2>1, <2>2, <2>3, <2>4, <2>5, <2>6, <2>7
<1> QED
  BY <1>8, <1>9, DemoterKept

\* Demote borrows its victim's good bytes from DRAM, or goes on to erase.
LEMMA ProbeDemotion ==
    ASSUME TypeOK, DemotionOK, DemoteProbe("DRAM")
    PROVE  DemotionOK'
<1> DEFINE r == ev["DRAM"]
<1>1. r \in EvictorType /\ r.id \in Ids /\ r.pc = "demote" /\ r.tier = "DRAM"
  BY TierFacts DEF TypeOK, Evicting, DemoteProbe, DemotionOK, DemoterOK
<1>2. DemoterOK(r) /\ r.span = NoSpan
  BY <1>1 DEF DemotionOK, DemoterOK
<1> HIDE DEF r
<1>3. Holds("DRAM", r.id) => data["DRAM"][r.id] = "ok"
  <2>1. "DRAM" \in Tiers
    BY DEF Tiers
  <2> QED
    BY <1>1, <2>1, SMTT(40) DEF Holds, DemotionOK, CopiesAreIntact, TypeOK, StoreOK
<1>4. DemoterOK([r EXCEPT !.pc = "demoteput", !.span = r.tier, !.stale = FALSE, !.bytes = "ok"])
  BY <1>1, <1>2 DEF DemoterOK, EvictorType
<1>5. DemoterOK([r EXCEPT !.pc = "erase", !.tier = Top])
  BY <1>1, <1>2 DEF DemoterOK, EvictorType
<1>6. PICK n : DemoterOK(n) /\ ev' = [ev EXCEPT !["DRAM"] = n]
  <2>1. CASE Holds("DRAM", r.id)
    BY <2>1, <1>1, <1>3, <1>4 DEF DemoteProbe, r
  <2>2. CASE ~Holds("DRAM", r.id)
    BY <2>2, <1>1, <1>5 DEF DemoteProbe, r
  <2> QED
    BY <2>1, <2>2
<1>7. UNCHANGED <<data, used, cl, owed>>
  BY DEF DemoteProbe
<1> QED
  BY <1>6, <1>7, DemoterKept

\* Demote puts the good bytes on the SSD, or goes on to erase.
LEMMA PutDemotion ==
    ASSUME HbmBytes = 0, TypeOK, DemotionOK, DemotePut("DRAM")
    PROVE  DemotionOK'
<1> DEFINE r == ev["DRAM"]
<1>1. r \in EvictorType /\ r.id \in Ids /\ r.pc = "demoteput" /\ r.tier = "DRAM"
  BY TierFacts DEF TypeOK, Evicting, DemotePut, DemotionOK, DemoterOK
<1>2. DemoterOK(r) /\ Copied(r, r.bytes) = {"ok"}
  BY DEF DemotionOK, DemoterOK, Copied
<1> HIDE DEF r
<1>3. UNCHANGED <<cl, owed>>
  BY DEF DemotePut
<1>4. CASE PutOk("SSD", r.id)
  <2> DEFINE n == [r EXCEPT !.pc = "demotedrop", !.span = NoSpan, !.stale = FALSE]
  <2>1. PutToTier("SSD", r.id, "ok") /\ ev' = [ev EXCEPT !["DRAM"] = n]
    BY <1>1, <1>2, <1>4, TierFacts DEF DemotePut, r
  <2>2. n.pc = "demotedrop" /\ n.span = NoSpan /\ ~n.stale
    BY <1>1 DEF EvictorType
  <2>3. n.id = r.id /\ n.tier = "DRAM" /\ n.bytes = "ok"
    BY <1>1, <1>2 DEF EvictorType, DemoterOK
  <2> HIDE DEF n
  <2>4. "SSD" \in Tiers
    BY DEF Tiers
  <2>5. /\ data'["SSD"][r.id] # "none"
        /\ \A u \in Tiers, d \in Ids : data[u][d] # "none" => data'[u][d] # "none"
    BY <1>1, <2>1, <2>4, PutKeeps, SMTT(40) DEF TypeOK
  <2>6. HbmAbsent' /\ CopiesAreIntact'
    BY <1>1, <1>4, <2>1, <2>4, GoodPut DEF DemotionOK
  <2>7. \A d \in owed' : \E u \in Tiers : data'[u][d] # "none"
    BY <1>3, <2>5 DEF DemotionOK, NoSilentLoss, Present, Holds, TypeOK, StoreOK
  <2>8. ev'["DRAM"] = n /\ ("SSD" \in Evictors => ev'["SSD"] = ev["SSD"])
    BY <2>1, TierFacts DEF TypeOK
  <2>9. DemoterOK(ev["DRAM"])'
    BY <2>2, <2>3, <2>5, <2>8 DEF DemoterOK, Holds
  <2>10. ("SSD" \in Evictors => ev["SSD"] = IdleEvictor)'
    BY <2>8 DEF DemotionOK, Evictors, IdleEvictor, Top
  <2> QED
    BY <1>3, <2>6, <2>7, <2>9, <2>10 DEF DemotionOK, NoSilentLoss, Present, Holds
<1>5. CASE ~PutOk("SSD", r.id)
  <2> DEFINE n == [r EXCEPT !.pc = "erase", !.tier = Top, !.span = NoSpan, !.stale = FALSE]
  <2>1. ev' = [ev EXCEPT !["DRAM"] = n] /\ UNCHANGED <<data, used>>
    BY <1>1, <1>5, TierFacts DEF DemotePut, r
  <2>2. DemoterOK(n)
    BY <1>1, <1>2 DEF DemoterOK, EvictorType
  <2> HIDE DEF n
  <2> QED
    BY <1>3, <2>1, <2>2, DemoterKept
<1> QED
  BY <1>4, <1>5

\* Demote drops the copy in DRAM of a block that is on the SSD.
LEMMA DropDemotion ==
    ASSUME TypeOK, DemotionOK, DemoteDrop("DRAM")
    PROVE  DemotionOK'
<1> DEFINE r == ev["DRAM"]
           n == NextInWalk(r, Size[r.id])
<1>1. r \in EvictorType /\ r.id \in Ids /\ r.pc = "demotedrop"
  BY TierFacts DEF TypeOK, Evicting, DemoteDrop
<1>2. r.tier = "DRAM" /\ data["SSD"][r.id] # "none"
  BY <1>1 DEF DemotionOK, DemoterOK, Holds
<1>3. Size[r.id] \in Int
  BY <1>1, TieredAssumption, SMTT(40)
<1>4. n \in Evicting
  BY <1>1, <1>3, WalkOnType
<1>5. Walking(n)
  BY DEF Walking, NextInWalk, IdleEvictor
<1>6. DropCopy("DRAM", r.id, cl, [ev EXCEPT !["DRAM"] = n]) /\ owed' = owed
  BY <1>2 DEF DemoteDrop
<1>7. "DRAM" \in Tiers /\ "SSD" \in Tiers
  BY DEF Tiers
<1> HIDE DEF r, n
<1> QED
  BY <1>1, <1>2, <1>4, <1>5, <1>6, <1>7, DemotionDrops, SMTT(40)

\* A hard Erase takes the copies of a block that is not owed any more.
LEMMA EraseDemotion ==
    ASSUME TypeOK, DemotionOK, EraseStep("DRAM")
    PROVE  DemotionOK'
<1> DEFINE r == ev["DRAM"]
           need == Minus(r.need, IF Holds(r.tier, r.id) THEN Size[r.id] ELSE 0)
           pc == IF r.tier = "SSD" THEN "wipe" ELSE "erase"
           tier == IF r.tier = "SSD" THEN Top ELSE Below[r.tier]
           n == [r EXCEPT !.need = need, !.pc = pc, !.tier = tier]
<1>1. r \in EvictorType /\ r.id \in Ids /\ r.tier \in Tiers /\ r.pc = "erase"
  BY TierFacts DEF TypeOK, Evicting, EvictorType, EraseStep
<1>2. ~r.stale /\ r.bytes = "ok" /\ r.span = NoSpan
  BY <1>1 DEF DemotionOK, DemoterOK
<1>3. (IF Holds(r.tier, r.id) THEN Size[r.id] ELSE 0) \in Int
  BY <1>1, TieredAssumption, SMTT(40)
<1>4. need \in Int
  BY <1>1, <1>3, WalkOnType
<1>5. pc \in {"wipe", "erase"} /\ tier \in Tiers
  BY <1>1, TierFacts
<1>6. DropCopy(r.tier, r.id, cl, [ev EXCEPT !["DRAM"] = n]) /\ owed' = owed \ {r.id}
  BY DEF EraseStep
<1> HIDE DEF r, need, pc, tier
<1>7. n \in Evicting
  BY <1>1, <1>4, <1>5 DEF Evicting, EvictorType
<1>8. Walking(n)
  BY <1>1, <1>2, <1>4, <1>5 DEF Walking, EvictorType
<1> HIDE DEF n
<1> QED
  BY <1>1, <1>6, <1>7, <1>8, DemotionDrops

\* Without HBM and promotion, and with an idle SSD Evictor, every step keeps the demotion invariant.
LEMMA DemotionStep ==
    ASSUME HbmBytes = 0, ~EnablePromotion, TypeOK, DemotionOK, SsdCalm, [Next]_vars
    PROVE  DemotionOK'
<1>1. CASE UNCHANGED vars
  BY <1>1 DEF vars, DemotionOK, HbmAbsent, Held, Holds, DemoterOK, NoSilentLoss, Present,
              CopiesAreIntact, Evictors, IdleEvictor, Top
<1>2. ASSUME NEW c \in Clients, NEW b \in Ids, NEW h \in Tiers,
             StartGet(c, b) \/ StartIngest(c, b) \/ StartInsert(c, b, h) \/ Probe(c) \/ ReadUsed(c)
      PROVE  DemotionOK'
  <2>1. PICK n : n.pc \notin {"promote", "dropcold"} /\ cl' = [cl EXCEPT ![c] = n]
    BY <1>2, QuietMoves
  <2>2. UNCHANGED <<data, used, ev, owed>>
    BY <1>2, QuietMoves
  <2> QED
    BY <2>1, <2>2, DemotionKept
<1>3. ASSUME NEW c \in Clients, ClientStep(c)
      PROVE  DemotionOK'
  <2>1. CASE Probe(c) \/ ReadUsed(c)
    <3>1. cl[c].id \in Ids
      BY <2>1 DEF Probe, ReadUsed, TypeOK, Working
    <3> QED
      BY <2>1, <3>1, <1>2, TierFacts
  <2>2. CASE Bump(c)
    <3>1. PICK v : cl' = [cl EXCEPT ![c] = [IdleClient EXCEPT !.bytes = v]]
      BY <2>2 DEF Bump
    <3>2. [IdleClient EXCEPT !.bytes = v].pc = "idle"
      BY DEF IdleClient
    <3>3. UNCHANGED <<data, used, ev, owed>>
      BY <2>2 DEF Bump
    <3> QED
      BY <3>1, <3>2, <3>3, DemotionKept
  <2>3. CASE Promote(c) \/ DropCold(c)
    BY <2>3 DEF Promote, DropCold, DemotionOK
  <2>4. CASE PutStep(c)
    BY <2>4, PutMoves, DemotionKept
  <2> QED
    BY <1>3, <2>1, <2>2, <2>3, <2>4 DEF ClientStep
<1>4. ASSUME EvictorStep("DRAM")
      PROVE  DemotionOK'
  BY <1>4, ChooseDemotion, ProbeDemotion, PutDemotion, DropDemotion, EraseDemotion
     DEF EvictorStep
<1>5. ASSUME "SSD" \in Evictors, EvictorStep("SSD")
      PROVE  FALSE
  BY <1>5, NoPass DEF SsdCalm, DemotionOK
<1>6. ASSUME NEW c \in Clients, NEW b \in Ids, StartGet(c, b) \/ StartIngest(c, b)
      PROVE  DemotionOK'
  BY <1>6, <1>2, TierFacts
<1>7. ASSUME NEW c \in Clients, NEW b \in Ids, NEW h \in Hints, StartInsert(c, b, h)
      PROVE  DemotionOK'
  BY <1>7, <1>2, TieredAssumption
<1>8. \A e \in Evictors : e = "DRAM" \/ e = "SSD"
  BY NoHbmFacts
<1> QED
  BY <1>1, <1>3, <1>4, <1>5, <1>6, <1>7, <1>8 DEF Next

\* No demotion is under way when the node starts.
LEMMA DemotionInit == Init => DemotionOK
<1> SUFFICES ASSUME Init PROVE DemotionOK
  OBVIOUS
<1>1. \A c \in Clients : cl[c].pc = "idle"
  BY DEF Init, IdleClient
<1>2. \A e \in Evictors : ev[e] = IdleEvictor
  BY DEF Init
<1>3. DemoterOK(IdleEvictor)
  BY DEF DemoterOK, IdleEvictor
<1>4. \A t \in Tiers, b \in Ids : data[t][b] # "junk"
  BY DEF Init
<1>5. owed = {}
  BY DEF Init
<1> QED
  BY <1>1, <1>2, <1>3, <1>4, <1>5, HbmAbsentInit, TierFacts
     DEF DemotionOK, NoSilentLoss, CopiesAreIntact

\* Without HBM and without promotion, and as long as the SSD is not over its
\* watermark, demotions lose no block and copy no freed bytes, whatever is read
\* and put meanwhile: the DRAM copy is dropped only once the SSD has the block,
\* and nobody else drops the copy that Demote borrowed (tiered_store.cpp,
\* TieredStore::Demote; eviction.cpp, Evictor::RunPassForTier).
THEOREM DemotionsKeepBlocks ==
    ASSUME HbmBytes = 0, ~EnablePromotion
    PROVE  Spec /\ []SsdCalm => []NoSilentLoss /\ []CopiesAreIntact
<1>1. TypeOK /\ DemotionOK /\ SsdCalm /\ [Next]_vars => DemotionOK'
  BY DemotionStep
<1>2. DemotionOK => NoSilentLoss /\ CopiesAreIntact
  BY DEF DemotionOK
<1> QED
  BY <1>1, <1>2, DemotionInit, TypeCorrect, PTL DEF Spec
=============================================================================
