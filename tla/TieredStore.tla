----------------------------- MODULE TieredStore -----------------------------
(***************************************************************************)
(* One node's tiered store and the threads that work on it: the handlers   *)
(* of Lookup and Fetch (Get), Insert and the streaming ingest (Put), and   *)
(* one Evictor thread per tier (RunPassForTier, Demote, Erase).            *)
(*                                                                         *)
(* Every tier has its own lock, the access counts and visited bits have    *)
(* another, and no operation holds two of them: each action below is what  *)
(* one thread does under one lock acquisition, and the operations of the   *)
(* code are sequences of such actions.  A BlockStore (HBM, DRAM) lends a   *)
(* span that is copied after its lock is released; when the block is       *)
(* erased in between, the copy may be junk.                                *)
(***************************************************************************)
EXTENDS Integers, Sequences, FiniteSetsExt

CONSTANTS Ids,              \* blocks
          Size,             \* payload bytes of each block
          HbmBytes,         \* capacity of HBM; 0: the tier does not exist
          DramBytes,        \* capacity of DRAM
          SsdSlots,         \* slots of the SSD tier; 0: the tier does not exist
          SlotPayload,      \* payload bytes of one slot
          HighPct, LowPct,  \* the Evictor's watermarks, in percent of capacity
          EnablePromotion,  \* cfg.enable_promotion
          Threshold,        \* cfg.promotion_access_threshold
          Clients,          \* handler threads
          ClientOps,        \* what they do: a subset of {"get", "insert", "ingest"}
          Hints,            \* the tier hints of Insert requests
          NoId              \* not a block

Tiers == {"HBM", "DRAM", "SSD"}

ASSUME TieredAssumption ==
    /\ Size \in [Ids -> Nat \ {0}]
    /\ HbmBytes \in Nat /\ DramBytes \in Nat \ {0}
    /\ SsdSlots \in Nat /\ SlotPayload \in Nat
    /\ LowPct \in 0 .. 100 /\ HighPct \in LowPct .. 100
    /\ EnablePromotion \in BOOLEAN
    /\ Threshold \in Nat \ {0}
    /\ Hints \subseteq Tiers
    /\ NoId \notin Ids
    /\ IsFiniteSet(Ids)

VARIABLES data,     \* tier -> block -> "none", "ok" or "junk" bytes
          used,     \* tier -> used_bytes_
          counts,   \* access_counts_, capped at Threshold (no test looks above it)
          visited,  \* visited_
          cl,       \* the handler threads
          ev,       \* the Evictor threads
          owed      \* history: blocks put and not since picked for a hard Erase

vars == <<data, used, counts, visited, cl, ev, owed>>

Below == [HBM |-> "DRAM", DRAM |-> "SSD"]
Top == IF HbmBytes > 0 THEN "HBM" ELSE "DRAM"
Evictors == {t \in Tiers : CASE t = "HBM" -> HbmBytes > 0
                             [] t = "DRAM" -> TRUE
                             [] t = "SSD" -> SsdSlots > 0}

Cap(t) == CASE t = "HBM" -> HbmBytes
            [] t = "DRAM" -> DramBytes
            [] t = "SSD" -> SsdSlots * SlotPayload
High(t) == (Cap(t) * HighPct) \div 100
Low(t) == (Cap(t) * LowPct) \div 100

-----------------------------------------------------------------------------
(***************************************************************************)
(* One tier under its lock.                                                *)
(***************************************************************************)
Holds(t, b) == data[t][b] # "none"
Held(t) == {b \in Ids : Holds(t, b)}
Present(b) == \E t \in Tiers : Holds(t, b)

\* PutToTier succeeds: the block is there already, or there is room (bytes in
\* a BlockStore, a slot in the SSD store).
PutOk(t, b) ==
    \/ Holds(t, b)
    \/ t # "SSD" /\ used[t] + Size[b] <= Cap(t)
    \/ t = "SSD" /\ Size[b] <= SlotPayload /\ Cardinality(Held(t)) < SsdSlots

\* Mutant of PutToTier: counts the bytes of a block that was there already.
PutToTierRecounts(t, b, bytes) ==
    /\ data' = [data EXCEPT ![t][b] = IF Holds(t, b) THEN @ ELSE bytes]
    /\ used' = [used EXCEPT ![t] = @ + Size[b]]

\* PutToTier when PutOk: nothing to do for a block that is there already.
PutToTier(t, b, bytes) ==
    IF Holds(t, b)
    THEN UNCHANGED <<data, used>>
    ELSE /\ data' = [data EXCEPT ![t][b] = bytes]
         /\ used' = [used EXCEPT ![t] = @ + Size[b]]

EraseFromTier(t, b) ==
    IF Holds(t, b)
    THEN /\ data' = [data EXCEPT ![t][b] = "none"]
         /\ used' = [used EXCEPT ![t] = @ - Size[b]]
    ELSE UNCHANGED <<data, used>>

\* The record r of a thread, once block b was erased from tier t: a span it
\* borrowed there dangles.
Dangle(r, t, b) ==
    IF r.span = t /\ r.id = b /\ Holds(t, b) THEN [r EXCEPT !.stale = TRUE] ELSE r

\* Mutant of Copied: the copy is made after the block was dropped.
CopiedAfterDrop(r, v) == {v, "junk"}

\* What copying the borrowed bytes v yields.
Copied(r, v) == IF r.stale THEN {v, "junk"} ELSE {v}

NoSpan == "none"
IdleClient == [pc |-> "idle", op |-> "get", id |-> NoId, tier |-> Top, hint |-> "DRAM",
               span |-> NoSpan, stale |-> FALSE, bytes |-> "ok", base |-> 0, sum |-> 0,
               fresh |-> FALSE, accepted |-> FALSE]
IdleEvictor == [pc |-> "idle", id |-> NoId, tier |-> Top, span |-> NoSpan,
                stale |-> FALSE, bytes |-> "ok", walk |-> <<>>, vis |-> {},
                step |-> 0, need |-> 0]

Init == /\ data = [t \in Tiers |-> [b \in Ids |-> "none"]]
        /\ used = [t \in Tiers |-> 0]
        /\ counts = [b \in Ids |-> 0]
        /\ visited = {}
        /\ cl = [c \in Clients |-> IdleClient]
        /\ ev = [t \in Evictors |-> IdleEvictor]
        /\ owed = {}

-----------------------------------------------------------------------------
(***************************************************************************)
(* TieredStore::Get, called by Lookup, Fetch and the re-replication sweep. *)
(***************************************************************************)
StartGet(c, b) ==
    /\ "get" \in ClientOps
    /\ cl[c].pc = "idle"
    /\ cl' = [cl EXCEPT ![c] = [IdleClient EXCEPT !.pc = "probe", !.id = b]]
    /\ UNCHANGED <<data, used, counts, visited, ev, owed>>

\* Mutant of Probe: the SSD store lends a span too.
ProbeLendsSsd(c) ==
    LET r == cl[c]
    IN  /\ r.pc = "probe"
        /\ cl' = [cl EXCEPT ![c] =
              CASE Holds(r.tier, r.id) ->
                      [r EXCEPT !.pc = "bump", !.bytes = data[r.tier][r.id], !.span = r.tier]
                [] ~Holds(r.tier, r.id) /\ r.tier # "SSD" ->
                      [r EXCEPT !.tier = Below[r.tier]]
                [] OTHER -> IdleClient]
        /\ UNCHANGED <<data, used, counts, visited, ev, owed>>

\* Probe one tier.  HBM and DRAM lend a span, SSD copies under its lock.
Probe(c) ==
    LET r == cl[c]
    IN  /\ r.pc = "probe"
        /\ cl' = [cl EXCEPT ![c] =
              CASE Holds(r.tier, r.id) ->
                      [r EXCEPT !.pc = "bump", !.bytes = data[r.tier][r.id],
                                !.span = IF r.tier = "SSD" THEN NoSpan ELSE r.tier]
                [] ~Holds(r.tier, r.id) /\ r.tier # "SSD" ->
                      [r EXCEPT !.tier = Below[r.tier]]
                [] OTHER -> IdleClient]
        /\ UNCHANGED <<data, used, counts, visited, ev, owed>>

PromotionTarget(found) ==
    CASE found = "SSD" -> "DRAM"
      [] found = "DRAM" /\ HbmBytes > 0 -> "HBM"
      [] OTHER -> found

\* Copy the span, count the access, set the visited bit, decide to promote.
Bump(c) ==
    LET r == cl[c]
        count == IF counts[r.id] < Threshold THEN counts[r.id] + 1 ELSE Threshold
        promote == /\ EnablePromotion
                   /\ count >= Threshold
                   /\ PromotionTarget(r.tier) # r.tier
    IN  /\ r.pc = "bump"
        /\ counts' = [counts EXCEPT ![r.id] = count]
        /\ visited' = visited \cup {r.id}
        /\ \E v \in Copied(r, r.bytes) :
              cl' = [cl EXCEPT ![c] =
                  IF promote THEN [r EXCEPT !.pc = "promote", !.bytes = v, !.span = NoSpan,
                                            !.stale = FALSE]
                  ELSE [IdleClient EXCEPT !.bytes = v]]
        /\ UNCHANGED <<data, used, ev, owed>>

\* Mutant of Promote: drops the cold copy when the faster tier was full, too.
PromoteIgnoresFull(c) ==
    LET r == cl[c]
        target == PromotionTarget(r.tier)
    IN  /\ r.pc = "promote"
        /\ IF PutOk(target, r.id)
           THEN PutToTier(target, r.id, r.bytes)
           ELSE UNCHANGED <<data, used>>
        /\ cl' = [cl EXCEPT ![c].pc = "dropcold"]
        /\ UNCHANGED <<counts, visited, ev, owed>>

\* Put the block in the faster tier; when that is full, leave it where it is.
Promote(c) ==
    LET r == cl[c]
        target == PromotionTarget(r.tier)
    IN  /\ r.pc = "promote"
        /\ IF PutOk(target, r.id)
           THEN /\ PutToTier(target, r.id, r.bytes)
                /\ cl' = [cl EXCEPT ![c].pc = "dropcold"]
           ELSE /\ cl' = [cl EXCEPT ![c] = [IdleClient EXCEPT !.bytes = r.bytes]]
                /\ UNCHANGED <<data, used>>
        /\ UNCHANGED <<counts, visited, ev, owed>>

\* Erase block b from tier t on behalf of a thread, whose own record the
\* caller has set in clNow or evNow.
DropCopy(t, b, clNow, evNow) ==
    /\ EraseFromTier(t, b)
    /\ cl' = [c \in Clients |-> Dangle(clNow[c], t, b)]
    /\ ev' = [e \in Evictors |-> Dangle(evNow[e], t, b)]

DropCold(c) ==
    LET r == cl[c]
    IN  /\ r.pc = "dropcold"
        /\ DropCopy(r.tier, r.id,
                    [cl EXCEPT ![c] = [IdleClient EXCEPT !.bytes = r.bytes]], ev)
        /\ UNCHANGED <<counts, visited, owed>>

-----------------------------------------------------------------------------
(***************************************************************************)
(* LetheCache::Insert, and IngestStreamedBlock, which only puts.           *)
(***************************************************************************)
StartInsert(c, b, hint) ==
    /\ "insert" \in ClientOps
    /\ cl[c].pc = "idle"
    /\ cl' = [cl EXCEPT ![c] = [IdleClient EXCEPT !.pc = "before", !.op = "insert",
                                                  !.id = b, !.hint = hint]]
    /\ UNCHANGED <<data, used, counts, visited, ev, owed>>

StartIngest(c, b) ==
    /\ "ingest" \in ClientOps
    /\ cl[c].pc = "idle"
    /\ cl' = [cl EXCEPT ![c] = [IdleClient EXCEPT !.pc = "put", !.op = "ingest",
                                                  !.id = b, !.tier = "DRAM"]]
    /\ UNCHANGED <<data, used, counts, visited, ev, owed>>

\* total_used() loads the counters of the tiers one after the other, before
\* and after the Put; Insert calls the block new, counts it as accepted and
\* hands it to ReplicateOut, when the sum has grown.
ReadUsed(c) ==
    LET r == cl[c]
        sum == r.sum + used[r.tier]
        accepted == sum > r.base
    IN  /\ r.pc \in {"before", "after"}
        /\ cl' = [cl EXCEPT ![c] =
              CASE r.tier # "SSD" -> [r EXCEPT !.sum = sum, !.tier = Below[r.tier]]
                [] r.tier = "SSD" /\ r.pc = "before" ->
                      [r EXCEPT !.pc = "put", !.base = sum, !.sum = 0, !.tier = r.hint]
                [] OTHER -> [IdleClient EXCEPT !.accepted = accepted]]
        /\ UNCHANGED <<data, used, counts, visited, ev, owed>>

\* TieredStore::Put tries the hinted tier, then the slower ones.  (fresh is a
\* history field: whether no tier held the block when it was put.)
PutStep(c) ==
    LET r == cl[c]
        done == IF r.op = "insert" THEN [r EXCEPT !.pc = "after", !.tier = Top,
                                                      !.fresh = ~Present(r.id)]
                ELSE IdleClient
    IN  /\ r.pc = "put"
        /\ IF PutOk(r.tier, r.id)
           THEN /\ PutToTier(r.tier, r.id, "ok")
                /\ owed' = owed \cup {r.id}
                /\ cl' = [cl EXCEPT ![c] = done]
           ELSE /\ cl' = [cl EXCEPT ![c] =
                      IF r.tier = "SSD" THEN IdleClient
                      ELSE [r EXCEPT !.tier = Below[r.tier]]]
                /\ UNCHANGED <<data, used, owed>>
        /\ UNCHANGED <<counts, visited, ev>>

-----------------------------------------------------------------------------
(***************************************************************************)
(* Evictor::RunPassForTier of tier e.  The snapshot has the order of an    *)
(* unordered_map and the hand starts anywhere in it, so the walk is any    *)
(* order of the tier's blocks, gone through at most twice.  The field need *)
(* is what is left of need - freed_local.                                  *)
(***************************************************************************)
Minus(m, n) == IF n >= m THEN 0 ELSE m - n

BeginPass(e) ==
    /\ ev[e].pc = "idle"
    /\ used[e] > High(e)
    /\ ev' = [ev EXCEPT ![e] = [@ EXCEPT !.pc = "snapshot", !.need = used[e] - Low(e)]]
    /\ UNCHANGED <<data, used, counts, visited, cl, owed>>

\* The blocks of the tier, read under its lock ...
TakeSnapshot(e) ==
    /\ ev[e].pc = "snapshot"
    /\ \E order \in [1 .. Cardinality(Held(e)) -> Held(e)] :
          /\ \A i, j \in DOMAIN order : order[i] = order[j] => i = j
          /\ ev' = [ev EXCEPT ![e] = IF Held(e) = {} THEN IdleEvictor
                                     ELSE [@ EXCEPT !.pc = "overlay", !.walk = order]]
    /\ UNCHANGED <<data, used, counts, visited, cl, owed>>

\* ... and their visited bits, read under another.
OverlayVisited(e) ==
    /\ ev[e].pc = "overlay"
    /\ ev' = [ev EXCEPT ![e] =
          [@ EXCEPT !.pc = "walk",
                    !.vis = {ev[e].walk[i] : i \in DOMAIN ev[e].walk} \cap visited]]
    /\ UNCHANGED <<data, used, counts, visited, cl, owed>>

WalkDone(r) == r.need = 0 \/ r.step >= 2 * Len(r.walk)
AtHand(r) == r.walk[(r.step % Len(r.walk)) + 1]

\* The pass is over; the EvictBroadcast it sends changes nothing here.
EndPass(e) ==
    /\ ev[e].pc = "walk" /\ WalkDone(ev[e])
    /\ ev' = [ev EXCEPT ![e] = IdleEvictor]
    /\ UNCHANGED <<data, used, counts, visited, cl, owed>>

\* Mutant of ClearVisited: the bit stays set in the snapshot.
ClearVisitedInStore(e) ==
    LET r == ev[e]
    IN  /\ r.pc = "walk" /\ ~WalkDone(r)
        /\ AtHand(r) \in r.vis
        /\ visited' = visited \ {AtHand(r)}
        /\ ev' = [ev EXCEPT ![e].step = @ + 1]
        /\ UNCHANGED <<data, used, counts, cl, owed>>

\* A second chance: the bit is cleared in the store and in the snapshot.
ClearVisited(e) ==
    LET r == ev[e]
    IN  /\ r.pc = "walk" /\ ~WalkDone(r)
        /\ AtHand(r) \in r.vis
        /\ visited' = visited \ {AtHand(r)}
        /\ ev' = [ev EXCEPT ![e] = [r EXCEPT !.vis = @ \ {AtHand(r)}, !.step = @ + 1]]
        /\ UNCHANGED <<data, used, counts, cl, owed>>

\* A victim: Demote looks for it from the top tier down; an SSD victim, or one
\* found in no faster tier, is erased.
PickVictim(e) ==
    LET r == ev[e]
    IN  /\ r.pc = "walk" /\ ~WalkDone(r)
        /\ AtHand(r) \notin r.vis
        /\ ev' = [ev EXCEPT ![e] =
              [r EXCEPT !.id = AtHand(r), !.tier = Top,
                        !.pc = IF e = "SSD" THEN "erase" ELSE "demote"]]
        /\ UNCHANGED <<data, used, counts, visited, cl, owed>>

DemoteProbe(e) ==
    LET r == ev[e]
    IN  /\ r.pc = "demote"
        /\ ev' = [ev EXCEPT ![e] =
              CASE Holds(r.tier, r.id) ->
                      [r EXCEPT !.pc = "demoteput", !.span = r.tier, !.stale = FALSE,
                                !.bytes = data[r.tier][r.id]]
                [] ~Holds(r.tier, r.id) /\ r.tier = "HBM" -> [r EXCEPT !.tier = "DRAM"]
                [] OTHER -> [r EXCEPT !.pc = "erase", !.tier = Top]]
        /\ UNCHANGED <<data, used, counts, visited, cl, owed>>

\* Mutant of DemotePut: the copy is dropped when no slower tier took it, too.
DemotePutIgnoresFull(e) ==
    LET r == ev[e]
        target == IF r.pc = "demoteput" THEN Below[r.tier] ELSE "SSD"
    IN  /\ r.pc \in {"demoteput", "demotessd"}
        /\ IF PutOk(target, r.id)
           THEN \E v \in Copied(r, r.bytes) : PutToTier(target, r.id, v)
           ELSE UNCHANGED <<data, used>>
        /\ ev' = [ev EXCEPT ![e] = [r EXCEPT !.pc = "demotedrop", !.span = NoSpan,
                                             !.stale = FALSE]]
        /\ UNCHANGED <<counts, visited, cl, owed>>

\* Copy the span and put it one tier down; out of HBM, the SSD is tried when
\* DRAM is full ("demotessd" copies the span a second time).
DemotePut(e) ==
    LET r == ev[e]
        target == IF r.pc = "demoteput" THEN Below[r.tier] ELSE "SSD"
    IN  /\ r.pc \in {"demoteput", "demotessd"}
        /\ IF PutOk(target, r.id)
           THEN /\ \E v \in Copied(r, r.bytes) : PutToTier(target, r.id, v)
                /\ ev' = [ev EXCEPT ![e] = [r EXCEPT !.pc = "demotedrop", !.span = NoSpan,
                                                     !.stale = FALSE]]
           ELSE /\ ev' = [ev EXCEPT ![e] =
                      IF r.pc = "demoteput" /\ r.tier = "HBM"
                      THEN [r EXCEPT !.pc = "demotessd"]
                      ELSE [r EXCEPT !.pc = "erase", !.tier = Top, !.span = NoSpan,
                                     !.stale = FALSE]]
                /\ UNCHANGED <<data, used>>
        /\ UNCHANGED <<counts, visited, cl, owed>>

NextInWalk(r, freed) == [IdleEvictor EXCEPT !.pc = "walk", !.walk = r.walk, !.vis = r.vis,
                                            !.step = r.step + 1, !.need = Minus(r.need, freed)]

\* Demote drops the copy it moved; the pass counts the block's size as freed.
DemoteDrop(e) ==
    LET r == ev[e]
    IN  /\ r.pc = "demotedrop"
        /\ DropCopy(r.tier, r.id, cl,
                    [ev EXCEPT ![e] = NextInWalk(r, Size[r.id])])
        /\ UNCHANGED <<counts, visited, owed>>

\* TieredStore::Erase, tier by tier, then the bookkeeping.
EraseStep(e) ==
    LET r == ev[e]
        freed == IF Holds(r.tier, r.id) THEN Size[r.id] ELSE 0
    IN  /\ r.pc = "erase"
        /\ DropCopy(r.tier, r.id, cl,
                    [ev EXCEPT ![e] =
                        [r EXCEPT !.need = Minus(@, freed),
                                  !.pc = IF r.tier = "SSD" THEN "wipe" ELSE "erase",
                                  !.tier = IF r.tier = "SSD" THEN Top ELSE Below[r.tier]]])
        /\ owed' = owed \ {r.id}
        /\ UNCHANGED <<counts, visited>>

WipeBookkeeping(e) ==
    LET r == ev[e]
    IN  /\ r.pc = "wipe"
        /\ counts' = [counts EXCEPT ![r.id] = 0]
        /\ visited' = visited \ {r.id}
        /\ ev' = [ev EXCEPT ![e] = NextInWalk(r, 0)]
        /\ UNCHANGED <<data, used, cl, owed>>

-----------------------------------------------------------------------------
ClientStep(c) == Probe(c) \/ Bump(c) \/ Promote(c) \/ DropCold(c) \/ ReadUsed(c) \/ PutStep(c)

EvictorStep(e) == \/ BeginPass(e) \/ TakeSnapshot(e) \/ OverlayVisited(e) \/ EndPass(e)
                  \/ ClearVisited(e) \/ PickVictim(e) \/ DemoteProbe(e) \/ DemotePut(e)
                  \/ DemoteDrop(e) \/ EraseStep(e) \/ WipeBookkeeping(e)

Next == \/ \E c \in Clients, b \in Ids :
              \/ StartGet(c, b)
              \/ StartIngest(c, b)
              \/ \E hint \in Hints : StartInsert(c, b, hint)
        \/ \E c \in Clients : ClientStep(c)
        \/ \E e \in Evictors : EvictorStep(e)

Spec == Init /\ [][Next]_vars

\* The threads run: a handler finishes its request, an Evictor thread keeps
\* waking up.  Nothing makes clients send requests.
FairSpec == /\ Spec
            /\ \A c \in Clients : WF_vars(ClientStep(c))
            /\ \A e \in Evictors : WF_vars(EvictorStep(e))

-----------------------------------------------------------------------------
ClientType ==
    [pc : {"idle", "probe", "bump", "promote", "dropcold", "before", "put", "after"},
     op : {"get", "insert", "ingest"}, id : Ids \cup {NoId}, tier : Tiers, hint : Tiers,
     span : Tiers \cup {NoSpan}, stale : BOOLEAN, bytes : {"ok", "junk"}, base : Int,
     sum : Int, fresh : BOOLEAN, accepted : BOOLEAN]

EvictorType ==
    [pc : {"idle", "snapshot", "overlay", "walk", "demote", "demoteput", "demotessd",
           "demotedrop", "erase", "wipe"},
     id : Ids \cup {NoId}, tier : Tiers, span : Tiers \cup {NoSpan}, stale : BOOLEAN,
     bytes : {"ok", "junk"}, walk : Seq(Ids), vis : SUBSET Ids, step : Nat, need : Int]

StoreOK == /\ data \in [Tiers -> [Ids -> {"none", "ok", "junk"}]]
           /\ counts \in [Ids -> 0 .. Threshold]
           /\ visited \subseteq Ids
           /\ used \in [Tiers -> Int]
           /\ owed \subseteq Ids
           /\ \A t \in Tiers \ {"SSD"} : used[t] <= Cap(t)

Working == {r \in ClientType : r.pc # "idle" => r.id \in Ids}

Evicting == {r \in EvictorType :
                /\ r.pc \notin {"idle", "snapshot", "overlay", "walk"} => r.id \in Ids
                /\ r.pc \in {"demote", "demoteput", "demotessd"} => r.tier # "SSD"}

\* Every piece of state has its type, a thread at work on a block has one, and
\* neither memory tier holds more bytes than its capacity.
TypeOK == /\ StoreOK
          /\ cl \in [Clients -> Working]
          /\ ev \in [Evictors -> Evicting]

\* Every tier's used_bytes_ is the size of the blocks it holds, and within its
\* capacity: no interleaving of puts, moves and erasures counts a block twice,
\* forgets one or overfills a tier.
UsedMatchesBlocks ==
    \A t \in Tiers : /\ used[t] = MapThenSumSet(LAMBDA b : Size[b], Held(t))
                      /\ used[t] <= Cap(t)

\* A block that was put, and that no Evictor has picked for a hard Erase
\* since, is in some tier: promotions (Get) and demotions (Demote) move blocks
\* and never lose them, in whatever order their lock acquisitions interleave.
NoSilentLoss == \A b \in owed : Present(b)

\* A DRAM or HBM victim is hard-erased only because no slower tier could take
\* it: "DRAM victim -> try Demote to SSD.  If SSD full, hard Erase"
\* (eviction.cpp:13).  So the Erase of such a victim finds no copy on the SSD.
DemotedAreKept ==
    \A e \in Evictors \ {"SSD"} :
        ev[e].pc = "erase" /\ ev[e].tier = "SSD" => ~Holds("SSD", ev[e].id)

\* Get returns the block's own bytes.
ReadsAreIntact == \A c \in Clients : cl[c].bytes = "ok"

\* No copy of a block is junk: neither Demote nor a promotion copied bytes that
\* were freed under it.
CopiesAreIntact == \A t \in Tiers, b \in Ids : data[t][b] # "junk"

Answered(c) == cl[c].pc = "after" /\ cl'[c].pc = "idle"

\* Insert accepts, and so pushes to the replicas, no block that the node held
\* when it was put: "A Put against an already-present BlockId is idempotent
\* [...] and counts as 0, NOT 1" (cache.cpp:279-281).
OnlyNewIsAccepted ==
    [][\A c \in Clients : Answered(c) /\ cl'[c].accepted => cl[c].fresh]_vars

\* A tier over its high watermark gets back under it: every pass ends, and the
\* second lap evicts even when the first found every block visited.
PressureIsRelieved == \A t \in Evictors : used[t] > High(t) ~> used[t] <= High(t)

-----------------------------------------------------------------------------
(***************************************************************************)
(* What the proofs rest on.                                                *)
(***************************************************************************)
\* No tier is over its high watermark, so no Evictor has a pass to run.
Calm == \A t \in Evictors : used[t] <= High(t)

\* The SSD is not over its high watermark; it does not exist or has no pass to
\* run.
SsdCalm == "SSD" \in Evictors => used["SSD"] <= High("SSD")

Faster == [HBM |-> {}, DRAM |-> {"HBM"}, SSD |-> {"HBM", "DRAM"}]

\* A tier that does not exist holds nothing.
HbmAbsent == used["HBM"] = 0 /\ Held("HBM") = {}

\* While no Evictor runs: a handler about to drop the cold copy of a block knows
\* of a copy in a faster tier, which only a handler that knows of a still
\* faster one may drop.
PromotionOK ==
    /\ ev = [e \in Evictors |-> IdleEvictor]
    /\ \A c \in Clients :
          /\ cl[c].pc = "promote" => PromotionTarget(cl[c].tier) # cl[c].tier
          /\ cl[c].pc = "dropcold" => \E t \in Faster[cl[c].tier] : Holds(t, cl[c].id)
    /\ NoSilentLoss

\* Without HBM, all that such a handler drops is an SSD copy, which nobody
\* borrows: no span dangles and all bytes are good.
BorrowedOK ==
    /\ HbmAbsent
    /\ \A c \in Clients : ~cl[c].stale /\ cl[c].span # "SSD"
    /\ ReadsAreIntact
    /\ CopiesAreIntact

\* Without HBM and without promotion, while the SSD's Evictor does not run: the
\* DRAM Evictor is the only thread that drops copies.  It drops one that the
\* SSD has by then, and what it borrowed it has copied before.
DemoterOK(r) ==
    /\ ~r.stale /\ r.bytes = "ok" /\ r.pc # "demotessd"
    /\ r.pc # "demoteput" => r.span = NoSpan
    /\ r.pc \in {"demote", "demoteput", "demotedrop"} => r.tier = "DRAM"
    /\ r.pc = "demotedrop" => Holds("SSD", r.id)

DemotionOK ==
    /\ HbmAbsent
    /\ "SSD" \in Evictors => ev["SSD"] = IdleEvictor
    /\ \A c \in Clients : cl[c].pc \notin {"promote", "dropcold"}
    /\ DemoterOK(ev["DRAM"])
    /\ NoSilentLoss
    /\ CopiesAreIntact
=============================================================================
