---------------------------- MODULE SsdBlockStore ----------------------------
(***************************************************************************)
(* The SSD tier: an array of slots in one mmap'd file, an in-memory index  *)
(* from block to slot, and a free list.  The file outlives the process;    *)
(* the index, the free list and the byte counter are rebuilt from the slot *)
(* headers when the process starts.                                        *)
(*                                                                         *)
(* Put and Erase hold the store's lock from end to end, so no other thread *)
(* sees them half done: each is one action.  What does see them half done  *)
(* is a killed process, which leaves the stores made so far in the page    *)
(* cache: KillInPut and KillInErase stop after any prefix of the stores.   *)
(* Stores reach the page cache in program order.                           *)
(***************************************************************************)
EXTENDS Integers, Sequences, FiniteSetsExt

CONSTANTS Ids,          \* block ids; an id is a content hash, so it names its bytes
          Size,         \* payload size of each block
          TotalSlots,   \* capacity_bytes / slot_bytes
          SlotPayload,  \* slot_bytes - sizeof(SsdSlotHeader)
          HeadRoom,     \* payload bytes that share the header's page
          NoId          \* what a field never or only partly written reads as

ASSUME SsdAssumption ==
    /\ TotalSlots \in Nat \ {0}
    /\ SlotPayload \in Nat
    /\ HeadRoom \in Nat
    /\ Size \in [Ids -> Nat]
    /\ NoId \notin Ids

VARIABLES mem,    \* the slots as the page cache holds them
          up,     \* whether the process is running
          index,  \* index_: block -> slot
          free,   \* free_slots_, used as a stack
          used    \* used_bytes_

vars == <<mem, up, index, free, used>>

Slots == 0 .. TotalSlots - 1
NoSlot == -1

\* A slot: is its magic live, payload_size, the id in its header, and whose
\* bytes are in the header's page and in the pages after it.
SlotImages == [live : BOOLEAN, size : Nat, id : Ids \cup {NoId},
               lo : Ids \cup {NoId}, hi : Ids \cup {NoId}]

FreshSlot == [live |-> FALSE, size |-> 0, id |-> NoId, lo |-> NoId, hi |-> NoId]

Fits(b) == Size[b] <= SlotPayload
Spans(b) == Size[b] > HeadRoom

\* Mutant of PutStage: the magic is written before the payload.
PutStageMagicFirst(im, b, k) ==
    [live |-> TRUE,
     size |-> IF k >= 4 THEN Size[b] ELSE im.size,
     id   |-> IF k >= 6 THEN b ELSE IF k = 5 THEN NoId ELSE im.id,
     lo   |-> IF k >= 3 THEN b ELSE IF k = 2 THEN NoId ELSE im.lo,
     hi   |-> IF k >= 3 /\ Spans(b) THEN b ELSE im.hi]

\* Mutant of PutStage: only the part in the header's page is copied.
PutStageHeadOnly(im, b, k) ==
    [live |-> IF k >= 6 THEN TRUE ELSE im.live,
     size |-> IF k >= 3 THEN Size[b] ELSE im.size,
     id   |-> IF k >= 5 THEN b ELSE IF k = 4 THEN NoId ELSE im.id,
     lo   |-> IF k >= 2 THEN b ELSE IF k = 1 THEN NoId ELSE im.lo,
     hi   |-> im.hi]

\* The slot after the first k stores of Put: the payload in part (1) and whole
\* (2), payload_size (3), the id in part (4) and whole (5), the magic (6).
PutStores == 6
PutStage(im, b, k) ==
    [live |-> IF k >= 6 THEN TRUE ELSE im.live,
     size |-> IF k >= 3 THEN Size[b] ELSE im.size,
     id   |-> IF k >= 5 THEN b ELSE IF k = 4 THEN NoId ELSE im.id,
     lo   |-> IF k >= 2 THEN b ELSE IF k = 1 THEN NoId ELSE im.lo,
     hi   |-> IF k >= 2 /\ Spans(b) THEN b ELSE im.hi]

\* The slot after the first k stores of Erase: the magic, then payload_size.
EraseStores == 2
EraseStage(im, k) ==
    [live |-> IF k >= 1 THEN FALSE ELSE im.live,
     size |-> IF k >= 2 THEN 0 ELSE im.size,
     id |-> im.id, lo |-> im.lo, hi |-> im.hi]

-----------------------------------------------------------------------------
(***************************************************************************)
(* The constructor.  A fresh file reads as zeros.  RebuildIndexFromMmap    *)
(* walks the slots upwards: a live slot with a plausible size is indexed,  *)
(* the first slot of an id winning; every other slot goes on the free      *)
(* list.  bump_next_ is set past the end, so AllocSlot only pops the list. *)
(***************************************************************************)
LiveSlot(n) == mem[n].live /\ mem[n].size <= SlotPayload

Rebuilt(b) ==
    LET claims == {n \in Slots : LiveSlot(n) /\ mem[n].id = b}
    IN  IF claims = {} THEN NoSlot
        ELSE CHOOSE n \in claims : \A m \in claims : n <= m

LiveBytes == MapThenSumSet(LAMBDA n : mem[n].size, {n \in Slots : LiveSlot(n)})

\* Mutant of RebuildIndexFromMmap: the file is truncated when it is opened.
RebuildTruncated ==
    /\ ~up
    /\ up' = TRUE
    /\ index' = [b \in Ids |-> NoSlot]
    /\ free' = [i \in 1 .. TotalSlots |-> i - 1]
    /\ used' = 0
    /\ mem' = [n \in Slots |-> FreshSlot]

RebuildIndexFromMmap ==
    /\ ~up
    /\ up' = TRUE
    /\ index' = [b \in Ids |-> Rebuilt(b)]
    /\ \E k \in 0 .. TotalSlots : \E f \in [1 .. k -> Slots] :
          /\ \A i, j \in 1 .. k : i < j => f[i] < f[j]
          /\ {f[i] : i \in 1 .. k} = {n \in Slots : ~LiveSlot(n)}
          /\ free' = f
    /\ used' = LiveBytes
    /\ UNCHANGED mem

Init == /\ mem = [n \in Slots |-> FreshSlot]
        /\ up = FALSE
        /\ index = [b \in Ids |-> NoSlot]
        /\ free = <<>>
        /\ used = 0

-----------------------------------------------------------------------------
AllocSlot == free[Len(free)]

\* Mutant of Pop: the slot handed out stays on the list.
PopNothing == free

Pop == SubSeq(free, 1, Len(free) - 1)

\* A Put that finds its block present, too large, or no slot left changes
\* nothing.
CanPut(b) == up /\ Fits(b) /\ index[b] = NoSlot /\ free # <<>>

Put(b) == /\ CanPut(b)
          /\ mem' = [mem EXCEPT ![AllocSlot] = PutStage(@, b, PutStores)]
          /\ index' = [index EXCEPT ![b] = AllocSlot]
          /\ free' = Pop
          /\ used' = used + Size[b]
          /\ UNCHANGED up

\* Mutant of Erase: used_bytes_ keeps the bytes of the erased block.
EraseKeepsBytes(b) ==
    /\ up
    /\ index[b] # NoSlot
    /\ mem' = [mem EXCEPT ![index[b]] = EraseStage(@, EraseStores)]
    /\ index' = [index EXCEPT ![b] = NoSlot]
    /\ free' = Append(free, index[b])
    /\ UNCHANGED <<up, used>>

Erase(b) == /\ up
            /\ index[b] # NoSlot
            /\ mem' = [mem EXCEPT ![index[b]] = EraseStage(@, EraseStores)]
            /\ index' = [index EXCEPT ![b] = NoSlot]
            /\ free' = Append(free, index[b])
            /\ used' = used - mem[index[b]].size
            /\ UNCHANGED up

\* GetCopy copies the slot under the lock; Miss when the id is not indexed or
\* the magic is not live.
Miss == [hit |-> FALSE]
GetCopy(b) ==
    IF index[b] = NoSlot \/ ~mem[index[b]].live THEN Miss
    ELSE [hit |-> TRUE, size |-> mem[index[b]].size, lo |-> mem[index[b]].lo,
          hi |-> mem[index[b]].hi]

\* The process ends: cleanly, killed while no operation runs, or killed inside
\* one.  The memory of the process is gone, the page cache is not.
Stopped == /\ up
           /\ up' = FALSE
           /\ index' = [b \in Ids |-> NoSlot]
           /\ free' = <<>>
           /\ used' = 0

Kill == Stopped /\ UNCHANGED mem

KillInPut(b) ==
    /\ CanPut(b)
    /\ \E k \in 1 .. PutStores :
          mem' = [mem EXCEPT ![AllocSlot] = PutStage(@, b, k)]
    /\ Stopped

KillInErase(b) ==
    /\ index[b] # NoSlot
    /\ \E k \in 1 .. EraseStores :
          mem' = [mem EXCEPT ![index[b]] = EraseStage(@, k)]
    /\ Stopped

Next == \/ RebuildIndexFromMmap
        \/ \E b \in Ids : Put(b) \/ Erase(b) \/ KillInPut(b) \/ KillInErase(b)
        \/ Kill

Spec == Init /\ [][Next]_vars

-----------------------------------------------------------------------------
\* The slots, the index and the free list have their types.  (The counter
\* used_bytes_ is pinned down by UsedMatchesIndex.)
TypeOK == /\ mem \in [Slots -> SlotImages]
          /\ up \in BOOLEAN
          /\ index \in [Ids -> Slots \cup {NoSlot}]
          /\ free \in Seq(Slots)

Indexed == {b \in Ids : index[b] # NoSlot}

\* While the process runs, every slot is either on the free list, once, or is
\* the slot of exactly one indexed block: AllocSlot never hands out a slot in
\* use, and no slot leaks across Put, Erase, kill and RebuildIndexFromMmap.
SlotAccounting ==
    up => /\ \A a, b \in Indexed : index[a] = index[b] => a = b
          /\ \A i, j \in 1 .. Len(free) : free[i] = free[j] => i = j
          /\ \A n \in Slots : (\E i \in 1 .. Len(free) : free[i] = n)
                                  <=> ~ \E b \in Indexed : index[b] = n

\* The bytes of a slot are those of block b, all of them.
Intact(im, b) == /\ im.size = Size[b]
                 /\ im.lo = b
                 /\ Spans(b) => im.hi = b

\* GetCopy of an indexed block returns that block's own bytes, whatever was
\* killed in the middle of whatever write before: "partial writes show up as
\* torn rather than live-with-wrong-bytes" (ssd_block_store.hpp:50).
ReadsAreIntact == \A b \in Indexed : GetCopy(b).hit /\ Intact(GetCopy(b), b)

\* used_bytes_ is the sum of the payloads of the indexed blocks, so the
\* watermark the Evictor compares it with means what it says.
UsedMatchesIndex ==
    up => used = MapThenSumSet(LAMBDA b : Size[b], Indexed)

-----------------------------------------------------------------------------
(***************************************************************************)
(* The inductive invariant behind the properties above.  A live magic      *)
(* always vouches for a whole block, and no two live slots carry one id;   *)
(* while the process runs, index_ and free_slots_ mirror the live magics.  *)
(***************************************************************************)
LiveMeansWhole == \A n \in Slots : mem[n].live => /\ mem[n].id \in Ids
                                                 /\ Fits(mem[n].id)
                                                 /\ Intact(mem[n], mem[n].id)

LiveIdsDiffer == \A m, n \in Slots :
    mem[m].live /\ mem[n].live /\ mem[m].id = mem[n].id => m = n

IndexMirrorsSlots ==
    IF up THEN \A b \in Ids : \A n \in Slots :
                  index[b] = n <=> mem[n].live /\ mem[n].id = b
    ELSE \A b \in Ids : index[b] = NoSlot

FreeMirrorsSlots ==
    up => /\ \A i, j \in 1 .. Len(free) : free[i] = free[j] => i = j
          /\ \A n \in Slots : (\E i \in 1 .. Len(free) : free[i] = n) <=> ~mem[n].live

IndInv == TypeOK /\ LiveMeansWhole /\ LiveIdsDiffer /\ IndexMirrorsSlots /\ FreeMirrorsSlots

-----------------------------------------------------------------------------
\* Slots that a restart will index.
Recoverable == {b \in Ids : \E n \in Slots : /\ LiveSlot(n)
                                            /\ mem[n].id = b
                                            /\ Intact(mem[n], b)}

Abstract == INSTANCE DurableBlockSet WITH held <- Recoverable

\* The slot array with its crashes implements a durable set of blocks: an
\* acknowledged Put survives a kill, and an Erase is not undone by one.
ImplementsDurableBlockSet == Abstract!Spec
=============================================================================
