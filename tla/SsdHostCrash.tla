----------------------------- MODULE SsdHostCrash -----------------------------
(***************************************************************************)
(* The SSD tier under a host crash.  The store never calls msync or fsync, *)
(* so the kernel writes dirty pages back when it likes and in any order; a *)
(* host crash keeps what was written back and loses the rest.  A slot is   *)
(* two units of write-back here: the page of its header, with the first    *)
(* payload bytes, and the pages after it.                                  *)
(***************************************************************************)
EXTENDS SsdBlockStore

CONSTANT MaxDeaths  \* bound: how often the process or its host goes down

ASSUME MaxDeathsAssumption == MaxDeaths \in Nat

VARIABLES disk,   \* the slots as the device holds them
          deaths  \* how often the process went down so far

hostVars == <<vars, disk, deaths>>

\* The kernel's write-back of one page of slot n.
WritebackHead(n) ==
    /\ disk' = [disk EXCEPT ![n] = [mem[n] EXCEPT !.hi = disk[n].hi]]
    /\ UNCHANGED <<vars, deaths>>

WritebackTail(n) ==
    /\ disk' = [disk EXCEPT ![n].hi = mem[n].hi]
    /\ UNCHANGED <<vars, deaths>>

HostCrash == /\ deaths < MaxDeaths
             /\ deaths' = deaths + 1
             /\ mem' = disk
             /\ up' = FALSE
             /\ index' = [b \in Ids |-> NoSlot]
             /\ free' = <<>>
             /\ used' = 0
             /\ UNCHANGED disk

HostInit == Init /\ disk = mem /\ deaths = 0

StoreStep == /\ Next
             /\ deaths' = IF up /\ ~up' THEN deaths + 1 ELSE deaths
             /\ deaths' <= MaxDeaths
             /\ UNCHANGED disk

HostNext == \/ StoreStep
            \/ \E n \in Slots : WritebackHead(n) \/ WritebackTail(n)
            \/ HostCrash

HostSpec == HostInit /\ [][HostNext]_hostVars

-----------------------------------------------------------------------------
\* A block that shares one page with its header is read intact or not at all,
\* even after a host crash: header and payload reach the device together.
SinglePageReadsAreIntact ==
    \A b \in Indexed : GetCopy(b).hit /\ ~Spans(b) => Intact(GetCopy(b), b)

\* A host crash can leave two live slots with one id, and the second of them
\* leaks until the next start; but no slot is ever handed out twice.
SlotsAreNeverShared ==
    /\ \A a, b \in Indexed : index[a] = index[b] => a = b
    /\ \A i, j \in 1 .. Len(free) : free[i] = free[j] => i = j
    /\ \A i \in 1 .. Len(free) : \A b \in Indexed : free[i] # index[b]

\* "No fsync - a host crash loses recently-written SSD blocks, which is
\* acceptable" (ssd_block_store.hpp:7): a crash may lose blocks, and what is
\* still found is intact.
HostCrashOnlyLosesBlocks == ReadsAreIntact

-----------------------------------------------------------------------------
(***************************************************************************)
(* The inductive invariant behind SinglePageReadsAreIntact and             *)
(* SlotsAreNeverShared.  In the page cache and on the device a live magic  *)
(* vouches for the rest of its page, which is all that is left of          *)
(* LiveMeansWhole: two live slots may carry one id, and a tail may be old. *)
(***************************************************************************)
HeadsAreWhole(slots) ==
    \A n \in Slots : slots[n].live => /\ slots[n].id \in Ids
                                      /\ Fits(slots[n].id)
                                      /\ slots[n].size = Size[slots[n].id]
                                      /\ slots[n].lo = slots[n].id

IndexNamesSlots ==
    \A b \in Indexed : up /\ mem[index[b]].live /\ mem[index[b]].id = b

FreeSlotsAreDead ==
    /\ \A i, j \in 1 .. Len(free) : free[i] = free[j] => i = j
    /\ \A i \in 1 .. Len(free) : ~mem[free[i]].live

HostInv == /\ TypeOK /\ disk \in [Slots -> SlotImages]
           /\ HeadsAreWhole(mem) /\ HeadsAreWhole(disk)
           /\ IndexNamesSlots /\ FreeSlotsAreDead
=============================================================================
