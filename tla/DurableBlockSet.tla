--------------------------- MODULE DurableBlockSet ---------------------------
(***************************************************************************)
(* What the SSD tier promises its callers across process restarts: it is a *)
(* set of blocks.  A finished Put adds a block, a finished Erase removes   *)
(* one, and killing the process changes the set by at most the operation   *)
(* that was running.  Nothing else is lost, and no erased block comes      *)
(* back.  (A host crash is outside this promise.)                          *)
(***************************************************************************)
CONSTANT Ids

VARIABLES held,  \* the blocks a read returns intact, now or after a restart
          up     \* whether the process is running

vars == <<held, up>>

Init == held = {} /\ up = FALSE

Put(b) == up /\ held' = held \cup {b} /\ UNCHANGED up

Erase(b) == up /\ held' = held \ {b} /\ UNCHANGED up

\* The operation the process dies in either happened or did not.
Kill == /\ up
        /\ up' = FALSE
        /\ \/ held' = held
           \/ \E b \in Ids : held' \in {held \cup {b}, held \ {b}}

Restart == ~up /\ up' = TRUE /\ UNCHANGED held

Next == \/ \E b \in Ids : Put(b) \/ Erase(b)
        \/ Kill
        \/ Restart

Spec == Init /\ [][Next]_vars
=============================================================================
