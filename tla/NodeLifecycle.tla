---------------------------- MODULE NodeLifecycle ----------------------------
(***************************************************************************)
(* One server process from main() to its exit: the construction of         *)
(* LetheCache, Start, the gRPC server, the signal, Shutdown and the        *)
(* destruction of the members, against the threads that run meanwhile: the *)
(* tier threads of the Evictor, the heartbeat thread, the replication      *)
(* workers and their condition variable, the re-replication sweep, the     *)
(* /metrics thread, the gRPC handlers and, with RDMA, the receive poller.  *)
(*                                                                         *)
(* What the threads do is abstracted to the subsystems it touches and to   *)
(* the pushes it queues; the other modules say the rest.  The main thread  *)
(* is a program, a sequence of steps.  A stub that is used after the       *)
(* transport freed it is undefined behaviour: the call ends as usual or    *)
(* the process dies.                                                       *)
(***************************************************************************)
EXTENDS Integers, Sequences, FiniteSets

CONSTANTS
  Workers,    \* the replication workers
  Tiers,      \* the tiers with a capacity, one evictor thread each
  RdmaOn,     \* LETHE_USE_RDMA: blocks arrive at the transport's own poller
  MaxPushes,  \* bound: pushes queued in a behaviour
  NoWorker

ASSUME LifecycleAssumption ==
  RdmaOn \in BOOLEAN /\ MaxPushes \in Nat /\ NoWorker \notin Workers

VARIABLES
  pc,        \* the main thread's place in Program
  fate,      \* "alive", "exited" or "crashed"
  signal,    \* g_shutdown
  built,     \* the subsystems that exist
  running,   \* the subsystems whose running flag is set
  thr,       \* thread -> "none", "idle" (in its loop or timed sleep), "work" or "exited"
  wk,        \* worker -> its place, see below
  mu,        \* the worker that holds the pool's mu, or NoWorker
  queue,     \* how many pushes are queued
  queued, attempted,  \* how many ever were, and how many a worker took
  late,      \* history: how many were queued after the pool was told to stop
  stubs      \* the transport's connections: "none", "open" or "freed"

mainVars == <<pc, fate, signal, built, running, stubs>>
pushVars == <<queue, queued, attempted, late>>
vars == <<mainVars, thr, wk, mu, pushVars>>

-----------------------------------------------------------------------------
(***************************************************************************)
(* The main thread's program.                                              *)
(***************************************************************************)
Do(op, c) == [op |-> op, c |-> c]

\* The constructor of LetheCache, and Start.
Constructor ==
  << Do("build", "store"), Do("build", "router"), Do("build", "transport"),
     Do("build", "metrics"), Do("build", "replicator"), Do("connect", "transport"),
     Do("build", "membership"), Do("build", "evictor") >>
Start == << Do("start", "membership"), Do("start", "evictor") >>

\* The gRPC server, from BuildAndStart to its Shutdown.
Serve == << Do("serve", "server"), Do("wait", "server"), Do("drain", "server") >>

Shutdown ==
  << Do("stop", "evictor"), Do("join", "evictor"),
     Do("stop", "membership"), Do("join", "membership"),
     Do("stop", "transport"), Do("join", "transport"), Do("free", "transport") >>

\* Mutant of Destructors: transport_ is declared after replicator_.
DestructorsSwapped ==
  << Do("stop", "evictor"), Do("join", "evictor"), Do("destroy", "evictor"),
     Do("stop", "membership"), Do("join", "membership"), Do("destroy", "membership"),
     Do("destroy", "transport"),
     Do("stop", "replicator"), Do("join", "replicator"), Do("destroy", "replicator"),
     Do("stop", "metrics"), Do("join", "metrics"), Do("destroy", "metrics"),
     Do("destroy", "router"), Do("destroy", "store"), Do("exit", "process") >>

\* The destructors, in the reverse order of the members' declaration.  The first two run
\* their Shutdown once more.
Destructors ==
  << Do("stop", "evictor"), Do("join", "evictor"), Do("destroy", "evictor"),
     Do("stop", "membership"), Do("join", "membership"), Do("destroy", "membership"),
     Do("stop", "replicator"), Do("join", "replicator"), Do("destroy", "replicator"),
     Do("destroy", "transport"),
     Do("stop", "metrics"), Do("join", "metrics"), Do("destroy", "metrics"),
     Do("destroy", "router"), Do("destroy", "store"), Do("exit", "process") >>

Program == Constructor \o Start \o Serve \o Shutdown \o Destructors
DownAt == Len(Constructor) + Len(Start) + Len(Serve) + 1

-----------------------------------------------------------------------------
(***************************************************************************)
(* The threads other than the workers: whose they are, and what they use.  *)
(***************************************************************************)
Timed == Tiers \cup {"heartbeat", "sweep", "http"}
Threads == Timed \cup {"handler", "receiver"}

Owner(t) ==
  CASE t \in Tiers -> "evictor"
    [] t = "heartbeat" -> "membership"
    [] t = "sweep" -> "replicator"
    [] t = "http" -> "metrics"
    [] t = "handler" -> "server"
    [] t = "receiver" -> "transport"

\* RunPassForTier; HeartbeatLoop with SetPeers and TriggerReReplication;
\* DrainReReplication; render; the service's handlers; on_receive, that is Insert.
Uses(t) ==
  CASE t \in Tiers -> {"store", "membership", "metrics"}
    [] t = "heartbeat" -> {"router", "replicator", "store", "transport", "metrics"}
    [] t = "sweep" -> {"router", "store", "transport", "metrics"}
    [] t = "http" -> {}
    [] t = "handler" -> {"store", "router", "replicator", "membership", "evictor", "metrics"}
    [] t = "receiver" -> {"store", "replicator", "metrics"}

Pushers == {"heartbeat", "sweep", "handler", "receiver"}

\* The threads that the constructor of c starts, and those that c's Start does.
BuiltWith(c) == {t \in {"sweep", "http"} : Owner(t) = c}
                  \cup {t \in {"receiver"} : RdmaOn /\ c = "transport"}
StartedWith(c) == {t \in Tiers \cup {"heartbeat"} : Owner(t) = c}

Init ==
  /\ pc = 1 /\ fate = "alive" /\ signal = FALSE
  /\ built = {} /\ running = {}
  /\ thr = [t \in Threads |-> "none"]
  /\ wk = [w \in Workers |-> "none"] /\ mu = NoWorker
  /\ queue = 0 /\ queued = 0 /\ attempted = 0 /\ late = 0
  /\ stubs = "none"

-----------------------------------------------------------------------------
Alive == fate = "alive"
At(op, c) == Alive /\ Program[pc].op = op /\ Program[pc].c = c
Ready(T) == [t \in Threads |-> IF t \in T THEN "idle" ELSE thr[t]]

\* The /metrics thread ends at once when its port cannot be had.
PortTaken(c) == c = "metrics" /\ thr' = [thr EXCEPT !["http"] = "exited"]

\* The subsystem and the threads of its constructor.
Build(c) ==
  /\ At("build", c)
  /\ built' = built \cup {c}
  /\ running' = running \cup ({c} \cap {"replicator", "metrics", "transport"})
  /\ \/ thr' = Ready(BuiltWith(c))
     \/ PortTaken(c)
  /\ wk' = IF c = "replicator" THEN [w \in Workers |-> "lock"] ELSE wk
  /\ pc' = pc + 1
  /\ UNCHANGED <<fate, signal, stubs, mu, pushVars>>

\* EnsurePeerClient for every seed peer.
Connect ==
  /\ At("connect", "transport")
  /\ stubs' = "open"
  /\ pc' = pc + 1
  /\ UNCHANGED <<fate, signal, built, running, thr, wk, mu, pushVars>>

StartThreads(c) ==
  /\ At("start", c)
  /\ running' = running \cup {c}
  /\ thr' = Ready(StartedWith(c))
  /\ pc' = pc + 1
  /\ UNCHANGED <<fate, signal, built, stubs, wk, mu, pushVars>>

\* BuildAndStart; when the port cannot be bound main goes straight to Shutdown.
BuildAndStart ==
  /\ At("serve", "server")
  /\ \/ /\ built' = built \cup {"server"}
        /\ thr' = Ready({"handler"})
        /\ pc' = pc + 1
     \/ /\ pc' = DownAt
        /\ UNCHANGED <<built, thr>>
  /\ UNCHANGED <<fate, signal, running, stubs, wk, mu, pushVars>>

SignalSeen ==
  /\ At("wait", "server") /\ signal
  /\ pc' = pc + 1
  /\ UNCHANGED <<fate, signal, built, running, stubs, thr, wk, mu, pushVars>>

\* server->Shutdown: no new call is taken, and it returns once the handlers have.
ServerShutdown ==
  /\ At("drain", "server") /\ thr["handler"] = "idle"
  /\ thr' = [thr EXCEPT !["handler"] = "exited"]
  /\ built' = built \ {"server"}
  /\ pc' = pc + 1
  /\ UNCHANGED <<fate, signal, running, stubs, wk, mu, pushVars>>

\* Mutant of StopGuard: ~Replicator clears running without its mutex.
StopUnlocked(c) == TRUE
StopGuard(c) == c = "replicator" => mu = NoWorker

\* running is cleared; the Replicator does it under mu and wakes all its workers.
Stop(c) ==
  /\ At("stop", c) /\ StopGuard(c)
  /\ running' = running \ {c}
  /\ wk' = IF c = "replicator"
           THEN [w \in Workers |-> IF wk[w] = "parked" THEN "lock" ELSE wk[w]] ELSE wk
  /\ pc' = pc + 1
  /\ UNCHANGED <<fate, signal, built, stubs, thr, mu, pushVars>>

Join(c) ==
  /\ At("join", c)
  /\ \A t \in Threads \ {"handler"} : Owner(t) = c => thr[t] \in {"none", "exited"}
  /\ c = "replicator" => \A w \in Workers : wk[w] = "exited"
  /\ pc' = pc + 1
  /\ UNCHANGED <<fate, signal, built, running, stubs, thr, wk, mu, pushVars>>

\* transport_->Shutdown frees the connections.
FreeStubs ==
  /\ At("free", "transport")
  /\ stubs' = "freed"
  /\ pc' = pc + 1
  /\ UNCHANGED <<fate, signal, built, running, thr, wk, mu, pushVars>>

Destroy(c) ==
  /\ At("destroy", c)
  /\ built' = built \ {c}
  /\ pc' = pc + 1
  /\ UNCHANGED <<fate, signal, running, stubs, thr, wk, mu, pushVars>>

Exit ==
  /\ At("exit", "process")
  /\ fate' = "exited"
  /\ UNCHANGED <<pc, signal, built, running, stubs, thr, wk, mu, pushVars>>

Subsystems == {"store", "router", "transport", "metrics", "replicator", "membership", "evictor"}
MainStep ==
  \/ \E c \in Subsystems : Build(c) \/ StartThreads(c) \/ Stop(c) \/ Join(c) \/ Destroy(c)
  \/ Connect \/ BuildAndStart \/ SignalSeen \/ ServerShutdown \/ FreeStubs \/ Exit

\* SIGINT or SIGTERM.
HandleSignal ==
  /\ Alive /\ ~signal
  /\ signal' = TRUE
  /\ UNCHANGED <<pc, fate, built, running, stubs, thr, wk, mu, pushVars>>

-----------------------------------------------------------------------------
(***************************************************************************)
(* The threads.                                                            *)
(***************************************************************************)
\* The loop's test of running, after a sleep in slices, a timed wait or a timed accept.
Wake(t) ==
  /\ Alive /\ thr[t] = "idle" /\ t # "handler"
  /\ thr' = [thr EXCEPT ![t] = IF Owner(t) \in running THEN "work" ELSE "exited"]
  /\ UNCHANGED <<mainVars, wk, mu, pushVars>>

\* A call arrives while the server accepts.
Call ==
  /\ Alive /\ thr["handler"] = "idle" /\ Program[pc].op # "drain"
  /\ thr' = [thr EXCEPT !["handler"] = "work"]
  /\ UNCHANGED <<mainVars, wk, mu, pushVars>>

Finish(t) ==
  /\ Alive /\ thr[t] = "work"
  /\ thr' = [thr EXCEPT ![t] = "idle"]
  /\ UNCHANGED <<mainVars, wk, mu, pushVars>>

\* ReplicateOut and DrainReReplication: a push is queued under mu, and one waiting worker
\* is notified.
Push(t) ==
  /\ Alive /\ t \in Pushers /\ thr[t] = "work" /\ mu = NoWorker
  /\ "replicator" \in built /\ queued < MaxPushes
  /\ queue' = queue + 1 /\ queued' = queued + 1
  /\ late' = IF "replicator" \in running THEN late ELSE late + 1
  /\ wk' \in {[wk EXCEPT ![w] = "lock"] : w \in {v \in Workers : wk[v] = "parked"}}
             \cup {u \in {wk} : \A v \in Workers : wk[v] # "parked"}
  /\ UNCHANGED <<mainVars, thr, mu, attempted>>

-----------------------------------------------------------------------------
(***************************************************************************)
(* The workers.  cv.wait tests its predicate and parks, holding mu.        *)
(***************************************************************************)
LockMu(w) ==
  /\ Alive /\ wk[w] = "lock" /\ mu = NoWorker
  /\ mu' = w
  /\ wk' = [wk EXCEPT ![w] = "test"]
  /\ UNCHANGED <<mainVars, thr, pushVars>>

\* Mutants of Tested: the wait has no predicate; a stopped pool leaves its queue.
TestedNot(w) == IF "replicator" \in running THEN "park" ELSE IF queue > 0 THEN "take" ELSE "quit"
TestedQuits(w) == IF "replicator" \notin running THEN "quit" ELSE IF queue > 0 THEN "take" ELSE "park"
\* A worker that finds a push takes it, also when the pool is stopping.
Tested(w) == IF queue > 0 THEN "take" ELSE IF "replicator" \notin running THEN "quit" ELSE "park"

Test(w) ==
  /\ Alive /\ wk[w] = "test"
  /\ wk' = [wk EXCEPT ![w] = Tested(w)]
  /\ UNCHANGED <<mainVars, thr, mu, pushVars>>

Park(w) ==
  /\ Alive /\ wk[w] = "park"
  /\ mu' = NoWorker
  /\ wk' = [wk EXCEPT ![w] = "parked"]
  /\ UNCHANGED <<mainVars, thr, pushVars>>

Quit(w) ==
  /\ Alive /\ wk[w] = "quit"
  /\ mu' = NoWorker
  /\ wk' = [wk EXCEPT ![w] = "exited"]
  /\ UNCHANGED <<mainVars, thr, pushVars>>

Take(w) ==
  /\ Alive /\ wk[w] = "take"
  /\ mu' = NoWorker
  /\ queue' = queue - 1
  /\ attempted' = attempted + 1
  /\ wk' = [wk EXCEPT ![w] = "send"]
  /\ UNCHANGED <<mainVars, thr, queued, late>>

\* stub_for: without a stub the push fails at once.
StubFor(w) ==
  /\ Alive /\ wk[w] = "send"
  /\ wk' = [wk EXCEPT ![w] = IF stubs = "open" THEN "call" ELSE "lock"]
  /\ UNCHANGED <<mainVars, thr, mu, pushVars>>

\* The call returns, at the latest at its deadline.
Returned(w) ==
  /\ Alive /\ wk[w] = "call"
  /\ wk' = [wk EXCEPT ![w] = "lock"]
  /\ UNCHANGED <<mainVars, thr, mu, pushVars>>

UseFreedStub(w) ==
  /\ Alive /\ wk[w] = "call" /\ stubs = "freed"
  /\ fate' = "crashed"
  /\ UNCHANGED <<pc, signal, built, running, stubs, thr, wk, mu, pushVars>>

WorkerStep(w) ==
  LockMu(w) \/ Test(w) \/ Park(w) \/ Quit(w) \/ Take(w) \/ StubFor(w) \/ Returned(w)

-----------------------------------------------------------------------------
Next ==
  \/ MainStep \/ HandleSignal
  \/ \E t \in Threads : Wake(t) \/ Finish(t) \/ Push(t)
  \/ Call
  \/ \E w \in Workers : WorkerStep(w) \/ UseFreedStub(w)

Spec == Init /\ [][Next]_vars

\* Every thread is scheduled; a worker that wants mu gets it, since each holds it
\* briefly.  Signals and calls may never come.
FairSpec ==
  /\ Spec
  /\ SF_vars(MainStep)
  /\ \A t \in Threads : WF_vars(Wake(t)) /\ WF_vars(Finish(t))
  /\ \A w \in Workers : WF_vars(WorkerStep(w)) /\ SF_vars(LockMu(w))

-----------------------------------------------------------------------------
(***************************************************************************)
(* Properties.                                                             *)
(***************************************************************************)
\* The types of the state of the process.
TypeOK ==
  /\ pc \in 1 .. Len(Program) /\ fate \in {"alive", "exited", "crashed"} /\ signal \in BOOLEAN
  /\ built \subseteq Subsystems \cup {"server"} /\ running \subseteq built
  /\ \A t \in Threads : thr[t] \in {"none", "idle", "work", "exited"}
  /\ \A w \in Workers : wk[w] \in {"none", "lock", "test", "park", "parked", "quit", "take",
                                   "send", "call", "exited"}
  /\ mu \in Workers \cup {NoWorker}
  /\ queue \in 0 .. MaxPushes /\ attempted \in 0 .. MaxPushes /\ queued \in 0 .. MaxPushes
  /\ stubs \in {"none", "open", "freed"}

\* The order of construction, Shutdown and the members' declaration: no thread runs
\* without the subsystem that owns it, and none is inside a subsystem that does not exist
\* yet or any more.
ThreadsFindTheirSubsystems ==
  /\ \A t \in Threads :
       /\ thr[t] \in {"idle", "work"} => Owner(t) \in built
       /\ thr[t] = "work" => Uses(t) \subseteq built
  /\ \A w \in Workers :
       wk[w] \notin {"none", "exited"} => {"replicator", "transport", "metrics"} \subseteq built

\* ~Replicator joins workers that first drain the queue: what is left when the process
\* exits was queued after the pool was told to stop, by a sweep joined after the workers.
QueueDrained == fate = "exited" => attempted + late >= queued

\* The condition variable loses no wake-up: every queued push is taken by a worker.  (There
\* are at most MaxPushes: none is left if time and again none waits.)
PushesAreAttempted == []<>(attempted = queued \/ ~Alive)

\* A signal ends the process: no thread that Shutdown or a destructor joins is stuck.
ShutdownCompletes == signal ~> ~Alive

\* "its worker pool joins while transport_ is still alive (workers call transport_->Send)"
\* (cache.hpp): no worker is in a call on a stub that transport_->Shutdown has freed.
StubsOutliveCalls == \A w \in Workers : wk[w] = "call" => stubs = "open"
=============================================================================
