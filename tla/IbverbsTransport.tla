--------------------------- MODULE IbverbsTransport ---------------------------
(***************************************************************************)
(* The RDMA transport of one node (cache_server/src/ibverbs_transport.cpp) *)
(* and its link to one peer, both ends: the replication workers that call  *)
(* Send, the lazy dial behind dial_mu, the ring of registered send         *)
(* buffers, the poller that turns completions into fulfilled promises, and *)
(* at the peer the pre-posted receive buffers and their poller.  Links to  *)
(* different peers share only the two mutexes of the connection table.     *)
(*                                                                         *)
(* A block is named by the Send that carries it, so a Send is its promise  *)
(* and its bytes.  The adapter and the fabric are external: an RC queue    *)
(* pair executes its sends in order, waits for a posted receive            *)
(* (rnr_retry_count 7 retries for ever), and flushes with an error once    *)
(* broken.  Posting a receive succeeds: no more than kMaxRecvBuffers are   *)
(* ever posted on a queue made for more.  Disconnect, which has no caller, *)
(* is left out.                                                            *)
(*                                                                         *)
(* fate tells how the process ended, if it did: by std::terminate, when a  *)
(* Conn is destroyed whose poller was never joined, or by touching a Conn  *)
(* that was torn down, after which nothing is claimed.                     *)
(***************************************************************************)
EXTENDS Integers, Sequences, Functions

CONSTANTS
  Workers,   \* the Replicator's worker threads
  SendBufs,  \* kMaxSendBuffers
  RecvBufs,  \* kMaxRecvBuffers
  WrShift,   \* 2^16: a wr_id is its serial number times this, plus the buffer
  MaxSends,  \* bound: calls of Send in a behaviour
  MaxConns,  \* bound: Conns that a behaviour dials
  NoWorker, NoConn

Sends == 1 .. MaxSends
Conns == 1 .. MaxConns
Bufs == 0 .. SendBufs - 1
NoBlock == 0                    \* a worker's Send when it has none

ASSUME IbverbsAssumption ==
  /\ SendBufs \in Nat \ {0} /\ RecvBufs \in Nat \ {0}
  /\ WrShift \in Nat /\ SendBufs <= WrShift
  /\ MaxSends \in Nat /\ MaxConns \in Nat
  /\ NoConn \notin Conns /\ NoWorker \notin Workers

VARIABLES
  wk,        \* worker -> where its Send is: see At
  outbound,  \* the Conn in the table, or NoConn
  dialMu,    \* the worker that holds dial_mu, or NoWorker
  main,      \* the main thread: "open", "join" (in Shutdown), "closed", "destroyed"
  fate,      \* how the process ended, or "alive"
  prom,      \* Send -> its promise
  st,        \* Conn -> "new", "up", "down" (broken) or "freed"
  free,      \* Conn -> free_send, as a set
  pend,      \* Conn -> pending: the pairs <<wr_id, Send>>
  next,      \* Conn -> next_wr
  mem,       \* Conn -> buffer -> the message written there last
  poller,    \* Conn -> its poller thread: "none", "run", "stop" (told to), "exited", "failed"
  took,      \* Conn -> the promise its poller is about to set: <<>> or <<Send, ok>>
  sq, cq,    \* Conn -> sends and completions in the adapter
  rq, rcq,   \* Conn -> receives posted and completed at the peer
  rmem,      \* Conn -> receive buffer at the peer -> its message
  rpoll,     \* Conn -> the peer's poller: its place and its buffer
  hist       \* history: messages posted and handed to on_receive, in order

table == <<outbound, dialMu, main, fate>>
ring == <<free, pend, next>>
nic == <<sq, cq>>
local == <<poller, took>>
remote == <<rq, rcq, rmem, rpoll>>
vars == <<wk, table, prom, st, ring, mem, local, nic, remote, hist>>

\* A worker at pc with Send s on Conn c under wr_id wr.
At(pc, s, c, wr) == [pc |-> pc, s |-> s, c |-> c, wr |-> wr]
Idle == At("idle", NoBlock, NoConn, 0)
Goto(w, r) == wk' = [wk EXCEPT ![w] = r]

BufOf(wr) == wr % WrShift

Alive == fate = "alive"
ConnsMuFree == main # "join"
WorkerAt(w, pc) == Alive /\ wk[w].pc = pc

\* std::promise: a second set_value throws.
Set(p, s, v) == [p EXCEPT ![s] = IF @ = "unset" THEN v ELSE "twice"]

Init ==
  /\ wk = [w \in Workers |-> Idle]
  /\ outbound = NoConn /\ dialMu = NoWorker /\ main = "open" /\ fate = "alive"
  /\ prom = [s \in Sends |-> "none"]
  /\ st = [c \in Conns |-> "new"]
  /\ free = [c \in Conns |-> {}]
  /\ pend = [c \in Conns |-> {}]
  /\ next = [c \in Conns |-> 1]
  /\ mem = [c \in Conns |-> [b \in Bufs |-> NoBlock]]
  /\ poller = [c \in Conns |-> "none"]
  /\ took = [c \in Conns |-> <<>>]
  /\ sq = [c \in Conns |-> <<>>] /\ cq = [c \in Conns |-> <<>>]
  /\ rq = [c \in Conns |-> <<>>] /\ rcq = [c \in Conns |-> <<>>]
  /\ rmem = [c \in Conns |-> [b \in 1 .. RecvBufs |-> NoBlock]]
  /\ rpoll = [c \in Conns |-> [pc |-> "none", buf |-> 0]]
  /\ hist = [posted |-> [c \in Conns |-> <<>>], got |-> [c \in Conns |-> <<>>]]

-----------------------------------------------------------------------------
(***************************************************************************)
(* Send, up to the Conn it works on: EnsureOutbound and Dial.              *)
(***************************************************************************)
\* The first look at the table, under conns_mu.
StartSend(w) ==
  /\ WorkerAt(w, "idle") /\ ConnsMuFree
  /\ \E s \in Sends :
       /\ prom[s] = "none" /\ \A r \in 1 .. s - 1 : prom[r] # "none"
       /\ prom' = [prom EXCEPT ![s] = "unset"]
       /\ Goto(w, At(IF outbound = NoConn THEN "dialmu" ELSE "acquire", s, outbound, 0))
  /\ UNCHANGED <<table, st, ring, mem, local, nic, remote, hist>>

\* A message that fits no buffer: false, before the table is looked at.
TooLarge(w) ==
  /\ WorkerAt(w, "idle")
  /\ \E s \in Sends :
       /\ prom[s] = "none" /\ \A r \in 1 .. s - 1 : prom[r] # "none"
       /\ prom' = [prom EXCEPT ![s] = "failed"]
       /\ Goto(w, At("await", s, NoConn, 0))
  /\ UNCHANGED <<table, st, ring, mem, local, nic, remote, hist>>

\* Mutant of Recheck: the table is not looked at again.
RecheckSkipped(w) ==
  /\ WorkerAt(w, "dialmu") /\ dialMu = NoWorker /\ ConnsMuFree
  /\ dialMu' = w
  /\ Goto(w, At("dial", wk[w].s, NoConn, 0))
  /\ UNCHANGED <<outbound, main, fate, prom, st, ring, mem, local, nic, remote, hist>>

\* dial_mu is had: the Conn may have been dialed by whoever held it before.
Recheck(w) ==
  /\ WorkerAt(w, "dialmu") /\ dialMu = NoWorker /\ ConnsMuFree
  /\ IF outbound = NoConn
     THEN dialMu' = w /\ Goto(w, At("dial", wk[w].s, NoConn, 0))
     ELSE Goto(w, At("acquire", wk[w].s, outbound, 0)) /\ UNCHANGED dialMu
  /\ UNCHANGED <<outbound, main, fate, prom, st, ring, mem, local, nic, remote, hist>>

\* The buffers of the ring, all free, and the poller of their completions.
SetupOutbound(c) ==
  /\ free' = [free EXCEPT ![c] = Bufs]
  /\ poller' = [poller EXCEPT ![c] = "run"]

\* The peer's ListenLoop accepts, with its receives posted and its poller started.
ConnectRequest(c) ==
  /\ rq' = [rq EXCEPT ![c] = [i \in 1 .. RecvBufs |-> i]]
  /\ rpoll' = [rpoll EXCEPT ![c] = [pc |-> "poll", buf |-> 0]]

Dial(w, c) ==
  /\ WorkerAt(w, "dial") /\ st[c] = "new" /\ \A d \in 1 .. c - 1 : st[d] # "new"
  /\ st' = [st EXCEPT ![c] = "up"]
  /\ SetupOutbound(c)
  /\ ConnectRequest(c)
  /\ Goto(w, At("emplace", wk[w].s, c, 0))
  /\ UNCHANGED <<table, prom, pend, next, mem, took, nic, rcq, rmem, hist>>

\* The peer does not answer with ESTABLISHED: the Conn goes out of scope and its
\* poller, a joinable thread, with it.
DialRefused(w) ==
  /\ WorkerAt(w, "dial")
  /\ fate' = "refused"
  /\ UNCHANGED <<wk, outbound, dialMu, main, prom, st, ring, mem, local, nic, remote, hist>>

Emplace(w) ==
  /\ WorkerAt(w, "emplace") /\ ConnsMuFree
  /\ outbound' = wk[w].c
  /\ dialMu' = NoWorker
  /\ Goto(w, At("acquire", wk[w].s, wk[w].c, 0))
  /\ UNCHANGED <<main, fate, prom, st, ring, mem, local, nic, remote, hist>>

\* Send ends with false and a ready future: the peer has no endpoint, or no address, route
\* or queue pair could be had for it; no buffer of the ring came free in all the attempts.
GiveUp(w) ==
  /\ Alive
  /\ \/ wk[w].pc \in {"dialmu", "dial"}
     \/ wk[w].pc = "acquire" /\ st[wk[w].c] # "freed" /\ free[wk[w].c] = {}
  /\ prom' = Set(prom, wk[w].s, "failed")
  /\ dialMu' = IF dialMu = w THEN NoWorker ELSE dialMu
  /\ Goto(w, At("await", wk[w].s, NoConn, 0))
  /\ UNCHANGED <<outbound, main, fate, st, ring, mem, local, nic, remote, hist>>

-----------------------------------------------------------------------------
(***************************************************************************)
(* Send, on its Conn: take a buffer, fill and post it, wait.               *)
(***************************************************************************)
\* Mutant of Taken: the buffer stays on the free list.
TakenNot(F, b) == F
Taken(F, b) == F \ {b}

\* Under send_mu: a free buffer, a wr_id that names it, and the promise.
AcquireBuffer(w) ==
  LET c == wk[w].c IN
  /\ WorkerAt(w, "acquire") /\ st[c] # "freed"
  /\ \E b \in free[c] :
       /\ free' = [free EXCEPT ![c] = Taken(@, b)]
       /\ pend' = [pend EXCEPT ![c] = @ \cup {<<next[c] * WrShift + b, wk[w].s>>}]
       /\ next' = [next EXCEPT ![c] = @ + 1]
       /\ Goto(w, At("post", wk[w].s, c, next[c] * WrShift + b))
  /\ UNCHANGED <<table, prom, st, mem, local, nic, remote, hist>>

Fill(w) == mem' = [mem EXCEPT ![wk[w].c][BufOf(wk[w].wr)] = wk[w].s]

\* Mutant of Accepted: the result of ibv_post_send is read the wrong way round.
AcceptedIsError(w) == prom' = Set(prom, wk[w].s, "failed")
Accepted(w) == UNCHANGED prom

\* The buffer, this worker's alone, is filled and given to ibv_post_send; a broken
\* queue pair flushes the send at once.
PostSend(w) ==
  LET c == wk[w].c IN
  /\ WorkerAt(w, "post") /\ st[c] # "freed"
  /\ Fill(w)
  /\ IF st[c] = "up"
     THEN sq' = [sq EXCEPT ![c] = Append(@, wk[w].wr)] /\ UNCHANGED cq
     ELSE cq' = [cq EXCEPT ![c] = Append(@, [wr |-> wk[w].wr, ok |-> FALSE])] /\ UNCHANGED sq
  /\ hist' = [hist EXCEPT !.posted[c] = Append(@, wk[w].s)]
  /\ Goto(w, At("await", wk[w].s, c, 0))
  /\ Accepted(w)
  /\ UNCHANGED <<table, st, ring, local, remote>>

\* Mutant of GivenBack: the buffer is lost.
GivenBackNot(F, wr) == F
GivenBack(F, wr) == F \cup {BufOf(wr)}

\* ibv_post_send fails: the wr_id is withdrawn.
PostFails(w) ==
  LET c == wk[w].c IN
  /\ WorkerAt(w, "post") /\ st[c] # "freed"
  /\ Fill(w)
  /\ pend' = [pend EXCEPT ![c] = @ \ {<<wk[w].wr, wk[w].s>>}]
  /\ free' = [free EXCEPT ![c] = GivenBack(@, wk[w].wr)]
  /\ prom' = Set(prom, wk[w].s, "failed")
  /\ Goto(w, At("await", wk[w].s, c, 0))
  /\ UNCHANGED <<table, st, next, local, nic, remote, hist>>

\* The worker's fut.get() returns, or throws broken_promise and is caught.
FutureReady(w) ==
  /\ WorkerAt(w, "await") /\ prom[wk[w].s] # "unset"
  /\ Goto(w, Idle)
  /\ UNCHANGED <<table, prom, st, ring, mem, local, nic, remote, hist>>

\* Shutdown destroyed the Conn under a worker that is still inside Send.
UseAfterTeardown(w) ==
  /\ Alive /\ wk[w].pc \in {"acquire", "post"} /\ st[wk[w].c] = "freed"
  /\ fate' = "torn"
  /\ UNCHANGED <<wk, outbound, dialMu, main, prom, st, ring, mem, local, nic, remote, hist>>

-----------------------------------------------------------------------------
(***************************************************************************)
(* The adapter and the link (external).                                    *)
(***************************************************************************)
CanLand(c) == sq[c] # <<>> /\ rq[c] # <<>>

\* The first send lands in the peer's first posted receive buffer.
Land(c) ==
  /\ rmem' = [rmem EXCEPT ![c][Head(rq[c])] = mem[c][BufOf(Head(sq[c]))]]
  /\ rcq' = [rcq EXCEPT ![c] = Append(@, Head(rq[c]))]
  /\ rq' = [rq EXCEPT ![c] = Tail(@)]

Transmit(c) ==
  /\ Alive /\ st[c] = "up" /\ CanLand(c)
  /\ Land(c)
  /\ sq' = [sq EXCEPT ![c] = Tail(@)]
  /\ cq' = [cq EXCEPT ![c] = Append(@, [wr |-> Head(sq[c]), ok |-> TRUE])]
  /\ UNCHANGED <<wk, table, prom, st, ring, mem, local, rpoll, hist>>

\* The link or the peer fails; the acknowledgement of a message that has landed may be
\* lost with it.
Break(c) ==
  /\ Alive /\ st[c] = "up"
  /\ st' = [st EXCEPT ![c] = "down"]
  /\ \/ CanLand(c) /\ Land(c)
     \/ UNCHANGED <<rq, rcq, rmem>>
  /\ cq' = [cq EXCEPT ![c] = @ \o [i \in 1 .. Len(sq[c]) |-> [wr |-> sq[c][i], ok |-> FALSE]]]
  /\ sq' = [sq EXCEPT ![c] = <<>>]
  /\ UNCHANGED <<wk, table, prom, ring, mem, local, rpoll, hist>>

-----------------------------------------------------------------------------
(***************************************************************************)
(* PollOutbound.                                                           *)
(***************************************************************************)
Polls(c) == Alive /\ poller[c] \in {"run", "stop"} /\ took[c] = <<>>

\* Mutant of Completed: failed completions are passed over, as the inbound side does.
CompletedIfOk(c, wc) == {x \in pend[c] : x[1] = wc.wr /\ wc.ok}
\* The promise a completion belongs to.
Completed(c, wc) == {x \in pend[c] : x[1] = wc.wr}

\* Mutant of Verdict: every completion is a success.
VerdictOk(wc) == TRUE
Verdict(wc) == wc.ok

\* Under send_mu: the promise leaves pending and the buffer comes free.
PollOutbound(c) ==
  LET wc == Head(cq[c]) IN
  /\ Polls(c) /\ cq[c] # <<>>
  /\ cq' = [cq EXCEPT ![c] = Tail(@)]
  /\ pend' = [pend EXCEPT ![c] = @ \ Completed(c, wc)]
  /\ free' = [free EXCEPT ![c] = @ \cup {BufOf(x[1]) : x \in Completed(c, wc)}]
  /\ took' \in {[took EXCEPT ![c] = <<x[2], Verdict(wc)>>] : x \in Completed(c, wc)}
                 \cup {t \in {took} : Completed(c, wc) = {}}
  /\ UNCHANGED <<wk, table, prom, st, next, mem, poller, sq, remote, hist>>

\* The promise is set after send_mu is released.
SetValue(c) ==
  /\ Alive /\ took[c] # <<>>
  /\ prom' = Set(prom, took[c][1], IF took[c][2] THEN "ok" ELSE "failed")
  /\ took' = [took EXCEPT ![c] = <<>>]
  /\ UNCHANGED <<wk, table, st, ring, mem, poller, nic, remote, hist>>

\* Told to stop, or, on an error of ibv_poll_cq, for good with nobody to replace it.
PollerEnds(c, how) ==
  /\ Polls(c) /\ (how = "exited" => poller[c] = "stop")
  /\ poller' = [poller EXCEPT ![c] = how]
  /\ UNCHANGED <<wk, table, prom, st, ring, mem, took, nic, remote, hist>>

-----------------------------------------------------------------------------
(***************************************************************************)
(* The peer: PollInbound with HandleRecv and PostRecv.                     *)
(***************************************************************************)
PeerAt(c, pc, b) == rpoll' = [rpoll EXCEPT ![c] = [pc |-> pc, buf |-> b]]

\* Mutant of PollInbound: the buffer is posted again before it is read.
PollReposts(c) ==
  /\ rpoll[c].pc = "poll" /\ rcq[c] # <<>>
  /\ PeerAt(c, "handle", Head(rcq[c]))
  /\ rcq' = [rcq EXCEPT ![c] = Tail(@)]
  /\ rq' = [rq EXCEPT ![c] = Append(@, Head(rcq[c]))]
  /\ UNCHANGED <<wk, table, prom, st, ring, mem, local, nic, rmem, hist>>

PollInbound(c) ==
  /\ rpoll[c].pc = "poll" /\ rcq[c] # <<>>
  /\ PeerAt(c, "handle", Head(rcq[c]))
  /\ rcq' = [rcq EXCEPT ![c] = Tail(@)]
  /\ UNCHANGED <<wk, table, prom, st, ring, mem, local, nic, rq, rmem, hist>>

\* Mutant of OnReceive: the message is dropped.
OnReceiveDrops(c, m) == UNCHANGED hist
OnReceive(c, m) == hist' = [hist EXCEPT !.got[c] = Append(@, m)]

PostRecv(c, b) == rq' = [rq EXCEPT ![c] = Append(@, b)]

\* What the buffer holds is copied out and the buffer posted again.
HandleRecv(c) ==
  /\ rpoll[c].pc = "handle"
  /\ OnReceive(c, rmem[c][rpoll[c].buf])
  /\ PostRecv(c, rpoll[c].buf)
  /\ PeerAt(c, "poll", 0)
  /\ UNCHANGED <<wk, table, prom, st, ring, mem, local, nic, rcq, rmem>>

\* A DISCONNECTED event or the peer's own Shutdown stops its poller ("exited"), an error
\* of ibv_poll_cq ends it ("failed").
InboundEnds(c, how) ==
  /\ rpoll[c].pc = "poll"
  /\ PeerAt(c, how, 0)
  /\ UNCHANGED <<wk, table, prom, st, ring, mem, local, nic, rq, rcq, rmem, hist>>

-----------------------------------------------------------------------------
(***************************************************************************)
(* Shutdown and the destructor, in the main thread.  The workers run until *)
(* the destructor of the Replicator, between the two, has joined them.     *)
(***************************************************************************)
\* conns_mu is held from here to the end of Teardown.
Shutdown ==
  /\ Alive /\ main = "open"
  /\ main' = IF outbound = NoConn THEN "closed" ELSE "join"
  /\ poller' = IF outbound # NoConn /\ poller[outbound] = "run"
               THEN [poller EXCEPT ![outbound] = "stop"] ELSE poller
  /\ UNCHANGED <<wk, outbound, dialMu, fate, prom, st, ring, mem, took, nic, remote, hist>>

\* The future of a Send that has returned holds no promise of its own.
Breaks(s, c) == /\ prom[s] = "unset" /\ \E x \in pend[c] : x[2] = s
                /\ \E w \in Workers : wk[w].s = s /\ wk[w].pc = "await"

\* The poller is joined, the queue pair and the Conn go, and with them the promises
\* still pending: their futures throw.
Teardown ==
  LET c == outbound IN
  /\ Alive /\ main = "join" /\ poller[c] \in {"exited", "failed"}
  /\ main' = "closed"
  /\ outbound' = NoConn
  /\ st' = [st EXCEPT ![c] = "freed"]
  /\ prom' = [s \in Sends |-> IF Breaks(s, c) THEN "broken" ELSE prom[s]]
  /\ sq' = [sq EXCEPT ![c] = <<>>]
  /\ cq' = [cq EXCEPT ![c] = <<>>]
  /\ UNCHANGED <<wk, dialMu, fate, ring, mem, local, remote, hist>>

\* The destructor's own Shutdown returns at once; a Conn dialed since the first one is
\* destroyed with its poller running.
Destroy ==
  /\ Alive /\ main = "closed" /\ \A w \in Workers : wk[w] = Idle
  /\ main' = "destroyed"
  /\ fate' = IF outbound = NoConn THEN "exited" ELSE "leftover"
  /\ UNCHANGED <<wk, outbound, dialMu, prom, st, ring, mem, local, nic, remote, hist>>

-----------------------------------------------------------------------------
SendStep(w) ==
  \/ Recheck(w) \/ (\E c \in Conns : Dial(w, c)) \/ DialRefused(w) \/ Emplace(w) \/ GiveUp(w)
  \/ AcquireBuffer(w) \/ PostSend(w) \/ PostFails(w) \/ FutureReady(w) \/ UseAfterTeardown(w)

PollerStep(c) == PollOutbound(c) \/ SetValue(c) \/ PollerEnds(c, "exited")
PeerStep(c) == PollInbound(c) \/ HandleRecv(c)

Next ==
  \/ \E w \in Workers : StartSend(w) \/ TooLarge(w) \/ SendStep(w)
  \/ \E c \in Conns : \/ PollerStep(c) \/ PollerEnds(c, "failed")
                      \/ PeerStep(c) \/ InboundEnds(c, "exited") \/ InboundEnds(c, "failed")
                      \/ Transmit(c) \/ Break(c)
  \/ Shutdown \/ Teardown \/ Destroy

Spec == Init /\ [][Next]_vars

\* The threads run, the adapter works off its queue, and a link whose other end is being
\* torn down breaks; nothing makes a worker send, a healthy link break or the node shut down.
FairSpec ==
  /\ Spec
  /\ \A w \in Workers : WF_vars(SendStep(w))
  /\ \A c \in Conns : WF_vars(PollerStep(c)) /\ WF_vars(PeerStep(c)) /\ WF_vars(Transmit(c))
                     /\ WF_vars(rpoll[c].pc = "exited" /\ Break(c))
  /\ WF_vars(Teardown)

-----------------------------------------------------------------------------
(***************************************************************************)
(* Properties.                                                             *)
(***************************************************************************)
WrIds(c) == {x[1] : x \in pend[c]}
Live(c) == st[c] \in {"up", "down"}

\* The sends of a Conn that the adapter holds.
Posted(c) == Range(sq[c]) \cup {wc.wr : wc \in Range(cq[c])}

\* The workers that fill a buffer of a Conn.
Preparing(c) == {w \in Workers : wk[w].c = c /\ wk[w].pc = "post"}

\* The adapter holds none of them twice.
HeldOnce(c) ==
  /\ \A i, j \in DOMAIN sq[c] : sq[c][i] = sq[c][j] => i = j
  /\ \A i, j \in DOMAIN cq[c] : cq[c][i].wr = cq[c][j].wr => i = j
  /\ \A i \in DOMAIN sq[c], j \in DOMAIN cq[c] : sq[c][i] # cq[c][j].wr

\* The messages that reached the peer: handed to on_receive or waiting to be.
Landed(c) ==
  Range(hist.got[c]) \cup {rmem[c][b] : b \in Range(rcq[c])}
    \cup (IF rpoll[c].pc = "handle" THEN {rmem[c][rpoll[c].buf]} ELSE {})

\* The types of the state of ibverbs_transport.cpp.
TypeOK ==
  /\ \A w \in Workers : /\ wk[w].s \in Sends \cup {NoBlock} /\ wk[w].c \in Conns \cup {NoConn}
                        /\ wk[w].wr \in Nat
  /\ outbound \in Conns \cup {NoConn} /\ dialMu \in Workers \cup {NoWorker}
  /\ main \in {"open", "join", "closed", "destroyed"}
  /\ fate \in {"alive", "exited", "refused", "torn", "leftover"}
  /\ \A s \in Sends : prom[s] \in {"none", "unset", "ok", "failed", "broken", "twice"}
  /\ \A c \in Conns :
       /\ free[c] \subseteq Bufs /\ pend[c] \subseteq Nat \X Sends /\ next[c] \in Nat
       /\ Range(sq[c]) \subseteq Nat /\ Range(rq[c]) \subseteq 1 .. RecvBufs
       /\ Range(rcq[c]) \subseteq 1 .. RecvBufs

\* The send ring of Send and PollOutbound leaks no buffer and shares none: a buffer
\* is free or belongs to one pending wr_id, and a wr_id is with the worker that
\* prepares it or once in the adapter.
BuffersAccounted ==
  \A c \in Conns : Live(c) =>
    /\ free[c] \cup {BufOf(wr) : wr \in WrIds(c)} = Bufs
    /\ \A x, y \in pend[c] : BufOf(x[1]) = BufOf(y[1]) => x = y
    /\ \A x \in pend[c] : BufOf(x[1]) \notin free[c]
    /\ WrIds(c) = Posted(c) \cup {wk[w].wr : w \in Preparing(c)}
    /\ HeldOnce(c)

\* Until the completion of a send is polled its registered buffer holds the message
\* of that Send: no other Send writes a buffer the adapter may still read.
PostedIsIntact ==
  \A c \in Conns : Live(c) =>
    \A x \in pend[c] : x[1] \in Posted(c) => mem[c][BufOf(x[1])] = x[2]

\* Send's early returns, its error path and PollOutbound never fulfil a promise twice
\* (std::future_error, thrown in a poller, ends the process).
PromiseSetOnce == \A s \in Sends : prom[s] # "twice"

\* on_receive sees the messages of a Conn in the order they were posted, each once and
\* none left out: a receive buffer is not posted again before HandleRecv has read it.
DeliveredInOrder ==
  \A c \in Conns : LET got == hist.got[c] IN
    /\ Len(got) <= Len(hist.posted[c])
    /\ \A i \in 1 .. Len(got) : got[i] = hist.posted[c][i]

\* A Send whose future says true is one whose message reached the peer.
AckMeansLanded ==
  \A s \in Sends : prom[s] = "ok" => \E c \in Conns : s \in Landed(c)

\* dial_mu and the second look at the table: two workers that find no Conn do not both
\* dial one.
OneConnPerPeer == \A c, d \in Conns : Live(c) /\ Live(d) => c = d

\* Every Send's future becomes ready, whatever the link, the ring or a teardown does,
\* unless ibv_poll_cq failed for the poller at either end or the process ends.  (There are
\* MaxSends of them: none is left waiting if time and again none waits.)
SendResolves ==
  []<>(\/ \A s \in Sends : prom[s] # "unset"
       \/ ~Alive
       \/ \E c \in Conns : poller[c] = "failed" \/ rpoll[c].pc = "failed")

\* An acknowledged message is handed to the peer's on_receive, unless the peer's poller
\* is stopped or dies first.
AckedIsDelivered ==
  []<>(\A s \in Sends : prom[s] = "ok" =>
         \E c \in Conns : s \in Range(hist.got[c]) \/ rpoll[c].pc \in {"exited", "failed"})

\* "Returns the outbound Conn* or nullptr if unreachable" (EnsureOutbound): a peer that
\* does not accept costs a failed Send, not the process.
UnreachableIsReported == fate # "refused"

\* "its worker pool joins while transport_ is still alive (workers call transport_->Send)"
\* (cache.hpp): no worker is in Send on a Conn that Shutdown has torn down.
WorkersFindTransportAlive == fate # "torn"
=============================================================================
