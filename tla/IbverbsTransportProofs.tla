----------------------- MODULE IbverbsTransportProofs -----------------------
(***************************************************************************)
(* Theorems about IbverbsTransport, for any workers, ring size, receive    *)
(* buffers, messages and connections: no send buffer is lost or shared,    *)
(* none is written while the adapter may still read it, a peer has one     *)
(* live Conn at most, a promise is set once, on_receive sees what was      *)
(* posted on a Conn in order and without gaps, and a Send that is reported *)
(* as done has reached the peer.                                           *)
(*                                                                         *)
(* The invariants of one Conn, Good for the send ring and Stream for its   *)
(* messages, are predicates on plain values. Every step of the workers,    *)
(* the adapter, the pollers and Shutdown is then shown to keep them of     *)
(* every Conn, and the theorems follow.                                    *)
(***************************************************************************)
EXTENDS IbverbsTransport, TLAPS

-----------------------------------------------------------------------------
(***************************************************************************)
(* What the arguments about dial_mu and about the promises take from the   *)
(* invariant of the ring: types, and where a wr_id may be.                 *)
(***************************************************************************)
Places == {"idle", "dialmu", "dial", "emplace", "acquire", "post", "await"}
WorkerRecs == [pc : Places, s : Sends \cup {NoBlock}, c : Conns \cup {NoConn}, wr : Nat]

\* A worker past its dial has a Conn that was dialed, and a Send.
OnConn ==
  /\ \A w \in Workers :
       /\ wk[w].pc \in {"emplace", "acquire", "post"} => wk[w].c \in Conns /\ st[wk[w].c] # "new"
       /\ wk[w].pc # "idle" => wk[w].s \in Sends
  /\ outbound # NoConn => st[outbound] # "new"

\* A worker that fills a buffer has its wr_id in pending, and the adapter has not completed
\* that wr_id; completions come from live Conns only.
RingFacts ==
  /\ wk \in [Workers -> WorkerRecs] /\ outbound \in Conns \cup {NoConn}
  /\ st \in [Conns -> {"new", "up", "down", "freed"}] /\ pend \in [Conns -> SUBSET (Nat \X Sends)]
  /\ OnConn
  /\ \A c \in Conns :
       /\ st[c] = "new" => pend[c] = {}
       /\ Live(c) => \A w \in Preparing(c) : <<wk[w].wr, wk[w].s>> \in pend[c]
       /\ cq[c] # <<>> => /\ Live(c) /\ Head(cq[c]).ok \in BOOLEAN
                          /\ \A w \in Preparing(c) : wk[w].wr # Head(cq[c]).wr

\* Backends for the leaves that name none: Zenon, and where it gives up SMT.
USE ZenonT(15), SMTT(40)

-----------------------------------------------------------------------------
(***************************************************************************)
(* Plain facts about numbers, sequences and the values of the model.       *)
(***************************************************************************)
\* The messages, with what a buffer holds before its first, and the peer's receive buffers.
Msgs == Sends \cup {NoBlock}
Slots == 1 .. RecvBufs

\* Where the peer's poller may be; it has a buffer while it handles a message.
PeerPlaces == {"none", "poll", "handle", "exited", "failed"}
PeerRecs == {r \in [pc : PeerPlaces, buf : 0 .. RecvBufs] : r.pc = "handle" => r.buf \in Slots}

\* The records of the peer's poller.
LEMMA PeerRecords ==
  /\ \A p \in {"none", "poll", "exited", "failed"} : [pc |-> p, buf |-> 0] \in PeerRecs
  /\ \A b \in Slots : [pc |-> "handle", buf |-> b] \in PeerRecs
  /\ \A p, b : [pc |-> p, buf |-> b].pc = p /\ [pc |-> p, buf |-> b].buf = b
  BY IbverbsAssumption, SMTT(40) DEF PeerRecs, PeerPlaces, Slots

\* The receives that the peer posts at first.
LEMMA ReceiveQueue == [i \in 1 .. RecvBufs |-> i] \in Seq(Slots)
  BY IbverbsAssumption, SMTT(40) DEF Slots

\* A sequence of messages, or of receive buffers, has a length.
LEMMA Lengths ==
  /\ \A x \in Seq(Msgs) : Len(x) \in Nat /\ DOMAIN x = 1 .. Len(x)
  /\ \A x \in Seq(Slots) : Len(x) \in Nat /\ DOMAIN x = 1 .. Len(x)
  BY SMTT(40)

\* A count stays or grows by one.
LEMMA StaysOrGrows == \A m \in Nat : m <= m /\ m <= m + 1
  BY SMTT(40)

\* A part is no longer than the whole, and what is in the whole and not past the part is in it.
LEMMA Prefix ==
  ASSUME NEW m \in Nat, NEW n \in Nat
  PROVE  /\ \A k \in Nat : m + n <= k => m <= k
         /\ \A i \in 1 .. m + n : i <= m => i \in 1 .. m
         /\ \A i \in 1 .. m + n : ~(i <= m) => i - m \in 1 .. n /\ i = m + (i - m)
  BY SMTT(40)

\* Sums and successors.
LEMMA Sums == \A m, n \in Nat : m + n \in Nat /\ m + 1 \in Nat
  BY SMTT(40)

\* A message is added at the end.
LEMMA MessageAdded ==
  \A x \in Seq(Msgs) : \A m \in Msgs :
    /\ Append(x, m) \in Seq(Msgs) /\ Len(Append(x, m)) = Len(x) + 1
    /\ \A i \in 1 .. Len(x) : Append(x, m)[i] = x[i]
  BY SMTT(40)

\* The two parts of a pair.
LEMMA PairParts ==
  ASSUME NEW p, NEW x, NEW y, p = <<x, y>>
  PROVE  p[1] = x /\ p[2] = y
  BY SMTT(40)

\* The empty sequence.
LEMMA Nothing ==
  /\ <<>> \in Seq(Msgs) /\ <<>> \in Seq(Slots) /\ Len(<<>>) = 0
  /\ \A i : i \notin 1 .. 0
  BY SMTT(40)

\* What Append does, entry by entry.
LEMMA Appended ==
  ASSUME NEW T, NEW S \in Seq(T), NEW x \in T
  PROVE  /\ Append(S, x) \in Seq(T) /\ Len(S) \in Nat
         /\ DOMAIN S = 1 .. Len(S) /\ DOMAIN Append(S, x) = 1 .. Len(S) + 1
         /\ Len(Append(S, x)) = Len(S) + 1
         /\ \A i \in 1 .. Len(S) : Append(S, x)[i] = S[i]
         /\ Append(S, x)[Len(S) + 1] = x
  BY SMTT(40)

\* Two sequences that have no message between them.
LEMMA BothEmpty ==
  ASSUME NEW A, NEW B, NEW S \in Seq(A), NEW T \in Seq(B), Len(S) + Len(T) <= 0
  PROVE  S = <<>> /\ T = <<>>
<1>1. Len(S) \in Nat /\ Len(T) \in Nat
  BY SMTT(40)
<1>2. Len(S) = 0 /\ Len(T) = 0
  BY <1>1
<1> QED
  BY <1>2

\* A message is counted once wherever it is.
LEMMA OneMore ==
  ASSUME NEW m \in Nat, NEW n \in Nat
  PROVE  m + (n + 1) = (m + n) + 1 /\ (m + 1) + n = m + (n + 1)
  BY SMTT(40)

\* What Head and Tail do.
LEMMA HeadAndTail ==
  ASSUME NEW T, NEW S \in Seq(T), S # <<>>
  PROVE  /\ Tail(S) \in Seq(T) /\ Head(S) \in T /\ Head(S) = S[1] /\ Len(S) \in Nat \ {0}
         /\ DOMAIN S = 1 .. Len(S) /\ DOMAIN Tail(S) = 1 .. Len(S) - 1
         /\ \A i \in 1 .. Len(S) - 1 : Tail(S)[i] = S[i + 1]
<1>1. Len(S) \in Nat /\ Len(S) # 0 /\ DOMAIN S = 1 .. Len(S)
  BY SMTT(40)
<1>2. Tail(S) \in Seq(T) /\ Head(S) = S[1] /\ Len(Tail(S)) = Len(S) - 1
  BY SMTT(40)
<1>3. \A i \in 1 .. Len(S) - 1 : Tail(S)[i] = S[i + 1]
  BY <1>1
<1>4. DOMAIN Tail(S) = 1 .. Len(Tail(S)) /\ S[1] \in T
  BY <1>1, <1>2
<1> QED
  BY <1>1, <1>2, <1>3, <1>4

\* An empty queue has no entries.
LEMMA EmptyDomain == \A i : i \notin DOMAIN <<>>
  BY SMTT(40)

\* What joining two sequences does, entry by entry.
LEMMA Joined ==
  ASSUME NEW T, NEW S \in Seq(T), NEW U \in Seq(T)
  PROVE  /\ S \o U \in Seq(T) /\ DOMAIN (S \o U) = 1 .. Len(S) + Len(U)
         /\ \A i \in 1 .. Len(S) + Len(U) :
              (S \o U)[i] = IF i <= Len(S) THEN S[i] ELSE U[i - Len(S)]
  BY SMTT(40)

\* The first entry of a sequence, and where the entries of its tail come from.
LEMMA FirstAndRest ==
  ASSUME NEW T, NEW S \in Seq(T), S # <<>>
  PROVE  /\ Head(S) = S[1] /\ 1 \in DOMAIN S /\ Head(S) \in T
         /\ \A i \in DOMAIN Tail(S) : \E j \in DOMAIN S : Tail(S)[i] = S[j]
<1>1. Head(S) = S[1] /\ 1 \in DOMAIN S /\ Head(S) \in T
  BY SMTT(40)
<1>2. \A i \in DOMAIN Tail(S) : i + 1 \in DOMAIN S /\ Tail(S)[i] = S[i + 1]
  BY SMTT(40)
<1> QED
  BY <1>1, <1>2

\* Teardown with no Conn in the table touches no queue.
LEMMA TeardownOfNone ==
  ASSUME Teardown, outbound \notin Conns, NEW A, NEW B, NEW C,
         st \in [Conns -> A], sq \in [Conns -> B], cq \in [Conns -> C]
  PROVE  st' = st /\ sq' = sq /\ cq' = cq
  BY SMTT(40) DEF Teardown

\* The low part of a wr_id is its buffer.
LEMMA WrNamesBuffer ==
  ASSUME NEW n \in Nat, NEW b \in Bufs
  PROVE  n * WrShift + b \in Nat /\ BufOf(n * WrShift + b) = b
<1> DEFINE W == WrShift
           q == (n * W + b) \div W
           r == (n * W + b) % W
<1>1. W \in Nat \ {0} /\ b \in Nat /\ b < W
  BY IbverbsAssumption DEF Bufs
<1>2. n * W \in Nat
  BY <1>1
<1>3. n * W + b \in Nat
  BY <1>1, <1>2
<1>4. q \in Int /\ r \in 0 .. W - 1 /\ n * W + b = W * q + r
  BY <1>1, <1>3
<1> HIDE DEF W, q, r
<1>5. W * (q - n) = b - r
  BY <1>1, <1>2, <1>4
<1>6. ~(q - n >= 1)
  BY <1>1, <1>4, <1>5
<1>7. ~(q - n <= -1)
  BY <1>1, <1>4, <1>5
<1>8. q = n
  BY <1>4, <1>6, <1>7
<1>9. r = b
  BY <1>1, <1>4, <1>5, <1>8
<1> QED
  BY <1>3, <1>9 DEF BufOf, r, W

-----------------------------------------------------------------------------
(***************************************************************************)
(* EnsureOutbound: one Conn at a time.                                     *)
(***************************************************************************)
\* A worker is inside Dial, or has a Conn that is not in the table yet.
Dialing(w) == wk[w].pc \in {"dial", "emplace"}

\* Who dials holds dial_mu and found no Conn; a live Conn is in the table or with its dialer.
DialOK ==
  /\ \A w \in Workers : Dialing(w) => dialMu = w /\ outbound = NoConn
  /\ \A c \in Conns : Live(c) => \/ outbound = c
                                 \/ \E w \in Workers : wk[w].pc = "emplace" /\ wk[w].c = c

\* At the start nobody dials and no Conn is live.
LEMMA DialInit == Init => DialOK
  BY SMTT(40) DEF Init, DialOK, Dialing, Live, Idle, At

\* A worker that goes on without dialing keeps what is said of the dialers.
LEMMA WalksOutsideDial ==
  ASSUME RingFacts, DialOK, NEW w \in Workers, NEW r, Goto(w, r),
         wk[w].pc # "emplace", r.pc \notin {"dial", "emplace"},
         dialMu' = dialMu \/ (dialMu = w /\ dialMu' = NoWorker), UNCHANGED <<outbound, st>>
  PROVE  DialOK'
<1>1. wk'[w] = r /\ \A v \in Workers : v # w => wk'[v] = wk[v]
  BY DEF RingFacts, Goto
<1>2. \A v \in Workers : Dialing(v)' => v # w /\ Dialing(v)
  BY <1>1 DEF Dialing
<1>3. \A c \in Conns : Live(c)' <=> Live(c)
  BY DEF Live
<1> QED
  BY <1>1, <1>2, <1>3, SMTT(40) DEF DialOK

\* A step that leaves the workers, dial_mu and the table alone and makes no Conn live.
LEMMA NobodyDials ==
  ASSUME DialOK, UNCHANGED <<wk, dialMu, outbound>>, \A c \in Conns : Live(c)' => Live(c)
  PROVE  DialOK'
  BY DEF DialOK, Dialing

\* Every step keeps what is said of the dialers.
LEMMA DialOKStep == RingFacts /\ DialOK /\ [Next]_vars => DialOK'
<1> SUFFICES ASSUME RingFacts, DialOK, [Next]_vars
             PROVE  DialOK'
  OBVIOUS
<1> USE DEF WorkerAt
<1>t. /\ wk \in [Workers -> WorkerRecs] /\ outbound \in Conns \cup {NoConn}
      /\ st \in [Conns -> {"new", "up", "down", "freed"}] /\ NoWorker \notin Workers
      /\ NoConn \notin Conns
  BY IbverbsAssumption DEF RingFacts
<1>1. ASSUME NEW w \in Workers, StartSend(w)
      PROVE  DialOK'
  <2>1. PICK s \in Sends :
          Goto(w, At(IF outbound = NoConn THEN "dialmu" ELSE "acquire", s, outbound, 0))
    BY <1>1 DEF StartSend
  <2>2. At(IF outbound = NoConn THEN "dialmu" ELSE "acquire", s, outbound, 0).pc \notin {"dial", "emplace"}
    BY DEF At
  <2>3. wk[w].pc # "emplace" /\ UNCHANGED <<outbound, st, dialMu>>
    BY <1>1 DEF StartSend, table
  <2> QED
    BY <2>1, <2>2, <2>3, WalksOutsideDial
<1>2. ASSUME NEW w \in Workers, TooLarge(w)
      PROVE  DialOK'
  <2>1. PICK s \in Sends : Goto(w, At("await", s, NoConn, 0))
    BY <1>2 DEF TooLarge
  <2>2. At("await", s, NoConn, 0).pc \notin {"dial", "emplace"}
    BY DEF At
  <2>3. wk[w].pc # "emplace" /\ UNCHANGED <<outbound, st, dialMu>>
    BY <1>2 DEF TooLarge, table
  <2> QED
    BY <2>1, <2>2, <2>3, WalksOutsideDial
<1>3. ASSUME NEW w \in Workers, Recheck(w)
      PROVE  DialOK'
  <2>1. CASE outbound = NoConn
    <3>1. dialMu = NoWorker /\ dialMu' = w /\ UNCHANGED <<outbound, st>> /\ wk[w].pc = "dialmu"
      BY <1>3, <2>1 DEF Recheck
    <3>2. wk'[w].pc = "dial" /\ \A v \in Workers : v # w => wk'[v] = wk[v]
      BY <1>t, <1>3, <2>1, SMTT(40) DEF Recheck, Goto, At
    <3>3. \A v \in Workers : Dialing(v)' => v = w
      BY <1>t, <3>1, <3>2 DEF DialOK, Dialing
    <3>4. \A c \in Conns : ~Live(c)
      BY <1>t, <2>1, <3>1 DEF DialOK, Dialing
    <3> QED
      BY <2>1, <3>1, <3>3, <3>4 DEF DialOK, Live
  <2>2. CASE outbound # NoConn
    <3>1. /\ Goto(w, At("acquire", wk[w].s, outbound, 0)) /\ wk[w].pc # "emplace"
          /\ UNCHANGED <<outbound, st, dialMu>>
      BY <1>3, <2>2 DEF Recheck
    <3>2. At("acquire", wk[w].s, outbound, 0).pc \notin {"dial", "emplace"}
      BY DEF At
    <3> QED
      BY <3>1, <3>2, WalksOutsideDial
  <2> QED
    BY <2>1, <2>2
<1>4. ASSUME NEW w \in Workers, NEW c \in Conns, Dial(w, c)
      PROVE  DialOK'
  <2>1. /\ wk[w].pc = "dial" /\ UNCHANGED <<outbound, dialMu>> /\ st' = [st EXCEPT ![c] = "up"]
        /\ wk'[w].pc = "emplace" /\ wk'[w].c = c /\ \A v \in Workers : v # w => wk'[v] = wk[v]
    BY <1>t, <1>4 DEF Dial, Goto, At, table
  <2>2. dialMu = w /\ outbound = NoConn
    BY <2>1 DEF DialOK, Dialing
  <2>3. \A v \in Workers : Dialing(v) => v = w
    BY <2>2 DEF DialOK
  <2>4. \A v \in Workers : Dialing(v)' => v = w
    BY <2>1, <2>3 DEF Dialing
  <2>5. \A d \in Conns : ~Live(d)
    BY <1>t, <2>1, <2>2, <2>3 DEF DialOK, Dialing
  <2>6. \A d \in Conns : Live(d)' => d = c
    BY <1>t, <2>1, <2>5 DEF Live
  <2> QED
    BY <2>1, <2>2, <2>4, <2>6 DEF DialOK
<1>5. ASSUME NEW w \in Workers, Emplace(w)
      PROVE  DialOK'
  <2>1. /\ wk[w].pc = "emplace" /\ outbound' = wk[w].c /\ UNCHANGED st
        /\ wk'[w].pc = "acquire" /\ \A v \in Workers : v # w => wk'[v] = wk[v]
    BY <1>t, <1>5 DEF Emplace, Goto, At
  <2>2. dialMu = w /\ outbound = NoConn
    BY <2>1 DEF DialOK, Dialing
  <2>3. \A v \in Workers : Dialing(v) => v = w
    BY <2>2 DEF DialOK
  <2>4. \A v \in Workers : ~Dialing(v)'
    BY <2>1, <2>3 DEF Dialing
  <2>5. \A d \in Conns : Live(d) => d = wk[w].c
    BY <1>t, <2>2, <2>3 DEF DialOK, Dialing
  <2> QED
    BY <2>1, <2>4, <2>5 DEF DialOK, Live
<1>6. ASSUME NEW w \in Workers, GiveUp(w)
      PROVE  DialOK'
  <2>1. /\ wk[w].pc # "emplace" /\ UNCHANGED <<outbound, st>>
        /\ Goto(w, At("await", wk[w].s, NoConn, 0))
        /\ dialMu' = dialMu \/ (dialMu = w /\ dialMu' = NoWorker)
    BY <1>6 DEF GiveUp
  <2>2. At("await", wk[w].s, NoConn, 0).pc \notin {"dial", "emplace"}
    BY DEF At
  <2> QED
    BY <2>1, <2>2, WalksOutsideDial
<1>7. ASSUME NEW w \in Workers, AcquireBuffer(w)
      PROVE  DialOK'
  <2>1. /\ wk[w].pc # "emplace" /\ UNCHANGED <<outbound, st, dialMu>>
        /\ \E b \in free[wk[w].c] : Goto(w, At("post", wk[w].s, wk[w].c, next[wk[w].c] * WrShift + b))
    BY <1>7, ZenonT(40) DEF AcquireBuffer, table
  <2>2. PICK wr : Goto(w, At("post", wk[w].s, wk[w].c, wr))
    BY <2>1
  <2>3. At("post", wk[w].s, wk[w].c, wr).pc \notin {"dial", "emplace"}
    BY DEF At
  <2> QED
    BY <2>1, <2>2, <2>3, WalksOutsideDial
<1>8. ASSUME NEW w \in Workers, PostSend(w) \/ PostFails(w)
      PROVE  DialOK'
  <2>1. /\ wk[w].pc # "emplace" /\ UNCHANGED <<outbound, st, dialMu>>
        /\ Goto(w, At("await", wk[w].s, wk[w].c, 0))
    BY <1>8 DEF PostSend, PostFails, table
  <2>2. At("await", wk[w].s, wk[w].c, 0).pc \notin {"dial", "emplace"}
    BY DEF At
  <2> QED
    BY <2>1, <2>2, WalksOutsideDial
<1>9. ASSUME NEW w \in Workers, FutureReady(w)
      PROVE  DialOK'
  <2>1. wk[w].pc # "emplace" /\ UNCHANGED <<outbound, st, dialMu>> /\ Goto(w, Idle)
    BY <1>9 DEF FutureReady, table
  <2>2. Idle.pc \notin {"dial", "emplace"}
    BY DEF Idle, At
  <2> QED
    BY <2>1, <2>2, WalksOutsideDial
<1>10. ASSUME NEW w \in Workers, DialRefused(w) \/ UseAfterTeardown(w)
       PROVE  DialOK'
  BY <1>10, NobodyDials DEF DialRefused, UseAfterTeardown, Live
<1>11. ASSUME NEW w \in Workers, SendStep(w)
       PROVE  DialOK'
  BY <1>3, <1>4, <1>5, <1>6, <1>7, <1>8, <1>9, <1>10, <1>11 DEF SendStep
<1>12. ASSUME NEW c \in Conns,
              \/ PollerStep(c) \/ PollerEnds(c, "failed") \/ PeerStep(c)
              \/ (\E how \in {"exited", "failed"} : InboundEnds(c, how)) \/ Transmit(c)
       PROVE  DialOK'
  <2>1. UNCHANGED <<wk, dialMu, outbound, st>>
    BY <1>12 DEF PollerStep, PollOutbound, SetValue, PollerEnds, PeerStep, PollInbound, HandleRecv,
                 InboundEnds, Transmit, table
  <2> QED
    BY <2>1, NobodyDials DEF Live
<1>13. ASSUME NEW c \in Conns, Break(c)
       PROVE  DialOK'
  <2>1. UNCHANGED <<wk, dialMu, outbound>> /\ st[c] = "up" /\ st' = [st EXCEPT ![c] = "down"]
    BY <1>13 DEF Break, table
  <2> QED
    BY <1>t, <2>1, NobodyDials DEF Live
<1>14. ASSUME Shutdown \/ Destroy \/ UNCHANGED vars
       PROVE  DialOK'
  <2>1. UNCHANGED <<wk, dialMu, outbound, st>>
    BY <1>14 DEF Shutdown, Destroy, vars, table
  <2> QED
    BY <2>1, NobodyDials DEF Live
<1>15. ASSUME Teardown
       PROVE  DialOK'
  <2>1. UNCHANGED <<wk, dialMu>> /\ outbound' = NoConn /\ st' = [st EXCEPT ![outbound] = "freed"]
    BY <1>15 DEF Teardown
  <2>2. \A d \in Conns : Live(d)' => Live(d) /\ d # outbound
    BY <1>t, <2>1 DEF Live
  <2> QED
    BY <2>1, <2>2 DEF DialOK, Dialing
<1> QED
  BY <1>1, <1>2, <1>11, <1>12, <1>13, <1>14, <1>15 DEF Next

-----------------------------------------------------------------------------
(***************************************************************************)
(* The promises: one that is unset has one place that may set it.          *)
(***************************************************************************)
InSend == {"dialmu", "dial", "emplace", "acquire", "post"}
PromiseStates == {"none", "unset", "ok", "failed", "broken", "twice"}

\* The promise of a Send that is not posted yet is unset, and no other worker's.
WorkersOwn ==
  /\ \A w \in Workers : /\ wk[w].pc # "idle" => prom[wk[w].s] # "none"
                        /\ wk[w].pc \in InSend => prom[wk[w].s] = "unset"
  /\ \A v, w \in Workers : wk[v].pc # "idle" /\ wk[w].pc # "idle" /\ wk[v].s = wk[w].s => v = w

\* A promise is in pending once, and unset while its Conn is live; a worker that has it
\* as well is about to post it.
PendOwns ==
  \A c \in Conns : \A x \in pend[c] :
    /\ prom[x[2]] # "none" /\ (Live(c) => prom[x[2]] = "unset")
    /\ \A w \in Workers : wk[w].pc \in InSend /\ wk[w].s = x[2] => w \in Preparing(c) /\ wk[w].wr = x[1]
    /\ \A d \in Conns : \A y \in pend[d] : x[2] = y[2] => c = d /\ x = y

\* The promise that a poller is about to set is unset, and nobody else has it.
TookOwns ==
  \A c \in Conns : took[c] # <<>> =>
    /\ prom[took[c][1]] = "unset"
    /\ \A w \in Workers : wk[w].pc \in InSend => wk[w].s # took[c][1]
    /\ \A d \in Conns : \A y \in pend[d] : y[2] # took[c][1]
    /\ \A d \in Conns : took[d] # <<>> /\ took[d][1] = took[c][1] => c = d

\* Shutdown waits for the poller of a Conn that is in the table.
Joining == main = "join" => outbound \in Conns

PromTyped ==
  /\ prom \in [Sends -> PromiseStates]
  /\ took \in [Conns -> {<<>>} \cup (Sends \X BOOLEAN)]

Owned == PromTyped /\ WorkersOwn /\ PendOwns /\ TookOwns /\ PromiseSetOnce

\* A worker that moves keeps its Send and does not turn back; one that may still post is as
\* it was.
GoesOn(w) ==
  /\ wk'[w].pc # "idle" => wk[w].pc # "idle" /\ wk'[w].s = wk[w].s
  /\ wk'[w].pc \in InSend => wk[w].pc \in InSend /\ (wk[w].pc = "post" => wk'[w] = wk[w])

\* After a step nobody may set the promise s any more.
Disowned(s) ==
  /\ \A w \in Workers : wk'[w].pc \in InSend => wk'[w].s # s
  /\ \A c \in Conns : Live(c)' => \A x \in pend'[c] : x[2] # s
  /\ \A c \in Conns : took'[c] # <<>> => took'[c][1] # s

\* A step that takes no promise up, and settles only promises that nobody may set any more.
LEMMA OwnedKept ==
  ASSUME RingFacts, Owned, PromTyped', \A w \in Workers : GoesOn(w),
         \A c \in Conns : pend'[c] \subseteq pend[c],
         \A c \in Conns : took'[c] = took[c] \/ took'[c] = <<>>,
         \A c \in Conns : Live(c)' => Live(c) \/ pend[c] = {},
         \A s \in Sends : \/ prom'[s] = prom[s]
                          \/ prom'[s] \notin {"none", "twice"} /\ Disowned(s)
  PROVE  Owned'
<1>1. /\ \A w \in Workers : wk[w].pc # "idle" => wk[w].s \in Sends
      /\ \A c \in Conns : \A x \in pend[c] : x[2] \in Sends
      /\ \A c \in Conns : took[c] # <<>> => took[c][1] \in Sends
  BY SMTT(40) DEF RingFacts, OnConn, Owned, PromTyped
<1>2. WorkersOwn /\ PendOwns /\ TookOwns /\ PromiseSetOnce
  BY DEF Owned
<1>3. WorkersOwn'
  <2>1. \A w \in Workers : wk'[w].pc # "idle" => prom'[wk'[w].s] # "none"
    BY <1>1, <1>2 DEF GoesOn, WorkersOwn
  <2>2. \A w \in Workers : wk'[w].pc \in InSend => prom'[wk'[w].s] = "unset"
    BY <1>1, <1>2, SMTT(40) DEF GoesOn, WorkersOwn, Disowned, InSend
  <2>3. \A v, w \in Workers : wk'[v].pc # "idle" /\ wk'[w].pc # "idle" /\ wk'[v].s = wk'[w].s => v = w
    BY <1>2, SMTT(40) DEF GoesOn, WorkersOwn
  <2> QED
    BY <2>1, <2>2, <2>3 DEF WorkersOwn
<1>4. PendOwns'
  <2> SUFFICES ASSUME NEW c \in Conns, NEW x \in pend'[c]
               PROVE  /\ prom'[x[2]] # "none" /\ (Live(c)' => prom'[x[2]] = "unset")
                      /\ \A w \in Workers : wk'[w].pc \in InSend /\ wk'[w].s = x[2]
                                              => w \in Preparing(c)' /\ wk'[w].wr = x[1]
                      /\ \A d \in Conns : \A y \in pend'[d] : x[2] = y[2] => c = d /\ x = y
    BY DEF PendOwns
  <2>1. x \in pend[c] /\ x[2] \in Sends
    BY <1>1
  <2>2. prom'[x[2]] # "none" /\ (Live(c)' => prom'[x[2]] = "unset")
    BY <1>2, <2>1 DEF PendOwns, Disowned
  <2>3. \A w \in Workers : wk'[w].pc \in InSend /\ wk'[w].s = x[2] => w \in Preparing(c)' /\ wk'[w].wr = x[1]
    BY <1>2, <2>1, SMTT(40) DEF PendOwns, GoesOn, InSend, Preparing
  <2>4. \A d \in Conns : \A y \in pend'[d] : x[2] = y[2] => c = d /\ x = y
    BY <1>2, <2>1, SMTT(40) DEF PendOwns
  <2> QED
    BY <2>2, <2>3, <2>4
<1>5. TookOwns'
  <2> SUFFICES ASSUME NEW c \in Conns, took'[c] # <<>>
               PROVE  /\ prom'[took'[c][1]] = "unset"
                      /\ \A w \in Workers : wk'[w].pc \in InSend => wk'[w].s # took'[c][1]
                      /\ \A d \in Conns : \A y \in pend'[d] : y[2] # took'[c][1]
                      /\ \A d \in Conns : took'[d] # <<>> /\ took'[d][1] = took'[c][1] => c = d
    BY DEF TookOwns
  <2>1. took'[c] = took[c] /\ took[c] # <<>> /\ took[c][1] \in Sends
    BY <1>1
  <2>2. prom'[took[c][1]] = "unset"
    BY <1>2, <2>1 DEF TookOwns, Disowned
  <2>3. \A w \in Workers : wk'[w].pc \in InSend => wk'[w].s # took[c][1]
    BY <1>2, <2>1, SMTT(40) DEF TookOwns, GoesOn, InSend
  <2>4. \A d \in Conns : \A y \in pend'[d] : y[2] # took[c][1]
    BY <1>2, <2>1 DEF TookOwns
  <2>5. \A d \in Conns : took'[d] # <<>> /\ took'[d][1] = took[c][1] => c = d
    BY <1>2, <2>1 DEF TookOwns
  <2> QED
    BY <2>1, <2>2, <2>3, <2>4, <2>5
<1>6. PromiseSetOnce'
  BY <1>2 DEF PromiseSetOnce
<1> QED
  BY <1>3, <1>4, <1>5, <1>6 DEF Owned

\* A step that leaves the promises where they are.
LEMMA OwnedQuiet ==
  ASSUME RingFacts, Owned, \A w \in Workers : GoesOn(w), UNCHANGED <<prom, pend, took>>,
         \A c \in Conns : Live(c)' => Live(c) \/ pend[c] = {}
  PROVE  Owned'
<1>1. PromTyped'
  BY DEF Owned, PromTyped
<1> QED
  BY <1>1, OwnedKept

\* One worker moves, as GoesOn allows.
LEMMA WorkerGoesOn ==
  ASSUME RingFacts, NEW w \in Workers, NEW r, Goto(w, r),
         r.pc # "idle" => wk[w].pc # "idle" /\ r.s = wk[w].s,
         r.pc \in InSend => wk[w].pc \in InSend \ {"post"}
  PROVE  \A v \in Workers : GoesOn(v)
<1>1. wk'[w] = r /\ \A v \in Workers : v # w => wk'[v] = wk[v]
  BY DEF RingFacts, Goto
<1> QED
  BY <1>1 DEF GoesOn

\* Send starts with a promise that nobody has yet, or settles it at once.
LEMMA OwnedStart ==
  ASSUME RingFacts, Owned, NEW w \in Workers, NEW s \in Sends, NEW r \in WorkerRecs, Goto(w, r),
         wk[w].pc = "idle", r.s = s, r.pc \in (InSend \ {"post"}) \cup {"await"},
         prom[s] = "none", NEW p \in {"unset", "failed"}, prom' = [prom EXCEPT ![s] = p],
         r.pc \in InSend => p = "unset", UNCHANGED <<pend, took, st>>
  PROVE  Owned'
<1>1. wk'[w] = r /\ \A v \in Workers : v # w => wk'[v] = wk[v]
  BY DEF RingFacts, Goto
<1>2. WorkersOwn /\ PendOwns /\ TookOwns /\ PromiseSetOnce /\ PromTyped
  BY DEF Owned
<1>3. PromTyped' /\ prom'[s] = p /\ \A u \in Sends : u # s => prom'[u] = prom[u]
  BY <1>2 DEF PromTyped, PromiseStates
<1>4. /\ \A v \in Workers : wk[v].pc # "idle" => wk[v].s \in Sends /\ wk[v].s # s
      /\ \A c \in Conns : \A x \in pend[c] : x[2] \in Sends /\ x[2] # s
      /\ \A c \in Conns : took[c] # <<>> => took[c][1] \in Sends /\ took[c][1] # s
  BY <1>2, SMTT(40) DEF RingFacts, OnConn, PromTyped, WorkersOwn, PendOwns, TookOwns
<1>5. WorkersOwn'
  BY <1>1, <1>2, <1>3, <1>4, SMTT(40) DEF WorkersOwn, InSend
<1>6. PendOwns'
  BY <1>1, <1>2, <1>3, <1>4, SMTT(40) DEF PendOwns, Live, Preparing, InSend
<1>7. TookOwns'
  BY <1>1, <1>2, <1>3, <1>4, SMTT(40) DEF TookOwns, InSend
<1>8. PromiseSetOnce'
  BY <1>2, <1>3 DEF PromiseSetOnce
<1> QED
  BY <1>3, <1>5, <1>6, <1>7, <1>8 DEF Owned

\* Send enters its promise in pending.
LEMMA OwnedAcquire ==
  ASSUME RingFacts, Owned, NEW w \in Workers, AcquireBuffer(w)
  PROVE  Owned'
<1>c. PICK c \in Conns, s \in Sends : c = wk[w].c /\ s = wk[w].s
  BY DEF AcquireBuffer, WorkerAt, RingFacts, OnConn
<1>1. wk[w].pc = "acquire" /\ UNCHANGED <<prom, took, st>>
  BY DEF AcquireBuffer, WorkerAt, local
<1>2. PICK wr : /\ pend' = [pend EXCEPT ![c] = @ \cup {<<wr, s>>}]
                /\ Goto(w, At("post", s, c, wr))
  BY <1>c, ZenonT(40) DEF AcquireBuffer
<1>3. /\ wk'[w].pc = "post" /\ wk'[w].s = s /\ wk'[w].c = c /\ wk'[w].wr = wr
      /\ \A v \in Workers : v # w => wk'[v] = wk[v]
  BY <1>2 DEF RingFacts, Goto, At
<1>4. pend'[c] = pend[c] \cup {<<wr, s>>} /\ \A d \in Conns : d # c => pend'[d] = pend[d]
  BY <1>2 DEF RingFacts
<1>5. WorkersOwn /\ PendOwns /\ TookOwns /\ PromiseSetOnce /\ PromTyped
  BY DEF Owned
<1>6. /\ prom[s] = "unset" /\ \A v \in Workers : v # w /\ wk[v].pc # "idle" => wk[v].s # s
      /\ \A d \in Conns : \A x \in pend[d] : x[2] # s
      /\ \A d \in Conns : took[d] # <<>> => took[d][1] # s
  BY <1>c, <1>1, <1>5, SMTT(40) DEF WorkersOwn, PendOwns, TookOwns, InSend, Preparing
<1>7. WorkersOwn'
  BY <1>c, <1>1, <1>3, <1>5, <1>6, SMTT(40) DEF WorkersOwn, InSend
<1>8. PendOwns'
  <2>1. \A d \in Conns : \A x \in pend'[d] : x \in pend[d] \/ (d = c /\ x = <<wr, s>>)
    BY <1>4
  <2>2. <<wr, s>>[1] = wr /\ <<wr, s>>[2] = s
    OBVIOUS
  <2> SUFFICES ASSUME NEW d \in Conns, NEW x \in pend'[d]
               PROVE  /\ prom'[x[2]] # "none" /\ (Live(d)' => prom'[x[2]] = "unset")
                      /\ \A v \in Workers : wk'[v].pc \in InSend /\ wk'[v].s = x[2]
                                              => v \in Preparing(d)' /\ wk'[v].wr = x[1]
                      /\ \A e \in Conns : \A y \in pend'[e] : x[2] = y[2] => d = e /\ x = y
    BY DEF PendOwns
  <2>3. CASE x \in pend[d]
    <3>1. prom'[x[2]] # "none" /\ (Live(d)' => prom'[x[2]] = "unset")
      BY <1>1, <1>5, <2>3 DEF PendOwns, Live
    <3>2. \A v \in Workers : wk'[v].pc \in InSend /\ wk'[v].s = x[2] => v \in Preparing(d)' /\ wk'[v].wr = x[1]
      BY <1>3, <1>5, <1>6, <2>3, SMTT(40) DEF PendOwns, Preparing
    <3>3. \A e \in Conns : \A y \in pend'[e] : x[2] = y[2] => d = e /\ x = y
      BY <1>5, <1>6, <2>1, <2>2, <2>3, SMTT(40) DEF PendOwns
    <3> QED
      BY <3>1, <3>2, <3>3
  <2>4. CASE d = c /\ x = <<wr, s>>
    <3>1. prom'[x[2]] = "unset"
      BY <1>1, <1>6, <2>2, <2>4
    <3>2. \A v \in Workers : wk'[v].pc \in InSend /\ wk'[v].s = x[2] => v \in Preparing(d)' /\ wk'[v].wr = x[1]
      BY <1>3, <1>6, <2>2, <2>4 DEF Preparing, InSend
    <3>3. \A e \in Conns : \A y \in pend'[e] : x[2] = y[2] => d = e /\ x = y
      BY <1>6, <2>1, <2>2, <2>4
    <3> QED
      BY <3>1, <3>2, <3>3
  <2> QED
    BY <2>1, <2>3, <2>4
<1>9. TookOwns'
  <2>1. \A d \in Conns : \A x \in pend'[d] : x \in pend[d] \/ x[2] = s
    BY <1>4, SMTT(40)
  <2>2. \A v \in Workers : wk'[v].pc \in InSend => wk[v].pc \in InSend /\ wk'[v].s = wk[v].s
    BY <1>c, <1>1, <1>3 DEF InSend
  <2> QED
    BY <1>1, <1>5, <1>6, <2>1, <2>2, SMTT(40) DEF TookOwns
<1> QED
  BY <1>1, <1>5, <1>7, <1>8, <1>9 DEF Owned, PromTyped, PromiseSetOnce

\* The poller takes a promise out of pending.
LEMMA OwnedPoll ==
  ASSUME RingFacts, Owned, NEW c \in Conns, PollOutbound(c)
  PROVE  Owned'
<1> DEFINE h == Head(cq[c])
<1>1. /\ cq[c] # <<>> /\ UNCHANGED <<wk, prom, st>>
      /\ pend' = [pend EXCEPT ![c] = @ \ Completed(c, h)]
      /\ took' \in {[took EXCEPT ![c] = <<x[2], Verdict(h)>>] : x \in Completed(c, h)}
                     \cup {t \in {took} : Completed(c, h) = {}}
  BY DEF PollOutbound
<1>2. Live(c) /\ \A w \in Preparing(c) : wk[w].wr # h.wr
  BY <1>1 DEF RingFacts
<1>4. Verdict(h) \in BOOLEAN
  BY <1>1 DEF RingFacts, Verdict
<1> HIDE DEF h
<1>5. /\ \A d \in Conns : pend'[d] \subseteq pend[d]
      /\ \A x \in Completed(c, h) : x \in pend[c] /\ x[1] = h.wr /\ x \notin pend'[c]
  BY <1>1 DEF RingFacts, Completed
<1>6. CASE Completed(c, h) = {}
  <2>1. took' = took
    BY <1>1, <1>6
  <2>2. \A w \in Workers : GoesOn(w)
    BY <1>1 DEF GoesOn
  <2>3. PromTyped'
    BY <1>1, <2>1 DEF Owned, PromTyped
  <2> QED
    BY <1>1, <1>5, <2>1, <2>2, <2>3, OwnedKept DEF Live
<1>7. CASE \E x \in Completed(c, h) : took' = [took EXCEPT ![c] = <<x[2], Verdict(h)>>]
  <2>1. PICK x \in Completed(c, h) : took' = [took EXCEPT ![c] = <<x[2], Verdict(h)>>]
    BY <1>7
  <2>2. WorkersOwn /\ PendOwns /\ TookOwns /\ PromiseSetOnce /\ PromTyped
    BY DEF Owned
  <2>3. x \in pend[c] /\ x[1] = h.wr /\ x \notin pend'[c] /\ x[2] \in Sends
    BY <1>5, SMTT(40) DEF RingFacts
  <2>4. /\ took'[c] = <<x[2], Verdict(h)>> /\ took'[c][1] = x[2] /\ took'[c] # <<>>
        /\ \A d \in Conns : d # c => took'[d] = took[d]
    BY <2>1, <2>2 DEF PromTyped
  <2>5. PromTyped'
    BY <1>1, <1>4, <2>1, <2>2, <2>3 DEF PromTyped
  <2>6. prom[x[2]] = "unset"
    BY <1>2, <2>2, <2>3 DEF PendOwns
  <2>7. \A w \in Workers : wk[w].pc \in InSend => wk[w].s # x[2]
    <3>1. \A w \in Preparing(c) : wk[w].wr # x[1]
      BY <1>2, <2>3
    <3> QED
      BY <2>2, <2>3, <3>1, SMTT(40) DEF PendOwns
  <2>8. \A d \in Conns : \A y \in pend'[d] : y[2] # x[2]
    BY <1>5, <2>2, <2>3, SMTT(40) DEF PendOwns
  <2>9. \A d \in Conns : took[d] # <<>> => took[d][1] # x[2]
    BY <2>2, <2>3 DEF TookOwns
  <2>10. PendOwns'
    <3>1. \A d \in Conns : Preparing(d)' = Preparing(d) /\ (Live(d)' <=> Live(d))
      BY <1>1 DEF Preparing, Live
    <3> QED
      BY <1>1, <1>5, <2>2, <3>1, SMTT(40) DEF PendOwns
  <2>11. TookOwns'
    BY <1>1, <1>5, <2>2, <2>4, <2>6, <2>7, <2>8, <2>9, SMTT(40) DEF TookOwns
  <2>12. WorkersOwn' /\ PromiseSetOnce'
    BY <1>1, <2>2 DEF WorkersOwn, PromiseSetOnce
  <2> QED
    BY <2>5, <2>10, <2>11, <2>12 DEF Owned
<1> QED
  BY <1>1, <1>6, <1>7

\* Setting an unset promise, once.
LEMMA SetsIt ==
  ASSUME PromTyped, NEW s \in Sends, prom[s] = "unset", NEW p \in {"ok", "failed"}, prom' = Set(prom, s, p)
  PROVE  /\ prom' \in [Sends -> PromiseStates] /\ prom'[s] = p
         /\ \A u \in Sends : u # s => prom'[u] = prom[u]
  BY DEF PromTyped, PromiseStates, Set

\* Send ends without a buffer, and settles its own promise.
LEMMA OwnedGiveUp ==
  ASSUME RingFacts, Owned, NEW w \in Workers, GiveUp(w)
  PROVE  Owned'
<1>1. PICK s \in Sends : s = wk[w].s
  BY DEF GiveUp, RingFacts, OnConn
<1>2. /\ wk[w].pc \in InSend \ {"post"} /\ prom' = Set(prom, s, "failed")
      /\ Goto(w, At("await", s, NoConn, 0)) /\ UNCHANGED <<st, pend, took>>
  BY <1>1 DEF GiveUp, InSend, ring, local
<1>3. At("await", s, NoConn, 0).pc = "await" /\ At("await", s, NoConn, 0).s = s
  BY DEF At
<1>4. wk'[w].pc = "await" /\ \A v \in Workers : v # w => wk'[v] = wk[v]
  BY <1>2, <1>3 DEF RingFacts, Goto
<1>5. \A v \in Workers : GoesOn(v)
  BY <1>1, <1>2, <1>3, WorkerGoesOn DEF InSend
<1>6. WorkersOwn /\ PendOwns /\ TookOwns /\ PromTyped
  BY DEF Owned
<1>7. prom[s] = "unset"
  BY <1>1, <1>2, <1>6 DEF WorkersOwn
<1>8. /\ prom' \in [Sends -> PromiseStates] /\ prom'[s] = "failed"
      /\ \A u \in Sends : u # s => prom'[u] = prom[u]
  BY <1>2, <1>6, <1>7, SetsIt
<1>9. Disowned(s)
  <2>1. \A v \in Workers : wk'[v].pc \in InSend => wk'[v].s # s
    BY <1>1, <1>2, <1>4, <1>6 DEF WorkersOwn, InSend
  <2>2. \A c \in Conns : \A x \in pend[c] : x[2] # s
    BY <1>1, <1>2, <1>6, SMTT(40) DEF PendOwns, Preparing
  <2>3. \A c \in Conns : took[c] # <<>> => took[c][1] # s
    BY <1>1, <1>2, <1>6 DEF TookOwns
  <2> QED
    BY <1>2, <2>1, <2>2, <2>3 DEF Disowned
<1>10. PromTyped'
  BY <1>2, <1>6, <1>8 DEF PromTyped
<1> QED
  BY <1>2, <1>5, <1>8, <1>9, <1>10, OwnedKept DEF Live

\* ibv_post_send fails: Send takes its promise out of pending and settles it.
LEMMA OwnedPostFails ==
  ASSUME RingFacts, Owned, NEW w \in Workers, PostFails(w)
  PROVE  Owned'
<1>0. wk[w].pc = "post" /\ st[wk[w].c] # "freed"
  BY DEF PostFails, WorkerAt
<1>1. PICK c \in Conns, s \in Sends, wr \in Nat :
        c = wk[w].c /\ s = wk[w].s /\ wr = wk[w].wr /\ Live(c)
  BY <1>0 DEF RingFacts, OnConn, WorkerRecs, Live
<1>2. /\ prom' = Set(prom, s, "failed") /\ pend' = [pend EXCEPT ![c] = @ \ {<<wr, s>>}]
      /\ Goto(w, At("await", s, c, 0)) /\ UNCHANGED <<st, took>>
  BY <1>1 DEF PostFails, local
<1>3. At("await", s, c, 0).pc = "await" /\ At("await", s, c, 0).s = s
  BY DEF At
<1>4. wk'[w].pc = "await" /\ \A v \in Workers : v # w => wk'[v] = wk[v]
  BY <1>2, <1>3 DEF RingFacts, Goto
<1>5. \A v \in Workers : GoesOn(v)
  BY <1>0, <1>1, <1>2, <1>3, WorkerGoesOn DEF InSend
<1>6. WorkersOwn /\ PendOwns /\ TookOwns /\ PromTyped
  BY DEF Owned
<1>7. prom[s] = "unset"
  BY <1>0, <1>1, <1>6 DEF WorkersOwn, InSend
<1>8. /\ prom' \in [Sends -> PromiseStates] /\ prom'[s] = "failed"
      /\ \A u \in Sends : u # s => prom'[u] = prom[u]
  BY <1>2, <1>6, <1>7, SetsIt
<1>9. <<wr, s>> \in pend[c]
  BY <1>0, <1>1 DEF RingFacts, Preparing
<1>10. pend'[c] = pend[c] \ {<<wr, s>>} /\ \A d \in Conns : d # c => pend'[d] = pend[d]
  BY <1>2 DEF RingFacts
<1>11. Disowned(s)
  <2>1. \A v \in Workers : wk'[v].pc \in InSend => wk'[v].s # s
    BY <1>0, <1>1, <1>4, <1>6 DEF WorkersOwn, InSend
  <2>2. \A d \in Conns : \A y \in pend[d] : y[2] = s => d = c /\ y = <<wr, s>>
    BY <1>6, <1>9 DEF PendOwns
  <2>3. \A d \in Conns : \A x \in pend'[d] : x[2] # s
    BY <1>10, <2>2
  <2>4. \A d \in Conns : took[d] # <<>> => took[d][1] # s
    BY <1>0, <1>1, <1>6 DEF TookOwns, InSend
  <2> QED
    BY <1>2, <2>1, <2>3, <2>4 DEF Disowned
<1>12. PromTyped'
  BY <1>2, <1>6, <1>8 DEF PromTyped
<1> QED
  BY <1>2, <1>5, <1>8, <1>10, <1>11, <1>12, OwnedKept DEF Live

\* The poller sets the promise it took.
LEMMA OwnedSetValue ==
  ASSUME RingFacts, Owned, NEW c \in Conns, SetValue(c)
  PROVE  Owned'
<1>1. WorkersOwn /\ PendOwns /\ TookOwns /\ PromTyped
  BY DEF Owned
<1>2. took[c] # <<>> /\ took' = [took EXCEPT ![c] = <<>>] /\ UNCHANGED <<wk, st, pend>>
  BY DEF SetValue, ring
<1>3. PICK s \in Sends : s = took[c][1]
  BY <1>1, <1>2 DEF PromTyped
<1>4. PICK p \in {"ok", "failed"} : prom' = Set(prom, s, p)
  BY <1>3 DEF SetValue
<1>5. prom[s] = "unset"
  BY <1>1, <1>2, <1>3 DEF TookOwns
<1>6. /\ prom' \in [Sends -> PromiseStates] /\ prom'[s] = p
      /\ \A u \in Sends : u # s => prom'[u] = prom[u]
  BY <1>1, <1>4, <1>5, SetsIt
<1>7. /\ took' \in [Conns -> {<<>>} \cup (Sends \X BOOLEAN)] /\ took'[c] = <<>>
      /\ \A d \in Conns : d # c => took'[d] = took[d]
  BY <1>1, <1>2 DEF PromTyped
<1>8. Disowned(s)
  BY <1>1, <1>2, <1>3, <1>7, ZenonT(40) DEF Disowned, TookOwns
<1>9. PromTyped' /\ \A w \in Workers : GoesOn(w)
  BY <1>2, <1>6, <1>7 DEF PromTyped, GoesOn
<1> QED
  BY <1>2, <1>6, <1>7, <1>8, <1>9, OwnedKept DEF Live

\* Shutdown destroys the promises that are in pending.
LEMMA OwnedTeardown ==
  ASSUME RingFacts, Owned, Joining, Teardown
  PROVE  Owned'
<1>1. PICK c \in Conns : c = outbound
  BY DEF Teardown, Joining
<1>2. /\ st' = [st EXCEPT ![c] = "freed"] /\ UNCHANGED <<wk, pend, took>>
      /\ prom' = [s \in Sends |-> IF Breaks(s, c) THEN "broken" ELSE prom[s]]
  BY <1>1, ZenonT(40) DEF Teardown, ring, local
<1>3. WorkersOwn /\ PendOwns /\ TookOwns /\ PromTyped
  BY DEF Owned
<1>4. \A d \in Conns : Live(d)' => Live(d) /\ d # c
  BY <1>2 DEF Live, RingFacts
<1>5. PromTyped'
  BY <1>2, <1>3 DEF PromTyped, PromiseStates
<1>6. ASSUME NEW s \in Sends, prom'[s] # prom[s]
      PROVE  prom'[s] = "broken" /\ Disowned(s)
  <2>1. Breaks(s, c) /\ prom'[s] = "broken"
    BY <1>2, <1>6
  <2>2. PICK x \in pend[c] : x[2] = s
    BY <2>1 DEF Breaks
  <2>3. PICK v \in Workers : wk[v].s = s /\ wk[v].pc = "await"
    BY <2>1 DEF Breaks
  <2>4. \A w \in Workers : wk[w].pc \in InSend => wk[w].s # s
    BY <1>3, <2>3 DEF WorkersOwn, InSend
  <2>5. \A d \in Conns : Live(d)' => \A y \in pend[d] : y[2] # s
    BY <1>3, <1>4, <2>2 DEF PendOwns
  <2>6. \A d \in Conns : took[d] # <<>> => took[d][1] # s
    BY <1>3, <2>2 DEF TookOwns
  <2> QED
    BY <1>2, <2>1, <2>4, <2>5, <2>6 DEF Disowned
<1>7. \A w \in Workers : GoesOn(w)
  BY <1>2 DEF GoesOn
<1> QED
  BY <1>2, <1>4, <1>5, <1>6, <1>7, OwnedKept

\* Shutdown starts to join only where there is a Conn, and nobody takes it out of the table.
LEMMA JoiningStep == RingFacts /\ Joining /\ [Next]_vars => Joining'
<1> SUFFICES ASSUME RingFacts, Joining, [Next]_vars
             PROVE  Joining'
  OBVIOUS
<1>1. outbound \in Conns \cup {NoConn}
  BY DEF RingFacts
<1>2. \/ UNCHANGED <<main, outbound>> \/ Shutdown \/ Teardown \/ Destroy \/ \E w \in Workers : Emplace(w)
  BY ZenonT(40) DEF Next, StartSend, TooLarge, SendStep, Recheck, Dial, DialRefused, GiveUp, AcquireBuffer,
         PostSend, PostFails, FutureReady, UseAfterTeardown, PollerStep, PollOutbound, SetValue,
         PollerEnds, PeerStep, PollInbound, HandleRecv, InboundEnds, Transmit, Break, table, vars
<1>3. CASE \E w \in Workers : Emplace(w)
  BY <1>3 DEF Emplace, ConnsMuFree, Joining
<1>4. CASE Shutdown \/ Teardown \/ Destroy
  BY <1>1, <1>4 DEF Shutdown, Teardown, Destroy, Joining
<1> QED
  BY <1>2, <1>3, <1>4 DEF Joining

\* Every step keeps the promises with their one owner.
LEMMA OwnedStep == RingFacts /\ Owned /\ Joining /\ [Next]_vars => Owned'
<1> SUFFICES ASSUME RingFacts, Owned, Joining, [Next]_vars
             PROVE  Owned'
  OBVIOUS
<1> USE DEF WorkerAt
<1>t. /\ outbound \in Conns \cup {NoConn} /\ st \in [Conns -> {"new", "up", "down", "freed"}]
      /\ \A w \in Workers : wk[w].pc # "idle" => wk[w].s \in Sends
      /\ \A c \in Conns : st[c] = "new" => pend[c] = {}
  BY DEF RingFacts, OnConn
<1>1. ASSUME NEW w \in Workers, StartSend(w)
      PROVE  Owned'
  <2>1. PICK s \in Sends :
          /\ prom[s] = "none" /\ prom' = [prom EXCEPT ![s] = "unset"]
          /\ Goto(w, At(IF outbound = NoConn THEN "dialmu" ELSE "acquire", s, outbound, 0))
    BY <1>1 DEF StartSend
  <2> DEFINE r == At(IF outbound = NoConn THEN "dialmu" ELSE "acquire", s, outbound, 0)
  <2>2. r \in WorkerRecs /\ r.s = s /\ r.pc \in InSend \ {"post"}
    BY <1>t DEF WorkerRecs, Places, At, InSend
  <2>3. wk[w].pc = "idle" /\ UNCHANGED <<pend, took, st>>
    BY <1>1 DEF StartSend, ring, local
  <2> HIDE DEF r
  <2>4. Goto(w, r)
    BY <2>1 DEF r
  <2> QED
    BY <2>1, <2>2, <2>3, <2>4, OwnedStart
<1>2. ASSUME NEW w \in Workers, TooLarge(w)
      PROVE  Owned'
  <2>1. PICK s \in Sends :
          /\ prom[s] = "none" /\ prom' = [prom EXCEPT ![s] = "failed"]
          /\ Goto(w, At("await", s, NoConn, 0))
    BY <1>2 DEF TooLarge
  <2> DEFINE r == At("await", s, NoConn, 0)
  <2>2. r \in WorkerRecs /\ r.s = s /\ r.pc = "await"
    BY DEF WorkerRecs, Places, At
  <2>3. wk[w].pc = "idle" /\ UNCHANGED <<pend, took, st>>
    BY <1>2 DEF TooLarge, ring, local
  <2> HIDE DEF r
  <2>4. Goto(w, r)
    BY <2>1 DEF r
  <2> QED
    BY <2>1, <2>2, <2>3, <2>4, OwnedStart DEF InSend
<1>3. ASSUME NEW w \in Workers, NEW r, Goto(w, r), r.pc # "idle" => wk[w].pc # "idle" /\ r.s = wk[w].s,
             r.pc \in InSend => wk[w].pc \in InSend \ {"post"}, UNCHANGED <<prom, pend, took>>,
             \A c \in Conns : Live(c)' => Live(c) \/ pend[c] = {}
      PROVE  Owned'
  BY <1>3, WorkerGoesOn, OwnedQuiet
<1>4. ASSUME NEW w \in Workers, Recheck(w)
      PROVE  Owned'
  <2>1. PICK pc \in {"dial", "acquire"}, c \in Conns \cup {NoConn} : Goto(w, At(pc, wk[w].s, c, 0))
    BY <1>t, <1>4 DEF Recheck
  <2>2. At(pc, wk[w].s, c, 0).pc = pc /\ At(pc, wk[w].s, c, 0).s = wk[w].s
    BY DEF At
  <2>3. wk[w].pc = "dialmu" /\ UNCHANGED <<prom, pend, took, st>>
    BY <1>4 DEF Recheck, ring, local
  <2> QED
    BY <1>3, <2>1, <2>2, <2>3 DEF Live, InSend
<1>5. ASSUME NEW w \in Workers, NEW c \in Conns, Dial(w, c)
      PROVE  Owned'
  <2>1. At("emplace", wk[w].s, c, 0).pc = "emplace" /\ At("emplace", wk[w].s, c, 0).s = wk[w].s
    BY DEF At
  <2>2. /\ wk[w].pc = "dial" /\ UNCHANGED <<prom, pend, took>> /\ Goto(w, At("emplace", wk[w].s, c, 0))
        /\ st[c] = "new" /\ st' = [st EXCEPT ![c] = "up"]
    BY <1>5 DEF Dial
  <2>3. \A d \in Conns : Live(d)' => Live(d) \/ pend[d] = {}
    BY <1>t, <2>2 DEF Live
  <2> QED
    BY <1>3, <2>1, <2>2, <2>3 DEF InSend
<1>6. ASSUME NEW w \in Workers, Emplace(w)
      PROVE  Owned'
  <2>1. /\ At("acquire", wk[w].s, wk[w].c, 0).pc = "acquire"
        /\ At("acquire", wk[w].s, wk[w].c, 0).s = wk[w].s
    BY DEF At
  <2>2. /\ wk[w].pc = "emplace" /\ UNCHANGED <<prom, pend, took, st>>
        /\ Goto(w, At("acquire", wk[w].s, wk[w].c, 0))
    BY <1>6 DEF Emplace, ring, local
  <2> QED
    BY <1>3, <2>1, <2>2 DEF Live, InSend
<1>7. ASSUME NEW w \in Workers, PostSend(w)
      PROVE  Owned'
  <2>1. /\ At("await", wk[w].s, wk[w].c, 0).pc = "await"
        /\ At("await", wk[w].s, wk[w].c, 0).s = wk[w].s
    BY DEF At
  <2>2. /\ wk[w].pc = "post" /\ UNCHANGED <<prom, pend, took, st>>
        /\ Goto(w, At("await", wk[w].s, wk[w].c, 0))
    BY <1>7 DEF PostSend, Accepted, ring, local
  <2> QED
    BY <1>3, <2>1, <2>2 DEF Live, InSend
<1>8. ASSUME NEW w \in Workers, FutureReady(w)
      PROVE  Owned'
  <2>1. Idle.pc = "idle"
    BY DEF Idle, At
  <2>2. Goto(w, Idle) /\ UNCHANGED <<prom, pend, took, st>>
    BY <1>8 DEF FutureReady, ring, local
  <2> QED
    BY <1>3, <2>1, <2>2 DEF Live, InSend
<1>9. ASSUME UNCHANGED <<wk, prom, pend, took>>, \A c \in Conns : Live(c)' => Live(c)
      PROVE  Owned'
  <2>1. \A w \in Workers : GoesOn(w)
    BY <1>9 DEF GoesOn
  <2> QED
    BY <1>9, <2>1, OwnedQuiet
<1>10. ASSUME NEW w \in Workers, DialRefused(w) \/ UseAfterTeardown(w)
       PROVE  Owned'
  BY <1>9, <1>10 DEF DialRefused, UseAfterTeardown, ring, local, Live
<1>11. ASSUME NEW w \in Workers, SendStep(w)
       PROVE  Owned'
  BY <1>4, <1>5, <1>6, <1>7, <1>8, <1>10, <1>11, OwnedGiveUp, OwnedAcquire, OwnedPostFails DEF SendStep
<1>12. ASSUME NEW c \in Conns, NEW how \in {"exited", "failed"},
              PollerEnds(c, how) \/ PeerStep(c) \/ InboundEnds(c, how) \/ Transmit(c)
       PROVE  Owned'
  <2>1. UNCHANGED <<wk, prom, pend, took, st>>
    BY <1>12 DEF PollerEnds, PeerStep, PollInbound, HandleRecv, InboundEnds, Transmit, ring, local
  <2> QED
    BY <1>9, <2>1 DEF Live
<1>13. ASSUME NEW c \in Conns, Break(c)
       PROVE  Owned'
  <2>1. UNCHANGED <<wk, prom, pend, took>> /\ st[c] = "up" /\ st' = [st EXCEPT ![c] = "down"]
    BY <1>13 DEF Break, ring, local
  <2>2. \A d \in Conns : Live(d)' => Live(d)
    BY <1>t, <2>1 DEF Live
  <2> QED
    BY <1>9, <2>1, <2>2
<1>14. ASSUME Shutdown \/ Destroy \/ UNCHANGED vars
       PROVE  Owned'
  <2>1. UNCHANGED <<wk, prom, pend, took, st>>
    BY <1>14 DEF Shutdown, Destroy, vars, ring, local
  <2> QED
    BY <1>9, <2>1 DEF Live
<1>15. ASSUME NEW c \in Conns, PollerStep(c)
       PROVE  Owned'
  BY <1>12, <1>15, OwnedPoll, OwnedSetValue DEF PollerStep
<1> QED
  BY <1>1, <1>2, <1>11, <1>12, <1>13, <1>14, <1>15, OwnedTeardown DEF Next

-----------------------------------------------------------------------------
(***************************************************************************)
(* One Conn on plain values. Good relates the free buffers F of its send   *)
(* ring, the pending wr_ids P, the wr_ids A that the adapter has, the      *)
(* registered memory M and the workers K. Stream relates what was posted,  *)
(* what waits at either end and what the peer was given. A lemma per       *)
(* operation says that the operation keeps them.                           *)
(***************************************************************************)
\* A worker of K that fills a buffer of c.
Fills(K, c, w) == K[w].c = c /\ K[w].pc = "post"

\* The workers of K and of L fill the same buffers of c.
SameFills(c, K, L) ==
  \A w \in Workers : /\ Fills(K, c, w) <=> Fills(L, c, w)
                     /\ Fills(K, c, w) => K[w].wr = L[w].wr /\ K[w].s = L[w].s

\* The ring proper: free buffers F against pending wr_ids P.
Ring(F, P) ==
  /\ F \subseteq Bufs /\ P \subseteq Nat \X Sends
  /\ \A x, y \in P : BufOf(x[1]) = BufOf(y[1]) => x = y
  /\ \A x \in P : BufOf(x[1]) \in Bufs /\ BufOf(x[1]) \notin F
  /\ \A b \in Bufs : b \in F \/ \E x \in P : BufOf(x[1]) = b

\* Who has a pending wr_id: the adapter or one worker.
Placed(c, P, A, K) ==
  /\ \A wr \in A : \E x \in P : x[1] = wr
  /\ \A x \in P : x[1] \in A \/ \E w \in Workers : Fills(K, c, w) /\ K[w].wr = x[1]
  /\ \A w \in Workers : Fills(K, c, w) => <<K[w].wr, K[w].s>> \in P /\ K[w].wr \notin A
  /\ \A v, w \in Workers : Fills(K, c, v) /\ Fills(K, c, w) /\ K[v].wr = K[w].wr => v = w

\* What the adapter may read is what was sent.
Intact(P, A, M) == \A x \in P : x[1] \in A => M[BufOf(x[1])] = x[2]

Good(c, F, P, A, M, K) == Ring(F, P) /\ Placed(c, P, A, K) /\ Intact(P, A, M)

-----------------------------------------------------------------------------
\* The adapter's two queues: sends that wait for delivery, S, and completions that
\* wait for PollOutbound, C.
Recs == [wr : Nat, ok : BOOLEAN]
Error(wr) == [wr |-> wr, ok |-> FALSE]

InS(S, wr) == \E i \in DOMAIN S : S[i] = wr
InC(C, wr) == \E i \in DOMAIN C : C[i].wr = wr

\* A wr_id is with the adapter.
In(S, C, wr) == InS(S, wr) \/ InC(C, wr)

\* The wr_ids that the adapter has.
Held(S, C) == {S[i] : i \in DOMAIN S} \cup {C[i].wr : i \in DOMAIN C}

\* The adapter's queues S and C hold nothing twice.
Once(S, C) ==
  /\ \A i, j \in DOMAIN S : S[i] = S[j] => i = j
  /\ \A i, j \in DOMAIN C : C[i].wr = C[j].wr => i = j
  /\ \A i \in DOMAIN S, j \in DOMAIN C : S[i] # C[j].wr

\* Every buffer is free or named by a pending wr_id.
LEMMA RingCovers ==
  ASSUME NEW F, NEW P, Ring(F, P)
  PROVE  F \cup {BufOf(wr) : wr \in {x[1] : x \in P}} = Bufs
  BY SMTT(40) DEF Ring

\* What the adapter has is pending.
LEMMA PlacedIsPending ==
  ASSUME NEW c, NEW P, NEW A, NEW K, Placed(c, P, A, K)
  PROVE  A \subseteq {x[1] : x \in P}
  BY SMTT(40) DEF Placed

\* A new Conn: every buffer free, nothing pending or posted.
LEMMA GoodStart ==
  ASSUME NEW c, NEW M, NEW K, \A w \in Workers : ~Fills(K, c, w)
  PROVE  Good(c, Bufs, {}, {}, M, K)
  BY DEF Good, Ring, Placed, Intact

\* Workers that do not fill a buffer of c do not matter to it.
LEMMA GoodFrame ==
  ASSUME NEW c, NEW F, NEW P, NEW A, NEW M, NEW K, NEW L,
         Good(c, F, P, A, M, K), SameFills(c, K, L)
  PROVE  Good(c, F, P, A, M, L)
<1>1. Placed(c, P, A, L)
  BY DEF Good, Placed, SameFills
<1> QED
  BY <1>1 DEF Good

\* A worker that fills a buffer has its wr_id pending, and the adapter does not have it.
LEMMA Filled ==
  ASSUME NEW c, NEW F, NEW P, NEW A, NEW M, NEW K, Good(c, F, P, A, M, K),
         NEW w \in Workers, Fills(K, c, w)
  PROVE  /\ <<K[w].wr, K[w].s>> \in P /\ K[w].wr \notin A
         /\ BufOf(K[w].wr) \in Bufs
<1>1. <<K[w].wr, K[w].s>> \in P /\ K[w].wr \notin A
  BY ZenonT(40) DEF Good, Placed
<1>2. \A x \in P : BufOf(x[1]) \in Bufs
  BY ZenonT(40) DEF Good, Ring
<1> QED
  BY <1>1, <1>2

\* Send takes the free buffer b under a wr_id that names it.
LEMMA GoodAcquire ==
  ASSUME NEW c, NEW F, NEW P, NEW A, NEW M, NEW K, Good(c, F, P, A, M, K),
         NEW b \in F, NEW wr \in Nat, BufOf(wr) = b, NEW s \in Sends,
         NEW w \in Workers, ~Fills(K, c, w),
         NEW L, Fills(L, c, w), L[w].wr = wr, L[w].s = s, \A v \in Workers : v # w => L[v] = K[v]
  PROVE  Good(c, F \ {b}, P \cup {<<wr, s>>}, A, M, L)
<1>0. <<wr, s>> \in Nat \X Sends /\ <<wr, s>>[1] = wr
  OBVIOUS
<1>1. PICK x \in Nat \X Sends : x = <<wr, s>> /\ x[1] = wr
  BY <1>0, ZenonT(40)
<1> DEFINE Q == P \cup {x}
<1>2. b \in Bufs /\ \A y \in P : BufOf(y[1]) # b /\ y[1] # wr
  BY DEF Good, Ring
<1>3. wr \notin A
  BY <1>2 DEF Good, Placed
<1>4. Ring(F \ {b}, Q)
  BY <1>1, <1>2 DEF Good, Ring
<1>5. \A v \in Workers : Fills(L, c, v) => v = w \/ (Fills(K, c, v) /\ L[v] = K[v])
  BY DEF Fills
<1>6. \A v \in Workers : Fills(K, c, v) => v # w /\ Fills(L, c, v) /\ L[v] = K[v] /\ K[v].wr # wr
  <2>1. \A v \in Workers : Fills(K, c, v) => <<K[v].wr, K[v].s>> \in P
    BY ZenonT(40) DEF Good, Placed
  <2>2. \A v \in Workers : Fills(K, c, v) => K[v].wr # wr
    BY <1>2, <2>1, ZenonT(40)
  <2>3. \A v \in Workers : Fills(K, c, v) => v # w /\ Fills(L, c, v) /\ L[v] = K[v]
    BY DEF Fills
  <2> QED
    BY <2>2, <2>3, ZenonT(40)
<1>7. Placed(c, Q, A, L)
  <2>1. \A y \in Q : y[1] \in A \/ \E v \in Workers : Fills(L, c, v) /\ L[v].wr = y[1]
    BY <1>1, <1>6 DEF Good, Placed
  <2>2. \A v \in Workers : Fills(L, c, v) => <<L[v].wr, L[v].s>> \in Q /\ L[v].wr \notin A
    BY <1>1, <1>3, <1>5 DEF Good, Placed
  <2>3. \A u, v \in Workers : Fills(L, c, u) /\ Fills(L, c, v) /\ L[u].wr = L[v].wr => u = v
    BY <1>5, <1>6, SMTT(40) DEF Good, Placed
  <2> QED
    BY <2>1, <2>2, <2>3 DEF Good, Placed
<1>8. Intact(Q, A, M)
  BY <1>1, <1>3, SMTT(40) DEF Good, Intact
<1> QED
  BY <1>1, <1>4, <1>7, <1>8 DEF Good

\* The same, with the buffer and the wr_id read off the worker.
LEMMA GoodTakes ==
  ASSUME NEW c, NEW F, NEW P, NEW A, NEW M, NEW K, Good(c, F, P, A, M, K),
         NEW w \in Workers, ~Fills(K, c, w), NEW L, Fills(L, c, w),
         BufOf(L[w].wr) \in F, L[w].wr \in Nat, L[w].s \in Sends,
         \A v \in Workers : v # w => L[v] = K[v]
  PROVE  Good(c, F \ {BufOf(L[w].wr)}, P \cup {<<L[w].wr, L[w].s>>}, A, M, L)
  BY GoodAcquire

\* A worker w leaves its buffer: the others are where they were.
LEMMA Leaves ==
  ASSUME NEW c, NEW P, NEW A, NEW K, Placed(c, P, A, K), NEW w \in Workers, Fills(K, c, w),
         NEW L, ~Fills(L, c, w), \A v \in Workers : v # w => L[v] = K[v]
  PROVE  /\ \A v \in Workers : Fills(L, c, v) => Fills(K, c, v) /\ L[v] = K[v] /\ K[v].wr # K[w].wr
         /\ \A v \in Workers : Fills(K, c, v) => Fills(L, c, v) \/ K[v].wr = K[w].wr
  BY DEF Placed, Fills

\* ibv_post_send, accepted: the wr_id goes from the worker to the adapter, with its bytes.
LEMMA GoodPost ==
  ASSUME NEW c, NEW F, NEW P, NEW A, NEW M \in [Bufs -> Sends \cup {NoBlock}], NEW K,
         Good(c, F, P, A, M, K), NEW w \in Workers, Fills(K, c, w),
         NEW L, ~Fills(L, c, w), \A v \in Workers : v # w => L[v] = K[v]
  PROVE  Good(c, F, P, A \cup {K[w].wr}, [M EXCEPT ![BufOf(K[w].wr)] = K[w].s], L)
<1> DEFINE N == [M EXCEPT ![BufOf(K[w].wr)] = K[w].s]
           B == A \cup {K[w].wr}
<1>0. <<K[w].wr, K[w].s>> \in P
  BY Filled, ZenonT(40)
<1>1. PICK x \in P : x = <<K[w].wr, K[w].s>> /\ x[1] = K[w].wr /\ x[2] = K[w].s
  BY <1>0
<1>2. /\ \A v \in Workers : Fills(L, c, v) => Fills(K, c, v) /\ L[v] = K[v] /\ K[v].wr # K[w].wr
      /\ \A v \in Workers : Fills(K, c, v) => Fills(L, c, v) \/ K[v].wr = K[w].wr
  BY Leaves DEF Good
<1>3. Placed(c, P, B, L)
  BY <1>1, <1>2 DEF Good, Placed
<1>4. \A y \in P : BufOf(y[1]) \in Bufs /\ (y = x \/ (BufOf(y[1]) # BufOf(K[w].wr) /\ y[1] # K[w].wr))
  BY <1>1 DEF Good, Ring
<1>5. Intact(P, B, N)
  BY <1>1, <1>4 DEF Good, Intact
<1> QED
  BY <1>3, <1>5 DEF Good

\* The ring when the pending x is withdrawn and its buffer comes free.
LEMMA RingGives ==
  ASSUME NEW F, NEW P, Ring(F, P), NEW x \in P
  PROVE  /\ Ring(F \cup {BufOf(x[1])}, P \ {x})
         /\ \A y \in P : y[1] = x[1] \/ BufOf(y[1]) = BufOf(x[1]) => y = x
  BY DEF Ring

\* ibv_post_send, failed: the worker withdraws its wr_id.
LEMMA GoodFails ==
  ASSUME NEW c, NEW F, NEW P, NEW A, NEW M \in [Bufs -> Sends \cup {NoBlock}], NEW K,
         Good(c, F, P, A, M, K), NEW w \in Workers, Fills(K, c, w),
         NEW L, ~Fills(L, c, w), \A v \in Workers : v # w => L[v] = K[v]
  PROVE  Good(c, F \cup {BufOf(K[w].wr)}, P \ {<<K[w].wr, K[w].s>>}, A,
              [M EXCEPT ![BufOf(K[w].wr)] = K[w].s], L)
<1> DEFINE N == [M EXCEPT ![BufOf(K[w].wr)] = K[w].s]
<1>0. <<K[w].wr, K[w].s>> \in P /\ K[w].wr \notin A
  BY Filled, ZenonT(40)
<1>1. PICK x \in P : x = <<K[w].wr, K[w].s>> /\ x[1] = K[w].wr /\ x[1] \notin A
  BY <1>0
<1> DEFINE Q == P \ {x}
<1>2. /\ Ring(F \cup {BufOf(x[1])}, Q)
      /\ \A y \in P : y[1] = x[1] \/ BufOf(y[1]) = BufOf(x[1]) => y = x
  BY RingGives DEF Good
<1>3. /\ \A v \in Workers : Fills(L, c, v) => Fills(K, c, v) /\ L[v] = K[v] /\ K[v].wr # x[1]
      /\ \A v \in Workers : Fills(K, c, v) => Fills(L, c, v) \/ K[v].wr = x[1]
  BY <1>1, Leaves DEF Good
<1>4. Placed(c, Q, A, L)
  <2>1. \A wr \in A : \E y \in Q : y[1] = wr
    BY <1>1 DEF Good, Placed
  <2>2. \A y \in Q : y[1] \in A \/ \E v \in Workers : Fills(L, c, v) /\ L[v].wr = y[1]
    BY <1>2, <1>3 DEF Good, Placed
  <2>3. \A v \in Workers : Fills(L, c, v) => <<L[v].wr, L[v].s>> \in Q /\ L[v].wr \notin A
    BY <1>1, <1>3 DEF Good, Placed
  <2> QED
    BY <1>3, <2>1, <2>2, <2>3 DEF Good, Placed
<1>5. Intact(Q, A, N)
  BY <1>1, <1>2 DEF Good, Ring, Intact
<1> QED
  BY <1>1, <1>2, <1>4, <1>5 DEF Good

\* PollOutbound: a completed wr_id leaves the adapter and the pending ones.
LEMMA GoodPoll ==
  ASSUME NEW c, NEW F, NEW P, NEW A, NEW M, NEW K, Good(c, F, P, A, M, K), NEW x \in P, x[1] \in A
  PROVE  Good(c, F \cup {BufOf(x[1])}, P \ {x}, A \ {x[1]}, M, K)
<1> DEFINE Q == P \ {x}
           B == A \ {x[1]}
<1>1. /\ Ring(F \cup {BufOf(x[1])}, Q)
      /\ \A y \in P : y[1] = x[1] \/ BufOf(y[1]) = BufOf(x[1]) => y = x
  BY RingGives DEF Good
<1>2. Placed(c, Q, B, K)
  <2>1. \A v \in Workers : Fills(K, c, v) => <<K[v].wr, K[v].s>>[1] = K[v].wr /\ K[v].wr # x[1]
    BY ZenonT(40) DEF Good, Placed
  <2> QED
    BY <1>1, <2>1 DEF Good, Placed
<1>3. Intact(Q, B, M)
  BY DEF Good, Intact
<1> QED
  BY <1>1, <1>2, <1>3 DEF Good

-----------------------------------------------------------------------------
\* Two ways to say that the adapter has a wr_id.
LEMMA HeldIsIn == ASSUME NEW S, NEW C PROVE \A u : u \in Held(S, C) <=> In(S, C, u)
  BY DEF Held, In, InS, InC

\* A send is queued.
LEMMA SendQueued ==
  ASSUME NEW S \in Seq(Nat), NEW C \in Seq(Recs), Once(S, C),
         NEW wr \in Nat, wr \notin Held(S, C)
  PROVE  /\ Append(S, wr) \in Seq(Nat) /\ Once(Append(S, wr), C)
         /\ Held(Append(S, wr), C) = Held(S, C) \cup {wr}
<1> DEFINE T == Append(S, wr)
<1>0. ~InS(S, wr) /\ ~InC(C, wr)
  BY HeldIsIn DEF In
<1>1. /\ T \in Seq(Nat) /\ Len(S) \in Nat
      /\ DOMAIN S = 1 .. Len(S) /\ DOMAIN T = 1 .. Len(S) + 1
      /\ \A i \in 1 .. Len(S) : T[i] = S[i]
      /\ T[Len(S) + 1] = wr
  BY Appended
<1> HIDE DEF T
<1>2. \A i \in DOMAIN T : (i \in DOMAIN S /\ T[i] = S[i]) \/ (i = Len(S) + 1 /\ T[i] = wr)
  BY <1>1, SMTT(40)
<1>3. \A u : InS(T, u) <=> InS(S, u) \/ u = wr
  BY <1>1, <1>2, SMTT(40) DEF InS
<1>4. \A i, j \in DOMAIN T : T[i] = T[j] => i = j
  BY <1>0, <1>2 DEF Once, InS
<1>5. \A i \in DOMAIN T, j \in DOMAIN C : T[i] # C[j].wr
  BY <1>0, <1>2 DEF Once, InC
<1>6. Held(T, C) = Held(S, C) \cup {wr}
  BY <1>3, HeldIsIn DEF In
<1> QED
  BY <1>1, <1>4, <1>5, <1>6, ZenonT(40) DEF Once, T

\* A completion is queued.
LEMMA CompletionQueued ==
  ASSUME NEW S \in Seq(Nat), NEW C \in Seq(Recs), Once(S, C),
         NEW wr \in Nat, NEW ok \in BOOLEAN, wr \notin Held(S, C)
  PROVE  /\ Append(C, [wr |-> wr, ok |-> ok]) \in Seq(Recs)
         /\ Once(S, Append(C, [wr |-> wr, ok |-> ok]))
         /\ Held(S, Append(C, [wr |-> wr, ok |-> ok])) = Held(S, C) \cup {wr}
<1> DEFINE r == [wr |-> wr, ok |-> ok]
           D == Append(C, r)
<1>0. r \in Recs /\ r.wr = wr
  BY DEF Recs
<1>n. ~InS(S, wr) /\ ~InC(C, wr)
  BY HeldIsIn DEF In
<1> HIDE DEF r
<1>1. /\ D \in Seq(Recs) /\ Len(C) \in Nat
      /\ DOMAIN C = 1 .. Len(C) /\ DOMAIN D = 1 .. Len(C) + 1
      /\ \A i \in 1 .. Len(C) : D[i] = C[i]
      /\ D[Len(C) + 1] = r
  BY <1>0, Appended
<1> HIDE DEF D
<1>2. \A i \in DOMAIN D : (i \in DOMAIN C /\ D[i] = C[i]) \/ (i = Len(C) + 1 /\ D[i] = r)
  BY <1>1
<1>3. \A u : InC(D, u) <=> InC(C, u) \/ u = wr
  <2>1. Len(C) + 1 \in DOMAIN D /\ \A i \in DOMAIN C : i \in DOMAIN D /\ D[i] = C[i]
    BY <1>1
  <2>2. InC(D, wr)
    BY <1>0, <1>1, <2>1 DEF InC
  <2>3. \A u : InC(C, u) => InC(D, u)
    BY <2>1 DEF InC
  <2>4. \A u : InC(D, u) => InC(C, u) \/ u = wr
    BY <1>0, <1>2 DEF InC
  <2> QED
    BY <2>2, <2>3, <2>4
<1>4. \A i, j \in DOMAIN D : D[i].wr = D[j].wr => i = j
  BY <1>0, <1>2, <1>n DEF Once, InC
<1>5. \A i \in DOMAIN S, j \in DOMAIN D : S[i] # D[j].wr
  BY <1>0, <1>2, <1>n DEF Once, InS
<1>6. Held(S, D) = Held(S, C) \cup {wr}
  BY <1>3, HeldIsIn DEF In
<1> QED
  BY <1>1, <1>4, <1>5, <1>6, SMTT(40) DEF Once, D, r

\* Places in the tail, as places in the whole.
LEMMA Shifted == \A n \in Nat \ {0} : \A i \in 1 .. n - 1 : i + 1 \in 1 .. n /\ i + 1 # 1
  OBVIOUS

\* Places in the whole, as places in the tail.
LEMMA Unshifted ==
  \A n \in Nat \ {0} : 1 \in 1 .. n /\ \A i \in 1 .. n : i = 1 \/ (i - 1 \in 1 .. n - 1 /\ (i - 1) + 1 = i)
  OBVIOUS

\* The first send leaves its queue.
LEMMA SendTaken ==
  ASSUME NEW S \in Seq(Nat), NEW C \in Seq(Recs), Once(S, C), S # <<>>
  PROVE  /\ Tail(S) \in Seq(Nat) /\ Head(S) \in Nat /\ Once(Tail(S), C)
         /\ Head(S) \notin Held(Tail(S), C)
         /\ Held(S, C) = Held(Tail(S), C) \cup {Head(S)}
<1> DEFINE T == Tail(S)
           h == Head(S)
<1>1. /\ T \in Seq(Nat) /\ h \in Nat /\ h = S[1] /\ Len(S) \in Nat \ {0}
      /\ DOMAIN S = 1 .. Len(S) /\ DOMAIN T = 1 .. Len(S) - 1
      /\ \A i \in 1 .. Len(S) - 1 : T[i] = S[i + 1]
  BY HeadAndTail
<1> HIDE DEF T, h
<1>2. \A i \in DOMAIN T : i + 1 \in DOMAIN S /\ i + 1 # 1 /\ T[i] = S[i + 1]
  <2> TAKE i \in DOMAIN T
  <2>1. i \in 1 .. Len(S) - 1
    BY <1>1
  <2>2. i + 1 \in 1 .. Len(S) /\ i + 1 # 1
    BY <1>1, <2>1, Shifted, ZenonT(40)
  <2> QED
    BY <1>1, <2>1, <2>2
<1>3. 1 \in DOMAIN S /\ \A i \in DOMAIN S : i = 1 \/ (i - 1 \in DOMAIN T /\ T[i - 1] = S[i])
  <2>1. 1 \in DOMAIN S /\ \A i \in DOMAIN S : i = 1 \/ (i - 1 \in DOMAIN T /\ (i - 1) + 1 = i)
    BY <1>1, Unshifted, ZenonT(40)
  <2> QED
    BY <1>2, <2>1, ZenonT(40)
<1>4. \A u : InS(S, u) <=> InS(T, u) \/ u = h
  BY <1>1, <1>2, <1>3, ZenonT(40) DEF InS
<1>5. ~InS(T, h) /\ ~InC(C, h)
  <2>1. ~InS(T, h)
    <3> SUFFICES ASSUME NEW i \in DOMAIN T, T[i] = h
                 PROVE  FALSE
      BY DEF InS
    <3>1. i + 1 \in DOMAIN S /\ S[i + 1] = S[1] /\ i + 1 # 1
      BY <1>1, <1>2
    <3> QED
      BY <1>3, <3>1 DEF Once
  <2>2. ~InC(C, h)
    BY <1>1, <1>3, ZenonT(40) DEF Once, InC
  <2> QED
    BY <2>1, <2>2
<1>6. \A i, j \in DOMAIN T : T[i] = T[j] => i = j
  BY <1>1, <1>2, SMTT(40) DEF Once
<1>7. \A i \in DOMAIN T, j \in DOMAIN C : T[i] # C[j].wr
  BY <1>2 DEF Once
<1>8. h \notin Held(T, C) /\ Held(S, C) = Held(T, C) \cup {h}
  BY <1>4, <1>5, HeldIsIn DEF In
<1> QED
  BY <1>1, <1>6, <1>7, <1>8 DEF Once, T, h

\* The first completion leaves its queue.
LEMMA CompletionTaken ==
  ASSUME NEW S \in Seq(Nat), NEW C \in Seq(Recs), Once(S, C), C # <<>>
  PROVE  /\ Tail(C) \in Seq(Recs) /\ Head(C) \in Recs /\ Once(S, Tail(C))
         /\ Head(C).wr \in Held(S, C)
         /\ Held(S, Tail(C)) = Held(S, C) \ {Head(C).wr}
<1> DEFINE D == Tail(C)
           h == Head(C)
<1>1. /\ D \in Seq(Recs) /\ h \in Recs /\ h = C[1] /\ Len(C) \in Nat \ {0}
      /\ DOMAIN C = 1 .. Len(C) /\ DOMAIN D = 1 .. Len(C) - 1
      /\ \A i \in 1 .. Len(C) - 1 : D[i] = C[i + 1]
  BY HeadAndTail
<1> HIDE DEF D, h
<1>2. \A i \in DOMAIN D : i + 1 \in DOMAIN C /\ i + 1 # 1 /\ D[i] = C[i + 1]
  <2> TAKE i \in DOMAIN D
  <2>1. i \in 1 .. Len(C) - 1
    BY <1>1
  <2>2. i + 1 \in 1 .. Len(C) /\ i + 1 # 1
    BY <1>1, <2>1, Shifted, ZenonT(40)
  <2> QED
    BY <1>1, <2>1, <2>2
<1>3. 1 \in DOMAIN C /\ \A i \in DOMAIN C : i = 1 \/ (i - 1 \in DOMAIN D /\ D[i - 1] = C[i])
  <2>1. 1 \in DOMAIN C /\ \A i \in DOMAIN C : i = 1 \/ (i - 1 \in DOMAIN D /\ (i - 1) + 1 = i)
    BY <1>1, Unshifted, ZenonT(40)
  <2> QED
    BY <1>2, <2>1, ZenonT(40)
<1>4. \A u : InC(C, u) <=> InC(D, u) \/ u = h.wr
  BY <1>1, <1>2, <1>3, ZenonT(40) DEF InC
<1>5. ~InC(D, h.wr) /\ ~InS(S, h.wr)
  <2>1. ~InC(D, h.wr)
    <3> SUFFICES ASSUME NEW i \in DOMAIN D, D[i].wr = h.wr
                 PROVE  FALSE
      BY DEF InC
    <3>1. i + 1 \in DOMAIN C /\ C[i + 1].wr = C[1].wr /\ i + 1 # 1
      BY <1>1, <1>2
    <3> QED
      BY <1>3, <3>1 DEF Once
  <2>2. ~InS(S, h.wr)
    BY <1>1, <1>3 DEF Once, InS
  <2> QED
    BY <2>1, <2>2
<1>6. \A i, j \in DOMAIN D : D[i].wr = D[j].wr => i = j
  BY <1>1, <1>2 DEF Once
<1>7. \A i \in DOMAIN S, j \in DOMAIN D : S[i] # D[j].wr
  BY <1>2 DEF Once
<1>8. h.wr \in Held(S, C) /\ Held(S, D) = Held(S, C) \ {h.wr}
  BY <1>4, <1>5, HeldIsIn DEF In
<1> QED
  BY <1>1, <1>6, <1>7, <1>8 DEF Once, D, h

\* A Conn starts with empty queues.
LEMMA EmptyQueue == <<>> \in Seq(Nat)
  OBVIOUS

\* A broken link: every queued send becomes a failed completion.
LEMMA Flushed ==
  ASSUME NEW S \in Seq(Nat), NEW C \in Seq(Recs), Once(S, C),
         NEW D, D = C \o [i \in 1 .. Len(S) |-> [wr |-> S[i], ok |-> FALSE]]
  PROVE  D \in Seq(Recs) /\ Once(<<>>, D) /\ Held(<<>>, D) = Held(S, C)
<1> DEFINE G == [i \in 1 .. Len(S) |-> [wr |-> S[i], ok |-> FALSE]]
           m == Len(C)
           n == Len(S)
<1>1. m \in Nat /\ n \in Nat /\ DOMAIN S = 1 .. n /\ DOMAIN C = 1 .. m
  OBVIOUS
<1>2. \A i \in 1 .. n : S[i] \in Nat /\ [wr |-> S[i], ok |-> FALSE] \in Recs
  BY DEF Recs
<1>3. G \in [1 .. n -> Recs]
  BY <1>2
<1>4. G \in Seq(Recs) /\ Len(G) = n
  BY <1>1, <1>3
<1>6. \A i \in 1 .. n : G[i].wr = S[i]
  BY <1>1
<1> HIDE DEF G, m, n
<1>7. /\ D \in Seq(Recs) /\ DOMAIN D = 1 .. m + n
      /\ \A i \in 1 .. m + n : D[i] = IF i <= m THEN C[i] ELSE G[i - m]
  <2>1. D = C \o G
    BY DEF G
  <2>2. /\ C \o G \in Seq(Recs) /\ DOMAIN (C \o G) = 1 .. Len(C) + Len(G)
        /\ \A i \in 1 .. Len(C) + Len(G) : (C \o G)[i] = IF i <= Len(C) THEN C[i] ELSE G[i - Len(C)]
    BY <1>4, Joined, ZenonT(40)
  <2> QED
    BY <1>4, <2>1, <2>2, ZenonT(40) DEF m
<1>8. \A i \in DOMAIN D : \/ i \in DOMAIN C /\ D[i].wr = C[i].wr
                          \/ i \notin DOMAIN C /\ i - m \in DOMAIN S /\ D[i].wr = S[i - m]
  <2> TAKE i \in DOMAIN D
  <2>1. CASE i <= m
    BY <1>1, <1>7, <2>1
  <2>2. CASE ~(i <= m)
    <3>1. i \in Nat /\ i - m \in 1 .. n /\ i \notin 1 .. m
      BY <1>1, <1>7, <2>2
    <3> QED
      BY <1>1, <1>6, <1>7, <2>2, <3>1
  <2> QED
    BY <2>1, <2>2, SMTT(40)
<1>9. /\ \A i \in DOMAIN C : i \in DOMAIN D /\ D[i].wr = C[i].wr
      /\ \A i \in DOMAIN S : i + m \in DOMAIN D /\ D[i + m].wr = S[i]
  <2>1. \A i \in DOMAIN C : i \in 1 .. m + n /\ i <= m
    BY <1>1
  <2>2. \A i \in DOMAIN S : i + m \in 1 .. m + n /\ ~(i + m <= m) /\ (i + m) - m = i
    BY <1>1
  <2>3. \A i \in DOMAIN S : D[i + m] = G[i]
    BY <1>7, <2>2, ZenonT(40)
  <2>4. \A i \in DOMAIN C : D[i] = C[i]
    BY <1>7, <2>1
  <2>5. \A i \in DOMAIN S : D[i + m].wr = S[i]
    BY <1>1, <1>6, <2>3
  <2>6. DOMAIN D = 1 .. m + n
    BY <1>7
  <2>7. \A i \in DOMAIN C : i \in DOMAIN D
    BY <2>1, <2>6, ZenonT(40)
  <2>8. \A i \in DOMAIN S : i + m \in DOMAIN D
    BY <2>2, <2>6, ZenonT(40)
  <2>9. \A i \in DOMAIN C : D[i].wr = C[i].wr
    BY <2>4
  <2> QED
    BY <2>5, <2>7, <2>8, <2>9, ZenonT(40)
<1>10. Once(<<>>, D)
  <2>1. \A i, j \in DOMAIN D : D[i].wr = D[j].wr => i = j
    <3> SUFFICES ASSUME NEW i \in DOMAIN D, NEW j \in DOMAIN D, D[i].wr = D[j].wr
                 PROVE  i = j
      BY ZenonT(40)
    <3>1. CASE i \in DOMAIN C /\ j \in DOMAIN C
      BY <1>9, <3>1 DEF Once
    <3>2. CASE i \notin DOMAIN C /\ j \notin DOMAIN C
      <4>0. i - m \in DOMAIN S /\ j - m \in DOMAIN S /\ S[i - m] = S[j - m]
        BY <1>8, <3>2, ZenonT(40)
      <4>1. i - m = j - m
        BY <4>0, ZenonT(40) DEF Once
      <4>2. i \in Nat /\ j \in Nat
        BY <1>1, <1>7, SMTT(40)
      <4> QED
        BY <1>1, <4>1, <4>2
    <3>3. CASE i \in DOMAIN C /\ j \notin DOMAIN C
      BY <1>8, <3>3, SMTT(40) DEF Once
    <3>4. CASE i \notin DOMAIN C /\ j \in DOMAIN C
      BY <1>8, <3>4, SMTT(40) DEF Once
    <3> QED
      BY <3>1, <3>2, <3>3, <3>4
  <2> QED
    BY <2>1, EmptyDomain, ZenonT(40) DEF Once
<1>11. \A u : In(<<>>, D, u) <=> In(S, C, u)
  <2>1. \A u : ~InS(<<>>, u)
    BY DEF InS
  <2>2. \A u : InC(D, u) => InS(S, u) \/ InC(C, u)
    BY <1>8, SMTT(40) DEF InS, InC
  <2>3. \A u : InS(S, u) \/ InC(C, u) => InC(D, u)
    BY <1>9, ZenonT(40) DEF InS, InC
  <2> QED
    BY <2>1, <2>2, <2>3 DEF In
<1>12. Held(<<>>, D) = Held(S, C)
  BY <1>11, HeldIsIn, ZenonT(40)
<1> QED
  BY <1>7, <1>10, <1>12

\* A send posted on a broken link completes at once, with an error.
LEMMA ErrorQueued ==
  ASSUME NEW S \in Seq(Nat), NEW C \in Seq(Recs), Once(S, C), NEW wr \in Nat, wr \notin Held(S, C)
  PROVE  /\ Append(C, Error(wr)) \in Seq(Recs) /\ Once(S, Append(C, Error(wr)))
         /\ Held(S, Append(C, Error(wr))) = Held(S, C) \cup {wr}
<1> DEFINE D(b) == Append(C, [wr |-> wr, ok |-> b])
<1>1. \A b \in BOOLEAN : D(b) \in Seq(Recs) /\ Once(S, D(b)) /\ Held(S, D(b)) = Held(S, C) \cup {wr}
  BY CompletionQueued
<1> HIDE DEF D
<1>2. D(FALSE) \in Seq(Recs) /\ Once(S, D(FALSE)) /\ Held(S, D(FALSE)) = Held(S, C) \cup {wr}
  BY <1>1, ZenonT(40)
<1> QED
  BY <1>2, ZenonT(40) DEF D, Error

\* The first send is delivered: its wr_id moves from the sends to the completions.
LEMMA Delivered ==
  ASSUME NEW S \in Seq(Nat), NEW C \in Seq(Recs), Once(S, C), S # <<>>
  PROVE  LET D == Append(C, [wr |-> Head(S), ok |-> TRUE])
         IN  /\ Tail(S) \in Seq(Nat) /\ D \in Seq(Recs)
             /\ Once(Tail(S), D) /\ Held(Tail(S), D) = Held(S, C)
<1> DEFINE T == Tail(S)
           h == Head(S)
           D(b) == Append(C, [wr |-> h, ok |-> b])
<1>1. /\ T \in Seq(Nat) /\ h \in Nat /\ Once(T, C) /\ h \notin Held(T, C)
      /\ Held(S, C) = Held(T, C) \cup {h}
  BY SendTaken
<1> HIDE DEF T, h
<1>2. \A b \in BOOLEAN : D(b) \in Seq(Recs) /\ Once(T, D(b)) /\ Held(T, D(b)) = Held(T, C) \cup {h}
  BY <1>1, CompletionQueued
<1> HIDE DEF D
<1>3. D(TRUE) \in Seq(Recs) /\ Once(T, D(TRUE)) /\ Held(T, D(TRUE)) = Held(T, C) \cup {h}
  BY <1>2, ZenonT(40)
<1>4. /\ T \in Seq(Nat) /\ D(TRUE) \in Seq(Recs)
      /\ Once(T, D(TRUE)) /\ Held(T, D(TRUE)) = Held(S, C)
  BY <1>1, <1>3, ZenonT(40)
<1> QED
  BY <1>4, ZenonT(40) DEF T, h, D

-----------------------------------------------------------------------------
(***************************************************************************)
(* The messages of one Conn on their way: posted X, handed to on_receive   *)
(* G, and at the peer the receive buffers W that hold a message, in the    *)
(* order they landed, and Q that wait for one.                             *)
(***************************************************************************)
\* No receive buffer is in two places.
Apart(W, Q) ==
  /\ \A i, j \in DOMAIN W : W[i] = W[j] => i = j
  /\ \A i, j \in DOMAIN Q : Q[i] = Q[j] => i = j
  /\ \A i \in DOMAIN W, j \in DOMAIN Q : W[i] # Q[j]

\* What was handed over, then what landed (N is the peer's memory), then, while the link is
\* "up" (u), what the sends S carry: the posted messages, in order and none left out.
InOrder(u, X, G, W, N, S, M) ==
  /\ Len(G) + Len(W) <= Len(X)
  /\ \A i \in 1 .. Len(G) : G[i] = X[i]
  /\ \A i \in 1 .. Len(W) : N[W[i]] = X[Len(G) + i]
  /\ u = "up" => /\ Len(X) = Len(G) + Len(W) + Len(S)
                 /\ \A i \in 1 .. Len(S) : M[BufOf(S[i])] = X[Len(G) + Len(W) + i]

\* Nothing is in order.
LEMMA NothingPosted ==
  ASSUME NEW N, NEW S, NEW M
  PROVE  InOrder("new", <<>>, <<>>, <<>>, N, S, M)
  BY SMTT(40) DEF InOrder

\* What was received leads what was posted.
Led(X, G, W, N) ==
  /\ Len(G) + Len(W) <= Len(X)
  /\ \A i \in 1 .. Len(G) : G[i] = X[i]
  /\ \A i \in 1 .. Len(W) : N[W[i]] = X[Len(G) + i]

\* A message is among the first n posted.
Among(X, n, m) == \E i \in 1 .. n : X[i] = m

\* A completion without error is of a message among the first n posted.
Acked(X, n, C, M) == \A i \in DOMAIN C : C[i].ok => Among(X, n, M[BufOf(C[i].wr)])

StreamTypes(X, G, W, Q, N) ==
  X \in Seq(Msgs) /\ G \in Seq(Msgs) /\ W \in Seq(Slots) /\ Q \in Seq(Slots) /\ N \in [Slots -> Msgs]

\* Every successful completion of D is one of C.
NoNewAck(C, D) == \A i \in DOMAIN D : D[i].ok => \E j \in DOMAIN C : D[i] = C[j]

Stream(u, X, G, W, Q, N, S, C, M) ==
  /\ StreamTypes(X, G, W, Q, N) /\ Apart(W, Q)
  /\ InOrder(u, X, G, W, N, S, M)
  /\ Acked(X, Len(G) + Len(W), C, M)

\* A message among the first n posted stays so.
LEMMA AmongGrows ==
  ASSUME NEW X \in Seq(Msgs), NEW Y \in Seq(Msgs), NEW m \in Nat, NEW n \in Nat, m <= n, m <= Len(X),
         \A i \in 1 .. Len(X) : Y[i] = X[i], NEW a, Among(X, m, a)
  PROVE  Among(Y, n, a)
  BY DEF Among

\* A worker's buffer is none that the adapter may read.
LEMMA FillsApart ==
  ASSUME NEW c, NEW F, NEW P, NEW A, NEW M, NEW K, Good(c, F, P, A, M, K),
         NEW w \in Workers, Fills(K, c, w)
  PROVE  \A v \in A : BufOf(v) # BufOf(K[w].wr) /\ BufOf(v) \in Bufs
<1>1. <<K[w].wr, K[w].s>> \in P /\ K[w].wr \notin A
  BY Filled, ZenonT(40)
<1>2. PICK x \in P : x[1] = K[w].wr
  BY <1>1
<1>3. \A v \in A : \E y \in P : y[1] = v
  BY DEF Good, Placed
<1>4. \A y \in P : BufOf(y[1]) \in Bufs /\ (BufOf(y[1]) = BufOf(x[1]) => y = x)
  BY DEF Good, Ring
<1> QED
  BY <1>1, <1>2, <1>3, <1>4

\* Buffers of the adapter that are not written hold what they held.
LEMMA StreamFill ==
  ASSUME NEW u, NEW X, NEW G, NEW W, NEW Q, NEW N, NEW S \in Seq(Nat), NEW C \in Seq(Recs),
         NEW M \in [Bufs -> Msgs], Stream(u, X, G, W, Q, N, S, C, M),
         NEW wr \in Nat, NEW s \in Sends,
         \A v \in Held(S, C) : BufOf(v) # BufOf(wr) /\ BufOf(v) \in Bufs
  PROVE  Stream(u, X, G, W, Q, N, S, C, [M EXCEPT ![BufOf(wr)] = s])
<1> DEFINE L == [M EXCEPT ![BufOf(wr)] = s]
<1>1. \A v \in Held(S, C) : L[BufOf(v)] = M[BufOf(v)]
  BY SMTT(40)
<1> HIDE DEF L
<1>2. /\ \A i \in 1 .. Len(S) : S[i] \in Held(S, C)
      /\ \A i \in DOMAIN C : C[i].wr \in Held(S, C)
  BY SMTT(40) DEF Held
<1>3. InOrder(u, X, G, W, N, S, L)
  BY <1>1, <1>2, SMTT(40) DEF Stream, InOrder
<1>4. Acked(X, Len(G) + Len(W), C, L)
  BY <1>1, <1>2 DEF Stream, Acked
<1> QED
  BY <1>3, <1>4 DEF Stream, L

\* A Conn starts with every receive buffer posted.
LEMMA StreamStart ==
  ASSUME RecvBufs \in Nat, NEW N \in [Slots -> Msgs], NEW M
  PROVE  Stream("up", <<>>, <<>>, <<>>, [i \in 1 .. RecvBufs |-> i], N, <<>>, <<>>, M)
<1> DEFINE Q == [i \in 1 .. RecvBufs |-> i]
<1>1. Q \in Seq(Slots) /\ DOMAIN Q = 1 .. RecvBufs /\ \A i \in DOMAIN Q : Q[i] = i
  BY DEF Slots
<1>2. <<>> \in Seq(Msgs) /\ <<>> \in Seq(Slots)
  OBVIOUS
<1> HIDE DEF Q
<1>3. Apart(<<>>, Q)
  BY <1>1, EmptyDomain DEF Apart
<1>4. InOrder("up", <<>>, <<>>, <<>>, N, <<>>, M)
  BY DEF InOrder
<1>5. Acked(<<>>, Len(<<>>) + Len(<<>>), <<>>, M)
  BY EmptyDomain DEF Acked
<1> QED
  BY <1>1, <1>2, <1>3, <1>4, <1>5 DEF Stream, StreamTypes, Q

\* Completions that are dropped, or that report errors, and, when the link is down, the sends
\* acknowledge nothing new.
LEMMA StreamQuieter ==
  ASSUME NEW u, NEW X, NEW G, NEW W, NEW Q, NEW N, NEW S, NEW C, NEW M,
         Stream(u, X, G, W, Q, N, S, C, M), NEW v, NEW T, v # "up" \/ (v = u /\ T = S),
         NEW D, NoNewAck(C, D)
  PROVE  Stream(v, X, G, W, Q, N, T, D, M)
<1>1. InOrder(v, X, G, W, N, T, M)
  BY SMTT(40) DEF Stream, InOrder
<1>2. Acked(X, Len(G) + Len(W), D, M)
  BY DEF Stream, Acked, NoNewAck
<1> QED
  BY <1>1, <1>2 DEF Stream

\* A completion is queued: an error, or of a message that landed.
LEMMA StreamCompletes ==
  ASSUME NEW u, NEW X, NEW G, NEW W, NEW Q, NEW N, NEW S, NEW C \in Seq(Recs), NEW M,
         Stream(u, X, G, W, Q, N, S, C, M), NEW r \in Recs,
         r.ok => Among(X, Len(G) + Len(W), M[BufOf(r.wr)])
  PROVE  Stream(u, X, G, W, Q, N, S, Append(C, r), M)
<1> DEFINE D == Append(C, r)
<1>1. \A i \in DOMAIN D : (i \in DOMAIN C /\ D[i] = C[i]) \/ D[i] = r
  BY SMTT(40)
<1> HIDE DEF D
<1>2. Acked(X, Len(G) + Len(W), D, M)
  BY <1>1 DEF Stream, Acked
<1> QED
  BY <1>2 DEF Stream, D

\* A message more leaves the order of the others, and what has landed, as they were.
LEMMA OrderPosts ==
  ASSUME NEW u, NEW X \in Seq(Msgs), NEW G \in Seq(Msgs), NEW W \in Seq(Slots), NEW N, NEW S, NEW M,
         InOrder(u, X, G, W, N, S, M), NEW Y \in Seq(Msgs), Len(Y) = Len(X) + 1,
         \A i \in 1 .. Len(X) : Y[i] = X[i]
  PROVE  Led(Y, G, W, N)
<1>1. Len(G) \in Nat /\ Len(W) \in Nat /\ Len(X) \in Nat /\ Len(G) + Len(W) <= Len(X)
  BY DEF InOrder
<1>2. /\ \A i \in 1 .. Len(G) : i \in 1 .. Len(X)
      /\ \A i \in 1 .. Len(W) : Len(G) + i \in 1 .. Len(X)
      /\ Len(G) + Len(W) <= Len(X) + 1
  BY <1>1
<1>3. \A i \in 1 .. Len(G) : G[i] = X[i]
  BY DEF InOrder
<1>4. \A i \in 1 .. Len(W) : N[W[i]] = X[Len(G) + i]
  BY DEF InOrder
<1> QED
  BY <1>2, <1>3, <1>4 DEF Led

\* One more message posted, on a link that is down.
LEMMA StreamPostDown ==
  ASSUME NEW u, u # "up", NEW X, NEW G, NEW W, NEW Q, NEW N, NEW S, NEW C, NEW M,
         Stream(u, X, G, W, Q, N, S, C, M), NEW s \in Sends
  PROVE  Stream(u, Append(X, s), G, W, Q, N, S, C, M)
<1> DEFINE Y == Append(X, s)
           n == Len(G) + Len(W)
<1>1. X \in Seq(Msgs) /\ G \in Seq(Msgs) /\ W \in Seq(Slots) /\ n \in Nat /\ n <= Len(X)
  BY DEF Stream, StreamTypes, InOrder
<1>2. /\ Y \in Seq(Msgs) /\ Len(Y) = Len(X) + 1 /\ Len(X) \in Nat
      /\ \A i \in 1 .. Len(X) : Y[i] = X[i]
  BY <1>1 DEF Msgs
<1> HIDE DEF Y, n
<1>3. \A a : Among(X, n, a) => Among(Y, n, a)
  BY <1>1, <1>2, AmongGrows, SMTT(40)
<1>4. InOrder(u, Y, G, W, N, S, M)
  <2>1. InOrder(u, X, G, W, N, S, M)
    BY DEF Stream
  <2>2. Led(Y, G, W, N)
    BY <1>1, <1>2, <2>1, OrderPosts, ZenonT(40)
  <2> QED
    BY <2>2 DEF InOrder, Led
<1>5. Acked(Y, n, C, M)
  BY <1>3 DEF Stream, Acked, n
<1> QED
  BY <1>2, <1>4, <1>5 DEF Stream, StreamTypes, Y, n

\* One more message posted, in the buffer of wr, on a link that is up.
LEMMA StreamPostUp ==
  ASSUME NEW X, NEW G, NEW W, NEW Q, NEW N, NEW S \in Seq(Nat), NEW C, NEW M,
         Stream("up", X, G, W, Q, N, S, C, M), NEW s \in Sends, NEW wr \in Nat, M[BufOf(wr)] = s
  PROVE  Stream("up", Append(X, s), G, W, Q, N, Append(S, wr), C, M)
<1> DEFINE Y == Append(X, s)
           T == Append(S, wr)
           n == Len(G) + Len(W)
<1>1. /\ X \in Seq(Msgs) /\ G \in Seq(Msgs) /\ W \in Seq(Slots) /\ n \in Nat /\ n <= Len(X)
      /\ Len(X) = n + Len(S)
  BY DEF Stream, StreamTypes, InOrder
<1>2. /\ Y \in Seq(Msgs) /\ Len(Y) = Len(X) + 1 /\ Len(X) \in Nat
      /\ \A i \in 1 .. Len(X) : Y[i] = X[i]
      /\ Y[Len(X) + 1] = s
  BY <1>1 DEF Msgs
<1>3. Len(T) = Len(S) + 1 /\ Len(S) \in Nat /\ T[Len(S) + 1] = wr /\ \A i \in 1 .. Len(S) : T[i] = S[i]
  OBVIOUS
<1> HIDE DEF Y, T, n
<1>4. n \in Nat /\ n <= n
  BY <1>1
<1>5. \A a : Among(X, n, a) => Among(Y, n, a)
  BY <1>1, <1>2, <1>4, AmongGrows, ZenonT(40)
<1>6. InOrder("up", Y, G, W, N, T, M)
  <2>0. InOrder("up", X, G, W, N, S, M)
    BY DEF Stream
  <2>1. \A i \in 1 .. Len(S) : M[BufOf(S[i])] = X[n + i]
    BY <2>0, ZenonT(40) DEF InOrder, n
  <2>2. \A i \in 1 .. Len(T) : M[BufOf(T[i])] = Y[n + i]
    <3>1. \A i \in 1 .. Len(S) : n + i \in 1 .. Len(X)
      BY <1>1, <1>3
    <3>2. \A i \in 1 .. Len(S) : M[BufOf(T[i])] = Y[n + i]
      BY <1>2, <1>3, <2>1, <3>1, ZenonT(40)
    <3>3. n + (Len(S) + 1) = Len(X) + 1
      BY <1>1, <1>3
    <3>4. \A i \in 1 .. Len(T) : i \in 1 .. Len(S) \/ i = Len(S) + 1
      BY <1>3
    <3> QED
      BY <1>2, <1>3, <3>2, <3>3, <3>4, ZenonT(40)
  <2>3. Led(Y, G, W, N)
    BY <1>1, <1>2, <2>0, OrderPosts, ZenonT(40)
  <2>4. Len(Y) = n + Len(T)
    BY <1>1, <1>2, <1>3, SMTT(40)
  <2> QED
    BY <2>2, <2>3, <2>4, ZenonT(40) DEF InOrder, Led, n
<1>7. Acked(Y, n, C, M)
  BY <1>5, SMTT(40) DEF Stream, Acked, n
<1> QED
  BY <1>2, <1>6, <1>7, SMTT(40) DEF Stream, StreamTypes, Y, T, n

\* The first send lands in the first posted receive buffer.
LEMMA StreamLand ==
  ASSUME NEW X, NEW G, NEW W, NEW Q, NEW N, NEW S \in Seq(Nat), NEW C, NEW M \in [Bufs -> Msgs],
         Stream("up", X, G, W, Q, N, S, C, M), S # <<>>, Q # <<>>, BufOf(Head(S)) \in Bufs
  PROVE  /\ Stream("up", X, G, Append(W, Head(Q)), Tail(Q),
                   [N EXCEPT ![Head(Q)] = M[BufOf(Head(S))]], Tail(S), C, M)
         /\ Among(X, Len(G) + Len(Append(W, Head(Q))), M[BufOf(Head(S))])
<1> DEFINE h == Head(Q)
           a == M[BufOf(Head(S))]
           V == Append(W, h)
           R == Tail(Q)
           T == Tail(S)
           L == [N EXCEPT ![h] = a]
           n == Len(G) + Len(W)
<1>1. /\ X \in Seq(Msgs) /\ G \in Seq(Msgs) /\ W \in Seq(Slots) /\ Q \in Seq(Slots)
      /\ N \in [Slots -> Msgs] /\ Len(G) \in Nat /\ Len(W) \in Nat /\ Len(X) = n + Len(S)
  BY DEF Stream, StreamTypes, InOrder
<1>2. /\ R \in Seq(Slots) /\ h \in Slots /\ h = Q[1] /\ Len(Q) \in Nat \ {0}
      /\ DOMAIN Q = 1 .. Len(Q) /\ DOMAIN R = 1 .. Len(Q) - 1
      /\ \A i \in 1 .. Len(Q) - 1 : R[i] = Q[i + 1]
  BY <1>1, HeadAndTail
<1>3. /\ T \in Seq(Nat) /\ Head(S) = S[1] /\ Len(S) \in Nat \ {0} /\ Len(T) = Len(S) - 1
      /\ \A i \in 1 .. Len(S) - 1 : T[i] = S[i + 1]
  BY HeadAndTail, SMTT(40)
<1>4. a \in Msgs /\ L \in [Slots -> Msgs] /\ L[h] = a /\ \A b \in Slots : b # h => L[b] = N[b]
  BY <1>1, <1>2, SMTT(40)
<1>5. a = X[n + 1]
  BY <1>1, <1>3 DEF Stream, InOrder
<1> HIDE DEF h, a, R, T, L, n
<1>6. /\ V \in Seq(Slots) /\ DOMAIN V = 1 .. Len(W) + 1 /\ Len(V) = Len(W) + 1 /\ DOMAIN W = 1 .. Len(W)
      /\ V[Len(W) + 1] = h /\ \A i \in 1 .. Len(W) : V[i] = W[i]
  BY <1>1, <1>2, SMTT(40)
<1> HIDE DEF V
<1>7. \A i \in 1 .. Len(W) : W[i] \in Slots /\ W[i] # h
  <2>1. 1 \in DOMAIN Q
    BY <1>2
  <2>2. \A i \in 1 .. Len(W) : W[i] \in Slots
    BY <1>1
  <2>3. Apart(W, Q)
    BY DEF Stream
  <2> QED
    BY <1>2, <1>6, <2>1, <2>2, <2>3, ZenonT(40) DEF Apart
<1>8. Apart(V, R)
  <2>1. \A i \in DOMAIN R : i + 1 \in DOMAIN Q /\ i + 1 # 1 /\ 1 \in DOMAIN Q /\ R[i] = Q[i + 1]
    BY <1>2, SMTT(40)
  <2>2. \A i \in DOMAIN R : R[i] # h
    BY <1>2, <2>1, SMTT(40) DEF Stream, Apart
  <2>3. \A i, j \in DOMAIN R : R[i] = R[j] => i = j
    BY <1>2, <2>1, SMTT(40) DEF Stream, Apart
  <2>4. \A i \in DOMAIN V : (i \in DOMAIN W /\ V[i] = W[i]) \/ (i = Len(W) + 1 /\ V[i] = h)
    BY <1>1, <1>6
  <2>5. \A i, j \in DOMAIN V : V[i] = V[j] => i = j
    BY <1>6, <1>7, <2>4, SMTT(40) DEF Stream, Apart
  <2>6. \A i \in DOMAIN V, j \in DOMAIN R : V[i] # R[j]
    BY <2>1, <2>2, <2>4 DEF Stream, Apart
  <2> QED
    BY <2>3, <2>5, <2>6, SMTT(40) DEF Apart
<1>9. InOrder("up", X, G, V, L, T, M)
  <2>1. Len(G) + Len(V) = n + 1 /\ Len(X) = (n + 1) + Len(T) /\ n \in Nat
    BY <1>1, <1>3, <1>6, SMTT(40) DEF n
  <2>2. \A i \in 1 .. Len(V) : L[V[i]] = X[Len(G) + i]
    <3>1. \A i \in 1 .. Len(W) : N[W[i]] = X[Len(G) + i]
      BY DEF Stream, InOrder
    <3>2. \A i \in 1 .. Len(W) : L[V[i]] = X[Len(G) + i]
      BY <1>4, <1>6, <1>7, <3>1, SMTT(40)
    <3>3. L[V[Len(W) + 1]] = X[Len(G) + (Len(W) + 1)]
      BY <1>1, <1>4, <1>5, <1>6 DEF n
    <3>4. \A i \in 1 .. Len(V) : i \in 1 .. Len(W) \/ i = Len(W) + 1
      BY <1>1, <1>6
    <3> QED
      BY <3>2, <3>3, <3>4, ZenonT(40)
  <2>3. \A i \in 1 .. Len(T) : M[BufOf(T[i])] = X[(n + 1) + i]
    <3>0. InOrder("up", X, G, W, N, S, M)
      BY DEF Stream
    <3>1. \A i \in 1 .. Len(S) : M[BufOf(S[i])] = X[n + i]
      BY <3>0, ZenonT(40) DEF InOrder, n
    <3>2. \A i \in 1 .. Len(T) : i + 1 \in 1 .. Len(S) /\ T[i] = S[i + 1] /\ (n + 1) + i = n + (i + 1)
      BY <1>3, <2>1
    <3> QED
      BY <3>1, <3>2
  <2>4. \A i \in 1 .. Len(G) : G[i] = X[i]
    BY DEF Stream, InOrder
  <2>5. Len(G) + Len(V) <= Len(X) /\ Len(X) = Len(G) + Len(V) + Len(T)
    <3>1. Len(T) \in Nat /\ Len(G) \in Nat /\ Len(V) \in Nat
      BY <1>1, <1>3, <1>6
    <3> QED
      BY <2>1, <3>1, SMTT(40)
  <2>6. \A i \in 1 .. Len(T) : M[BufOf(T[i])] = X[Len(G) + Len(V) + i]
    BY <2>1, <2>3, ZenonT(40)
  <2> QED
    BY <2>2, <2>4, <2>5, <2>6, ZenonT(40) DEF InOrder
<1>10. Len(G) + Len(V) = n + 1 /\ n \in Nat /\ n + 1 <= Len(X)
  BY <1>1, <1>3, <1>6, SMTT(40) DEF n
<1>11. Among(X, Len(G) + Len(V), a)
  BY <1>5, <1>10 DEF Among
<1>12. Acked(X, Len(G) + Len(V), C, M)
  <2>1. \A b : Among(X, n, b) => Among(X, n + 1, b)
    BY <1>10, SMTT(40) DEF Among
  <2> QED
    BY <1>10, <2>1 DEF Stream, Acked, n
<1>13. Stream("up", X, G, V, R, L, T, C, M)
  BY <1>1, <1>2, <1>4, <1>6, <1>8, <1>9, <1>12, ZenonT(40) DEF Stream, StreamTypes
<1> QED
  BY <1>11, <1>13, ZenonT(40) DEF h, a, V, R, T, L

\* The first message that landed is handed over and its buffer posted again.
LEMMA StreamHandle ==
  ASSUME NEW u, NEW X, NEW G, NEW W, NEW Q, NEW N, NEW S, NEW C, NEW M,
         Stream(u, X, G, W, Q, N, S, C, M), W # <<>>
  PROVE  Stream(u, X, Append(G, N[Head(W)]), Tail(W), Append(Q, Head(W)), N, S, C, M)
<1> DEFINE h == Head(W)
           a == N[h]
           V == Tail(W)
           R == Append(Q, h)
           E == Append(G, a)
<1>1. /\ X \in Seq(Msgs) /\ G \in Seq(Msgs) /\ W \in Seq(Slots) /\ Q \in Seq(Slots)
      /\ N \in [Slots -> Msgs] /\ Len(G) \in Nat /\ Len(Q) \in Nat
  BY DEF Stream, StreamTypes
<1>2. /\ V \in Seq(Slots) /\ h \in Slots /\ h = W[1] /\ Len(W) \in Nat \ {0} /\ Len(V) = Len(W) - 1
      /\ DOMAIN W = 1 .. Len(W) /\ DOMAIN V = 1 .. Len(W) - 1
      /\ \A i \in 1 .. Len(W) - 1 : V[i] = W[i + 1]
  BY <1>1, HeadAndTail
<1>3. a \in Msgs /\ a = X[Len(G) + 1]
  <2>1. 1 \in 1 .. Len(W)
    BY <1>2, SMTT(40)
  <2> QED
    BY <1>1, <1>2, <2>1 DEF Stream, InOrder
<1> HIDE DEF h, a, V
<1>4. /\ E \in Seq(Msgs) /\ Len(E) = Len(G) + 1 /\ E[Len(G) + 1] = a
      /\ \A i \in 1 .. Len(G) : E[i] = G[i]
  BY <1>1, <1>3
<1>5. /\ R \in Seq(Slots) /\ DOMAIN R = 1 .. Len(Q) + 1 /\ DOMAIN Q = 1 .. Len(Q) /\ R[Len(Q) + 1] = h
      /\ \A i \in 1 .. Len(Q) : R[i] = Q[i]
  BY <1>1, <1>2, SMTT(40)
<1> HIDE DEF E, R
<1>6. Len(E) + Len(V) = Len(G) + Len(W)
  BY <1>1, <1>2, <1>4
<1>7. Apart(V, R)
  <2>1. \A i \in DOMAIN V : i + 1 \in DOMAIN W /\ i + 1 # 1 /\ 1 \in DOMAIN W /\ V[i] = W[i + 1]
    BY <1>2, SMTT(40)
  <2>2. \A i \in DOMAIN V : V[i] # h
    BY <1>2, <2>1, SMTT(40) DEF Stream, Apart
  <2>3. \A i, j \in DOMAIN V : V[i] = V[j] => i = j
    BY <1>2, <2>1, SMTT(40) DEF Stream, Apart
  <2>4. \A i \in DOMAIN R : (i \in DOMAIN Q /\ R[i] = Q[i]) \/ (i = Len(Q) + 1 /\ R[i] = h)
    BY <1>1, <1>5, SMTT(40)
  <2>5. \A i \in DOMAIN Q : Q[i] # h
    BY <1>2 DEF Stream, Apart
  <2>6. \A i, j \in DOMAIN R : R[i] = R[j] => i = j
    BY <2>4, <2>5, SMTT(40) DEF Stream, Apart
  <2>7. \A i \in DOMAIN V, j \in DOMAIN R : V[i] # R[j]
    BY <2>1, <2>2, <2>4, SMTT(40) DEF Stream, Apart
  <2> QED
    BY <2>3, <2>6, <2>7 DEF Apart
<1>8. InOrder(u, X, E, V, N, S, M)
  <2>0. InOrder(u, X, G, W, N, S, M)
    BY DEF Stream
  <2>1. \A i \in 1 .. Len(E) : E[i] = X[i]
    <3>1. \A i \in 1 .. Len(G) : G[i] = X[i]
      BY <2>0 DEF InOrder
    <3>2. \A i \in 1 .. Len(E) : i \in 1 .. Len(G) \/ i = Len(G) + 1
      BY <1>1, <1>4
    <3> QED
      BY <1>3, <1>4, <3>1, <3>2, ZenonT(40)
  <2>2. \A i \in 1 .. Len(V) : N[V[i]] = X[Len(E) + i]
    <3>1. \A i \in 1 .. Len(W) : N[W[i]] = X[Len(G) + i]
      BY DEF Stream, InOrder
    <3>2. \A i \in 1 .. Len(V) : i + 1 \in 1 .. Len(W) /\ V[i] = W[i + 1] /\ Len(E) + i = Len(G) + (i + 1)
      BY <1>1, <1>2, <1>4
    <3>3. TAKE i \in 1 .. Len(V)
    <3>4. i + 1 \in 1 .. Len(W) /\ V[i] = W[i + 1] /\ Len(E) + i = Len(G) + (i + 1)
      BY <3>2, Zenon
    <3>5. N[W[i + 1]] = X[Len(G) + (i + 1)]
      BY <3>1, <3>4, Zenon
    <3> QED
      BY <3>4, <3>5, Zenon
  <2> QED
    BY <1>6, <2>1, <2>2, SMTT(40) DEF Stream, InOrder
<1> QED
  BY <1>1, <1>2, <1>4, <1>5, <1>6, <1>7, <1>8 DEF Stream, StreamTypes, h, a, V, R, E

-----------------------------------------------------------------------------
\* The receive buffers that hold a message: the one that HandleRecv has in hand, if its
\* poller p is there, and those completed, D.
Wait(p, D) == IF p.pc = "handle" THEN <<p.buf>> \o D ELSE D

\* One more landed.
LEMMA WaitLand ==
  ASSUME NEW p, NEW D \in Seq(Slots), NEW h \in Slots, p.pc = "handle" => p.buf \in Slots
  PROVE  Wait(p, Append(D, h)) = Append(Wait(p, D), h)
<1>1. CASE p.pc = "handle"
  <2> DEFINE b == p.buf
             A == <<b>> \o Append(D, h)
             B == Append(<<b>> \o D, h)
  <2>1. b \in Slots
    BY <1>1
  <2>2. A \in Seq(Slots) /\ B \in Seq(Slots) /\ Len(A) = Len(D) + 2 /\ Len(B) = Len(D) + 2 /\ Len(D) \in Nat
    BY <2>1
  <2>3. \A i \in 1 .. Len(D) + 2 : A[i] = B[i]
    BY <2>1
  <2>4. A = B
    BY <2>2, <2>3
  <2> QED
    BY <1>1, <2>4 DEF Wait
<1> QED
  BY <1>1 DEF Wait

\* PollInbound takes the first one in hand: the order stays.
LEMMA WaitPoll ==
  ASSUME NEW D \in Seq(Slots), D # <<>>
  PROVE  <<Head(D)>> \o Tail(D) = D
<1>1. /\ Head(D) \in Slots /\ Head(D) = D[1] /\ Tail(D) \in Seq(Slots)
      /\ Len(D) \in Nat \ {0} /\ Len(Tail(D)) = Len(D) - 1 /\ \A i \in 1 .. Len(D) - 1 : Tail(D)[i] = D[i + 1]
  BY HeadAndTail
<1> DEFINE A == <<Head(D)>> \o Tail(D)
<1>2. A \in Seq(Slots) /\ Len(A) = Len(D)
  BY <1>1
<1>3. \A i \in 1 .. Len(D) : A[i] = D[i]
  BY <1>1
<1> QED
  BY <1>2, <1>3

\* HandleRecv is done with the one in hand.
LEMMA WaitHandled ==
  ASSUME NEW b \in Slots, NEW D \in Seq(Slots)
  PROVE  /\ <<b>> \o D # <<>> /\ Head(<<b>> \o D) = b /\ Tail(<<b>> \o D) = D
         /\ Len(<<b>> \o D) = Len(D) + 1 /\ \A i \in 1 .. Len(D) : (<<b>> \o D)[i + 1] = D[i]
<1> DEFINE A == <<b>> \o D
<1>1. A \in Seq(Slots) /\ Len(A) = Len(D) + 1 /\ Len(D) \in Nat /\ A[1] = b
  OBVIOUS
<1>2. \A i \in 1 .. Len(D) : A[i + 1] = D[i]
  OBVIOUS
<1> HIDE DEF A
<1>3. A # <<>> /\ Head(A) = b
  BY <1>1
<1>4. Tail(A) \in Seq(Slots) /\ Len(Tail(A)) = Len(D) /\ \A i \in 1 .. Len(D) : Tail(A)[i] = A[i + 1]
  BY <1>1, <1>3
<1>5. Tail(A) = D
  BY <1>2, <1>4
<1> QED
  BY <1>1, <1>2, <1>3, <1>5 DEF A

\* A buffer that waits is the one being handled or one of the queue.
LEMMA WaitElements ==
  ASSUME NEW b \in Slots, NEW D \in Seq(Slots), NEW j \in 1 .. Len(<<b>> \o D)
  PROVE  (<<b>> \o D)[j] = b \/ \E k \in DOMAIN D : (<<b>> \o D)[j] = D[k]
<1>1. CASE j = 1
  BY <1>1, SMTT(40)
<1>2. CASE j # 1
  <2>1. j - 1 \in DOMAIN D /\ (<<b>> \o D)[j] = D[j - 1]
    BY <1>2, SMTT(40)
  <2> QED
    BY <2>1
<1> QED
  BY <1>1, <1>2

\* What a link that breaks adds to the completions: an error for each send.
Errors(S) == [i \in 1 .. Len(S) |-> [wr |-> S[i], ok |-> FALSE]]

\* It adds errors only.
LEMMA Completions ==
  ASSUME NEW S \in Seq(Nat), NEW C \in Seq(Recs)
  PROVE  \A i \in DOMAIN (C \o Errors(S)) :
           (C \o Errors(S))[i].ok => \E j \in DOMAIN C : (C \o Errors(S))[i] = C[j]
<1> DEFINE G == Errors(S)
           D == C \o G
<1>1. Len(C) \in Nat /\ Len(S) \in Nat /\ DOMAIN C = 1 .. Len(C)
  BY SMTT(40)
<1>2. \A i \in 1 .. Len(S) : [wr |-> S[i], ok |-> FALSE] \in Recs
  BY DEF Recs
<1>3. G \in Seq(Recs) /\ Len(G) = Len(S) /\ \A i \in 1 .. Len(S) : ~G[i].ok
  BY <1>1, <1>2 DEF Errors
<1> HIDE DEF G
<1>4. /\ DOMAIN D = 1 .. Len(C) + Len(G)
      /\ \A i \in 1 .. Len(C) + Len(G) : D[i] = IF i <= Len(C) THEN C[i] ELSE G[i - Len(C)]
  BY <1>3, Joined, ZenonT(40)
<1> HIDE DEF D
<1> SUFFICES ASSUME NEW i \in DOMAIN D, D[i].ok
             PROVE  \E j \in DOMAIN C : D[i] = C[j]
  BY ZenonT(40) DEF D, G
<1>5. CASE i <= Len(C)
  <2>1. i \in 1 .. Len(C)
    BY <1>1, <1>3, <1>4, <1>5, Prefix, ZenonT(40)
  <2> QED
    BY <1>1, <1>3, <1>4, <1>5, <2>1, ZenonT(40)
<1>6. CASE ~(i <= Len(C))
  <2>1. i - Len(C) \in 1 .. Len(S)
    BY <1>1, <1>3, <1>4, <1>6, Prefix, ZenonT(40)
  <2> QED
    BY <1>3, <1>4, <1>6, <2>1
<1> QED
  BY <1>5, <1>6

-----------------------------------------------------------------------------
(***************************************************************************)
(* The inductive invariant, and the steps of Send that take a buffer: Dial *)
(* and AcquireBuffer.                                                      *)
(***************************************************************************)
Typed ==
  /\ wk \in [Workers -> WorkerRecs] /\ outbound \in Conns \cup {NoConn}
  /\ st \in [Conns -> {"new", "up", "down", "freed"}]
  /\ free \in [Conns -> SUBSET Bufs] /\ pend \in [Conns -> SUBSET (Nat \X Sends)]
  /\ next \in [Conns -> Nat] /\ mem \in [Conns -> [Bufs -> Sends \cup {NoBlock}]]
  /\ sq \in [Conns -> Seq(Nat)] /\ cq \in [Conns -> Seq(Recs)]

\* A Conn that is live has a good ring; one that is not has nothing with the adapter.
Sound(c) ==
  /\ Live(c) => /\ Once(sq[c], cq[c])
                /\ Good(c, free[c], pend[c], Held(sq[c], cq[c]), mem[c], wk)
  /\ ~Live(c) => sq[c] = <<>> /\ cq[c] = <<>>
  /\ st[c] = "new" => pend[c] = {}

IndInv == Typed /\ OnConn /\ \A c \in Conns : Sound(c)

\* A step leaves the Conn d and the workers that fill its buffers alone.
SameConn(d) ==
  /\ st'[d] = st[d] /\ free'[d] = free[d] /\ pend'[d] = pend[d]
  /\ sq'[d] = sq[d] /\ cq'[d] = cq[d] /\ mem'[d] = mem[d]
  /\ SameFills(d, wk, wk')

\* What the invariant says of one Conn that is live.
LEMMA LiveIsGood ==
  ASSUME IndInv, NEW c \in Conns, Live(c)
  PROVE  Once(sq[c], cq[c]) /\ Good(c, free[c], pend[c], Held(sq[c], cq[c]), mem[c], wk)
  BY ZenonT(40) DEF IndInv, Sound

\* The types of one Conn's part of the adapter.
LEMMA ConnTypes ==
  ASSUME IndInv, NEW c \in Conns
  PROVE  /\ sq[c] \in Seq(Nat) /\ cq[c] \in Seq(Recs)
         /\ mem[c] \in [Bufs -> Sends \cup {NoBlock}]
  BY DEF IndInv, Typed

\* A worker that fills a buffer does so on a Conn that was dialed.
LEMMA OnItsConn ==
  ASSUME IndInv, NEW w \in Workers, wk[w].pc \in {"acquire", "post"}, st[wk[w].c] # "freed"
  PROVE  /\ wk[w].c \in Conns /\ wk[w].s \in Sends /\ wk[w].wr \in Nat
         /\ Live(wk[w].c) /\ st[wk[w].c] # "new"
<1>1. wk[w].c \in Conns /\ wk[w].s \in Sends /\ st[wk[w].c] # "new"
  BY DEF IndInv, OnConn
<1>2. wk[w].wr \in Nat /\ st[wk[w].c] \in {"new", "up", "down", "freed"}
  BY <1>1 DEF IndInv, Typed, WorkerRecs
<1> QED
  BY <1>1, <1>2 DEF Live

\* A Conn that a step leaves alone stays sound.
LEMMA StaysSound ==
  ASSUME NEW d \in Conns, Sound(d), SameConn(d)
  PROVE  Sound(d)'
<1>1. Live(d)' <=> Live(d)
  BY DEF SameConn, Live
<1>2. Live(d) => Good(d, free[d], pend[d], Held(sq[d], cq[d]), mem[d], wk')
  BY GoodFrame DEF Sound, SameConn
<1> QED
  BY <1>1, <1>2 DEF Sound, SameConn

\* A step that changes one Conn at most.
LEMMA TouchesOne ==
  ASSUME IndInv, Typed', OnConn', NEW c \in Conns, Sound(c)',
         \A d \in Conns \ {c} : SameConn(d)
  PROVE  IndInv'
<1>1. \A d \in Conns \ {c} : Sound(d)'
  BY StaysSound DEF IndInv
<1> QED
  BY <1>1 DEF IndInv

\* A step of a thread that leaves the rings and the adapter alone.
LEMMA Quiet ==
  ASSUME IndInv, UNCHANGED <<wk, outbound, st, ring, mem, nic>>
  PROVE  IndInv'
  BY DEF IndInv, Typed, OnConn, Sound, Live, ring, nic

\* A worker that goes on without touching its ring.
LEMMA Walks ==
  ASSUME IndInv, NEW w \in Workers, NEW r \in WorkerRecs, Goto(w, r),
         wk[w].pc # "post", r.pc # "post",
         r.pc \in {"emplace", "acquire"} => r.c \in Conns /\ st[r.c] # "new",
         r.pc # "idle" => r.s \in Sends,
         UNCHANGED <<st, ring, mem, nic>>,
         outbound' \in Conns \cup {NoConn}, outbound' # NoConn => st[outbound'] # "new"
  PROVE  IndInv'
<1>1. UNCHANGED <<free, pend, next, sq, cq>>
  BY DEF ring, nic
<1>2. wk' \in [Workers -> WorkerRecs] /\ wk'[w] = r /\ \A v \in Workers : v # w => wk'[v] = wk[v]
  BY DEF IndInv, Typed, Goto
<1>3. Typed' /\ OnConn'
  BY <1>1, <1>2 DEF IndInv, Typed, OnConn
<1>4. \A d \in Conns : SameConn(d)
  BY <1>1, <1>2 DEF SameConn, SameFills, Fills
<1> QED
  BY <1>3, <1>4, StaysSound DEF IndInv

\* The worker w goes to r, which is a record of its type.
LEMMA Goes ==
  ASSUME IndInv, NEW w \in Workers, NEW r \in WorkerRecs, Goto(w, r)
  PROVE  wk' \in [Workers -> WorkerRecs] /\ wk'[w] = r /\ \A v \in Workers : v # w => wk'[v] = wk[v]
  BY DEF IndInv, Typed, Goto

\* A Conn that is not Live has no worker on it that fills a buffer, if it is new.
LEMMA NobodyFillsNew ==
  ASSUME IndInv, NEW c \in Conns, st[c] = "new"
  PROVE  \A w \in Workers : ~Fills(wk, c, w)
  BY DEF IndInv, OnConn, Fills

\* Dial makes a Conn with a ring of its own.
LEMMA DialStep ==
  ASSUME IndInv, NEW w \in Workers, NEW c \in Conns, Dial(w, c)
  PROVE  IndInv'
<1> DEFINE r == At("emplace", wk[w].s, c, 0)
<1>1. /\ wk[w].pc = "dial" /\ wk[w].s \in Sends /\ Goto(w, r) /\ st[c] = "new"
      /\ st' = [st EXCEPT ![c] = "up"] /\ free' = [free EXCEPT ![c] = Bufs]
      /\ UNCHANGED <<outbound, pend, next, mem, sq, cq>>
  BY DEF Dial, SetupOutbound, WorkerAt, IndInv, OnConn, table, nic
<1>2. r \in WorkerRecs /\ r.pc = "emplace" /\ r.c = c /\ r.s = wk[w].s
  BY <1>1 DEF WorkerRecs, Places, At
<1> HIDE DEF r
<1>3. wk' \in [Workers -> WorkerRecs] /\ wk'[w] = r /\ \A v \in Workers : v # w => wk'[v] = wk[v]
  BY <1>1, <1>2, Goes
<1>4. Typed'
  BY <1>1, <1>3 DEF IndInv, Typed
<1>5. st'[c] = "up" /\ free'[c] = Bufs /\ \A d \in Conns : d # c => st'[d] = st[d] /\ free'[d] = free[d]
  BY <1>1 DEF IndInv, Typed
<1>6. OnConn'
  <2>1. \A d \in Conns : st[d] # "new" => st'[d] # "new"
    BY <1>5
  <2>2. outbound' # NoConn => st'[outbound'] # "new"
    BY <1>1, <2>1 DEF IndInv, OnConn, Typed
  <2>3. \A v \in Workers :
          /\ wk'[v].pc \in {"emplace", "acquire", "post"} => wk'[v].c \in Conns /\ st'[wk'[v].c] # "new"
          /\ wk'[v].pc # "idle" => wk'[v].s \in Sends
    <3> TAKE v \in Workers
    <3>1. CASE v = w
      BY <1>1, <1>2, <1>3, <1>5, <3>1
    <3>2. CASE v # w
      BY <1>3, <2>1, <3>2 DEF IndInv, OnConn
    <3> QED
      BY <3>1, <3>2
  <2> QED
    BY <2>2, <2>3 DEF OnConn
<1>7. \A d \in Conns : SameFills(d, wk, wk')
  BY <1>1, <1>2, <1>3 DEF SameFills, Fills
<1>8. Good(c, Bufs, {}, {}, mem[c], wk')
  BY <1>1, <1>7, NobodyFillsNew, GoodStart DEF SameFills
<1>9. Sound(c)'
  <2>1. pend[c] = {} /\ sq[c] = <<>> /\ cq[c] = <<>>
    BY <1>1 DEF IndInv, Sound, Live
  <2>2. Held(<<>>, <<>>) = {} /\ Once(<<>>, <<>>)
    BY EmptyDomain DEF Held, Once
  <2>3. /\ Good(c, free'[c], pend'[c], Held(sq'[c], cq'[c]), mem'[c], wk') /\ Once(sq'[c], cq'[c])
        /\ pend'[c] = {}
    BY <1>1, <1>5, <1>8, <2>1, <2>2, ZenonT(40)
  <2> QED
    BY <1>5, <2>3 DEF Sound, Live
<1>10. \A d \in Conns \ {c} : SameConn(d)
  BY <1>1, <1>5, <1>7 DEF SameConn
<1> QED
  BY <1>4, <1>6, <1>9, <1>10, TouchesOne

\* Send takes a buffer out of free_send and enters its wr_id in pending.
LEMMA AcquireStep ==
  ASSUME IndInv, NEW w \in Workers, AcquireBuffer(w)
  PROVE  IndInv'
<1>c. PICK c \in Conns, s \in Sends : c = wk[w].c /\ s = wk[w].s
  BY DEF AcquireBuffer, WorkerAt, IndInv, OnConn
<1>1. /\ wk[w].pc = "acquire" /\ Live(c) /\ st[c] # "new"
      /\ UNCHANGED <<outbound, st, mem, sq, cq>>
  BY <1>c DEF AcquireBuffer, WorkerAt, IndInv, OnConn, Typed, Live, table, nic
<1>2. PICK b \in free[c] :
        /\ free' = [free EXCEPT ![c] = Taken(@, b)]
        /\ pend' = [pend EXCEPT ![c] = @ \cup {<<next[c] * WrShift + b, s>>}]
        /\ next' = [next EXCEPT ![c] = @ + 1]
        /\ Goto(w, At("post", s, c, next[c] * WrShift + b))
  BY <1>c, ZenonT(40) DEF AcquireBuffer
<1> DEFINE wr == next[c] * WrShift + b
           r == At("post", s, c, wr)
<1>3. next[c] \in Nat /\ b \in Bufs
  BY <1>1, <1>2 DEF IndInv, Typed
<1>4. wr \in Nat /\ BufOf(wr) = b
  BY <1>3, WrNamesBuffer
<1> HIDE DEF wr
<1>5. r \in WorkerRecs /\ r.pc = "post" /\ r.c = c /\ r.s = s /\ r.wr = wr
  BY <1>1, <1>4 DEF WorkerRecs, Places, At
<1>6. Goto(w, r)
  BY <1>2 DEF wr
<1>7. wk' \in [Workers -> WorkerRecs] /\ wk'[w] = r /\ \A v \in Workers : v # w => wk'[v] = wk[v]
  BY <1>5, <1>6, Goes
<1>8. /\ free'[c] = free[c] \ {b} /\ pend'[c] = pend[c] \cup {<<wr, s>>}
      /\ \A d \in Conns : d # c => free'[d] = free[d] /\ pend'[d] = pend[d]
  BY <1>1, <1>2 DEF IndInv, Typed, Taken, wr
<1>9. Typed'
  <2>1. free' \in [Conns -> SUBSET Bufs]
    BY <1>1, <1>2 DEF IndInv, Typed, Taken
  <2>2. <<wr, s>> \in Nat \X Sends
    BY <1>1, <1>4
  <2>3. pend' \in [Conns -> SUBSET (Nat \X Sends)]
    BY <1>1, <1>2, <2>2 DEF IndInv, Typed, wr
  <2>4. next' \in [Conns -> Nat]
    <3>1. next \in [Conns -> Nat] /\ next[c] + 1 \in Nat
      BY <1>3, Sums, ZenonT(40) DEF IndInv, Typed
    <3> QED
      BY <1>1, <1>2, <3>1, ZenonT(40)
  <2> QED
    BY <1>1, <1>7, <2>1, <2>3, <2>4 DEF IndInv, Typed
<1>10. OnConn'
  BY <1>c, <1>1, <1>5, <1>7 DEF IndInv, OnConn
<1>11. Good(c, free'[c], pend'[c], Held(sq[c], cq[c]), mem[c], wk') /\ Once(sq[c], cq[c])
  <2>1. Good(c, free[c], pend[c], Held(sq[c], cq[c]), mem[c], wk) /\ Once(sq[c], cq[c])
    BY <1>1, LiveIsGood, ZenonT(40)
  <2>2. ~Fills(wk, c, w) /\ Fills(wk', c, w) /\ wk'[w].wr = wr /\ wk'[w].s = s
    BY <1>1, <1>5, <1>7 DEF Fills
  <2>3. Good(c, free[c] \ {b}, pend[c] \cup {<<wr, s>>}, Held(sq[c], cq[c]), mem[c], wk')
    <3>1. BufOf(wk'[w].wr) \in free[c] /\ wk'[w].wr \in Nat /\ wk'[w].s \in Sends
      BY <1>4, <2>2, ZenonT(40)
    <3>2. Good(c, free[c] \ {BufOf(wk'[w].wr)}, pend[c] \cup {<<wk'[w].wr, wk'[w].s>>},
               Held(sq[c], cq[c]), mem[c], wk')
      BY <1>7, <2>1, <2>2, <3>1, GoodTakes, ZenonT(40)
    <3> QED
      BY <1>4, <2>2, <3>2, ZenonT(40)
  <2> QED
    BY <1>8, <2>1, <2>3, ZenonT(40)
<1>12. \A d \in Conns \ {c} : SameFills(d, wk, wk')
  BY <1>1, <1>5, <1>7 DEF SameFills, Fills
<1>13. \A d \in Conns \ {c} : SameConn(d)
  BY <1>1, <1>8, <1>12 DEF SameConn
<1>14. Sound(c)'
  BY <1>1, <1>11 DEF Sound, Live
<1> QED
  BY <1>9, <1>10, <1>13, <1>14, TouchesOne

-----------------------------------------------------------------------------
(***************************************************************************)
(* The other steps of Send, the adapter's and PollOutbound's.              *)
(***************************************************************************)
\* A worker that leaves its buffer: it waits, and fills no buffer any more.
LEMMA LeavesBuffer ==
  ASSUME IndInv, NEW w \in Workers, NEW c \in Conns, NEW s \in Sends, wk[w].c = c, wk[w].pc = "post",
         Goto(w, At("await", s, c, 0)), UNCHANGED <<outbound, st>>
  PROVE  /\ wk' \in [Workers -> WorkerRecs] /\ OnConn'
         /\ ~Fills(wk', c, w) /\ \A v \in Workers : v # w => wk'[v] = wk[v]
         /\ \A d \in Conns \ {c} : SameFills(d, wk, wk')
<1> DEFINE r == At("await", s, c, 0)
<1>1. r \in WorkerRecs /\ r.pc = "await" /\ r.s = s
  BY DEF WorkerRecs, Places, At
<1> HIDE DEF r
<1>2. wk' \in [Workers -> WorkerRecs] /\ wk'[w] = r /\ \A v \in Workers : v # w => wk'[v] = wk[v]
  BY <1>1, Goes DEF r
<1>3. OnConn'
  BY <1>1, <1>2 DEF IndInv, OnConn
<1> QED
  BY <1>1, <1>2, <1>3 DEF SameFills, Fills

\* Send fills its buffer and posts it.
LEMMA PostStep ==
  ASSUME IndInv, NEW w \in Workers, PostSend(w)
  PROVE  IndInv'
<1>0. wk[w].pc = "post" /\ st[wk[w].c] # "freed"
  BY DEF PostSend, WorkerAt
<1>1. PICK c \in Conns, s \in Sends : c = wk[w].c /\ s = wk[w].s /\ Live(c) /\ st[c] # "new"
  BY <1>0, OnItsConn
<1>2. PICK wr \in Nat : wr = wk[w].wr
  BY <1>0, OnItsConn
<1>3. /\ wk[w].pc = "post"
      /\ UNCHANGED <<outbound, st, free, pend, next>>
      /\ mem' = [mem EXCEPT ![c][BufOf(wr)] = s]
      /\ Goto(w, At("await", s, c, 0))
  BY <1>0, <1>1, <1>2 DEF PostSend, Fill, table, ring
<1>4. \/ sq' = [sq EXCEPT ![c] = Append(@, wr)] /\ UNCHANGED cq
      \/ cq' = [cq EXCEPT ![c] = Append(@, Error(wr))] /\ UNCHANGED sq
  BY <1>1, <1>2 DEF PostSend, Error
<1>5. /\ wk' \in [Workers -> WorkerRecs] /\ OnConn'
      /\ ~Fills(wk', c, w) /\ \A v \in Workers : v # w => wk'[v] = wk[v]
      /\ \A d \in Conns \ {c} : SameFills(d, wk, wk')
  BY <1>1, <1>3, LeavesBuffer
<1>6. /\ Good(c, free[c], pend[c], Held(sq[c], cq[c]), mem[c], wk) /\ Once(sq[c], cq[c])
      /\ Fills(wk, c, w)
  BY <1>1, <1>3, LiveIsGood, ZenonT(40) DEF Fills
<1>7. /\ wr \notin Held(sq[c], cq[c]) /\ BufOf(wr) \in Bufs
      /\ sq[c] \in Seq(Nat) /\ cq[c] \in Seq(Recs) /\ mem[c] \in [Bufs -> Sends \cup {NoBlock}]
  <2>1. wr \notin Held(sq[c], cq[c]) /\ BufOf(wr) \in Bufs
    BY <1>2, <1>6, Filled, ZenonT(40)
  <2> QED
    BY <2>1, ConnTypes, ZenonT(40)
<1>8. /\ mem' \in [Conns -> [Bufs -> Sends \cup {NoBlock}]]
      /\ mem'[c] = [mem[c] EXCEPT ![BufOf(wr)] = s] /\ \A d \in Conns : d # c => mem'[d] = mem[d]
  BY <1>3, <1>7 DEF IndInv, Typed
<1>9. /\ sq' \in [Conns -> Seq(Nat)] /\ cq' \in [Conns -> Seq(Recs)]
      /\ \A d \in Conns : d # c => sq'[d] = sq[d] /\ cq'[d] = cq[d]
      /\ Once(sq'[c], cq'[c]) /\ Held(sq'[c], cq'[c]) = Held(sq[c], cq[c]) \cup {wr}
  <2> DEFINE Moves(T, D) ==
               /\ Once(T, D) /\ Held(T, D) = Held(sq[c], cq[c]) \cup {wr}
               /\ sq' = [sq EXCEPT ![c] = T] /\ cq' = [cq EXCEPT ![c] = D]
  <2>1. PICK T \in Seq(Nat), D \in Seq(Recs) : Moves(T, D)
    <3>1. sq \in [Conns -> Seq(Nat)] /\ cq \in [Conns -> Seq(Recs)]
      BY DEF IndInv, Typed
    <3>2. CASE sq' = [sq EXCEPT ![c] = Append(@, wr)] /\ UNCHANGED cq
      <4>1. cq' = [cq EXCEPT ![c] = cq[c]]
        BY <3>1, <3>2
      <4>2. /\ Append(sq[c], wr) \in Seq(Nat) /\ Once(Append(sq[c], wr), cq[c])
            /\ Held(Append(sq[c], wr), cq[c]) = Held(sq[c], cq[c]) \cup {wr}
        BY <1>6, <1>7, SendQueued, ZenonT(40)
      <4>3. Moves(Append(sq[c], wr), cq[c])
        BY <3>2, <4>1, <4>2, ZenonT(40)
      <4> HIDE DEF Moves
      <4> QED
        BY <1>7, <4>2, <4>3, ZenonT(40)
    <3>3. CASE cq' = [cq EXCEPT ![c] = Append(@, Error(wr))] /\ UNCHANGED sq
      <4>1. sq' = [sq EXCEPT ![c] = sq[c]]
        BY <3>1, <3>3
      <4>2. /\ Append(cq[c], Error(wr)) \in Seq(Recs) /\ Once(sq[c], Append(cq[c], Error(wr)))
            /\ Held(sq[c], Append(cq[c], Error(wr))) = Held(sq[c], cq[c]) \cup {wr}
        BY <1>6, <1>7, ErrorQueued, ZenonT(40)
      <4>3. Moves(sq[c], Append(cq[c], Error(wr)))
        BY <3>3, <4>1, <4>2, ZenonT(40)
      <4> HIDE DEF Moves
      <4> QED
        BY <1>7, <4>2, <4>3, ZenonT(40)
    <3> QED
      BY <1>4, <3>2, <3>3
  <2> QED
    BY <2>1 DEF IndInv, Typed
<1>10. Typed'
  BY <1>3, <1>5, <1>8, <1>9 DEF IndInv, Typed
<1>11. Good(c, free[c], pend[c], Held(sq'[c], cq'[c]), mem'[c], wk')
  <2>1. Good(c, free[c], pend[c], Held(sq[c], cq[c]) \cup {wk[w].wr},
             [mem[c] EXCEPT ![BufOf(wk[w].wr)] = wk[w].s], wk')
    BY <1>5, <1>6, <1>7, GoodPost, ZenonT(40)
  <2> QED
    BY <1>1, <1>2, <1>8, <1>9, <2>1, ZenonT(40)
<1>12. Sound(c)'
  BY <1>1, <1>3, <1>9, <1>11 DEF Sound, Live
<1>13. \A d \in Conns \ {c} : SameConn(d)
  BY <1>3, <1>5, <1>8, <1>9, ZenonT(40) DEF SameConn
<1> QED
  BY <1>5, <1>10, <1>12, <1>13, TouchesOne

\* Send fills its buffer, the post is refused, and Send gives the buffer back.
LEMMA PostFailsStep ==
  ASSUME IndInv, NEW w \in Workers, PostFails(w)
  PROVE  IndInv'
<1>0. wk[w].pc = "post" /\ st[wk[w].c] # "freed"
  BY DEF PostFails, WorkerAt
<1>1. PICK c \in Conns, s \in Sends : c = wk[w].c /\ s = wk[w].s /\ Live(c) /\ st[c] # "new"
  BY <1>0, OnItsConn
<1>2. PICK wr \in Nat : wr = wk[w].wr
  BY <1>0, OnItsConn
<1>3. /\ wk[w].pc = "post"
      /\ UNCHANGED <<outbound, st, next, sq, cq>>
      /\ mem' = [mem EXCEPT ![c][BufOf(wr)] = s]
      /\ pend' = [pend EXCEPT ![c] = @ \ {<<wr, s>>}]
      /\ free' = [free EXCEPT ![c] = @ \cup {BufOf(wr)}]
      /\ Goto(w, At("await", s, c, 0))
  BY <1>0, <1>1, <1>2 DEF PostFails, Fill, GivenBack, table, nic
<1>5. /\ wk' \in [Workers -> WorkerRecs] /\ OnConn'
      /\ ~Fills(wk', c, w) /\ \A v \in Workers : v # w => wk'[v] = wk[v]
      /\ \A d \in Conns \ {c} : SameFills(d, wk, wk')
  BY <1>1, <1>3, LeavesBuffer
<1>6. /\ Good(c, free[c], pend[c], Held(sq[c], cq[c]), mem[c], wk) /\ Once(sq[c], cq[c])
      /\ Fills(wk, c, w)
  BY <1>1, <1>3, LiveIsGood, ZenonT(40) DEF Fills
<1>7. BufOf(wr) \in Bufs /\ mem[c] \in [Bufs -> Sends \cup {NoBlock}]
  <2>1. BufOf(wr) \in Bufs
    BY <1>2, <1>6, Filled, ZenonT(40)
  <2> QED
    BY <2>1, ConnTypes, ZenonT(40)
<1>8. /\ mem' \in [Conns -> [Bufs -> Sends \cup {NoBlock}]]
      /\ mem'[c] = [mem[c] EXCEPT ![BufOf(wr)] = s] /\ \A d \in Conns : d # c => mem'[d] = mem[d]
  BY <1>3, <1>7 DEF IndInv, Typed
<1>9. /\ pend' \in [Conns -> SUBSET (Nat \X Sends)] /\ free' \in [Conns -> SUBSET Bufs]
      /\ pend'[c] = pend[c] \ {<<wr, s>>} /\ free'[c] = free[c] \cup {BufOf(wr)}
      /\ \A d \in Conns : d # c => pend'[d] = pend[d] /\ free'[d] = free[d]
  BY <1>3, <1>7 DEF IndInv, Typed
<1>10. Typed'
  BY <1>3, <1>5, <1>8, <1>9 DEF IndInv, Typed
<1>11. Good(c, free'[c], pend'[c], Held(sq[c], cq[c]), mem'[c], wk')
  <2>1. Good(c, free[c] \cup {BufOf(wk[w].wr)}, pend[c] \ {<<wk[w].wr, wk[w].s>>},
             Held(sq[c], cq[c]), [mem[c] EXCEPT ![BufOf(wk[w].wr)] = wk[w].s], wk')
    BY <1>5, <1>6, <1>7, GoodFails, ZenonT(40)
  <2> QED
    BY <1>1, <1>2, <1>8, <1>9, <2>1, ZenonT(40)
<1>12. Sound(c)'
  BY <1>1, <1>3, <1>6, <1>11 DEF Sound, Live
<1>13. \A d \in Conns \ {c} : SameConn(d)
  BY <1>3, <1>5, <1>8, <1>9, ZenonT(40) DEF SameConn
<1> QED
  BY <1>5, <1>10, <1>12, <1>13, TouchesOne

\* A step of the adapter on a live Conn: only its two queues change.
LEMMA AdapterStep ==
  ASSUME IndInv, NEW c \in Conns, Live(c), UNCHANGED <<wk, outbound, free, pend, next, mem>>,
         st' \in [Conns -> {"new", "up", "down", "freed"}],
         \A d \in Conns : st'[d] = st[d] \/ (d = c /\ st'[d] = "down"),
         NEW T \in Seq(Nat), NEW D \in Seq(Recs),
         sq' = [sq EXCEPT ![c] = T], cq' = [cq EXCEPT ![c] = D],
         Once(T, D), Held(T, D) = Held(sq[c], cq[c])
  PROVE  IndInv'
<1>1. /\ sq' \in [Conns -> Seq(Nat)] /\ cq' \in [Conns -> Seq(Recs)] /\ sq'[c] = T /\ cq'[c] = D
      /\ \A d \in Conns : d # c => sq'[d] = sq[d] /\ cq'[d] = cq[d]
  BY DEF IndInv, Typed
<1>2. Typed'
  BY <1>1 DEF IndInv, Typed
<1>3. \A d \in Conns : st[d] # "new" => st'[d] # "new"
  OBVIOUS
<1>4. OnConn'
  BY <1>3 DEF IndInv, OnConn, Typed
<1>5. Good(c, free[c], pend[c], Held(T, D), mem[c], wk)
  BY DEF IndInv, Sound
<1>6. Sound(c)'
  BY <1>1, <1>5 DEF Sound, Live
<1>7. \A d \in Conns \ {c} : SameConn(d)
  BY <1>1 DEF SameConn, SameFills
<1> QED
  BY <1>2, <1>4, <1>6, <1>7, TouchesOne

\* The adapter delivers the first send and queues its completion.
LEMMA TransmitStep ==
  ASSUME IndInv, NEW c \in Conns, Transmit(c)
  PROVE  IndInv'
<1> DEFINE T == Tail(sq[c])
           D == Append(cq[c], [wr |-> Head(sq[c]), ok |-> TRUE])
<1>1. /\ st[c] = "up" /\ sq[c] # <<>> /\ UNCHANGED <<wk, outbound, st, free, pend, next, mem>>
      /\ sq' = [sq EXCEPT ![c] = T] /\ cq' = [cq EXCEPT ![c] = D]
  BY DEF Transmit, CanLand, table, ring
<1>2. Live(c) /\ sq[c] \in Seq(Nat) /\ cq[c] \in Seq(Recs)
  BY <1>1 DEF Live, IndInv, Typed
<1>3. Once(sq[c], cq[c])
  BY <1>2 DEF IndInv, Sound
<1>4. T \in Seq(Nat) /\ D \in Seq(Recs) /\ Once(T, D) /\ Held(T, D) = Held(sq[c], cq[c])
  BY <1>1, <1>2, <1>3, Delivered, ZenonT(40)
<1> HIDE DEF T, D
<1>5. st' \in [Conns -> {"new", "up", "down", "freed"}] /\ \A d \in Conns : st'[d] = st[d]
  BY <1>1 DEF IndInv, Typed
<1> QED
  BY <1>1, <1>2, <1>4, <1>5, AdapterStep, ZenonT(40)

\* The link breaks: every queued send completes with an error.
LEMMA BreakStep ==
  ASSUME IndInv, NEW c \in Conns, Break(c)
  PROVE  IndInv'
<1> DEFINE D == cq[c] \o [i \in 1 .. Len(sq[c]) |-> [wr |-> sq[c][i], ok |-> FALSE]]
<1>1. /\ st[c] = "up" /\ UNCHANGED <<wk, outbound, free, pend, next, mem>>
      /\ st' = [st EXCEPT ![c] = "down"]
      /\ sq' = [sq EXCEPT ![c] = <<>>] /\ cq' = [cq EXCEPT ![c] = D]
  BY DEF Break, table, ring
<1>2. Live(c) /\ sq[c] \in Seq(Nat) /\ cq[c] \in Seq(Recs)
  BY <1>1 DEF Live, IndInv, Typed
<1>3. Once(sq[c], cq[c])
  BY <1>2 DEF IndInv, Sound
<1>4. D \in Seq(Recs) /\ Once(<<>>, D) /\ Held(<<>>, D) = Held(sq[c], cq[c])
  BY <1>2, <1>3, Flushed, ZenonT(40)
<1> HIDE DEF D
<1>5. /\ st' \in [Conns -> {"new", "up", "down", "freed"}]
      /\ \A d \in Conns : st'[d] = st[d] \/ (d = c /\ st'[d] = "down")
  BY <1>1 DEF IndInv, Typed
<1>6. <<>> \in Seq(Nat)
  BY EmptyQueue
<1> QED
  BY <1>1, <1>2, <1>4, <1>5, <1>6, AdapterStep, ZenonT(40)

\* PollOutbound takes a completion: its buffer comes free and its wr_id leaves pending.
LEMMA PollStep ==
  ASSUME IndInv, NEW c \in Conns, PollOutbound(c)
  PROVE  IndInv'
<1> DEFINE D == Tail(cq[c])
           h == Head(cq[c])
<1>1. /\ cq[c] # <<>> /\ UNCHANGED <<wk, outbound, st, next, mem, sq>>
      /\ cq' = [cq EXCEPT ![c] = D]
      /\ pend' = [pend EXCEPT ![c] = @ \ Completed(c, h)]
      /\ free' = [free EXCEPT ![c] = @ \cup {BufOf(x[1]) : x \in Completed(c, h)}]
  BY DEF PollOutbound, table
<1>2. /\ Live(c) /\ sq[c] \in Seq(Nat) /\ cq[c] \in Seq(Recs) /\ st[c] # "new"
      /\ Good(c, free[c], pend[c], Held(sq[c], cq[c]), mem[c], wk) /\ Once(sq[c], cq[c])
  BY <1>1 DEF Live, IndInv, Sound, Typed
<1>4. /\ D \in Seq(Recs) /\ Once(sq[c], D) /\ h.wr \in Held(sq[c], cq[c])
      /\ Held(sq[c], D) = Held(sq[c], cq[c]) \ {h.wr}
  BY <1>1, <1>2, CompletionTaken
<1> HIDE DEF D, h
<1>5. PICK x \in pend[c] : x[1] = h.wr
  BY <1>2, <1>4 DEF Good, Placed
<1>6. Completed(c, h) = {x}
  <2>0. Ring(free[c], pend[c])
    BY <1>2 DEF Good
  <2>1. \A y \in pend[c] : y[1] = x[1] => y = x
    BY <2>0, RingGives, ZenonT(40)
  <2> QED
    BY <1>5, <2>1 DEF Completed
<1>7. BufOf(x[1]) \in Bufs
  BY <1>2 DEF Good, Ring
<1>8. /\ pend' = [pend EXCEPT ![c] = @ \ {x}]
      /\ free' = [free EXCEPT ![c] = @ \cup {BufOf(x[1])}]
  BY <1>1, <1>6, ZenonT(40)
<1>9. /\ pend'[c] = pend[c] \ {x} /\ free'[c] = free[c] \cup {BufOf(x[1])} /\ cq'[c] = D
      /\ \A d \in Conns : d # c => pend'[d] = pend[d] /\ free'[d] = free[d] /\ cq'[d] = cq[d]
      /\ pend' \in [Conns -> SUBSET (Nat \X Sends)] /\ free' \in [Conns -> SUBSET Bufs]
      /\ cq' \in [Conns -> Seq(Recs)]
  <2>1. cq'[c] = D /\ cq' \in [Conns -> Seq(Recs)] /\ \A d \in Conns : d # c => cq'[d] = cq[d]
    BY <1>1, <1>4 DEF IndInv, Typed
  <2>2. /\ pend'[c] = pend[c] \ {x} /\ pend' \in [Conns -> SUBSET (Nat \X Sends)]
        /\ \A d \in Conns : d # c => pend'[d] = pend[d]
    BY <1>8 DEF IndInv, Typed
  <2>3. /\ free'[c] = free[c] \cup {BufOf(x[1])} /\ free' \in [Conns -> SUBSET Bufs]
        /\ \A d \in Conns : d # c => free'[d] = free[d]
    BY <1>7, <1>8 DEF IndInv, Typed
  <2> QED
    BY <2>1, <2>2, <2>3
<1>10. Typed' /\ OnConn'
  BY <1>1, <1>9 DEF IndInv, Typed, OnConn
<1>11. Good(c, free'[c], pend'[c], Held(sq'[c], cq'[c]), mem'[c], wk')
  <2>1. Good(c, free[c] \cup {BufOf(x[1])}, pend[c] \ {x}, Held(sq[c], cq[c]) \ {x[1]}, mem[c], wk)
    BY <1>2, <1>4, <1>5, GoodPoll, ZenonT(40)
  <2> QED
    BY <1>1, <1>4, <1>5, <1>9, <2>1, ZenonT(40)
<1>12. Sound(c)'
  BY <1>1, <1>2, <1>4, <1>9, <1>11 DEF Sound, Live
<1>13. \A d \in Conns \ {c} : SameConn(d)
  BY <1>1, <1>9 DEF SameConn, SameFills
<1> QED
  BY <1>10, <1>12, <1>13, TouchesOne

-----------------------------------------------------------------------------
(***************************************************************************)
(* Shutdown, and the theorems.                                             *)
(***************************************************************************)
\* Shutdown frees the Conn in outbound.
LEMMA TeardownStep ==
  ASSUME IndInv, Teardown, outbound \in Conns
  PROVE  IndInv'
<1>1. PICK c \in Conns : c = outbound
  OBVIOUS
<1>2. /\ outbound' = NoConn /\ st' = [st EXCEPT ![c] = "freed"]
      /\ sq' = [sq EXCEPT ![c] = <<>>] /\ cq' = [cq EXCEPT ![c] = <<>>]
      /\ UNCHANGED <<wk, free, pend, next, mem>>
  BY <1>1 DEF Teardown, ring
<1>3. <<>> \in Seq(Nat) /\ <<>> \in Seq(Recs)
  BY EmptyQueue
<1>4. /\ st'[c] = "freed" /\ sq'[c] = <<>> /\ cq'[c] = <<>>
      /\ \A d \in Conns : d # c => st'[d] = st[d] /\ sq'[d] = sq[d] /\ cq'[d] = cq[d]
      /\ sq' \in [Conns -> Seq(Nat)] /\ cq' \in [Conns -> Seq(Recs)]
      /\ st' \in [Conns -> {"new", "up", "down", "freed"}]
  BY <1>2, <1>3 DEF IndInv, Typed
<1>5. Typed'
  BY <1>2, <1>4 DEF IndInv, Typed
<1>6. OnConn'
  BY <1>2, <1>4 DEF IndInv, OnConn
<1>7. Sound(c)'
  BY <1>4 DEF Sound, Live
<1>8. \A d \in Conns \ {c} : SameConn(d)
  BY <1>2, <1>4 DEF SameConn, SameFills
<1> QED
  BY <1>5, <1>6, <1>7, <1>8, TouchesOne

-----------------------------------------------------------------------------
\* At the start no Conn was dialed.
LEMMA IndInvInit == Init => IndInv
<1> SUFFICES ASSUME Init
             PROVE  IndInv
  OBVIOUS
<1>1. Idle \in WorkerRecs /\ Idle.pc = "idle"
  BY DEF Idle, At, WorkerRecs, Places
<1>2. <<>> \in Seq(Nat) /\ <<>> \in Seq(Recs)
  BY EmptyQueue
<1>3. Typed
  BY <1>1, <1>2 DEF Init, Typed
<1>4. OnConn
  BY <1>1 DEF Init, OnConn
<1> QED
  BY <1>3, <1>4 DEF IndInv, Sound, Init, Live

\* Every step keeps the invariant.
LEMMA IndInvStep == IndInv /\ [Next]_vars => IndInv'
<1> SUFFICES ASSUME IndInv, [Next]_vars
             PROVE  IndInv'
  OBVIOUS
<1> USE DEF WorkerAt
<1>t. /\ wk \in [Workers -> WorkerRecs] /\ outbound \in Conns \cup {NoConn}
      /\ outbound # NoConn => st[outbound] # "new"
      /\ \A w \in Workers : wk[w].pc # "idle" => wk[w].s \in Sends
  BY DEF IndInv, Typed, OnConn
<1>1. ASSUME NEW w \in Workers, StartSend(w)
      PROVE  IndInv'
  <2>1. PICK s \in Sends :
          Goto(w, At(IF outbound = NoConn THEN "dialmu" ELSE "acquire", s, outbound, 0))
    BY <1>1 DEF StartSend
  <2> DEFINE r == At(IF outbound = NoConn THEN "dialmu" ELSE "acquire", s, outbound, 0)
  <2>2. /\ r \in WorkerRecs /\ r.pc # "post" /\ r.s \in Sends
        /\ r.pc \in {"emplace", "acquire"} => r.c \in Conns /\ st[r.c] # "new"
    BY <1>t DEF WorkerRecs, Places, At
  <2>3. wk[w].pc # "post" /\ UNCHANGED <<outbound, st, ring, mem, nic>>
    BY <1>1 DEF StartSend, table
  <2> HIDE DEF r
  <2>4. Goto(w, r)
    BY <2>1 DEF r
  <2> QED
    BY <1>t, <2>2, <2>3, <2>4, Walks
<1>2. ASSUME NEW w \in Workers, TooLarge(w)
      PROVE  IndInv'
  <2>1. PICK s \in Sends : Goto(w, At("await", s, NoConn, 0))
    BY <1>2 DEF TooLarge
  <2>2. /\ At("await", s, NoConn, 0) \in WorkerRecs
        /\ At("await", s, NoConn, 0).pc = "await" /\ At("await", s, NoConn, 0).s \in Sends
    BY DEF WorkerRecs, Places, At
  <2>3. wk[w].pc # "post" /\ UNCHANGED <<outbound, st, ring, mem, nic>>
    BY <1>2 DEF TooLarge, table
  <2> QED
    BY <1>t, <2>1, <2>2, <2>3, Walks
<1>3. ASSUME NEW w \in Workers, Recheck(w)
      PROVE  IndInv'
  <2>1. wk[w].pc # "post" /\ wk[w].s \in Sends /\ UNCHANGED <<outbound, st, ring, mem, nic>>
    BY <1>t, <1>3 DEF Recheck
  <2>2. CASE outbound = NoConn
    <3> DEFINE r == At("dial", wk[w].s, NoConn, 0)
    <3>1. r \in WorkerRecs /\ r.pc = "dial" /\ r.s \in Sends
      BY <2>1 DEF WorkerRecs, Places, At
    <3>2. Goto(w, r)
      BY <1>3, <2>2 DEF Recheck
    <3> HIDE DEF r
    <3> QED
      BY <1>t, <2>1, <3>1, <3>2, Walks
  <2>3. CASE outbound # NoConn
    <3> DEFINE r == At("acquire", wk[w].s, outbound, 0)
    <3>1. r \in WorkerRecs /\ r.pc = "acquire" /\ r.s \in Sends /\ r.c \in Conns /\ st[r.c] # "new"
      BY <1>t, <2>1, <2>3 DEF WorkerRecs, Places, At
    <3>2. Goto(w, r)
      BY <1>3, <2>3 DEF Recheck
    <3> HIDE DEF r
    <3> QED
      BY <1>t, <2>1, <3>1, <3>2, Walks
  <2> QED
    BY <2>2, <2>3
<1>4. ASSUME NEW w \in Workers, DialRefused(w) \/ UseAfterTeardown(w)
      PROVE  IndInv'
  BY <1>4, Quiet DEF DialRefused, UseAfterTeardown
<1>5. ASSUME NEW w \in Workers, Emplace(w)
      PROVE  IndInv'
  <2> DEFINE r == At("acquire", wk[w].s, wk[w].c, 0)
  <2>1. /\ wk[w].pc # "post" /\ wk[w].s \in Sends /\ wk[w].c \in Conns /\ st[wk[w].c] # "new"
        /\ outbound' = wk[w].c /\ Goto(w, r) /\ UNCHANGED <<st, ring, mem, nic>>
    BY <1>t, <1>5 DEF Emplace, IndInv, OnConn
  <2>2. r \in WorkerRecs /\ r.pc = "acquire" /\ r.s \in Sends /\ r.c \in Conns /\ st[r.c] # "new"
    BY <2>1 DEF WorkerRecs, Places, At
  <2> HIDE DEF r
  <2> QED
    BY <2>1, <2>2, Walks
<1>6. ASSUME NEW w \in Workers, GiveUp(w)
      PROVE  IndInv'
  <2> DEFINE r == At("await", wk[w].s, NoConn, 0)
  <2>1. /\ wk[w].pc # "post" /\ wk[w].s \in Sends
        /\ Goto(w, r) /\ UNCHANGED <<outbound, st, ring, mem, nic>>
    BY <1>t, <1>6 DEF GiveUp
  <2>2. r \in WorkerRecs /\ r.pc = "await" /\ r.s \in Sends
    BY <2>1 DEF WorkerRecs, Places, At
  <2> HIDE DEF r
  <2> QED
    BY <1>t, <2>1, <2>2, Walks
<1>7. ASSUME NEW w \in Workers, FutureReady(w)
      PROVE  IndInv'
  <2>1. Idle \in WorkerRecs /\ Idle.pc = "idle"
    BY DEF Idle, At, WorkerRecs, Places
  <2>2. wk[w].pc # "post" /\ Goto(w, Idle) /\ UNCHANGED <<outbound, st, ring, mem, nic>>
    BY <1>7 DEF FutureReady, table
  <2> QED
    BY <1>t, <2>1, <2>2, Walks
<1>8. ASSUME NEW w \in Workers, SendStep(w)
      PROVE  IndInv'
  BY <1>3, <1>4, <1>5, <1>6, <1>7, <1>8, DialStep, AcquireStep, PostStep, PostFailsStep DEF SendStep
<1>9. ASSUME NEW c \in Conns,
             \/ SetValue(c) \/ (\E how \in {"exited", "failed"} : PollerEnds(c, how))
             \/ PeerStep(c) \/ (\E how \in {"exited", "failed"} : InboundEnds(c, how))
      PROVE  IndInv'
  <2>1. UNCHANGED <<wk, outbound, st, ring, mem, nic>>
    BY <1>9 DEF SetValue, PollerEnds, PeerStep, PollInbound, HandleRecv, InboundEnds, table
  <2> QED
    BY <2>1, Quiet
<1>10. ASSUME Shutdown \/ Destroy
       PROVE  IndInv'
  <2>1. UNCHANGED <<wk, outbound, st, ring, mem, nic>>
    BY <1>10 DEF Shutdown, Destroy
  <2> QED
    BY <2>1, Quiet
<1>11. ASSUME Teardown
       PROVE  IndInv'
  <2>1. CASE outbound \in Conns
    BY <1>11, <2>1, TeardownStep
  <2>2. CASE outbound \notin Conns
    <3>1. st' = st /\ sq' = sq /\ cq' = cq
      <4>1. /\ st \in [Conns -> {"new", "up", "down", "freed"}] /\ sq \in [Conns -> Seq(Nat)]
            /\ cq \in [Conns -> Seq(Recs)]
        BY DEF IndInv, Typed
      <4> QED
        BY <1>11, <2>2, <4>1, TeardownOfNone, ZenonT(40)
    <3>2. outbound' = outbound /\ UNCHANGED <<wk, ring, mem>>
      BY <1>11, <1>t, <2>2 DEF Teardown
    <3> QED
      BY <3>1, <3>2, Quiet DEF nic
  <2> QED
    BY <2>1, <2>2
<1>12. ASSUME UNCHANGED vars
       PROVE  IndInv'
  <2>1. UNCHANGED <<wk, outbound, st, ring, mem, nic>>
    BY <1>12 DEF vars, table
  <2> QED
    BY <2>1, Quiet
<1>13. ASSUME NEW c \in Conns, PollerStep(c)
       PROVE  IndInv'
  BY <1>9, <1>13, PollStep DEF PollerStep
<1> QED
  BY <1>1, <1>2, <1>8, <1>9, <1>10, <1>11, <1>12, <1>13, TransmitStep, BreakStep DEF Next

\* The invariant of the send ring holds for any number of workers, buffers, messages and
\* connections: Send, the adapter, PollOutbound and Shutdown keep it.
THEOREM IndInvHolds == Spec => []IndInv
  BY IndInvInit, IndInvStep, PTL DEF Spec

\* What the adapter has, in the words of the model.
LEMMA PostedIsHeld == ASSUME NEW c \in Conns PROVE Posted(c) = Held(sq[c], cq[c])
  BY DEF Posted, Held, Range

\* What the invariant says of a live Conn, in the words of BuffersAccounted.
LEMMA GoodIsAccounted ==
  ASSUME IndInv, NEW c \in Conns, Live(c)
  PROVE  /\ free[c] \cup {BufOf(wr) : wr \in WrIds(c)} = Bufs
         /\ \A x, y \in pend[c] : BufOf(x[1]) = BufOf(y[1]) => x = y
         /\ \A x \in pend[c] : BufOf(x[1]) \notin free[c]
         /\ WrIds(c) = Posted(c) \cup {wk[w].wr : w \in Preparing(c)}
         /\ HeldOnce(c)
<1>1. /\ Ring(free[c], pend[c]) /\ Placed(c, pend[c], Held(sq[c], cq[c]), wk)
      /\ Once(sq[c], cq[c])
  BY DEF IndInv, Sound, Good
<1>2. free[c] \cup {BufOf(wr) : wr \in WrIds(c)} = Bufs
  BY <1>1, RingCovers, ZenonT(40) DEF WrIds
<1>3. Posted(c) = Held(sq[c], cq[c])
  BY PostedIsHeld
<1>4. \A w \in Workers : w \in Preparing(c) <=> Fills(wk, c, w)
  BY DEF Preparing, Fills
<1>5. WrIds(c) \subseteq Posted(c) \cup {wk[w].wr : w \in Preparing(c)}
  <2> SUFFICES ASSUME NEW x \in pend[c]
               PROVE  x[1] \in Posted(c) \cup {wk[w].wr : w \in Preparing(c)}
    BY ZenonT(40) DEF WrIds
  <2>1. x[1] \in Held(sq[c], cq[c]) \/ \E w \in Workers : Fills(wk, c, w) /\ wk[w].wr = x[1]
    BY <1>1 DEF Placed
  <2> QED
    BY <1>3, <1>4, <2>1, ZenonT(40)
<1>6. Posted(c) \subseteq WrIds(c)
  BY <1>1, <1>3, PlacedIsPending, ZenonT(40) DEF WrIds
<1>7. {wk[w].wr : w \in Preparing(c)} \subseteq WrIds(c)
  <2> SUFFICES ASSUME NEW w \in Workers, Fills(wk, c, w)
               PROVE  wk[w].wr \in WrIds(c)
    BY <1>4 DEF Preparing
  <2>1. <<wk[w].wr, wk[w].s>> \in pend[c] /\ <<wk[w].wr, wk[w].s>>[1] = wk[w].wr
    BY <1>1, ZenonT(40) DEF Placed
  <2> QED
    BY <2>1 DEF WrIds
<1>8. HeldOnce(c)
  BY <1>1 DEF Once, HeldOnce
<1> QED
  BY <1>1, <1>2, <1>5, <1>6, <1>7, <1>8 DEF Ring

\* Send and PollOutbound leak no send buffer and share none, whatever kMaxSendBuffers is
\* and however many workers send.
THEOREM BuffersAccountedHolds == Spec => []BuffersAccounted
<1>1. IndInv => BuffersAccounted
  BY GoodIsAccounted DEF BuffersAccounted
<1> QED
  BY <1>1, IndInvHolds, PTL

\* A buffer that the adapter may still read holds the message of its Send: the buffer comes
\* back to free_send only with the completion.
THEOREM PostedIsIntactHolds == Spec => []PostedIsIntact
<1>1. IndInv => PostedIsIntact
  <2> SUFFICES ASSUME IndInv, NEW c \in Conns, Live(c), NEW x \in pend[c], x[1] \in Posted(c)
               PROVE  mem[c][BufOf(x[1])] = x[2]
    BY DEF PostedIsIntact
  <2>1. Intact(pend[c], Held(sq[c], cq[c]), mem[c])
    BY DEF IndInv, Sound, Good
  <2> QED
    BY <2>1, PostedIsHeld DEF Intact
<1> QED
  BY <1>1, IndInvHolds, PTL

\* The facts that the arguments about dial_mu and the promises start from.
LEMMA RingGivesFacts == IndInv => RingFacts
<1> SUFFICES ASSUME IndInv
             PROVE  RingFacts
  OBVIOUS
<1>1. Typed /\ OnConn
  BY DEF IndInv
<1>2. ASSUME NEW c \in Conns, Live(c)
      PROVE  \A w \in Preparing(c) : <<wk[w].wr, wk[w].s>> \in pend[c] /\ wk[w].wr \notin Held(sq[c], cq[c])
  BY <1>2 DEF IndInv, Sound, Good, Placed, Preparing, Fills
<1>3. ASSUME NEW c \in Conns, cq[c] # <<>>
      PROVE  /\ Live(c) /\ Head(cq[c]).ok \in BOOLEAN
             /\ \A w \in Preparing(c) : wk[w].wr # Head(cq[c]).wr
  <2>1. Live(c) /\ Once(sq[c], cq[c]) /\ sq[c] \in Seq(Nat) /\ cq[c] \in Seq(Recs)
    BY <1>3 DEF IndInv, Sound, Typed
  <2>2. Head(cq[c]).wr \in Held(sq[c], cq[c])
    BY <1>3, <2>1, CompletionTaken
  <2>3. Head(cq[c]) \in Recs
    BY <1>3, <2>1, FirstAndRest, ZenonT(40)
  <2> QED
    BY <1>2, <2>1, <2>2, <2>3 DEF Recs
<1>4. \A c \in Conns : st[c] = "new" => pend[c] = {}
  BY DEF IndInv, Sound
<1> QED
  BY <1>1, <1>2, <1>3, <1>4 DEF RingFacts, Typed

\* dial_mu and the second look at the table keep two workers from dialing the same peer, for
\* any number of workers and of Conns over time: EnsureOutbound has one live Conn at most.
THEOREM OneConnPerPeerHolds == Spec => []OneConnPerPeer
<1>1. Init => DialOK
  BY DialInit
<1>2. DialOK => OneConnPerPeer
  BY IbverbsAssumption DEF DialOK, Dialing, OneConnPerPeer
<1> QED
  BY <1>1, <1>2, IndInvHolds, RingGivesFacts, DialOKStep, PTL DEF Spec

\* A promise that is unset has one owner throughout.
LEMMA OwnedHolds == Spec => [](Owned /\ Joining)
<1>1. Init => Owned /\ Joining
  <2> SUFFICES ASSUME Init
               PROVE  Owned /\ Joining
    OBVIOUS
  <2>1. \A w \in Workers : wk[w].pc = "idle"
    BY DEF Init, Idle, At
  <2>2. PromTyped /\ Joining /\ PromiseSetOnce
    BY DEF Init, PromTyped, PromiseStates, Joining, PromiseSetOnce
  <2>3. WorkersOwn /\ PendOwns /\ TookOwns
    BY <2>1 DEF Init, WorkersOwn, PendOwns, TookOwns, InSend
  <2> QED
    BY <2>2, <2>3 DEF Owned
<1> QED
  BY <1>1, IndInvHolds, RingGivesFacts, JoiningStep, OwnedStep, PTL DEF Spec

\* Whoever takes a promise out of pending is the only one to set it: Send's early returns,
\* its error path, PollOutbound and Shutdown never set one twice, however many workers send
\* and Conns come and go.
THEOREM PromiseSetOnceHolds == Spec => []PromiseSetOnce
<1>1. Owned => PromiseSetOnce
  BY DEF Owned
<1> QED
  BY <1>1, OwnedHolds, PTL

-----------------------------------------------------------------------------
(***************************************************************************)
(* The messages of a Conn, from ibv_post_send to on_receive.               *)
(***************************************************************************)
\* The receive buffers of a Conn that hold a message, and the messages that reached the peer.
Waiting(c) == Wait(rpoll[c], rcq[c])
Arrived(c) == Len(hist.got[c]) + Len(Waiting(c))
Reached(c, s) == Among(hist.posted[c], Arrived(c), s)

FlowTyped ==
  /\ hist \in [posted : [Conns -> Seq(Msgs)], got : [Conns -> Seq(Msgs)]]
  /\ rq \in [Conns -> Seq(Slots)] /\ rcq \in [Conns -> Seq(Slots)]
  /\ rmem \in [Conns -> [Slots -> Msgs]] /\ rpoll \in [Conns -> PeerRecs]

\* The messages of one Conn are in order; one that is not dialed has none.
Flow(c) ==
  /\ Stream(st[c], hist.posted[c], hist.got[c], Waiting(c), rq[c], rmem[c], sq[c], cq[c], mem[c])
  /\ st[c] = "new" => hist.posted[c] = <<>> /\ rpoll[c].pc # "handle"

FlowInv == FlowTyped /\ \A c \in Conns : Flow(c)

\* A step takes nothing back of what was posted or has reached the peer.
Grows(c) ==
  /\ Len(hist.posted[c]) <= Len(hist'.posted[c]) /\ Arrived(c) <= Arrived(c)'
  /\ \A i \in 1 .. Len(hist.posted[c]) : hist'.posted[c][i] = hist.posted[c][i]

\* A step leaves the messages of the Conn d alone.
SameFlow(d) ==
  /\ st'[d] = st[d] /\ sq'[d] = sq[d] /\ cq'[d] = cq[d] /\ mem'[d] = mem[d]
  /\ rq'[d] = rq[d] /\ rcq'[d] = rcq[d] /\ rmem'[d] = rmem[d] /\ rpoll'[d] = rpoll[d]
  /\ hist'.posted[d] = hist.posted[d] /\ hist'.got[d] = hist.got[d]

\* The types of one Conn's messages.
LEMMA FlowTypes ==
  ASSUME FlowInv, NEW c \in Conns
  PROVE  /\ hist.posted[c] \in Seq(Msgs) /\ hist.got[c] \in Seq(Msgs)
         /\ rq[c] \in Seq(Slots) /\ rcq[c] \in Seq(Slots) /\ rmem[c] \in [Slots -> Msgs]
         /\ rpoll[c] \in PeerRecs /\ (rpoll[c].pc = "handle" => rpoll[c].buf \in Slots)
         /\ Waiting(c) \in Seq(Slots) /\ Arrived(c) \in Nat /\ Arrived(c) <= Len(hist.posted[c])
<1>1. /\ hist.posted[c] \in Seq(Msgs) /\ hist.got[c] \in Seq(Msgs)
      /\ rq[c] \in Seq(Slots) /\ rcq[c] \in Seq(Slots) /\ rmem[c] \in [Slots -> Msgs]
      /\ rpoll[c] \in PeerRecs
  BY DEF FlowInv, FlowTyped
<1>2. Stream(st[c], hist.posted[c], hist.got[c], Waiting(c), rq[c], rmem[c], sq[c], cq[c], mem[c])
  BY DEF FlowInv, Flow
<1>3. Waiting(c) \in Seq(Slots) /\ Len(hist.got[c]) + Len(Waiting(c)) <= Len(hist.posted[c])
  BY <1>2 DEF Stream, StreamTypes, InOrder
<1>4. Len(hist.got[c]) + Len(Waiting(c)) \in Nat
  BY <1>1, <1>3, Lengths, Sums, ZenonT(40)
<1> QED
  BY <1>1, <1>3, <1>4 DEF PeerRecs, Arrived

\* A Conn that a step leaves alone takes nothing back.
LEMMA FlowStays ==
  ASSUME FlowInv, NEW c \in Conns
  PROVE  Arrived(c) <= Arrived(c) /\ Len(hist.posted[c]) <= Len(hist.posted[c])
<1>1. Arrived(c) \in Nat /\ Len(hist.posted[c]) \in Nat
  BY FlowTypes, Lengths, ZenonT(40)
<1> QED
  BY <1>1, StaysOrGrows, ZenonT(40)

\* A Conn whose messages a step leaves alone.
LEMMA SameFlowKept ==
  ASSUME FlowInv, NEW d \in Conns, SameFlow(d)
  PROVE  Flow(d)' /\ Grows(d)
<1>1. Waiting(d)' = Waiting(d) /\ Arrived(d)' = Arrived(d)
  BY DEF SameFlow, Waiting, Arrived
<1>2. Flow(d)
  BY DEF FlowInv
<1>3. Flow(d)'
  BY <1>1, <1>2 DEF SameFlow, Flow
<1>4. Arrived(d) <= Arrived(d) /\ Len(hist.posted[d]) <= Len(hist.posted[d])
  BY FlowStays, ZenonT(40)
<1> QED
  BY <1>1, <1>3, <1>4 DEF SameFlow, Grows

\* A step that touches the messages of one Conn at most.
LEMMA FlowOne ==
  ASSUME FlowInv, FlowTyped', NEW c \in Conns, Flow(c)', Grows(c), \A d \in Conns \ {c} : SameFlow(d)
  PROVE  FlowInv' /\ \A d \in Conns : Grows(d)
<1>1. \A d \in Conns \ {c} : Flow(d)' /\ Grows(d)
  BY SameFlowKept
<1> QED
  BY <1>1 DEF FlowInv

\* A step that touches no message.
LEMMA FlowQuiet ==
  ASSUME FlowInv, UNCHANGED <<st, mem, sq, cq, remote, hist>>
  PROVE  FlowInv' /\ \A d \in Conns : Grows(d)
<1>1. \A d \in Conns : SameFlow(d)
  BY DEF SameFlow, remote
<1>2. FlowTyped'
  BY DEF FlowInv, FlowTyped, remote
<1> QED
  BY <1>1, <1>2, SameFlowKept DEF FlowInv

\* What was posted on c and what has arrived are as before, and more completions at most
\* report errors: PollOutbound, and Teardown.
LEMMA FlowDrops ==
  ASSUME FlowInv, NEW c \in Conns,
         \A d \in Conns \ {c} : st'[d] = st[d] /\ sq'[d] = sq[d] /\ cq'[d] = cq[d],
         st'[c] # "new", st'[c] # "up" \/ (st'[c] = st[c] /\ sq'[c] = sq[c]),
         NoNewAck(cq[c], cq'[c]), UNCHANGED <<mem, remote, hist>>
  PROVE  FlowInv' /\ \A d \in Conns : Grows(d)
<1>1. UNCHANGED <<rq, rcq, rmem, rpoll, hist>> /\ Waiting(c)' = Waiting(c) /\ Arrived(c)' = Arrived(c)
  BY DEF remote, Waiting, Arrived
<1>2. Stream(st[c], hist.posted[c], hist.got[c], Waiting(c), rq[c], rmem[c], sq[c], cq[c], mem[c])
  BY DEF FlowInv, Flow
<1>3. Stream(st'[c], hist.posted[c], hist.got[c], Waiting(c), rq[c], rmem[c], sq'[c], cq'[c], mem[c])
  BY <1>2, StreamQuieter, ZenonT(40)
<1>4. Flow(c)'
  BY <1>1, <1>3 DEF Flow
<1>5. Grows(c)
  <2>1. Arrived(c) <= Arrived(c) /\ Len(hist.posted[c]) <= Len(hist.posted[c])
    BY FlowStays, ZenonT(40)
  <2> QED
    BY <1>1, <2>1 DEF Grows
<1>6. \A d \in Conns \ {c} : SameFlow(d)
  BY <1>1 DEF SameFlow
<1>7. FlowTyped'
  BY <1>1 DEF FlowInv, FlowTyped
<1> QED
  BY <1>4, <1>5, <1>6, <1>7, FlowOne

\* Dial: the peer posts its receives, and nothing was sent before.
LEMMA FlowDial ==
  ASSUME IndInv, FlowInv, NEW w \in Workers, NEW c \in Conns, Dial(w, c)
  PROVE  FlowInv' /\ \A d \in Conns : Grows(d)
<1> DEFINE Q == [i \in 1 .. RecvBufs |-> i]
           r == [pc |-> "poll", buf |-> 0]
<1>1. /\ st[c] = "new" /\ st' = [st EXCEPT ![c] = "up"] /\ rq' = [rq EXCEPT ![c] = Q]
      /\ rpoll' = [rpoll EXCEPT ![c] = r] /\ UNCHANGED <<mem, sq, cq, rcq, rmem, hist>>
  BY DEF Dial, ConnectRequest, nic
<1>2. RecvBufs \in Nat
  BY IbverbsAssumption
<1>3. Q \in Seq(Slots) /\ r \in PeerRecs /\ r.pc = "poll"
  BY ReceiveQueue, PeerRecords, ZenonT(40)
<1> HIDE DEF Q, r
<1>4. FlowTyped'
  BY <1>1, <1>3 DEF FlowInv, FlowTyped
<1>5. /\ st'[c] = "up" /\ rq'[c] = Q /\ rpoll'[c] = r
      /\ \A d \in Conns \ {c} : st'[d] = st[d] /\ rq'[d] = rq[d] /\ rpoll'[d] = rpoll[d]
  BY <1>1 DEF IndInv, Typed, FlowInv, FlowTyped
<1>6. hist.posted[c] = <<>> /\ rpoll[c].pc # "handle" /\ sq[c] = <<>> /\ cq[c] = <<>>
  BY <1>1 DEF FlowInv, Flow, IndInv, Sound, Live
<1>7. hist.got[c] = <<>> /\ rcq[c] = <<>> /\ Waiting(c) = <<>>
  <2>1. Waiting(c) = rcq[c]
    BY <1>6 DEF Waiting, Wait
  <2>2. /\ hist.got[c] \in Seq(Msgs) /\ Waiting(c) \in Seq(Slots)
        /\ Len(hist.got[c]) + Len(Waiting(c)) <= 0
    BY <1>6, FlowTypes, Nothing, ZenonT(40) DEF Arrived
  <2> QED
    BY <2>1, <2>2, BothEmpty
<1>8. Waiting(c)' = <<>>
  BY <1>1, <1>3, <1>5, <1>7 DEF Waiting, Wait
<1>9. Stream("up", <<>>, <<>>, <<>>, Q, rmem[c], <<>>, <<>>, mem[c])
  BY <1>2, StreamStart, FlowTypes DEF Q
<1>10. Flow(c)'
  BY <1>1, <1>3, <1>5, <1>6, <1>7, <1>8, <1>9 DEF Flow
<1>11. Grows(c)
  <2>1. Arrived(c)' = Arrived(c)
    BY <1>1, <1>7, <1>8, ZenonT(40) DEF Arrived
  <2>2. Arrived(c) <= Arrived(c) /\ Len(hist.posted[c]) <= Len(hist.posted[c])
    BY FlowStays, ZenonT(40)
  <2> QED
    BY <1>1, <2>1, <2>2 DEF Grows
<1>12. \A d \in Conns \ {c} : SameFlow(d)
  BY <1>1, <1>5 DEF SameFlow
<1> QED
  BY <1>4, <1>10, <1>11, <1>12, FlowOne

\* What a worker that fills a buffer finds, and leaves in it.
LEMMA FillsBuffer ==
  ASSUME IndInv, FlowInv, NEW w \in Workers, wk[w].pc = "post", st[wk[w].c] # "freed", Fill(w)
  PROVE  \E c \in Conns, s \in Sends, wr \in Nat, L \in [Bufs -> Msgs] :
           /\ c = wk[w].c /\ s = wk[w].s /\ wr = wk[w].wr /\ st[c] # "new"
           /\ L = [mem[c] EXCEPT ![BufOf(wr)] = s] /\ L[BufOf(wr)] = s
           /\ mem'[c] = L /\ \A d \in Conns \ {c} : mem'[d] = mem[d]
           /\ Stream(st[c], hist.posted[c], hist.got[c], Waiting(c), rq[c], rmem[c], sq[c], cq[c], L)
<1>1. PICK c \in Conns, s \in Sends, wr \in Nat :
        c = wk[w].c /\ s = wk[w].s /\ wr = wk[w].wr /\ st[c] # "new" /\ Live(c)
  BY OnItsConn
<1>2. Good(c, free[c], pend[c], Held(sq[c], cq[c]), mem[c], wk) /\ Fills(wk, c, w)
  BY <1>1, LiveIsGood, ZenonT(40) DEF Fills
<1>3. \A v \in Held(sq[c], cq[c]) : BufOf(v) # BufOf(wr) /\ BufOf(v) \in Bufs
  BY <1>1, <1>2, FillsApart, ZenonT(40)
<1>4. BufOf(wr) \in Bufs
  BY <1>1, <1>2, Filled, ZenonT(40)
<1>5. sq[c] \in Seq(Nat) /\ cq[c] \in Seq(Recs) /\ mem[c] \in [Bufs -> Msgs]
  BY ConnTypes DEF Msgs
<1> DEFINE L == [mem[c] EXCEPT ![BufOf(wr)] = s]
<1>6. L \in [Bufs -> Msgs] /\ L[BufOf(wr)] = s
  BY <1>4, <1>5 DEF Msgs
<1>7. mem'[c] = L /\ \A d \in Conns \ {c} : mem'[d] = mem[d]
  BY <1>1 DEF Fill, IndInv, Typed
<1>8. Stream(st[c], hist.posted[c], hist.got[c], Waiting(c), rq[c], rmem[c], sq[c], cq[c], mem[c])
  BY DEF FlowInv, Flow
<1>9. Stream(st[c], hist.posted[c], hist.got[c], Waiting(c), rq[c], rmem[c], sq[c], cq[c], L)
  BY <1>3, <1>5, <1>8, StreamFill
<1> HIDE DEF L
<1>10. L = [mem[c] EXCEPT ![BufOf(wr)] = s]
  BY DEF L
<1> QED
  BY <1>1, <1>6, <1>7, <1>9, <1>10

\* Send posts its message.
LEMMA FlowPost ==
  ASSUME IndInv, FlowInv, NEW w \in Workers, PostSend(w)
  PROVE  FlowInv' /\ \A d \in Conns : Grows(d)
<1>0. wk[w].pc = "post" /\ st[wk[w].c] # "freed" /\ Fill(w)
  BY DEF PostSend, WorkerAt
<1>1. PICK c \in Conns, s \in Sends, wr \in Nat, L \in [Bufs -> Msgs] :
        /\ c = wk[w].c /\ s = wk[w].s /\ wr = wk[w].wr /\ st[c] # "new"
        /\ L = [mem[c] EXCEPT ![BufOf(wr)] = s] /\ L[BufOf(wr)] = s
        /\ mem'[c] = L /\ \A d \in Conns \ {c} : mem'[d] = mem[d]
        /\ Stream(st[c], hist.posted[c], hist.got[c], Waiting(c), rq[c], rmem[c], sq[c], cq[c], L)
  BY <1>0, FillsBuffer, ZenonT(40)
<1>2. /\ IF st[c] = "up"
         THEN sq' = [sq EXCEPT ![c] = Append(@, wr)] /\ UNCHANGED cq
         ELSE cq' = [cq EXCEPT ![c] = Append(@, Error(wr))] /\ UNCHANGED sq
      /\ hist' = [hist EXCEPT !.posted[c] = Append(@, s)]
      /\ UNCHANGED <<st, rq, rcq, rmem, rpoll>>
  BY <1>1, ZenonT(40) DEF PostSend, Error, remote
<1> DEFINE X == hist.posted[c]
           Y == Append(X, s)
<1>3. X \in Seq(Msgs) /\ Y \in Seq(Msgs) /\ Len(Y) = Len(X) + 1 /\ \A i \in 1 .. Len(X) : Y[i] = X[i]
  <2>1. X \in Seq(Msgs) /\ s \in Msgs
    BY FlowTypes, ZenonT(40) DEF Msgs
  <2> QED
    BY <2>1, MessageAdded, ZenonT(40)
<1>4. /\ hist' \in [posted : [Conns -> Seq(Msgs)], got : [Conns -> Seq(Msgs)]]
      /\ hist'.posted[c] = Y /\ hist'.got = hist.got
      /\ \A d \in Conns \ {c} : hist'.posted[d] = hist.posted[d]
  <2>1. hist.posted \in [Conns -> Seq(Msgs)] /\ hist.got \in [Conns -> Seq(Msgs)]
    BY DEF FlowInv, FlowTyped
  <2>2. hist' = [posted |-> [hist.posted EXCEPT ![c] = Y], got |-> hist.got]
    BY <1>2 DEF FlowInv, FlowTyped
  <2> HIDE DEF Y
  <2>3. [hist.posted EXCEPT ![c] = Y] \in [Conns -> Seq(Msgs)]
    BY <1>3, <2>1
  <2> QED
    BY <2>1, <2>2, <2>3
<1> HIDE DEF X, Y
<1>5. Waiting(c)' = Waiting(c) /\ Arrived(c)' = Arrived(c)
  BY <1>2, <1>4 DEF Waiting, Arrived
<1>6. sq[c] \in Seq(Nat) /\ cq[c] \in Seq(Recs)
  BY ConnTypes
<1>7. /\ Stream(st[c], Y, hist.got[c], Waiting(c), rq[c], rmem[c], sq'[c], cq'[c], L)
      /\ \A d \in Conns \ {c} : sq'[d] = sq[d] /\ cq'[d] = cq[d]
  <2>0. sq \in [Conns -> Seq(Nat)] /\ cq \in [Conns -> Seq(Recs)]
    BY DEF IndInv, Typed
  <2>1. CASE st[c] = "up"
    <3>1. Stream("up", X, hist.got[c], Waiting(c), rq[c], rmem[c], sq[c], cq[c], L)
      BY <1>1, <2>1 DEF X
    <3>2. Stream("up", Y, hist.got[c], Waiting(c), rq[c], rmem[c], Append(sq[c], wr), cq[c], L)
      BY <1>1, <1>6, <3>1, StreamPostUp DEF Y
    <3>3. sq'[c] = Append(sq[c], wr) /\ cq' = cq /\ \A d \in Conns \ {c} : sq'[d] = sq[d]
      BY <1>2, <2>0, <2>1
    <3> QED
      BY <2>1, <3>2, <3>3
  <2>2. CASE st[c] # "up"
    <3>1. Stream(st[c], Y, hist.got[c], Waiting(c), rq[c], rmem[c], sq[c], cq[c], L)
      BY <1>1, <2>2, StreamPostDown DEF X, Y
    <3>2. Error(wr) \in Recs /\ ~Error(wr).ok
      BY DEF Error, Recs
    <3>3. Stream(st[c], Y, hist.got[c], Waiting(c), rq[c], rmem[c], sq[c], Append(cq[c], Error(wr)), L)
      BY <1>6, <3>1, <3>2, StreamCompletes
    <3>4. cq'[c] = Append(cq[c], Error(wr)) /\ sq' = sq /\ \A d \in Conns \ {c} : cq'[d] = cq[d]
      BY <1>2, <2>0, <2>2
    <3> QED
      BY <3>3, <3>4
  <2> QED
    BY <2>1, <2>2
<1>8. Flow(c)'
  BY <1>1, <1>2, <1>4, <1>5, <1>7 DEF Flow
<1>9. Grows(c)
  <2>1. Arrived(c) <= Arrived(c) /\ Len(X) <= Len(Y)
    BY <1>3, FlowStays, Lengths, StaysOrGrows, ZenonT(40)
  <2> QED
    BY <1>3, <1>4, <1>5, <2>1 DEF Grows, X
<1>10. \A d \in Conns \ {c} : SameFlow(d)
  BY <1>1, <1>2, <1>4, <1>7 DEF SameFlow
<1>11. FlowTyped'
  BY <1>2, <1>4 DEF FlowInv, FlowTyped
<1> QED
  BY <1>8, <1>9, <1>10, <1>11, FlowOne

\* ibv_post_send fails: the buffer is written all the same.
LEMMA FlowPostFails ==
  ASSUME IndInv, FlowInv, NEW w \in Workers, PostFails(w)
  PROVE  FlowInv' /\ \A d \in Conns : Grows(d)
<1>0. wk[w].pc = "post" /\ st[wk[w].c] # "freed" /\ Fill(w)
  BY DEF PostFails, WorkerAt
<1>1. PICK c \in Conns, L \in [Bufs -> Msgs] :
        /\ st[c] # "new" /\ mem'[c] = L /\ \A d \in Conns \ {c} : mem'[d] = mem[d]
        /\ Stream(st[c], hist.posted[c], hist.got[c], Waiting(c), rq[c], rmem[c], sq[c], cq[c], L)
  BY <1>0, FillsBuffer
<1>2. UNCHANGED <<st, sq, cq, rq, rcq, rmem, rpoll, hist>>
  BY DEF PostFails, nic, remote
<1>3. Waiting(c)' = Waiting(c) /\ Arrived(c)' = Arrived(c)
  BY <1>2 DEF Waiting, Arrived
<1>4. Flow(c)'
  BY <1>1, <1>2, <1>3 DEF Flow
<1>5. Grows(c)
  <2>1. Arrived(c) <= Arrived(c) /\ Len(hist.posted[c]) <= Len(hist.posted[c])
    BY FlowStays, ZenonT(40)
  <2> QED
    BY <1>2, <1>3, <2>1 DEF Grows
<1>6. \A d \in Conns \ {c} : SameFlow(d)
  BY <1>1, <1>2 DEF SameFlow
<1>7. FlowTyped'
  BY <1>2 DEF FlowInv, FlowTyped
<1> QED
  BY <1>4, <1>5, <1>6, <1>7, FlowOne

\* The first send of c lands at the peer.
LEMMA Lands ==
  ASSUME IndInv, FlowInv, NEW c \in Conns, st[c] = "up", CanLand(c), Land(c), UNCHANGED <<rpoll, hist>>
  PROVE  /\ Stream("up", hist.posted[c], hist.got[c], Waiting(c)', rq'[c], rmem'[c], Tail(sq[c]), cq[c], mem[c])
         /\ Among(hist.posted[c], Arrived(c)', mem[c][BufOf(Head(sq[c]))])
         /\ Arrived(c)' = Arrived(c) + 1 /\ FlowTyped'
         /\ \A d \in Conns \ {c} : rq'[d] = rq[d] /\ rcq'[d] = rcq[d] /\ rmem'[d] = rmem[d]
<1> DEFINE h == Head(rq[c])
           m == mem[c][BufOf(Head(sq[c]))]
<1>1. sq[c] # <<>> /\ rq[c] # <<>>
  BY DEF CanLand
<1>2. /\ hist.posted[c] \in Seq(Msgs) /\ hist.got[c] \in Seq(Msgs)
      /\ rq[c] \in Seq(Slots) /\ rcq[c] \in Seq(Slots) /\ rmem[c] \in [Slots -> Msgs]
      /\ rpoll[c].pc = "handle" => rpoll[c].buf \in Slots
      /\ Waiting(c) \in Seq(Slots)
  BY FlowTypes
<1>3. sq[c] \in Seq(Nat) /\ cq[c] \in Seq(Recs) /\ mem[c] \in [Bufs -> Msgs]
  BY ConnTypes DEF Msgs
<1>4. BufOf(Head(sq[c])) \in Bufs
  <2>1. Live(c) /\ Once(sq[c], cq[c]) /\ Good(c, free[c], pend[c], Held(sq[c], cq[c]), mem[c], wk)
    BY LiveIsGood DEF Live
  <2>2. Head(sq[c]) \in Held(sq[c], cq[c])
    <3>1. Held(sq[c], cq[c]) = Held(Tail(sq[c]), cq[c]) \cup {Head(sq[c])}
      BY <1>1, <1>3, <2>1, SendTaken, ZenonT(40)
    <3> QED
      BY <3>1
  <2> QED
    BY <2>1, <2>2 DEF Good, Placed, Ring
<1>5. m \in Msgs
  BY <1>3, <1>4
<1>6. h \in Slots /\ Tail(rq[c]) \in Seq(Slots)
  BY <1>1, <1>2, HeadAndTail
<1>7. /\ rmem' = [rmem EXCEPT ![c][h] = m] /\ rcq' = [rcq EXCEPT ![c] = Append(@, h)]
      /\ rq' = [rq EXCEPT ![c] = Tail(@)]
  BY DEF Land
<1> HIDE DEF h, m
<1>8. /\ rmem' \in [Conns -> [Slots -> Msgs]] /\ rmem'[c] = [rmem[c] EXCEPT ![h] = m]
      /\ \A d \in Conns \ {c} : rmem'[d] = rmem[d]
  BY <1>5, <1>6, <1>7, SMTT(40) DEF FlowInv, FlowTyped
<1>9. Append(rcq[c], h) \in Seq(Slots)
  BY <1>2, <1>6, Appended, ZenonT(40)
<1>10. /\ rcq' \in [Conns -> Seq(Slots)] /\ rcq'[c] = Append(rcq[c], h)
       /\ \A d \in Conns \ {c} : rcq'[d] = rcq[d]
  BY <1>7, <1>9 DEF FlowInv, FlowTyped
<1>11. /\ rq' \in [Conns -> Seq(Slots)] /\ rq'[c] = Tail(rq[c])
       /\ \A d \in Conns \ {c} : rq'[d] = rq[d]
  BY <1>6, <1>7 DEF FlowInv, FlowTyped
<1>12. Waiting(c)' = Append(Waiting(c), h)
  <2>1. Wait(rpoll[c], Append(rcq[c], h)) = Append(Wait(rpoll[c], rcq[c]), h)
    BY <1>2, <1>6, WaitLand, ZenonT(40)
  <2>2. rpoll' = rpoll
    BY DEF Land
  <2> QED
    BY <1>10, <2>1, <2>2 DEF Waiting
<1>13. Stream("up", hist.posted[c], hist.got[c], Waiting(c), rq[c], rmem[c], sq[c], cq[c], mem[c])
  BY DEF FlowInv, Flow
<1>14. /\ Stream("up", hist.posted[c], hist.got[c], Append(Waiting(c), h), Tail(rq[c]),
                 [rmem[c] EXCEPT ![h] = m], Tail(sq[c]), cq[c], mem[c])
       /\ Among(hist.posted[c], Len(hist.got[c]) + Len(Append(Waiting(c), h)), m)
  BY <1>1, <1>3, <1>4, <1>13, StreamLand DEF h, m
<1>15. Arrived(c)' = Arrived(c) + 1
  <2>1. Len(Append(Waiting(c), h)) = Len(Waiting(c)) + 1 /\ Len(Waiting(c)) \in Nat /\ Len(hist.got[c]) \in Nat
    BY <1>2, <1>6, Appended, Lengths, ZenonT(40)
  <2>2. Len(hist.got[c]) + (Len(Waiting(c)) + 1) = (Len(hist.got[c]) + Len(Waiting(c))) + 1
    BY <2>1, OneMore
  <2> QED
    BY <1>12, <2>1, <2>2 DEF Arrived
<1>16. FlowTyped'
  BY <1>8, <1>10, <1>11 DEF FlowInv, FlowTyped
<1> QED
  BY <1>8, <1>10, <1>11, <1>12, <1>14, <1>15, <1>16 DEF Arrived, m

\* A Conn whose posted messages are as before and whose messages arrive.
LEMMA GrowsBy ==
  ASSUME FlowInv, NEW c \in Conns, UNCHANGED hist,
         Arrived(c)' = Arrived(c) \/ Arrived(c)' = Arrived(c) + 1
  PROVE  Grows(c)
<1>1. Arrived(c) \in Nat /\ Len(hist.posted[c]) \in Nat
  BY FlowTypes, Lengths, ZenonT(40)
<1>2. Arrived(c) <= Arrived(c)' /\ Len(hist.posted[c]) <= Len(hist.posted[c])
  BY <1>1, StaysOrGrows, ZenonT(40)
<1> QED
  BY <1>2 DEF Grows

\* The adapter delivers a send and completes it.
LEMMA FlowTransmit ==
  ASSUME IndInv, FlowInv, NEW c \in Conns, Transmit(c)
  PROVE  FlowInv' /\ \A d \in Conns : Grows(d)
<1> DEFINE r == [wr |-> Head(sq[c]), ok |-> TRUE]
<1>1. /\ st[c] = "up" /\ CanLand(c) /\ Land(c) /\ UNCHANGED <<st, mem, rpoll, hist>>
      /\ sq' = [sq EXCEPT ![c] = Tail(@)] /\ cq' = [cq EXCEPT ![c] = Append(@, r)]
  BY DEF Transmit
<1>2. /\ Stream("up", hist.posted[c], hist.got[c], Waiting(c)', rq'[c], rmem'[c], Tail(sq[c]), cq[c], mem[c])
      /\ Among(hist.posted[c], Arrived(c)', mem[c][BufOf(Head(sq[c]))])
      /\ Arrived(c)' = Arrived(c) + 1 /\ FlowTyped'
      /\ \A d \in Conns \ {c} : rq'[d] = rq[d] /\ rcq'[d] = rcq[d] /\ rmem'[d] = rmem[d]
  BY <1>1, Lands
<1>3. sq[c] \in Seq(Nat) /\ cq[c] \in Seq(Recs) /\ sq[c] # <<>>
  BY <1>1, ConnTypes DEF CanLand
<1>4. r \in Recs /\ r.wr = Head(sq[c])
  BY <1>3, HeadAndTail DEF Recs
<1> HIDE DEF r
<1>5. /\ sq'[c] = Tail(sq[c]) /\ cq'[c] = Append(cq[c], r)
      /\ \A d \in Conns \ {c} : sq'[d] = sq[d] /\ cq'[d] = cq[d]
  BY <1>1 DEF IndInv, Typed
<1>6. Among(hist.posted[c], Len(hist.got[c]) + Len(Waiting(c)'), mem[c][BufOf(r.wr)])
  BY <1>1, <1>2, <1>4 DEF Arrived
<1>7. Stream("up", hist.posted[c], hist.got[c], Waiting(c)', rq'[c], rmem'[c], Tail(sq[c]),
             Append(cq[c], r), mem[c])
  BY <1>2, <1>3, <1>4, <1>6, StreamCompletes
<1>8. Flow(c)'
  BY <1>1, <1>5, <1>7 DEF Flow
<1>9. Grows(c)
  BY <1>1, <1>2, GrowsBy
<1>10. \A d \in Conns \ {c} : SameFlow(d)
  BY <1>1, <1>2, <1>5 DEF SameFlow
<1> QED
  BY <1>2, <1>8, <1>9, <1>10, FlowOne

\* The link breaks: what has landed stays, and every queued send completes with an error.
LEMMA FlowBreak ==
  ASSUME IndInv, FlowInv, NEW c \in Conns, Break(c)
  PROVE  FlowInv' /\ \A d \in Conns : Grows(d)
<1> DEFINE D == cq[c] \o Errors(sq[c])
<1>1. /\ st[c] = "up" /\ st' = [st EXCEPT ![c] = "down"] /\ UNCHANGED <<mem, rpoll, hist>>
      /\ sq' = [sq EXCEPT ![c] = <<>>] /\ cq' = [cq EXCEPT ![c] = @ \o Errors(sq[c])]
      /\ (CanLand(c) /\ Land(c)) \/ UNCHANGED <<rq, rcq, rmem>>
  BY DEF Break, Errors
<1>2. sq[c] \in Seq(Nat) /\ cq[c] \in Seq(Recs)
  BY ConnTypes
<1>3. NoNewAck(cq[c], D)
  BY <1>2, Completions, ZenonT(40) DEF NoNewAck
<1>4. /\ st'[c] = "down" /\ sq'[c] = <<>> /\ cq'[c] = D
      /\ \A d \in Conns \ {c} : st'[d] = st[d] /\ sq'[d] = sq[d] /\ cq'[d] = cq[d]
  BY <1>1 DEF IndInv, Typed
<1> HIDE DEF D
<1>5. PICK T : /\ Stream("up", hist.posted[c], hist.got[c], Waiting(c)', rq'[c], rmem'[c], T, cq[c], mem[c])
               /\ Arrived(c)' = Arrived(c) \/ Arrived(c)' = Arrived(c) + 1
               /\ FlowTyped'
               /\ \A d \in Conns \ {c} : rq'[d] = rq[d] /\ rcq'[d] = rcq[d] /\ rmem'[d] = rmem[d]
  <2>1. CASE CanLand(c) /\ Land(c)
    BY <1>1, <2>1, Lands
  <2>2. CASE UNCHANGED <<rq, rcq, rmem>>
    <3>1. Waiting(c)' = Waiting(c) /\ Arrived(c)' = Arrived(c)
      BY <1>1, <2>2 DEF Waiting, Arrived
    <3>2. Stream("up", hist.posted[c], hist.got[c], Waiting(c), rq[c], rmem[c], sq[c], cq[c], mem[c])
      BY <1>1 DEF FlowInv, Flow
    <3>3. FlowTyped'
      BY <1>1, <2>2 DEF FlowInv, FlowTyped
    <3> QED
      BY <2>2, <3>1, <3>2, <3>3
  <2> QED
    BY <1>1, <2>1, <2>2
<1>6. Stream("down", hist.posted[c], hist.got[c], Waiting(c)', rq'[c], rmem'[c], <<>>, D, mem[c])
  BY <1>3, <1>5, StreamQuieter, ZenonT(40)
<1>7. Flow(c)'
  BY <1>1, <1>4, <1>6 DEF Flow
<1>8. Grows(c)
  BY <1>1, <1>5, GrowsBy
<1>9. \A d \in Conns \ {c} : SameFlow(d)
  BY <1>1, <1>4, <1>5 DEF SameFlow
<1> QED
  BY <1>5, <1>7, <1>8, <1>9, FlowOne

\* PollOutbound takes a completion.
LEMMA FlowPoll ==
  ASSUME IndInv, FlowInv, NEW c \in Conns, PollOutbound(c)
  PROVE  FlowInv' /\ \A d \in Conns : Grows(d)
<1>1. cq[c] # <<>> /\ cq' = [cq EXCEPT ![c] = Tail(@)] /\ UNCHANGED <<st, mem, sq, remote, hist>>
  BY DEF PollOutbound
<1>2. cq[c] \in Seq(Recs) /\ cq \in [Conns -> Seq(Recs)] /\ st \in [Conns -> {"new", "up", "down", "freed"}]
  BY DEF IndInv, Typed
<1>3. st[c] # "new"
  BY <1>1 DEF IndInv, Sound, Live
<1>4. cq'[c] = Tail(cq[c]) /\ \A d \in Conns \ {c} : cq'[d] = cq[d]
  BY <1>1, <1>2
<1>5. \A i \in DOMAIN Tail(cq[c]) : \E j \in DOMAIN cq[c] : Tail(cq[c])[i] = cq[c][j]
  BY <1>1, <1>2, FirstAndRest, ZenonT(40)
<1>6. \A d \in Conns \ {c} : st'[d] = st[d] /\ sq'[d] = sq[d] /\ cq'[d] = cq[d]
  BY <1>1, <1>4
<1>7. st'[c] # "new" /\ st'[c] = st[c] /\ sq'[c] = sq[c]
  BY <1>1, <1>3
<1>8. NoNewAck(cq[c], cq'[c])
  BY <1>4, <1>5 DEF NoNewAck
<1> QED
  BY <1>1, <1>6, <1>7, <1>8, FlowDrops, ZenonT(40)

\* PollInbound, HandleRecv and the end of the peer's poller.
LEMMA FlowPeer ==
  ASSUME IndInv, FlowInv, NEW c \in Conns,
         \/ PeerStep(c) \/ InboundEnds(c, "exited") \/ InboundEnds(c, "failed")
  PROVE  FlowInv' /\ \A d \in Conns : Grows(d)
<1>0. UNCHANGED <<st, mem, sq, cq, rmem>>
  BY DEF PeerStep, PollInbound, HandleRecv, InboundEnds, nic
<1>t. /\ hist.posted[c] \in Seq(Msgs) /\ hist.got[c] \in Seq(Msgs)
      /\ rq[c] \in Seq(Slots) /\ rcq[c] \in Seq(Slots) /\ rmem[c] \in [Slots -> Msgs]
      /\ rpoll[c] \in PeerRecs /\ (rpoll[c].pc = "handle" => rpoll[c].buf \in Slots)
      /\ Waiting(c) \in Seq(Slots)
  BY FlowTypes
<1>n. RecvBufs \in Nat
  BY IbverbsAssumption
<1>s. Stream(st[c], hist.posted[c], hist.got[c], Waiting(c), rq[c], rmem[c], sq[c], cq[c], mem[c])
  BY DEF FlowInv, Flow
<1>w. st[c] = "new" => Waiting(c) = <<>> /\ rcq[c] = <<>> /\ rpoll[c].pc # "handle"
  <2> SUFFICES ASSUME st[c] = "new"
               PROVE  Waiting(c) = <<>> /\ rcq[c] = <<>> /\ rpoll[c].pc # "handle"
    OBVIOUS
  <2>1. hist.posted[c] = <<>> /\ rpoll[c].pc # "handle"
    BY DEF FlowInv, Flow
  <2>2. Len(hist.got[c]) + Len(Waiting(c)) <= 0
    BY <2>1, FlowTypes, Nothing, ZenonT(40) DEF Arrived
  <2>3. Waiting(c) = <<>>
    BY <1>t, <2>2, BothEmpty, ZenonT(40)
  <2> QED
    BY <2>1, <2>3 DEF Waiting, Wait
<1>1. CASE PollInbound(c)
  <2> DEFINE r == [pc |-> "handle", buf |-> Head(rcq[c])]
  <2>1. /\ rpoll[c].pc = "poll" /\ rcq[c] # <<>> /\ rpoll' = [rpoll EXCEPT ![c] = r]
        /\ rcq' = [rcq EXCEPT ![c] = Tail(@)] /\ UNCHANGED <<rq, hist>>
    BY <1>1 DEF PollInbound, PeerAt
  <2>2. Head(rcq[c]) \in Slots /\ Tail(rcq[c]) \in Seq(Slots)
    BY <1>t, <2>1, HeadAndTail
  <2>3. r \in PeerRecs /\ r.pc = "handle" /\ r.buf = Head(rcq[c])
    BY <2>2, PeerRecords, ZenonT(40)
  <2> HIDE DEF r
  <2>4. FlowTyped'
    BY <1>0, <2>1, <2>2, <2>3 DEF FlowInv, FlowTyped
  <2>5. /\ rpoll'[c] = r /\ rcq'[c] = Tail(rcq[c])
        /\ \A d \in Conns \ {c} : rpoll'[d] = rpoll[d] /\ rcq'[d] = rcq[d]
    BY <2>1 DEF FlowInv, FlowTyped
  <2>6. Waiting(c)' = Waiting(c)
    BY <1>t, <2>1, <2>3, <2>5, WaitPoll DEF Waiting, Wait
  <2>7. Arrived(c)' = Arrived(c)
    BY <2>1, <2>6 DEF Arrived
  <2>8. Flow(c)'
    BY <1>0, <1>s, <1>w, <2>1, <2>6 DEF Flow
  <2>9. Grows(c)
    BY <2>1, <2>7, GrowsBy
  <2>10. \A d \in Conns \ {c} : SameFlow(d)
    BY <1>0, <2>1, <2>5 DEF SameFlow
  <2> QED
    BY <2>4, <2>8, <2>9, <2>10, FlowOne
<1>2. CASE HandleRecv(c)
  <2> DEFINE b == rpoll[c].buf
             m == rmem[c][b]
             r == [pc |-> "poll", buf |-> 0]
  <2>1. /\ rpoll[c].pc = "handle" /\ hist' = [hist EXCEPT !.got[c] = Append(@, m)]
        /\ rq' = [rq EXCEPT ![c] = Append(@, b)] /\ rpoll' = [rpoll EXCEPT ![c] = r] /\ UNCHANGED rcq
    BY <1>2 DEF HandleRecv, OnReceive, PostRecv, PeerAt
  <2>2. b \in Slots /\ m \in Msgs
    BY <1>t, <2>1
  <2>3. r \in PeerRecs /\ r.pc = "poll"
    BY PeerRecords, ZenonT(40)
  <2> HIDE DEF b, m, r
  <2>4. Append(hist.got[c], m) \in Seq(Msgs) /\ Append(rq[c], b) \in Seq(Slots)
    BY <1>t, <2>2, Appended, ZenonT(40)
  <2>5. /\ hist' \in [posted : [Conns -> Seq(Msgs)], got : [Conns -> Seq(Msgs)]]
        /\ hist'.got[c] = Append(hist.got[c], m) /\ hist'.posted = hist.posted
        /\ \A d \in Conns \ {c} : hist'.got[d] = hist.got[d]
    <3>1. hist.posted \in [Conns -> Seq(Msgs)] /\ hist.got \in [Conns -> Seq(Msgs)]
      BY DEF FlowInv, FlowTyped
    <3>2. hist' = [posted |-> hist.posted, got |-> [hist.got EXCEPT ![c] = Append(hist.got[c], m)]]
      BY <2>1 DEF FlowInv, FlowTyped
    <3>3. [hist.got EXCEPT ![c] = Append(hist.got[c], m)] \in [Conns -> Seq(Msgs)]
      BY <2>4, <3>1
    <3> QED
      BY <3>1, <3>2, <3>3
  <2>6. /\ rq' \in [Conns -> Seq(Slots)] /\ rpoll' \in [Conns -> PeerRecs]
        /\ rpoll'[c] = r /\ rq'[c] = Append(rq[c], b)
        /\ \A d \in Conns \ {c} : rpoll'[d] = rpoll[d] /\ rq'[d] = rq[d]
    BY <2>1, <2>3, <2>4 DEF FlowInv, FlowTyped
  <2>7. /\ Waiting(c) # <<>> /\ Head(Waiting(c)) = b /\ Tail(Waiting(c)) = Waiting(c)'
        /\ Len(Waiting(c)) = Len(Waiting(c)') + 1
    <3>1. Waiting(c) = <<b>> \o rcq[c] /\ Waiting(c)' = rcq[c]
      BY <2>1, <2>3, <2>6 DEF Waiting, Wait, b
    <3>2. b \in Slots /\ rcq[c] \in Seq(Slots)
      BY <1>t, <2>2
    <3> DEFINE q == rcq[c]
               W == <<b>> \o q
    <3>3. W # <<>> /\ Head(W) = b /\ Tail(W) = q /\ Len(W) = Len(q) + 1
      BY <3>2, WaitHandled, ZenonT(40)
    <3>4. Waiting(c) = W /\ Waiting(c)' = q
      BY <3>1
    <3> HIDE DEF W, q
    <3> QED
      BY <3>3, <3>4, ZenonT(40)
  <2>8. Stream(st[c], hist.posted[c], Append(hist.got[c], m), Waiting(c)', Append(rq[c], b),
               rmem[c], sq[c], cq[c], mem[c])
    BY <1>s, <2>7, StreamHandle DEF m
  <2>9. Flow(c)'
    BY <1>0, <1>w, <2>1, <2>5, <2>6, <2>8 DEF Flow
  <2>10. Arrived(c)' = Arrived(c)
    <3>1. Len(Append(hist.got[c], m)) = Len(hist.got[c]) + 1 /\ Len(hist.got[c]) \in Nat
      BY <1>t, <2>2, MessageAdded, Lengths, ZenonT(40)
    <3>2. Len(Waiting(c)') \in Nat
      <4>1. Tail(Waiting(c)) \in Seq(Slots)
        BY <1>t, <2>7, HeadAndTail, ZenonT(40)
      <4> QED
        BY <2>7, <4>1, Lengths, ZenonT(40)
    <3>3. (Len(hist.got[c]) + 1) + Len(Waiting(c)') = Len(hist.got[c]) + (Len(Waiting(c)') + 1)
      BY <3>1, <3>2, OneMore
    <3>4. Arrived(c)' = Len(Append(hist.got[c], m)) + Len(Waiting(c)')
      BY <2>5 DEF Arrived
    <3> QED
      BY <2>7, <3>1, <3>3, <3>4 DEF Arrived
  <2>11. Grows(c)
    <3>1. Arrived(c) <= Arrived(c) /\ Len(hist.posted[c]) <= Len(hist.posted[c])
      BY FlowStays, ZenonT(40)
    <3> QED
      BY <2>5, <2>10, <3>1 DEF Grows
  <2>12. \A d \in Conns \ {c} : SameFlow(d)
    BY <1>0, <2>1, <2>5, <2>6 DEF SameFlow
  <2>13. FlowTyped'
    BY <1>0, <2>1, <2>5, <2>6 DEF FlowInv, FlowTyped
  <2> QED
    BY <2>9, <2>11, <2>12, <2>13, FlowOne
<1>3. ASSUME NEW how \in {"exited", "failed"}, InboundEnds(c, how)
      PROVE  FlowInv' /\ \A d \in Conns : Grows(d)
  <2> DEFINE r == [pc |-> how, buf |-> 0]
  <2>1. rpoll[c].pc = "poll" /\ rpoll' = [rpoll EXCEPT ![c] = r] /\ UNCHANGED <<rq, rcq, hist>>
    BY <1>3 DEF InboundEnds, PeerAt
  <2>2. r \in PeerRecs /\ r.pc # "handle"
    BY PeerRecords, ZenonT(40)
  <2> HIDE DEF r
  <2>3. FlowTyped'
    BY <1>0, <2>1, <2>2 DEF FlowInv, FlowTyped
  <2>4. rpoll'[c] = r /\ \A d \in Conns \ {c} : rpoll'[d] = rpoll[d]
    BY <2>1 DEF FlowInv, FlowTyped
  <2>5. Waiting(c)' = Waiting(c)
    BY <2>1, <2>2, <2>4 DEF Waiting, Wait
  <2>6. Arrived(c)' = Arrived(c)
    BY <2>1, <2>5 DEF Arrived
  <2>7. Flow(c)'
    BY <1>0, <2>1, <2>2, <2>4, <2>5 DEF FlowInv, Flow
  <2>8. Grows(c)
    BY <2>1, <2>6, GrowsBy
  <2>9. \A d \in Conns \ {c} : SameFlow(d)
    BY <1>0, <2>1, <2>4 DEF SameFlow
  <2> QED
    BY <2>3, <2>7, <2>8, <2>9, FlowOne
<1> QED
  BY <1>1, <1>2, <1>3 DEF PeerStep

\* Every step keeps the messages in order and takes none back.
LEMMA FlowStep ==
  ASSUME IndInv, Joining, FlowInv, [Next]_vars
  PROVE  FlowInv' /\ \A c \in Conns : Grows(c)
<1>1. ASSUME NEW w \in Workers,
             \/ StartSend(w) \/ TooLarge(w) \/ Recheck(w) \/ DialRefused(w) \/ Emplace(w)
             \/ GiveUp(w) \/ AcquireBuffer(w) \/ FutureReady(w) \/ UseAfterTeardown(w)
      PROVE  FlowInv' /\ \A c \in Conns : Grows(c)
  <2>1. UNCHANGED <<st, mem, sq, cq, remote, hist>>
    BY <1>1, ZenonT(40) DEF StartSend, TooLarge, Recheck, DialRefused, Emplace, GiveUp, AcquireBuffer,
                            FutureReady, UseAfterTeardown, nic
  <2> QED
    BY <2>1, FlowQuiet
<1>2. ASSUME NEW w \in Workers, SendStep(w)
      PROVE  FlowInv' /\ \A c \in Conns : Grows(c)
  BY <1>1, <1>2, FlowDial, FlowPost, FlowPostFails, ZenonT(40) DEF SendStep
<1>3. ASSUME NEW c \in Conns, SetValue(c) \/ (\E how \in {"exited", "failed"} : PollerEnds(c, how))
      PROVE  FlowInv' /\ \A d \in Conns : Grows(d)
  <2>1. UNCHANGED <<st, mem, sq, cq, remote, hist>>
    BY <1>3 DEF SetValue, PollerEnds, nic
  <2> QED
    BY <2>1, FlowQuiet
<1>4. ASSUME NEW c \in Conns, PollerStep(c) \/ PollerEnds(c, "failed")
      PROVE  FlowInv' /\ \A d \in Conns : Grows(d)
  BY <1>3, <1>4, FlowPoll DEF PollerStep
<1>5. ASSUME Shutdown \/ Destroy \/ UNCHANGED vars
      PROVE  FlowInv' /\ \A d \in Conns : Grows(d)
  <2>1. UNCHANGED <<st, mem, sq, cq, remote, hist>>
    BY <1>5 DEF Shutdown, Destroy, vars, nic
  <2> QED
    BY <2>1, FlowQuiet
<1>6. ASSUME Teardown
      PROVE  FlowInv' /\ \A d \in Conns : Grows(d)
  <2>1. PICK c \in Conns : c = outbound
    BY <1>6 DEF Teardown, Joining
  <2>2. /\ st' = [st EXCEPT ![c] = "freed"] /\ sq' = [sq EXCEPT ![c] = <<>>]
        /\ cq' = [cq EXCEPT ![c] = <<>>] /\ UNCHANGED <<mem, remote, hist>>
    BY <1>6, <2>1 DEF Teardown
  <2>3. st \in [Conns -> {"new", "up", "down", "freed"}]
    BY DEF IndInv, Typed
  <2>4. /\ st'[c] = "freed" /\ sq'[c] = <<>> /\ cq'[c] = <<>>
        /\ \A d \in Conns \ {c} : st'[d] = st[d] /\ sq'[d] = sq[d] /\ cq'[d] = cq[d]
    BY <2>2, <2>3 DEF IndInv, Typed
  <2> QED
    BY <2>2, <2>3, <2>4, EmptyDomain, FlowDrops DEF NoNewAck
<1> QED
  BY <1>1, <1>2, <1>4, <1>5, <1>6, FlowPeer, FlowTransmit, FlowBreak DEF Next

-----------------------------------------------------------------------------
(***************************************************************************)
(* What a fulfilled promise says.                                          *)
(***************************************************************************)
\* A poller that is to set a promise to true, and a promise set to true, are of a message
\* that reached the peer.
AckOK ==
  /\ \A c \in Conns : took[c] # <<>> /\ took[c][2] => Reached(c, took[c][1])
  /\ \A s \in Sends : prom[s] = "ok" => \E c \in Conns : Reached(c, s)

\* A message that reached the peer has reached it for good.
LEMMA ReachedStays ==
  ASSUME FlowInv, FlowInv', NEW c \in Conns, Grows(c), NEW s, Reached(c, s)
  PROVE  Reached(c, s)'
<1>1. /\ hist.posted[c] \in Seq(Msgs) /\ Arrived(c) \in Nat /\ Arrived(c) <= Len(hist.posted[c])
  BY FlowTypes
<1>2. hist'.posted[c] \in Seq(Msgs) /\ Arrived(c)' \in Nat
  <2>1. hist'.posted[c] \in Seq(Msgs) /\ hist'.got[c] \in Seq(Msgs)
    BY DEF FlowInv, FlowTyped
  <2>2. Waiting(c)' \in Seq(Slots)
    BY DEF FlowInv, Flow, Stream, StreamTypes
  <2>3. Len(hist'.got[c]) + Len(Waiting(c)') \in Nat
    BY <2>1, <2>2, Lengths, Sums, ZenonT(40)
  <2> QED
    BY <2>1, <2>3 DEF Arrived
<1> QED
  BY <1>1, <1>2, AmongGrows DEF Reached, Grows

\* A step on which no promise is taken up or set to true.
LEMMA AckKept ==
  ASSUME FlowInv, FlowInv', \A c \in Conns : Grows(c), AckOK,
         \A c \in Conns : took'[c] = took[c] \/ took'[c] = <<>>,
         \A s \in Sends : prom'[s] = "ok" => prom[s] = "ok"
  PROVE  AckOK'
<1>1. \A c \in Conns : \A s : Reached(c, s) => Reached(c, s)'
  BY ReachedStays
<1> QED
  BY <1>1 DEF AckOK

\* PollOutbound takes a promise up to set it to true only for a completion without error,
\* whose message has landed.
LEMMA AckPoll ==
  ASSUME IndInv, FlowInv, FlowInv', \A c \in Conns : Grows(c), AckOK, PromTyped,
         NEW c \in Conns, PollOutbound(c)
  PROVE  AckOK'
<1> DEFINE wc == Head(cq[c])
<1>1. cq[c] # <<>> /\ UNCHANGED prom
  BY DEF PollOutbound
<1>2. \A d \in Conns : \A s : Reached(d, s) => Reached(d, s)'
  BY ReachedStays
<1>3. CASE took' = took
  BY <1>1, <1>2, <1>3 DEF AckOK
<1>4. ASSUME NEW x \in Completed(c, wc), took' = [took EXCEPT ![c] = <<x[2], Verdict(wc)>>]
      PROVE  AckOK'
  <2>1. x \in pend[c] /\ x[1] = wc.wr
    BY <1>4 DEF Completed
  <2>2. cq[c] \in Seq(Recs) /\ sq[c] \in Seq(Nat)
    BY ConnTypes
  <2>3. Live(c)
    BY <1>1 DEF IndInv, Sound
  <2>4. Once(sq[c], cq[c]) /\ Good(c, free[c], pend[c], Held(sq[c], cq[c]), mem[c], wk)
    BY <2>3, LiveIsGood
  <2>5. wc.wr \in Held(sq[c], cq[c])
    BY <1>1, <2>2, <2>4, CompletionTaken
  <2>6. mem[c][BufOf(wc.wr)] = x[2]
    BY <2>1, <2>4, <2>5 DEF Good, Intact
  <2>7. wc = cq[c][1] /\ 1 \in DOMAIN cq[c]
    BY <1>1, <2>2, FirstAndRest, ZenonT(40)
  <2>8. wc.ok => Reached(c, x[2])
    <3>1. Acked(hist.posted[c], Arrived(c), cq[c], mem[c])
      BY DEF FlowInv, Flow, Stream, Arrived
    <3> QED
      BY <2>6, <2>7, <3>1 DEF Acked, Reached
  <2> HIDE DEF wc
  <2>9. took'[c] = <<x[2], wc.ok>> /\ \A d \in Conns : d # c => took'[d] = took[d]
    BY <1>4 DEF PromTyped, Verdict
  <2>10. took'[c][1] = x[2] /\ took'[c][2] = wc.ok
    <3> DEFINE p == took'[c]
               y == x[2]
               z == wc.ok
    <3>1. p = <<y, z>>
      BY <2>9
    <3> HIDE DEF p, y, z
    <3>2. p[1] = y /\ p[2] = z
      BY <3>1, PairParts, ZenonT(40)
    <3> QED
      BY <3>2 DEF p, y, z
  <2> QED
    BY <1>1, <1>2, <2>8, <2>9, <2>10 DEF AckOK
<1> HIDE DEF wc
<1>5. took' = took \/ \E x \in Completed(c, wc) : took' = [took EXCEPT ![c] = <<x[2], Verdict(wc)>>]
  BY DEF PollOutbound, wc
<1> QED
  BY <1>3, <1>4, <1>5

\* SetValue gives the promise what the completion said.
LEMMA AckSetValue ==
  ASSUME FlowInv, FlowInv', \A c \in Conns : Grows(c), AckOK, PromTyped, NEW c \in Conns, SetValue(c)
  PROVE  AckOK'
<1>1. took[c] # <<>> /\ took[c] \in Sends \X BOOLEAN
  BY DEF SetValue, PromTyped
<1>2. PICK s \in Sends, ok \in BOOLEAN : took[c] = <<s, ok>> /\ took[c][1] = s /\ took[c][2] = ok
  <2>1. PICK s \in Sends, ok \in BOOLEAN : took[c] = <<s, ok>>
    BY <1>1
  <2> QED
    BY <2>1, PairParts, ZenonT(40)
<1>3. \A d \in Conns : \A r : Reached(d, r) => Reached(d, r)'
  BY ReachedStays
<1>4. took'[c] = <<>> /\ \A d \in Conns : d # c => took'[d] = took[d]
  BY DEF SetValue, PromTyped
<1>5. \A r \in Sends : prom'[r] = "ok" => prom[r] = "ok" \/ (r = s /\ ok)
  BY <1>2 DEF SetValue, Set, PromTyped
<1>6. ok => Reached(c, s)
  BY <1>1, <1>2, ZenonT(40) DEF AckOK
<1>7. \A r \in Sends : prom'[r] = "ok" => \E d \in Conns : Reached(d, r)'
  BY <1>3, <1>5, <1>6, ZenonT(40) DEF AckOK
<1>8. (\A d \in Conns : took[d] # <<>> /\ took[d][2] => Reached(d, took[d][1]))'
  BY <1>3, <1>4, ZenonT(40) DEF AckOK
<1> QED
  BY <1>7, <1>8, ZenonT(40) DEF AckOK

\* Every step keeps what is said of the promises that are set.
LEMMA AckStep ==
  ASSUME IndInv, FlowInv, FlowInv', \A c \in Conns : Grows(c), AckOK, PromTyped, [Next]_vars
  PROVE  AckOK'
<1>1. ASSUME NEW w \in Workers, NEW v \in {"unset", "failed"}, UNCHANGED took,
             \/ prom' = prom
             \/ \E s \in Sends : prom' = [prom EXCEPT ![s] = v]
             \/ \E s : prom' = Set(prom, s, v)
      PROVE  AckOK'
  <2>1. \A s \in Sends : prom'[s] = "ok" => prom[s] = "ok"
    BY <1>1 DEF PromTyped, Set
  <2> QED
    BY <1>1, <2>1, AckKept
<1>2. ASSUME NEW w \in Workers, StartSend(w) \/ TooLarge(w) \/ SendStep(w)
      PROVE  AckOK'
  <2>1. UNCHANGED took
    BY <1>2, ZenonT(40) DEF StartSend, TooLarge, SendStep, Recheck, Dial, DialRefused, Emplace, GiveUp,
                AcquireBuffer, PostSend, PostFails, FutureReady, UseAfterTeardown, local
  <2>2. \/ prom' = prom
        \/ \E s \in Sends : prom' = [prom EXCEPT ![s] = "unset"] \/ prom' = [prom EXCEPT ![s] = "failed"]
        \/ \E s : prom' = Set(prom, s, "failed")
    BY <1>2, ZenonT(40) DEF StartSend, TooLarge, SendStep, Recheck, Dial, DialRefused, Emplace, GiveUp,
                AcquireBuffer, PostSend, PostFails, FutureReady, UseAfterTeardown, Accepted
  <2> QED
    BY <1>1, <2>1, <2>2
<1>3. ASSUME NEW c \in Conns,
             \/ (\E how \in {"exited", "failed"} : PollerEnds(c, how) \/ InboundEnds(c, how))
             \/ PeerStep(c) \/ Transmit(c) \/ Break(c)
      PROVE  AckOK'
  <2>1. UNCHANGED <<prom, took>>
    BY <1>3 DEF PollerEnds, InboundEnds, PeerStep, PollInbound, HandleRecv, Transmit, Break, local
  <2> QED
    BY <2>1, AckKept
<1>4. ASSUME Shutdown \/ Destroy \/ Teardown \/ UNCHANGED vars
      PROVE  AckOK'
  <2>1. UNCHANGED took /\ \A s \in Sends : prom'[s] = "ok" => prom[s] = "ok"
    BY <1>4 DEF Shutdown, Destroy, Teardown, vars, local
  <2> QED
    BY <2>1, AckKept
<1>5. ASSUME NEW c \in Conns, PollerStep(c)
      PROVE  AckOK'
  BY <1>3, <1>5, AckPoll, AckSetValue DEF PollerStep
<1> QED
  BY <1>2, <1>3, <1>4, <1>5 DEF Next

\* At the start nothing is posted.
LEMMA FlowInit == Init => FlowInv /\ AckOK
<1> SUFFICES ASSUME Init
             PROVE  FlowInv /\ AckOK
  OBVIOUS
<1>1. RecvBufs \in Nat
  BY IbverbsAssumption
<1>2. <<>> \in Seq(Msgs) /\ <<>> \in Seq(Slots) /\ Len(<<>>) = 0 /\ \A i : i \notin 1 .. 0
  BY Nothing
<1>3. [pc |-> "none", buf |-> 0] \in PeerRecs /\ [pc |-> "none", buf |-> 0].pc = "none"
  BY PeerRecords, ZenonT(40)
<1>4. /\ hist = [posted |-> [c \in Conns |-> <<>>], got |-> [c \in Conns |-> <<>>]]
      /\ hist.posted = [c \in Conns |-> <<>>] /\ hist.got = [c \in Conns |-> <<>>]
  BY DEF Init
<1>5. FlowTyped
  BY <1>2, <1>3, <1>4 DEF Init, FlowTyped, Slots, Msgs
<1>6. ASSUME NEW c \in Conns
      PROVE  Flow(c)
  <2>1. /\ hist.posted[c] = <<>> /\ hist.got[c] = <<>> /\ rcq[c] = <<>> /\ rq[c] = <<>>
        /\ rpoll[c].pc = "none" /\ cq[c] = <<>> /\ st[c] = "new" /\ took[c] = <<>>
    BY <1>3, <1>4 DEF Init
  <2>2. Waiting(c) = <<>> /\ rmem[c] \in [Slots -> Msgs]
    BY <1>5, <2>1 DEF Waiting, Wait, FlowTyped
  <2>3. Stream("new", <<>>, <<>>, <<>>, <<>>, rmem[c], sq[c], <<>>, mem[c])
    <3>1. InOrder("new", <<>>, <<>>, <<>>, rmem[c], sq[c], mem[c])
      BY NothingPosted, ZenonT(40)
    <3>2. Acked(<<>>, Len(<<>>) + Len(<<>>), <<>>, mem[c]) /\ Apart(<<>>, <<>>)
      BY EmptyDomain DEF Acked, Apart
    <3> QED
      BY <1>2, <2>2, <3>1, <3>2 DEF Stream, StreamTypes
  <2> QED
    BY <2>1, <2>2, <2>3 DEF Flow
<1>7. AckOK
  BY DEF Init, AckOK
<1> QED
  BY <1>5, <1>6, <1>7 DEF FlowInv

\* The messages of every Conn keep their order on the way from ibv_post_send to on_receive,
\* and a promise is set to true only when its message has landed.
LEMMA FlowHolds == Spec => [](FlowInv /\ AckOK)
<1> DEFINE I == IndInv /\ Owned /\ Joining
           J == FlowInv /\ AckOK
<1>1. Spec => []I
  BY IndInvHolds, OwnedHolds, PTL
<1>2. Init => J
  BY FlowInit
<1>3. I /\ J /\ [Next]_vars => J'
  BY FlowStep, AckStep DEF Owned
<1> HIDE DEF I, J
<1>4. Spec => []J
  BY <1>1, <1>2, <1>3, PTL DEF Spec
<1> QED
  BY <1>4, PTL DEF J

\* on_receive sees the messages of a Conn in the order they were posted, each once and none
\* left out, for any number of send and receive buffers, workers, messages and broken links:
\* a receive buffer is in one place at a time, and a send buffer is not written before its
\* message has left.
THEOREM DeliveredInOrderHolds == Spec => []DeliveredInOrder
<1>1. FlowInv => DeliveredInOrder
  <2> SUFFICES ASSUME FlowInv, NEW c \in Conns
               PROVE  /\ Len(hist.got[c]) <= Len(hist.posted[c])
                      /\ \A i \in 1 .. Len(hist.got[c]) : hist.got[c][i] = hist.posted[c][i]
    BY DEF DeliveredInOrder
  <2>1. InOrder(st[c], hist.posted[c], hist.got[c], Waiting(c), rmem[c], sq[c], mem[c])
    BY DEF FlowInv, Flow, Stream
  <2>2. Len(hist.got[c]) + Len(Waiting(c)) <= Len(hist.posted[c])
    BY <2>1 DEF InOrder
  <2>3. Len(hist.got[c]) \in Nat /\ Len(Waiting(c)) \in Nat /\ Len(hist.posted[c]) \in Nat
    BY FlowTypes, Lengths, ZenonT(40)
  <2>4. Len(hist.got[c]) <= Len(hist.posted[c])
    BY <2>2, <2>3, Prefix, ZenonT(40)
  <2> QED
    BY <2>1, <2>4 DEF InOrder
<1> QED
  BY <1>1, FlowHolds, PTL

\* A message that reached the peer, in the words of AckMeansLanded.
LEMMA ReachedIsLanded ==
  ASSUME FlowInv, NEW c \in Conns, NEW s, Reached(c, s)
  PROVE  s \in Landed(c)
<1> DEFINE G == hist.got[c]
           W == Waiting(c)
           X == hist.posted[c]
<1>1. PICK i \in 1 .. Len(G) + Len(W) : X[i] = s
  BY DEF Reached, Among, Arrived
<1>2. /\ G \in Seq(Msgs) /\ W \in Seq(Slots) /\ rcq[c] \in Seq(Slots)
      /\ rpoll[c].pc = "handle" => rpoll[c].buf \in Slots
  BY FlowTypes
<1>3. InOrder(st[c], X, G, W, rmem[c], sq[c], mem[c])
  BY DEF FlowInv, Flow, Stream
<1> HIDE DEF G, W, X
<1>4. CASE i <= Len(G)
  <2>1. i \in 1 .. Len(G) /\ i \in DOMAIN G
    BY <1>1, <1>2, <1>4, Lengths, Prefix, ZenonT(40)
  <2>2. G[i] = s
    BY <1>1, <1>3, <2>1 DEF InOrder
  <2> QED
    BY <2>1, <2>2 DEF Landed, Range, G
<1>5. CASE ~(i <= Len(G))
  <2>1. PICK j \in 1 .. Len(W) : i = Len(G) + j
    <3>1. i - Len(G) \in 1 .. Len(W) /\ i = Len(G) + (i - Len(G))
      BY <1>1, <1>2, <1>5, Lengths, Prefix, ZenonT(40)
    <3> QED
      BY <3>1
  <2>2. rmem[c][W[j]] = s
    BY <1>1, <1>3, <2>1 DEF InOrder
  <2>3. CASE rpoll[c].pc = "handle"
    <3>1. W = <<rpoll[c].buf>> \o rcq[c]
      BY <2>3 DEF W, Waiting, Wait
    <3>2. rpoll[c].buf \in Slots /\ rcq[c] \in Seq(Slots)
      BY <1>2, <2>3
    <3>3. W[j] = rpoll[c].buf \/ \E k \in DOMAIN rcq[c] : W[j] = rcq[c][k]
      BY <2>1, <3>1, <3>2, WaitElements, ZenonT(40)
    <3> QED
      BY <2>2, <2>3, <3>3 DEF Landed, Range
  <2>4. CASE rpoll[c].pc # "handle"
    <3>1. W = rcq[c]
      BY <2>4 DEF W, Waiting, Wait
    <3>2. j \in DOMAIN rcq[c]
      BY <1>2, <2>1, <3>1, Lengths, ZenonT(40)
    <3> QED
      BY <2>2, <3>1, <3>2 DEF Landed, Range
  <2> QED
    BY <2>3, <2>4
<1> QED
  BY <1>4, <1>5

\* A Send whose future says true is one whose message reached the peer, however links break
\* and Conns come and go: the adapter completes a send without error only once it has landed,
\* and the completion is matched with the promise of the message that its buffer held.
THEOREM AckMeansLandedHolds == Spec => []AckMeansLanded
<1>1. FlowInv /\ AckOK => AckMeansLanded
  BY ReachedIsLanded DEF AckOK, AckMeansLanded
<1> QED
  BY <1>1, FlowHolds, PTL
=============================================================================
