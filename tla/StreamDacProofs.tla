--------------------------- MODULE StreamDacProofs ---------------------------
(***************************************************************************)
(* Proofs about StreamDac with one client, for any backlog, any number of  *)
(* buffers of the distributor, of opens and of pairs written: a buffer has *)
(* one owner, what is played is what was written, and a stream that has    *)
(* ended leaves the DMAC idle.                                             *)
(***************************************************************************)
EXTENDS StreamDac, SequenceTheorems, FiniteSetTheorems, TLAPS

\* One process has the device.  (The test of bq_clients in
\* acq400_streamdac_open() and bqw_init() are two steps: a second process may
\* come between them, and then two clients hold all the buffers each.)
OneClient == \A c, d \in Clients : c = d

----------------------------------------------------------------------------
(* The inductive invariant.                                                *)

CallTypes ==
  /\ bq_clients \subseteq Clients
  /\ refills \in Queue /\ empties \in [Clients -> Queue]
  /\ worker_done \in [Clients -> BOOLEAN] /\ f_pos \in [Clients -> BOOLEAN]
  /\ pc \in [Clients -> {"closed", "init", "idle", "write", "join", "wait"}]
  /\ todo \in [Clients -> Nat] /\ app \in [Clients -> Seq(Buffers)]
  /\ wseq \in Seq(Buffers)

LoopSteps ==
  {"none", "created", "prime", "ready", "dec", "sync", "stall", "push", "quit", "drain", "ddec",
   "exited"}

WorkerTypes ==
  /\ wpc \in LoopSteps
  /\ pdesc \in Clients
  /\ ic \in 0 .. 1 /\ ab \in [0 .. 1 -> Buffers] /\ hbm \in Buffers
  /\ last_push \in {"LP_IDLE", "LP_REQUEST", "LP_DONE"}
  /\ dma_buffers_out \in Nat /\ dma_buffers_in \in Nat /\ dma_callback_done \in Nat
  /\ wpc \in {"dec", "ddec"} => ldone >= 1
  /\ chan \in [0 .. 1 -> Seq(Transfers)] /\ event \in [0 .. 1 -> BOOLEAN] /\ nplayed \in Nat
  /\ ldone \in Nat /\ callbacks \in Nat /\ lost \in Nat /\ left \in BOOLEAN
  /\ cdone = << >> \/ \E n \in Nat : cdone = <<n>>

StreamTypeOK == CallTypes /\ WorkerTypes

\* The worker's thread exists, and it plays or ends.
Alive == wpc \notin {"none", "exited"}
Playing == wpc \in {"ready", "dec", "sync", "stall", "push", "quit", "drain", "ddec"}

\* A worker lives no longer than the file it was started by.
Calls(c) ==
  /\ c \in bq_clients <=> pc[c] \in {"idle", "write", "join", "wait"}
  /\ Alive => sd_task /\ f_pos[c] /\ ~worker_done[c] /\ pc[c] \in {"idle", "write", "join"}
  /\ wpc = "none" => ~f_pos[c]
  /\ c \in bq_clients /\ ~f_pos[c] => ~worker_done[c]
  /\ pc[c] = "write" => 2 * todo[c] <= Len(app[c])

CallsInv == \A c \in Clients : Calls(c)

\* The other channel, whose transfer comes after that of channel ic.
other == 1 - ic
Idle(i) == chan[i] = << >>
Pending == Len(chan[0]) + Len(chan[1])

\* Where the loop is tells how many transfers it has still to count.
LoopInv ==
  /\ wpc = "prime" => dma_buffers_out = 0 /\ dma_buffers_in = 0 /\ ic = 0
  /\ wpc \in {"prime", "ready", "dec", "sync", "stall"} => last_push = "LP_IDLE"
  /\ wpc \in {"ready", "dec"} => dma_buffers_out = dma_buffers_in + 2
  /\ wpc \in {"sync", "stall", "push"} => dma_buffers_out = dma_buffers_in + 1
  /\ wpc = "push" => last_push # "LP_DONE"

\* The DMAC is idle before the stream and after it.
RestInv == ~left /\ ~Playing => \A i \in 0 .. 1 : Idle(i) /\ ~event[i]

\* Each channel has one transfer at most; channel ic is first, and the event
\* that the next transfer waits for is the only one that can be set.  None of
\* it depends on the count of callbacks.
TurnInv ==
  ~left /\ Playing =>
    /\ \A i \in 0 .. 1 : Len(chan[i]) <= 1
    /\ Idle(other) => Idle(ic)
    /\ ~Idle(ic) => (Head(chan[ic]).wait <=> event[ic]) /\ ~event[other] /\ Head(chan[ic]).set
    /\ ~Idle(other) => Head(chan[other]).wait
    /\ Idle(ic) /\ ~Idle(other) => event[other] /\ ~event[ic]
    /\ Idle(other) => ~event[other] /\ (event[ic] <=> Running)
    /\ Running /\ ~Idle(other) => Head(chan[other]).set
    /\ ~Running /\ ~Idle(other) => ~Head(chan[other]).set
    /\ wpc \in {"stall", "push"} => Idle(ic)

\* Until an update of dma_callback_done is lost, a transfer that was pushed is
\* pending, or its callback is, or it is counted, or it was counted in; and no
\* stream is over before its transfers are.
CountInv ==
  lost = 0 =>
    /\ ~left
    /\ Playing =>
         dma_buffers_out = dma_buffers_in + dma_callback_done + callbacks + Len(cdone) + Pending
    /\ ~Playing => dma_callback_done = 0 /\ callbacks = 0 /\ cdone = << >>

\* A refill that was seen is still there when it is taken.
RefillInv == wpc = "push" /\ last_push = "LP_IDLE" => BQ_count(refills) >= 1

\* The members of a list of buffers.
On(s, b) == \E i \in 1 .. Len(s) : s[i] = b
NoRepeat(s) == \A i, j \in 1 .. Len(s) : s[i] = s[j] => i = j
Apart(s, t) == \A b \in Buffers : ~(On(s, b) /\ On(t, b))

\* What is outside the worker's hands: with the application, and in the queues.
Places(a, e, r) ==
  NoRepeat(a) /\ NoRepeat(e) /\ NoRepeat(r) /\ Apart(a, e) /\ Apart(a, r) /\ Apart(e, r)
Somewhere(a, e, r, b) == On(a, b) \/ On(e, b) \/ On(r, b)

Total(a, e, r) == Len(a) + Len(e) + Len(r)

\* All the buffers are outside until the first two refills prime the DMAC.
Fresh(c) == ~f_pos[c] \/ wpc \in {"created", "prime"}

\* A channel whose buffer is the stream's.
Held(i) == ~left /\ ~Idle(i)

\* What the lists of client c are: a, what the application has, e, its empties,
\* and r, the refills.
Share(c, a, e, r) ==
  /\ Places(a, e, r)
  /\ \A i \in 0 .. 1 : Held(i) => ~Somewhere(a, e, r, Head(chan[i]).buf)
  /\ Fresh(c) => Total(a, e, r) = limit /\ \A b \in Buffers : Somewhere(a, e, r, b)
  /\ Running =>
       /\ Total(a, e, r) + 2 = limit
       /\ ab[0] # ab[1] /\ ~Somewhere(a, e, r, ab[0]) /\ ~Somewhere(a, e, r, ab[1])
       /\ hbm = ab[other]
       /\ \A b \in Buffers : Somewhere(a, e, r, b) \/ b \in {ab[0], ab[1]}
       /\ \A i \in 0 .. 1 : Held(i) => Head(chan[i]).buf = ab[i]
  /\ ~f_pos[c] => Len(a) % 2 = 0 /\ Len(r) % 2 = 0

PlacesInv ==
  \A c \in bq_clients : Share(c, app[c], BQ_items(empties[c]), BQ_items(refills))

\* A list is the end of another.
Suffix(r, w) == Len(r) <= Len(w) /\ \A i \in 1 .. Len(r) : r[i] = w[Len(w) - Len(r) + i]

\* With the refills r and what was written, w: the refills are what was written
\* last, and the pending transfers what was written before that.
Order(c, r, w) ==
  /\ Suffix(r, w)
  /\ Fresh(c) => nplayed = 0 /\ Len(w) = Len(r)
  /\ Running =>
       /\ Len(w) = nplayed + Pending + Len(r)
       /\ nplayed + Pending >= 1 /\ hbm = w[nplayed + Pending]
  /\ Playing =>
       /\ nplayed + Pending >= 1 \/ Pending = 0
       /\ ~Idle(ic) => nplayed + 1 <= Len(w) /\ Head(chan[ic]).buf = w[nplayed + 1]
       /\ ~Idle(other) =>
            LET k == nplayed + Pending
            IN  \/ k <= Len(w) /\ Head(chan[other]).buf = w[k]
                \/ /\ ~Head(chan[other]).set
                   /\ k - 1 \in 1 .. Len(w) /\ Head(chan[other]).buf = w[k - 1]

OrderInv == ~left => \A c \in bq_clients : Order(c, BQ_items(refills), wseq)

StreamInv ==
  /\ StreamTypeOK /\ CallsInv /\ LoopInv /\ RestInv /\ TurnInv /\ CountInv
  /\ RefillInv /\ PlacesInv /\ OrderInv

----------------------------------------------------------------------------
(* The rings.                                                              *)

LEMMA Sizes ==
  /\ backlog \in Nat /\ backlog >= 2 /\ backlog % 2 = 0
  /\ limit \in Nat /\ limit >= 1 /\ limit <= backlog - 1
  /\ 0 \in Buffers /\ Buffers \subseteq Nat
  <1>1. backlog \in Nat /\ backlog >= 2 /\ backlog % 2 = 0
    BY StreamDacAssumption
  <1>2. limit \in Nat /\ limit >= 1 /\ limit <= backlog - 1
    BY <1>1, StreamDacAssumption DEF limit
  <1>3. QED
    BY <1>1, <1>2 DEF Buffers

\* The remainders of the cursor arithmetic.
LEMMA RingArithmetic ==
  ASSUME NEW L \in Nat, L >= 2, NEW x \in 0 .. L - 1, NEW y \in 0 .. L - 1
  PROVE  /\ (x + 1) % L = IF x + 1 = L THEN 0 ELSE x + 1
         /\ (x - y) % L = IF x >= y THEN x - y ELSE x - y + L
         /\ (x + y) % L = IF x + y < L THEN x + y ELSE x + y - L
         /\ (x - (y + 1)) % L = L - 1 - ((y - x) % L)
  <1>1. (x + 1) % L = IF x + 1 = L THEN 0 ELSE x + 1
    OBVIOUS
  <1>2. (x - y) % L = IF x >= y THEN x - y ELSE x - y + L
    OBVIOUS
  <1>3. (x + y) % L = IF x + y < L THEN x + y ELSE x + y - L
    OBVIOUS
  <1>4. (y - x) % L = IF y >= x THEN y - x ELSE y - x + L
    OBVIOUS
  <1>5. (x - (y + 1)) % L = IF x >= y + 1 THEN x - (y + 1) ELSE x - (y + 1) + L
    OBVIOUS
  <1>6. QED
    BY <1>1, <1>2, <1>3, <1>4, <1>5

\* The fields of a queue.
LEMMA RingFields ==
  ASSUME NEW q \in Queue
  PROVE  /\ q.head \in 0 .. backlog - 1 /\ q.tail \in 0 .. backlog - 1
         /\ q.buf \in [0 .. backlog - 1 -> Buffers] /\ q.bq_len = backlog
  BY DEF Queue

\* Position i of what a queue holds, from 1.
Slot(q, i) == IF q.tail + i - 1 < backlog THEN q.tail + i - 1 ELSE q.tail + i - 1 - backlog

\* What CIRC_CNT() and CIRC_SPACE() count, and where it is.
LEMMA RingCounts ==
  ASSUME NEW q \in Queue
  PROVE  /\ BQ_count(q) \in 0 .. backlog - 1
         /\ BQ_count(q) = IF q.head >= q.tail THEN q.head - q.tail ELSE q.head - q.tail + backlog
         /\ BQ_space(q) = backlog - 1 - BQ_count(q)
         /\ BQ_items(q) \in Seq(Buffers) /\ Len(BQ_items(q)) = BQ_count(q)
         /\ \A i \in 1 .. BQ_count(q) :
              Slot(q, i) \in 0 .. backlog - 1 /\ BQ_items(q)[i] = q.buf[Slot(q, i)]
  <1> DEFINE L == backlog
             h == q.head
             t == q.tail
  <1>1. L \in Nat /\ L >= 2 /\ h \in 0 .. L - 1 /\ t \in 0 .. L - 1 /\ q.bq_len = L
    BY RingFields, Sizes
  <1>2. BQ_count(q) = (h - t) % L /\ BQ_space(q) = (t - (h + 1)) % L
    BY <1>1 DEF BQ_count, BQ_space
  <1>3. q.buf \in [0 .. L - 1 -> Buffers]
    BY RingFields
  <1>4. Slot(q, 1) = t /\ \A i \in Nat : Slot(q, i) = IF t + i - 1 < L THEN t + i - 1 ELSE t + i - 1 - L
    BY <1>1 DEF Slot
  <1> HIDE DEF L, h, t
  <1>5. (h - t) % L = (IF h >= t THEN h - t ELSE h - t + L) /\ (t - (h + 1)) % L = L - 1 - ((h - t) % L)
    BY <1>1, RingArithmetic
  <1>6. BQ_count(q) = (IF h >= t THEN h - t ELSE h - t + L) /\ BQ_space(q) = L - 1 - BQ_count(q)
    BY <1>2, <1>5
  <1>7. BQ_count(q) \in 0 .. L - 1
    BY <1>1, <1>6
  <1>8. ASSUME NEW i \in 1 .. BQ_count(q)
        PROVE  /\ Slot(q, i) \in 0 .. L - 1 /\ (t + i - 1) % L = Slot(q, i)
               /\ q.buf[Slot(q, i)] \in Buffers
    <2>1. i - 1 \in 0 .. L - 1
      BY <1>1, <1>7
    <2>2. (t + (i - 1)) % L = IF t + (i - 1) < L THEN t + (i - 1) ELSE t + (i - 1) - L
      BY <1>1, <2>1, RingArithmetic
    <2>3. t + (i - 1) = t + i - 1
      BY <1>1, <2>1
    <2>4. (t + i - 1) % L = Slot(q, i)
      BY <1>4, <2>1, <2>2, <2>3
    <2>5. Slot(q, i) \in 0 .. L - 1
      BY <1>1, <1>4, <2>1
    <2>6. QED
      BY <1>3, <2>4, <2>5
  <1>9. BQ_items(q) = [i \in 1 .. BQ_count(q) |-> q.buf[Slot(q, i)]]
    BY <1>1, <1>8 DEF BQ_items, t
  <1> HIDE DEF Slot
  <1>10. BQ_items(q) \in Seq(Buffers) /\ Len(BQ_items(q)) = BQ_count(q)
    BY <1>7, <1>8, <1>9
  <1>11. \A i \in 1 .. BQ_count(q) : BQ_items(q)[i] = q.buf[Slot(q, i)]
    BY <1>9
  <1>12. QED
    BY <1>6, <1>7, <1>8, <1>10, <1>11 DEF L, h, t

\* A queue by its fields.
LEMMA RingMade ==
  ASSUME NEW h \in 0 .. backlog - 1, NEW t \in 0 .. backlog - 1,
         NEW b \in [0 .. backlog - 1 -> Buffers]
  PROVE  LET r == [head |-> h, tail |-> t, buf |-> b, bq_len |-> backlog]
         IN  r \in Queue /\ r.head = h /\ r.tail = t /\ r.buf = b
  BY DEF Queue

LEMMA RingWithHead ==
  ASSUME NEW q \in Queue, NEW h \in 0 .. backlog - 1
  PROVE  LET r == [q EXCEPT !.head = h]
         IN  r \in Queue /\ r.head = h /\ r.tail = q.tail /\ r.buf = q.buf /\ r.bq_len = backlog
  BY DEF Queue

LEMMA RingWithTail ==
  ASSUME NEW q \in Queue, NEW t \in 0 .. backlog - 1
  PROVE  LET r == [q EXCEPT !.tail = t]
         IN  r \in Queue /\ r.head = q.head /\ r.tail = t /\ r.buf = q.buf /\ r.bq_len = backlog
  BY DEF Queue

LEMMA RingWithBuf ==
  ASSUME NEW q \in Queue, NEW b \in [0 .. backlog - 1 -> Buffers]
  PROVE  LET r == [q EXCEPT !.buf = b]
         IN  r \in Queue /\ r.head = q.head /\ r.tail = q.tail /\ r.buf = b /\ r.bq_len = backlog
  BY DEF Queue

\* An empty queue holds nothing.
LEMMA RingEmpty ==
  ASSUME NEW q \in Queue, q.head = q.tail
  PROVE  BQ_count(q) = 0 /\ BQ_items(q) = << >>
  <1>1. BQ_count(q) = 0
    BY RingCounts, RingFields, Sizes
  <1>2. BQ_items(q) \in Seq(Buffers) /\ Len(BQ_items(q)) = 0
    BY <1>1, RingCounts
  <1>3. QED
    BY <1>1, <1>2

\* BQ_init() and BQ_clear().
LEMMA RingInit ==
  BQ_init(backlog) \in Queue /\ BQ_count(BQ_init(backlog)) = 0 /\ BQ_items(BQ_init(backlog)) = << >>
  <1> DEFINE q == BQ_init(backlog)
             b == [i \in 0 .. backlog - 1 |-> 0]
  <1>1. b \in [0 .. backlog - 1 -> Buffers] /\ 0 \in 0 .. backlog - 1
    BY Sizes
  <1>2. q = [head |-> 0, tail |-> 0, buf |-> b, bq_len |-> backlog]
    BY DEF BQ_init
  <1> HIDE DEF q, b
  <1>3. q \in Queue /\ q.head = q.tail
    BY <1>1, <1>2, RingMade
  <1>4. QED
    BY <1>3, RingEmpty DEF q

LEMMA RingClear ==
  ASSUME NEW q \in Queue
  PROVE  BQ_clear(q) \in Queue /\ BQ_count(BQ_clear(q)) = 0 /\ BQ_items(BQ_clear(q)) = << >>
  <1> DEFINE m == [q EXCEPT !.head = 0]
             r == [m EXCEPT !.tail = 0]
  <1>1. 0 \in 0 .. backlog - 1
    BY Sizes
  <1>2. m \in Queue /\ m.head = 0
    BY <1>1, RingWithHead
  <1>3. BQ_clear(q) = r
    BY DEF BQ_clear, Queue
  <1> HIDE DEF m
  <1>4. r \in Queue /\ r.head = r.tail
    <2>1. r \in Queue /\ r.head = m.head /\ r.tail = 0
      BY <1>1, <1>2, RingWithTail
    <2>2. QED
      BY <1>2, <2>1
  <1>5. QED
    BY <1>3, <1>4, RingEmpty

\* The queue of empties as an open fills it.
LEMMA RingFull ==
  /\ Full(backlog) \in Queue /\ BQ_count(Full(backlog)) = limit
  /\ BQ_items(Full(backlog)) = [i \in 1 .. limit |-> i - 1]
  <1> DEFINE q == Full(backlog)
             b == [i \in 0 .. backlog - 1 |-> IF i < limit THEN i ELSE 0]
  <1>1. b \in [0 .. backlog - 1 -> Buffers] /\ 0 \in 0 .. backlog - 1 /\ limit \in 0 .. backlog - 1
    BY Sizes DEF Buffers
  <1>2. q = [head |-> limit, tail |-> 0, buf |-> b, bq_len |-> backlog]
    BY DEF Full
  <1>3. \A i \in 0 .. limit - 1 : b[i] = i
    BY Sizes
  <1> HIDE DEF q, b
  <1>4. q \in Queue /\ q.head = limit /\ q.tail = 0 /\ q.buf = b
    BY <1>1, <1>2, RingMade
  <1>5. BQ_count(q) = limit
    BY <1>4, RingCounts, Sizes
  <1>6. \A i \in 1 .. limit : Slot(q, i) = i - 1
    BY <1>4, Sizes DEF Slot
  <1>7. BQ_items(q) \in Seq(Buffers) /\ Len(BQ_items(q)) = limit /\ \A i \in 1 .. limit : BQ_items(q)[i] = i - 1
    <2>1. BQ_items(q) \in Seq(Buffers) /\ Len(BQ_items(q)) = limit
      BY <1>4, <1>5, RingCounts
    <2>2. \A i \in 1 .. limit : BQ_items(q)[i] = b[Slot(q, i)]
      BY <1>4, <1>5, RingCounts
    <2>3. \A i \in 1 .. limit : b[i - 1] = i - 1
      BY <1>3, Sizes
    <2>4. QED
      BY <1>6, <2>1, <2>2, <2>3
  <1>8. BQ_items(q) = [i \in 1 .. limit |-> i - 1]
    BY <1>7
  <1>9. QED
    BY <1>4, <1>5, <1>8 DEF q

\* BQ_get(): what is taken is the oldest.
LEMMA RingDrop ==
  ASSUME NEW q \in Queue, BQ_count(q) >= 1
  PROVE  /\ BQ_drop(q) \in Queue /\ BQ_count(BQ_drop(q)) = BQ_count(q) - 1
         /\ BQ_items(q) # << >>
         /\ BQ_item(q) = Head(BQ_items(q)) /\ BQ_items(BQ_drop(q)) = Tail(BQ_items(q))
  <1> DEFINE t == BQ_incr(q, q.tail)
             r == [q EXCEPT !.tail = t]
             s == BQ_items(q)
             u == BQ_items(r)
  <1>1. /\ backlog \in Nat /\ backlog >= 2 /\ q.bq_len = backlog
        /\ q.head \in 0 .. backlog - 1 /\ q.tail \in 0 .. backlog - 1
    BY RingFields, Sizes
  <1>2. t = IF q.tail + 1 = backlog THEN 0 ELSE q.tail + 1
    BY <1>1, RingArithmetic DEF BQ_incr
  <1>3. t \in 0 .. backlog - 1
    BY <1>1, <1>2
  <1> HIDE DEF t
  <1>4. r \in Queue /\ r.head = q.head /\ r.tail = t /\ r.buf = q.buf
    BY <1>3, RingWithTail
  <1>5. r = BQ_drop(q)
    BY DEF BQ_drop, t
  <1> HIDE DEF r
  <1>6. BQ_count(r) = BQ_count(q) - 1 /\ BQ_count(q) \in 1 .. backlog - 1
    <2>1. BQ_count(q) = IF q.head >= q.tail THEN q.head - q.tail ELSE q.head - q.tail + backlog
      BY RingCounts
    <2>2. BQ_count(r) = IF q.head >= t THEN q.head - t ELSE q.head - t + backlog
      BY <1>4, RingCounts
    <2>3. BQ_count(q) \in 0 .. backlog - 1
      BY RingCounts
    <2>4. QED
      BY <1>1, <1>2, <2>1, <2>2, <2>3
  <1>7. /\ s \in Seq(Buffers) /\ Len(s) = BQ_count(q)
        /\ \A i \in 1 .. BQ_count(q) : s[i] = q.buf[Slot(q, i)]
    BY RingCounts
  <1>8. /\ u \in Seq(Buffers) /\ Len(u) = BQ_count(r)
        /\ \A i \in 1 .. BQ_count(r) : u[i] = q.buf[Slot(r, i)]
    BY <1>4, RingCounts
  <1> HIDE DEF s, u
  <1>9. \A i \in 1 .. BQ_count(r) : Slot(r, i) = Slot(q, i + 1)
    BY <1>1, <1>2, <1>4, <1>6 DEF Slot
  <1>10. s[1] = BQ_item(q)
    <2>1. Slot(q, 1) = q.tail
      BY <1>1 DEF Slot
    <2>2. QED
      BY <1>6, <1>7, <2>1 DEF BQ_item
  <1>11. s # << >> /\ Head(s) = s[1] /\ Tail(s) \in Seq(Buffers) /\ Len(Tail(s)) = Len(s) - 1
    BY <1>6, <1>7
  <1>12. \A i \in 1 .. Len(s) - 1 : Tail(s)[i] = s[i + 1]
    BY <1>7, <1>11
  <1>13. \A i \in 1 .. Len(u) : u[i] = Tail(s)[i]
    BY <1>6, <1>7, <1>8, <1>9, <1>12
  <1>14. u = Tail(s)
    BY <1>6, <1>7, <1>8, <1>11, <1>13, SeqEqual
  <1>15. QED
    BY <1>4, <1>5, <1>6, <1>10, <1>11, <1>14 DEF s, u

\* BQ_put() in a ring that is not full: what is put is the newest.
LEMMA RingPut ==
  ASSUME NEW q \in Queue, NEW x \in Buffers, BQ_count(q) <= backlog - 2
  PROVE  /\ BQ_put(q, x) \in Queue /\ BQ_count(BQ_put(q, x)) = BQ_count(q) + 1
         /\ BQ_items(BQ_put(q, x)) = Append(BQ_items(q), x)
  <1> DEFINE b == [q.buf EXCEPT ![q.head] = x]
             p == [q EXCEPT !.buf = b]
             h == BQ_incr(p, p.head)
             r == [p EXCEPT !.head = h]
             s == BQ_items(q)
             u == BQ_items(r)
  <1>1. /\ backlog \in Nat /\ backlog >= 2 /\ q.bq_len = backlog
        /\ q.head \in 0 .. backlog - 1 /\ q.tail \in 0 .. backlog - 1
        /\ q.buf \in [0 .. backlog - 1 -> Buffers]
    BY RingFields, Sizes
  <1>2. /\ b \in [0 .. backlog - 1 -> Buffers] /\ b[q.head] = x
        /\ \A i \in 0 .. backlog - 1 : i # q.head => b[i] = q.buf[i]
    BY <1>1
  <1>3. p = BQ_store(q, x)
    BY DEF BQ_store
  <1> HIDE DEF b
  <1>4. p \in Queue /\ p.head = q.head /\ p.tail = q.tail /\ p.buf = b /\ p.bq_len = backlog
    BY <1>2, RingWithBuf
  <1>5. r = BQ_put(q, x)
    BY <1>3 DEF BQ_put, BQ_advance
  <1> HIDE DEF p
  <1>6. h = IF q.head + 1 = backlog THEN 0 ELSE q.head + 1
    BY <1>1, <1>4, RingArithmetic DEF BQ_incr
  <1>7. h \in 0 .. backlog - 1
    BY <1>1, <1>6
  <1> HIDE DEF h
  <1>8. r \in Queue /\ r.head = h /\ r.tail = q.tail /\ r.buf = b
    BY <1>4, <1>7, RingWithHead
  <1> HIDE DEF r
  <1>9. BQ_count(r) = BQ_count(q) + 1 /\ BQ_count(q) \in 0 .. backlog - 2
    <2>1. BQ_count(q) = IF q.head >= q.tail THEN q.head - q.tail ELSE q.head - q.tail + backlog
      BY RingCounts
    <2>2. BQ_count(r) = IF h >= q.tail THEN h - q.tail ELSE h - q.tail + backlog
      BY <1>8, RingCounts
    <2>3. BQ_count(q) \in 0 .. backlog - 1
      BY RingCounts
    <2>4. BQ_count(q) \in 0 .. backlog - 2
      BY <1>1, <2>3
    <2>5. CASE q.head + 1 = backlog
      BY <1>1, <1>6, <2>1, <2>2, <2>4, <2>5
    <2>6. CASE q.head + 1 # backlog
      BY <1>1, <1>6, <2>1, <2>2, <2>4, <2>6
    <2>7. QED
      BY <2>5, <2>6
  <1>10. \A i \in 1 .. BQ_count(r) : Slot(r, i) = Slot(q, i)
    BY <1>8 DEF Slot
  <1>11. Slot(q, BQ_count(q) + 1) = q.head
    BY <1>1, <1>9, RingCounts DEF Slot
  <1>12. \A i \in 1 .. BQ_count(q) : Slot(q, i) # q.head /\ Slot(q, i) \in 0 .. backlog - 1
    BY <1>1, <1>9, RingCounts DEF Slot
  <1>13. /\ s \in Seq(Buffers) /\ Len(s) = BQ_count(q)
         /\ \A i \in 1 .. BQ_count(q) : s[i] = q.buf[Slot(q, i)]
    BY RingCounts
  <1>14. /\ u \in Seq(Buffers) /\ Len(u) = BQ_count(r)
         /\ \A i \in 1 .. BQ_count(r) : u[i] = b[Slot(r, i)]
    BY <1>8, RingCounts
  <1> HIDE DEF s, u
  <1>15. \A i \in 1 .. BQ_count(q) : u[i] = s[i]
    BY <1>2, <1>9, <1>10, <1>12, <1>13, <1>14
  <1>16. u[BQ_count(q) + 1] = x
    <2>1. BQ_count(q) + 1 \in 1 .. BQ_count(r)
      BY <1>9
    <2>2. QED
      BY <1>2, <1>10, <1>11, <1>14, <2>1
  <1>17. /\ Append(s, x) \in Seq(Buffers) /\ Len(Append(s, x)) = Len(s) + 1
         /\ Append(s, x)[Len(s) + 1] = x /\ \A i \in 1 .. Len(s) : Append(s, x)[i] = s[i]
    BY <1>13
  <1>18. \A i \in 1 .. Len(u) : u[i] = Append(s, x)[i]
    BY <1>9, <1>13, <1>14, <1>15, <1>16, <1>17
  <1>19. u = Append(s, x)
    BY <1>9, <1>13, <1>14, <1>17, <1>18, SeqEqual
  <1>20. QED
    BY <1>5, <1>8, <1>9, <1>19 DEF s, u

----------------------------------------------------------------------------
(* Lists of buffers, and the moves between them.                           *)

LEMMA HeadTailFacts ==
  ASSUME NEW s \in Seq(Buffers), s # << >>
  PROVE  /\ Len(s) \in Nat /\ Len(s) >= 1
         /\ Head(s) = s[1] /\ Head(s) \in Buffers
         /\ Tail(s) \in Seq(Buffers) /\ Len(Tail(s)) = Len(s) - 1
         /\ \A i \in 1 .. Len(s) - 1 : Tail(s)[i] = s[i + 1]
  OBVIOUS

LEMMA AppendFacts ==
  ASSUME NEW s \in Seq(Buffers), NEW x \in Buffers
  PROVE  /\ Append(s, x) \in Seq(Buffers) /\ Len(Append(s, x)) = Len(s) + 1
         /\ \A i \in 1 .. Len(s) : Append(s, x)[i] = s[i]
         /\ Append(s, x)[Len(s) + 1] = x
  OBVIOUS

\* A list without its head.
LEMMA TailMembers ==
  ASSUME NEW s \in Seq(Buffers), s # << >>, NoRepeat(s)
  PROVE  /\ NoRepeat(Tail(s)) /\ ~On(Tail(s), Head(s))
         /\ \A b : On(s, b) <=> b = Head(s) \/ On(Tail(s), b)
  <1>1. NoRepeat(Tail(s))
    BY HeadTailFacts DEF NoRepeat
  <1>2. ~On(Tail(s), Head(s))
    BY HeadTailFacts DEF NoRepeat, On
  <1>3. ASSUME NEW b, On(s, b), b # Head(s) PROVE On(Tail(s), b)
    <2>1. PICK i \in 1 .. Len(s) : s[i] = b
      BY <1>3 DEF On
    <2>2. i # 1
      BY <1>3, <2>1, HeadTailFacts
    <2>3. i - 1 \in 1 .. Len(Tail(s)) /\ Tail(s)[i - 1] = b
      BY <2>1, <2>2, HeadTailFacts
    <2>4. QED
      BY <2>3 DEF On
  <1>4. On(s, Head(s))
    BY HeadTailFacts DEF On
  <1>5. ASSUME NEW b, On(Tail(s), b) PROVE On(s, b)
    <2>1. PICK i \in 1 .. Len(Tail(s)) : Tail(s)[i] = b
      BY <1>5 DEF On
    <2>2. i + 1 \in 1 .. Len(s) /\ s[i + 1] = b
      BY <2>1, HeadTailFacts
    <2>3. QED
      BY <2>2 DEF On
  <1>6. QED
    BY <1>1, <1>2, <1>3, <1>4, <1>5

\* A list and a buffer more.
LEMMA AppendMembers ==
  ASSUME NEW s \in Seq(Buffers), NEW x \in Buffers
  PROVE  /\ \A b : On(Append(s, x), b) <=> On(s, b) \/ b = x
         /\ NoRepeat(s) /\ ~On(s, x) => NoRepeat(Append(s, x))
  <1>1. ASSUME NEW b, On(Append(s, x), b), b # x PROVE On(s, b)
    <2>1. PICK i \in 1 .. Len(s) + 1 : Append(s, x)[i] = b
      BY <1>1, AppendFacts DEF On
    <2>2. i \in 1 .. Len(s) /\ s[i] = b
      BY <1>1, <2>1, AppendFacts
    <2>3. QED
      BY <2>2 DEF On
  <1>2. ASSUME NEW b, On(s, b) PROVE On(Append(s, x), b)
    <2>1. PICK i \in 1 .. Len(s) : s[i] = b
      BY <1>2 DEF On
    <2>2. i \in 1 .. Len(s) + 1 /\ Append(s, x)[i] = b
      BY <2>1, AppendFacts
    <2>3. QED
      BY <2>2, AppendFacts DEF On
  <1>3. On(Append(s, x), x)
    <2>1. Len(s) + 1 \in 1 .. Len(s) + 1
      OBVIOUS
    <2>2. QED
      BY <2>1, AppendFacts DEF On
  <1>4. ASSUME NoRepeat(s), ~On(s, x) PROVE NoRepeat(Append(s, x))
    <2> SUFFICES ASSUME NEW i \in 1 .. Len(s) + 1, NEW j \in 1 .. Len(s) + 1,
                        Append(s, x)[i] = Append(s, x)[j]
                 PROVE  i = j
      BY AppendFacts DEF NoRepeat
    <2>1. CASE i \in 1 .. Len(s) /\ j \in 1 .. Len(s)
      BY <1>4, <2>1, AppendFacts DEF NoRepeat
    <2>2. CASE i \notin 1 .. Len(s) /\ j \in 1 .. Len(s)
      BY <1>4, <2>2, AppendFacts DEF On
    <2>3. CASE i \in 1 .. Len(s) /\ j \notin 1 .. Len(s)
      BY <1>4, <2>3, AppendFacts DEF On
    <2>4. QED
      BY <2>1, <2>2, <2>3
  <1>5. QED
    BY <1>1, <1>2, <1>3, <1>4

LEMMA EmptyMembers == NoRepeat(<< >>) /\ \A b : ~On(<< >>, b)
  <1>1. Len(<< >>) = 0
    OBVIOUS
  <1>2. QED
    BY <1>1 DEF NoRepeat, On

\* The application reads the number of an empty buffer ...
LEMMA MoveRead ==
  ASSUME NEW a \in Seq(Buffers), NEW e \in Seq(Buffers), NEW r \in Seq(Buffers),
         Places(a, e, r), e # << >>
  PROVE  /\ Append(a, Head(e)) \in Seq(Buffers) /\ Tail(e) \in Seq(Buffers)
         /\ Places(Append(a, Head(e)), Tail(e), r)
         /\ \A b : Somewhere(Append(a, Head(e)), Tail(e), r, b) <=> Somewhere(a, e, r, b)
  <1> DEFINE x == Head(e)
             a1 == Append(a, x)
             e1 == Tail(e)
  <1>1. x \in Buffers /\ e1 \in Seq(Buffers)
    BY HeadTailFacts
  <1>2. NoRepeat(a) /\ NoRepeat(e) /\ NoRepeat(r) /\ Apart(a, e) /\ Apart(a, r) /\ Apart(e, r)
    BY DEF Places
  <1>3. NoRepeat(e1) /\ ~On(e1, x) /\ \A b : On(e, b) <=> b = x \/ On(e1, b)
    BY <1>2, TailMembers
  <1>4. ~On(a, x)
    BY <1>1, <1>2, <1>3 DEF Apart
  <1>5. a1 \in Seq(Buffers) /\ NoRepeat(a1) /\ \A b : On(a1, b) <=> On(a, b) \/ b = x
    BY <1>1, <1>2, <1>4, AppendFacts, AppendMembers
  <1> HIDE DEF x, a1, e1
  <1>6. Apart(a1, e1) /\ Apart(a1, r) /\ Apart(e1, r)
    BY <1>2, <1>3, <1>5, Zenon DEF Apart
  <1>7. \A b : Somewhere(a1, e1, r, b) <=> Somewhere(a, e, r, b)
    BY <1>3, <1>5, Zenon DEF Somewhere
  <1>8. QED
    BY <1>1, <1>2, <1>3, <1>5, <1>6, <1>7 DEF Places, x, a1, e1

\* ... and writes it back.
LEMMA MoveWrite ==
  ASSUME NEW a \in Seq(Buffers), NEW e \in Seq(Buffers), NEW r \in Seq(Buffers),
         Places(a, e, r), a # << >>
  PROVE  /\ Tail(a) \in Seq(Buffers) /\ Append(r, Head(a)) \in Seq(Buffers)
         /\ Places(Tail(a), e, Append(r, Head(a)))
         /\ \A b : Somewhere(Tail(a), e, Append(r, Head(a)), b) <=> Somewhere(a, e, r, b)
  <1> DEFINE x == Head(a)
             a1 == Tail(a)
             r1 == Append(r, x)
  <1>1. x \in Buffers /\ a1 \in Seq(Buffers)
    BY HeadTailFacts
  <1>2. NoRepeat(a) /\ NoRepeat(e) /\ NoRepeat(r) /\ Apart(a, e) /\ Apart(a, r) /\ Apart(e, r)
    BY DEF Places
  <1>3. NoRepeat(a1) /\ ~On(a1, x) /\ \A b : On(a, b) <=> b = x \/ On(a1, b)
    BY <1>2, TailMembers
  <1>4. ~On(r, x)
    BY <1>1, <1>2, <1>3 DEF Apart
  <1>5. r1 \in Seq(Buffers) /\ NoRepeat(r1) /\ \A b : On(r1, b) <=> On(r, b) \/ b = x
    BY <1>1, <1>2, <1>4, AppendFacts, AppendMembers
  <1> HIDE DEF x, a1, r1
  <1>6. Apart(a1, e) /\ Apart(a1, r1) /\ Apart(e, r1)
    BY <1>2, <1>3, <1>5, Zenon DEF Apart
  <1>7. \A b : Somewhere(a1, e, r1, b) <=> Somewhere(a, e, r, b)
    BY <1>3, <1>5, Zenon DEF Somewhere
  <1>8. QED
    BY <1>1, <1>2, <1>3, <1>5, <1>6, <1>7 DEF Places, x, a1, r1

\* The worker takes a refill ...
LEMMA MoveTake ==
  ASSUME NEW a \in Seq(Buffers), NEW e \in Seq(Buffers), NEW r \in Seq(Buffers),
         Places(a, e, r), r # << >>
  PROVE  /\ Head(r) \in Buffers /\ Tail(r) \in Seq(Buffers)
         /\ Places(a, e, Tail(r)) /\ ~Somewhere(a, e, Tail(r), Head(r))
         /\ \A b : Somewhere(a, e, r, b) <=> Somewhere(a, e, Tail(r), b) \/ b = Head(r)
  <1> DEFINE x == Head(r)
             r1 == Tail(r)
  <1>1. x \in Buffers /\ r1 \in Seq(Buffers)
    BY HeadTailFacts
  <1>2. NoRepeat(a) /\ NoRepeat(e) /\ NoRepeat(r) /\ Apart(a, e) /\ Apart(a, r) /\ Apart(e, r)
    BY DEF Places
  <1>3. NoRepeat(r1) /\ ~On(r1, x) /\ \A b : On(r, b) <=> b = x \/ On(r1, b)
    BY <1>2, TailMembers
  <1> HIDE DEF x, r1
  <1>4. Apart(a, r1) /\ Apart(e, r1)
    BY <1>2, <1>3, Zenon DEF Apart
  <1>5. ~On(a, x) /\ ~On(e, x)
    BY <1>1, <1>2, <1>3 DEF Apart
  <1>6. ~Somewhere(a, e, r1, x) /\ \A b : Somewhere(a, e, r, b) <=> Somewhere(a, e, r1, b) \/ b = x
    BY <1>3, <1>5, Zenon DEF Somewhere
  <1>7. QED
    BY <1>1, <1>2, <1>3, <1>4, <1>6 DEF Places, x, r1

\* ... and hands a buffer back.
LEMMA MoveBack ==
  ASSUME NEW a \in Seq(Buffers), NEW e \in Seq(Buffers), NEW r \in Seq(Buffers),
         Places(a, e, r), NEW x \in Buffers, ~Somewhere(a, e, r, x)
  PROVE  /\ Append(e, x) \in Seq(Buffers) /\ Places(a, Append(e, x), r)
         /\ \A b : Somewhere(a, Append(e, x), r, b) <=> Somewhere(a, e, r, b) \/ b = x
  <1> DEFINE e1 == Append(e, x)
  <1>1. ~On(a, x) /\ ~On(e, x) /\ ~On(r, x)
    BY DEF Somewhere
  <1>2. NoRepeat(a) /\ NoRepeat(e) /\ NoRepeat(r) /\ Apart(a, e) /\ Apart(a, r) /\ Apart(e, r)
    BY DEF Places
  <1>3. e1 \in Seq(Buffers) /\ NoRepeat(e1) /\ \A b : On(e1, b) <=> On(e, b) \/ b = x
    BY <1>1, <1>2, AppendFacts, AppendMembers
  <1> HIDE DEF e1
  <1>4. Apart(a, e1) /\ Apart(e1, r)
    BY <1>1, <1>2, <1>3, Zenon DEF Apart
  <1>5. \A b : Somewhere(a, e1, r, b) <=> Somewhere(a, e, r, b) \/ b = x
    BY <1>3, Zenon DEF Somewhere
  <1>6. QED
    BY <1>2, <1>3, <1>4, <1>5 DEF Places, e1

\* The refills are dropped.
LEMMA DropRefills ==
  ASSUME NEW a \in Seq(Buffers), NEW e \in Seq(Buffers), NEW r \in Seq(Buffers),
         Places(a, e, r)
  PROVE  /\ Places(a, e, << >>)
         /\ \A b : Somewhere(a, e, << >>, b) => Somewhere(a, e, r, b)
  <1>1. NoRepeat(a) /\ NoRepeat(e) /\ Apart(a, e)
    BY DEF Places
  <1>2. Apart(a, << >>) /\ Apart(e, << >>)
    BY EmptyMembers, Zenon DEF Apart
  <1>3. \A b : Somewhere(a, e, << >>, b) => Somewhere(a, e, r, b)
    BY EmptyMembers, Zenon DEF Somewhere
  <1>4. QED
    BY <1>1, <1>2, <1>3, EmptyMembers DEF Places

\* An open puts all the buffers on the queue of empties.
LEMMA OpenPlaces ==
  /\ Places(<< >>, BQ_items(Full(backlog)), << >>)
  /\ \A b \in Buffers : Somewhere(<< >>, BQ_items(Full(backlog)), << >>, b)
  <1> DEFINE e == [i \in 1 .. limit |-> i - 1]
  <1>1. limit \in Nat /\ Len(e) = limit /\ \A i \in 1 .. limit : e[i] = i - 1
    BY Sizes
  <1>2. BQ_items(Full(backlog)) = e
    BY RingFull
  <1> HIDE DEF e
  <1>3. NoRepeat(e)
    BY <1>1 DEF NoRepeat
  <1>4. ASSUME NEW b \in Buffers PROVE On(e, b)
    <2>1. b + 1 \in 1 .. limit /\ b = (b + 1) - 1
      BY <1>1 DEF Buffers
    <2>2. e[b + 1] = b
      BY <1>1, <2>1
    <2>3. QED
      BY <1>1, <2>1, <2>2 DEF On
  <1>5. Apart(<< >>, e) /\ Apart(e, << >>) /\ Apart(<< >>, << >>)
    BY EmptyMembers, Zenon DEF Apart
  <1>6. QED
    BY <1>2, <1>3, <1>4, <1>5, EmptyMembers DEF Places, Somewhere

\* Two at a time.
LEMMA FirstTwo ==
  ASSUME NEW s \in Seq(Buffers), Len(s) >= 2
  PROVE  /\ s # << >> /\ Tail(s) \in Seq(Buffers) /\ Tail(s) # << >>
         /\ s[1] = Head(s) /\ s[2] = Head(Tail(s))
         /\ SubSeq(s, 3, Len(s)) = Tail(Tail(s)) /\ Len(Tail(Tail(s))) = Len(s) - 2
         /\ SubSeq(s, 1, 2) = <<s[1], s[2]>>
  <1> DEFINE t == Tail(s)
             u == Tail(t)
             v == SubSeq(s, 3, Len(s))
  <1>1. /\ s # << >> /\ Head(s) = s[1] /\ t \in Seq(Buffers) /\ Len(t) = Len(s) - 1
        /\ \A i \in 1 .. Len(s) - 1 : t[i] = s[i + 1]
    BY HeadTailFacts
  <1>2. /\ v \in Seq(Buffers) /\ Len(v) = Len(s) - 2
        /\ \A i \in 1 .. Len(s) - 2 : v[i] = s[i + 2]
    <2>1. Len(s) \in Nat /\ \A i \in 3 .. Len(s) : s[i] \in Buffers
      OBVIOUS
    <2>2. v = [i \in 1 .. Len(s) - 2 |-> s[i + 2]]
      BY <2>1
    <2>3. \A i \in 1 .. Len(s) - 2 : s[i + 2] \in Buffers
      BY <2>1
    <2> HIDE DEF v
    <2>4. QED
      BY <2>1, <2>2, <2>3
  <1> HIDE DEF t
  <1>3. t # << >> /\ t[1] = s[2]
    BY <1>1
  <1>4. /\ Head(t) = t[1] /\ u \in Seq(Buffers) /\ Len(u) = Len(t) - 1
        /\ \A i \in 1 .. Len(t) - 1 : u[i] = t[i + 1]
    BY <1>1, <1>3, HeadTailFacts
  <1> HIDE DEF u, v
  <1>5. \A i \in 1 .. Len(v) : v[i] = u[i]
    <2>1. ASSUME NEW i \in 1 .. Len(s) - 2 PROVE v[i] = u[i]
      <3>1. i + 1 \in 1 .. Len(s) - 1 /\ i \in 1 .. Len(t) - 1 /\ (i + 1) + 1 = i + 2
        BY <1>1
      <3>2. u[i] = t[i + 1] /\ t[i + 1] = s[(i + 1) + 1]
        BY <1>1, <1>4, <3>1
      <3>3. QED
        BY <1>2, <3>1, <3>2
    <2>2. QED
      BY <1>2, <2>1
  <1>6. v = u
    BY <1>1, <1>2, <1>4, <1>5, SeqEqual
  <1>7. SubSeq(s, 1, 2) = <<s[1], s[2]>>
    <2> DEFINE p == SubSeq(s, 1, 2)
               w == <<s[1], s[2]>>
    <2>1. w \in Seq(Buffers) /\ Len(w) = 2 /\ w[1] = s[1] /\ w[2] = s[2]
      OBVIOUS
    <2>2. p \in Seq(Buffers) /\ Len(p) = 2 /\ \A i \in 1 .. 2 : p[i] = s[i]
      OBVIOUS
    <2> HIDE DEF p, w
    <2>3. \A i \in 1 .. Len(p) : p[i] = w[i]
      BY <2>1, <2>2
    <2>4. p = w
      BY <2>1, <2>2, <2>3, SeqEqual
    <2>5. QED
      BY <2>4 DEF p, w
  <1>8. QED
    BY <1>1, <1>2, <1>3, <1>4, <1>6, <1>7 DEF t, u, v

LEMMA TwoMore ==
  ASSUME NEW s \in Seq(Buffers), NEW x \in Buffers, NEW y \in Buffers
  PROVE  /\ s \o <<x, y>> = Append(Append(s, x), y)
         /\ s \o <<x, y>> \in Seq(Buffers) /\ Len(s \o <<x, y>>) = Len(s) + 2
         /\ \A i \in 1 .. Len(s) : (s \o <<x, y>>)[i] = s[i]
         /\ (s \o <<x, y>>)[Len(s) + 1] = x /\ (s \o <<x, y>>)[Len(s) + 2] = y
  OBVIOUS

----------------------------------------------------------------------------
(* Types.                                                                  *)

LEMMA QueueTypes ==
  ASSUME NEW q \in Queue
  PROVE  /\ BQ_item(q) \in Buffers /\ BQ_drop(q) \in Queue
         /\ \A x \in Buffers : BQ_put(q, x) \in Queue
  <1>1. /\ backlog \in Nat /\ backlog >= 2 /\ q.bq_len = backlog
        /\ q.head \in 0 .. backlog - 1 /\ q.tail \in 0 .. backlog - 1
        /\ q.buf \in [0 .. backlog - 1 -> Buffers]
    BY RingFields, Sizes
  <1>2. BQ_item(q) \in Buffers
    BY <1>1 DEF BQ_item
  <1>3. ASSUME NEW x \in 0 .. backlog - 1 PROVE (x + 1) % backlog \in 0 .. backlog - 1
    BY <1>1, <1>3, RingArithmetic
  <1>4. BQ_drop(q) \in Queue
    BY <1>1, <1>3, RingWithTail DEF BQ_drop, BQ_incr
  <1>5. ASSUME NEW x \in Buffers PROVE BQ_put(q, x) \in Queue
    <2> DEFINE b == [q.buf EXCEPT ![q.head] = x]
               p == [q EXCEPT !.buf = b]
    <2>1. b \in [0 .. backlog - 1 -> Buffers]
      BY <1>1
    <2>2. p = BQ_store(q, x)
      BY DEF BQ_store
    <2> HIDE DEF b
    <2>3. p \in Queue /\ p.head = q.head /\ p.bq_len = backlog
      BY <2>1, RingWithBuf
    <2> HIDE DEF p
    <2>4. BQ_incr(p, p.head) \in 0 .. backlog - 1
      BY <1>1, <1>3, <2>3 DEF BQ_incr
    <2>5. [p EXCEPT !.head = BQ_incr(p, p.head)] \in Queue
      BY <2>3, <2>4, RingWithHead
    <2>6. QED
      BY <2>2, <2>5 DEF BQ_put, BQ_advance
  <1>6. QED
    BY <1>2, <1>4, <1>5

LEMMA CallTypesStep ==
  ASSUME StreamTypeOK, CallsInv, Next
  PROVE  CallTypes'
  <1> USE DEF CallTypes
  <1>1. CallTypes
    BY DEF StreamTypeOK
  <1>2. ASSUME NEW c \in Clients, OpenTest(c) PROVE CallTypes'
    BY <1>1, <1>2 DEF OpenTest, Goto, queues, files
  <1>3. ASSUME NEW c \in Clients, OpenInit(c) PROVE CallTypes'
    <2>1. << >> \in Seq(Buffers)
      OBVIOUS
    <2>2. QED
      BY <1>1, <1>3, <2>1, RingFull, RingClear DEF OpenInit, Goto
  <1>4. ASSUME NEW c \in Clients, Read(c) PROVE CallTypes'
    <2> DEFINE e == empties[c]
               d == BQ_drop(e)
    <2>1. e \in Queue /\ app[c] \in Seq(Buffers)
      BY <1>1
    <2>2. BQ_item(e) \in Buffers /\ d \in Queue
      BY <2>1, QueueTypes
    <2>3. BQ_item(d) \in Buffers /\ BQ_drop(d) \in Queue
      BY <2>2, QueueTypes
    <2>4. app[c] \o <<BQ_item(e), BQ_item(d)>> \in Seq(Buffers)
      BY <2>1, <2>2, <2>3, TwoMore
    <2> HIDE DEF d
    <2>5. app' \in [Clients -> Seq(Buffers)] /\ empties' \in [Clients -> Queue]
      BY <1>1, <1>4, <2>3, <2>4 DEF Read, d
    <2>6. QED
      BY <1>1, <1>4, <2>5 DEF Read, files, dmac
  <1>5. ASSUME NEW c \in Clients, NEW k \in 1 .. MaxPairs, Write(c, k) PROVE CallTypes'
    <2>1. k \in Nat
      BY StreamDacAssumption
    <2>2. QED
      BY <1>1, <1>5, <2>1 DEF Write, Goto, queues, files
  <1>6. ASSUME NEW c \in Clients, WritePair(c) PROVE CallTypes'
    <2>1. app[c] \in Seq(Buffers) /\ todo[c] \in Nat /\ todo[c] > 0 /\ 2 * todo[c] <= Len(app[c])
      BY <1>1, <1>6 DEF WritePair, CallsInv, Calls
    <2>2. Len(app[c]) >= 2
      BY <2>1
    <2>3. app[c][1] \in Buffers /\ app[c][2] \in Buffers
      BY <2>1, <2>2
    <2>4. SubSeq(app[c], 3, Len(app[c])) \in Seq(Buffers)
      BY <2>1
    <2>5. SubSeq(app[c], 1, 2) = <<app[c][1], app[c][2]>>
      BY <2>1, <2>2, FirstTwo
    <2>6. wseq \o SubSeq(app[c], 1, 2) \in Seq(Buffers)
      BY <1>1, <2>3, <2>5, TwoMore
    <2>7. BQ_put(BQ_put(refills, app[c][1]), app[c][2]) \in Queue
      <3>1. BQ_put(refills, app[c][1]) \in Queue
        BY <1>1, <2>3, QueueTypes
      <3>2. QED
        BY <2>3, <3>1, QueueTypes
    <2>8. todo[c] - 1 \in Nat
      BY <2>1
    <2>9. refills' \in Queue /\ wseq' \in Seq(Buffers)
      BY <1>6, <2>6, <2>7 DEF WritePair
    <2>10. app' \in [Clients -> Seq(Buffers)] /\ todo' \in [Clients -> Nat]
      BY <1>1, <1>6, <2>4, <2>8 DEF WritePair
    <2>11. UNCHANGED <<bq_clients, empties, worker_done, f_pos, pc>>
      BY <1>6 DEF WritePair, files
    <2>12. QED
      BY <1>1, <2>9, <2>10, <2>11
  <1>7. ASSUME NEW c \in Clients, WriteEnd(c) PROVE CallTypes'
    BY <1>1, <1>7 DEF WriteEnd, Goto, queues
  <1>8. ASSUME NEW c \in Clients, Release(c) PROVE CallTypes'
    BY <1>1, <1>8 DEF Release, Goto, queues, files
  <1>9. ASSUME NEW c \in Clients, Join(c) PROVE CallTypes'
    BY <1>1, <1>9 DEF Join, Goto, queues, files
  <1>10. ASSUME NEW c \in Clients, ReleaseDone(c) \/ ReleaseInterrupted(c) PROVE CallTypes'
    <2>1. << >> \in Seq(Buffers)
      OBVIOUS
    <2>2. Close(c)
      BY <1>10 DEF ReleaseDone, ReleaseInterrupted
    <2>3. QED
      BY <1>1, <2>1, <2>2, RingInit DEF Close, Goto
  <1>11. ASSUME Prime PROVE CallTypes'
    <2>1. BQ_drop(BQ_drop(refills)) \in Queue
      <3>1. BQ_drop(refills) \in Queue
        BY <1>1, QueueTypes
      <3>2. QED
        BY <3>1, QueueTypes
    <2>2. refills' \in Queue
      BY <1>11, <2>1 DEF Prime
    <2>3. UNCHANGED <<bq_clients, empties, worker_done, f_pos, pc, todo, app, wseq>>
      BY <1>11 DEF Prime, files, calls
    <2>4. QED
      BY <1>1, <2>2, <2>3
  <1>12. ASSUME NextPush \/ LastPush PROVE CallTypes'
    <2>1. pdesc \in Clients /\ ic \in 0 .. 1 /\ ab[ic] \in Buffers
      BY DEF StreamTypeOK, WorkerTypes
    <2>2. empties[pdesc] \in Queue
      BY <1>1, <2>1
    <2>3. BQ_put(empties[pdesc], ab[ic]) \in Queue /\ BQ_drop(refills) \in Queue
      BY <1>1, <2>1, <2>2, QueueTypes
    <2>4. PICK l \in BOOLEAN : Turn(l)
      BY <1>12 DEF NextPush, LastPush
    <2>5. refills' \in Queue /\ empties' \in [Clients -> Queue]
      BY <1>1, <2>3, <2>4 DEF Turn
    <2>6. UNCHANGED <<bq_clients, worker_done, f_pos, pc, todo, app, wseq>>
      BY <2>4 DEF Turn, files, calls
    <2>7. QED
      BY <1>1, <2>5, <2>6
  <1>13. ASSUME Quit PROVE CallTypes'
    BY <1>1, <1>13, RingClear DEF Quit, files, calls
  <1>14. ASSUME Drained PROVE CallTypes'
    BY <1>1, <1>14 DEF Drained, queues, calls
  <1>15. ASSUME \/ WorkerRuns \/ WorkerNeverRuns \/ PrimeStop \/ Ready \/ CountIn \/ SyncWait
                \/ SyncTimeout \/ HasRefill \/ Stall \/ Drain \/ Callback
                \/ \E i \in 0 .. 1 : Transfer(i)
         PROVE  CallTypes'
    BY <1>1, <1>15 DEF WorkerRuns, WorkerNeverRuns, PrimeStop, Ready, SyncWait, SyncTimeout, HasRefill,
         Stall, Drain, Callback, CallbackRead, CallbackWrite, CountIn, Transfer, queues, files, calls, dmac
  <1>16. QED
    BY <1>2, <1>3, <1>4, <1>5, <1>6, <1>7, <1>8, <1>9, <1>10, <1>11, <1>12, <1>13, <1>14, <1>15
       DEF Next, Worker

\* A transfer that is pushed.
LEMMA PushTypes ==
  ASSUME StreamTypeOK, NEW i \in 0 .. 1, NEW b \in Buffers, NEW w \in BOOLEAN, NEW s \in BOOLEAN
  PROVE  /\ Push(i, b, w, s) \in Seq(Transfers)
         /\ Len(Push(i, b, w, s)) = Len(chan[i]) + 1
         /\ chan[i] = << >> => Push(i, b, w, s) = <<[buf |-> b, wait |-> w, set |-> s]>>
  <1>1. [buf |-> b, wait |-> w, set |-> s] \in Transfers
    BY DEF Transfers
  <1>2. chan[i] \in Seq(Transfers)
    BY DEF StreamTypeOK, WorkerTypes
  <1> DEFINE t == [buf |-> b, wait |-> w, set |-> s]
  <1>3. Push(i, b, w, s) = Append(chan[i], t)
    BY DEF Push
  <1> HIDE DEF t
  <1>4. Append(chan[i], t) \in Seq(Transfers) /\ Len(Append(chan[i], t)) = Len(chan[i]) + 1
    BY <1>1, <1>2 DEF t
  <1>5. Append(<< >>, t) = <<t>>
    OBVIOUS
  <1>6. QED
    BY <1>3, <1>4, <1>5 DEF t

LEMMA WorkerTypesStep ==
  ASSUME StreamTypeOK, Next
  PROVE  WorkerTypes'
  <1> USE DEF WorkerTypes, LoopSteps
  <1>1. WorkerTypes /\ CallTypes
    BY DEF StreamTypeOK
  <1>2. ASSUME NEW c \in Clients, OpenInit(c) PROVE WorkerTypes'
    BY <1>1, <1>2 DEF OpenInit, locals, counts
  <1>3. ASSUME NEW c \in Clients, WriteEnd(c) PROVE WorkerTypes'
    <2>1. (wpc' = "created" \/ wpc' = wpc) /\ pdesc' \in Clients
      BY <1>1, <1>3 DEF WriteEnd
    <2>2. UNCHANGED <<ic, ab, hbm, last_push, counts, dmac>>
      BY <1>3 DEF WriteEnd
    <2>3. QED
      BY <1>1, <2>1, <2>2 DEF counts, dmac
  <1>4. ASSUME \E c \in Clients : \/ OpenTest(c) \/ Read(c) \/ WritePair(c) \/ Release(c) \/ Join(c)
                                  \/ \E k \in 1 .. MaxPairs : Write(c, k)
                                  \/ ReleaseDone(c) \/ ReleaseInterrupted(c)
        PROVE  WorkerTypes'
    <2>1. UNCHANGED <<wpc, locals, counts, dmac>>
      BY <1>4 DEF OpenTest, Read, WritePair, Release, Join, Write, ReleaseDone, ReleaseInterrupted, Close
    <2>2. QED
      BY <1>1, <2>1 DEF locals, counts, dmac
  <1>5. ASSUME WorkerRuns PROVE WorkerTypes'
    BY <1>1, <1>5 DEF WorkerRuns, dmac
  <1>6. ASSUME Prime PROVE WorkerTypes'
    <2> DEFINE a == BQ_item(refills)
               b == BQ_item(BQ_drop(refills))
    <2>1. a \in Buffers /\ b \in Buffers
      <3>1. BQ_drop(refills) \in Queue
        BY <1>1, QueueTypes DEF CallTypes
      <3>2. QED
        BY <1>1, <3>1, QueueTypes DEF CallTypes
    <2>2. Push(0, a, FALSE, TRUE) \in Seq(Transfers) /\ Push(1, b, TRUE, TRUE) \in Seq(Transfers)
      <3> HIDE DEF a, b
      <3>1. 0 \in 0 .. 1 /\ 1 \in 0 .. 1 /\ TRUE \in BOOLEAN /\ FALSE \in BOOLEAN
        OBVIOUS
      <3>2. QED
        BY <2>1, <3>1, PushTypes, Zenon
    <2>3. /\ ab' = [i \in 0 .. 1 |-> IF i = 0 THEN a ELSE b] /\ hbm' = b
          /\ chan' = [i \in 0 .. 1 |-> IF i = 0 THEN Push(0, a, FALSE, TRUE) ELSE Push(1, b, TRUE, TRUE)]
      BY <1>6 DEF Prime
    <2> HIDE DEF a, b
    <2>4. ab' \in [0 .. 1 -> Buffers] /\ hbm' \in Buffers /\ chan' \in [0 .. 1 -> Seq(Transfers)]
      BY <2>1, <2>2, <2>3
    <2>5. dma_buffers_out' = 2 /\ wpc' = "ready"
      BY <1>6 DEF Prime
    <2>6. UNCHANGED <<pdesc, ic, last_push, dma_buffers_in, dma_callback_done, ldone, event, callbacks,
                      cdone, nplayed, lost, left>>
      BY <1>6 DEF Prime
    <2>7. QED
      BY <1>1, <2>4, <2>5, <2>6
  <1>7. ASSUME Ready \/ Drain PROVE WorkerTypes'
    <2>1. /\ ldone' = dma_callback_done /\ dma_callback_done > 0 /\ wpc' \in {"dec", "ddec"}
          /\ UNCHANGED <<locals, dma_buffers_out, dma_buffers_in, dma_callback_done, dmac>>
      BY <1>7 DEF Ready, Drain
    <2>2. QED
      BY <1>1, <2>1 DEF locals, dmac
  <1>8. ASSUME Stall PROVE WorkerTypes'
    BY <1>1, <1>8 DEF Stall, counts, dmac
  <1>9. ASSUME NextPush \/ LastPush PROVE WorkerTypes'
    <2> DEFINE new == IF last_push = "LP_IDLE" THEN BQ_item(refills) ELSE hbm
    <2>1. new \in Buffers
      BY <1>1, QueueTypes DEF CallTypes
    <2>2. PICK l \in BOOLEAN : Turn(l)
      BY <1>9 DEF NextPush, LastPush
    <2>3. Push(ic, new, TRUE, ~l) \in Seq(Transfers)
      BY <1>1, <2>1, PushTypes
    <2>4. /\ ab' = (IF last_push = "LP_IDLE" THEN [ab EXCEPT ![ic] = new] ELSE ab)
          /\ hbm' = new /\ chan' = [chan EXCEPT ![ic] = Push(ic, new, TRUE, ~l)]
      BY <2>2 DEF Turn
    <2> HIDE DEF new
    <2>5. ab' \in [0 .. 1 -> Buffers] /\ hbm' \in Buffers /\ chan' \in [0 .. 1 -> Seq(Transfers)]
      BY <1>1, <2>1, <2>3, <2>4
    <2>6. /\ last_push' \in {last_push, "LP_DONE"} /\ dma_buffers_out' = dma_buffers_out + 1
          /\ ic' = 1 - ic /\ wpc' \in {"quit", "ready"}
      BY <2>2 DEF Turn
    <2>7. UNCHANGED <<pdesc, dma_buffers_in, dma_callback_done, ldone, event, callbacks, cdone, nplayed,
                      lost, left>>
      BY <2>2 DEF Turn
    <2>8. QED
      BY <1>1, <2>5, <2>6, <2>7
  <1>10. ASSUME WorkerNeverRuns \/ PrimeStop \/ SyncWait \/ SyncTimeout \/ HasRefill \/ Quit \/ Drained
         PROVE  WorkerTypes'
    <2>1. /\ UNCHANGED <<locals, counts, chan, event, callbacks, cdone, nplayed, lost>>
          /\ wpc' \in {"exited", "quit", "stall", "push", "drain"}
          /\ left' \in BOOLEAN
      BY <1>1, <1>10 DEF WorkerNeverRuns, PrimeStop, SyncWait, SyncTimeout, HasRefill, Quit, Drained,
         dmac
    <2>2. QED
      BY <1>1, <2>1 DEF locals, counts
  <1>11. ASSUME NEW i \in 0 .. 1, Transfer(i) PROVE WorkerTypes'
    <2>1. chan[i] \in Seq(Transfers) /\ chan[i] # << >>
      BY <1>1, <1>11 DEF Transfer
    <2>2. Tail(chan[i]) \in Seq(Transfers) /\ Head(chan[i]) \in Transfers
      BY <2>1
    <2>3. Head(chan[i]).wait \in BOOLEAN /\ Head(chan[i]).set \in BOOLEAN
      BY <2>2 DEF Transfers
    <2>4. chan' \in [0 .. 1 -> Seq(Transfers)]
      BY <1>1, <1>11, <2>2 DEF Transfer
    <2>5. event' \in [0 .. 1 -> BOOLEAN]
      BY <1>1, <1>11, <2>3 DEF Transfer
    <2>6. nplayed' = nplayed + 1 /\ callbacks' = callbacks + 1
      BY <1>11 DEF Transfer
    <2>7. UNCHANGED <<wpc, locals, counts, cdone, lost, left>>
      BY <1>11 DEF Transfer
    <2>8. QED
      BY <1>1, <2>4, <2>5, <2>6, <2>7 DEF locals, counts
  <1>12. ASSUME CountIn PROVE WorkerTypes'
    <2>1. /\ dma_callback_done' = ldone - 1 /\ ldone' = 0 /\ dma_buffers_in' = dma_buffers_in + 1
          /\ ldone >= 1 /\ wpc' \in {"sync", "drain"} /\ lost' \in {lost, lost + 1}
          /\ UNCHANGED <<locals, dma_buffers_out, chan, event, callbacks, cdone, nplayed, left>>
      BY <1>1, <1>12 DEF CountIn
    <2>2. QED
      BY <1>1, <2>1 DEF locals
  <1>13. ASSUME CallbackRead PROVE WorkerTypes'
    <2>1. /\ cdone' = <<dma_callback_done>> /\ callbacks' = callbacks - 1 /\ callbacks > 0
          /\ UNCHANGED <<wpc, locals, counts, chan, event, nplayed, lost, left>>
      BY <1>13 DEF CallbackRead
    <2>2. \E n \in Nat : cdone' = <<n>>
      BY <1>1, <2>1
    <2>3. QED
      BY <1>1, <2>1, <2>2 DEF locals, counts
  <1>14. ASSUME CallbackWrite PROVE WorkerTypes'
    <2>1. PICK n \in Nat : cdone = <<n>>
      BY <1>1, <1>14 DEF CallbackWrite
    <2>2. Head(cdone) = n
      BY <2>1
    <2>3. /\ dma_callback_done' = n + 1 /\ cdone' = << >> /\ lost' \in {lost, lost + 1}
          /\ UNCHANGED <<wpc, locals, dma_buffers_out, dma_buffers_in, ldone, chan, event, callbacks,
                         nplayed, left>>
      BY <1>14, <2>2 DEF CallbackWrite
    <2>4. QED
      BY <1>1, <2>3 DEF locals
  <1>15. QED
    BY <1>2, <1>3, <1>4, <1>5, <1>6, <1>7, <1>8, <1>9, <1>10, <1>11, <1>12, <1>13, <1>14
       DEF Next, Worker, Callback

----------------------------------------------------------------------------
(* The calls and the life of the worker.                                   *)

LEMMA CallsStep ==
  ASSUME OneClient, StreamTypeOK, CallsInv, Next
  PROVE  CallsInv'
  <1> SUFFICES ASSUME NEW d \in Clients PROVE Calls(d)'
    BY DEF CallsInv
  <1> USE DEF Calls, Alive
  <1>1. Calls(d) /\ \A c \in Clients : c = d
    BY DEF CallsInv, OneClient
  <1>2. /\ pc \in [Clients -> {"closed", "init", "idle", "write", "join", "wait"}]
        /\ todo \in [Clients -> Nat] /\ app \in [Clients -> Seq(Buffers)]
        /\ worker_done \in [Clients -> BOOLEAN] /\ f_pos \in [Clients -> BOOLEAN]
    BY DEF StreamTypeOK, CallTypes
  <1>3. /\ wpc \in LoopSteps
        /\ pdesc \in Clients
    BY DEF StreamTypeOK, WorkerTypes, LoopSteps
  <1>4. ASSUME OpenTest(d) PROVE Calls(d)'
    BY <1>1, <1>2, <1>4 DEF OpenTest, Goto, queues, files
  <1>5. ASSUME OpenInit(d) PROVE Calls(d)'
    BY <1>1, <1>2, <1>5 DEF OpenInit, Goto
  <1>6. ASSUME Read(d) PROVE Calls(d)'
    BY <1>1, <1>2, <1>6 DEF Read, files
  <1>7. ASSUME NEW k \in 1 .. MaxPairs, Write(d, k) PROVE Calls(d)'
    BY <1>1, <1>2, <1>7 DEF Write, Goto, queues, files
  <1>8. ASSUME WritePair(d) PROVE Calls(d)'
    <2>1. todo[d] \in Nat /\ todo[d] >= 1 /\ app[d] \in Seq(Buffers) /\ 2 * todo[d] <= Len(app[d])
      BY <1>1, <1>2, <1>8 DEF WritePair
    <2>2. Len(SubSeq(app[d], 3, Len(app[d]))) = Len(app[d]) - 2
      BY <2>1, FirstTwo
    <2>3. todo'[d] = todo[d] - 1 /\ Len(app'[d]) = Len(app[d]) - 2
      BY <1>2, <1>8, <2>2 DEF WritePair
    <2>4. 2 * todo'[d] <= Len(app'[d])
      BY <2>1, <2>3
    <2>5. UNCHANGED <<bq_clients, pc, wpc, sd_task, f_pos, worker_done>>
      BY <1>8 DEF WritePair, files
    <2>6. QED
      BY <1>1, <2>4, <2>5
  <1>9. ASSUME WriteEnd(d) PROVE Calls(d)'
    <2>1. CASE f_pos[d]
      BY <1>1, <1>2, <1>9, <2>1 DEF WriteEnd, Goto, queues
    <2>2. CASE ~f_pos[d]
      <3>1. pc[d] = "write" /\ ~Alive
        BY <1>1, <1>9, <2>2 DEF WriteEnd
      <3>2. sd_task' /\ wpc' = "created" /\ f_pos'[d] /\ pc'[d] = "idle"
        BY <1>2, <1>9, <2>2 DEF WriteEnd, Goto
      <3>3. UNCHANGED <<bq_clients, worker_done>>
        BY <1>9 DEF WriteEnd, queues
      <3>4. ~worker_done[d]
        BY <1>1, <2>2, <3>1
      <3>5. QED
        BY <1>1, <3>1, <3>2, <3>3, <3>4
    <2>3. QED
      BY <2>1, <2>2
  <1>10. ASSUME Release(d) PROVE Calls(d)'
    BY <1>1, <1>2, <1>10 DEF Release, Goto, queues, files
  <1>11. ASSUME Join(d) PROVE Calls(d)'
    BY <1>1, <1>2, <1>11 DEF Join, Goto, queues, files
  <1>12. ASSUME Close(d) PROVE Calls(d)'
    BY <1>1, <1>2, <1>12 DEF Close, Goto
  <1>13. ASSUME Drained PROVE Calls(d)'
    BY <1>1, <1>2, <1>3, <1>13 DEF Drained, queues, calls
  <1>14. ASSUME \/ WorkerRuns \/ WorkerNeverRuns \/ Prime \/ PrimeStop \/ Ready \/ CountIn \/ SyncWait
                \/ SyncTimeout \/ HasRefill \/ Stall \/ NextPush \/ LastPush \/ Quit \/ Drain
         PROVE  Calls(d)'
    <2>1. /\ UNCHANGED <<bq_clients, pc, sd_task, f_pos, worker_done, todo, app>>
          /\ wpc \notin {"none", "exited"} /\ wpc' # "none"
      BY <1>14 DEF WorkerRuns, WorkerNeverRuns, Prime, PrimeStop, Ready, SyncWait, SyncTimeout,
           HasRefill, Stall, NextPush, LastPush, Turn, Quit, Drain, CountIn, queues, files, calls
    <2>2. QED
      BY <1>1, <2>1
  <1>15. ASSUME (\E i \in 0 .. 1 : Transfer(i)) \/ Callback PROVE Calls(d)'
    BY <1>1, <1>15 DEF Transfer, Callback, CallbackRead, CallbackWrite, queues, files, calls
  <1>16. QED
    BY <1>1, <1>4, <1>5, <1>6, <1>7, <1>8, <1>9, <1>10, <1>11, <1>12, <1>13, <1>14, <1>15
       DEF Next, Worker, ReleaseDone, ReleaseInterrupted

----------------------------------------------------------------------------
(* The DMAC.                                                               *)

\* A list of no transfer and of one.
LEMMA ShortQueue ==
  ASSUME NEW s \in Seq(Transfers), Len(s) <= 1
  PROVE  /\ s = << >> <=> Len(s) = 0
         /\ s # << >> => Tail(s) = << >> /\ Head(s) \in Transfers /\ Len(s) = 1
  <1>1. Len(s) \in Nat /\ (s = << >> <=> Len(s) = 0)
    OBVIOUS
  <1>2. ASSUME s # << >> PROVE Tail(s) = << >> /\ Head(s) \in Transfers /\ Len(s) = 1
    <2>1. Len(s) = 1
      BY <1>1, <1>2
    <2>2. Tail(s) \in Seq(Transfers) /\ Len(Tail(s)) = 0 /\ Head(s) \in Transfers
      BY <1>2, <2>1
    <2>3. Tail(s) = << >>
      BY <2>2
    <2>4. QED
      BY <2>1, <2>2, <2>3
  <1>3. QED
    BY <1>1, <1>2

LEMMA OneTransfer ==
  ASSUME NEW t
  PROVE  <<t>> # << >> /\ Len(<<t>>) = 1 /\ Head(<<t>>) = t
  OBVIOUS

LEMMA ChannelTypes ==
  ASSUME StreamTypeOK
  PROVE  /\ ic \in {0, 1} /\ other \in {0, 1} /\ other # ic /\ other = 1 - ic /\ ic = 1 - other
         /\ chan \in [0 .. 1 -> Seq(Transfers)] /\ event \in [0 .. 1 -> BOOLEAN]
         /\ chan[ic] \in Seq(Transfers) /\ chan[other] \in Seq(Transfers)
         /\ event[ic] \in BOOLEAN /\ event[other] \in BOOLEAN
         /\ Len(chan[ic]) \in Nat /\ Len(chan[other]) \in Nat
         /\ Pending = Len(chan[ic]) + Len(chan[other]) /\ Pending \in Nat
         /\ dma_buffers_out \in Nat /\ dma_buffers_in \in Nat /\ dma_callback_done \in Nat
  <1>1. ic \in {0, 1} /\ chan \in [0 .. 1 -> Seq(Transfers)] /\ event \in [0 .. 1 -> BOOLEAN]
    BY DEF StreamTypeOK, WorkerTypes
  <1>2. \A i \in 0 .. 1 : chan[i] \in Seq(Transfers) /\ Len(chan[i]) \in Nat /\ event[i] \in BOOLEAN
    BY <1>1
  <1>3. dma_buffers_out \in Nat /\ dma_buffers_in \in Nat /\ dma_callback_done \in Nat
    BY DEF StreamTypeOK, WorkerTypes
  <1>4. other \in {0, 1} /\ other # ic /\ other = 1 - ic /\ ic = 1 - other
    BY <1>1 DEF other
  <1>5. Pending = Len(chan[ic]) + Len(chan[other])
    <2>1. Len(chan[0]) \in Nat /\ Len(chan[1]) \in Nat
      BY <1>2
    <2>2. CASE ic = 0
      BY <1>4, <2>1, <2>2 DEF Pending
    <2>3. CASE ic = 1
      <3>1. other = 0
        BY <1>4, <2>3
      <3>2. Pending = Len(chan[other]) + Len(chan[ic])
        BY <2>3, <3>1 DEF Pending
      <3>3. Len(chan[other]) \in Nat /\ Len(chan[ic]) \in Nat
        BY <2>1, <2>3, <3>1
      <3>4. \A x, y \in Nat : x + y = y + x
        OBVIOUS
      <3>5. QED
        BY <3>2, <3>3, <3>4, Zenon
    <2>4. QED
      BY <1>1, <2>2, <2>3
  <1>6. chan[ic] \in Seq(Transfers) /\ Len(chan[ic]) \in Nat /\ event[ic] \in BOOLEAN
    BY <1>1, <1>2
  <1>7. chan[other] \in Seq(Transfers) /\ Len(chan[other]) \in Nat /\ event[other] \in BOOLEAN
    BY <1>2, <1>4
  <1>8. Pending \in Nat
    <2>1. \A x, y \in Nat : x + y \in Nat
      OBVIOUS
    <2>2. QED
      BY <1>5, <1>6, <1>7, <2>1, Zenon
  <1>9. QED
    BY <1>1, <1>3, <1>4, <1>5, <1>6, <1>7, <1>8

\* One of the two channels changes.
LEMMA OneChannel ==
  ASSUME StreamTypeOK, NEW i \in 0 .. 1, NEW s \in Seq(Transfers), chan' = [chan EXCEPT ![i] = s]
  PROVE  /\ Pending' = (Pending - Len(chan[i])) + Len(s)
         /\ (\A j \in 0 .. 1 : Len(chan[j]) <= 1) /\ Len(s) <= 1 => \A j \in 0 .. 1 : Len(chan'[j]) <= 1
  <1> DEFINE x == Len(chan[0])
             y == Len(chan[1])
             z == Len(s)
             x1 == Len(chan'[0])
             y1 == Len(chan'[1])
             w == Len(chan[i])
  <1>1. chan \in [0 .. 1 -> Seq(Transfers)]
    BY ChannelTypes
  <1>2. x \in Nat /\ y \in Nat /\ z \in Nat
    BY <1>1
  <1>3. (i = 0 /\ x1 = z /\ y1 = y /\ w = x) \/ (i = 1 /\ x1 = x /\ y1 = z /\ w = y)
    <2>1. CASE i = 0
      BY <1>1, <2>1
    <2>2. CASE i = 1
      BY <1>1, <2>2
    <2>3. QED
      BY <2>1, <2>2
  <1>4. Pending = x + y /\ Pending' = x1 + y1
    BY DEF Pending
  <1>5. ASSUME \A j \in 0 .. 1 : Len(chan[j]) <= 1, Len(s) <= 1
        PROVE  \A j \in 0 .. 1 : Len(chan'[j]) <= 1
    <2>1. x <= 1 /\ y <= 1 /\ z <= 1
      BY <1>5
    <2>2. x1 <= 1 /\ y1 <= 1
      BY <1>3, <2>1, Zenon
    <2>3. QED
      BY <2>2
  <1> HIDE DEF x, y, z, x1, y1, w
  <1>6. Pending' = (Pending - w) + z
    BY <1>2, <1>3, <1>4
  <1>7. QED
    BY <1>5, <1>6 DEF w, z

\* The numbers that account for the transfers.
LEMMA CountTypes ==
  ASSUME StreamTypeOK
  PROVE  /\ dma_buffers_out \in Nat /\ dma_buffers_in \in Nat /\ dma_callback_done \in Nat
         /\ callbacks \in Nat /\ Len(cdone) \in Nat /\ Pending \in Nat /\ lost \in Nat
  <1>1. Len(cdone) \in Nat
    <2>1. CASE cdone = << >>
      BY <2>1
    <2>2. ASSUME NEW n \in Nat, cdone = <<n>> PROVE Len(cdone) \in Nat
      BY <2>2
    <2>3. QED
      BY <2>1, <2>2 DEF StreamTypeOK, WorkerTypes
  <1>2. QED
    BY <1>1, ChannelTypes DEF StreamTypeOK, WorkerTypes

\* What is left in the DMAC is left for good.
LEMMA LeftStays ==
  ASSUME StreamTypeOK, Next
  PROVE  left => left'
  <1>1. ASSUME NEW c \in Clients,
               \/ OpenTest(c) \/ OpenInit(c) \/ Read(c) \/ WritePair(c) \/ WriteEnd(c) \/ Release(c)
               \/ Join(c) \/ \E k \in 1 .. MaxPairs : Write(c, k)
               \/ ReleaseDone(c) \/ ReleaseInterrupted(c)
        PROVE  left' = left
    BY <1>1 DEF OpenTest, OpenInit, Read, WritePair, WriteEnd, Release, Join, Write, ReleaseDone,
       ReleaseInterrupted, Close, dmac
  <1>2. ASSUME Worker PROVE left => left'
    BY <1>2 DEF Worker, WorkerRuns, WorkerNeverRuns, Prime, PrimeStop, Ready, CountIn, SyncWait,
       SyncTimeout, HasRefill, Stall, NextPush, LastPush, Turn, Quit, Drain, Drained, dmac
  <1>3. ASSUME (\E i \in 0 .. 1 : Transfer(i)) \/ Callback PROVE left' = left
    BY <1>3 DEF Transfer, Callback, CallbackRead, CallbackWrite
  <1>4. QED
    BY <1>1, <1>2, <1>3 DEF Next

\* A transfer that runs is the one whose turn it is.
LEMMA TransferTurn ==
  ASSUME StreamTypeOK, RestInv, TurnInv, ~left, NEW i \in 0 .. 1, Transfer(i)
  PROVE  /\ Playing /\ ~Idle(i) /\ Len(chan[i]) = 1
         /\ i = ic \/ (i = other /\ Idle(ic))
         /\ chan' = [chan EXCEPT ![i] = << >>]
         /\ i = ic => event' = [event EXCEPT ![ic] = FALSE, ![other] = TRUE]
         /\ i = other => event' = [event EXCEPT ![other] = FALSE, ![ic] = Running]
         /\ nplayed' = nplayed + 1 /\ UNCHANGED <<wpc, ic, last_push, left>>
  <1>1. ~Idle(i) /\ (Head(chan[i]).wait => event[i])
    BY DEF Transfer, Idle
  <1>2. Playing
    BY <1>1 DEF RestInv
  <1>3. i = ic \/ i = other
    BY ChannelTypes
  <1>4. i = ic \/ (i = other /\ Idle(ic))
    BY <1>1, <1>2, <1>3, Zenon DEF TurnInv
  <1>5. chan[i] \in Seq(Transfers) /\ Len(chan[i]) <= 1
    BY <1>2, ChannelTypes DEF TurnInv
  <1>6. Tail(chan[i]) = << >> /\ Len(chan[i]) = 1 /\ Head(chan[i]) \in Transfers
    BY <1>1, <1>5, ShortQueue DEF Idle
  <1>7. Head(chan[i]).set \in BOOLEAN /\ Head(chan[i]).wait \in BOOLEAN
    BY <1>6 DEF Transfers
  <1>8. chan' = [chan EXCEPT ![i] = << >>]
    BY <1>6 DEF Transfer
  <1>9. event' = [event EXCEPT ![i] = @ /\ ~Head(chan[i]).wait, ![1 - i] = @ \/ Head(chan[i]).set]
    BY DEF Transfer
  <1>10. ASSUME i = ic PROVE event' = [event EXCEPT ![ic] = FALSE, ![other] = TRUE]
    <2>1. (Head(chan[ic]).wait <=> event[ic])
      BY <1>1, <1>2, <1>10 DEF TurnInv
    <2>2. Head(chan[ic]).set
      BY <1>1, <1>2, <1>10 DEF TurnInv
    <2>3. (event[ic] /\ ~Head(chan[ic]).wait) = FALSE /\ (event[other] \/ Head(chan[ic]).set) = TRUE
      BY <1>7, <1>10, <2>1, <2>2, ChannelTypes
    <2>4. QED
      BY <1>9, <1>10, <2>3, ChannelTypes
  <1>11. ASSUME i = other PROVE event' = [event EXCEPT ![other] = FALSE, ![ic] = Running]
    <2>1. Idle(ic) /\ Head(chan[other]).wait /\ ~event[ic]
      BY <1>1, <1>2, <1>4, <1>11, ChannelTypes DEF TurnInv
    <2>2. Head(chan[other]).set <=> Running
      BY <1>1, <1>2, <1>11 DEF TurnInv
    <2>3. /\ (event[other] /\ ~Head(chan[other]).wait) = FALSE
          /\ (event[ic] \/ Head(chan[other]).set) = Running
      BY <1>7, <1>11, <2>1, <2>2, ChannelTypes DEF Running
    <2>4. QED
      BY <1>9, <1>11, <2>3, ChannelTypes
  <1>12. nplayed' = nplayed + 1 /\ UNCHANGED <<wpc, ic, last_push, left>>
    BY DEF Transfer, locals
  <1>13. QED
    BY <1>1, <1>2, <1>4, <1>6, <1>8, <1>10, <1>11, <1>12

\* The calls leave the worker and the DMAC alone, but for the first write.
LEMMA CallsAside ==
  ASSUME StreamTypeOK, CallsInv, NEW c \in Clients,
         \/ OpenTest(c) \/ OpenInit(c) \/ Read(c) \/ WritePair(c) \/ WriteEnd(c) \/ Release(c) \/ Join(c)
         \/ \E k \in 1 .. MaxPairs : Write(c, k)
         \/ ReleaseDone(c) \/ ReleaseInterrupted(c)
  PROVE  /\ UNCHANGED <<ic, ab, hbm, last_push, dma_buffers_out, dma_buffers_in, dma_callback_done,
                        chan, event, callbacks, cdone, lost, left>>
         /\ wpc' = wpc \/ (~Alive /\ wpc' = "created")
  <1>1. UNCHANGED <<ic, ab, hbm, last_push, dma_buffers_out, dma_buffers_in, dma_callback_done,
                    chan, event, callbacks, cdone, lost, left>>
    BY DEF OpenTest, OpenInit, Read, WritePair, WriteEnd, Release, Join, Write, ReleaseDone,
       ReleaseInterrupted, Close, locals, counts, dmac
  <1>2. CASE WriteEnd(c)
    <2>1. Alive => f_pos[c]
      BY DEF CallsInv, Calls
    <2>2. wpc' = wpc \/ (~f_pos[c] /\ wpc' = "created")
      BY <1>2 DEF WriteEnd
    <2>3. QED
      BY <1>1, <2>1, <2>2
  <1>3. CASE ~WriteEnd(c)
    BY <1>1, <1>3 DEF OpenTest, OpenInit, Read, WritePair, Release, Join, Write, ReleaseDone,
       ReleaseInterrupted, Close
  <1>4. QED
    BY <1>2, <1>3

\* A push takes the turn to the other channel ...
LEMMA PushMoves ==
  ASSUME StreamTypeOK, NEW l \in BOOLEAN, Turn(l)
  PROVE  /\ wpc = "push" /\ wpc' = (IF l THEN "quit" ELSE "ready")
         /\ ic' = other /\ other' = ic
         /\ hbm' = (IF last_push = "LP_IDLE" THEN BQ_item(refills) ELSE hbm)
         /\ ab' = (IF last_push = "LP_IDLE" THEN [ab EXCEPT ![ic] = hbm'] ELSE ab)
         /\ chan' = [chan EXCEPT ![ic] = Push(ic, hbm', TRUE, ~l)]
         /\ dma_buffers_out' = dma_buffers_out + 1 /\ last_push' = (IF l THEN "LP_DONE" ELSE last_push)
         /\ UNCHANGED <<dma_buffers_in, dma_callback_done, event, callbacks, cdone, nplayed, lost, left,
                        pdesc>>
  <1>1. /\ wpc = "push" /\ wpc' = (IF l THEN "quit" ELSE "ready") /\ ic' = 1 - ic
        /\ hbm' = (IF last_push = "LP_IDLE" THEN BQ_item(refills) ELSE hbm)
        /\ ab' = (IF last_push = "LP_IDLE" THEN [ab EXCEPT ![ic] = hbm'] ELSE ab)
        /\ chan' = [chan EXCEPT ![ic] = Push(ic, hbm', TRUE, ~l)]
        /\ dma_buffers_out' = dma_buffers_out + 1 /\ last_push' = (IF l THEN "LP_DONE" ELSE last_push)
        /\ UNCHANGED <<dma_buffers_in, dma_callback_done, event, callbacks, cdone, nplayed, lost, left,
                       pdesc>>
    BY DEF Turn
  <1>2. ic' = other /\ other' = ic
    BY <1>1, ChannelTypes DEF other
  <1>3. QED
    BY <1>1, <1>2

\* ... and fills its own, which dma_sync_wait() found idle.
LEMMA PushTurn ==
  ASSUME StreamTypeOK, TurnInv, ~left, NEW l \in BOOLEAN, Turn(l)
  PROVE  /\ Idle(ic) /\ Len(chan[ic]) = 0
         /\ chan' = [chan EXCEPT ![ic] = <<[buf |-> hbm', wait |-> TRUE, set |-> ~l]>>]
  <1>1. wpc = "push" /\ chan' = [chan EXCEPT ![ic] = Push(ic, hbm', TRUE, ~l)]
    BY PushMoves
  <1>2. chan[ic] = << >>
    BY <1>1 DEF TurnInv, Playing, Idle
  <1> DEFINE t == [buf |-> hbm', wait |-> TRUE, set |-> ~l]
  <1>3. Push(ic, hbm', TRUE, ~l) = Append(<< >>, t)
    BY <1>2 DEF Push
  <1> HIDE DEF t
  <1>4. Append(<< >>, t) = <<t>> /\ Len(<< >>) = 0
    OBVIOUS
  <1>5. chan' = [chan EXCEPT ![ic] = <<t>>]
    BY <1>1, <1>3, <1>4, Zenon
  <1>6. QED
    BY <1>2, <1>4, <1>5, Zenon DEF t, Idle

\* The first two refills are the worker's ...
LEMMA PrimeMoves ==
  ASSUME LoopInv, Prime
  PROVE  LET a == BQ_item(refills)
             b == BQ_item(BQ_drop(refills))
         IN  /\ ab'[0] = a /\ ab'[1] = b /\ hbm' = b
             /\ ic' = 0 /\ other' = 1 /\ wpc' = "ready"
             /\ dma_buffers_in' = 0 /\ dma_buffers_out' = 2
             /\ UNCHANGED <<ic, last_push, dma_buffers_in, dma_callback_done, event, callbacks, cdone,
                            nplayed, lost, left>>
  <1>1. dma_buffers_in = 0 /\ ic = 0
    BY DEF Prime, LoopInv
  <1> DEFINE a == BQ_item(refills)
             b == BQ_item(BQ_drop(refills))
  <1>2. /\ ab' = [i \in 0 .. 1 |-> IF i = 0 THEN a ELSE b] /\ hbm' = b
        /\ dma_buffers_out' = 2 /\ wpc' = "ready"
        /\ UNCHANGED <<ic, last_push, dma_buffers_in, dma_callback_done, event, callbacks, cdone, nplayed,
                       lost, left>>
    BY DEF Prime
  <1> HIDE DEF a, b
  <1>3. ab'[0] = a /\ ab'[1] = b
    BY <1>2
  <1>4. ic' = 0 /\ other' = 1
    BY <1>1, <1>2 DEF other
  <1>5. QED
    BY <1>1, <1>2, <1>3, <1>4 DEF a, b

\* ... and go to the channels, in order.
LEMMA PrimeTurn ==
  ASSUME RestInv, ~left, Prime
  PROVE  LET a == BQ_item(refills)
             b == BQ_item(BQ_drop(refills))
         IN  /\ chan'[0] = <<[buf |-> a, wait |-> FALSE, set |-> TRUE]>>
             /\ chan'[1] = <<[buf |-> b, wait |-> TRUE, set |-> TRUE]>>
             /\ Pending = 0 /\ Pending' = 2
             /\ ~event[0] /\ ~event[1]
  <1> DEFINE a == BQ_item(refills)
             b == BQ_item(BQ_drop(refills))
             s == [buf |-> a, wait |-> FALSE, set |-> TRUE]
             t == [buf |-> b, wait |-> TRUE, set |-> TRUE]
             p == Push(0, a, FALSE, TRUE)
             q == Push(1, b, TRUE, TRUE)
  <1>1. chan[0] = << >> /\ chan[1] = << >> /\ ~event[0] /\ ~event[1]
    BY DEF Prime, RestInv, Idle, Playing
  <1>2. chan' = [i \in 0 .. 1 |-> IF i = 0 THEN p ELSE q]
    BY DEF Prime
  <1>3. p = Append(<< >>, s) /\ q = Append(<< >>, t)
    BY <1>1 DEF Push
  <1> HIDE DEF s, t, p, q, a, b
  <1>4. Append(<< >>, s) = <<s>> /\ Append(<< >>, t) = <<t>> /\ Len(<< >>) = 0
    OBVIOUS
  <1>5. p = <<s>> /\ q = <<t>>
    BY <1>3, <1>4, Zenon
  <1>6. chan'[0] = <<s>> /\ chan'[1] = <<t>>
    BY <1>2, <1>5
  <1>7. Pending = 0 /\ Pending' = 2
    BY <1>1, <1>4, <1>6, OneTransfer DEF Pending
  <1>8. QED
    BY <1>1, <1>6, <1>7 DEF s, t, a, b

LEMMA TurnStep ==
  ASSUME StreamTypeOK, CallsInv, RestInv, TurnInv, LoopInv, Next
  PROVE  TurnInv'
  <1> SUFFICES ASSUME ~left' PROVE TurnInv'
    BY DEF TurnInv
  <1>0. ~left
    BY LeftStays
  <1> USE DEF Playing, Running
  <1>1. wpc \in {"none", "created", "prime", "ready", "dec", "sync", "stall", "push", "quit", "drain",
                "ddec", "exited"}
    BY DEF StreamTypeOK, WorkerTypes, LoopSteps
  <1>2. ASSUME NEW c \in Clients,
               \/ OpenTest(c) \/ OpenInit(c) \/ Read(c) \/ WritePair(c) \/ WriteEnd(c) \/ Release(c)
               \/ Join(c) \/ \E k \in 1 .. MaxPairs : Write(c, k)
               \/ ReleaseDone(c) \/ ReleaseInterrupted(c)
        PROVE  TurnInv'
    <2>1. /\ UNCHANGED <<ic, chan, event, left>>
          /\ wpc' = wpc \/ wpc' = "created"
      BY <1>2, CallsAside
    <2>2. CASE wpc' = wpc
      BY <2>1, <2>2, Zenon DEF TurnInv, Idle, other
    <2>3. CASE wpc' = "created"
      BY <2>3 DEF TurnInv
    <2>4. QED
      BY <2>1, <2>2, <2>3
  <1>3. ASSUME WorkerRuns \/ WorkerNeverRuns \/ Drained PROVE TurnInv'
    <2>1. wpc' \in {"prime", "exited"}
      BY <1>3 DEF WorkerRuns, WorkerNeverRuns, Drained
    <2>2. QED
      BY <2>1 DEF TurnInv
  <1>4. ASSUME Prime PROVE TurnInv'
    <2> DEFINE s == [buf |-> BQ_item(refills), wait |-> FALSE, set |-> TRUE]
               t == [buf |-> BQ_item(BQ_drop(refills)), wait |-> TRUE, set |-> TRUE]
    <2>1. /\ chan'[0] = <<s>> /\ chan'[1] = <<t>> /\ ~event'[0] /\ ~event'[1]
          /\ ic' = 0 /\ other' = 1 /\ wpc' = "ready"
      BY <1>0, <1>4, PrimeTurn, PrimeMoves
    <2>2. ~s.wait /\ s.set /\ t.wait /\ t.set
      OBVIOUS
    <2> HIDE DEF s, t
    <2>3. /\ <<s>> # << >> /\ Len(<<s>>) = 1 /\ Head(<<s>>) = s
          /\ <<t>> # << >> /\ Len(<<t>>) = 1 /\ Head(<<t>>) = t
      BY OneTransfer
    <2>4. \A i \in 0 .. 1 : Len(chan'[i]) <= 1
      <3>1. Len(chan'[0]) <= 1 /\ Len(chan'[1]) <= 1
        BY <2>1, <2>3
      <3>2. QED
        BY <3>1
    <2>5. ~Idle(ic)' /\ ~Idle(other)' /\ Head(chan'[ic']) = s /\ Head(chan'[other']) = t
      BY <2>1, <2>3 DEF Idle
    <2>6. ~event'[ic'] /\ ~event'[other']
      BY <2>1
    <2>7. QED
      BY <2>1, <2>2, <2>4, <2>5, <2>6 DEF TurnInv
  <1>5. ASSUME PrimeStop PROVE TurnInv'
    <2>1. /\ wpc = "prime" /\ wpc' = "quit"
          /\ UNCHANGED <<ic, chan, event, left>>
      BY <1>5 DEF PrimeStop, locals, counts, dmac
    <2>2. chan[0] = << >> /\ chan[1] = << >> /\ ~event[0] /\ ~event[1] /\ ic = 0
      BY <1>0, <2>1 DEF RestInv, LoopInv, Idle
    <2>3. Len(<< >>) = 0
      OBVIOUS
    <2>4. ic' = 0 /\ other' = 1
      BY <2>1, <2>2 DEF other
    <2>5. Idle(ic)' /\ Idle(other)' /\ ~event'[ic'] /\ ~event'[other'] /\ \A i \in 0 .. 1 : Len(chan'[i]) <= 1
      BY <2>1, <2>2, <2>3, <2>4 DEF Idle
    <2>6. QED
      BY <2>1, <2>5 DEF TurnInv
  <1>6. ASSUME Ready \/ CountIn \/ Drain PROVE TurnInv'
    <2>1. /\ wpc \in {"ready", "dec", "drain", "ddec"} /\ wpc' \in {"dec", "sync", "ddec", "drain"}
          /\ Running' = Running /\ UNCHANGED <<ic, chan, event, left>>
      BY <1>6 DEF Ready, CountIn, Drain, locals, dmac
    <2>2. QED
      BY <1>0, <2>1, Zenon DEF TurnInv, Idle, other
  <1>7. ASSUME SyncWait \/ HasRefill \/ Stall PROVE TurnInv'
    <2>1. /\ wpc \in {"sync", "stall"} /\ wpc' \in {"stall", "push"}
          /\ wpc = "sync" => Idle(ic)
          /\ UNCHANGED <<ic, chan, event, left>>
      BY <1>7 DEF SyncWait, HasRefill, Stall, Idle, locals, counts, dmac
    <2>2. QED
      BY <1>0, <2>1, Zenon DEF TurnInv, Idle, other
  <1>8. ASSUME NextPush \/ LastPush PROVE TurnInv'
    <2>1. PICK l \in BOOLEAN : Turn(l)
      BY <1>8 DEF NextPush, LastPush
    <2> DEFINE t == [buf |-> hbm', wait |-> TRUE, set |-> ~l]
    <2>2. /\ wpc = "push" /\ wpc' = (IF l THEN "quit" ELSE "ready")
          /\ ic' = other /\ other' = ic /\ event' = event
      BY <2>1, PushMoves
    <2>3. chan' = [chan EXCEPT ![ic] = <<t>>] /\ Idle(ic) /\ Len(chan[ic]) = 0
      BY <1>0, <2>1, PushTurn
    <2>4. t.wait = TRUE /\ t.set = ~l
      OBVIOUS
    <2> HIDE DEF t
    <2>5. <<t>> # << >> /\ Len(<<t>>) = 1 /\ Head(<<t>>) = t
      BY OneTransfer
    <2>6. /\ chan \in [0 .. 1 -> Seq(Transfers)] /\ ic \in {0, 1} /\ other \in {0, 1} /\ other # ic
          /\ event[ic] \in BOOLEAN /\ event[other] \in BOOLEAN
      BY ChannelTypes
    <2>7. chan'[other'] = <<t>> /\ chan'[ic'] = chan[other]
      BY <2>2, <2>3, <2>6
    <2>8. ~Idle(other)' /\ Head(chan'[other']) = t /\ (Idle(ic)' <=> Idle(other))
      BY <2>5, <2>7 DEF Idle
    <2>10. \A i \in 0 .. 1 : Len(chan'[i]) <= 1
      <3>1. <<t>> \in Seq(Transfers) /\ Len(<<t>>) <= 1
        <4>1. t \in Transfers
          <5>1. hbm' \in Buffers
            BY WorkerTypesStep DEF WorkerTypes
          <5>2. QED
            BY <5>1 DEF t, Transfers
        <4>2. QED
          BY <2>5, <4>1
      <3>2. \A i \in 0 .. 1 : Len(chan[i]) <= 1
        BY <1>0, <2>2 DEF TurnInv
      <3>3. ic \in 0 .. 1
        BY <2>6
      <3>4. QED
        BY <2>3, <3>1, <3>2, <3>3, OneChannel
    <2>11. /\ ~Idle(other) => event[other] /\ ~event[ic] /\ Head(chan[other]).wait /\ Head(chan[other]).set
           /\ Idle(other) => event[ic] /\ ~event[other]
      BY <1>0, <2>2, <2>3 DEF TurnInv
    <2>12. event'[ic'] = event[other] /\ event'[other'] = event[ic]
      BY <2>2
    <2>15. (wpc' = "ready" <=> ~l) /\ wpc' \in {"ready", "quit"}
      BY <2>2
    <2>16. QED
      BY <2>4, <2>8, <2>10, <2>11, <2>12, <2>15, <2>7 DEF TurnInv
  <1>9. ASSUME Quit PROVE TurnInv'
    <2>1. wpc = "quit" /\ wpc' = "drain" /\ UNCHANGED <<ic, chan, event, left>>
      BY <1>9 DEF Quit, locals, dmac
    <2>2. QED
      BY <1>0, <2>1, Zenon DEF TurnInv, Idle, other
  <1>10. ASSUME NEW i \in 0 .. 1, Transfer(i) PROVE TurnInv'
    <2>1. /\ Playing /\ ~Idle(i) /\ Len(chan[i]) = 1 /\ (i = ic \/ (i = other /\ Idle(ic)))
          /\ chan' = [chan EXCEPT ![i] = << >>]
          /\ UNCHANGED <<wpc, ic, last_push>>
      BY <1>0, <1>10, TransferTurn
    <2>2. /\ i = ic => event' = [event EXCEPT ![ic] = FALSE, ![other] = TRUE]
          /\ i = other => event' = [event EXCEPT ![other] = FALSE, ![ic] = Running]
      BY <1>0, <1>10, TransferTurn, Zenon
    <2>3. /\ chan \in [0 .. 1 -> Seq(Transfers)] /\ event \in [0 .. 1 -> BOOLEAN]
          /\ ic \in {0, 1} /\ other \in {0, 1} /\ other # ic
      BY ChannelTypes
    <2>4. ic' = ic /\ other' = other
      BY <2>1 DEF other
    <2>6. \A j \in 0 .. 1 : Len(chan'[j]) <= 1
      <3>1. << >> \in Seq(Transfers) /\ Len(<< >>) <= 1
        OBVIOUS
      <3>2. \A j \in 0 .. 1 : Len(chan[j]) <= 1
        BY <1>0, <2>1 DEF TurnInv
      <3>3. QED
        BY <2>1, <3>1, <3>2, OneChannel
    <2>7. /\ Idle(other) => Idle(ic)
          /\ wpc \in {"stall", "push"} => Idle(ic)
          /\ ~Idle(other) => Head(chan[other]).wait
          /\ Running /\ ~Idle(other) => Head(chan[other]).set
          /\ ~Running /\ ~Idle(other) => ~Head(chan[other]).set
      BY <1>0, <2>1 DEF TurnInv
    <2>8. CASE i = ic
      <3>1. chan'[ic] = << >> /\ chan'[other] = chan[other] /\ ~event'[ic] /\ event'[other]
        BY <2>1, <2>2, <2>3, <2>8
      <3>2. Idle(ic)' /\ ~Idle(other)' /\ ~Idle(other)
        BY <2>1, <2>4, <2>7, <2>8, <3>1 DEF Idle
      <3>3. QED
        BY <2>1, <2>4, <2>6, <2>7, <3>1, <3>2 DEF TurnInv
    <2>9. CASE i = other
      <3>1. chan'[ic] = chan[ic] /\ chan'[other] = << >> /\ ~event'[other] /\ (event'[ic] <=> Running)
        <4> DEFINE v == Running
        <4>1. event' = [event EXCEPT ![other] = FALSE, ![ic] = v]
          BY <2>2, <2>9
        <4> HIDE DEF v
        <4>2. event'[other] = FALSE /\ event'[ic] = v
          BY <2>3, <4>1
        <4>3. chan'[ic] = chan[ic] /\ chan'[other] = << >>
          BY <2>1, <2>3, <2>9
        <4>4. QED
          BY <4>2, <4>3 DEF v
      <3>2. Idle(ic)' /\ Idle(other)' /\ (Running' <=> Running)
        BY <2>1, <2>3, <2>4, <2>9, <3>1 DEF Idle
      <3>3. QED
        BY <2>1, <2>4, <2>6, <2>7, <3>1, <3>2 DEF TurnInv
    <2>10. QED
      BY <2>1, <2>8, <2>9
  <1>11. ASSUME Callback PROVE TurnInv'
    <2>1. UNCHANGED <<wpc, ic, chan, event, left>>
      BY <1>11 DEF Callback, CallbackRead, CallbackWrite, locals
    <2>2. QED
      BY <1>0, <2>1, Zenon DEF TurnInv, Idle, other
  <1>12. ASSUME SyncTimeout PROVE TurnInv'
    BY <1>12 DEF SyncTimeout
  <1>13. QED
    BY <1>2, <1>3, <1>4, <1>5, <1>6, <1>7, <1>8, <1>9, <1>10, <1>11, <1>12 DEF Next, Worker


\* The loop and its counters.
LEMMA LoopStep ==
  ASSUME StreamTypeOK, CallsInv, LoopInv, Next
  PROVE  LoopInv'
  <1> USE DEF LoopInv
  <1>1. dma_buffers_out \in Nat /\ dma_buffers_in \in Nat
    BY CountTypes
  <1>2. ASSUME NEW c \in Clients,
               \/ OpenTest(c) \/ OpenInit(c) \/ Read(c) \/ WritePair(c) \/ WriteEnd(c) \/ Release(c)
               \/ Join(c) \/ \E k \in 1 .. MaxPairs : Write(c, k)
               \/ ReleaseDone(c) \/ ReleaseInterrupted(c)
        PROVE  LoopInv'
    <2>1. /\ UNCHANGED <<ic, last_push, dma_buffers_out, dma_buffers_in>>
          /\ wpc' = wpc \/ wpc' = "created"
      BY <1>2, CallsAside
    <2>2. QED
      BY <2>1
  <1>3. ASSUME WorkerRuns \/ WorkerNeverRuns \/ Prime \/ PrimeStop \/ Quit \/ Drain \/ Drained
        PROVE  LoopInv'
    <2>1. CASE WorkerRuns
      BY <2>1 DEF WorkerRuns
    <2>2. CASE Prime
      <3>1. /\ wpc = "prime" /\ wpc' = "ready" /\ dma_buffers_in' = 0 /\ dma_buffers_out' = 2
            /\ last_push' = last_push
        BY <2>2, PrimeMoves DEF Prime
      <3>2. QED
        BY <3>1
    <2>3. CASE WorkerNeverRuns \/ PrimeStop \/ Quit \/ Drain \/ Drained
      <3>1. wpc' \in {"exited", "quit", "drain", "ddec"}
        BY <2>3 DEF WorkerNeverRuns, PrimeStop, Quit, Drain, Drained
      <3>2. QED
        BY <3>1
    <2>4. QED
      BY <1>3, <2>1, <2>2, <2>3
  <1>4. ASSUME Ready \/ SyncWait \/ SyncTimeout \/ HasRefill \/ Stall PROVE LoopInv'
    BY <1>4 DEF Ready, SyncWait, SyncTimeout, HasRefill, Stall, locals, counts
  <1>5. ASSUME CountIn PROVE LoopInv'
    <2>1. /\ wpc \in {"dec", "ddec"} /\ wpc' = (IF wpc = "dec" THEN "sync" ELSE "drain")
          /\ dma_buffers_in' = dma_buffers_in + 1 /\ UNCHANGED <<last_push, dma_buffers_out>>
      BY <1>5 DEF CountIn, locals
    <2>2. QED
      BY <1>1, <2>1
  <1>6. ASSUME NextPush \/ LastPush PROVE LoopInv'
    <2>1. PICK l \in BOOLEAN : Turn(l) /\ (~l => last_push # "LP_REQUEST")
      BY <1>6 DEF NextPush, LastPush
    <2>2. /\ wpc = "push" /\ wpc' = (IF l THEN "quit" ELSE "ready")
          /\ dma_buffers_out' = dma_buffers_out + 1 /\ dma_buffers_in' = dma_buffers_in
          /\ last_push' = (IF l THEN "LP_DONE" ELSE last_push)
      BY <2>1, PushMoves
    <2>3. last_push \in {"LP_IDLE", "LP_REQUEST", "LP_DONE"}
      BY DEF StreamTypeOK, WorkerTypes
    <2>4. QED
      BY <1>1, <2>1, <2>2, <2>3
  <1>7. ASSUME (\E i \in 0 .. 1 : Transfer(i)) \/ Callback PROVE LoopInv'
    BY <1>7 DEF Transfer, Callback, CallbackRead, CallbackWrite, locals, counts
  <1>8. QED
    BY <1>2, <1>3, <1>4, <1>5, <1>6, <1>7 DEF Next, Worker

\* A channel that has no transfer.
LEMMA NothingPending ==
  ASSUME StreamTypeOK
  PROVE  Pending = 0 <=> \A i \in 0 .. 1 : Idle(i)
  <1> DEFINE p == Len(chan[ic])
             q == Len(chan[other])
  <1>1. Pending = p + q /\ p \in Nat /\ q \in Nat
    BY ChannelTypes
  <1>2. (p = 0 <=> Idle(ic)) /\ (q = 0 <=> Idle(other))
    BY ChannelTypes DEF Idle
  <1>3. (\A i \in 0 .. 1 : Idle(i)) <=> Idle(ic) /\ Idle(other)
    BY ChannelTypes
  <1> HIDE DEF p, q
  <1>4. Pending = 0 <=> p = 0 /\ q = 0
    BY <1>1
  <1>5. QED
    BY <1>2, <1>3, <1>4

LEMMA RestStep ==
  ASSUME StreamTypeOK, CallsInv, RestInv, TurnInv, Next
  PROVE  RestInv'
  <1> SUFFICES ASSUME ~left' PROVE RestInv'
    BY DEF RestInv
  <1>0. ~left
    BY LeftStays
  <1> USE DEF Playing
  <1>1. ASSUME NEW c \in Clients,
               \/ OpenTest(c) \/ OpenInit(c) \/ Read(c) \/ WritePair(c) \/ WriteEnd(c) \/ Release(c)
               \/ Join(c) \/ \E k \in 1 .. MaxPairs : Write(c, k)
               \/ ReleaseDone(c) \/ ReleaseInterrupted(c)
        PROVE  RestInv'
    <2>1. UNCHANGED <<chan, event>> /\ (wpc' = wpc \/ (~Alive /\ wpc' = "created"))
      BY <1>1, CallsAside
    <2>2. QED
      BY <1>0, <2>1, Zenon DEF RestInv, Idle, Alive
  <1>2. ASSUME WorkerRuns \/ WorkerNeverRuns PROVE RestInv'
    <2>1. wpc = "created" /\ UNCHANGED <<chan, event>>
      BY <1>2 DEF WorkerRuns, WorkerNeverRuns, dmac
    <2>2. QED
      BY <1>0, <2>1, Zenon DEF RestInv, Idle
  <1>3. ASSUME \/ Prime \/ PrimeStop \/ Ready \/ CountIn \/ SyncWait \/ SyncTimeout \/ HasRefill
               \/ Stall \/ NextPush \/ LastPush \/ Quit \/ Drain
        PROVE  RestInv'
    <2>1. wpc' \in {"ready", "dec", "sync", "stall", "push", "quit", "drain", "ddec"}
      BY <1>3 DEF Prime, PrimeStop, Ready, CountIn, SyncWait, SyncTimeout, HasRefill, Stall, NextPush,
         LastPush, Turn, Quit, Drain
    <2>2. QED
      BY <2>1 DEF RestInv
  <1>4. ASSUME Drained PROVE RestInv'
    <2>1. ~Busy /\ UNCHANGED <<chan, event>>
      BY <1>4 DEF Drained
    <2>2. \A i \in 0 .. 1 : chan[i] = << >> /\ ~event[i]
      BY <2>1 DEF Busy
    <2>3. QED
      BY <2>1, <2>2 DEF RestInv, Idle
  <1>5. ASSUME NEW i \in 0 .. 1, Transfer(i) PROVE RestInv'
    <2>1. Playing /\ wpc' = wpc
      BY <1>0, <1>5, TransferTurn
    <2>2. QED
      BY <2>1 DEF RestInv
  <1>6. ASSUME Callback PROVE RestInv'
    <2>1. UNCHANGED <<wpc, chan, event>>
      BY <1>6 DEF Callback, CallbackRead, CallbackWrite
    <2>2. QED
      BY <1>0, <2>1, Zenon DEF RestInv, Idle
  <1>7. QED
    BY <1>1, <1>2, <1>3, <1>4, <1>5, <1>6 DEF Next, Worker

\* Every transfer is accounted for, as long as no update of the count is lost.
LEMMA CountStep ==
  ASSUME StreamTypeOK, CallsInv, LoopInv, RestInv, TurnInv, CountInv, Next
  PROVE  CountInv'
  <1> SUFFICES ASSUME lost' = 0 PROVE CountInv'
    BY DEF CountInv
  <1> USE DEF Playing
  <1>1. /\ dma_buffers_out \in Nat /\ dma_buffers_in \in Nat /\ dma_callback_done \in Nat
        /\ callbacks \in Nat /\ Len(cdone) \in Nat /\ Pending \in Nat /\ lost \in Nat
    BY CountTypes
  <1>2. ASSUME NEW c \in Clients,
               \/ OpenTest(c) \/ OpenInit(c) \/ Read(c) \/ WritePair(c) \/ WriteEnd(c) \/ Release(c)
               \/ Join(c) \/ \E k \in 1 .. MaxPairs : Write(c, k)
               \/ ReleaseDone(c) \/ ReleaseInterrupted(c)
        PROVE  CountInv'
    <2>1. /\ UNCHANGED <<dma_buffers_out, dma_buffers_in, dma_callback_done, chan, callbacks, cdone,
                         lost, left>>
          /\ wpc' = wpc \/ (~Alive /\ wpc' = "created")
      BY <1>2, CallsAside
    <2>2. Pending' = Pending
      BY <2>1 DEF Pending
    <2>3. QED
      BY <2>1, <2>2 DEF CountInv, Alive
  <1>3. ASSUME WorkerRuns \/ WorkerNeverRuns PROVE CountInv'
    <2>1. /\ wpc = "created" /\ wpc' \in {"prime", "exited"}
          /\ UNCHANGED <<dma_callback_done, callbacks, cdone, lost, left>>
      BY <1>3 DEF WorkerRuns, WorkerNeverRuns, counts, dmac
    <2>2. QED
      BY <2>1 DEF CountInv
  <1>4. ASSUME Prime PROVE CountInv'
    <2>1. /\ wpc = "prime" /\ wpc' = "ready" /\ dma_buffers_in' = 0 /\ dma_buffers_out' = 2
          /\ UNCHANGED <<dma_callback_done, callbacks, cdone, lost, left>>
      BY <1>4, PrimeMoves DEF Prime
    <2>2. ~left /\ dma_callback_done = 0 /\ callbacks = 0 /\ cdone = << >>
      BY <2>1 DEF CountInv
    <2>3. Pending' = 2
      BY <1>4, <2>2, PrimeTurn
    <2>4. Len(cdone') = 0
      BY <2>1, <2>2
    <2>5. QED
      BY <2>1, <2>2, <2>3, <2>4 DEF CountInv
  <1>5. ASSUME PrimeStop PROVE CountInv'
    <2>1. /\ wpc = "prime" /\ wpc' = "quit" /\ dma_buffers_in = 0 /\ dma_buffers_out = 0
          /\ UNCHANGED <<counts, dmac>>
      BY <1>5 DEF PrimeStop, LoopInv
    <2>2. UNCHANGED <<dma_buffers_out, dma_buffers_in, dma_callback_done, chan, callbacks, cdone, lost,
                      left>>
      BY <2>1 DEF counts, dmac
    <2>3. ~left /\ dma_callback_done = 0 /\ callbacks = 0 /\ cdone = << >>
      BY <2>1, <2>2 DEF CountInv
    <2>4. Pending = 0
      BY <2>1, <2>3, NothingPending DEF RestInv
    <2>5. Pending' = 0 /\ Len(cdone') = 0
      BY <2>2, <2>3, <2>4 DEF Pending
    <2>6. QED
      BY <2>1, <2>2, <2>3, <2>5 DEF CountInv
  <1>6. ASSUME Ready \/ Drain \/ SyncWait \/ HasRefill \/ Stall \/ Quit PROVE CountInv'
    <2>1. /\ Playing /\ Playing'
          /\ UNCHANGED <<dma_buffers_out, dma_buffers_in, dma_callback_done, dmac>>
      BY <1>6 DEF Ready, Drain, SyncWait, HasRefill, Stall, Quit, counts
    <2>2. UNCHANGED <<dma_buffers_out, dma_buffers_in, dma_callback_done, chan, callbacks, cdone, lost,
                      left>>
      BY <2>1 DEF dmac
    <2>3. Pending' = Pending
      BY <2>2 DEF Pending
    <2>4. QED
      BY <2>1, <2>2, <2>3 DEF CountInv
  <1>7. ASSUME CountIn PROVE CountInv'
    <2>1. /\ Playing /\ Playing' /\ dma_buffers_in' = dma_buffers_in + 1
          /\ dma_callback_done' = ldone - 1
          /\ lost' = (IF dma_callback_done # ldone THEN lost + 1 ELSE lost)
          /\ UNCHANGED <<dma_buffers_out, chan, callbacks, cdone, left>>
      BY <1>7 DEF CountIn
    <2>2. lost = 0 /\ dma_callback_done = ldone
      BY <1>1, <2>1
    <2>3. /\ ~left
          /\ dma_buffers_out = dma_buffers_in + dma_callback_done + callbacks + Len(cdone) + Pending
      BY <2>1, <2>2 DEF CountInv
    <2>4. Pending' = Pending
      BY <2>1 DEF Pending
    <2>5. dma_buffers_out' = dma_buffers_in' + dma_callback_done' + callbacks' + Len(cdone') + Pending'
      BY <1>1, <2>1, <2>2, <2>3, <2>4
    <2>6. QED
      BY <2>1, <2>3, <2>5 DEF CountInv
  <1>8. ASSUME SyncTimeout PROVE CountInv'
    <2>1. wpc = "sync" /\ ~Idle(ic) /\ lost = 0
      BY <1>8 DEF SyncTimeout, Idle
    <2>2. /\ ~left /\ dma_buffers_out = dma_buffers_in + 1
          /\ dma_buffers_out = dma_buffers_in + dma_callback_done + callbacks + Len(cdone) + Pending
      BY <2>1 DEF CountInv, LoopInv
    <2>3. ~Idle(other)
      BY <2>1, <2>2 DEF TurnInv
    <2> DEFINE p == Len(chan[ic])
               q == Len(chan[other])
    <2>4. p \in Nat /\ q \in Nat /\ Pending = p + q
      BY ChannelTypes
    <2>5. p # 0 /\ q # 0
      BY <2>1, <2>3, ChannelTypes DEF Idle
    <2> HIDE DEF p, q
    <2>6. Pending >= 2
      BY <2>4, <2>5
    <2>7. FALSE
      BY <1>1, <2>2, <2>6
    <2>8. QED
      BY <2>7
  <1>9. ASSUME NextPush \/ LastPush PROVE CountInv'
    <2>1. PICK l \in BOOLEAN : Turn(l)
      BY <1>9 DEF NextPush, LastPush
    <2>2. /\ wpc = "push" /\ wpc' = (IF l THEN "quit" ELSE "ready")
          /\ dma_buffers_out' = dma_buffers_out + 1
          /\ UNCHANGED <<dma_buffers_in, dma_callback_done, callbacks, cdone, lost, left>>
      BY <2>1, PushMoves
    <2>3. /\ ~left
          /\ dma_buffers_out = dma_buffers_in + dma_callback_done + callbacks + Len(cdone) + Pending
      BY <2>2 DEF CountInv
    <2>4. Pending' = Pending + 1
      <3> DEFINE t == [buf |-> hbm', wait |-> TRUE, set |-> ~l]
      <3>1. chan' = [chan EXCEPT ![ic] = <<t>>] /\ Len(chan[ic]) = 0
        BY <2>1, <2>3, PushTurn
      <3>2. t \in Transfers
        <4>1. hbm' \in Buffers
          BY WorkerTypesStep DEF WorkerTypes
        <4>2. QED
          BY <4>1 DEF Transfers
      <3> HIDE DEF t
      <3>3. <<t>> \in Seq(Transfers) /\ Len(<<t>>) = 1
        BY <3>2
      <3>4. ic \in 0 .. 1
        BY ChannelTypes
      <3>5. Pending' = (Pending - Len(chan[ic])) + Len(<<t>>)
        BY <3>1, <3>3, <3>4, OneChannel
      <3>6. Pending' = (Pending - 0) + 1
        BY <3>1, <3>3, <3>5, Zenon
      <3>7. QED
        BY <1>1, <3>6
    <2>5. dma_buffers_out' = dma_buffers_in' + dma_callback_done' + callbacks' + Len(cdone') + Pending'
      BY <1>1, <2>2, <2>3, <2>4
    <2>6. QED
      BY <2>2, <2>3, <2>5 DEF CountInv
  <1>10. ASSUME Drained PROVE CountInv'
    <2>1. /\ wpc = "drain" /\ dma_buffers_in >= dma_buffers_out /\ wpc' = "exited"
          /\ left' = (left \/ Busy) /\ UNCHANGED <<dma_callback_done, callbacks, cdone, lost>>
      BY <1>10 DEF Drained, counts
    <2>2. /\ ~left
          /\ dma_buffers_out = dma_buffers_in + dma_callback_done + callbacks + Len(cdone) + Pending
      BY <2>1 DEF CountInv
    <2>3. dma_callback_done = 0 /\ callbacks = 0 /\ Len(cdone) = 0 /\ Pending = 0
      BY <1>1, <2>1, <2>2
    <2>4. \A i \in 0 .. 1 : Idle(i)
      BY <2>3, NothingPending
    <2>5. ~event[other] /\ ~event[ic]
      <3>1. Idle(other)
        BY <2>4, ChannelTypes
      <3>2. QED
        BY <2>1, <2>2, <3>1 DEF TurnInv, Running
    <2>6. \A i \in 0 .. 1 : ~event[i]
      BY <2>5, ChannelTypes
    <2>7. ~Busy
      BY <2>4, <2>6 DEF Busy, Idle
    <2>8. cdone = << >>
      <3>1. CASE cdone = << >>
        BY <3>1
      <3>2. ASSUME NEW n \in Nat, cdone = <<n>> PROVE FALSE
        BY <2>3, <3>2
      <3>3. QED
        BY <3>1, <3>2 DEF StreamTypeOK, WorkerTypes
    <2>9. QED
      BY <2>1, <2>2, <2>3, <2>7, <2>8 DEF CountInv
  <1>11. ASSUME NEW i \in 0 .. 1, Transfer(i) PROVE CountInv'
    <2>1. /\ callbacks' = callbacks + 1
          /\ UNCHANGED <<wpc, dma_buffers_out, dma_buffers_in, dma_callback_done, cdone, lost, left>>
      BY <1>11 DEF Transfer, counts
    <2>2. ~left
      BY <2>1 DEF CountInv
    <2>3. Playing /\ Len(chan[i]) = 1 /\ chan' = [chan EXCEPT ![i] = << >>]
      BY <1>11, <2>2, TransferTurn
    <2>4. dma_buffers_out = dma_buffers_in + dma_callback_done + callbacks + Len(cdone) + Pending
      BY <2>1, <2>3 DEF CountInv
    <2>5. << >> \in Seq(Transfers) /\ Len(<< >>) = 0
      OBVIOUS
    <2>6. Pending' = (Pending - Len(chan[i])) + Len(<< >>)
      BY <2>3, <2>5, OneChannel
    <2>7. Pending' = (Pending - 1) + 0
      BY <2>3, <2>5, <2>6, Zenon
    <2>8. dma_buffers_out' = dma_buffers_in' + dma_callback_done' + callbacks' + Len(cdone') + Pending'
      BY <1>1, <2>1, <2>4, <2>7
    <2>9. QED
      BY <2>1, <2>2, <2>3, <2>8 DEF CountInv
  <1>12. ASSUME CallbackRead PROVE CountInv'
    <2>1. /\ callbacks > 0 /\ callbacks' = callbacks - 1 /\ cdone = << >>
          /\ cdone' = <<dma_callback_done>>
          /\ UNCHANGED <<wpc, dma_buffers_out, dma_buffers_in, dma_callback_done, chan, lost, left>>
      BY <1>12 DEF CallbackRead, counts
    <2>2. Len(cdone) = 0 /\ Len(cdone') = 1
      BY <2>1
    <2>3. Pending' = Pending
      BY <2>1 DEF Pending
    <2>4. /\ ~left /\ Playing
          /\ dma_buffers_out = dma_buffers_in + dma_callback_done + callbacks + Len(cdone) + Pending
      BY <2>1 DEF CountInv
    <2>5. dma_buffers_out' = dma_buffers_in' + dma_callback_done' + callbacks' + Len(cdone') + Pending'
      BY <1>1, <2>1, <2>2, <2>3, <2>4
    <2>6. QED
      BY <2>1, <2>4, <2>5 DEF CountInv
  <1>13. ASSUME CallbackWrite PROVE CountInv'
    <2>1. PICK n \in Nat : cdone = <<n>>
      BY <1>13 DEF CallbackWrite, StreamTypeOK, WorkerTypes
    <2>2. Head(cdone) = n /\ Len(cdone) = 1
      BY <2>1
    <2>3. /\ dma_callback_done' = n + 1 /\ cdone' = << >>
          /\ lost' = (IF dma_callback_done # n THEN lost + 1 ELSE lost)
          /\ UNCHANGED <<wpc, dma_buffers_out, dma_buffers_in, chan, callbacks, left>>
      BY <1>13, <2>2 DEF CallbackWrite
    <2>4. lost = 0 /\ dma_callback_done = n /\ Len(cdone') = 0
      BY <1>1, <2>3
    <2>5. cdone # << >>
      BY <1>13 DEF CallbackWrite
    <2>6. /\ ~left /\ Playing
          /\ dma_buffers_out = dma_buffers_in + dma_callback_done + callbacks + Len(cdone) + Pending
      BY <2>4, <2>5 DEF CountInv
    <2>7. Pending' = Pending
      BY <2>3 DEF Pending
    <2>8. dma_buffers_out' = dma_buffers_in' + dma_callback_done' + callbacks' + Len(cdone') + Pending'
      BY <1>1, <2>2, <2>3, <2>4, <2>6, <2>7
    <2>9. QED
      BY <2>3, <2>6, <2>8 DEF CountInv
  <1>14. QED
    BY <1>2, <1>3, <1>4, <1>5, <1>6, <1>7, <1>8, <1>9, <1>10, <1>11, <1>12, <1>13
       DEF Next, Worker, Callback

\* A pair is written.
LEMMA PutTwo ==
  ASSUME NEW q \in Queue, NEW x \in Buffers, NEW y \in Buffers, BQ_count(q) <= backlog - 3
  PROVE  LET r == BQ_put(BQ_put(q, x), y)
         IN  /\ r \in Queue /\ BQ_count(r) = BQ_count(q) + 2
             /\ BQ_items(r) = Append(Append(BQ_items(q), x), y)
  <1> DEFINE p == BQ_put(q, x)
  <1>1. BQ_count(q) \in Nat /\ backlog \in Nat
    BY RingCounts, Sizes
  <1>2. p \in Queue /\ BQ_count(p) = BQ_count(q) + 1 /\ BQ_items(p) = Append(BQ_items(q), x)
    BY <1>1, RingPut
  <1> HIDE DEF p
  <1>3. BQ_count(p) <= backlog - 2
    BY <1>1, <1>2
  <1>4. /\ BQ_put(p, y) \in Queue /\ BQ_count(BQ_put(p, y)) = BQ_count(p) + 1
        /\ BQ_items(BQ_put(p, y)) = Append(BQ_items(p), y)
    BY <1>2, <1>3, RingPut
  <1>5. BQ_count(BQ_put(p, y)) = BQ_count(q) + 2
    BY <1>1, <1>2, <1>4
  <1>6. QED
    BY <1>2, <1>4, <1>5 DEF p

\* A pair is taken.
LEMMA DropTwo ==
  ASSUME NEW q \in Queue, BQ_count(q) >= 2
  PROVE  LET d == BQ_drop(q)
         IN  /\ d \in Queue /\ BQ_drop(d) \in Queue
             /\ BQ_items(q) # << >> /\ BQ_items(d) = Tail(BQ_items(q)) /\ BQ_items(d) # << >>
             /\ BQ_item(q) = Head(BQ_items(q)) /\ BQ_item(d) = Head(BQ_items(d))
             /\ BQ_items(BQ_drop(d)) = Tail(BQ_items(d))
             /\ BQ_count(BQ_drop(d)) = BQ_count(q) - 2
  <1> DEFINE d == BQ_drop(q)
  <1>1. BQ_count(q) \in Nat
    BY RingCounts
  <1>2. /\ d \in Queue /\ BQ_count(d) = BQ_count(q) - 1 /\ BQ_items(q) # << >>
        /\ BQ_item(q) = Head(BQ_items(q)) /\ BQ_items(d) = Tail(BQ_items(q))
    BY <1>1, RingDrop
  <1> HIDE DEF d
  <1>3. BQ_count(d) >= 1
    BY <1>1, <1>2
  <1>4. /\ BQ_drop(d) \in Queue /\ BQ_count(BQ_drop(d)) = BQ_count(d) - 1 /\ BQ_items(d) # << >>
        /\ BQ_item(d) = Head(BQ_items(d)) /\ BQ_items(BQ_drop(d)) = Tail(BQ_items(d))
    BY <1>2, <1>3, RingDrop
  <1>5. BQ_count(BQ_drop(d)) = BQ_count(q) - 2
    BY <1>1, <1>2, <1>4
  <1>6. QED
    BY <1>2, <1>4, <1>5 DEF d

\* What acq400_streamdac_write() does to the queue.
LEMMA PairWritten ==
  ASSUME StreamTypeOK, CallsInv, NEW c \in Clients, WritePair(c)
  PROVE  /\ app[c] \in Seq(Buffers) /\ Len(app[c]) >= 2
         /\ app[c][1] \in Buffers /\ app[c][2] \in Buffers
         /\ app'[c] = Tail(Tail(app[c])) /\ Len(app'[c]) = Len(app[c]) - 2
         /\ refills' \in Queue /\ BQ_count(refills') = BQ_count(refills) + 2
         /\ BQ_items(refills') = Append(Append(BQ_items(refills), app[c][1]), app[c][2])
         /\ wseq' = wseq \o <<app[c][1], app[c][2]>>
  <1>1. refills \in Queue /\ app \in [Clients -> Seq(Buffers)] /\ todo \in [Clients -> Nat]
    BY DEF StreamTypeOK, CallTypes
  <1>2. todo[c] \in Nat /\ todo[c] >= 1 /\ app[c] \in Seq(Buffers) /\ 2 * todo[c] <= Len(app[c])
    BY <1>1 DEF WritePair, CallsInv, Calls
  <1>3. Len(app[c]) >= 2
    BY <1>2
  <1>4. app[c][1] \in Buffers /\ app[c][2] \in Buffers
    BY <1>2, <1>3
  <1>5. /\ SubSeq(app[c], 3, Len(app[c])) = Tail(Tail(app[c])) /\ Len(Tail(Tail(app[c]))) = Len(app[c]) - 2
        /\ SubSeq(app[c], 1, 2) = <<app[c][1], app[c][2]>>
    BY <1>2, <1>3, FirstTwo
  <1>6. /\ app' = [app EXCEPT ![c] = SubSeq(@, 3, Len(@))]
        /\ wseq' = wseq \o SubSeq(app[c], 1, 2)
        /\ refills' = BQ_put(BQ_put(refills, app[c][1]), app[c][2])
        /\ BQ_space(refills) > 2
    BY DEF WritePair, HasSpace
  <1>7. app'[c] = Tail(Tail(app[c])) /\ wseq' = wseq \o <<app[c][1], app[c][2]>>
    BY <1>1, <1>5, <1>6
  <1>8. BQ_count(refills) <= backlog - 3
    <2>1. BQ_space(refills) = backlog - 1 - BQ_count(refills) /\ BQ_count(refills) \in 0 .. backlog - 1
      BY <1>1, RingCounts
    <2>2. QED
      BY <1>6, <2>1, Sizes
  <1>9. /\ refills' \in Queue /\ BQ_count(refills') = BQ_count(refills) + 2
        /\ BQ_items(refills') = Append(Append(BQ_items(refills), app[c][1]), app[c][2])
    BY <1>1, <1>4, <1>6, <1>8, PutTwo
  <1>10. QED
    BY <1>2, <1>3, <1>4, <1>5, <1>7, <1>9

\* There is one client, or none.
LEMMA AsOne ==
  ASSUME OneClient, StreamTypeOK, NEW c \in Clients
  PROVE  /\ \A d \in Clients : d = c
         /\ bq_clients = {} \/ bq_clients = {c}
  BY DEF OneClient, StreamTypeOK, CallTypes

LEMMA RefillStep ==
  ASSUME StreamTypeOK, CallsInv, RefillInv, Next
  PROVE  RefillInv'
  <1>1. refills \in Queue /\ BQ_count(refills) \in Nat
    BY RingCounts DEF StreamTypeOK, CallTypes
  <1>2. ASSUME UNCHANGED <<wpc, last_push, refills>> PROVE RefillInv'
    BY <1>2, Zenon DEF RefillInv
  <1>3. ASSUME wpc' # "push" PROVE RefillInv'
    BY <1>3 DEF RefillInv
  <1>4. ASSUME NEW c \in Clients, OpenInit(c) PROVE RefillInv'
    <2>1. ~Alive /\ wpc' = wpc
      BY <1>4 DEF OpenInit, CallsInv, Calls
    <2>2. QED
      BY <1>3, <2>1 DEF Alive
  <1>5. ASSUME NEW c \in Clients, WritePair(c) PROVE RefillInv'
    <2>1. BQ_count(refills') = BQ_count(refills) + 2
      BY <1>5, PairWritten
    <2>2. BQ_count(refills)' = BQ_count(refills')
      BY DEF BQ_count
    <2>3. BQ_count(refills)' >= 1
      BY <1>1, <2>1, <2>2
    <2>4. QED
      BY <2>3 DEF RefillInv
  <1>6. ASSUME NEW c \in Clients,
               \/ OpenTest(c) \/ Read(c) \/ WriteEnd(c) \/ Release(c) \/ Join(c)
               \/ \E k \in 1 .. MaxPairs : Write(c, k)
               \/ ReleaseDone(c) \/ ReleaseInterrupted(c)
        PROVE  RefillInv'
    <2>1. UNCHANGED <<last_push, refills>>
      BY <1>6 DEF OpenTest, Read, WriteEnd, Release, Join, Write, ReleaseDone, ReleaseInterrupted,
         Close, queues, locals
    <2>2. wpc' = wpc \/ wpc' # "push"
      BY <1>6 DEF OpenTest, Read, WriteEnd, Release, Join, Write, ReleaseDone, ReleaseInterrupted, Close
    <2>3. QED
      BY <1>2, <1>3, <2>1, <2>2
  <1>7. ASSUME HasRefill PROVE RefillInv'
    <2>1. BQ_count(refills) >= 1 /\ refills' = refills
      BY <1>7 DEF HasRefill, queues
    <2>2. BQ_count(refills)' = BQ_count(refills)
      BY <2>1, Zenon
    <2>3. QED
      BY <2>1, <2>2 DEF RefillInv
  <1>8. ASSUME Stall PROVE RefillInv'
    BY <1>8 DEF Stall, RefillInv
  <1>9. ASSUME \/ WorkerRuns \/ WorkerNeverRuns \/ Prime \/ PrimeStop \/ Ready \/ CountIn
               \/ SyncWait \/ SyncTimeout \/ NextPush \/ LastPush \/ Quit \/ Drain \/ Drained
        PROVE  RefillInv'
    <2>1. wpc' # "push"
      BY <1>9 DEF WorkerRuns, WorkerNeverRuns, Prime, PrimeStop, Ready, SyncWait, SyncTimeout, NextPush,
         LastPush, Turn, Quit, Drain, Drained, CountIn
    <2>2. QED
      BY <1>3, <2>1
  <1>10. ASSUME (\E i \in 0 .. 1 : Transfer(i)) \/ Callback PROVE RefillInv'
    BY <1>2, <1>10 DEF Transfer, Callback, CallbackRead, CallbackWrite, queues, locals
  <1>11. QED
    BY <1>4, <1>5, <1>6, <1>7, <1>8, <1>9, <1>10 DEF Next, Worker

----------------------------------------------------------------------------
(* The places of the buffers.                                              *)

\* A step that leaves the lists alone.
LEMMA ShareAside ==
  ASSUME NEW c, NEW a, NEW e, NEW r, Share(c, a, e, r),
         ab' = ab, hbm' = hbm,
         Fresh(c)' => Fresh(c), ~f_pos'[c] => ~f_pos[c],
         \A i \in 0 .. 1 : ~Held(i)' \/ (Held(i) /\ chan'[i] = chan[i]),
         Running' => Running /\ ic' = ic
  PROVE  Share(c, a, e, r)'
  <1>1. Places(a, e, r)'
    BY Zenon DEF Share
  <1>2. ASSUME NEW i \in 0 .. 1, Held(i)' PROVE ~Somewhere(a, e, r, Head(chan[i]).buf)'
    <2>1. Held(i) /\ chan'[i] = chan[i]
      BY <1>2
    <2>2. ~Somewhere(a, e, r, Head(chan[i]).buf)
      BY <2>1, Zenon DEF Share
    <2>3. QED
      BY <2>1, <2>2, Zenon
  <1>3. Fresh(c)' => Total(a, e, r) = limit /\ \A b \in Buffers : Somewhere(a, e, r, b)
    BY Zenon DEF Share
  <1>4. ASSUME Running'
        PROVE  (/\ Total(a, e, r) + 2 = limit
                /\ ab[0] # ab[1] /\ ~Somewhere(a, e, r, ab[0]) /\ ~Somewhere(a, e, r, ab[1])
                /\ hbm = ab[other]
                /\ \A b \in Buffers : Somewhere(a, e, r, b) \/ b \in {ab[0], ab[1]}
                /\ \A i \in 0 .. 1 : Held(i) => Head(chan[i]).buf = ab[i])'
    <2>1. Running /\ other' = other
      BY <1>4, Zenon DEF other
    <2>2. /\ Total(a, e, r) + 2 = limit
          /\ ab[0] # ab[1] /\ ~Somewhere(a, e, r, ab[0]) /\ ~Somewhere(a, e, r, ab[1])
          /\ hbm = ab[other]
          /\ \A b \in Buffers : Somewhere(a, e, r, b) \/ b \in {ab[0], ab[1]}
          /\ \A i \in 0 .. 1 : Held(i) => Head(chan[i]).buf = ab[i]
      BY <2>1, Zenon DEF Share
    <2>3. \A i \in 0 .. 1 : Held(i)' => Head(chan'[i]).buf = ab'[i]
      BY <2>2, Zenon
    <2>4. QED
      BY <2>1, <2>2, <2>3, Zenon
  <1>5. ~f_pos'[c] => Len(a) % 2 = 0 /\ Len(r) % 2 = 0
    BY Zenon DEF Share
  <1>6. QED
    BY <1>1, <1>2, <1>3, <1>4, <1>5, Zenon DEF Share

LEMMA PlacesAside ==
  ASSUME PlacesInv,
         bq_clients' \subseteq bq_clients, refills' = refills, ab' = ab, hbm' = hbm,
         \A c \in bq_clients' :
           /\ app'[c] = app[c] /\ empties'[c] = empties[c]
           /\ Fresh(c)' => Fresh(c)
           /\ ~f_pos'[c] => ~f_pos[c],
         \A i \in 0 .. 1 : ~Held(i)' \/ (Held(i) /\ chan'[i] = chan[i]),
         Running' => Running /\ ic' = ic
  PROVE  PlacesInv'
  <1> SUFFICES ASSUME NEW c \in bq_clients'
               PROVE  Share(c, app[c], BQ_items(empties[c]), BQ_items(refills))'
    BY Zenon DEF PlacesInv
  <1>1. c \in bq_clients /\ app'[c] = app[c] /\ empties'[c] = empties[c] /\ refills' = refills
    OBVIOUS
  <1> DEFINE a == app[c]
             e == BQ_items(empties[c])
             r == BQ_items(refills)
  <1>2. Share(c, a, e, r)
    BY <1>1, Zenon DEF PlacesInv
  <1>3. a' = a /\ e' = e /\ r' = r
    BY <1>1, Zenon
  <1>4. PICK x, y, z : x = a /\ y = e /\ z = r
    OBVIOUS
  <1> HIDE DEF a, e, r
  <1>5. Share(c, x, y, z)
    BY <1>2, <1>4
  <1>6. Share(c, x, y, z)'
    BY <1>1, <1>5, ShareAside
  <1>7. x = a' /\ y = e' /\ z = r'
    BY <1>3, <1>4
  <1>8. QED
    BY <1>6, <1>7, Zenon DEF a, e, r, Share

\* What the lists are, as lists.
LEMMA ListTypes ==
  ASSUME StreamTypeOK, NEW c \in Clients
  PROVE  /\ app[c] \in Seq(Buffers) /\ empties[c] \in Queue /\ refills \in Queue
         /\ BQ_items(empties[c]) \in Seq(Buffers) /\ BQ_items(refills) \in Seq(Buffers)
         /\ Len(BQ_items(empties[c])) = BQ_count(empties[c]) /\ Len(BQ_items(refills)) = BQ_count(refills)
         /\ Len(app[c]) \in Nat /\ BQ_count(empties[c]) \in Nat /\ BQ_count(refills) \in Nat
         /\ c \in DOMAIN app /\ c \in DOMAIN empties
  <1>1. /\ app \in [Clients -> Seq(Buffers)] /\ empties \in [Clients -> Queue] /\ refills \in Queue
    BY DEF StreamTypeOK, CallTypes
  <1>2. app[c] \in Seq(Buffers) /\ empties[c] \in Queue /\ Len(app[c]) \in Nat
    BY <1>1
  <1>3. /\ BQ_items(empties[c]) \in Seq(Buffers) /\ Len(BQ_items(empties[c])) = BQ_count(empties[c])
        /\ BQ_count(empties[c]) \in Nat
    BY <1>2, RingCounts
  <1>4. BQ_items(refills) \in Seq(Buffers) /\ Len(BQ_items(refills)) = BQ_count(refills) /\ BQ_count(refills) \in Nat
    BY <1>1, RingCounts
  <1>5. QED
    BY <1>1, <1>2, <1>3, <1>4

\* The new lists have their share.
LEMMA PlacesBy ==
  ASSUME NEW c, bq_clients' \subseteq {c}, NEW a, NEW e, NEW r,
         app'[c] = a, BQ_items(empties'[c]) = e, BQ_items(refills') = r, Share(c, a, e, r)'
  PROVE  PlacesInv'
  <1> SUFFICES ASSUME NEW d \in bq_clients'
               PROVE  Share(d, app[d], BQ_items(empties[d]), BQ_items(refills))'
    BY Zenon DEF PlacesInv
  <1>1. d = c
    OBVIOUS
  <1>2. a = app[d]' /\ e = BQ_items(empties[d])' /\ r = BQ_items(refills)'
    BY <1>1, Zenon
  <1>3. QED
    BY <1>1, <1>2, Zenon DEF Share

\* Buffers move between the lists.
LEMMA ShareMoved ==
  ASSUME NEW c, NEW a, NEW e, NEW r, Share(c, a, e, r), NEW a1, NEW e1, NEW r1,
         Places(a1, e1, r1), \A b : Somewhere(a1, e1, r1, b) <=> Somewhere(a, e, r, b),
         Total(a1, e1, r1) = Total(a, e, r),
         Len(a) % 2 = 0 /\ Len(r) % 2 = 0 => Len(a1) % 2 = 0 /\ Len(r1) % 2 = 0,
         UNCHANGED <<ab, hbm, ic, f_pos, wpc, chan, left>>
  PROVE  Share(c, a1, e1, r1)'
  <1>1. Share(c, a1, e1, r1)
    BY Zenon DEF Share
  <1>2. QED
    BY <1>1, Zenon DEF Share, Held, Idle, Fresh, Running, other

LEMMA PlacesRead ==
  ASSUME OneClient, StreamTypeOK, PlacesInv, NEW c \in bq_clients, Read(c)
  PROVE  PlacesInv'
  <1> DEFINE a == app[c]
             e == BQ_items(empties[c])
             r == BQ_items(refills)
             q == BQ_drop(empties[c])
             x == BQ_item(empties[c])
             y == BQ_item(q)
  <1>1. c \in Clients /\ bq_clients' = bq_clients /\ bq_clients = {c}
    BY AsOne DEF Read, StreamTypeOK, CallTypes
  <1>2. Share(c, a, e, r)
    BY DEF PlacesInv
  <1>3. /\ empties[c] \in Queue /\ BQ_count(empties[c]) >= 2
        /\ a \in Seq(Buffers) /\ e \in Seq(Buffers) /\ r \in Seq(Buffers)
    BY <1>1, ListTypes DEF Read
  <1>4. /\ app' = [app EXCEPT ![c] = @ \o <<x, y>>] /\ empties' = [empties EXCEPT ![c] = BQ_drop(q)]
        /\ refills' = refills /\ UNCHANGED <<ab, hbm, ic, f_pos, wpc, chan, left>>
    BY DEF Read, locals, files, dmac
  <1>5. app'[c] = a \o <<x, y>> /\ empties'[c] = BQ_drop(q)
    BY <1>1, <1>4, ListTypes
  <1>6. /\ e # << >> /\ BQ_items(q) = Tail(e) /\ Tail(e) # << >>
        /\ x = Head(e) /\ y = Head(Tail(e)) /\ BQ_items(BQ_drop(q)) = Tail(Tail(e))
    BY <1>3, DropTwo
  <1> HIDE DEF a, e, r, q
  <1>7. /\ x \in Buffers /\ y \in Buffers /\ Tail(e) \in Seq(Buffers) /\ Tail(Tail(e)) \in Seq(Buffers)
        /\ Len(Tail(Tail(e))) = Len(e) - 2 /\ Len(e) \in Nat
    <2>1. Len(e) >= 2 /\ Len(e) \in Nat
      BY <1>1, <1>3, ListTypes DEF e
    <2>2. Tail(e) \in Seq(Buffers) /\ Len(Tail(Tail(e))) = Len(e) - 2
      BY <1>3, <2>1, FirstTwo
    <2>3. Head(e) \in Buffers /\ Head(Tail(e)) \in Buffers /\ Tail(Tail(e)) \in Seq(Buffers)
      BY <1>3, <1>6, <2>2, HeadTailFacts
    <2>4. QED
      BY <1>6, <2>1, <2>2, <2>3
  <1> HIDE DEF x, y
  <1>8. /\ a \o <<x, y>> = Append(Append(a, x), y) /\ a \o <<x, y>> \in Seq(Buffers)
        /\ Len(a \o <<x, y>>) = Len(a) + 2
    BY <1>3, <1>7, TwoMore
  <1> DEFINE a1 == Append(a, x)
             e1 == Tail(e)
             a2 == Append(a1, y)
             e2 == Tail(e1)
  <1>9. /\ a1 \in Seq(Buffers) /\ e1 \in Seq(Buffers) /\ Places(a1, e1, r)
        /\ \A b : Somewhere(a1, e1, r, b) <=> Somewhere(a, e, r, b)
    BY <1>2, <1>3, <1>6, MoveRead DEF Share
  <1> HIDE DEF a1
  <1>10. e1 # << >> /\ Head(e1) = y
    BY <1>6
  <1> HIDE DEF e1
  <1>11. /\ Places(a2, e2, r) /\ \A b : Somewhere(a2, e2, r, b) <=> Somewhere(a1, e1, r, b)
    BY <1>3, <1>9, <1>10, MoveRead
  <1>12. Len(a2) = Len(a) + 2 /\ Len(e2) = Len(e) - 2
    BY <1>7, <1>8 DEF a1, e1
  <1>13. a \o <<x, y>> = a2
    BY <1>8 DEF a1
  <1>14. e2 = BQ_items(empties'[c])
    BY <1>5, <1>6 DEF e1
  <1> HIDE DEF a2, e2
  <1>15. Len(a) \in Nat /\ Len(e) \in Nat /\ Len(r) \in Nat
    BY <1>3
  <1>16. Total(a2, e2, r) = Total(a, e, r) /\ (Len(a) % 2 = 0 => Len(a2) % 2 = 0)
    BY <1>12, <1>15 DEF Total
  <1>17. \A b : Somewhere(a2, e2, r, b) <=> Somewhere(a, e, r, b)
    BY <1>9, <1>11, Zenon
  <1>18. app'[c] = a2 /\ BQ_items(empties'[c]) = e2 /\ BQ_items(refills') = r
    BY <1>4, <1>5, <1>13, <1>14 DEF r
  <1>19. PICK u, v, w : u = a2 /\ v = e2 /\ w = r
    OBVIOUS
  <1>20. Share(c, u, v, w)'
    BY <1>2, <1>4, <1>11, <1>16, <1>17, <1>19, ShareMoved
  <1>21. QED
    BY <1>1, <1>18, <1>19, <1>20, PlacesBy

LEMMA PlacesWritePair ==
  ASSUME OneClient, StreamTypeOK, CallsInv, PlacesInv, NEW c \in bq_clients, WritePair(c)
  PROVE  PlacesInv'
  <1> DEFINE a == app[c]
             e == BQ_items(empties[c])
             r == BQ_items(refills)
             x == a[1]
             y == a[2]
             a1 == Tail(a)
             r1 == Append(r, x)
             a2 == Tail(a1)
             r2 == Append(r1, y)
  <1>1. c \in Clients /\ bq_clients' = bq_clients /\ bq_clients = {c}
    BY AsOne DEF WritePair, StreamTypeOK, CallTypes
  <1>2. Share(c, a, e, r)
    BY DEF PlacesInv
  <1>3. a \in Seq(Buffers) /\ e \in Seq(Buffers) /\ r \in Seq(Buffers) /\ Len(r) = BQ_count(refills)
    BY <1>1, ListTypes
  <1>4. empties' = empties /\ UNCHANGED <<ab, hbm, ic, f_pos, wpc, chan, left>>
    BY DEF WritePair, locals, files, dmac
  <1>5. /\ Len(a) >= 2 /\ app'[c] = a2 /\ Len(a2) = Len(a) - 2
        /\ BQ_items(refills') = r2 /\ refills' \in Queue /\ BQ_count(refills') = BQ_count(refills) + 2
    BY <1>1, PairWritten
  <1>6. a # << >> /\ a1 \in Seq(Buffers) /\ a1 # << >> /\ x = Head(a) /\ y = Head(a1)
    BY <1>3, <1>5, FirstTwo
  <1>7. Len(r2) = Len(r) + 2
    <2>1. Len(BQ_items(refills')) = BQ_count(refills')
      BY <1>5, RingCounts
    <2> HIDE DEF r, r2
    <2>2. QED
      BY <1>3, <1>5, <2>1
  <1> HIDE DEF a, e, r, x, y
  <1>8. a1 \in Seq(Buffers) /\ r1 \in Seq(Buffers) /\ Places(a1, e, r1)
        /\ \A b : Somewhere(a1, e, r1, b) <=> Somewhere(a, e, r, b)
    BY <1>2, <1>3, <1>6, MoveWrite DEF Share
  <1> HIDE DEF a1, r1
  <1>9. Places(a2, e, r2) /\ \A b : Somewhere(a2, e, r2, b) <=> Somewhere(a1, e, r1, b)
    BY <1>3, <1>6, <1>8, MoveWrite
  <1> HIDE DEF a2, r2
  <1>10. Len(a) \in Nat /\ Len(e) \in Nat /\ Len(r) \in Nat
    BY <1>3
  <1>11. /\ Total(a2, e, r2) = Total(a, e, r)
         /\ Len(a) % 2 = 0 /\ Len(r) % 2 = 0 => Len(a2) % 2 = 0 /\ Len(r2) % 2 = 0
    BY <1>5, <1>7, <1>10 DEF Total
  <1>12. \A b : Somewhere(a2, e, r2, b) <=> Somewhere(a, e, r, b)
    BY <1>8, <1>9, Zenon
  <1>13. app'[c] = a2 /\ BQ_items(empties'[c]) = e /\ BQ_items(refills') = r2
    BY <1>4, <1>5 DEF e
  <1>14. PICK u, v, w : u = a2 /\ v = e /\ w = r2
    OBVIOUS
  <1>15. Share(c, u, v, w)'
    BY <1>2, <1>4, <1>9, <1>11, <1>12, <1>14, ShareMoved
  <1>16. QED
    BY <1>1, <1>13, <1>14, <1>15, PlacesBy

LEMMA PlacesOpenInit ==
  ASSUME OneClient, StreamTypeOK, CallsInv, RestInv, NEW c \in Clients, OpenInit(c)
  PROVE  PlacesInv'
  <1> DEFINE e == BQ_items(Full(backlog))
  <1>1. /\ app'[c] = << >> /\ empties'[c] = Full(backlog) /\ refills' = BQ_clear(refills)
        /\ bq_clients' \subseteq {c} /\ f_pos'[c] = FALSE
        /\ UNCHANGED <<wpc, chan, left>>
    BY AsOne DEF OpenInit, StreamTypeOK, CallTypes
  <1>2. ~Playing
    BY DEF OpenInit, CallsInv, Calls, Alive, Playing
  <1>3. \A i \in 0 .. 1 : ~Held(i)'
    BY <1>1, <1>2, Zenon DEF RestInv, Held, Idle
  <1>4. ~Running'
    BY <1>1, <1>2 DEF Running, Playing
  <1>5. BQ_items(refills') = << >>
    BY <1>1, ListTypes, RingClear
  <1>6. Places(<< >>, e, << >>) /\ \A b \in Buffers : Somewhere(<< >>, e, << >>, b)
    BY OpenPlaces
  <1>7. Total(<< >>, e, << >>) = limit
    <2>1. Len(e) = limit
      BY RingFull, RingCounts
    <2>2. Len(<< >>) = 0
      OBVIOUS
    <2> HIDE DEF e
    <2>3. QED
      BY <2>1, <2>2, Sizes DEF Total
  <1>8. Len(<< >>) % 2 = 0
    OBVIOUS
  <1>9. BQ_items(empties'[c]) = e
    BY <1>1
  <1> HIDE DEF e
  <1>10. PICK u, v : u = << >> /\ v = e
    OBVIOUS
  <1>11. Share(c, u, v, u)'
    <2>1. Places(u, v, u)' /\ (\A b \in Buffers : Somewhere(u, v, u, b)) /\ Total(u, v, u) = limit
      BY <1>6, <1>7, <1>10
    <2>2. Len(u) % 2 = 0
      BY <1>8, <1>10
    <2>3. QED
      BY <1>3, <1>4, <2>1, <2>2, Zenon DEF Share
  <1>12. QED
    BY <1>1, <1>5, <1>9, <1>10, <1>11, PlacesBy

LEMMA PlacesQuit ==
  ASSUME OneClient, StreamTypeOK, CallsInv, PlacesInv, NEW c \in bq_clients, Quit
  PROVE  PlacesInv'
  <1> DEFINE a == app[c]
             e == BQ_items(empties[c])
             r == BQ_items(refills)
  <1>1. /\ c \in Clients /\ bq_clients' \subseteq {c} /\ refills' = BQ_clear(refills)
        /\ UNCHANGED <<app, empties, f_pos, chan, left>> /\ wpc = "quit" /\ wpc' = "drain"
    BY AsOne DEF Quit, StreamTypeOK, CallTypes, dmac, calls, files
  <1>2. Share(c, a, e, r)
    BY DEF PlacesInv
  <1>3. a \in Seq(Buffers) /\ e \in Seq(Buffers) /\ r \in Seq(Buffers)
    BY <1>1, ListTypes
  <1>4. f_pos'[c] /\ ~Fresh(c)' /\ ~Running'
    BY <1>1 DEF CallsInv, Calls, Alive, Fresh, Running
  <1>5. app'[c] = a /\ BQ_items(empties'[c]) = e /\ BQ_items(refills') = << >>
    BY <1>1, ListTypes, RingClear
  <1> HIDE DEF a, e, r
  <1>6. Places(a, e, << >>) /\ \A b : Somewhere(a, e, << >>, b) => Somewhere(a, e, r, b)
    BY <1>2, <1>3, DropRefills DEF Share
  <1>7. ASSUME NEW i \in 0 .. 1, Held(i) PROVE ~Somewhere(a, e, << >>, Head(chan[i]).buf)
    BY <1>2, <1>6, <1>7, Zenon DEF Share
  <1>8. PICK u, v, w : u = a /\ v = e /\ w = << >>
    OBVIOUS
  <1>9. \A i \in 0 .. 1 : Held(i) => ~Somewhere(u, v, w, Head(chan[i]).buf)
    BY <1>7, <1>8, Zenon
  <1>10. \A i \in 0 .. 1 : Held(i)' => ~Somewhere(u, v, w, Head(chan'[i]).buf)
    BY <1>1, <1>9, Zenon DEF Held, Idle
  <1>11. Places(u, v, w)
    BY <1>6, <1>8
  <1>12. Share(c, u, v, w)'
    BY <1>4, <1>10, <1>11, Zenon DEF Share
  <1>13. QED
    BY <1>1, <1>5, <1>8, <1>12, PlacesBy

LEMMA PlacesPrime ==
  ASSUME OneClient, StreamTypeOK, CallsInv, LoopInv, RestInv, PlacesInv, NEW c \in bq_clients, Prime
  PROVE  PlacesInv'
  <1> DEFINE a == app[c]
             e == BQ_items(empties[c])
             r == BQ_items(refills)
             x == BQ_item(refills)
             y == BQ_item(BQ_drop(refills))
             r1 == Tail(r)
             r2 == Tail(r1)
  <1>1. /\ c \in Clients /\ bq_clients' \subseteq {c} /\ refills' = BQ_drop(BQ_drop(refills))
        /\ UNCHANGED <<app, empties, f_pos>> /\ wpc = "prime" /\ BQ_count(refills) > 1
    BY AsOne DEF Prime, StreamTypeOK, CallTypes, calls, files
  <1>2. Share(c, a, e, r)
    BY DEF PlacesInv
  <1>3. /\ a \in Seq(Buffers) /\ e \in Seq(Buffers) /\ r \in Seq(Buffers) /\ refills \in Queue
        /\ Len(r) = BQ_count(refills) /\ BQ_count(refills) \in Nat
    BY <1>1, ListTypes
  <1>4. BQ_count(refills) >= 2 /\ Len(r) >= 2
    BY <1>1, <1>3
  <1>5. r # << >> /\ r1 # << >> /\ x = Head(r) /\ y = Head(r1) /\ BQ_items(refills') = r2
    BY <1>1, <1>3, <1>4, DropTwo
  <1>6. app'[c] = a /\ BQ_items(empties'[c]) = e
    BY <1>1
  <1> DEFINE s == [buf |-> x, wait |-> FALSE, set |-> TRUE]
             t == [buf |-> y, wait |-> TRUE, set |-> TRUE]
  <1>7. /\ ab'[0] = x /\ ab'[1] = y /\ hbm' = y
        /\ other' = 1 /\ wpc' = "ready" /\ left' = left
        /\ ~left => chan'[0] = <<s>> /\ chan'[1] = <<t>>
    BY PrimeMoves, PrimeTurn
  <1>8. s.buf = x /\ t.buf = y
    OBVIOUS
  <1>9. Head(<<s>>) = s /\ Head(<<t>>) = t
    BY OneTransfer
  <1> HIDE DEF a, e, r, x, y, s, t
  <1>10. r1 \in Seq(Buffers) /\ Len(r2) = Len(r) - 2
    BY <1>3, <1>4, FirstTwo
  <1> HIDE DEF r1
  <1>11. /\ Places(a, e, r1) /\ ~Somewhere(a, e, r1, x) /\ x \in Buffers
         /\ \A b : Somewhere(a, e, r, b) <=> Somewhere(a, e, r1, b) \/ b = x
    BY <1>2, <1>3, <1>5, MoveTake DEF Share, r1
  <1>12. /\ Places(a, e, r2) /\ ~Somewhere(a, e, r2, y) /\ y \in Buffers
         /\ \A b : Somewhere(a, e, r1, b) <=> Somewhere(a, e, r2, b) \/ b = y
    BY <1>3, <1>5, <1>10, <1>11, MoveTake
  <1> HIDE DEF r2
  <1>13. x # y /\ ~Somewhere(a, e, r2, x)
    BY <1>11, <1>12, Zenon
  <1>14. Total(a, e, r) = limit /\ \A b \in Buffers : Somewhere(a, e, r, b)
    BY <1>1, <1>2 DEF Share, Fresh
  <1>15. Total(a, e, r2) + 2 = limit
    <2>1. Len(a) \in Nat /\ Len(e) \in Nat /\ Len(r) \in Nat
      BY <1>3
    <2>2. QED
      BY <1>10, <1>14, <2>1, Sizes DEF Total
  <1>16. \A b \in Buffers : Somewhere(a, e, r2, b) \/ b \in {x, y}
    BY <1>11, <1>12, <1>14, Zenon
  <1>17. PICK u, v, w : u = a /\ v = e /\ w = r2
    OBVIOUS
  <1>18. f_pos'[c] /\ ~Fresh(c)' /\ Running'
    BY <1>1, <1>7 DEF CallsInv, Calls, Alive, Fresh, Running
  <1>19. \A i \in 0 .. 1 : Held(i)' => Head(chan'[i]).buf = ab'[i]
    <2>1. ~left => Head(chan'[0]).buf = ab'[0] /\ Head(chan'[1]).buf = ab'[1]
      BY <1>7, <1>8, <1>9
    <2>2. QED
      BY <1>7, <2>1 DEF Held
  <1>20. ~Somewhere(u, v, w, ab'[0]) /\ ~Somewhere(u, v, w, ab'[1])
    BY <1>7, <1>12, <1>13, <1>17
  <1>21. \A i \in 0 .. 1 : Held(i)' => ~Somewhere(u, v, w, Head(chan'[i]).buf)
    <2>1. \A i \in 0 .. 1 : ~Somewhere(u, v, w, ab'[i])
      BY <1>20
    <2>2. QED
      BY <1>19, <2>1, Zenon
  <1>22. /\ Total(u, v, w) + 2 = limit /\ ab'[0] # ab'[1] /\ hbm' = ab'[other'] /\ Places(u, v, w)
         /\ \A b \in Buffers : Somewhere(u, v, w, b) \/ b \in {ab'[0], ab'[1]}
    BY <1>7, <1>12, <1>13, <1>15, <1>16, <1>17
  <1>23. Share(c, u, v, w)'
    BY <1>18, <1>19, <1>20, <1>21, <1>22, Zenon DEF Share
  <1>24. QED
    BY <1>1, <1>5, <1>6, <1>17, <1>23, PlacesBy

\* The two channels and their buffers.
LEMMA TwoChannels ==
  ASSUME StreamTypeOK
  PROVE  /\ ic \in 0 .. 1 /\ other \in 0 .. 1 /\ other # ic
         /\ \A i \in 0 .. 1 : i = ic \/ i = other
         /\ (ic = 0 /\ other = 1) \/ (ic = 1 /\ other = 0)
         /\ ab \in [0 .. 1 -> Buffers] /\ ab[ic] \in Buffers /\ ab[other] \in Buffers
  <1>1. ic \in 0 .. 1 /\ ab \in [0 .. 1 -> Buffers]
    BY DEF StreamTypeOK, WorkerTypes
  <1>2. (ic = 0 /\ other = 1) \/ (ic = 1 /\ other = 0)
    BY <1>1 DEF other
  <1>3. QED
    BY <1>1, <1>2

\* A push goes to the worker's own client.
LEMMA TurnLists ==
  ASSUME OneClient, StreamTypeOK, PlacesInv, NEW c \in bq_clients, NEW l \in BOOLEAN, Turn(l)
  PROVE  /\ c \in Clients /\ pdesc = c /\ bq_clients' \subseteq {c}
         /\ UNCHANGED <<app, f_pos>>
         /\ app[c] \in Seq(Buffers) /\ BQ_items(empties[c]) \in Seq(Buffers)
         /\ BQ_items(refills) \in Seq(Buffers) /\ refills \in Queue
         /\ Len(BQ_items(refills)) = BQ_count(refills)
         /\ BQ_items(empties'[c]) = Append(BQ_items(empties[c]), ab[ic])
         /\ ab[ic] \in Buffers /\ ab[other] \in Buffers
         /\ Share(c, app[c], BQ_items(empties[c]), BQ_items(refills))
  <1> DEFINE a == app[c]
             e == BQ_items(empties[c])
             r == BQ_items(refills)
  <1>1. /\ c \in Clients /\ pdesc = c /\ bq_clients' \subseteq {c} /\ UNCHANGED <<app, f_pos>>
        /\ wpc = "push" /\ empties' = [empties EXCEPT ![pdesc] = BQ_put(@, ab[ic])]
    BY AsOne DEF Turn, StreamTypeOK, CallTypes, WorkerTypes, calls, files
  <1>2. Share(c, a, e, r)
    BY DEF PlacesInv
  <1>3. /\ a \in Seq(Buffers) /\ e \in Seq(Buffers) /\ r \in Seq(Buffers) /\ empties[c] \in Queue
        /\ Len(e) = BQ_count(empties[c]) /\ refills \in Queue /\ Len(r) = BQ_count(refills)
    BY <1>1, ListTypes
  <1>4. ab[ic] \in Buffers /\ ab[other] \in Buffers
    BY TwoChannels
  <1>5. BQ_count(empties[c]) <= backlog - 2
    <2>1. Total(a, e, r) + 2 = limit
      BY <1>1, <1>2 DEF Share, Running
    <2>2. Len(a) \in Nat /\ Len(e) \in Nat /\ Len(r) \in Nat
      BY <1>3
    <2> HIDE DEF a, e, r
    <2>3. Len(e) <= backlog - 2
      BY <2>1, <2>2, Sizes DEF Total
    <2>4. QED
      BY <1>3, <2>3
  <1>6. empties'[c] = BQ_put(empties[c], ab[ic])
    BY <1>1, ListTypes
  <1>7. BQ_items(empties'[c]) = Append(e, ab[ic])
    BY <1>3, <1>4, <1>5, <1>6, RingPut
  <1>8. QED
    BY <1>1, <1>2, <1>3, <1>4, <1>7

\* The next refill is pushed.
LEMMA PlacesTurnNext ==
  ASSUME OneClient, StreamTypeOK, CallsInv, TurnInv, RefillInv, PlacesInv,
         NEW c \in bq_clients, NEW l \in BOOLEAN, Turn(l), last_push = "LP_IDLE"
  PROVE  PlacesInv'
  <1> DEFINE a == app[c]
             e == BQ_items(empties[c])
             r == BQ_items(refills)
             old == ab[ic]
             new == BQ_item(refills)
             e1 == Append(e, old)
             r1 == Tail(r)
             t == [buf |-> new, wait |-> TRUE, set |-> ~l]
  <1>1. /\ c \in Clients /\ bq_clients' \subseteq {c} /\ UNCHANGED <<app, f_pos>>
        /\ a \in Seq(Buffers) /\ e \in Seq(Buffers) /\ r \in Seq(Buffers) /\ refills \in Queue
        /\ Len(r) = BQ_count(refills) /\ BQ_items(empties'[c]) = e1
        /\ old \in Buffers /\ Share(c, a, e, r)
    BY TurnLists
  <1>2. /\ wpc = "push" /\ refills' = BQ_drop(refills) /\ ab' = [ab EXCEPT ![ic] = new]
        /\ hbm' = new
    BY DEF Turn
  <1>3. /\ BQ_count(refills) >= 1
    BY <1>2 DEF RefillInv
  <1>4. r # << >> /\ new = Head(r) /\ BQ_items(refills') = r1
    BY <1>1, <1>2, <1>3, RingDrop
  <1>5. /\ ic' = other /\ other' = ic /\ wpc' = (IF l THEN "quit" ELSE "ready") /\ left' = left
        /\ ~left => chan' = [chan EXCEPT ![ic] = <<t>>]
    BY <1>2, PushMoves, PushTurn
  <1>6. /\ ic \in 0 .. 1 /\ other \in 0 .. 1 /\ other # ic /\ \A i \in 0 .. 1 : i = ic \/ i = other
        /\ (ic = 0 /\ other = 1) \/ (ic = 1 /\ other = 0)
        /\ chan \in [0 .. 1 -> Seq(Transfers)] /\ ab \in [0 .. 1 -> Buffers]
    BY TwoChannels, ChannelTypes
  <1>7. t.buf = new
    OBVIOUS
  <1> HIDE DEF t
  <1>8. Head(<<t>>).buf = new
    BY <1>7, OneTransfer
  <1>9. /\ ab'[ic] = new /\ ab'[other] = ab[other]
        /\ ~left => chan'[ic] = <<t>> /\ chan'[other] = chan[other]
    BY <1>2, <1>5, <1>6
  <1>10. /\ Total(a, e, r) + 2 = limit /\ ab[0] # ab[1]
         /\ ~Somewhere(a, e, r, ab[0]) /\ ~Somewhere(a, e, r, ab[1])
         /\ \A b \in Buffers : Somewhere(a, e, r, b) \/ b \in {ab[0], ab[1]}
         /\ \A i \in 0 .. 1 : Held(i) => Head(chan[i]).buf = ab[i]
    <2>1. Running
      BY <1>2 DEF Running
    <2>2. QED
      BY <1>1, <2>1, Zenon DEF Share
  <1> HIDE DEF a, e, r, new
  <1>11. /\ old # ab[other] /\ ~Somewhere(a, e, r, old) /\ ~Somewhere(a, e, r, ab[other])
         /\ \A b \in Buffers : Somewhere(a, e, r, b) \/ b \in {old, ab[other]}
    <2>1. CASE ic = 0 /\ other = 1
      BY <1>10, <2>1
    <2>2. CASE ic = 1 /\ other = 0
      BY <1>10, <2>2
    <2>3. QED
      BY <1>6, <2>1, <2>2
  <1>12. ~left /\ chan'[other] # << >> => Head(chan'[other]).buf = ab[other]
    BY <1>5, <1>6, <1>9, <1>10 DEF Held, Idle
  <1> HIDE DEF old
  <1>13. /\ new \in Buffers /\ r1 \in Seq(Buffers) /\ Places(a, e, r1) /\ ~Somewhere(a, e, r1, new)
         /\ \A b : Somewhere(a, e, r, b) <=> Somewhere(a, e, r1, b) \/ b = new
    BY <1>1, <1>4, MoveTake DEF Share
  <1>14. Len(r1) = Len(r) - 1
    BY <1>1, <1>4, HeadTailFacts
  <1> HIDE DEF r1
  <1>15. ~Somewhere(a, e, r1, old)
    BY <1>11, <1>13, Zenon
  <1>16. /\ Places(a, e1, r1) /\ e1 \in Seq(Buffers)
         /\ \A b : Somewhere(a, e1, r1, b) <=> Somewhere(a, e, r1, b) \/ b = old
    BY <1>1, <1>13, <1>15, MoveBack
  <1>17. Len(e1) = Len(e) + 1
    BY <1>1, AppendFacts
  <1> HIDE DEF e1
  <1>18. Total(a, e1, r1) + 2 = limit
    <2>1. Len(a) \in Nat /\ Len(e) \in Nat /\ Len(r) \in Nat
      BY <1>1
    <2>2. QED
      BY <1>10, <1>14, <1>17, <2>1 DEF Total
  <1>19. new # old /\ new # ab[other] /\ ~Somewhere(a, e1, r1, new) /\ ~Somewhere(a, e1, r1, ab[other])
    BY <1>11, <1>13, <1>16, Zenon
  <1>20. \A b \in Buffers : Somewhere(a, e1, r1, b) \/ b \in {new, ab[other]}
    BY <1>11, <1>13, <1>16
  <1>21. PICK u, v, w : u = a /\ v = e1 /\ w = r1
    OBVIOUS
  <1>22. \A i \in 0 .. 1 : Held(i)' => Head(chan'[i]).buf = ab'[i]
    <2>1. ~left => Head(chan'[ic]).buf = ab'[ic]
      BY <1>8, <1>9
    <2>2. ~left /\ chan'[other] # << >> => Head(chan'[other]).buf = ab'[other]
      BY <1>9, <1>12
    <2>3. QED
      BY <1>5, <1>6, <2>1, <2>2, Zenon DEF Held, Idle
  <1>23. \A i \in 0 .. 1 : ~Somewhere(u, v, w, ab'[i])
    <2>1. ~Somewhere(a, e1, r1, ab'[ic]) /\ ~Somewhere(a, e1, r1, ab'[other])
      BY <1>9, <1>19
    <2>2. QED
      BY <1>6, <1>21, <2>1, Zenon
  <1>24. \A i \in 0 .. 1 : Held(i)' => ~Somewhere(u, v, w, Head(chan'[i]).buf)
    BY <1>22, <1>23, Zenon
  <1>25. f_pos'[c] /\ ~Fresh(c)'
    BY <1>1, <1>2, <1>5 DEF CallsInv, Calls, Alive, Fresh
  <1>26. hbm' = ab'[other']
    BY <1>2, <1>5, <1>9 DEF new
  <1>27. ab'[0] # ab'[1] /\ ~Somewhere(u, v, w, ab'[0]) /\ ~Somewhere(u, v, w, ab'[1])
    <2>1. ab'[ic] # ab'[other]
      BY <1>9, <1>19
    <2>2. ab'[0] # ab'[1]
      BY <1>6, <2>1
    <2>3. QED
      BY <1>23, <2>2
  <1>28. \A b \in Buffers : Somewhere(u, v, w, b) \/ b \in {ab'[0], ab'[1]}
    <2>1. {new, ab[other]} = {ab'[0], ab'[1]}
      BY <1>6, <1>9
    <2>2. QED
      BY <1>20, <1>21, <2>1
  <1>29. Total(u, v, w) + 2 = limit /\ Places(u, v, w)
    BY <1>16, <1>18, <1>21
  <1>30. Share(c, u, v, w)'
    BY <1>22, <1>24, <1>25, <1>26, <1>27, <1>28, <1>29, Zenon DEF Share
  <1>31. app'[c] = a /\ BQ_items(empties'[c]) = e1 /\ BQ_items(refills') = r1
    BY <1>1, <1>4 DEF a
  <1>32. QED
    BY <1>1, <1>21, <1>30, <1>31, PlacesBy

\* After a stall the buffer of the other channel is played once more.
LEMMA PlacesTurnLast ==
  ASSUME OneClient, StreamTypeOK, CallsInv, TurnInv, PlacesInv,
         NEW c \in bq_clients, NEW l \in BOOLEAN, Turn(l), last_push # "LP_IDLE", l
  PROVE  PlacesInv'
  <1> DEFINE a == app[c]
             e == BQ_items(empties[c])
             r == BQ_items(refills)
             old == ab[ic]
             e1 == Append(e, old)
             t == [buf |-> hbm, wait |-> TRUE, set |-> ~l]
  <1>1. /\ c \in Clients /\ bq_clients' \subseteq {c} /\ UNCHANGED <<app, f_pos>>
        /\ a \in Seq(Buffers) /\ e \in Seq(Buffers) /\ r \in Seq(Buffers)
        /\ BQ_items(empties'[c]) = e1
        /\ old \in Buffers /\ Share(c, a, e, r)
    BY TurnLists
  <1>2. /\ wpc = "push" /\ refills' = refills /\ hbm' = hbm
    BY DEF Turn
  <1>3. /\ wpc' = "quit" /\ left' = left
        /\ ~left => chan' = [chan EXCEPT ![ic] = <<t>>]
    BY <1>2, PushMoves, PushTurn
  <1>4. /\ ic \in 0 .. 1 /\ other \in 0 .. 1 /\ other # ic /\ \A i \in 0 .. 1 : i = ic \/ i = other
        /\ (ic = 0 /\ other = 1) \/ (ic = 1 /\ other = 0)
        /\ chan \in [0 .. 1 -> Seq(Transfers)]
    BY TwoChannels, ChannelTypes
  <1>5. t.buf = hbm
    OBVIOUS
  <1> HIDE DEF t
  <1>6. Head(<<t>>).buf = hbm
    BY <1>5, OneTransfer
  <1>7. ~left => chan'[ic] = <<t>> /\ chan'[other] = chan[other]
    BY <1>3, <1>4
  <1>8. /\ ab[0] # ab[1] /\ ~Somewhere(a, e, r, ab[0]) /\ ~Somewhere(a, e, r, ab[1])
        /\ hbm = ab[other] /\ \A i \in 0 .. 1 : Held(i) => Head(chan[i]).buf = ab[i]
    <2>1. Running
      BY <1>2 DEF Running
    <2>2. QED
      BY <1>1, <2>1, Zenon DEF Share
  <1> HIDE DEF a, e, r
  <1>9. old # hbm /\ ~Somewhere(a, e, r, old) /\ ~Somewhere(a, e, r, hbm)
    <2>1. CASE ic = 0 /\ other = 1
      BY <1>8, <2>1
    <2>2. CASE ic = 1 /\ other = 0
      BY <1>8, <2>2
    <2>3. QED
      BY <1>4, <2>1, <2>2
  <1>10. \A i \in 0 .. 1 : Held(i)' => Head(chan'[i]).buf = hbm
    <2>1. ~left /\ chan'[other] # << >> => Head(chan'[other]).buf = hbm
      BY <1>4, <1>7, <1>8 DEF Held, Idle
    <2>2. ~left => Head(chan'[ic]).buf = hbm
      BY <1>6, <1>7
    <2>3. QED
      BY <1>3, <1>4, <2>1, <2>2, Zenon DEF Held, Idle
  <1> HIDE DEF old
  <1>11. /\ Places(a, e1, r) /\ \A b : Somewhere(a, e1, r, b) <=> Somewhere(a, e, r, b) \/ b = old
    BY <1>1, <1>9, MoveBack DEF Share
  <1> HIDE DEF e1
  <1>12. ~Somewhere(a, e1, r, hbm)
    BY <1>9, <1>11, Zenon
  <1>13. PICK u, v, w : u = a /\ v = e1 /\ w = r
    OBVIOUS
  <1>14. \A i \in 0 .. 1 : Held(i)' => ~Somewhere(u, v, w, Head(chan'[i]).buf)
    BY <1>10, <1>12, <1>13, Zenon
  <1>15. f_pos'[c] /\ ~Fresh(c)' /\ ~Running'
    BY <1>1, <1>2, <1>3 DEF CallsInv, Calls, Alive, Fresh, Running
  <1>16. Places(u, v, w)
    BY <1>11, <1>13
  <1>17. Share(c, u, v, w)'
    BY <1>14, <1>15, <1>16, Zenon DEF Share
  <1>18. app'[c] = a /\ BQ_items(empties'[c]) = e1 /\ BQ_items(refills') = r
    BY <1>1, <1>2 DEF a, r
  <1>19. QED
    BY <1>1, <1>13, <1>17, <1>18, PlacesBy

LEMMA PlacesStep ==
  ASSUME OneClient, StreamTypeOK, CallsInv, LoopInv, RestInv, TurnInv, RefillInv, PlacesInv, Next
  PROVE  PlacesInv'
  <1>1. bq_clients \subseteq Clients
    BY DEF StreamTypeOK, CallTypes
  <1>0. left => left'
    BY LeftStays
  <1>2. ASSUME bq_clients' \subseteq bq_clients, UNCHANGED <<refills, ab, hbm, chan>>,
               \A c \in bq_clients' : app'[c] = app[c] /\ empties'[c] = empties[c],
               \A c \in bq_clients' : (Fresh(c)' => Fresh(c)) /\ (~f_pos'[c] => ~f_pos[c]),
               Running' => Running /\ ic' = ic
        PROVE  PlacesInv'
    <2>1. \A i \in 0 .. 1 : ~Held(i)' \/ (Held(i) /\ chan'[i] = chan[i])
      BY <1>0, <1>2, Zenon DEF Held, Idle
    <2>2. QED
      BY <1>2, <2>1, PlacesAside
  <1>3. ASSUME NEW c \in Clients,
               \/ OpenTest(c) \/ Release(c) \/ Join(c)
               \/ \E k \in 1 .. MaxPairs : Write(c, k)
        PROVE  PlacesInv'
    <2>1. UNCHANGED <<bq_clients, refills, ab, hbm, chan, app, empties, f_pos, wpc, ic>>
      BY <1>3 DEF OpenTest, Write, Release, Join, queues, files, locals, dmac
    <2>2. QED
      BY <1>2, <2>1, Zenon DEF Fresh, Running
  <1>4. ASSUME NEW c \in Clients, WriteEnd(c) PROVE PlacesInv'
    <2>1. /\ UNCHANGED <<bq_clients, refills, ab, hbm, chan, app, empties, ic>>
          /\ f_pos' = [f_pos EXCEPT ![c] = TRUE]
          /\ wpc' = wpc \/ (~f_pos[c] /\ wpc' = "created")
      BY <1>4 DEF WriteEnd, queues, dmac
    <2>2. f_pos \in [Clients -> BOOLEAN] /\ \A d \in Clients : d = c
      BY DEF StreamTypeOK, CallTypes, OneClient
    <2>3. \A d \in bq_clients' : f_pos'[d]
      BY <1>1, <2>1, <2>2
    <2>4. \A d \in bq_clients' : Fresh(d)' => Fresh(d)
      BY <1>1, <2>1, <2>2, <2>3, Zenon DEF Fresh
    <2>5. Running' => Running
      BY <2>1 DEF Running
    <2>6. QED
      BY <1>2, <2>1, <2>3, <2>4, <2>5
  <1>5. ASSUME NEW c \in Clients, Close(c) PROVE PlacesInv'
    <2>1. bq_clients' = {}
      BY <1>1, <1>5, AsOne DEF Close
    <2>2. QED
      BY <2>1, Zenon DEF PlacesInv
  <1>6. ASSUME NEW c \in Clients, OpenInit(c) PROVE PlacesInv'
    BY <1>6, PlacesOpenInit
  <1>7. ASSUME NEW c \in Clients, pc[c] \in {"idle", "write"} PROVE c \in bq_clients
    BY <1>7 DEF CallsInv, Calls
  <1>8. ASSUME NEW c \in Clients, Read(c) PROVE PlacesInv'
    <2>1. c \in bq_clients
      BY <1>7, <1>8 DEF Read
    <2>2. QED
      BY <1>8, <2>1, PlacesRead
  <1>9. ASSUME NEW c \in Clients, WritePair(c) PROVE PlacesInv'
    <2>1. c \in bq_clients
      BY <1>7, <1>9 DEF WritePair
    <2>2. QED
      BY <1>9, <2>1, PlacesWritePair
  <1>10. \A c \in Clients : Alive => f_pos[c] /\ c \in bq_clients
    BY DEF CallsInv, Calls
  <1>11. ASSUME \/ WorkerRuns \/ WorkerNeverRuns \/ PrimeStop \/ Ready \/ CountIn \/ SyncWait
                \/ SyncTimeout \/ HasRefill \/ Stall \/ Drain \/ Drained
         PROVE  PlacesInv'
    <2>1. /\ UNCHANGED <<bq_clients, refills, ab, hbm, chan, app, empties, f_pos>> /\ Alive
          /\ \/ wpc = "created" /\ wpc' = "prime"
             \/ wpc' \in {"exited", "quit", "drain", "ddec"}
             \/ /\ wpc \in {"ready", "dec", "sync", "stall", "push"}
                /\ wpc' \in {"ready", "dec", "sync", "stall", "push"} /\ ic' = ic
      BY <1>11 DEF WorkerRuns, WorkerNeverRuns, PrimeStop, Ready, SyncWait, SyncTimeout, HasRefill,
         Stall, Drain,
         Drained, CountIn, queues, files, calls, locals, dmac, Alive
    <2>2. \A c \in bq_clients' : (Fresh(c)' => Fresh(c)) /\ (~f_pos'[c] => ~f_pos[c])
      BY <1>1, <1>10, <2>1 DEF Fresh
    <2>3. Running' => Running /\ ic' = ic
      BY <2>1 DEF Running
    <2>4. QED
      BY <1>2, <2>1, <2>2, <2>3
  <1>12. PICK c \in Clients : TRUE
    BY DEF StreamTypeOK, WorkerTypes
  <1>13. ASSUME Prime PROVE PlacesInv'
    <2>1. c \in bq_clients
      BY <1>10, <1>13 DEF Prime, Alive
    <2>2. QED
      BY <1>13, <2>1, PlacesPrime
  <1>14. ASSUME Quit PROVE PlacesInv'
    <2>1. c \in bq_clients
      BY <1>10, <1>14 DEF Quit, Alive
    <2>2. QED
      BY <1>14, <2>1, PlacesQuit
  <1>15. ASSUME NEW l \in BOOLEAN, Turn(l), last_push = "LP_IDLE" \/ l PROVE PlacesInv'
    <2>1. c \in bq_clients
      BY <1>10, <1>15 DEF Turn, Alive
    <2>2. CASE last_push = "LP_IDLE"
      BY <1>15, <2>1, <2>2, PlacesTurnNext
    <2>3. CASE last_push # "LP_IDLE"
      BY <1>15, <2>1, <2>3, PlacesTurnLast
    <2>4. QED
      BY <2>2, <2>3
  <1>16. ASSUME NextPush PROVE PlacesInv'
    <2>1. Turn(FALSE) /\ last_push # "LP_REQUEST" /\ wpc = "push"
      BY <1>16 DEF NextPush, Turn
    <2>2. last_push = "LP_IDLE"
      BY <2>1 DEF LoopInv, StreamTypeOK, WorkerTypes
    <2>3. QED
      BY <1>15, <2>1, <2>2
  <1>17. ASSUME LastPush PROVE PlacesInv'
    BY <1>15, <1>17 DEF LastPush
  <1>18. ASSUME NEW i \in 0 .. 1, Transfer(i) PROVE PlacesInv'
    <2>1. /\ ~left => chan' = [chan EXCEPT ![i] = << >>]
          /\ chan \in [0 .. 1 -> Seq(Transfers)] /\ left' = left
          /\ UNCHANGED <<bq_clients, refills, ab, hbm, app, empties, f_pos, wpc, ic>>
      BY <1>18, TransferTurn, ChannelTypes DEF Transfer, queues, files, calls, locals
    <2>2. \A j \in 0 .. 1 : ~Held(j)' \/ (Held(j) /\ chan'[j] = chan[j])
      BY <2>1 DEF Held, Idle
    <2>3. \A d \in bq_clients' : (Fresh(d)' => Fresh(d)) /\ (~f_pos'[d] => ~f_pos[d])
      BY <2>1, Zenon DEF Fresh
    <2>4. Running' => Running
      BY <2>1, Zenon DEF Running
    <2>5. QED
      BY <2>1, <2>2, <2>3, <2>4, PlacesAside
  <1>19. ASSUME Worker PROVE PlacesInv'
    BY <1>11, <1>13, <1>14, <1>16, <1>17, <1>19, Zenon DEF Worker
  <1>20. ASSUME NEW d \in Clients,
                \/ OpenTest(d) \/ OpenInit(d) \/ Read(d) \/ WritePair(d) \/ WriteEnd(d)
                \/ \E k \in 1 .. MaxPairs : Write(d, k)
                \/ Release(d) \/ Join(d) \/ ReleaseDone(d) \/ ReleaseInterrupted(d)
         PROVE  PlacesInv'
    BY <1>3, <1>4, <1>5, <1>6, <1>8, <1>9, <1>20 DEF ReleaseDone, ReleaseInterrupted
  <1>21. ASSUME Callback PROVE PlacesInv'
    <2>1. UNCHANGED <<bq_clients, refills, ab, hbm, chan, app, empties, f_pos, wpc, ic>>
      BY <1>21 DEF Callback, CallbackRead, CallbackWrite, queues, files, calls, locals
    <2>2. QED
      BY <1>2, <2>1, Zenon DEF Fresh, Running
  <1>22. QED
    BY <1>18, <1>19, <1>20, <1>21, Zenon DEF Next

----------------------------------------------------------------------------
(* The order of the buffers.                                               *)

LEMMA OrderBy ==
  ASSUME NEW c, bq_clients' \subseteq {c}, NEW r, NEW w,
         BQ_items(refills') = r, wseq' = w, Order(c, r, w)'
  PROVE  OrderInv'
  <1> SUFFICES ASSUME NEW d \in bq_clients' PROVE Order(d, BQ_items(refills), wseq)'
    BY Zenon DEF OrderInv
  <1>1. d = c
    OBVIOUS
  <1>2. r = BQ_items(refills)' /\ w = wseq'
    BY Zenon
  <1>3. QED
    BY <1>1, <1>2, Zenon DEF Order

\* A step that leaves the refills, the channels and the history alone.
LEMMA OrderKept ==
  ASSUME NEW c, NEW r, NEW w, Order(c, r, w),
         UNCHANGED <<nplayed, hbm, chan>>, Fresh(c)' => Fresh(c), Running' => Running,
         Playing' => \/ Playing /\ ic' = ic
                     \/ Pending' = 0 /\ Idle(ic)' /\ Idle(other)'
  PROVE  Order(c, r, w)'
  <1>1. Pending' = Pending
    BY Zenon DEF Pending
  <1>2. Fresh(c)' => nplayed' = 0 /\ Len(w) = Len(r)
    BY Zenon DEF Order
  <1>3. ASSUME Running'
        PROVE  /\ Len(w) = nplayed' + Pending' + Len(r)
               /\ nplayed' + Pending' >= 1 /\ hbm' = w[nplayed' + Pending']
    BY <1>1, <1>3, Zenon DEF Order
  <1>4. Suffix(r, w)
    BY Zenon DEF Order
  <1>5. CASE Playing /\ ic' = ic
    <2>1. other' = other /\ (Idle(ic)' <=> Idle(ic)) /\ (Idle(other)' <=> Idle(other))
      BY <1>5, Zenon DEF other, Idle
    <2>2. Playing' =>
            (/\ nplayed + Pending >= 1 \/ Pending = 0
             /\ ~Idle(ic) => nplayed + 1 <= Len(w) /\ Head(chan[ic]).buf = w[nplayed + 1]
             /\ ~Idle(other) =>
                  LET k == nplayed + Pending
                  IN  \/ k <= Len(w) /\ Head(chan[other]).buf = w[k]
                      \/ /\ ~Head(chan[other]).set
                         /\ k - 1 \in 1 .. Len(w) /\ Head(chan[other]).buf = w[k - 1])'
      BY <1>1, <1>5, <2>1, Zenon DEF Order
    <2>3. QED
      BY <1>2, <1>3, <1>4, <2>2, Zenon DEF Order
  <1>6. CASE Pending' = 0 /\ Idle(ic)' /\ Idle(other)'
    BY <1>2, <1>3, <1>4, <1>6, Zenon DEF Order
  <1>7. CASE ~Playing'
    BY <1>2, <1>3, <1>4, <1>7, Zenon DEF Order
  <1>8. QED
    BY <1>5, <1>6, <1>7

LEMMA OrderAside ==
  ASSUME OneClient, StreamTypeOK, OrderInv, ~left,
         bq_clients' \subseteq bq_clients, UNCHANGED <<refills, wseq, nplayed, hbm, chan>>,
         \A c \in bq_clients' : Fresh(c)' => Fresh(c),
         Running' => Running,
         Playing' => \/ Playing /\ ic' = ic
                     \/ Pending' = 0 /\ Idle(ic)' /\ Idle(other)'
  PROVE  OrderInv'
  <1> SUFFICES ASSUME NEW c \in bq_clients' PROVE OrderInv'
    BY Zenon DEF OrderInv
  <1>1. PICK r, w : r = BQ_items(refills) /\ w = wseq
    OBVIOUS
  <1>2. Order(c, r, w)
    BY <1>1, Zenon DEF OrderInv
  <1>3. Order(c, r, w)'
    BY <1>2, OrderKept
  <1>4. bq_clients' \subseteq {c}
    BY AsOne DEF StreamTypeOK, CallTypes
  <1>5. BQ_items(refills') = r /\ wseq' = w
    BY <1>1
  <1>6. QED
    BY <1>3, <1>4, <1>5, OrderBy

LEMMA OrderOpenInit ==
  ASSUME OneClient, StreamTypeOK, CallsInv, NEW c \in Clients, OpenInit(c)
  PROVE  OrderInv'
  <1>1. /\ bq_clients' \subseteq {c} /\ refills' = BQ_clear(refills) /\ wseq' = << >> /\ nplayed' = 0
        /\ wpc' = wpc /\ ~Playing
    BY AsOne DEF OpenInit, StreamTypeOK, CallTypes, CallsInv, Calls, Alive, Playing
  <1>2. ~Playing' /\ ~Running'
    BY <1>1 DEF Playing, Running
  <1>3. BQ_items(refills') = << >>
    BY <1>1, ListTypes, RingClear
  <1>4. PICK s : s = << >>
    OBVIOUS
  <1>5. Suffix(s, s)
    BY <1>4 DEF Suffix
  <1>6. Order(c, s, s)'
    BY <1>1, <1>2, <1>5, Zenon DEF Order
  <1>7. QED
    BY <1>1, <1>3, <1>4, <1>6, OrderBy

LEMMA SuffixMore ==
  ASSUME NEW r \in Seq(Buffers), NEW w \in Seq(Buffers), NEW x \in Buffers, NEW y \in Buffers,
         Suffix(r, w)
  PROVE  /\ Suffix(r \o <<x, y>>, w \o <<x, y>>)
         /\ \A i \in 1 .. Len(w) : (w \o <<x, y>>)[i] = w[i]
         /\ Len(w \o <<x, y>>) = Len(w) + 2 /\ Len(r \o <<x, y>>) = Len(r) + 2
  <1> DEFINE r1 == r \o <<x, y>>
             w1 == w \o <<x, y>>
             k == Len(r)
             n == Len(w)
  <1>1. /\ k \in Nat /\ n \in Nat /\ k <= n /\ Len(r1) = k + 2 /\ Len(w1) = n + 2
        /\ \A i \in 1 .. k : r1[i] = r[i]
        /\ \A i \in 1 .. n : w1[i] = w[i]
        /\ r1[k + 1] = x /\ r1[k + 2] = y /\ w1[n + 1] = x /\ w1[n + 2] = y
    BY TwoMore DEF Suffix
  <1>2. \A i \in 1 .. k : r[i] = w[n - k + i]
    BY DEF Suffix
  <1> HIDE DEF r1, w1, k, n
  <1>3. ASSUME NEW i \in 1 .. k + 2 PROVE r1[i] = w1[(n + 2) - (k + 2) + i]
    <2>1. (n + 2) - (k + 2) + i = n - k + i
      BY <1>1
    <2>2. CASE i \in 1 .. k
      <3>1. n - k + i \in 1 .. n
        BY <1>1, <2>2
      <3>2. r1[i] = r[i] /\ r[i] = w[n - k + i] /\ w1[n - k + i] = w[n - k + i]
        BY <1>1, <1>2, <2>2, <3>1
      <3>3. QED
        BY <2>1, <3>2
    <2>3. CASE i = k + 1
      <3>1. n - k + i = n + 1
        BY <1>1, <2>3
      <3>2. QED
        BY <1>1, <2>1, <2>3, <3>1
    <2>4. CASE i = k + 2
      <3>1. n - k + i = n + 2
        BY <1>1, <2>4
      <3>2. QED
        BY <1>1, <2>1, <2>4, <3>1
    <2>5. QED
      BY <1>1, <2>2, <2>3, <2>4
  <1>4. Suffix(r1, w1)
    <2>1. Len(r1) <= Len(w1)
      BY <1>1
    <2>2. \A i \in 1 .. Len(r1) : r1[i] = w1[Len(w1) - Len(r1) + i]
      BY <1>1, <1>3
    <2>3. QED
      BY <2>1, <2>2 DEF Suffix
  <1>5. QED
    BY <1>1, <1>4 DEF r1, w1, k, n

LEMMA SuffixTail ==
  ASSUME NEW r \in Seq(Buffers), NEW w \in Seq(Buffers), r # << >>, Suffix(r, w)
  PROVE  /\ Suffix(Tail(r), w) /\ Len(Tail(r)) = Len(r) - 1 /\ Tail(r) \in Seq(Buffers)
         /\ Len(r) \in Nat /\ Len(w) \in Nat /\ Len(r) >= 1 /\ Len(r) <= Len(w)
         /\ Head(r) = w[Len(w) - Len(r) + 1]
  <1> DEFINE k == Len(r)
             n == Len(w)
             s == Tail(r)
  <1>1. /\ k \in Nat /\ k >= 1 /\ Head(r) = r[1] /\ s \in Seq(Buffers) /\ Len(s) = k - 1
        /\ \A i \in 1 .. k - 1 : s[i] = r[i + 1]
    BY HeadTailFacts
  <1>2. n \in Nat /\ k <= n /\ \A i \in 1 .. k : r[i] = w[n - k + i]
    BY DEF Suffix
  <1> HIDE DEF k, n, s
  <1>3. ASSUME NEW i \in 1 .. k - 1 PROVE s[i] = w[n - (k - 1) + i]
    <2>1. i + 1 \in 1 .. k /\ n - (k - 1) + i = n - k + (i + 1)
      BY <1>1, <1>2
    <2>2. QED
      BY <1>1, <1>2, <2>1
  <1>4. Len(s) <= n
    BY <1>1, <1>2
  <1>5. 1 \in 1 .. k
    BY <1>1
  <1>6. Suffix(s, w)
    BY <1>1, <1>3, <1>4 DEF Suffix, n
  <1>7. QED
    BY <1>1, <1>2, <1>5, <1>6 DEF k, n, s

LEMMA OrderTypes ==
  ASSUME StreamTypeOK
  PROVE  /\ BQ_items(refills) \in Seq(Buffers) /\ wseq \in Seq(Buffers) /\ refills \in Queue
         /\ Len(BQ_items(refills)) = BQ_count(refills)
         /\ nplayed \in Nat /\ Pending \in Nat /\ hbm \in Buffers
  <1>1. refills \in Queue /\ wseq \in Seq(Buffers) /\ nplayed \in Nat /\ hbm \in Buffers
    BY DEF StreamTypeOK, CallTypes, WorkerTypes
  <1>2. Pending \in Nat
    BY ChannelTypes
  <1>3. QED
    BY <1>1, <1>2, RingCounts

LEMMA OrderWritePair ==
  ASSUME OneClient, StreamTypeOK, CallsInv, OrderInv, ~left, NEW c \in bq_clients, WritePair(c)
  PROVE  OrderInv'
  <1> DEFINE r == BQ_items(refills)
             x == app[c][1]
             y == app[c][2]
             r1 == r \o <<x, y>>
             w1 == wseq \o <<x, y>>
  <1>1. c \in Clients /\ bq_clients' \subseteq {c}
    BY AsOne DEF WritePair, StreamTypeOK, CallTypes
  <1>2. /\ x \in Buffers /\ y \in Buffers /\ BQ_items(refills') = Append(Append(r, x), y)
        /\ wseq' = w1
    BY <1>1, PairWritten
  <1>3. r \in Seq(Buffers) /\ wseq \in Seq(Buffers) /\ nplayed \in Nat /\ Pending \in Nat
    BY OrderTypes
  <1>4. Order(c, r, wseq)
    BY DEF OrderInv
  <1>5. UNCHANGED <<nplayed, hbm, chan, event, ic, wpc, f_pos>>
    BY DEF WritePair, locals, files, dmac
  <1>6. UNCHANGED <<Pending, Fresh(c), Running, Playing, other>>
    BY <1>5, Zenon DEF Pending, Fresh, Running, Playing, other
  <1> HIDE DEF r, x, y
  <1>7. BQ_items(refills') = r1
    BY <1>2, <1>3, TwoMore
  <1>8. /\ Suffix(r1, w1) /\ \A i \in 1 .. Len(wseq) : w1[i] = wseq[i]
        /\ Len(w1) = Len(wseq) + 2 /\ Len(r1) = Len(r) + 2
    BY <1>2, <1>3, <1>4, SuffixMore DEF Order
  <1> HIDE DEF r1, w1
  <1>9. PICK u, v : u = r1 /\ v = w1
    OBVIOUS
  <1>10. Len(r) \in Nat /\ Len(wseq) \in Nat
    BY <1>3
  <1>11. Fresh(c)' => nplayed' = 0 /\ Len(v) = Len(u)
    BY <1>4, <1>5, <1>6, <1>8, <1>9 DEF Order
  <1>12. ASSUME Running'
         PROVE  /\ Len(v) = nplayed' + Pending' + Len(u)
                /\ nplayed' + Pending' >= 1 /\ hbm' = v[nplayed' + Pending']
    <2>1. /\ Len(wseq) = nplayed + Pending + Len(r)
          /\ nplayed + Pending >= 1 /\ hbm = wseq[nplayed + Pending]
      BY <1>4, <1>6, <1>12 DEF Order
    <2>2. nplayed + Pending \in 1 .. Len(wseq)
      BY <1>3, <1>10, <2>1
    <2>3. v[nplayed + Pending] = wseq[nplayed + Pending]
      BY <1>8, <1>9, <2>2
    <2>4. Len(v) = nplayed + Pending + Len(u)
      BY <1>3, <1>8, <1>9, <1>10, <2>1
    <2>5. QED
      BY <1>5, <1>6, <2>1, <2>3, <2>4
  <1>13. ASSUME Playing'
         PROVE  (/\ nplayed + Pending >= 1 \/ Pending = 0
                 /\ ~Idle(ic) => nplayed + 1 <= Len(v) /\ Head(chan[ic]).buf = v[nplayed + 1]
                 /\ ~Idle(other) =>
                      LET k == nplayed + Pending
                      IN  \/ k <= Len(v) /\ Head(chan[other]).buf = v[k]
                          \/ /\ ~Head(chan[other]).set
                             /\ k - 1 \in 1 .. Len(v) /\ Head(chan[other]).buf = v[k - 1])'
    <2> DEFINE k == nplayed + Pending
    <2>1. /\ k >= 1 \/ Pending = 0
          /\ ~Idle(ic) => nplayed + 1 <= Len(wseq) /\ Head(chan[ic]).buf = wseq[nplayed + 1]
          /\ ~Idle(other) =>
               \/ k <= Len(wseq) /\ Head(chan[other]).buf = wseq[k]
               \/ /\ ~Head(chan[other]).set
                  /\ k - 1 \in 1 .. Len(wseq) /\ Head(chan[other]).buf = wseq[k - 1]
      BY <1>4, <1>6, <1>13, Zenon DEF Order
    <2>2. UNCHANGED <<Idle(ic), Idle(other), Head(chan[ic]), Head(chan[other])>>
      BY <1>5, <1>6, Zenon DEF Idle
    <2>3. k \in Nat /\ nplayed + 1 \in Nat /\ nplayed + 1 >= 1
      BY <1>3
    <2>4. Len(v) = Len(wseq) + 2 /\ \A i \in 1 .. Len(wseq) : v[i] = wseq[i]
      BY <1>8, <1>9
    <2>5. ~Idle(other) => k >= 1
      <3>1. ~Idle(other) => Pending # 0
        <4>1. Pending = Len(chan[ic]) + Len(chan[other]) /\ Len(chan[ic]) \in Nat /\ Len(chan[other]) \in Nat
              /\ chan[other] \in Seq(Transfers)
          BY ChannelTypes
        <4>2. Idle(other) <=> Len(chan[other]) = 0
          BY <4>1 DEF Idle
        <4> DEFINE p == Len(chan[ic])
                   q == Len(chan[other])
        <4> HIDE DEF p, q
        <4>3. Pending = p + q /\ p \in Nat /\ q \in Nat /\ (Idle(other) <=> q = 0)
          BY <4>1, <4>2 DEF p, q
        <4>4. QED
          BY <4>3
      <3>2. QED
        BY <2>1, <3>1
    <2>6. ~Idle(ic) => nplayed + 1 <= Len(v) /\ Head(chan[ic]).buf = v[nplayed + 1]
      BY <1>10, <2>1, <2>3, <2>4
    <2> HIDE DEF k
    <2>7. ~Idle(other) =>
            \/ k <= Len(v) /\ Head(chan[other]).buf = v[k]
            \/ /\ ~Head(chan[other]).set
               /\ k - 1 \in 1 .. Len(v) /\ Head(chan[other]).buf = v[k - 1]
      BY <1>10, <2>1, <2>3, <2>4, <2>5
    <2>8. k' = k /\ nplayed' = nplayed
      BY <1>5, <1>6 DEF k
    <2>9. QED
      BY <1>6, <2>1, <2>2, <2>6, <2>7, <2>8, Zenon DEF k
  <1>14. Suffix(u, v)
    BY <1>8, <1>9
  <1>15. Order(c, u, v)'
    BY <1>11, <1>12, <1>13, <1>14, Zenon DEF Order
  <1>16. BQ_items(refills') = u /\ wseq' = v
    BY <1>2, <1>7, <1>9
  <1>17. QED
    BY <1>1, <1>15, <1>16, OrderBy

LEMMA OrderPrime ==
  ASSUME OneClient, StreamTypeOK, CallsInv, LoopInv, RestInv, OrderInv, ~left,
         NEW c \in bq_clients, Prime
  PROVE  OrderInv'
  <1> DEFINE r == BQ_items(refills)
             x == BQ_item(refills)
             y == BQ_item(BQ_drop(refills))
             s == [buf |-> x, wait |-> FALSE, set |-> TRUE]
             t == [buf |-> y, wait |-> TRUE, set |-> TRUE]
             r1 == Tail(r)
             r2 == Tail(r1)
  <1>1. /\ c \in Clients /\ bq_clients' \subseteq {c} /\ refills' = BQ_drop(BQ_drop(refills))
        /\ UNCHANGED <<wseq, f_pos>> /\ wpc = "prime" /\ BQ_count(refills) > 1
    BY AsOne DEF Prime, StreamTypeOK, CallTypes, files
  <1>2. /\ r \in Seq(Buffers) /\ wseq \in Seq(Buffers) /\ refills \in Queue
        /\ Len(r) = BQ_count(refills) /\ Len(r) \in Nat
    BY OrderTypes
  <1>3. BQ_count(refills) >= 2 /\ Len(r) >= 2
    BY <1>1, <1>2
  <1>4. r # << >> /\ r1 # << >> /\ x = Head(r) /\ y = Head(r1) /\ BQ_items(refills') = r2
    BY <1>2, <1>3, DropTwo, <1>1
  <1>5. /\ chan'[0] = <<s>> /\ chan'[1] = <<t>> /\ hbm' = y /\ ic' = 0 /\ other' = 1
        /\ Pending' = 2 /\ wpc' = "ready" /\ nplayed' = nplayed
    BY PrimeMoves, PrimeTurn
  <1>6. s.buf = x /\ t.buf = y
    OBVIOUS
  <1>7. Head(<<s>>) = s /\ Head(<<t>>) = t
    BY OneTransfer
  <1>8. Order(c, r, wseq)
    BY DEF OrderInv
  <1> HIDE DEF r, x, y, s, t
  <1>9. Suffix(r, wseq) /\ nplayed = 0 /\ Len(wseq) = Len(r)
    BY <1>1, <1>8 DEF Order, Fresh
  <1>10. /\ Suffix(r1, wseq) /\ Len(r1) = Len(r) - 1 /\ r1 \in Seq(Buffers)
         /\ x = wseq[Len(wseq) - Len(r) + 1]
    BY <1>2, <1>4, <1>9, SuffixTail
  <1> HIDE DEF r1
  <1>11. Suffix(r2, wseq) /\ Len(r2) = Len(r1) - 1 /\ y = wseq[Len(wseq) - Len(r1) + 1]
    BY <1>2, <1>4, <1>10, SuffixTail
  <1> HIDE DEF r2
  <1>12. x = wseq[1] /\ y = wseq[2] /\ Len(wseq) = 2 + Len(r2) /\ Len(wseq) >= 2
    <2> DEFINE n == Len(wseq)
               k == Len(r)
               k1 == Len(r1)
               k2 == Len(r2)
    <2>1. k \in Nat /\ k >= 2 /\ n = k /\ k1 = k - 1 /\ k2 = k1 - 1
      BY <1>2, <1>3, <1>9, <1>10, <1>11
    <2>2. x = wseq[n - k + 1] /\ y = wseq[n - k1 + 1]
      BY <1>10, <1>11
    <2> HIDE DEF n, k, k1, k2
    <2>3. n - k + 1 = 1 /\ n - k1 + 1 = 2 /\ n = 2 + k2 /\ n >= 2
      BY <2>1
    <2>4. x = wseq[1] /\ y = wseq[2]
      BY <2>2, <2>3
    <2>5. QED
      BY <2>3, <2>4 DEF n, k2
  <1>13. PICK u, v : u = r2 /\ v = wseq
    OBVIOUS
  <1>14. ~Fresh(c)' /\ Running' /\ Playing'
    BY <1>1, <1>5 DEF CallsInv, Calls, Alive, Fresh, Running, Playing
  <1>15. nplayed' + Pending' = 2 /\ nplayed' + 1 = 1 /\ nplayed' = 0
    BY <1>5, <1>9
  <1>16. Head(chan'[ic']).buf = v[1] /\ Head(chan'[other']).buf = v[2] /\ hbm' = v[2]
    BY <1>5, <1>6, <1>7, <1>12, <1>13
  <1>17. /\ Len(v) = nplayed' + Pending' + Len(u) /\ nplayed' + Pending' >= 1
         /\ hbm' = v[nplayed' + Pending']
         /\ nplayed' + 1 <= Len(v) /\ Head(chan'[ic']).buf = v[nplayed' + 1]
         /\ nplayed' + Pending' <= Len(v) /\ Head(chan'[other']).buf = v[nplayed' + Pending']
    BY <1>12, <1>13, <1>15, <1>16
  <1>18. Suffix(u, v)
    BY <1>11, <1>13
  <1>19. Order(c, u, v)'
    BY <1>14, <1>17, <1>18, Zenon DEF Order
  <1>20. BQ_items(refills') = u /\ wseq' = v
    BY <1>1, <1>4, <1>13
  <1>21. QED
    BY <1>1, <1>19, <1>20, OrderBy

LEMMA OrderQuit ==
  ASSUME OneClient, StreamTypeOK, CallsInv, OrderInv, ~left, NEW c \in bq_clients, Quit
  PROVE  OrderInv'
  <1> DEFINE r == BQ_items(refills)
  <1>1. /\ c \in Clients /\ bq_clients' \subseteq {c} /\ refills' = BQ_clear(refills)
        /\ UNCHANGED <<wseq, f_pos, nplayed, hbm, chan, ic>> /\ wpc = "quit" /\ wpc' = "drain"
    BY AsOne DEF Quit, StreamTypeOK, CallTypes, files, dmac, locals
  <1>2. Order(c, r, wseq)
    BY DEF OrderInv
  <1>3. BQ_items(refills') = << >>
    BY <1>1, ListTypes, RingClear
  <1>4. ~Fresh(c)' /\ ~Running' /\ ~Running /\ Playing /\ Playing'
    BY <1>1 DEF CallsInv, Calls, Alive, Fresh, Running, Playing
  <1> HIDE DEF r
  <1>5. PICK u, v : u = << >> /\ v = wseq
    OBVIOUS
  <1>6. Suffix(u, v)
    <2>1. Len(u) = 0 /\ Len(v) \in Nat
      BY <1>5, OrderTypes
    <2>2. QED
      BY <2>1 DEF Suffix
  <1>7. ~Fresh(c)
    BY <1>1 DEF CallsInv, Calls, Alive, Fresh
  <1>8. Order(c, u, v)
    BY <1>2, <1>4, <1>5, <1>6, <1>7, Zenon DEF Order
  <1>9. Order(c, u, v)'
    BY <1>1, <1>4, <1>8, OrderKept
  <1>10. QED
    BY <1>1, <1>3, <1>5, <1>9, OrderBy

\* How many transfers are pending.
LEMMA PendingParts ==
  ASSUME StreamTypeOK, TurnInv, ~left, Playing
  PROVE  /\ Idle(ic) /\ Idle(other) => Pending = 0
         /\ Idle(ic) /\ ~Idle(other) => Pending = 1
         /\ ~Idle(ic) /\ ~Idle(other) => Pending = 2
         /\ ~Idle(ic) => Pending >= 1
         /\ \A i \in 0 .. 1 : ~Idle(i) => Len(chan[i]) = 1
  <1> DEFINE p == Len(chan[ic])
             q == Len(chan[other])
  <1>1. /\ chan \in [0 .. 1 -> Seq(Transfers)] /\ ic \in 0 .. 1 /\ other \in 0 .. 1
        /\ Pending = p + q /\ p \in Nat /\ q \in Nat
    BY ChannelTypes, TwoChannels
  <1>2. \A i \in 0 .. 1 : Len(chan[i]) <= 1
    BY DEF TurnInv
  <1>3. \A i \in 0 .. 1 : (Idle(i) => Len(chan[i]) = 0) /\ (~Idle(i) => Len(chan[i]) = 1)
    <2> SUFFICES ASSUME NEW i \in 0 .. 1
                 PROVE  (Idle(i) => Len(chan[i]) = 0) /\ (~Idle(i) => Len(chan[i]) = 1)
      OBVIOUS
    <2>1. chan[i] \in Seq(Transfers) /\ Len(chan[i]) <= 1
      BY <1>1, <1>2
    <2>2. QED
      BY <2>1, ShortQueue DEF Idle
  <1>4. (Idle(ic) => p = 0) /\ (~Idle(ic) => p = 1) /\ (Idle(other) => q = 0) /\ (~Idle(other) => q = 1)
    BY <1>1, <1>3
  <1>5. Pending = p + q /\ p \in Nat /\ q \in Nat
    BY <1>1
  <1> HIDE DEF p, q
  <1>6. QED
    BY <1>3, <1>4, <1>5

\* What a push finds and leaves.
LEMMA TurnPending ==
  ASSUME StreamTypeOK, TurnInv, ~left, NEW l \in BOOLEAN, Turn(l)
  PROVE  /\ Pending' = Pending + 1 /\ Idle(ic) /\ Running /\ Playing /\ Playing'
         /\ Running' <=> ~l
         /\ ic' = other /\ other' = ic /\ nplayed' = nplayed
         /\ chan' = [chan EXCEPT ![ic] = <<[buf |-> hbm', wait |-> TRUE, set |-> ~l]>>]
         /\ Head(chan'[other']).buf = hbm' /\ (Head(chan'[other']).set <=> ~l)
         /\ chan'[ic'] = chan[other] /\ (Idle(ic)' <=> Idle(other))
         /\ wseq' = wseq
  <1> DEFINE t == [buf |-> hbm', wait |-> TRUE, set |-> ~l]
  <1>1. /\ wpc = "push" /\ wpc' = (IF l THEN "quit" ELSE "ready") /\ ic' = other /\ other' = ic
        /\ chan' = [chan EXCEPT ![ic] = <<t>>] /\ nplayed' = nplayed
    BY PushMoves, PushTurn
  <1>2. hbm' \in Buffers /\ wseq' = wseq
    <2>1. hbm \in Buffers /\ BQ_item(refills) \in Buffers
      BY OrderTypes, QueueTypes
    <2>2. hbm' = IF last_push = "LP_IDLE" THEN BQ_item(refills) ELSE hbm
      BY PushMoves
    <2>3. QED
      BY <2>1, <2>2 DEF Turn
  <1>3. t \in Transfers /\ t.buf = hbm' /\ (t.set <=> ~l)
    BY <1>2 DEF Transfers
  <1> HIDE DEF t
  <1>4. Idle(ic) /\ Len(chan[ic]) = 0
    BY PushTurn
  <1>5. /\ ic \in 0 .. 1 /\ other \in 0 .. 1 /\ other # ic /\ chan \in [0 .. 1 -> Seq(Transfers)]
        /\ Pending \in Nat
    BY ChannelTypes, TwoChannels
  <1>6. chan'[ic] = <<t>> /\ chan'[other] = chan[other] /\ Head(<<t>>) = t /\ Len(<<t>>) = 1
    BY <1>1, <1>5, OneTransfer
  <1>7. <<t>> \in Seq(Transfers)
    BY <1>3
  <1>8. Pending' = (Pending - Len(chan[ic])) + Len(<<t>>)
    BY <1>1, <1>5, <1>7, OneChannel
  <1>9. Pending' = Pending + 1
    <2> DEFINE m == Len(chan[ic])
               n == Len(<<t>>)
    <2>1. Pending' = (Pending - m) + n /\ m = 0 /\ n = 1
      BY <1>4, <1>6, <1>8
    <2> HIDE DEF m, n
    <2>2. QED
      BY <1>5, <2>1
  <1>10. Head(chan'[other']).buf = hbm' /\ (Head(chan'[other']).set <=> ~l)
    BY <1>1, <1>3, <1>6, Zenon
  <1>11. chan'[ic'] = chan[other] /\ (Idle(ic)' <=> Idle(other))
    BY <1>1, <1>6, Zenon DEF Idle
  <1>12. Running /\ Playing /\ Playing' /\ (Running' <=> ~l)
    BY <1>1 DEF Running, Playing
  <1>13. QED
    BY <1>1, <1>2, <1>4, <1>9, <1>10, <1>11, <1>12, Zenon DEF t

LEMMA OrderTurnNext ==
  ASSUME OneClient, StreamTypeOK, CallsInv, TurnInv, RefillInv, OrderInv, ~left,
         NEW c \in bq_clients, NEW l \in BOOLEAN, Turn(l), last_push = "LP_IDLE"
  PROVE  OrderInv'
  <1> DEFINE r == BQ_items(refills)
             new == BQ_item(refills)
             r1 == Tail(r)
             k == nplayed + Pending
  <1>1. /\ c \in Clients /\ bq_clients' \subseteq {c} /\ refills' = BQ_drop(refills) /\ hbm' = new
        /\ wpc = "push" /\ wpc' \in {"quit", "ready"} /\ f_pos' = f_pos
    BY AsOne DEF Turn, StreamTypeOK, CallTypes, files
  <1>2. /\ r \in Seq(Buffers) /\ wseq \in Seq(Buffers) /\ refills \in Queue
        /\ Len(r) = BQ_count(refills) /\ nplayed \in Nat /\ Pending \in Nat
    BY OrderTypes
  <1>3. BQ_count(refills) >= 1
    BY <1>1 DEF RefillInv
  <1>4. r # << >> /\ new = Head(r) /\ BQ_items(refills') = r1
    BY <1>1, <1>2, <1>3, RingDrop
  <1>5. /\ Pending' = Pending + 1 /\ Idle(ic) /\ Running /\ Playing /\ Playing'
        /\ nplayed' = nplayed /\ Head(chan'[other']).buf = hbm'
        /\ chan'[ic'] = chan[other] /\ (Idle(ic)' <=> Idle(other)) /\ wseq' = wseq
    BY TurnPending
  <1>6. Order(c, r, wseq)
    BY DEF OrderInv
  <1> HIDE DEF r, new
  <1>7. /\ Suffix(r, wseq) /\ Len(wseq) = nplayed + Pending + Len(r) /\ k >= 1
    BY <1>5, <1>6, Zenon DEF Order
  <1>8. /\ Suffix(r1, wseq) /\ Len(r1) = Len(r) - 1
        /\ Len(r) \in Nat /\ Len(wseq) \in Nat /\ Len(r) >= 1 /\ Len(r) <= Len(wseq)
        /\ new = wseq[Len(wseq) - Len(r) + 1]
    BY <1>2, <1>4, <1>7, SuffixTail
  <1> HIDE DEF r1
  <1>9. /\ Len(wseq) - Len(r) + 1 = k + 1 /\ Len(wseq) = (k + 1) + Len(r1) /\ k + 1 <= Len(wseq)
        /\ k + 1 >= 1 /\ nplayed' + Pending' = k + 1
    <2> DEFINE n == Len(wseq)
               m == Len(r)
               m1 == Len(r1)
    <2>1. /\ n \in Nat /\ m \in Nat /\ m >= 1 /\ m1 = m - 1 /\ n = nplayed + Pending + m
          /\ nplayed \in Nat /\ Pending \in Nat /\ nplayed' = nplayed /\ Pending' = Pending + 1
      BY <1>2, <1>5, <1>7, <1>8
    <2> HIDE DEF n, m, m1
    <2>2. n - m + 1 = k + 1 /\ n = (k + 1) + m1 /\ k + 1 <= n /\ k + 1 >= 1 /\ nplayed' + Pending' = k + 1
      BY <2>1
    <2>3. QED
      BY <2>2 DEF n, m, m1
  <1>10. hbm' = wseq[k + 1]
    BY <1>1, <1>8, <1>9
  <1>11. ~Idle(other) => nplayed + 1 <= Len(wseq) /\ Head(chan[other]).buf = wseq[nplayed + 1]
    <2> SUFFICES ASSUME ~Idle(other)
                 PROVE  nplayed + 1 <= Len(wseq) /\ Head(chan[other]).buf = wseq[nplayed + 1]
      OBVIOUS
    <2>1. Pending = 1
      BY <1>5, PendingParts
    <2>2. Head(chan[other]).set
      BY <1>5 DEF TurnInv
    <2>3. k <= Len(wseq) /\ Head(chan[other]).buf = wseq[k]
      BY <1>5, <1>6, <2>2, Zenon DEF Order
    <2>4. QED
      BY <2>1, <2>3
  <1>12. PICK u, v : u = r1 /\ v = wseq
    OBVIOUS
  <1>13. ~Fresh(c)'
    BY <1>1 DEF CallsInv, Calls, Alive, Fresh
  <1>14. /\ Suffix(u, v) /\ Len(v) = nplayed' + Pending' + Len(u) /\ nplayed' + Pending' >= 1
         /\ hbm' = v[nplayed' + Pending'] /\ nplayed' + Pending' <= Len(v)
         /\ Head(chan'[other']).buf = v[nplayed' + Pending']
    BY <1>5, <1>8, <1>9, <1>10, <1>12
  <1>15. ~Idle(ic)' => nplayed' + 1 <= Len(v) /\ Head(chan'[ic']).buf = v[nplayed' + 1]
    BY <1>5, <1>11, <1>12, Zenon
  <1>16. Order(c, u, v)'
    BY <1>13, <1>14, <1>15, Zenon DEF Order
  <1>17. BQ_items(refills') = u /\ wseq' = v
    BY <1>4, <1>5, <1>12
  <1>18. QED
    BY <1>1, <1>16, <1>17, OrderBy

LEMMA OrderTurnLast ==
  ASSUME OneClient, StreamTypeOK, CallsInv, TurnInv, OrderInv, ~left,
         NEW c \in bq_clients, NEW l \in BOOLEAN, Turn(l), last_push # "LP_IDLE", l
  PROVE  OrderInv'
  <1> DEFINE r == BQ_items(refills)
             k == nplayed + Pending
  <1>1. /\ c \in Clients /\ bq_clients' \subseteq {c} /\ refills' = refills /\ hbm' = hbm
        /\ wpc = "push" /\ wpc' = "quit" /\ f_pos' = f_pos
    BY AsOne DEF Turn, StreamTypeOK, CallTypes, files
  <1>2. /\ r \in Seq(Buffers) /\ wseq \in Seq(Buffers) /\ nplayed \in Nat /\ Pending \in Nat
    BY OrderTypes
  <1>3. /\ Pending' = Pending + 1 /\ Idle(ic) /\ Running /\ Playing /\ Playing' /\ ~Running'
        /\ nplayed' = nplayed /\ Head(chan'[other']).buf = hbm' /\ ~Head(chan'[other']).set
        /\ chan'[ic'] = chan[other] /\ (Idle(ic)' <=> Idle(other)) /\ wseq' = wseq
    BY TurnPending
  <1>4. Order(c, r, wseq)
    BY DEF OrderInv
  <1> HIDE DEF r
  <1>5. Suffix(r, wseq) /\ Len(wseq) = nplayed + Pending + Len(r) /\ k >= 1 /\ hbm = wseq[k]
    BY <1>3, <1>4, Zenon DEF Order
  <1>6. k <= Len(wseq) /\ k \in 1 .. Len(wseq) /\ nplayed' + Pending' = k + 1 /\ (k + 1) - 1 = k /\ k + 1 >= 1
    <2>1. Len(r) \in Nat /\ Len(wseq) \in Nat
      BY <1>2
    <2>2. QED
      BY <1>2, <1>3, <1>5, <2>1
  <1>7. ~Idle(other) => nplayed + 1 <= Len(wseq) /\ Head(chan[other]).buf = wseq[nplayed + 1]
    <2> SUFFICES ASSUME ~Idle(other)
                 PROVE  nplayed + 1 <= Len(wseq) /\ Head(chan[other]).buf = wseq[nplayed + 1]
      OBVIOUS
    <2>1. Pending = 1
      BY <1>3, PendingParts
    <2>2. Head(chan[other]).set
      BY <1>3 DEF TurnInv
    <2>3. k <= Len(wseq) /\ Head(chan[other]).buf = wseq[k]
      BY <1>3, <1>4, <2>2, Zenon DEF Order
    <2>4. QED
      BY <2>1, <2>3
  <1>8. PICK u, v : u = r /\ v = wseq
    OBVIOUS
  <1>9. ~Fresh(c)'
    BY <1>1 DEF CallsInv, Calls, Alive, Fresh
  <1>10. /\ Suffix(u, v) /\ nplayed' + Pending' >= 1
         /\ (nplayed' + Pending') - 1 \in 1 .. Len(v)
         /\ Head(chan'[other']).buf = v[(nplayed' + Pending') - 1]
    BY <1>1, <1>3, <1>5, <1>6, <1>8
  <1>11. ~Idle(ic)' => nplayed' + 1 <= Len(v) /\ Head(chan'[ic']).buf = v[nplayed' + 1]
    BY <1>3, <1>7, <1>8, Zenon
  <1>12. Order(c, u, v)'
    BY <1>3, <1>9, <1>10, <1>11, Zenon DEF Order
  <1>13. BQ_items(refills') = u /\ wseq' = v
    BY <1>1, <1>3, <1>8 DEF r
  <1>14. QED
    BY <1>1, <1>12, <1>13, OrderBy

LEMMA OrderTransfer ==
  ASSUME OneClient, StreamTypeOK, CallsInv, RestInv, TurnInv, OrderInv, ~left,
         NEW c \in bq_clients, NEW i \in 0 .. 1, Transfer(i)
  PROVE  OrderInv'
  <1> DEFINE r == BQ_items(refills)
             k == nplayed + Pending
  <1>1. /\ c \in Clients /\ bq_clients' \subseteq {c} /\ UNCHANGED <<refills, wseq, f_pos, wpc, hbm, ic>>
        /\ other' = other
    BY AsOne DEF Transfer, StreamTypeOK, CallTypes, files, queues, locals, other
  <1>2. r \in Seq(Buffers) /\ wseq \in Seq(Buffers) /\ nplayed \in Nat /\ Pending \in Nat
    BY OrderTypes
  <1>3. /\ Playing /\ ~Idle(i) /\ Len(chan[i]) = 1 /\ nplayed' = nplayed + 1
        /\ i = ic \/ (i = other /\ Idle(ic))
        /\ chan' = [chan EXCEPT ![i] = << >>]
    BY TransferTurn
  <1>4. /\ chan \in [0 .. 1 -> Seq(Transfers)] /\ ic \in 0 .. 1 /\ other \in 0 .. 1 /\ other # ic
    BY ChannelTypes, TwoChannels
  <1>5. Pending' = Pending - 1
    <2>1. << >> \in Seq(Transfers) /\ Len(<< >>) = 0
      OBVIOUS
    <2>2. chan' = [chan EXCEPT ![i] = << >>]
      BY TransferTurn
    <2>3. Pending' = (Pending - Len(chan[i])) + Len(<< >>)
      BY <2>1, <2>2, OneChannel
    <2>4. Pending' = (Pending - 1) + 0
      BY <1>3, <2>1, <2>3
    <2>5. QED
      BY <1>2, <2>4
  <1>6. nplayed' + Pending' = k
    BY <1>2, <1>3, <1>5
  <1>7. Idle(ic)' /\ (i # other => chan'[other'] = chan[other]) /\ (i = other => Idle(other)')
    BY <1>1, <1>3, <1>4, TransferTurn DEF Idle
  <1>8. Order(c, r, wseq)
    BY DEF OrderInv
  <1> HIDE DEF r
  <1>9. Playing' /\ (Running' <=> Running) /\ (Fresh(c)' <=> Fresh(c))
    BY <1>1, <1>3, Zenon DEF Playing, Running, Fresh
  <1>10. ~Fresh(c)
    BY <1>1, <1>3 DEF CallsInv, Calls, Alive, Fresh, Playing
  <1>11. k >= 1
    <2>1. k >= 1 \/ Pending = 0
      BY <1>3, <1>8, Zenon DEF Order
    <2>2. Pending >= 1
      BY <1>3, <1>4, PendingParts
    <2>3. QED
      BY <1>2, <2>2
  <1>12. PICK u, v : u = r /\ v = wseq
    OBVIOUS
  <1>13. Running' =>
           /\ Len(v) = nplayed' + Pending' + Len(u)
           /\ nplayed' + Pending' >= 1 /\ hbm' = v[nplayed' + Pending']
    <2>1. Running => Len(wseq) = k + Len(r) /\ hbm = wseq[k]
      BY <1>8, Zenon DEF Order
    <2>2. QED
      BY <1>1, <1>6, <1>9, <1>11, <1>12, <2>1
  <1>14. ~Idle(other)' =>
           \/ k <= Len(v) /\ Head(chan'[other']).buf = v[k]
           \/ /\ ~Head(chan'[other']).set
              /\ k - 1 \in 1 .. Len(v) /\ Head(chan'[other']).buf = v[k - 1]
    <2>1. ~Idle(other) =>
            \/ k <= Len(wseq) /\ Head(chan[other]).buf = wseq[k]
            \/ /\ ~Head(chan[other]).set
               /\ k - 1 \in 1 .. Len(wseq) /\ Head(chan[other]).buf = wseq[k - 1]
      BY <1>3, <1>8, Zenon DEF Order
    <2>2. ~Idle(other)' => ~Idle(other) /\ chan'[other'] = chan[other]
      BY <1>7, Zenon DEF Idle
    <2>3. QED
      BY <1>12, <2>1, <2>2, Zenon
  <1>15. Suffix(u, v)
    BY <1>8, <1>12 DEF Order
  <1>16. nplayed' + Pending' >= 1
    BY <1>6, <1>11
  <1>17. ~Idle(other)' =>
           \/ nplayed' + Pending' <= Len(v) /\ Head(chan'[other']).buf = v[nplayed' + Pending']
           \/ /\ ~Head(chan'[other']).set
              /\ (nplayed' + Pending') - 1 \in 1 .. Len(v)
              /\ Head(chan'[other']).buf = v[(nplayed' + Pending') - 1]
    BY <1>6, <1>14, Zenon
  <1>18. Order(c, u, v)'
    BY <1>7, <1>9, <1>10, <1>13, <1>15, <1>16, <1>17, Zenon DEF Order
  <1>19. BQ_items(refills') = u /\ wseq' = v
    BY <1>1, <1>12 DEF r
  <1>20. QED
    BY <1>1, <1>18, <1>19, OrderBy

LEMMA OrderStep ==
  ASSUME OneClient, StreamTypeOK, CallsInv, LoopInv, RestInv, TurnInv, RefillInv, OrderInv, Next
  PROVE  OrderInv'
  <1> SUFFICES ASSUME ~left' PROVE OrderInv'
    BY DEF OrderInv
  <1>0. ~left
    BY LeftStays
  <1>1. bq_clients \subseteq Clients /\ f_pos \in [Clients -> BOOLEAN] /\ \A c, d \in Clients : d = c
    BY DEF StreamTypeOK, CallTypes, OneClient
  <1>2. \A c \in Clients : Alive => f_pos[c] /\ c \in bq_clients
    BY DEF CallsInv, Calls
  <1>3. ASSUME NEW c \in Clients, pc[c] \in {"idle", "write"} PROVE c \in bq_clients
    BY <1>3 DEF CallsInv, Calls
  <1>4. ASSUME NEW c \in Clients,
               \/ OpenTest(c) \/ Read(c) \/ Release(c) \/ Join(c)
               \/ \E k \in 1 .. MaxPairs : Write(c, k)
        PROVE  OrderInv'
    <2>1. UNCHANGED <<bq_clients, refills, hbm, chan, nplayed, wseq, f_pos, wpc, ic>>
      BY <1>4 DEF OpenTest, Read, Write, Release, Join, queues, files, locals, dmac
    <2>2. QED
      BY <1>0, <2>1, OrderAside, Zenon DEF Fresh, Running, Playing
  <1>5. ASSUME NEW c \in Clients, WriteEnd(c) PROVE OrderInv'
    <2>1. /\ UNCHANGED <<bq_clients, refills, hbm, chan, nplayed, wseq, ic>>
          /\ f_pos' = [f_pos EXCEPT ![c] = TRUE]
          /\ wpc' = wpc \/ (~f_pos[c] /\ wpc' = "created")
      BY <1>5 DEF WriteEnd, queues, dmac
    <2>2. \A d \in bq_clients' : Fresh(d)' => Fresh(d)
      BY <1>1, <2>1 DEF Fresh
    <2>3. (Running' => Running) /\ (Playing' => Playing /\ ic' = ic)
      BY <2>1 DEF Running, Playing
    <2>4. bq_clients' \subseteq bq_clients
      BY <2>1
    <2>5. QED
      BY <1>0, <2>1, <2>2, <2>3, <2>4, OrderAside
  <1>6. ASSUME NEW c \in Clients, Close(c) PROVE OrderInv'
    <2>1. bq_clients' = {}
      BY <1>1, <1>6, AsOne DEF Close
    <2>2. QED
      BY <2>1, Zenon DEF OrderInv
  <1>7. ASSUME NEW c \in Clients, OpenInit(c) PROVE OrderInv'
    BY <1>7, OrderOpenInit
  <1>8. ASSUME NEW c \in Clients, WritePair(c) PROVE OrderInv'
    <2>1. c \in bq_clients
      BY <1>3, <1>8 DEF WritePair
    <2>2. QED
      BY <1>0, <1>8, <2>1, OrderWritePair
  <1>9. ASSUME PrimeStop PROVE OrderInv'
    <2>1. /\ UNCHANGED <<bq_clients, refills, hbm, chan, nplayed, wseq, f_pos, ic>>
          /\ wpc = "prime" /\ wpc' = "quit"
      BY <1>9 DEF PrimeStop, queues, files, calls, locals, dmac
    <2>2. chan[0] = << >> /\ chan[1] = << >>
      BY <1>0, <2>1 DEF RestInv, Playing, Idle
    <2>3. Pending' = 0 /\ Idle(ic)' /\ Idle(other)'
      <3>1. Len(<< >>) = 0
        OBVIOUS
      <3>2. Pending' = 0
        BY <2>1, <2>2, <3>1 DEF Pending
      <3>3. (ic = 0 /\ other = 1) \/ (ic = 1 /\ other = 0)
        BY TwoChannels
      <3>4. other' = other
        BY <2>1 DEF other
      <3>5. chan'[ic'] = << >> /\ chan'[other'] = << >>
        BY <2>1, <2>2, <3>3, <3>4
      <3>6. QED
        BY <3>2, <3>5 DEF Idle
    <2>4. \A d \in bq_clients' : Fresh(d)' => Fresh(d)
      BY <1>1, <2>1 DEF Fresh
    <2>5. ~Running' /\ bq_clients' \subseteq bq_clients
      BY <2>1 DEF Running
    <2>6. QED
      BY <1>0, <2>1, <2>3, <2>4, <2>5, OrderAside
  <1>10. ASSUME \/ WorkerRuns \/ WorkerNeverRuns \/ Ready \/ CountIn \/ SyncWait \/ HasRefill
                \/ Stall \/ Drain \/ Drained
         PROVE  OrderInv'
    <2>1. /\ UNCHANGED <<bq_clients, refills, hbm, chan, nplayed, wseq, f_pos>> /\ Alive
          /\ \/ wpc = "created" /\ wpc' = "prime"
             \/ wpc' = "exited"
             \/ wpc \in {"drain", "ddec"} /\ wpc' \in {"drain", "ddec"} /\ ic' = ic
             \/ /\ wpc \in {"ready", "dec", "sync", "stall"} /\ wpc' \in {"dec", "sync", "stall", "push"}
                /\ ic' = ic
      BY <1>10 DEF WorkerRuns, WorkerNeverRuns, Ready, SyncWait, HasRefill, Stall, Drain,
         Drained, CountIn, queues, files, calls, locals, dmac, Alive
    <2>2. \A c \in bq_clients' : Fresh(c)' => Fresh(c)
      BY <1>1, <1>2, <2>1 DEF Fresh
    <2>3. (Running' => Running) /\ (Playing' => Playing /\ ic' = ic)
      BY <2>1 DEF Running, Playing
    <2>4. bq_clients' \subseteq bq_clients
      BY <2>1
    <2>5. QED
      BY <1>0, <2>1, <2>2, <2>3, <2>4, OrderAside
  <1>11. PICK c \in Clients : TRUE
    BY DEF StreamTypeOK, WorkerTypes
  <1>12. ASSUME Prime PROVE OrderInv'
    <2>1. c \in bq_clients
      BY <1>2, <1>12 DEF Prime, Alive
    <2>2. QED
      BY <1>0, <1>12, <2>1, OrderPrime
  <1>13. ASSUME Quit PROVE OrderInv'
    <2>1. c \in bq_clients
      BY <1>2, <1>13 DEF Quit, Alive
    <2>2. QED
      BY <1>0, <1>13, <2>1, OrderQuit
  <1>14. ASSUME NEW l \in BOOLEAN, Turn(l), last_push = "LP_IDLE" \/ l PROVE OrderInv'
    <2>1. c \in bq_clients
      BY <1>2, <1>14 DEF Turn, Alive
    <2>2. CASE last_push = "LP_IDLE"
      BY <1>0, <1>14, <2>1, <2>2, OrderTurnNext
    <2>3. CASE last_push # "LP_IDLE"
      BY <1>0, <1>14, <2>1, <2>3, OrderTurnLast
    <2>4. QED
      BY <2>2, <2>3
  <1>15. ASSUME NextPush PROVE OrderInv'
    <2>1. Turn(FALSE) /\ last_push # "LP_REQUEST" /\ wpc = "push"
      BY <1>15 DEF NextPush, Turn
    <2>2. last_push = "LP_IDLE"
      BY <2>1 DEF LoopInv, StreamTypeOK, WorkerTypes
    <2>3. QED
      BY <1>14, <2>1, <2>2
  <1>16. ASSUME LastPush PROVE OrderInv'
    BY <1>14, <1>16 DEF LastPush
  <1>17. ASSUME NEW i \in 0 .. 1, Transfer(i) PROVE OrderInv'
    <2>1. c \in bq_clients
      BY <1>0, <1>2, <1>17, TransferTurn DEF Playing, Alive
    <2>2. QED
      BY <1>0, <1>17, <2>1, OrderTransfer
  <1>18. ASSUME SyncTimeout PROVE OrderInv'
    BY <1>18 DEF SyncTimeout
  <1>19. ASSUME Callback PROVE OrderInv'
    <2>1. UNCHANGED <<bq_clients, refills, hbm, chan, nplayed, wseq, f_pos, wpc, ic>>
      BY <1>19 DEF Callback, CallbackRead, CallbackWrite, queues, files, locals
    <2>2. QED
      BY <1>0, <2>1, OrderAside, Zenon DEF Fresh, Running, Playing
  <1>20. ASSUME Worker PROVE OrderInv'
    BY <1>9, <1>10, <1>12, <1>13, <1>15, <1>16, <1>20, <1>18, Zenon DEF Worker
  <1>21. ASSUME NEW d \in Clients,
                \/ OpenTest(d) \/ OpenInit(d) \/ Read(d) \/ WritePair(d) \/ WriteEnd(d)
                \/ \E k \in 1 .. MaxPairs : Write(d, k)
                \/ Release(d) \/ Join(d) \/ ReleaseDone(d) \/ ReleaseInterrupted(d)
         PROVE  OrderInv'
    BY <1>4, <1>5, <1>6, <1>7, <1>8, <1>21 DEF ReleaseDone, ReleaseInterrupted
  <1>22. QED
    BY <1>17, <1>20, <1>21, <1>19, Zenon DEF Next

----------------------------------------------------------------------------
(* The invariant.                                                          *)

LEMMA StreamStart ==
  ASSUME Init
  PROVE  StreamInv
  <1> DEFINE e0 == << >>
  <1>1. e0 \in Seq(Buffers) /\ e0 \in Seq(Transfers) /\ Len(e0) = 0
    OBVIOUS
  <1> HIDE DEF e0
  <1>2. /\ bq_clients = {} /\ wpc = "none" /\ last_push = "LP_IDLE" /\ dma_callback_done = 0
        /\ ldone = 0 /\ callbacks = 0 /\ cdone = << >> /\ lost = 0 /\ left = FALSE
        /\ chan = [i \in 0 .. 1 |-> e0] /\ event = [i \in 0 .. 1 |-> FALSE]
        /\ pc = [c \in Clients |-> "closed"] /\ f_pos = [c \in Clients |-> FALSE]
        /\ app = [c \in Clients |-> e0] /\ todo = [c \in Clients |-> 0]
        /\ refills = BQ_init(backlog) /\ empties = [c \in Clients |-> BQ_init(backlog)]
        /\ worker_done = [c \in Clients |-> FALSE] /\ wseq = e0
    BY DEF Init, e0
  <1>3. CallTypes
    BY <1>1, <1>2, RingInit DEF CallTypes
  <1>4. WorkerTypes
    <2>1. pdesc \in Clients /\ ic = 0 /\ ab = [i \in 0 .. 1 |-> 0] /\ hbm = 0
          /\ dma_buffers_out = 0 /\ dma_buffers_in = 0 /\ nplayed = 0
      BY DEF Init
    <2>2. wpc \in LoopSteps /\ wpc \notin {"dec", "ddec"}
      BY <1>2 DEF LoopSteps
    <2>3. chan \in [0 .. 1 -> Seq(Transfers)] /\ event \in [0 .. 1 -> BOOLEAN]
      BY <1>1, <1>2
    <2>4. ldone \in Nat /\ callbacks \in Nat /\ lost \in Nat /\ left \in BOOLEAN
      BY <1>2
    <2>5. ab \in [0 .. 1 -> Buffers] /\ hbm \in Buffers /\ ic \in 0 .. 1
      BY <2>1, Sizes
    <2>6. QED
      BY <1>2, <2>1, <2>2, <2>3, <2>4, <2>5, Zenon DEF WorkerTypes
  <1>5. CallsInv
    BY <1>2 DEF CallsInv, Calls, Alive
  <1>6. RestInv
    <2>1. \A i \in 0 .. 1 : Idle(i) /\ ~event[i]
      BY <1>2 DEF Idle, e0
    <2>2. QED
      BY <1>2, <2>1 DEF RestInv, Playing
  <1>7. TurnInv /\ RefillInv
    BY <1>2 DEF TurnInv, Playing, RefillInv
  <1>8. LoopInv /\ CountInv
    BY <1>2 DEF LoopInv, CountInv, Playing
  <1>9. PlacesInv /\ OrderInv
    BY <1>2, Zenon DEF PlacesInv, OrderInv
  <1>10. QED
    BY <1>3, <1>4, <1>5, <1>6, <1>7, <1>8, <1>9 DEF StreamInv, StreamTypeOK

LEMMA StreamStutter ==
  ASSUME StreamInv, UNCHANGED vars
  PROVE  StreamInv'
  <1>1. /\ UNCHANGED <<bq_clients, refills, empties, sd_task, worker_done, f_pos, pc, todo, app>>
        /\ UNCHANGED <<wpc, pdesc, ic, ab, hbm, last_push>>
        /\ UNCHANGED <<dma_buffers_out, dma_buffers_in, dma_callback_done, ldone, wseq>>
        /\ UNCHANGED <<chan, event, callbacks, cdone, nplayed, lost, left>>
    BY DEF vars, queues, files, calls, locals, counts, dmac
  <1>2. CallTypes' /\ WorkerTypes'
    BY <1>1, Zenon DEF StreamInv, StreamTypeOK, CallTypes, WorkerTypes
  <1>3. CallsInv'
    BY <1>1, Zenon DEF StreamInv, CallsInv, Calls, Alive
  <1>4. RestInv'
    BY <1>1, Zenon DEF StreamInv, RestInv, Playing, Idle
  <1>5. TurnInv'
    BY <1>1, Zenon DEF StreamInv, TurnInv, Playing, Running, Idle, other, Pending
  <1>6. RefillInv'
    BY <1>1, Zenon DEF StreamInv, RefillInv
  <1>7. PlacesInv'
    BY <1>1, Zenon DEF StreamInv, PlacesInv, Share, Held, Idle, Fresh, Running, other
  <1>8. OrderInv'
    BY <1>1, Zenon DEF StreamInv, OrderInv, Order, Idle, Fresh, Running, Playing, other, Pending
  <1>9. LoopInv'
    BY <1>1, Zenon DEF StreamInv, LoopInv
  <1>10. CountInv'
    BY <1>1, Zenon DEF StreamInv, CountInv, Playing, Pending
  <1>11. QED
    BY <1>2, <1>3, <1>4, <1>5, <1>6, <1>7, <1>8, <1>9, <1>10 DEF StreamInv, StreamTypeOK

LEMMA StreamStep ==
  ASSUME OneClient, StreamInv, Next
  PROVE  StreamInv'
  <1> USE DEF StreamInv
  <1>1. CallTypes'
    BY CallTypesStep
  <1>2. WorkerTypes'
    BY WorkerTypesStep
  <1>3. CallsInv'
    BY CallsStep
  <1>4. RestInv'
    BY RestStep
  <1>5. TurnInv'
    BY TurnStep
  <1>6. RefillInv'
    BY RefillStep
  <1>7. PlacesInv'
    BY PlacesStep
  <1>8. OrderInv'
    BY OrderStep
  <1>9. LoopInv'
    BY LoopStep
  <1>10. CountInv'
    BY CountStep
  <1>11. QED
    BY <1>1, <1>2, <1>3, <1>4, <1>5, <1>6, <1>7, <1>8, <1>9, <1>10 DEF StreamTypeOK

\* While one process uses the device: the worker lives no longer than the file,
\* every buffer of streaming output is in one place, and, until a stream is over
\* before its transfers are, the two channels take turns and play in the order of
\* the writes, whatever the count of callbacks.  As long as ++ and -- of
\* dma_callback_done did not overlap, every transfer is accounted for and none is
\* left.
THEOREM StreamInvariant == OneClient => (Spec => []StreamInv)
  <1> SUFFICES ASSUME OneClient PROVE Spec => []StreamInv
    OBVIOUS
  <1>1. Init => StreamInv
    BY StreamStart
  <1>2. ASSUME StreamInv, [Next]_vars PROVE StreamInv'
    <2>1. CASE Next
      BY <1>2, <2>1, StreamStep
    <2>2. CASE UNCHANGED vars
      BY <1>2, <2>2, StreamStutter
    <2>3. QED
      BY <1>2, <2>1, <2>2
  <1>3. QED
    BY <1>1, <1>2, PTL DEF Spec

----------------------------------------------------------------------------
(* The properties.                                                         *)

\* As long as no update of dma_callback_done was lost, streamdac_data_loop() counts
\* the callback of the channel whose turn it is, dma_sync_wait() has nothing to wait
\* for, and neither a transfer nor an event is left behind.
THEOREM StreamInTurn == OneClient => (Spec => []InTurn)
  <1>1. StreamInv => InTurn
    <2> SUFFICES ASSUME StreamInv, lost = 0
                 PROVE  /\ wpc = "sync" => chan[ic] = << >>
                        /\ wpc = "exited" => \A i \in 0 .. 1 : chan[i] = << >> /\ ~event[i]
      BY DEF InTurn
    <2> USE DEF StreamInv
    <2>0. ~left
      BY DEF CountInv
    <2>1. ASSUME wpc = "sync" PROVE chan[ic] = << >>
      <3>1. /\ dma_buffers_out \in Nat /\ dma_buffers_in \in Nat /\ dma_callback_done \in Nat
            /\ callbacks \in Nat /\ Len(cdone) \in Nat /\ Pending \in Nat
        BY CountTypes
      <3>2. dma_buffers_out = dma_buffers_in + 1 /\ Playing
        BY <2>1 DEF LoopInv, Playing
      <3>3. Pending <= 1
        BY <3>1, <3>2 DEF CountInv
      <3>4. ~Idle(ic) => ~Idle(other)
        BY <2>0, <3>2 DEF TurnInv
      <3>5. ~Idle(ic) => Pending = 2
        BY <2>0, <3>2, <3>4, PendingParts
      <3>6. QED
        BY <3>1, <3>3, <3>5 DEF Idle
    <2>2. wpc = "exited" => \A i \in 0 .. 1 : chan[i] = << >> /\ ~event[i]
      BY <2>0 DEF RestInv, Playing, Idle
    <2>3. QED
      BY <2>1, <2>2 DEF InTurn
  <1>2. QED
    BY <1>1, StreamInvariant, PTL

\* The first acq400_streamdac_write(), which starts the worker, finds room for
\* every pair that the application can have: numbers move in pairs, backlog is
\* even, and there are fewer buffers than cells.
THEOREM StreamFirstWrite == OneClient => (Spec => []FirstWriteFits)
  <1>1. StreamInv => FirstWriteFits
    <2> SUFFICES ASSUME StreamInv, NEW c \in Clients, pc[c] = "write", ~f_pos[c], todo[c] > 0
                 PROVE  HasSpace
      BY DEF FirstWriteFits
    <2> DEFINE a == app[c]
               e == BQ_items(empties[c])
               r == BQ_items(refills)
               x == Len(a)
               y == Len(e)
               z == Len(r)
    <2>1. c \in bq_clients /\ 2 * todo[c] <= x
      BY DEF StreamInv, CallsInv, Calls
    <2>2. Share(c, a, e, r)
      BY <2>1 DEF StreamInv, PlacesInv
    <2>3. x + y + z = limit /\ x % 2 = 0 /\ z % 2 = 0
      BY <2>2 DEF Share, Fresh, Total
    <2>4. x \in Nat /\ y \in Nat /\ z \in Nat /\ refills \in Queue /\ z = BQ_count(refills)
      BY ListTypes DEF StreamInv
    <2>5. BQ_space(refills) = backlog - 1 - BQ_count(refills)
      BY <2>4, RingCounts
    <2>6. todo[c] \in Nat /\ todo[c] >= 1
      BY DEF StreamInv, StreamTypeOK, CallTypes
    <2> HIDE DEF a, e, r, x, y, z
    <2>7. x >= 2
      BY <2>1, <2>4, <2>6
    <2>8. z <= backlog - 3
      BY <2>3, <2>4, <2>7, Sizes
    <2>9. backlog - 1 - z > 2
      BY <2>3, <2>4, <2>8, Sizes
    <2>10. QED
      BY <2>4, <2>5, <2>9 DEF HasSpace
  <1>2. QED
    BY <1>1, StreamInvariant, PTL

\* Two lists one after the other.
LEMMA JoinTwo ==
  ASSUME NEW s \in Seq(Buffers), NEW t \in Seq(Buffers)
  PROVE  /\ s \o t \in Seq(Buffers) /\ \A b : On(s \o t, b) <=> On(s, b) \/ On(t, b)
         /\ NoRepeat(s) /\ NoRepeat(t) /\ Apart(s, t) => NoRepeat(s \o t)
  <1> DEFINE u == s \o t
             m == Len(s)
             n == Len(t)
  <1>1. /\ m \in Nat /\ n \in Nat /\ u \in Seq(Buffers) /\ Len(u) = m + n
        /\ \A i \in 1 .. m : u[i] = s[i] /\ s[i] \in Buffers
        /\ \A i \in 1 .. n : u[m + i] = t[i] /\ t[i] \in Buffers
    OBVIOUS
  <1>2. \A i \in 1 .. m + n : i \in 1 .. m \/ (i - m \in 1 .. n /\ m + (i - m) = i)
    BY <1>1
  <1> HIDE DEF u, m, n
  <1>3. ASSUME NEW b, On(s, b) \/ On(t, b) PROVE On(u, b)
    <2>1. CASE On(s, b)
      <3>1. PICK i \in 1 .. m : s[i] = b
        BY <2>1 DEF On, m
      <3>2. i \in 1 .. m + n /\ u[i] = b
        BY <1>1, <3>1
      <3>3. QED
        BY <1>1, <3>2 DEF On
    <2>2. CASE On(t, b)
      <3>1. PICK i \in 1 .. n : t[i] = b
        BY <2>2 DEF On, n
      <3>2. m + i \in 1 .. m + n /\ u[m + i] = b
        BY <1>1, <3>1
      <3>3. QED
        BY <1>1, <3>2 DEF On
    <2>3. QED
      BY <1>3, <2>1, <2>2
  <1>4. ASSUME NEW b, On(u, b) PROVE On(s, b) \/ On(t, b)
    <2>1. PICK i \in 1 .. m + n : u[i] = b
      BY <1>1, <1>4 DEF On
    <2>2. CASE i \in 1 .. m
      BY <1>1, <2>1, <2>2 DEF On, m
    <2>3. CASE i - m \in 1 .. n /\ m + (i - m) = i
      <3>1. t[i - m] = b
        BY <1>1, <2>1, <2>3
      <3>2. QED
        BY <2>3, <3>1 DEF On, n
    <2>4. QED
      BY <1>2, <2>2, <2>3
  <1>5. ASSUME NoRepeat(s), NoRepeat(t), Apart(s, t) PROVE NoRepeat(u)
    <2> SUFFICES ASSUME NEW i \in 1 .. m + n, NEW j \in 1 .. m + n, u[i] = u[j] PROVE i = j
      BY <1>1 DEF NoRepeat
    <2>1. \A k \in 1 .. m, l \in 1 .. n : s[k] # t[l]
      BY <1>1, <1>5 DEF Apart, On, m, n
    <2>2. CASE i \in 1 .. m /\ j \in 1 .. m
      BY <1>1, <1>5, <2>2 DEF NoRepeat, m
    <2>3. CASE i \in 1 .. m /\ j - m \in 1 .. n /\ m + (j - m) = j
      <3>1. u[i] = s[i] /\ u[j] = t[j - m]
        BY <1>1, <2>3
      <3>2. s[i] # t[j - m]
        BY <2>1, <2>3
      <3>3. QED
        BY <3>1, <3>2
    <2>4. CASE i - m \in 1 .. n /\ m + (i - m) = i /\ j \in 1 .. m
      <3>1. u[j] = s[j] /\ u[i] = t[i - m]
        BY <1>1, <2>4
      <3>2. s[j] # t[i - m]
        BY <2>1, <2>4
      <3>3. QED
        BY <3>1, <3>2
    <2>5. CASE i - m \in 1 .. n /\ m + (i - m) = i /\ j - m \in 1 .. n /\ m + (j - m) = j
      <3>1. t[i - m] = t[j - m]
        BY <1>1, <2>5
      <3>2. i - m = j - m
        BY <1>5, <2>5, <3>1 DEF NoRepeat, n
      <3>3. QED
        BY <2>5, <3>2
    <2>6. QED
      BY <1>2, <2>2, <2>3, <2>4, <2>5
  <1>6. QED
    BY <1>1, <1>3, <1>4, <1>5 DEF u

\* The three lists one after the other.
LEMMA JoinPlaces ==
  ASSUME NEW a \in Seq(Buffers), NEW e \in Seq(Buffers), NEW r \in Seq(Buffers), Places(a, e, r)
  PROVE  /\ a \o e \o r \in Seq(Buffers) /\ NoRepeat(a \o e \o r)
         /\ \A b : On(a \o e \o r, b) <=> Somewhere(a, e, r, b)
  <1> DEFINE s == a \o e
  <1>1. NoRepeat(a) /\ NoRepeat(e) /\ NoRepeat(r) /\ Apart(a, e) /\ Apart(a, r) /\ Apart(e, r)
    BY DEF Places
  <1>2. s \in Seq(Buffers) /\ NoRepeat(s) /\ \A b : On(s, b) <=> On(a, b) \/ On(e, b)
    BY <1>1, JoinTwo
  <1> HIDE DEF s
  <1>3. Apart(s, r)
    BY <1>1, <1>2, Zenon DEF Apart
  <1>4. /\ s \o r \in Seq(Buffers) /\ NoRepeat(s \o r)
        /\ \A b : On(s \o r, b) <=> On(s, b) \/ On(r, b)
    BY <1>1, <1>2, <1>3, JoinTwo
  <1>5. \A b : On(s \o r, b) <=> Somewhere(a, e, r, b)
    BY <1>2, <1>4, Zenon DEF Somewhere
  <1>6. QED
    BY <1>4, <1>5 DEF s

\* A list without repetition has as many members as places.
LEMMA DistinctList ==
  ASSUME NEW s \in Seq(Buffers), NoRepeat(s)
  PROVE  Distinct(s) /\ Elements(s) \subseteq Buffers /\ \A b : b \in Elements(s) <=> On(s, b)
  <1>1. Len(s) \in Nat /\ s \in [1 .. Len(s) -> Buffers]
    BY LenProperties
  <1>2. Elements(s) \subseteq Buffers /\ \A b : b \in Elements(s) <=> On(s, b)
    BY <1>1 DEF Elements, On
  <1>3. s \in [1 .. Len(s) -> Elements(s)]
    <2>1. \A i \in 1 .. Len(s) : s[i] \in Elements(s)
      BY DEF Elements
    <2>2. QED
      BY <1>1, <2>1
  <1>4. s \in Bijection(1 .. Len(s), Elements(s))
    <2>1. s \in Injection(1 .. Len(s), Elements(s))
      BY <1>1, <1>3 DEF NoRepeat, Injection, IsInjective
    <2>2. s \in Surjection(1 .. Len(s), Elements(s))
      BY <1>1, <1>3 DEF Elements, Surjection
    <2>3. QED
      BY <2>1, <2>2 DEF Bijection
  <1>5. Cardinality(Elements(s)) = Len(s)
    BY <1>1, <1>4, FS_CountingElements DEF ExistsBijection
  <1>6. QED
    BY <1>2, <1>5 DEF Distinct

\* Every buffer of streaming output is in one place: with the application, on
\* the empties, on the refills or, until a stream is over before its transfers
\* are, with the DMAC; while the stream runs none is lost between the queues.
THEOREM StreamOnePlace == OneClient => (Spec => []OnePlace)
  <1>1. StreamInv => OnePlace
    <2> SUFFICES ASSUME StreamInv, NEW c \in bq_clients
                 PROVE  /\ Distinct(Outside(c))
                        /\ ~left => \A i \in 0 .. 1 :
                             \A t \in Elements(chan[i]) : t.buf \notin Elements(Outside(c))
                        /\ (Running \/ wpc \in {"none", "created", "prime"}) /\ ~worker_done[c] =>
                             Elements(Outside(c)) \cup (IF Running THEN {ab[0], ab[1]} ELSE {}) = Buffers
      BY Zenon DEF OnePlace
    <2> DEFINE a == app[c]
               e == BQ_items(empties[c])
               r == BQ_items(refills)
               s == Outside(c)
    <2>1. StreamTypeOK /\ c \in Clients
      BY DEF StreamInv, StreamTypeOK, CallTypes
    <2>2. Share(c, a, e, r)
      BY DEF StreamInv, PlacesInv
    <2>3. a \in Seq(Buffers) /\ e \in Seq(Buffers) /\ r \in Seq(Buffers)
      BY <2>1, ListTypes
    <2>4. s = a \o e \o r
      BY DEF Outside
    <2> HIDE DEF a, e, r, s
    <2>5. s \in Seq(Buffers) /\ NoRepeat(s) /\ \A b : On(s, b) <=> Somewhere(a, e, r, b)
      BY <2>2, <2>3, <2>4, JoinPlaces DEF Share
    <2>6. Distinct(s) /\ Elements(s) \subseteq Buffers /\ \A b : b \in Elements(s) <=> Somewhere(a, e, r, b)
      BY <2>5, DistinctList
    <2>7. ASSUME ~left, NEW i \in 0 .. 1, NEW t \in Elements(chan[i]) PROVE t.buf \notin Elements(s)
      <3>1. Playing /\ ~Idle(i)
        <4>1. Elements(<< >>) = {}
          BY DEF Elements
        <4>2. ~Idle(i)
          BY <2>7, <4>1 DEF Idle
        <4>3. QED
          BY <2>7, <4>2, Zenon DEF StreamInv, RestInv
      <3>2. chan[i] \in Seq(Transfers) /\ Len(chan[i]) = 1
        BY <2>1, <2>7, <3>1, PendingParts, ChannelTypes DEF StreamInv
      <3>3. t = Head(chan[i])
        BY <2>7, <3>2 DEF Elements
      <3>4. ~Somewhere(a, e, r, Head(chan[i]).buf)
        BY <2>2, <2>7, <3>1, Zenon DEF Share, Held
      <3>5. QED
        BY <2>6, <3>3, <3>4, Zenon
    <2>8. ASSUME Running, ~worker_done[c]
          PROVE  Elements(s) \cup (IF Running THEN {ab[0], ab[1]} ELSE {}) = Buffers
      <3>1. \A b \in Buffers : Somewhere(a, e, r, b) \/ b \in {ab[0], ab[1]}
        BY <2>2, <2>8, Zenon DEF Share
      <3>2. ab[0] \in Buffers /\ ab[1] \in Buffers
        BY <2>1 DEF StreamTypeOK, WorkerTypes
      <3> DEFINE E == Elements(s)
      <3>3. E \subseteq Buffers /\ \A b : b \in E <=> Somewhere(a, e, r, b)
        BY <2>6
      <3> HIDE DEF E
      <3>4. E \cup {ab[0], ab[1]} = Buffers
        BY <3>1, <3>2, <3>3
      <3>5. QED
        BY <2>8, <3>4 DEF E
    <2>9. ASSUME ~Running, wpc \in {"none", "created", "prime"}
          PROVE  Elements(s) \cup (IF Running THEN {ab[0], ab[1]} ELSE {}) = Buffers
      <3>1. wpc = "none" => ~f_pos[c]
        BY <2>1 DEF StreamInv, CallsInv, Calls
      <3>2. Fresh(c)
        BY <2>9, <3>1 DEF Fresh
      <3>3. \A b \in Buffers : Somewhere(a, e, r, b)
        BY <2>2, <3>2, Zenon DEF Share
      <3> DEFINE E == Elements(s)
      <3>4. E \subseteq Buffers /\ \A b : b \in E <=> Somewhere(a, e, r, b)
        BY <2>6
      <3> HIDE DEF E
      <3>5. E = Buffers
        BY <3>3, <3>4
      <3>6. QED
        BY <2>9, <3>5 DEF E
    <2>10. QED
      BY <2>6, <2>7, <2>8, <2>9 DEF s
  <1>2. QED
    BY <1>1, StreamInvariant, PTL

\* What PlayedInOrder says of a transfer.
TransferInOrder ==
  \A i \in 0 .. 1 : Transfer(i) /\ ~left =>
    LET t == Head(chan[i])
    IN \/ nplayed < Len(wseq) /\ t.buf = wseq[nplayed + 1]
       \/ ~t.set /\ nplayed > 0 /\ nplayed <= Len(wseq) /\ t.buf = wseq[nplayed]

LEMMA TransfersInOrder ==
  ASSUME StreamInv
  PROVE  TransferInOrder
  <1> SUFFICES ASSUME NEW i \in 0 .. 1, Transfer(i), ~left
               PROVE  LET t == Head(chan[i])
                      IN  \/ nplayed < Len(wseq) /\ t.buf = wseq[nplayed + 1]
                          \/ ~t.set /\ nplayed > 0 /\ nplayed <= Len(wseq) /\ t.buf = wseq[nplayed]
    BY DEF TransferInOrder
  <1> DEFINE t == Head(chan[i])
  <1>1. /\ StreamTypeOK /\ Playing /\ ~Idle(i)
        /\ i = ic \/ (i = other /\ Idle(ic))
    BY TransferTurn DEF StreamInv
  <1>2. PICK c \in Clients : c \in bq_clients
    <2>1. pdesc \in Clients
      BY <1>1 DEF StreamTypeOK, WorkerTypes
    <2>2. pdesc \in bq_clients
      BY <1>1, <2>1 DEF StreamInv, CallsInv, Calls, Alive, Playing
    <2>3. QED
      BY <2>1, <2>2
  <1> DEFINE r == BQ_items(refills)
  <1>3. Order(c, r, wseq)
    BY <1>2 DEF StreamInv, OrderInv
  <1>4. nplayed \in Nat /\ Len(wseq) \in Nat
    BY <1>1, OrderTypes
  <1> HIDE DEF r
  <1>5. CASE i = ic
    <2>1. ~Idle(ic) => nplayed + 1 <= Len(wseq) /\ Head(chan[ic]).buf = wseq[nplayed + 1]
      BY <1>1, <1>3, Zenon DEF Order
    <2>2. nplayed + 1 <= Len(wseq) /\ t.buf = wseq[nplayed + 1]
      BY <1>5, <2>1 DEF Transfer, Idle
    <2>3. QED
      BY <1>4, <2>2
  <1>6. CASE i # ic
    <2>1. i = other /\ Idle(ic) /\ ~Idle(other)
      BY <1>1, <1>6 DEF Transfer, Idle
    <2>2. Pending = 1
      BY <1>1, <2>1, PendingParts DEF StreamInv
    <2>3. \/ nplayed + Pending <= Len(wseq) /\ t.buf = wseq[nplayed + Pending]
          \/ /\ ~t.set /\ (nplayed + Pending) - 1 \in 1 .. Len(wseq)
             /\ t.buf = wseq[(nplayed + Pending) - 1]
      BY <1>1, <1>3, <2>1, Zenon DEF Order
    <2> HIDE DEF t
    <2>4. QED
      BY <1>4, <2>2, <2>3 DEF t
  <1>7. QED
    BY <1>5, <1>6

\* The buffers are played in the order in which their numbers were written; only
\* the last transfer of a stream, which sets no event, can be a repetition.  It
\* holds with lost callback counts, until a stream is over before its transfers are.
THEOREM StreamPlayedInOrder == OneClient => (Spec => PlayedInOrder)
  <1> SUFFICES ASSUME OneClient PROVE Spec => PlayedInOrder
    OBVIOUS
  <1>1. StreamInv /\ [Next]_vars => [TransferInOrder]_vars
    BY TransfersInOrder
  <1>2. Spec => [][TransferInOrder]_vars
    BY <1>1, StreamInvariant, PTL DEF Spec
  <1>3. QED
    BY <1>2 DEF PlayedInOrder, TransferInOrder
=============================================================================
