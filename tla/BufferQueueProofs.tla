-------------------------- MODULE BufferQueueProofs --------------------------
(***************************************************************************)
(* Proofs about what is kept in circular buffers, for buffers of any size. *)
(*                                                                         *)
(* BufferQueue and Hb0, for any number of clients, of host buffers and of  *)
(* blocks: the queue that has no lock between acq400_bq_notify() and its   *)
(* reader delivers every block once and in order until it overruns, newer  *)
(* blocks after that, and never names a host buffer twice; and the pair of *)
(* hb0, published without a lock too, is consecutive, rate limited and     *)
(* newer from read to read.                                                *)
(*                                                                         *)
(* SewFifo and AwgSegments, for any writes: the words are embedded and the *)
(* segments played in the order in which they were written.                *)
(***************************************************************************)
EXTENDS MCBufferQueue, SequenceTheorems, TLAPS

----------------------------------------------------------------------------
(* The inductive invariant.                                                *)

\* struct BQ.
BUFS == UNION {[0 .. len - 1 -> Nat] : len \in Nat}
QUEUE == [head : Nat, tail : Nat, buf : BUFS, bq_len : Nat]

QueueOK(q) ==
  /\ q \in QUEUE
  /\ q.bq_len >= 2 /\ q.head < q.bq_len /\ q.tail < q.bq_len
  /\ q.buf \in [0 .. q.bq_len - 1 -> Nat]

\* Entry i of the queue, from 0 at the tail on.
Cell(q, i) == q.buf[(q.tail + i) % q.bq_len]

\* The queue holds the blocks that end with block m.
Window(q, m) == \A i \in 0 .. BQ_count(q) - 1 : Cell(q, i) = m - BQ_count(q) + 1 + i

BqTypeOK ==
  /\ n \in Nat
  /\ npc \in {"idle", "test", "tail", "head", "put", "incr"}
  /\ todo \in Seq(BqClients) /\ bq_clients \in Seq(BqClients)
  /\ DOMAIN bq = BqClients /\ bq = [c \in BqClients |-> bq[c]]
  /\ \A c \in BqClients : QueueOK(bq[c])
  /\ pc \in [BqClients -> {"closed", "idle", "wait", "asleep", "test", "load", "store", "leaked"}]
  /\ cursor \in [BqClients -> Nat] /\ item \in [BqClients -> Nat]
  /\ put \in [BqClients -> Nat] /\ last \in [BqClients -> Nat]
  /\ reset \in [BqClients -> BOOLEAN] /\ torn \in [BqClients -> BOOLEAN]

NoRepeat(s) == \A i, j \in 1 .. Len(s) : s[i] = s[j] => i = j

\* The clients that are notified, and those that are still to be.
ClientsInv ==
  /\ NoRepeat(bq_clients) /\ NoRepeat(todo)
  /\ npc = "idle" => todo = << >>
  /\ npc \in {"tail", "head", "put", "incr"} => todo # << >>
  /\ \A c \in BqClients : pc[c] = "closed" =>
       /\ c \notin Members(bq_clients) /\ c \notin Members(todo)
       /\ put[c] = last[c] /\ ~reset[c] /\ ~torn[c] /\ BQ_count(bq[c]) = 0
  /\ \A c \in Members(todo) : put[c] + 1 = n
  /\ \A c \in Members(bq_clients) : c \notin Members(todo) => put[c] = n

\* Where the notifier is in the queue of client c.
Stage(c) == IF npc \in {"tail", "head", "put", "incr"} /\ Head(todo) = c THEN npc ELSE "none"

\* What is left of the number of buffers when the notifier has added one.
Bound == IF nbuffers <= 2 THEN 1 ELSE nbuffers - 1

\* The queue of a client that was not surprised by a reset in BQ_get_st(): the
\* last blocks, the next of them newer than what the client was given; where
\* the reader and the notifier are in it, and what each may count on.
ClientInv(c) ==
  /\ last[c] <= put[c]
  /\ Stage(c) # "head" =>
       /\ Window(bq[c], put[c])
       /\ last[c] + BQ_count(bq[c]) <= put[c]
       /\ ~reset[c] => last[c] + BQ_count(bq[c]) = put[c]
       /\ BQ_count(bq[c]) <= Bound
  /\ Stage(c) = "head" => bq[c].tail = 0 /\ ~InGet(c)
  /\ InGet(c) => BQ_count(bq[c]) >= 1
  /\ pc[c] = "load" => cursor[c] = bq[c].tail
  /\ pc[c] = "store" => item[c] = bq[c].buf[bq[c].tail]
  /\ Stage(c) \in {"put", "incr"} => BQ_space(bq[c]) >= 1 /\ BQ_count(bq[c]) + 1 <= Bound
  /\ Stage(c) = "incr" => bq[c].buf[bq[c].head] = n

\* The cell the reader is about to read is one of its queue, torn or not.
CursorInv == \A c \in BqClients : pc[c] = "load" => cursor[c] < bq[c].bq_len

\* A client that was surprised knows, or will, that its queue was reset.
ResetInv == \A c \in BqClients : torn[c] \/ Stage(c) = "head" => reset[c]

BqInv ==
  BqTypeOK /\ ClientsInv /\ CursorInv /\ ResetInv /\ \A c \in BqClients : ~torn[c] => ClientInv(c)

----------------------------------------------------------------------------
(* The ring of cells.                                                      *)

\* The remainders of the cursor arithmetic.
LEMMA RingArithmetic ==
  ASSUME NEW L \in Nat, L >= 2, NEW x \in 0 .. L - 1, NEW y \in 0 .. L - 1
  PROVE  /\ (x + 1) % L = IF x + 1 = L THEN 0 ELSE x + 1
         /\ (x - y) % L = IF x >= y THEN x - y ELSE x - y + L
         /\ (x + y) % L = IF x + y < L THEN x + y ELSE x + y - L
         /\ (x - (y + 1)) % L = L - 1 - ((y - x) % L)
  <1>1. (x + 1) % L = IF x + 1 = L THEN 0 ELSE x + 1
    OBVIOUS
  <1>2. (x - y) % L = IF x >= y THEN x - y ELSE x - y + L
    OBVIOUS
  <1>3. (x + y) % L = IF x + y < L THEN x + y ELSE x + y - L
    OBVIOUS
  <1>4. (y - x) % L = IF y >= x THEN y - x ELSE y - x + L
    OBVIOUS
  <1>5. (x - (y + 1)) % L = IF x >= y + 1 THEN x - (y + 1) ELSE x - (y + 1) + L
    OBVIOUS
  <1>6. QED
    BY <1>1, <1>2, <1>3, <1>4, <1>5

\* Two numbers that are less than m apart differ modulo m.
LEMMA NearDiffer ==
  ASSUME NEW m \in Nat \ {0}, NEW a \in Nat, NEW b \in Nat, a < b, b - a < m
  PROVE  a % m # b % m
  <1> SUFFICES ASSUME a % m = b % m PROVE FALSE
    OBVIOUS
  <1>1. a = m * (a \div m) + (a % m) /\ a \div m \in Int /\ a % m \in Int
    OBVIOUS
  <1>2. b = m * (b \div m) + (b % m) /\ b \div m \in Int
    OBVIOUS
  <1> DEFINE k == (b \div m) - (a \div m)
  <1>3. k \in Int /\ b - a = m * k
    BY <1>1, <1>2
  <1> HIDE DEF k
  <1>4. CASE k <= 0
    <2>1. m * k <= 0
      BY <1>3, <1>4
    <2>2. QED
      BY <1>3, <2>1
  <1>5. CASE k >= 1
    <2>1. m * k >= m
      BY <1>3, <1>5
    <2>2. QED
      BY <1>3, <2>1
  <1>6. QED
    BY <1>3, <1>4, <1>5

\* The fields of a queue, as numbers.
LEMMA QueueFields ==
  ASSUME NEW q, QueueOK(q)
  PROVE  /\ q.bq_len \in Nat /\ q.bq_len >= 2
         /\ q.head \in 0 .. q.bq_len - 1 /\ q.tail \in 0 .. q.bq_len - 1
  BY DEF QueueOK, QUEUE

LEMMA QueueCounts ==
  ASSUME NEW q, QueueOK(q)
  PROVE  /\ BQ_count(q) \in 0 .. q.bq_len - 1
         /\ BQ_count(q) = IF q.head >= q.tail THEN q.head - q.tail ELSE q.head - q.tail + q.bq_len
         /\ BQ_space(q) = q.bq_len - 1 - BQ_count(q)
         /\ BQ_count(q) = 0 <=> q.head = q.tail
         /\ \A i \in 0 .. q.bq_len - 1 :
              (q.tail + i) % q.bq_len = IF q.tail + i < q.bq_len THEN q.tail + i ELSE q.tail + i - q.bq_len
  <1> DEFINE L == q.bq_len
             h == q.head
             t == q.tail
  <1>1. L \in Nat /\ L >= 2 /\ h \in 0 .. L - 1 /\ t \in 0 .. L - 1
    BY QueueFields
  <1>2. BQ_count(q) = (h - t) % L /\ BQ_space(q) = (t - (h + 1)) % L
    BY DEF BQ_count, BQ_space
  <1> HIDE DEF L, h, t
  <1>3. (h - t) % L = (IF h >= t THEN h - t ELSE h - t + L) /\ (t - (h + 1)) % L = L - 1 - ((h - t) % L)
    BY <1>1, RingArithmetic
  <1>4. \A i \in 0 .. L - 1 : (t + i) % L = IF t + i < L THEN t + i ELSE t + i - L
    BY <1>1, RingArithmetic
  <1>5. BQ_count(q) = (IF h >= t THEN h - t ELSE h - t + L) /\ BQ_space(q) = L - 1 - BQ_count(q)
    BY <1>2, <1>3
  <1>6. BQ_count(q) \in 0 .. L - 1 /\ (BQ_count(q) = 0 <=> h = t)
    BY <1>1, <1>5
  <1>7. QED
    BY <1>4, <1>5, <1>6 DEF L, h, t

\* The cell at the head holds no entry, unless the queue is full.
LEMMA HeadIsFree ==
  ASSUME NEW q, QueueOK(q), NEW i \in 0 .. BQ_count(q) - 1
  PROVE  /\ (q.tail + i) % q.bq_len \in 0 .. q.bq_len - 1
         /\ (q.tail + i) % q.bq_len # q.head
  <1>1. i \in 0 .. q.bq_len - 1
    BY QueueCounts, QueueFields
  <1>2. QED
    BY <1>1, QueueCounts, QueueFields

----------------------------------------------------------------------------
(* The accesses to a queue.                                                *)

\* A field of the record is replaced.
LEMMA WithHead ==
  ASSUME NEW q, QueueOK(q), NEW x \in Nat, x < q.bq_len
  PROVE  LET r == [q EXCEPT !.head = x]
         IN  QueueOK(r) /\ r.head = x /\ r.tail = q.tail /\ r.buf = q.buf /\ r.bq_len = q.bq_len
  BY DEF QueueOK, QUEUE

LEMMA WithTail ==
  ASSUME NEW q, QueueOK(q), NEW x \in Nat, x < q.bq_len
  PROVE  LET r == [q EXCEPT !.tail = x]
         IN  QueueOK(r) /\ r.head = q.head /\ r.tail = x /\ r.buf = q.buf /\ r.bq_len = q.bq_len
  BY DEF QueueOK, QUEUE

\* BQ_init(): an empty queue.
LEMMA InitQueue ==
  ASSUME NEW len \in Nat, len >= 2, NEW m
  PROVE  QueueOK(BQ_init(len)) /\ BQ_count(BQ_init(len)) = 0 /\ Window(BQ_init(len), m)
  <1> DEFINE q == BQ_init(len)
             b == [i \in 0 .. len - 1 |-> 0]
  <1>1. b \in [0 .. len - 1 -> Nat]
    OBVIOUS
  <1>2. b \in BUFS
    BY <1>1 DEF BUFS
  <1>3. q.head = 0 /\ q.tail = 0 /\ q.buf = b /\ q.bq_len = len
    BY DEF BQ_init
  <1>4. q \in QUEUE
    <2> HIDE DEF b
    <2>1. q = [head |-> 0, tail |-> 0, buf |-> b, bq_len |-> len]
      BY DEF BQ_init, b
    <2>2. QED
      BY <1>2, <2>1 DEF QUEUE
  <1> HIDE DEF q, b
  <1>5. QueueOK(q)
    BY <1>1, <1>3, <1>4 DEF QueueOK
  <1>6. BQ_count(q) = 0
    BY <1>3, <1>5, QueueCounts
  <1>7. Window(q, m)
    BY <1>6 DEF Window
  <1>8. QED
    BY <1>5, <1>6, <1>7 DEF q

\* The first half of BQ_put(): if there is space, what waits stays.
LEMMA StoreFacts ==
  ASSUME NEW q, QueueOK(q), NEW x \in Nat
  PROVE  LET r == BQ_store(q, x)
         IN  /\ QueueOK(r) /\ r.head = q.head /\ r.tail = q.tail /\ r.bq_len = q.bq_len
             /\ r.buf[r.head] = x
             /\ BQ_count(r) = BQ_count(q) /\ BQ_space(r) = BQ_space(q)
             /\ \A i \in 0 .. BQ_count(q) - 1 : Cell(r, i) = Cell(q, i)
             /\ \A m : Window(q, m) => Window(r, m)
             /\ BQ_count(q) >= 1 => r.buf[r.tail] = q.buf[q.tail]
  <1> DEFINE b == [q.buf EXCEPT ![q.head] = x]
             r == [q EXCEPT !.buf = b]
  <1>1. /\ q.bq_len \in Nat /\ q.bq_len >= 2
        /\ q.head \in 0 .. q.bq_len - 1 /\ q.tail \in 0 .. q.bq_len - 1
    BY QueueFields
  <1>2. q \in QUEUE /\ q.buf \in [0 .. q.bq_len - 1 -> Nat]
    BY DEF QueueOK
  <1>3. /\ b \in [0 .. q.bq_len - 1 -> Nat] /\ b[q.head] = x
        /\ \A i \in 0 .. q.bq_len - 1 : i # q.head => b[i] = q.buf[i]
    BY <1>1, <1>2
  <1> HIDE DEF b
  <1>4. b \in BUFS
    BY <1>1, <1>3 DEF BUFS
  <1>5. r \in QUEUE /\ r.head = q.head /\ r.tail = q.tail /\ r.bq_len = q.bq_len /\ r.buf = b
    BY <1>2, <1>4 DEF QUEUE
  <1>6. r = BQ_store(q, x)
    BY DEF BQ_store, b
  <1> HIDE DEF r
  <1>7. QueueOK(r)
    BY <1>3, <1>5 DEF QueueOK
  <1>8. BQ_count(r) = BQ_count(q) /\ BQ_space(r) = BQ_space(q)
    BY <1>5 DEF BQ_count, BQ_space
  <1>9. \A i \in 0 .. BQ_count(q) - 1 : Cell(r, i) = Cell(q, i)
    BY <1>3, <1>5, HeadIsFree DEF Cell
  <1>10. \A m : Window(q, m) => Window(r, m)
    BY <1>8, <1>9 DEF Window
  <1>11. BQ_count(q) >= 1 => q.tail # q.head
    BY QueueCounts
  <1>12. BQ_count(q) >= 1 => r.buf[r.tail] = q.buf[q.tail]
    BY <1>1, <1>3, <1>5, <1>11
  <1>13. QED
    BY <1>3, <1>5, <1>6, <1>7, <1>8, <1>9, <1>10, <1>12

\* The second half: the item that was stored becomes an entry.
LEMMA AdvanceFacts ==
  ASSUME NEW q, QueueOK(q)
  PROVE  LET r == BQ_advance(q)
         IN  /\ QueueOK(r) /\ r.tail = q.tail /\ r.buf = q.buf /\ r.bq_len = q.bq_len
             /\ BQ_space(q) >= 1 =>
                  /\ BQ_count(r) = BQ_count(q) + 1
                  /\ \A i \in 0 .. BQ_count(q) - 1 : Cell(r, i) = Cell(q, i)
                  /\ Cell(r, BQ_count(q)) = q.buf[q.head]
                  /\ \A m \in Nat : Window(q, m) /\ q.buf[q.head] = m + 1 => Window(r, m + 1)
  <1> DEFINE h == BQ_incr(q, q.head)
             r == [q EXCEPT !.head = h]
  <1>1. /\ q.bq_len \in Nat /\ q.bq_len >= 2
        /\ q.head \in 0 .. q.bq_len - 1 /\ q.tail \in 0 .. q.bq_len - 1
    BY QueueFields
  <1>2. h = IF q.head + 1 = q.bq_len THEN 0 ELSE q.head + 1
    BY <1>1, RingArithmetic DEF BQ_incr
  <1>3. h \in Nat /\ h < q.bq_len
    BY <1>1, <1>2
  <1> HIDE DEF h
  <1>4. QueueOK(r) /\ r.head = h /\ r.tail = q.tail /\ r.buf = q.buf /\ r.bq_len = q.bq_len
    BY <1>3, WithHead
  <1>5. r = BQ_advance(q)
    BY DEF BQ_advance, h
  <1> HIDE DEF r
  <1>6. ASSUME BQ_space(q) >= 1 PROVE BQ_count(r) = BQ_count(q) + 1
    <2>1. BQ_count(q) <= q.bq_len - 2
      BY <1>1, <1>6, QueueCounts
    <2>2. BQ_count(q) = IF q.head >= q.tail THEN q.head - q.tail ELSE q.head - q.tail + q.bq_len
      BY QueueCounts
    <2>3. BQ_count(r) = IF h >= q.tail THEN h - q.tail ELSE h - q.tail + q.bq_len
      BY <1>4, QueueCounts
    <2>4. QED
      BY <1>1, <1>2, <2>1, <2>2, <2>3
  <1>7. ASSUME BQ_space(q) >= 1 PROVE Cell(r, BQ_count(q)) = q.buf[q.head]
    <2>1. BQ_count(q) \in 0 .. q.bq_len - 1
      BY <1>1, QueueCounts
    <2>2. BQ_count(q) = IF q.head >= q.tail THEN q.head - q.tail ELSE q.head - q.tail + q.bq_len
      BY QueueCounts
    <2>3. (q.tail + BQ_count(q)) % q.bq_len =
            IF q.tail + BQ_count(q) < q.bq_len THEN q.tail + BQ_count(q) ELSE q.tail + BQ_count(q) - q.bq_len
      BY <2>1, QueueCounts
    <2>4. (q.tail + BQ_count(q)) % q.bq_len = q.head
      BY <1>1, <2>2, <2>3
    <2>5. QED
      BY <1>4, <2>4 DEF Cell
  <1>8. \A i \in 0 .. BQ_count(q) - 1 : Cell(r, i) = Cell(q, i)
    BY <1>4 DEF Cell
  <1>9. ASSUME BQ_space(q) >= 1, NEW m \in Nat, Window(q, m), q.buf[q.head] = m + 1
        PROVE  Window(r, m + 1)
    <2>1. BQ_count(q) \in Nat /\ BQ_count(q) < q.bq_len /\ BQ_count(r) = BQ_count(q) + 1
      BY <1>1, <1>6, <1>9, QueueCounts
    <2>2. ASSUME NEW i \in 0 .. BQ_count(r) - 1
          PROVE  Cell(r, i) = (m + 1) - BQ_count(r) + 1 + i
      <3>1. CASE i = BQ_count(q)
        BY <1>7, <1>9, <2>1, <3>1
      <3>2. CASE i \in 0 .. BQ_count(q) - 1
        BY <1>8, <1>9, <2>1, <3>2 DEF Window
      <3>3. QED
        BY <2>1, <3>1, <3>2
    <2>3. QED
      BY <2>2 DEF Window
  <1>10. QED
    BY <1>4, <1>5, <1>6, <1>7, <1>8, <1>9

\* What the reader finds at the tail, and the queue when it has taken it.
LEMMA DropFacts ==
  ASSUME NEW q, QueueOK(q)
  PROVE  LET r == BQ_drop(q)
         IN  /\ QueueOK(r) /\ r.head = q.head /\ r.buf = q.buf /\ r.bq_len = q.bq_len
             /\ BQ_count(q) >= 1 =>
                  /\ BQ_count(r) = BQ_count(q) - 1
                  /\ \A m \in Nat : Window(q, m) => /\ Window(r, m)
                                                     /\ q.buf[q.tail] = m - BQ_count(q) + 1
  <1> DEFINE t == BQ_incr(q, q.tail)
             r == [q EXCEPT !.tail = t]
  <1>1. /\ q.bq_len \in Nat /\ q.bq_len >= 2
        /\ q.head \in 0 .. q.bq_len - 1 /\ q.tail \in 0 .. q.bq_len - 1
    BY QueueFields
  <1>2. t = IF q.tail + 1 = q.bq_len THEN 0 ELSE q.tail + 1
    BY <1>1, RingArithmetic DEF BQ_incr
  <1>3. t \in Nat /\ t < q.bq_len
    BY <1>1, <1>2
  <1> HIDE DEF t
  <1>4. QueueOK(r) /\ r.head = q.head /\ r.tail = t /\ r.buf = q.buf /\ r.bq_len = q.bq_len
    BY <1>3, WithTail
  <1>5. r = BQ_drop(q)
    BY DEF BQ_drop, t
  <1> HIDE DEF r
  <1>6. ASSUME BQ_count(q) >= 1 PROVE BQ_count(r) = BQ_count(q) - 1
    <2>1. BQ_count(q) = IF q.head >= q.tail THEN q.head - q.tail ELSE q.head - q.tail + q.bq_len
      BY QueueCounts
    <2>2. BQ_count(r) = IF q.head >= t THEN q.head - t ELSE q.head - t + q.bq_len
      BY <1>4, QueueCounts
    <2>3. QED
      BY <1>1, <1>2, <1>6, <2>1, <2>2
  <1>7. ASSUME BQ_count(q) >= 1, NEW m \in Nat, Window(q, m)
        PROVE  Window(r, m) /\ q.buf[q.tail] = m - BQ_count(q) + 1
    <2>1. BQ_count(q) \in 1 .. q.bq_len - 1 /\ BQ_count(r) = BQ_count(q) - 1
      BY <1>1, <1>6, <1>7, QueueCounts
    <2>2. ASSUME NEW i \in 0 .. BQ_count(r) - 1
          PROVE  Cell(r, i) = Cell(q, i + 1)
      <3>1. i \in 0 .. q.bq_len - 1 /\ i + 1 \in 0 .. q.bq_len - 1
        BY <1>1, <2>1
      <3>2. (q.tail + (i + 1)) % q.bq_len =
              IF q.tail + (i + 1) < q.bq_len THEN q.tail + (i + 1) ELSE q.tail + (i + 1) - q.bq_len
        BY <3>1, QueueCounts
      <3>3. (t + i) % q.bq_len = IF t + i < q.bq_len THEN t + i ELSE t + i - q.bq_len
        BY <1>4, <3>1, QueueCounts
      <3>4. (t + i) % q.bq_len = (q.tail + (i + 1)) % q.bq_len
        BY <1>1, <1>2, <3>1, <3>2, <3>3
      <3>5. QED
        BY <1>4, <3>4 DEF Cell
    <2>3. Window(r, m)
      <3>1. ASSUME NEW i \in 0 .. BQ_count(r) - 1
            PROVE  Cell(r, i) = m - BQ_count(r) + 1 + i
        <4>1. i + 1 \in 0 .. BQ_count(q) - 1
          BY <2>1
        <4>2. Cell(q, i + 1) = m - BQ_count(q) + 1 + (i + 1)
          BY <1>7, <4>1 DEF Window
        <4>3. QED
          BY <2>1, <2>2, <4>2
      <3>2. QED
        BY <3>1 DEF Window
    <2>4. q.buf[q.tail] = m - BQ_count(q) + 1
      <3>1. 0 \in 0 .. BQ_count(q) - 1 /\ 0 \in 0 .. q.bq_len - 1
        BY <1>1, <2>1
      <3>2. (q.tail + 0) % q.bq_len = q.tail
        BY <1>1, <3>1, QueueCounts
      <3>3. Cell(q, 0) = m - BQ_count(q) + 1 + 0
        BY <1>7, <3>1 DEF Window
      <3>4. QED
        BY <2>1, <3>2, <3>3 DEF Cell
    <2>5. QED
      BY <2>3, <2>4
  <1>8. QED
    BY <1>4, <1>5, <1>6, <1>7

\* BQ_put(), whole.
LEMMA PutFacts ==
  ASSUME NEW q, QueueOK(q), NEW x \in Nat
  PROVE  LET r == BQ_put(q, x)
         IN  /\ QueueOK(r) /\ r.tail = q.tail /\ r.bq_len = q.bq_len
             /\ BQ_space(q) >= 1 =>
                  /\ BQ_count(r) = BQ_count(q) + 1
                  /\ BQ_space(r) = BQ_space(q) - 1
                  /\ \A i \in 0 .. BQ_count(q) - 1 : Cell(r, i) = Cell(q, i)
                  /\ Cell(r, BQ_count(q)) = x
                  /\ \A m \in Nat : Window(q, m) /\ x = m + 1 => Window(r, m + 1)
  <1> DEFINE s == BQ_store(q, x)
             r == BQ_advance(s)
  <1>1. /\ QueueOK(s) /\ s.tail = q.tail /\ s.bq_len = q.bq_len /\ s.buf[s.head] = x
        /\ BQ_count(s) = BQ_count(q) /\ BQ_space(s) = BQ_space(q)
        /\ \A i \in 0 .. BQ_count(q) - 1 : Cell(s, i) = Cell(q, i)
        /\ \A m : Window(q, m) => Window(s, m)
    BY StoreFacts
  <1>2. r = BQ_put(q, x)
    BY DEF BQ_put
  <1> HIDE DEF s
  <1>3. /\ QueueOK(r) /\ r.tail = s.tail /\ r.bq_len = s.bq_len
        /\ BQ_space(s) >= 1 =>
             /\ BQ_count(r) = BQ_count(s) + 1
             /\ \A i \in 0 .. BQ_count(s) - 1 : Cell(r, i) = Cell(s, i)
             /\ Cell(r, BQ_count(s)) = s.buf[s.head]
             /\ \A m \in Nat : Window(s, m) /\ s.buf[s.head] = m + 1 => Window(r, m + 1)
    BY <1>1, AdvanceFacts
  <1> HIDE DEF r
  <1>4. /\ BQ_space(r) = r.bq_len - 1 - BQ_count(r) /\ BQ_space(s) = s.bq_len - 1 - BQ_count(s)
        /\ r.bq_len \in Nat /\ BQ_count(s) \in Nat
    BY <1>1, <1>3, QueueCounts, QueueFields
  <1>5. BQ_space(q) >= 1 => BQ_space(r) = BQ_space(q) - 1
    BY <1>1, <1>3, <1>4
  <1>6. QED
    BY <1>1, <1>2, <1>3, <1>5

\* The consumer takes the m oldest entries.
LEMMA TakeFacts ==
  ASSUME NEW q, QueueOK(q), NEW m \in Nat
  PROVE  LET r == [q EXCEPT !.tail = (q.tail + m) % q.bq_len]
         IN  /\ QueueOK(r) /\ r.bq_len = q.bq_len
             /\ m <= BQ_count(q) =>
                  /\ BQ_count(r) = BQ_count(q) - m
                  /\ \A i \in 0 .. BQ_count(r) - 1 : Cell(r, i) = Cell(q, i + m)
  <1> DEFINE t == (q.tail + m) % q.bq_len
             r == [q EXCEPT !.tail = t]
  <1>1. /\ q.bq_len \in Nat /\ q.bq_len >= 2
        /\ q.head \in 0 .. q.bq_len - 1 /\ q.tail \in 0 .. q.bq_len - 1
    BY QueueFields
  <1>2. t \in Nat /\ t < q.bq_len
    <2>1. q.tail + m \in Nat
      BY <1>1
    <2>2. QED
      BY <1>1, <2>1
  <1>3. m <= BQ_count(q) => t = IF q.tail + m < q.bq_len THEN q.tail + m ELSE q.tail + m - q.bq_len
    <2>1. m <= BQ_count(q) => m \in 0 .. q.bq_len - 1
      BY <1>1, QueueCounts
    <2>2. QED
      BY <2>1, QueueCounts
  <1> HIDE DEF t
  <1>4. QueueOK(r) /\ r.head = q.head /\ r.tail = t /\ r.buf = q.buf /\ r.bq_len = q.bq_len
    BY <1>2, WithTail
  <1> HIDE DEF r
  <1>5. ASSUME m <= BQ_count(q) PROVE BQ_count(r) = BQ_count(q) - m
    <2>1. BQ_count(q) = IF q.head >= q.tail THEN q.head - q.tail ELSE q.head - q.tail + q.bq_len
      BY QueueCounts
    <2>2. BQ_count(r) = IF q.head >= t THEN q.head - t ELSE q.head - t + q.bq_len
      BY <1>4, QueueCounts
    <2>3. QED
      BY <1>1, <1>3, <1>5, <2>1, <2>2
  <1>6. ASSUME m <= BQ_count(q), NEW i \in 0 .. BQ_count(r) - 1
        PROVE  Cell(r, i) = Cell(q, i + m)
    <2>1. BQ_count(q) \in 0 .. q.bq_len - 1 /\ BQ_count(r) = BQ_count(q) - m
      BY <1>5, <1>6, QueueCounts
    <2>2. i \in 0 .. q.bq_len - 1 /\ i + m \in 0 .. q.bq_len - 1
      BY <1>1, <2>1
    <2>3. (q.tail + (i + m)) % q.bq_len =
            IF q.tail + (i + m) < q.bq_len THEN q.tail + (i + m) ELSE q.tail + (i + m) - q.bq_len
      BY <2>2, QueueCounts
    <2>4. (t + i) % q.bq_len = IF t + i < q.bq_len THEN t + i ELSE t + i - q.bq_len
      BY <1>4, <2>2, QueueCounts
    <2>5. (t + i) % q.bq_len = (q.tail + (i + m)) % q.bq_len
      BY <1>1, <1>3, <1>6, <2>2, <2>3, <2>4
    <2>6. QED
      BY <1>4, <2>5 DEF Cell
  <1>7. QED
    BY <1>4, <1>5, <1>6 DEF r, t

\* BQ_clear(), and a queue as it is allocated: nothing in it.
LEMMA ClearFacts ==
  ASSUME NEW q, QueueOK(q)
  PROVE  QueueOK(BQ_clear(q)) /\ BQ_count(BQ_clear(q)) = 0 /\ BQ_clear(q).bq_len = q.bq_len
  <1> DEFINE s == [q EXCEPT !.head = 0]
             r == [s EXCEPT !.tail = 0]
  <1>1. QueueOK(s) /\ s.head = 0 /\ s.bq_len = q.bq_len
    BY QueueFields, WithHead
  <1>2. r = BQ_clear(q)
    BY DEF BQ_clear
  <1> HIDE DEF s
  <1>3. QueueOK(r) /\ r.head = 0 /\ r.tail = 0 /\ r.bq_len = q.bq_len
    BY <1>1, QueueFields, WithTail
  <1> HIDE DEF r
  <1>4. BQ_count(r) = 0
    BY <1>3, QueueCounts
  <1>5. QED
    BY <1>2, <1>3, <1>4

----------------------------------------------------------------------------
(* The list of clients.                                                    *)

\* They are clients.
LEMMA MembersOf ==
  ASSUME NEW s \in Seq(BqClients)
  PROVE  Members(s) \subseteq BqClients
  <1> SUFFICES ASSUME NEW d \in Members(s)
               PROVE  d \in BqClients
    OBVIOUS
  <1>1. PICK i \in 1 .. Len(s) : d = s[i]
    BY DEF Members
  <1>2. QED
    BY <1>1

\* list_add_tail() ...
LEMMA AddClient ==
  ASSUME NEW s \in Seq(BqClients), NEW c \in BqClients, NoRepeat(s), c \notin Members(s)
  PROVE  /\ Append(s, c) \in Seq(BqClients) /\ NoRepeat(Append(s, c))
         /\ Members(Append(s, c)) = Members(s) \cup {c}
  <1> DEFINE r == Append(s, c)
  <1>1. /\ r \in Seq(BqClients) /\ Len(s) \in Nat /\ Len(r) = Len(s) + 1
        /\ \A i \in 1 .. Len(s) : r[i] = s[i]
        /\ r[Len(s) + 1] = c
    OBVIOUS
  <1> HIDE DEF r
  <1>2. \A i \in 1 .. Len(s) : s[i] # c
    BY DEF Members
  <1>3. NoRepeat(r)
    <2> SUFFICES ASSUME NEW i \in 1 .. Len(s) + 1, NEW j \in 1 .. Len(s) + 1, r[i] = r[j]
                 PROVE  i = j
      BY <1>1 DEF NoRepeat
    <2>1. CASE i \in 1 .. Len(s) /\ j \in 1 .. Len(s)
      BY <1>1, <2>1 DEF NoRepeat
    <2>2. CASE i = Len(s) + 1 \/ j = Len(s) + 1
      BY <1>1, <1>2, <2>2
    <2>3. QED
      BY <1>1, <2>1, <2>2
  <1>4. \A d : d \in Members(r) <=> d \in Members(s) \cup {c}
    <2>1. ASSUME NEW d \in Members(r) PROVE d \in Members(s) \cup {c}
      <3>1. PICK i \in 1 .. Len(s) + 1 : d = r[i]
        BY <1>1, <2>1 DEF Members
      <3>2. CASE i \in 1 .. Len(s)
        BY <1>1, <3>1, <3>2 DEF Members
      <3>3. CASE i = Len(s) + 1
        BY <1>1, <3>1, <3>3
      <3>4. QED
        BY <1>1, <3>2, <3>3
    <2>2. ASSUME NEW d \in Members(s) PROVE d \in Members(r)
      <3>1. PICK i \in 1 .. Len(s) : d = s[i]
        BY <2>2 DEF Members
      <3>2. i \in 1 .. Len(r) /\ r[i] = d
        BY <1>1, <3>1
      <3>3. QED
        BY <3>2 DEF Members
    <2>3. c \in Members(r)
      <3>1. Len(s) + 1 \in 1 .. Len(r) /\ r[Len(s) + 1] = c
        BY <1>1
      <3>2. QED
        BY <3>1 DEF Members
    <2>4. QED
      BY <2>1, <2>2, <2>3
  <1>5. Members(r) = Members(s) \cup {c}
    BY <1>4
  <1>6. QED
    BY <1>1, <1>3, <1>5 DEF r

\* ... and list_del().
LEMMA DropClient ==
  ASSUME NEW s \in Seq(BqClients), NEW c, NoRepeat(s)
  PROVE  /\ Without(s, c) \in Seq(BqClients) /\ NoRepeat(Without(s, c))
         /\ Members(Without(s, c)) = Members(s) \ {c}
  <1>1. CASE c \notin Members(s)
    BY <1>1 DEF Without
  <1>2. CASE c \in Members(s)
    <2>1. PICK k \in 1 .. Len(s) : s[k] = c
      BY <1>2 DEF Members
    <2>2. Len(s) \in Nat /\ Len(s) >= 1 /\ \A i \in 1 .. Len(s) : s[i] \in BqClients
      BY <2>1
    <2>3. \A i \in 1 .. Len(s) : s[i] = c <=> i = k
      BY <2>1 DEF NoRepeat
    <2> DEFINE r == [i \in 1 .. Len(s) - 1 |-> IF i < k THEN s[i] ELSE s[i + 1]]
    <2>4. Without(s, c) = r
      <3>1. ASSUME NEW i \in 1 .. Len(s) - 1
            PROVE  (\E j \in 1 .. i : s[j] = c) <=> ~(i < k)
        BY <2>1, <2>2, <2>3
      <3>2. QED
        BY <1>2, <3>1 DEF Without
    <2>5. \A i \in 1 .. Len(s) - 1 : r[i] = IF i < k THEN s[i] ELSE s[i + 1]
      OBVIOUS
    <2>6. r \in Seq(BqClients) /\ Len(r) = Len(s) - 1
      <3>1. \A i \in 1 .. Len(s) - 1 : (IF i < k THEN s[i] ELSE s[i + 1]) \in BqClients
        BY <2>2
      <3>2. r \in [1 .. Len(s) - 1 -> BqClients] /\ Len(s) - 1 \in Nat
        BY <2>2, <3>1
      <3> HIDE DEF r
      <3>3. QED
        BY <3>2
    <2> HIDE DEF r
    <2>7. NoRepeat(r)
      <3> SUFFICES ASSUME NEW i \in 1 .. Len(s) - 1, NEW j \in 1 .. Len(s) - 1, r[i] = r[j]
                   PROVE  i = j
        BY <2>6 DEF NoRepeat
      <3>1. \A x, y \in 1 .. Len(s) : s[x] = s[y] => x = y
        BY DEF NoRepeat
      <3>2. QED
        BY <2>1, <2>2, <2>5, <3>1
    <2>8. ASSUME NEW d \in Members(r) PROVE d \in Members(s) /\ d # c
      <3>1. PICK i \in 1 .. Len(s) - 1 : d = r[i]
        BY <2>6, <2>8 DEF Members
      <3>2. CASE i < k
        <4>1. i \in 1 .. Len(s) /\ i # k /\ d = s[i]
          BY <2>2, <2>5, <3>1, <3>2
        <4>2. QED
          BY <2>3, <4>1 DEF Members
      <3>3. CASE ~(i < k)
        <4>1. i + 1 \in 1 .. Len(s) /\ i + 1 # k /\ d = s[i + 1]
          BY <2>1, <2>2, <2>5, <3>1, <3>3
        <4>2. QED
          BY <2>3, <4>1 DEF Members
      <3>4. QED
        BY <3>2, <3>3
    <2>9. ASSUME NEW d \in Members(s), d # c PROVE d \in Members(r)
      <3>1. PICK i \in 1 .. Len(s) : d = s[i]
        BY <2>9 DEF Members
      <3>2. CASE i < k
        <4>1. i \in 1 .. Len(r) /\ r[i] = d
          BY <2>1, <2>2, <2>5, <2>6, <3>1, <3>2
        <4>2. QED
          BY <4>1 DEF Members
      <3>3. CASE ~(i < k)
        <4>1. i # k
          BY <2>1, <2>9, <3>1
        <4>2. i - 1 \in 1 .. Len(r) /\ ~(i - 1 < k) /\ r[i - 1] = s[(i - 1) + 1] /\ (i - 1) + 1 = i
          BY <2>1, <2>2, <2>5, <2>6, <3>3, <4>1
        <4>3. QED
          BY <3>1, <4>2 DEF Members
      <3>4. QED
        BY <3>2, <3>3
    <2>10. Members(r) = Members(s) \ {c}
      BY <2>8, <2>9
    <2>11. QED
      BY <2>4, <2>6, <2>7, <2>10
  <1>3. QED
    BY <1>1, <1>2

\* The notifier goes on to the next client.
LEMMA NextClient ==
  ASSUME NEW s \in Seq(BqClients), s # << >>, NoRepeat(s)
  PROVE  /\ Tail(s) \in Seq(BqClients) /\ NoRepeat(Tail(s))
         /\ Head(s) \in BqClients /\ Head(s) \in Members(s)
         /\ Members(Tail(s)) = Members(s) \ {Head(s)}
  <1> DEFINE r == Tail(s)
  <1>1. /\ r \in Seq(BqClients) /\ Len(s) \in Nat /\ Len(s) >= 1 /\ Len(r) = Len(s) - 1
        /\ \A i \in 1 .. Len(s) - 1 : r[i] = s[i + 1]
        /\ Head(s) = s[1] /\ Head(s) \in BqClients
    OBVIOUS
  <1> HIDE DEF r
  <1>2. \A i, j \in 1 .. Len(s) : s[i] = s[j] => i = j
    BY DEF NoRepeat
  <1>3. NoRepeat(r)
    BY <1>1, <1>2 DEF NoRepeat
  <1>4. Head(s) \in Members(s)
    BY <1>1 DEF Members
  <1>5. ASSUME NEW d \in Members(r) PROVE d \in Members(s) /\ d # Head(s)
    <2>1. PICK i \in 1 .. Len(s) - 1 : d = s[i + 1]
      BY <1>1, <1>5 DEF Members
    <2>2. i + 1 \in 1 .. Len(s) /\ i + 1 # 1 /\ 1 \in 1 .. Len(s)
      BY <1>1
    <2>3. QED
      BY <1>1, <1>2, <2>1, <2>2 DEF Members
  <1>6. ASSUME NEW d \in Members(s), d # Head(s) PROVE d \in Members(r)
    <2>1. PICK i \in 1 .. Len(s) : d = s[i]
      BY <1>6 DEF Members
    <2>2. i - 1 \in 1 .. Len(r) /\ r[i - 1] = d
      BY <1>1, <1>6, <2>1
    <2>3. QED
      BY <2>2 DEF Members
  <1>7. Members(r) = Members(s) \ {Head(s)}
    BY <1>5, <1>6
  <1>8. QED
    BY <1>1, <1>3, <1>4, <1>7 DEF r

----------------------------------------------------------------------------
(* The steps.                                                              *)

LEMMA Lengths == \A len \in Backlogs \cup {BQ_MIN_BACKLOG} : len \in Nat /\ len >= 2
  BY BufferQueueAssumption DEF Backlogs, PowersOfTwo

\* The queue of one client changes.
LEMMA QueueUpdate ==
  ASSUME BqTypeOK, NEW x \in BqClients, NEW v, QueueOK(v), bq' = [bq EXCEPT ![x] = v]
  PROVE  /\ DOMAIN bq' = BqClients /\ bq' = [c \in BqClients |-> bq'[c]]
         /\ \A c \in BqClients : QueueOK(bq'[c])
         /\ bq'[x] = v /\ \A d \in BqClients : d # x => bq'[d] = bq[d]
  <1>1. DOMAIN bq = BqClients /\ bq = [c \in BqClients |-> bq[c]] /\ \A c \in BqClients : QueueOK(bq[c])
    BY DEF BqTypeOK
  <1>2. bq'[x] = v /\ \A d \in BqClients : d # x => bq'[d] = bq[d]
    BY <1>1
  <1>3. DOMAIN bq' = BqClients /\ bq' = [c \in BqClients |-> bq'[c]]
    BY <1>1
  <1>4. \A c \in BqClients : QueueOK(bq'[c])
    <2> TAKE c \in BqClients
    <2>1. CASE c = x
      BY <1>2, <2>1
    <2>2. CASE c # x
      <3>1. bq'[c] = bq[c]
        BY <1>2, <2>2
      <3>2. QED
        BY <1>1, <3>1
    <2>3. QED
      BY <2>1, <2>2
  <1>5. QED
    BY <1>2, <1>3, <1>4

\* The client whose queue the notifier is in.
LEMMA Notified ==
  ASSUME BqTypeOK, ClientsInv, todo # << >>
  PROVE  /\ Head(todo) \in BqClients /\ Head(todo) \in Members(todo)
         /\ put[Head(todo)] + 1 = n /\ pc[Head(todo)] # "closed"
         /\ QueueOK(bq[Head(todo)])
  <1>1. Head(todo) \in BqClients /\ Head(todo) \in Members(todo)
    BY NextClient DEF BqTypeOK, ClientsInv
  <1>2. QED
    BY <1>1 DEF ClientsInv, BqTypeOK

\* What a step does to the queues: nothing, or one access to one of them.
LEMMA QueueStep ==
  ASSUME BqTypeOK, ClientsInv, [Next]_vars
  PROVE  \/ UNCHANGED bq
         \/ \E x \in BqClients : \E v : QueueOK(v) /\ bq' = [bq EXCEPT ![x] = v]
  <1>1. CASE Notify \/ NotifyTest \/ NotifyEnd \/ UNCHANGED vars
    BY <1>1 DEF Notify, NotifyTest, NotifyEnd, vars
  <1>2. CASE NotifyResetTail \/ NotifyResetHead \/ NotifyPut \/ NotifyIncr
    <2> DEFINE h == Head(todo)
               q == bq[h]
    <2>1. /\ \/ bq' = [bq EXCEPT ![h] = [q EXCEPT !.tail = 0]]
             \/ bq' = [bq EXCEPT ![h] = [q EXCEPT !.head = 0]]
             \/ bq' = [bq EXCEPT ![h] = BQ_store(q, n)]
             \/ bq' = [bq EXCEPT ![h] = BQ_advance(q)]
          /\ npc \in {"tail", "head", "put", "incr"}
      BY <1>2 DEF NotifyResetTail, NotifyResetHead, NotifyPut, NotifyIncr
    <2>2. h \in BqClients /\ QueueOK(q) /\ n \in Nat
      BY <2>1, Notified DEF ClientsInv, BqTypeOK
    <2> HIDE DEF q, h
    <2>3. 0 \in Nat /\ 0 < q.bq_len
      BY <2>2, QueueFields
    <2>4. /\ QueueOK([q EXCEPT !.tail = 0]) /\ QueueOK([q EXCEPT !.head = 0])
          /\ QueueOK(BQ_store(q, n)) /\ QueueOK(BQ_advance(q))
      BY <2>2, <2>3, WithTail, WithHead, StoreFacts, AdvanceFacts
    <2>5. QED
      BY <2>1, <2>2, <2>4
  <1>3. ASSUME NEW c \in BqClients,
               (\E len \in Backlogs : Open(c, len) \/ OpenInterrupted(c, len)) \/ Release(c)
        PROVE  \E x \in BqClients : \E v : QueueOK(v) /\ bq' = [bq EXCEPT ![x] = v]
    <2>1. PICK len \in Backlogs \cup {BQ_MIN_BACKLOG} : bq' = [bq EXCEPT ![c] = BQ_init(len)]
      BY <1>3 DEF Open, OpenInterrupted, Release
    <2>2. QueueOK(BQ_init(len))
      BY Lengths, InitQueue
    <2>3. QED
      BY <2>1, <2>2
  <1>4. ASSUME NEW c \in BqClients, GetStore(c)
        PROVE  \E x \in BqClients : \E v : QueueOK(v) /\ bq' = [bq EXCEPT ![x] = v]
    <2>1. bq' = [bq EXCEPT ![c] = BQ_drop(bq[c])]
      BY <1>4 DEF GetStore
    <2>2. QueueOK(bq[c])
      BY DEF BqTypeOK
    <2>3. QueueOK(BQ_drop(bq[c]))
      BY <2>2, DropFacts
    <2>4. QED
      BY <2>1, <2>3
  <1>5. ASSUME NEW c \in BqClients,
               \/ Read(c) \/ Wait(c) \/ GetTest(c) \/ GetLoad(c) \/ Interrupted(c) \/ ReleaseInterrupted(c)
        PROVE  UNCHANGED bq
    BY <1>5 DEF Read, Wait, GetTest, GetLoad, Interrupted, ReleaseInterrupted
  <1>6. QED
    BY <1>1, <1>2, <1>3, <1>4, <1>5 DEF Next, Notifying, Reading

\* A step keeps the types.
LEMMA TypeStep ==
  ASSUME BqTypeOK, ClientsInv, CursorInv, [Next]_vars
  PROVE  BqTypeOK'
  <1>1. n' \in Nat /\ npc' \in {"idle", "test", "tail", "head", "put", "incr"}
    <2>1. (n' = n \/ n' = n + 1) /\ (npc' = npc \/ npc' \in {"idle", "test", "tail", "head", "put", "incr"})
      BY DEF Next, Notify, Notifying, NotifyTest, NotifyResetTail, NotifyResetHead, NotifyPut, NotifyIncr,
             NotifyEnd, Reading, Open, OpenInterrupted, Read, Wait, Interrupted, GetTest, GetLoad, GetStore,
             Release, ReleaseInterrupted, vars, notifier
    <2>2. QED
      BY <2>1 DEF BqTypeOK
  <1>2. todo' \in Seq(BqClients)
    <2>1. \/ todo' = todo \/ todo' = bq_clients
          \/ npc = "incr" /\ todo' = Tail(todo)
      BY DEF Next, Notify, Notifying, NotifyTest, NotifyResetTail, NotifyResetHead, NotifyPut, NotifyIncr,
             NotifyEnd, Reading, Open, OpenInterrupted, Read, Wait, Interrupted, GetTest, GetLoad, GetStore,
             Release, ReleaseInterrupted, vars, notifier
    <2>2. todo \in Seq(BqClients) /\ bq_clients \in Seq(BqClients) /\ NoRepeat(todo)
      BY DEF BqTypeOK, ClientsInv
    <2>3. npc = "incr" => todo # << >>
      BY DEF ClientsInv
    <2>4. QED
      BY <2>1, <2>2, <2>3, NextClient
  <1>3. bq_clients' \in Seq(BqClients)
    <2>1. \/ bq_clients' = bq_clients
          \/ \E c \in BqClients : \/ bq_clients' = Append(bq_clients, c)
                                  \/ bq_clients' = Without(bq_clients, c)
      BY DEF Next, Notify, Notifying, NotifyTest, NotifyResetTail, NotifyResetHead, NotifyPut, NotifyIncr,
             NotifyEnd, Reading, Open, OpenInterrupted, Read, Wait, Interrupted, GetTest, GetLoad, GetStore,
             Release, ReleaseInterrupted, vars, wrapper
    <2>2. bq_clients \in Seq(BqClients) /\ NoRepeat(bq_clients)
      BY DEF BqTypeOK, ClientsInv
    <2>3. \A c \in BqClients : Append(bq_clients, c) \in Seq(BqClients)
      BY <2>2
    <2>4. \A c \in BqClients : Without(bq_clients, c) \in Seq(BqClients)
      BY <2>2, DropClient
    <2>5. QED
      BY <2>1, <2>2, <2>3, <2>4
  <1>4. /\ DOMAIN bq' = BqClients /\ bq' = [c \in BqClients |-> bq'[c]]
        /\ \A c \in BqClients : QueueOK(bq'[c])
    <2>1. CASE UNCHANGED bq
      <3>1. DOMAIN bq = BqClients /\ bq = [c \in BqClients |-> bq[c]] /\ \A c \in BqClients : QueueOK(bq[c])
        BY DEF BqTypeOK
      <3>2. QED
        BY <2>1, <3>1
    <2>2. ASSUME NEW x \in BqClients, NEW v, QueueOK(v), bq' = [bq EXCEPT ![x] = v]
          PROVE  /\ DOMAIN bq' = BqClients /\ bq' = [c \in BqClients |-> bq'[c]]
                 /\ \A c \in BqClients : QueueOK(bq'[c])
      BY <2>2, QueueUpdate
    <2>3. QED
      BY <2>1, <2>2, QueueStep
  <1>5. pc' \in [BqClients -> {"closed", "idle", "wait", "asleep", "test", "load", "store", "leaked"}]
    <2>1. pc \in [BqClients -> {"closed", "idle", "wait", "asleep", "test", "load", "store", "leaked"}]
      BY DEF BqTypeOK
    <2>2. CASE \E c \in BqClients, l \in {"closed", "idle", "wait", "asleep", "test", "load", "store", "leaked"} :
                 Goto(c, l)
      BY <2>1, <2>2 DEF Goto
    <2>3. CASE NotifyIncr
      <3>1. pc' = [pc EXCEPT ![Head(todo)] = Woken(Head(todo))] /\ npc = "incr"
        BY <2>3 DEF NotifyIncr
      <3>2. Head(todo) \in BqClients
        BY <3>1, Notified DEF ClientsInv
      <3>3. Woken(Head(todo)) \in {"closed", "idle", "wait", "asleep", "test", "load", "store", "leaked"}
        BY <2>1, <3>2 DEF Woken
      <3>4. QED
        BY <2>1, <3>1, <3>2, <3>3
    <2>4. CASE UNCHANGED pc
      BY <2>1, <2>4
    <2>5. \/ UNCHANGED pc \/ NotifyIncr
          \/ \E c \in BqClients, l \in {"closed", "idle", "wait", "asleep", "test", "load", "store", "leaked"} :
                 Goto(c, l)
      BY DEF Next, Notify, Notifying, NotifyTest, NotifyResetTail, NotifyResetHead, NotifyPut,
             NotifyEnd, Reading, Open, OpenInterrupted, Read, Wait, Interrupted, GetTest, GetLoad, GetStore,
             Release, ReleaseInterrupted, vars, reader
    <2>6. QED
      BY <2>2, <2>3, <2>4, <2>5
  <1>6. cursor' \in [BqClients -> Nat]
    <2>1. \/ UNCHANGED cursor
          \/ \E c \in BqClients : \/ cursor' = [cursor EXCEPT ![c] = IF BQ_empty(bq[c]) THEN @ ELSE bq[c].tail]
                                  \/ cursor' = [cursor EXCEPT ![c] = 0]
      BY DEF Next, Notify, Notifying, NotifyTest, NotifyResetTail, NotifyResetHead, NotifyPut, NotifyIncr,
             NotifyEnd, Reading, Open, OpenInterrupted, Read, Wait, Interrupted, GetTest, GetLoad, GetStore,
             Release, ReleaseInterrupted, vars, reader
    <2>2. \A c \in BqClients : bq[c].tail \in Nat
      BY QueueFields DEF BqTypeOK
    <2>3. cursor \in [BqClients -> Nat]
      BY DEF BqTypeOK
    <2>4. QED
      BY <2>1, <2>2, <2>3
  <1>7. item' \in [BqClients -> Nat]
    <2>1. \/ UNCHANGED item
          \/ \E c \in BqClients : \/ pc[c] = "load" /\ item' = [item EXCEPT ![c] = bq[c].buf[cursor[c]]]
                                  \/ item' = [item EXCEPT ![c] = 0]
      BY DEF Next, Notify, Notifying, NotifyTest, NotifyResetTail, NotifyResetHead, NotifyPut, NotifyIncr,
             NotifyEnd, Reading, Open, OpenInterrupted, Read, Wait, Interrupted, GetTest, GetLoad, GetStore,
             Release, ReleaseInterrupted, vars, reader, At
    <2>2. \A c \in BqClients : pc[c] = "load" => bq[c].buf[cursor[c]] \in Nat
      <3> TAKE c \in BqClients
      <3> HAVE pc[c] = "load"
      <3>1. cursor[c] \in Nat /\ cursor[c] < bq[c].bq_len
        BY DEF BqTypeOK, CursorInv
      <3>2. bq[c].buf \in [0 .. bq[c].bq_len - 1 -> Nat] /\ bq[c].bq_len \in Nat
        BY QueueFields DEF BqTypeOK, QueueOK
      <3>3. QED
        BY <3>1, <3>2
    <2>3. item \in [BqClients -> Nat]
      BY DEF BqTypeOK
    <2>4. QED
      BY <2>1, <2>2, <2>3
  <1>8. put' \in [BqClients -> Nat] /\ last' \in [BqClients -> Nat]
    <2>1. \/ UNCHANGED put
          \/ \E c \in BqClients : put' = [put EXCEPT ![c] = n] \/ put' = [put EXCEPT ![c] = 0]
          \/ put' = [put EXCEPT ![Head(todo)] = n]
      BY DEF Next, Notify, Notifying, NotifyTest, NotifyResetTail, NotifyResetHead, NotifyPut, NotifyIncr,
             NotifyEnd, Reading, Open, OpenInterrupted, Read, Wait, Interrupted, GetTest, GetLoad, GetStore,
             Release, ReleaseInterrupted, vars, history
    <2>2. \/ UNCHANGED last
          \/ \E c \in BqClients : \/ last' = [last EXCEPT ![c] = n] \/ last' = [last EXCEPT ![c] = 0]
                                  \/ last' = [last EXCEPT ![c] = item[c]]
      BY DEF Next, Notify, Notifying, NotifyTest, NotifyResetTail, NotifyResetHead, NotifyPut, NotifyIncr,
             NotifyEnd, Reading, Open, OpenInterrupted, Read, Wait, Interrupted, GetTest, GetLoad, GetStore,
             Release, ReleaseInterrupted, vars, history
    <2>3. n \in Nat /\ put \in [BqClients -> Nat] /\ last \in [BqClients -> Nat] /\ item \in [BqClients -> Nat]
      BY DEF BqTypeOK
    <2>4. QED
      BY <2>1, <2>2, <2>3
  <1>9. reset' \in [BqClients -> BOOLEAN]
    <2>1. \/ UNCHANGED reset
          \/ \E c, v : v \in BOOLEAN /\ reset' = [reset EXCEPT ![c] = v]
      BY DEF Next, Notify, Notifying, NotifyTest, NotifyResetTail, NotifyResetHead, NotifyPut, NotifyIncr,
             NotifyEnd, Reading, Open, OpenInterrupted, Read, Wait, Interrupted, GetTest, GetLoad, GetStore,
             Release, ReleaseInterrupted, vars, history
    <2>2. reset \in [BqClients -> BOOLEAN]
      BY DEF BqTypeOK
    <2>3. QED
      BY <2>1, <2>2
  <1>10. torn' \in [BqClients -> BOOLEAN]
    <2>1. \/ UNCHANGED torn
          \/ \E c, v : v \in BOOLEAN /\ torn' = [torn EXCEPT ![c] = v]
          \/ \E c, v : v \in BOOLEAN /\ torn' = [torn EXCEPT ![c] = @ \/ v]
      BY DEF Next, Notify, Notifying, NotifyTest, NotifyResetTail, NotifyResetHead, NotifyPut, NotifyIncr,
             NotifyEnd, Reading, Open, OpenInterrupted, Read, Wait, Interrupted, GetTest, GetLoad, GetStore,
             Release, ReleaseInterrupted, vars, history, InGet
    <2>2. torn \in [BqClients -> BOOLEAN]
      BY DEF BqTypeOK
    <2>3. QED
      BY <2>1, <2>2
  <1>11. QED
    BY <1>1, <1>2, <1>3, <1>4, <1>5, <1>6, <1>7, <1>8, <1>9, <1>10 DEF BqTypeOK

\* The invariant of a client the step does not touch.
LEMMA Untouched ==
  ASSUME NEW d \in BqClients, ClientInv(d),
         bq'[d] = bq[d], pc'[d] = pc[d], cursor'[d] = cursor[d], item'[d] = item[d],
         put'[d] = put[d], last'[d] = last[d], reset'[d] = reset[d],
         Stage(d)' = Stage(d), n' = n \/ Stage(d) # "incr"
  PROVE  ClientInv(d)'
  BY DEF ClientInv, InGet

\* A client's step leaves the others alone, ...
LEMMA ReaderFrame ==
  ASSUME BqTypeOK, NEW c \in BqClients, NEW d \in BqClients, d # c,
         \/ \E len \in Backlogs : Open(c, len) \/ OpenInterrupted(c, len)
         \/ Read(c) \/ Reading(c) \/ Interrupted(c) \/ Release(c) \/ ReleaseInterrupted(c)
  PROVE  /\ bq'[d] = bq[d] /\ pc'[d] = pc[d] /\ cursor'[d] = cursor[d] /\ item'[d] = item[d]
         /\ put'[d] = put[d] /\ last'[d] = last[d] /\ reset'[d] = reset[d] /\ torn'[d] = torn[d]
         /\ Stage(d)' = Stage(d) /\ n' = n /\ todo' = todo /\ npc' = npc
  <1>1. DOMAIN bq = BqClients
    BY DEF BqTypeOK
  <1>2. bq'[d] = bq[d]
    BY <1>1 DEF Reading, Open, OpenInterrupted, Read, Wait, Interrupted, GetTest, GetLoad, GetStore, Release,
                ReleaseInterrupted
  <1>3. pc'[d] = pc[d] /\ cursor'[d] = cursor[d] /\ item'[d] = item[d]
    BY DEF Reading, Open, OpenInterrupted, Read, Wait, Interrupted, GetTest, GetLoad, GetStore, Release,
           ReleaseInterrupted, Goto, BqTypeOK
  <1>4. put'[d] = put[d] /\ last'[d] = last[d] /\ reset'[d] = reset[d] /\ torn'[d] = torn[d]
    BY DEF Reading, Open, OpenInterrupted, Read, Wait, Interrupted, GetTest, GetLoad, GetStore, Release,
           ReleaseInterrupted, history, BqTypeOK
  <1>5. n' = n /\ todo' = todo /\ npc' = npc
    BY DEF Reading, Open, OpenInterrupted, Read, Wait, Interrupted, GetTest, GetLoad, GetStore, Release,
           ReleaseInterrupted, notifier
  <1>6. Stage(d)' = Stage(d)
    BY <1>5 DEF Stage
  <1>7. QED
    BY <1>2, <1>3, <1>4, <1>5, <1>6

\* ... and the notifier's step all but the one it is at.
LEMMA NotifierFrame ==
  ASSUME BqTypeOK, ClientsInv, Notify \/ Notifying, NEW d \in BqClients,
         npc # "idle" /\ todo # << >> => d # Head(todo)
  PROVE  /\ bq'[d] = bq[d] /\ pc'[d] = pc[d] /\ cursor'[d] = cursor[d] /\ item'[d] = item[d]
         /\ put'[d] = put[d] /\ last'[d] = last[d] /\ reset'[d] = reset[d] /\ torn'[d] = torn[d]
         /\ Stage(d) = "none" /\ Stage(d)' = "none"
  <1>1. npc \in {"tail", "head", "put", "incr"} => todo # << >>
    BY DEF ClientsInv
  <1>2. bq'[d] = bq[d]
    BY <1>1 DEF Notify, Notifying, NotifyTest, NotifyResetTail, NotifyResetHead, NotifyPut, NotifyIncr, NotifyEnd,
                BqTypeOK
  <1>3. pc'[d] = pc[d] /\ cursor'[d] = cursor[d] /\ item'[d] = item[d]
    BY <1>1 DEF Notify, Notifying, NotifyTest, NotifyResetTail, NotifyResetHead, NotifyPut, NotifyIncr, NotifyEnd,
                reader, BqTypeOK
  <1>4. put'[d] = put[d] /\ last'[d] = last[d] /\ reset'[d] = reset[d] /\ torn'[d] = torn[d]
    BY <1>1 DEF Notify, Notifying, NotifyTest, NotifyResetTail, NotifyResetHead, NotifyPut, NotifyIncr, NotifyEnd,
                history, BqTypeOK
  <1>5. Stage(d) = "none"
    BY <1>1 DEF Stage
  <1>6. Stage(d)' = "none"
    BY <1>1 DEF Stage, Notify, Notifying, NotifyTest, NotifyResetTail, NotifyResetHead, NotifyPut, NotifyIncr,
                NotifyEnd
  <1>7. QED
    BY <1>2, <1>3, <1>4, <1>5, <1>6

----------------------------------------------------------------------------
(* The steps of acq400_bq_notify() in the queue of the client it is at.    *)

\* It looks how full the queue is: there is room for one more entry.
LEMMA TestStep ==
  ASSUME BqTypeOK, ClientsInv, NotifyTest, ClientInv(Head(todo))
  PROVE  ClientInv(Head(todo))'
  <1> DEFINE h == Head(todo)
             q == bq[h]
  <1>1. /\ npc = "test" /\ todo # << >>
        /\ npc' = IF BQ_space(q) < 1 \/ BQ_count(q) > Threshold THEN "tail" ELSE "put"
        /\ UNCHANGED <<n, todo, wrapper, bq, reader, history>>
    BY DEF NotifyTest
  <1>2. h \in BqClients /\ QueueOK(q)
    BY <1>1, Notified
  <1>3. /\ bq' = bq /\ pc' = pc /\ cursor' = cursor /\ item' = item /\ put' = put /\ last' = last
        /\ reset' = reset /\ n' = n /\ h' = h
    BY <1>1 DEF reader, history
  <1>4. Stage(h) = "none" /\ Stage(h)' = npc'
    BY <1>1 DEF Stage
  <1>5. BQ_count(q) \in Nat /\ BQ_space(q) \in Int
    BY <1>2, QueueCounts, QueueFields
  <1>6. npc' = "put" => BQ_space(q) >= 1 /\ BQ_count(q) + 1 <= Bound
    <2> HAVE npc' = "put"
    <2>1. BQ_space(q) >= 1 /\ BQ_count(q) <= Threshold
      <3> HIDE DEF q
      <3>1. ~(BQ_space(q) < 1) /\ ~(BQ_count(q) > Threshold)
        BY <1>1
      <3>2. Threshold \in Int
        BY BufferQueueAssumption DEF Threshold
      <3>3. QED
        BY <1>5, <3>1, <3>2
    <2> HIDE DEF q
    <2>2. QED
      BY <1>5, <2>1, BufferQueueAssumption DEF Threshold, Bound
  <1>7. npc' \in {"tail", "put"}
    BY <1>1
  <1>8. QED
    BY <1>3, <1>4, <1>6, <1>7 DEF ClientInv, InGet

\* The tail is reset, while the client is not between the accesses of
\* BQ_get_st(), ...
LEMMA ResetTailStep ==
  ASSUME BqTypeOK, ClientsInv, NotifyResetTail, ClientInv(Head(todo)), ~torn[Head(todo)]'
  PROVE  ClientInv(Head(todo))'
  <1> DEFINE h == Head(todo)
             q == bq[h]
  <1>1. /\ npc = "tail" /\ npc' = "head"
        /\ bq' = [bq EXCEPT ![h] = [q EXCEPT !.tail = 0]]
        /\ torn' = [torn EXCEPT ![h] = @ \/ InGet(h)]
        /\ reset' = [reset EXCEPT ![h] = TRUE]
        /\ UNCHANGED <<n, todo, nq, wrapper, reader, put, last>>
    BY DEF NotifyResetTail
  <1>2. todo # << >>
    BY <1>1 DEF ClientsInv
  <1>3. h \in BqClients /\ QueueOK(q) /\ DOMAIN bq = BqClients
    BY <1>2, Notified DEF BqTypeOK
  <1>4. 0 \in Nat /\ 0 < q.bq_len
    BY <1>3, QueueFields
  <1>5. bq'[h] = [q EXCEPT !.tail = 0]
    BY <1>1, <1>3
  <1>6. bq'[h].tail = 0
    BY <1>3, <1>4, <1>5, WithTail
  <1>7. ~InGet(h)
    BY <1>1, <1>3 DEF BqTypeOK
  <1>8. pc' = pc /\ put' = put /\ last' = last /\ h' = h
    BY <1>1 DEF reader
  <1>9. Stage(h) = "tail" /\ Stage(h)' = "head"
    BY <1>1, <1>8 DEF Stage
  <1>10. last[h] <= put[h]
    BY DEF ClientInv
  <1>11. QED
    BY <1>6, <1>7, <1>8, <1>9, <1>10 DEF ClientInv, InGet

\* ... and the head: the queue is empty.
LEMMA ResetHeadStep ==
  ASSUME BqTypeOK, ClientsInv, ResetInv, NotifyResetHead, ClientInv(Head(todo)), ~torn[Head(todo)]'
  PROVE  ClientInv(Head(todo))'
  <1> DEFINE h == Head(todo)
             q == bq[h]
             r == [q EXCEPT !.head = 0]
  <1>1. /\ npc = "head" /\ npc' = "put"
        /\ bq' = [bq EXCEPT ![h] = r]
        /\ torn' = [torn EXCEPT ![h] = @ \/ InGet(h)]
        /\ UNCHANGED <<n, todo, nq, bq_clients, bq_max, reader, put, last, reset>>
    BY DEF NotifyResetHead
  <1>2. todo # << >>
    BY <1>1 DEF ClientsInv
  <1>3. h \in BqClients /\ QueueOK(q) /\ DOMAIN bq = BqClients
    BY <1>2, Notified DEF BqTypeOK
  <1>4. 0 \in Nat /\ 0 < q.bq_len
    BY <1>3, QueueFields
  <1>5. bq'[h] = r
    BY <1>1, <1>3
  <1>6. Stage(h) = "head" /\ Stage(h)' = "put"
    BY <1>1 DEF Stage
  <1>7. last[h] <= put[h] /\ q.tail = 0 /\ reset[h]
    BY <1>3, <1>6 DEF ClientInv, ResetInv
  <1>8. QueueOK(r) /\ r.head = 0 /\ r.tail = 0
    BY <1>3, <1>4, <1>7, WithHead
  <1> HIDE DEF r
  <1>9. BQ_count(r) = 0 /\ BQ_space(r) >= 1
    BY <1>8, QueueCounts, QueueFields
  <1>10. Window(r, put[h])
    BY <1>9 DEF Window
  <1>11. ~InGet(h)
    BY <1>1, <1>3 DEF BqTypeOK
  <1>12. pc' = pc /\ put' = put /\ last' = last /\ reset' = reset /\ h' = h
    BY <1>1 DEF reader
  <1>13. last[h] \in Nat /\ Bound >= 1 /\ Bound \in Int
    BY <1>3, BufferQueueAssumption DEF Bound, BqTypeOK
  <1>14. /\ BQ_count(r) <= Bound /\ BQ_count(r) + 1 <= Bound
         /\ last[h] + BQ_count(r) <= put[h]
    BY <1>7, <1>9, <1>13
  <1>15. QED
    BY <1>5, <1>6, <1>7, <1>9, <1>10, <1>11, <1>12, <1>14 DEF ClientInv, InGet

\* BQ_put() writes the cell at the head, which the client does not see, ...
LEMMA PutStep ==
  ASSUME BqTypeOK, ClientsInv, NotifyPut, ClientInv(Head(todo))
  PROVE  ClientInv(Head(todo))'
  <1> DEFINE h == Head(todo)
             q == bq[h]
             r == BQ_store(q, n)
  <1>1. /\ npc = "put" /\ npc' = "incr"
        /\ bq' = [bq EXCEPT ![h] = r]
        /\ UNCHANGED <<n, todo, nq, wrapper, reader, history>>
    BY DEF NotifyPut
  <1>2. todo # << >>
    BY <1>1 DEF ClientsInv
  <1>3. h \in BqClients /\ QueueOK(q) /\ DOMAIN bq = BqClients /\ n \in Nat
    BY <1>2, Notified DEF BqTypeOK
  <1>4. bq'[h] = r
    BY <1>1, <1>3
  <1>5. Stage(h) = "put" /\ Stage(h)' = "incr"
    BY <1>1 DEF Stage
  <1>6. /\ r.head = q.head /\ r.tail = q.tail /\ r.buf[r.head] = n
        /\ BQ_count(r) = BQ_count(q) /\ BQ_space(r) = BQ_space(q)
        /\ Window(q, put[h]) => Window(r, put[h])
        /\ BQ_count(q) >= 1 => r.buf[r.tail] = q.buf[q.tail]
    BY <1>3, StoreFacts
  <1> HIDE DEF r
  <1>7. /\ pc' = pc /\ cursor' = cursor /\ item' = item /\ put' = put /\ last' = last
        /\ reset' = reset /\ n' = n /\ h' = h
    BY <1>1 DEF reader, history
  <1>8. QED
    BY <1>4, <1>5, <1>6, <1>7 DEF ClientInv, InGet

\* ... and makes it an entry of the queue.
LEMMA IncrStep ==
  ASSUME BqTypeOK, ClientsInv, NotifyIncr, NEW h, h = Head(todo), ClientInv(h)
  PROVE  ClientInv(h)'
  <1> DEFINE q == bq[h]
             r == BQ_advance(q)
  <1>1. /\ npc = "incr" /\ npc' = "test"
        /\ bq' = [bq EXCEPT ![h] = r] /\ put' = [put EXCEPT ![h] = n]
        /\ pc' = [pc EXCEPT ![h] = Woken(h)]
        /\ UNCHANGED <<n, nq, bq_clients, bq_overruns, cursor, item, last, reset, torn>>
    BY DEF NotifyIncr
  <1>2. todo # << >>
    BY <1>1 DEF ClientsInv
  <1>3. /\ h \in BqClients /\ QueueOK(q) /\ DOMAIN bq = BqClients /\ put[h] + 1 = n
        /\ put[h] \in Nat /\ last[h] \in Nat
    BY <1>2, Notified DEF BqTypeOK
  <1>4. bq'[h] = r /\ put'[h] = n
    BY <1>1, <1>3 DEF BqTypeOK
  <1>5. pc'[h] = Woken(h)
    BY <1>1, <1>3 DEF BqTypeOK
  <1>6. Stage(h) = "incr" /\ Stage(h)' = "none"
    BY <1>1 DEF Stage
  <1>7. /\ last[h] <= put[h] /\ Window(q, put[h]) /\ last[h] + BQ_count(q) <= put[h]
        /\ ~reset[h] => last[h] + BQ_count(q) = put[h]
        /\ InGet(h) => BQ_count(q) >= 1
        /\ pc[h] = "load" => cursor[h] = q.tail
        /\ pc[h] = "store" => item[h] = q.buf[q.tail]
        /\ BQ_space(q) >= 1 /\ BQ_count(q) + 1 <= Bound
        /\ q.buf[q.head] = n
    BY <1>6 DEF ClientInv
  <1>8. /\ r.tail = q.tail /\ r.buf = q.buf /\ BQ_count(r) = BQ_count(q) + 1
        /\ Window(r, put[h] + 1)
    BY <1>3, <1>7, AdvanceFacts
  <1>9. BQ_count(q) \in Nat
    BY <1>3, QueueCounts, QueueFields
  <1> HIDE DEF r, q
  <1>10. /\ Window(r, n) /\ last[h] <= n /\ last[h] + BQ_count(r) <= n /\ BQ_count(r) <= Bound
         /\ ~reset[h] => last[h] + BQ_count(r) = n
         /\ BQ_count(r) >= 1
    BY <1>3, <1>7, <1>8, <1>9
  <1>11. /\ pc'[h] = "load" => cursor[h] = r.tail
         /\ pc'[h] = "store" => item[h] = r.buf[r.tail]
    BY <1>5, <1>7, <1>8 DEF Woken
  <1>12. cursor' = cursor /\ item' = item /\ last' = last /\ reset' = reset
    BY <1>1
  <1>13. QED
    BY <1>4, <1>6, <1>10, <1>11, <1>12 DEF ClientInv, InGet

----------------------------------------------------------------------------
(* The steps of a client in its own queue.                                 *)

\* It opens the device: nothing waits in the new queue.
LEMMA OpenStep ==
  ASSUME BqTypeOK, ClientsInv, NEW c \in BqClients, NEW len \in Backlogs,
         Open(c, len) \/ OpenInterrupted(c, len)
  PROVE  ClientInv(c)'
  <1> DEFINE r == BQ_init(len)
  <1>1. /\ pc[c] = "closed" /\ pc' = [pc EXCEPT ![c] = "idle"]
        /\ bq' = [bq EXCEPT ![c] = r]
        /\ n' = n /\ todo' = todo /\ npc' = npc /\ reset' = reset
        /\ \/ put' = put /\ last' = last
           \/ put' = [put EXCEPT ![c] = n] /\ last' = [last EXCEPT ![c] = n]
    BY DEF Open, OpenInterrupted, At, Goto, notifier, history
  <1>2. c \notin Members(todo) /\ put[c] = last[c]
    BY <1>1 DEF ClientsInv
  <1>3. Stage(c)' = "none"
    <2>1. npc \in {"tail", "head", "put", "incr"} => Head(todo) # c
      BY <1>2, Notified DEF ClientsInv
    <2>2. QED
      BY <1>1, <2>1 DEF Stage
  <1>4. DOMAIN bq = BqClients /\ put[c] \in Nat /\ n \in Nat
    BY DEF BqTypeOK
  <1>5. bq'[c] = r
    BY <1>1, <1>4
  <1>6. put'[c] = last'[c] /\ put'[c] \in Nat
    BY <1>1, <1>2, <1>4 DEF BqTypeOK
  <1>7. pc'[c] = "idle"
    BY <1>1 DEF BqTypeOK
  <1>8. BQ_count(r) = 0 /\ Window(r, put'[c])
    BY Lengths, InitQueue
  <1>9. Bound \in Int /\ 0 <= Bound
    BY BufferQueueAssumption DEF Bound
  <1> HIDE DEF r
  <1>10. last'[c] <= put'[c] /\ last'[c] + BQ_count(r) = put'[c] /\ last'[c] + BQ_count(r) <= put'[c] /\ BQ_count(r) <= Bound
    BY <1>6, <1>8, <1>9
  <1>11. QED
    BY <1>3, <1>5, <1>7, <1>8, <1>10 DEF ClientInv, InGet

LEMMA ReleaseStep ==
  ASSUME BqTypeOK, NEW c \in BqClients, Release(c)
  PROVE  ClientInv(c)'
  <1> DEFINE r == BQ_init(BQ_MIN_BACKLOG)
  <1>1. /\ pc' = [pc EXCEPT ![c] = "closed"] /\ bq' = [bq EXCEPT ![c] = r]
        /\ npc = "idle" /\ npc' = npc
        /\ put' = [put EXCEPT ![c] = 0] /\ last' = [last EXCEPT ![c] = 0]
    BY DEF Release, Goto, notifier
  <1>2. bq'[c] = r
    BY <1>1 DEF BqTypeOK
  <1>3. pc'[c] = "closed" /\ put'[c] = 0 /\ last'[c] = 0
    BY <1>1 DEF BqTypeOK
  <1>4. BQ_count(r) = 0 /\ Window(r, 0)
    BY Lengths, InitQueue
  <1>5. Stage(c)' = "none"
    BY <1>1 DEF Stage
  <1>6. Bound \in Int /\ 0 <= Bound
    BY BufferQueueAssumption DEF Bound
  <1> HIDE DEF r
  <1>7. QED
    BY <1>2, <1>3, <1>4, <1>5, <1>6 DEF ClientInv, InGet

\* It calls read(), waits, and gives up.
LEMMA WaitStep ==
  ASSUME BqTypeOK, NEW c \in BqClients, ClientInv(c),
         Read(c) \/ Wait(c) \/ Interrupted(c) \/ ReleaseInterrupted(c)
  PROVE  ClientInv(c)'
  <1>1. /\ pc' \in {[pc EXCEPT ![c] = l] : l \in {"wait", "test", "asleep", "idle", "leaked"}}
        /\ n' = n /\ npc' = npc /\ todo' = todo /\ bq' = bq /\ cursor' = cursor /\ item' = item
        /\ put' = put /\ last' = last /\ reset' = reset
    BY DEF Read, Wait, Interrupted, ReleaseInterrupted, Goto, notifier, history
  <1>2. pc'[c] \in {"wait", "test", "asleep", "idle", "leaked"}
    BY <1>1 DEF BqTypeOK
  <1>3. Stage(c)' = Stage(c)
    BY <1>1 DEF Stage
  <1>4. QED
    BY <1>1, <1>2, <1>3 DEF ClientInv, InGet

\* BQ_get_st(): what it saw at the tail is there until it has moved the tail.
LEMMA GetTestStep ==
  ASSUME BqTypeOK, ClientsInv, NEW c \in BqClients, ClientInv(c), GetTest(c), ~torn[c]'
  PROVE  ClientInv(c)'
  <1> DEFINE q == bq[c]
  <1>1. /\ pc' = [pc EXCEPT ![c] = IF BQ_empty(q) THEN "wait" ELSE "load"]
        /\ cursor' = [cursor EXCEPT ![c] = IF BQ_empty(q) THEN @ ELSE q.tail]
        /\ torn' = [torn EXCEPT ![c] = @ \/ (npc = "head" /\ Head(todo) = c)]
        /\ n' = n /\ npc' = npc /\ todo' = todo /\ bq' = bq /\ put' = put /\ last' = last /\ reset' = reset
    BY DEF GetTest, Goto, notifier
  <1>2. ~(npc = "head" /\ Head(todo) = c)
    BY <1>1 DEF BqTypeOK
  <1>3. Stage(c) # "head" /\ Stage(c)' = Stage(c)
    BY <1>1, <1>2 DEF Stage
  <1>4. /\ pc'[c] = (IF BQ_empty(q) THEN "wait" ELSE "load")
        /\ pc'[c] = "load" => cursor'[c] = q.tail
    BY <1>1 DEF BqTypeOK
  <1>5. QueueOK(q)
    BY DEF BqTypeOK
  <1>6. pc'[c] = "load" => BQ_count(q) >= 1
    BY <1>4, <1>5, QueueCounts, QueueFields DEF BQ_empty
  <1>7. QED
    BY <1>1, <1>3, <1>4, <1>6 DEF ClientInv, InGet

LEMMA GetLoadStep ==
  ASSUME BqTypeOK, NEW c \in BqClients, ClientInv(c), GetLoad(c)
  PROVE  ClientInv(c)'
  <1>1. /\ pc[c] = "load" /\ pc' = [pc EXCEPT ![c] = "store"]
        /\ item' = [item EXCEPT ![c] = bq[c].buf[cursor[c]]]
        /\ n' = n /\ npc' = npc /\ todo' = todo /\ bq' = bq /\ put' = put /\ last' = last /\ reset' = reset
    BY DEF GetLoad, At, Goto, notifier, history
  <1>2. cursor[c] = bq[c].tail /\ InGet(c) /\ Stage(c) # "head"
    BY <1>1 DEF ClientInv, InGet
  <1>3. pc'[c] = "store" /\ item'[c] = bq[c].buf[bq[c].tail]
    BY <1>1, <1>2 DEF BqTypeOK
  <1>4. Stage(c)' = Stage(c)
    BY <1>1 DEF Stage
  <1>5. QED
    BY <1>1, <1>2, <1>3, <1>4 DEF ClientInv, InGet

\* What the client is given, if no reset surprised it: the block before those
\* that go on waiting.
LEMMA Given ==
  ASSUME BqTypeOK, NEW c \in BqClients, ClientInv(c), pc[c] = "store"
  PROVE  /\ BQ_count(bq[c]) >= 1 /\ BQ_count(bq[c]) \in Nat /\ Stage(c) # "head"
         /\ item[c] = put[c] - BQ_count(bq[c]) + 1
         /\ Window(bq[c], put[c]) /\ last[c] + BQ_count(bq[c]) <= put[c]
         /\ put[c] \in Nat /\ last[c] \in Nat
  <1>1. BQ_count(bq[c]) >= 1 /\ Stage(c) # "head" /\ item[c] = bq[c].buf[bq[c].tail]
    BY DEF ClientInv, InGet
  <1>2. Window(bq[c], put[c]) /\ last[c] + BQ_count(bq[c]) <= put[c]
    BY <1>1 DEF ClientInv
  <1>3. QueueOK(bq[c]) /\ put[c] \in Nat /\ last[c] \in Nat
    BY DEF BqTypeOK
  <1>4. item[c] = put[c] - BQ_count(bq[c]) + 1
    BY <1>1, <1>2, <1>3, DropFacts
  <1>5. BQ_count(bq[c]) \in Nat
    BY <1>3, QueueCounts, QueueFields
  <1>6. QED
    BY <1>1, <1>2, <1>3, <1>4, <1>5

LEMMA GetStoreStep ==
  ASSUME BqTypeOK, NEW c \in BqClients, ClientInv(c), GetStore(c)
  PROVE  ClientInv(c)'
  <1> DEFINE q == bq[c]
             r == BQ_drop(q)
  <1>1. /\ pc[c] = "store" /\ pc' = [pc EXCEPT ![c] = "idle"]
        /\ bq' = [bq EXCEPT ![c] = r] /\ last' = [last EXCEPT ![c] = item[c]]
        /\ n' = n /\ npc' = npc /\ todo' = todo /\ put' = put /\ reset' = reset
    BY DEF GetStore, At, Goto, notifier
  <1>2. /\ BQ_count(q) >= 1 /\ BQ_count(q) \in Nat /\ Stage(c) # "head"
        /\ item[c] = put[c] - BQ_count(q) + 1
        /\ Window(q, put[c]) /\ last[c] + BQ_count(q) <= put[c]
        /\ put[c] \in Nat /\ last[c] \in Nat
    BY <1>1, Given
  <1>3. QueueOK(q)
    BY DEF BqTypeOK
  <1>4. /\ QueueOK(r) /\ r.head = q.head /\ r.buf = q.buf /\ r.bq_len = q.bq_len
        /\ BQ_count(r) = BQ_count(q) - 1 /\ Window(r, put[c])
    BY <1>2, <1>3, DropFacts
  <1>5. bq'[c] = r
    BY <1>1 DEF BqTypeOK
  <1>6. pc'[c] = "idle" /\ last'[c] = item[c]
    BY <1>1 DEF BqTypeOK
  <1>7. Stage(c)' = Stage(c)
    BY <1>1 DEF Stage
  <1> HIDE DEF r
  <1>8. BQ_space(r) = BQ_space(q) + 1 /\ BQ_space(q) \in Int
    <2>1. BQ_space(q) = q.bq_len - 1 - BQ_count(q) /\ q.bq_len \in Nat
      BY <1>3, QueueCounts, QueueFields
    <2>2. BQ_space(r) = r.bq_len - 1 - BQ_count(r)
      BY <1>4, QueueCounts
    <2> HIDE DEF q
    <2>3. QED
      BY <1>2, <1>4, <2>1, <2>2
  <1>9. Bound \in Int
    BY BufferQueueAssumption DEF Bound
  <1>10. /\ last'[c] <= put[c] /\ last'[c] + BQ_count(r) = put[c] /\ last'[c] + BQ_count(r) <= put[c]
         /\ BQ_count(q) <= Bound => BQ_count(r) <= Bound
         /\ BQ_count(q) + 1 <= Bound => BQ_count(r) + 1 <= Bound
         /\ BQ_space(q) >= 1 => BQ_space(r) >= 1
    BY <1>2, <1>4, <1>6, <1>8, <1>9
  <1>11. /\ BQ_count(q) <= Bound
         /\ Stage(c) \in {"put", "incr"} => BQ_space(q) >= 1 /\ BQ_count(q) + 1 <= Bound
         /\ Stage(c) = "incr" => q.buf[q.head] = n
    BY <1>2 DEF ClientInv
  <1> HIDE DEF q
  <1>12. QED
    BY <1>1, <1>2, <1>4, <1>5, <1>6, <1>7, <1>10, <1>11 DEF ClientInv, InGet

----------------------------------------------------------------------------
(* The steps of the rest of the invariant.                                 *)

\* The steps of client c.
ReaderSteps(c) ==
  \/ \E len \in Backlogs : Open(c, len) \/ OpenInterrupted(c, len)
  \/ Read(c) \/ Reading(c) \/ Interrupted(c) \/ Release(c) \/ ReleaseInterrupted(c)

LEMMA StepCases ==
  ASSUME [Next]_vars
  PROVE  \/ Notify \/ Notifying
         \/ \E c \in BqClients : ReaderSteps(c)
         \/ UNCHANGED vars
  BY DEF Next, ReaderSteps

\* The notifier is at a client.
AtClient == npc # "idle" /\ todo # << >>

LEMMA CursorStep ==
  ASSUME BqTypeOK, ClientsInv, CursorInv, [Next]_vars
  PROVE  CursorInv'
  <1> SUFFICES ASSUME NEW d \in BqClients, pc'[d] = "load"
               PROVE  cursor'[d] < bq'[d].bq_len
    BY DEF CursorInv
  <1>1. CASE pc'[d] = pc[d] /\ cursor'[d] = cursor[d] /\ bq'[d] = bq[d]
    BY <1>1 DEF CursorInv
  <1>2. ASSUME NEW c \in BqClients, ReaderSteps(c), c # d
        PROVE  pc'[d] = pc[d] /\ cursor'[d] = cursor[d] /\ bq'[d] = bq[d]
    BY <1>2, ReaderFrame DEF ReaderSteps
  <1>3. CASE ReaderSteps(d)
    <2>1. GetTest(d)
      BY <1>3 DEF ReaderSteps, Reading, Open, OpenInterrupted, Read, Wait, Interrupted, GetLoad, GetStore, Release,
                  ReleaseInterrupted, Goto, BqTypeOK
    <2>2. cursor'[d] = bq[d].tail /\ bq' = bq
      BY <2>1 DEF GetTest, Goto, BqTypeOK
    <2>3. bq[d].tail < bq[d].bq_len
      BY QueueFields DEF BqTypeOK
    <2>4. QED
      BY <2>2, <2>3
  <1>4. CASE (Notify \/ Notifying) /\ ~(AtClient /\ d = Head(todo))
    <2>1. pc'[d] = pc[d] /\ cursor'[d] = cursor[d] /\ bq'[d] = bq[d]
      BY <1>4, NotifierFrame DEF AtClient
    <2>2. QED
      BY <1>1, <2>1
  <1>5. CASE (Notify \/ Notifying) /\ AtClient /\ d = Head(todo)
    <2> DEFINE q == bq[d]
    <2>1. QueueOK(q) /\ DOMAIN bq = BqClients /\ n \in Nat
      BY DEF BqTypeOK
    <2>2. /\ \/ bq' = bq
             \/ bq' = [bq EXCEPT ![d] = [q EXCEPT !.tail = 0]]
             \/ bq' = [bq EXCEPT ![d] = [q EXCEPT !.head = 0]]
             \/ bq' = [bq EXCEPT ![d] = BQ_store(q, n)]
             \/ bq' = [bq EXCEPT ![d] = BQ_advance(q)]
          /\ cursor' = cursor
          /\ pc' = pc \/ pc' = [pc EXCEPT ![d] = Woken(d)]
      BY <1>5 DEF AtClient, Notify, Notifying, NotifyTest, NotifyResetTail, NotifyResetHead, NotifyPut, NotifyIncr,
                  NotifyEnd, reader
    <2>3. /\ [q EXCEPT !.tail = 0].bq_len = q.bq_len /\ [q EXCEPT !.head = 0].bq_len = q.bq_len
          /\ BQ_store(q, n).bq_len = q.bq_len /\ BQ_advance(q).bq_len = q.bq_len
      <3> HIDE DEF q
      <3>1. 0 \in Nat /\ 0 < q.bq_len
        BY <2>1, QueueFields
      <3>2. QED
        BY <2>1, <3>1, WithTail, WithHead, StoreFacts, AdvanceFacts
    <2>4. \/ bq'[d] = q \/ bq'[d] = [q EXCEPT !.tail = 0] \/ bq'[d] = [q EXCEPT !.head = 0]
          \/ bq'[d] = BQ_store(q, n) \/ bq'[d] = BQ_advance(q)
      <3> HIDE DEF q
      <3>1. CASE bq' = bq
        BY <3>1 DEF q
      <3>2. CASE \E v : bq' = [bq EXCEPT ![d] = v] /\ v \in {[q EXCEPT !.tail = 0], [q EXCEPT !.head = 0], BQ_store(q, n), BQ_advance(q)}
        BY <2>1, <3>2
      <3>3. QED
        BY <2>2, <3>1, <3>2
    <2>5. bq'[d].bq_len = q.bq_len
      BY <2>3, <2>4
    <2>6. pc[d] = "load"
      BY <2>2 DEF Woken, BqTypeOK
    <2>7. QED
      BY <2>2, <2>5, <2>6 DEF CursorInv
  <1>6. CASE UNCHANGED vars
    BY <1>1, <1>6 DEF vars, reader
  <1>7. QED
    BY <1>1, <1>2, <1>3, <1>4, <1>5, <1>6, StepCases

LEMMA ResetStep ==
  ASSUME BqTypeOK, ClientsInv, ResetInv, [Next]_vars
  PROVE  ResetInv'
  <1> SUFFICES ASSUME NEW d \in BqClients, torn'[d] \/ Stage(d)' = "head"
               PROVE  reset'[d]
    BY DEF ResetInv
  <1>1. CASE reset'[d] = reset[d] /\ torn'[d] = torn[d] /\ Stage(d)' = Stage(d)
    BY <1>1 DEF ResetInv
  <1>2. ASSUME NEW c \in BqClients, ReaderSteps(c), c # d
        PROVE  reset'[d] = reset[d] /\ torn'[d] = torn[d] /\ Stage(d)' = Stage(d)
    BY <1>2, ReaderFrame DEF ReaderSteps
  <1>3. CASE ReaderSteps(d)
    <2>1. CASE GetTest(d)
      <3>1. reset' = reset /\ torn' = [torn EXCEPT ![d] = @ \/ (npc = "head" /\ Head(todo) = d)] /\ npc' = npc /\ todo' = todo
        BY <2>1 DEF GetTest, notifier
      <3>2. torn'[d] => torn[d] \/ Stage(d) = "head"
        BY <3>1 DEF Stage, BqTypeOK
      <3>3. Stage(d)' = Stage(d)
        BY <3>1 DEF Stage
      <3>4. QED
        BY <3>1, <3>2, <3>3 DEF ResetInv
    <2>2. CASE Release(d)
      <3>1. npc = "idle" /\ npc' = npc /\ torn' = [torn EXCEPT ![d] = FALSE]
        BY <2>2 DEF Release, notifier
      <3>2. ~torn'[d] /\ Stage(d)' # "head"
        BY <3>1 DEF Stage, BqTypeOK
      <3>3. QED
        BY <3>2
    <2>3. CASE UNCHANGED <<reset, torn, npc, todo>>
      BY <1>1, <2>3 DEF Stage
    <2>4. QED
      BY <1>3, <2>1, <2>2, <2>3 DEF ReaderSteps, Reading, Open, OpenInterrupted, Read, Wait, Interrupted, GetLoad,
         GetStore, ReleaseInterrupted, notifier, history
  <1>4. CASE (Notify \/ Notifying) /\ ~(AtClient /\ d = Head(todo))
    <2>1. reset'[d] = reset[d] /\ torn'[d] = torn[d] /\ Stage(d)' = Stage(d)
      BY <1>4, NotifierFrame DEF AtClient
    <2>2. QED
      BY <1>1, <2>1
  <1>5. CASE (Notify \/ Notifying) /\ AtClient /\ d = Head(todo)
    <2>1. CASE NotifyResetTail
      BY <1>5, <2>1 DEF NotifyResetTail, BqTypeOK
    <2>2. CASE NotifyResetHead
      <3>1. npc = "head" /\ reset' = reset
        BY <2>2 DEF NotifyResetHead
      <3>2. Stage(d) = "head"
        BY <1>5, <3>1 DEF Stage
      <3>3. QED
        BY <3>1, <3>2 DEF ResetInv
    <2>3. CASE Notify \/ NotifyTest \/ NotifyPut \/ NotifyIncr \/ NotifyEnd
      <3>1. reset' = reset /\ torn' = torn /\ npc' # "head"
        BY <2>3 DEF Notify, NotifyTest, NotifyPut, NotifyIncr, NotifyEnd, history
      <3>2. Stage(d)' # "head"
        BY <3>1 DEF Stage
      <3>3. QED
        BY <3>1, <3>2 DEF ResetInv
    <2>4. QED
      BY <1>5, <2>1, <2>2, <2>3 DEF Notifying
  <1>6. CASE UNCHANGED vars
    BY <1>1, <1>6 DEF vars, notifier, history, Stage
  <1>7. QED
    BY <1>1, <1>2, <1>3, <1>4, <1>5, <1>6, StepCases

LEMMA ClientsStep ==
  ASSUME BqTypeOK, ClientsInv, [Next]_vars
  PROVE  ClientsInv'
  <1> USE DEF ClientsInv
  <1>1. CASE Notify
    <2>1. /\ npc = "idle" /\ npc' = "test" /\ n' = n + 1 /\ todo' = bq_clients /\ bq_clients' = bq_clients
          /\ pc' = pc /\ put' = put /\ last' = last /\ reset' = reset /\ torn' = torn /\ bq' = bq
      BY <1>1 DEF Notify, wrapper, reader, history
    <2>2. Members(todo) = {}
      BY <2>1 DEF Members
    <2>3. \A c \in Members(bq_clients) : put[c] + 1 = n'
      BY <2>1, <2>2
    <2>4. QED
      BY <2>1, <2>3
  <1>2. CASE NotifyTest
    BY <1>2 DEF NotifyTest, wrapper, reader, history
  <1>3. CASE NotifyEnd
    BY <1>3 DEF NotifyEnd, wrapper, reader, history
  <1>4. CASE NotifyResetTail \/ NotifyResetHead \/ NotifyPut
    <2>1. /\ todo # << >> /\ todo' = todo /\ npc' \in {"head", "put", "incr"} /\ n' = n
          /\ bq_clients' = bq_clients /\ pc' = pc /\ put' = put /\ last' = last
      BY <1>4 DEF NotifyResetTail, NotifyResetHead, NotifyPut, wrapper, reader, history
    <2>2. ASSUME NEW c \in BqClients, pc[c] = "closed"
          PROVE  c # Head(todo)
      BY <2>1, <2>2, Notified
    <2>3. ASSUME NEW c \in BqClients, pc[c] = "closed"
          PROVE  bq'[c] = bq[c] /\ reset'[c] = reset[c] /\ torn'[c] = torn[c]
      BY <1>4, <2>2, <2>3, NotifierFrame DEF Notifying
    <2>4. QED
      BY <2>1, <2>3
  <1>5. CASE NotifyIncr
    <2> DEFINE h == Head(todo)
    <2>1. /\ npc = "incr" /\ npc' = "test" /\ n' = n /\ todo' = Tail(todo) /\ bq_clients' = bq_clients
          /\ put' = [put EXCEPT ![h] = n]
      BY <1>5 DEF NotifyIncr
    <2>2. todo \in Seq(BqClients) /\ todo # << >> /\ NoRepeat(todo)
      BY <2>1 DEF BqTypeOK
    <2>3. h \in BqClients /\ pc[h] # "closed"
      BY <2>2, Notified
    <2>4. NoRepeat(todo') /\ Members(todo') = Members(todo) \ {h}
      BY <2>1, <2>2, NextClient
    <2>5. ASSUME NEW c \in BqClients, c # h
          PROVE  /\ put'[c] = put[c] /\ pc'[c] = pc[c] /\ last'[c] = last[c] /\ reset'[c] = reset[c]
                 /\ torn'[c] = torn[c] /\ bq'[c] = bq[c]
      BY <1>5, <2>5, NotifierFrame DEF Notifying
    <2>6. put'[h] = n /\ pc'[h] # "closed"
      <3>1. pc' = [pc EXCEPT ![h] = Woken(h)]
        BY <1>5 DEF NotifyIncr
      <3>2. QED
        BY <2>1, <2>3, <3>1 DEF Woken, BqTypeOK
    <2>7. Members(todo) \subseteq BqClients /\ Members(bq_clients) \subseteq BqClients
      BY MembersOf DEF BqTypeOK
    <2> HIDE DEF h
    <2>8. \A c \in BqClients : pc'[c] = "closed" =>
            /\ c \notin Members(bq_clients) /\ c \notin Members(todo')
            /\ put'[c] = last'[c] /\ ~reset'[c] /\ ~torn'[c] /\ BQ_count(bq'[c]) = 0
      BY <2>4, <2>5, <2>6
    <2>9. \A c \in Members(todo') : put'[c] + 1 = n
      BY <2>4, <2>5, <2>7
    <2>10. \A c \in Members(bq_clients) : c \notin Members(todo') => put'[c] = n
      BY <2>4, <2>5, <2>6, <2>7
    <2>11. QED
      BY <2>1, <2>4, <2>8, <2>9, <2>10
  <1>6. ASSUME NEW c \in BqClients, NEW len \in Backlogs, Open(c, len)
        PROVE  ClientsInv'
    <2>1. /\ pc[c] = "closed" /\ npc = "idle" /\ todo' = todo /\ npc' = npc /\ n' = n
          /\ bq_clients' = Append(bq_clients, c)
          /\ pc' = [pc EXCEPT ![c] = "idle"] /\ put' = [put EXCEPT ![c] = n]
      BY <1>6 DEF Open, At, Goto, notifier
    <2>2. todo = << >> /\ Members(todo) = {}
      BY <2>1 DEF Members
    <2>3. bq_clients \in Seq(BqClients) /\ NoRepeat(bq_clients) /\ c \notin Members(bq_clients)
      BY <2>1 DEF BqTypeOK
    <2>4. NoRepeat(bq_clients') /\ Members(bq_clients') = Members(bq_clients) \cup {c}
      BY <2>1, <2>3, AddClient
    <2>5. ASSUME NEW d \in BqClients, d # c
          PROVE  /\ put'[d] = put[d] /\ pc'[d] = pc[d] /\ last'[d] = last[d] /\ reset'[d] = reset[d]
                 /\ torn'[d] = torn[d] /\ bq'[d] = bq[d]
      BY <1>6, <2>5, ReaderFrame
    <2>6. put'[c] = n /\ pc'[c] = "idle"
      BY <2>1 DEF BqTypeOK
    <2>7. Members(bq_clients) \subseteq BqClients
      BY MembersOf DEF BqTypeOK
    <2>8. \A d \in BqClients : pc'[d] = "closed" =>
            /\ d \notin Members(bq_clients') /\ d \notin Members(todo)
            /\ put'[d] = last'[d] /\ ~reset'[d] /\ ~torn'[d] /\ BQ_count(bq'[d]) = 0
      BY <2>4, <2>5, <2>6
    <2>9. \A d \in Members(bq_clients') : put'[d] = n
      BY <2>2, <2>4, <2>5, <2>6, <2>7
    <2>10. QED
      BY <2>1, <2>2, <2>4, <2>8, <2>9
  <1>7. ASSUME NEW c \in BqClients, Release(c)
        PROVE  ClientsInv'
    <2>1. /\ npc = "idle" /\ todo' = todo /\ npc' = npc /\ n' = n
          /\ bq_clients' = Without(bq_clients, c)
          /\ bq' = [bq EXCEPT ![c] = BQ_init(BQ_MIN_BACKLOG)]
          /\ put' = [put EXCEPT ![c] = 0] /\ last' = [last EXCEPT ![c] = 0]
          /\ reset' = [reset EXCEPT ![c] = FALSE] /\ torn' = [torn EXCEPT ![c] = FALSE]
      BY <1>7 DEF Release, notifier
    <2>2. todo = << >> /\ Members(todo) = {}
      BY <2>1 DEF Members
    <2>3. bq_clients \in Seq(BqClients) /\ NoRepeat(bq_clients)
      BY DEF BqTypeOK
    <2>4. NoRepeat(bq_clients') /\ Members(bq_clients') = Members(bq_clients) \ {c}
      BY <2>1, <2>3, DropClient
    <2>5. ASSUME NEW d \in BqClients, d # c
          PROVE  /\ put'[d] = put[d] /\ pc'[d] = pc[d] /\ last'[d] = last[d] /\ reset'[d] = reset[d]
                 /\ torn'[d] = torn[d] /\ bq'[d] = bq[d]
      BY <1>7, <2>5, ReaderFrame
    <2>6. put'[c] = last'[c] /\ ~reset'[c] /\ ~torn'[c]
      BY <2>1 DEF BqTypeOK
    <2>7. BQ_count(bq'[c]) = 0
      <3>1. bq'[c] = BQ_init(BQ_MIN_BACKLOG)
        BY <2>1 DEF BqTypeOK
      <3>2. BQ_count(BQ_init(BQ_MIN_BACKLOG)) = 0
        BY Lengths, InitQueue
      <3>3. QED
        BY <3>1, <3>2
    <2>8. Members(bq_clients) \subseteq BqClients
      BY MembersOf DEF BqTypeOK
    <2>9. \A d \in BqClients : pc'[d] = "closed" =>
            /\ d \notin Members(bq_clients') /\ d \notin Members(todo)
            /\ put'[d] = last'[d] /\ ~reset'[d] /\ ~torn'[d] /\ BQ_count(bq'[d]) = 0
      BY <2>2, <2>4, <2>5, <2>6, <2>7
    <2>10. \A d \in Members(bq_clients') : put'[d] = n
      BY <2>2, <2>4, <2>5, <2>8
    <2>11. QED
      BY <2>1, <2>2, <2>4, <2>9, <2>10
  <1>8. ASSUME NEW c \in BqClients,
               \/ \E len \in Backlogs : OpenInterrupted(c, len)
               \/ Read(c) \/ Reading(c) \/ Interrupted(c) \/ ReleaseInterrupted(c)
        PROVE  ClientsInv'
    <2>1. /\ todo' = todo /\ npc' = npc /\ n' = n /\ bq_clients' = bq_clients /\ put' = put
      BY <1>8 DEF OpenInterrupted, Reading, Read, Wait, Interrupted, GetTest, GetLoad, GetStore, ReleaseInterrupted,
                  notifier, wrapper, history
    <2>2. pc'[c] # "closed"
      BY <1>8 DEF OpenInterrupted, Reading, Read, Wait, Interrupted, GetTest, GetLoad, GetStore, ReleaseInterrupted,
                  Goto, BqTypeOK
    <2>3. ASSUME NEW d \in BqClients, d # c
          PROVE  /\ pc'[d] = pc[d] /\ last'[d] = last[d] /\ reset'[d] = reset[d] /\ torn'[d] = torn[d]
                 /\ bq'[d] = bq[d]
      BY <1>8, <2>3, ReaderFrame
    <2>4. QED
      BY <2>1, <2>2, <2>3
  <1>9. CASE UNCHANGED vars
    BY <1>9 DEF vars, notifier, wrapper, reader, history
  <1>10. QED
    BY <1>1, <1>2, <1>3, <1>4, <1>5, <1>6, <1>7, <1>8, <1>9 DEF Next, Notifying, Reading

----------------------------------------------------------------------------
(* The theorems.                                                           *)

LEMMA BqInit == Init => BqInv
  <1> SUFFICES ASSUME Init PROVE BqInv
    OBVIOUS
  <1> DEFINE r == BQ_init(BQ_MIN_BACKLOG)
  <1>1. \A c \in BqClients : bq[c] = r
    BY DEF Init
  <1>2. QueueOK(r) /\ BQ_count(r) = 0 /\ Window(r, 0)
    BY Lengths, InitQueue
  <1>3. DOMAIN bq = BqClients /\ bq = [c \in BqClients |-> bq[c]]
    BY DEF Init
  <1>4. \A c \in BqClients :
          /\ pc[c] = "closed" /\ put[c] = 0 /\ last[c] = 0 /\ ~reset[c] /\ ~torn[c]
    BY DEF Init
  <1>5. n = 0 /\ npc = "idle" /\ todo = << >> /\ bq_clients = << >>
    BY DEF Init
  <1> HIDE DEF r
  <1>6. BqTypeOK
    <2>1. /\ pc \in [BqClients -> {"closed", "idle", "wait", "asleep", "test", "load", "store", "leaked"}]
          /\ cursor \in [BqClients -> Nat] /\ item \in [BqClients -> Nat]
          /\ put \in [BqClients -> Nat] /\ last \in [BqClients -> Nat]
          /\ reset \in [BqClients -> BOOLEAN] /\ torn \in [BqClients -> BOOLEAN]
      BY DEF Init
    <2>2. todo \in Seq(BqClients) /\ bq_clients \in Seq(BqClients)
      BY <1>5
    <2>3. \A c \in BqClients : QueueOK(bq[c])
      BY <1>1, <1>2
    <2>4. QED
      BY <1>3, <1>5, <2>1, <2>2, <2>3 DEF BqTypeOK
  <1>7. ClientsInv
    <2>1. Members(todo) = {} /\ Members(bq_clients) = {} /\ NoRepeat(todo) /\ NoRepeat(bq_clients)
      BY <1>5 DEF Members, NoRepeat
    <2>2. QED
      BY <1>1, <1>2, <1>4, <1>5, <2>1 DEF ClientsInv
  <1>8. \A c \in BqClients : Stage(c) = "none"
    BY <1>5 DEF Stage
  <1>9. CursorInv /\ ResetInv
    BY <1>4, <1>8 DEF CursorInv, ResetInv
  <1>10. \A c \in BqClients : ClientInv(c)
    <2>1. Bound \in Int /\ 0 <= Bound
      BY BufferQueueAssumption DEF Bound
    <2>2. QED
      BY <1>1, <1>2, <1>4, <1>8, <2>1 DEF ClientInv, InGet
  <1>11. QED
    BY <1>6, <1>7, <1>9, <1>10 DEF BqInv

LEMMA ClientStep ==
  ASSUME BqInv, [Next]_vars, NEW d \in BqClients, ~torn'[d]
  PROVE  ClientInv(d)'
  <1>1. BqTypeOK /\ ClientsInv /\ ResetInv /\ (~torn[d] => ClientInv(d))
    BY DEF BqInv
  <1>2. ASSUME NEW c \in BqClients, ReaderSteps(c), c # d
        PROVE  ClientInv(d)'
    BY <1>1, <1>2, ReaderFrame, Untouched DEF ReaderSteps
  <1>3. CASE ReaderSteps(d)
    <2>1. CASE (\E len \in Backlogs : Open(d, len) \/ OpenInterrupted(d, len)) \/ Release(d)
      BY <1>1, <2>1, OpenStep, ReleaseStep
    <2>2. CASE Read(d) \/ Interrupted(d) \/ ReleaseInterrupted(d) \/ Reading(d)
      <3>1. torn[d] => torn'[d]
        BY <1>1, <2>2 DEF Reading, Read, Wait, Interrupted, GetTest, GetLoad, GetStore, ReleaseInterrupted, history,
                        BqTypeOK
      <3>2. ClientInv(d)
        BY <1>1, <3>1
      <3>3. QED
        BY <1>1, <2>2, <3>2, WaitStep, GetTestStep, GetLoadStep, GetStoreStep DEF Reading
    <2>3. QED
      BY <1>3, <2>1, <2>2 DEF ReaderSteps
  <1>4. CASE (Notify \/ Notifying) /\ ~(AtClient /\ d = Head(todo))
    BY <1>1, <1>4, NotifierFrame, Untouched DEF AtClient
  <1>5. CASE (Notify \/ Notifying) /\ AtClient /\ d = Head(todo)
    <2>1. torn[d] => torn'[d]
      BY <1>1, <1>5 DEF Notify, Notifying, NotifyTest, NotifyResetTail, NotifyResetHead, NotifyPut, NotifyIncr,
                        NotifyEnd, history, BqTypeOK
    <2>2. ClientInv(d)
      BY <1>1, <2>1
    <2>3. NotifyTest \/ NotifyResetTail \/ NotifyResetHead \/ NotifyPut \/ NotifyIncr
      BY <1>5 DEF AtClient, Notify, Notifying, NotifyEnd
    <2>4. CASE NotifyTest
      <3>1. todo' = todo
        BY <2>4 DEF NotifyTest
      <3>2. ClientInv(Head(todo))'
        BY <1>1, <1>5, <2>2, <2>4, TestStep
      <3>3. QED
        BY <1>5, <3>1, <3>2
    <2>5. CASE NotifyResetTail \/ NotifyResetHead
      <3>1. todo' = todo
        BY <2>5 DEF NotifyResetTail, NotifyResetHead
      <3>2. ~torn[Head(todo)]'
        BY <1>5, <3>1
      <3>3. ClientInv(Head(todo))'
        BY <1>1, <1>5, <2>2, <2>5, <3>2, ResetTailStep, ResetHeadStep
      <3>4. QED
        BY <1>5, <3>1, <3>3
    <2>6. CASE NotifyPut
      <3>1. todo' = todo
        BY <2>6 DEF NotifyPut
      <3>2. ClientInv(Head(todo))'
        BY <1>1, <1>5, <2>2, <2>6, PutStep
      <3>3. QED
        BY <1>5, <3>1, <3>2
    <2>7. CASE NotifyIncr
      BY <1>1, <1>5, <2>2, <2>7, IncrStep
    <2>8. QED
      BY <2>3, <2>4, <2>5, <2>6, <2>7
  <1>6. CASE UNCHANGED vars
    <2>1. /\ bq'[d] = bq[d] /\ pc'[d] = pc[d] /\ cursor'[d] = cursor[d] /\ item'[d] = item[d]
          /\ put'[d] = put[d] /\ last'[d] = last[d] /\ reset'[d] = reset[d] /\ torn'[d] = torn[d]
          /\ Stage(d)' = Stage(d) /\ n' = n
      BY <1>6 DEF vars, notifier, reader, history, Stage
    <2>2. QED
      BY <1>1, <2>1, Untouched
  <1>7. QED
    BY <1>2, <1>3, <1>4, <1>5, <1>6, StepCases

LEMMA BqInvariant == Spec => []BqInv
  <1>1. Init => BqInv
    BY BqInit
  <1>2. BqInv /\ [Next]_vars => BqInv'
    <2> SUFFICES ASSUME BqInv, [Next]_vars PROVE BqInv'
      OBVIOUS
    <2>1. BqTypeOK /\ ClientsInv /\ CursorInv /\ ResetInv
      BY DEF BqInv
    <2>2. BqTypeOK' /\ ClientsInv' /\ CursorInv' /\ ResetInv'
      BY <2>1, TypeStep, ClientsStep, CursorStep, ResetStep
    <2>3. \A d \in BqClients : ~torn'[d] => ClientInv(d)'
      BY ClientStep
    <2>4. QED
      BY <2>2, <2>3 DEF BqInv
  <1>3. QED
    BY <1>1, <1>2, PTL DEF Spec

\* What BQ_items() returns of a queue that holds the blocks that end with m.
LEMMA Items ==
  ASSUME NEW q, QueueOK(q), NEW m \in Nat, Window(q, m)
  PROVE  BQ_items(q) = [i \in 1 .. BQ_count(q) |-> m - BQ_count(q) + i]
  <1>1. BQ_count(q) \in Nat /\ q.tail \in Nat
    BY QueueCounts, QueueFields
  <1>2. ASSUME NEW i \in 1 .. BQ_count(q)
        PROVE  q.buf[(q.tail + i - 1) % q.bq_len] = m - BQ_count(q) + i
    <2>1. i - 1 \in 0 .. BQ_count(q) - 1
      BY <1>1
    <2>2. Cell(q, i - 1) = m - BQ_count(q) + 1 + (i - 1)
      BY <2>1 DEF Window
    <2>3. q.tail + (i - 1) = q.tail + i - 1 /\ m - BQ_count(q) + 1 + (i - 1) = m - BQ_count(q) + i
      BY <1>1
    <2>4. QED
      BY <2>2, <2>3 DEF Cell
  <1>3. QED
    BY <1>2 DEF BQ_items

\* A client whose queue was never reset is given every block captured since
\* it opened the device, once and in order, although BQ_put() of
\* acq400_bq_notify() and its own BQ_get_st() run at the same time.
THEOREM EveryBlockOnce == Spec => []ExactlyOnceInOrder
  <1>1. BqInv => ExactlyOnceInOrder
    <2> SUFFICES ASSUME BqInv, NEW c \in BqClients, ~reset[c]
                 PROVE  BQ_items(bq[c]) = [i \in 1 .. put[c] - last[c] |-> last[c] + i]
      BY DEF ExactlyOnceInOrder
    <2>1. ~torn[c] /\ Stage(c) # "head"
      BY DEF BqInv, ResetInv
    <2>2. Window(bq[c], put[c]) /\ last[c] + BQ_count(bq[c]) = put[c]
      BY <2>1 DEF BqInv, ClientInv
    <2>3. QueueOK(bq[c]) /\ put[c] \in Nat /\ last[c] \in Nat
      BY DEF BqInv, BqTypeOK
    <2>4. BQ_count(bq[c]) \in Nat
      BY <2>3, QueueCounts, QueueFields
    <2>5. BQ_items(bq[c]) = [i \in 1 .. BQ_count(bq[c]) |-> put[c] - BQ_count(bq[c]) + i]
      BY <2>2, <2>3, Items
    <2>6. put[c] - last[c] = BQ_count(bq[c]) /\ put[c] - BQ_count(bq[c]) = last[c]
      BY <2>2, <2>3, <2>4
    <2>7. QED
      BY <2>5, <2>6
  <1>2. QED
    BY <1>1, BqInvariant, PTL

\* acq400_bq_notify() resets a queue before the capture has gone once round
\* the host buffers: the numbers that wait in it name different buffers.
THEOREM QueueNamesDiffer == Spec => []QueuedBuffersDiffer
  <1>1. BqInv => QueuedBuffersDiffer
    <2> SUFFICES ASSUME BqInv, NEW c \in BqClients, ~torn[c], npc \notin {"head", "put", "incr"},
                        NEW i \in 1 .. Len(BQ_items(bq[c])), NEW j \in 1 .. Len(BQ_items(bq[c])), i # j
                 PROVE  Ix(BQ_items(bq[c])[i]) # Ix(BQ_items(bq[c])[j])
      BY DEF QueuedBuffersDiffer
    <2> DEFINE k == BQ_count(bq[c])
               s == BQ_items(bq[c])
    <2>1. Window(bq[c], put[c]) /\ last[c] + k <= put[c] /\ k <= Bound
      <3>1. Stage(c) # "head"
        BY DEF Stage
      <3>2. QED
        BY <3>1 DEF BqInv, ClientInv
    <2>2. QueueOK(bq[c]) /\ put[c] \in Nat /\ last[c] \in Nat
      BY DEF BqInv, BqTypeOK
    <2>3. k \in Nat
      BY <2>2, QueueCounts, QueueFields
    <2>4. s = [x \in 1 .. k |-> put[c] - k + x]
      BY <2>1, <2>2, Items
    <2> HIDE DEF k, s
    <2>5. Len(s) = k /\ \A x \in 1 .. k : s[x] = put[c] - k + x
      BY <2>3, <2>4
    <2>6. ASSUME NEW x \in 1 .. k, NEW y \in 1 .. k, x < y
          PROVE  Ix(s[x]) # Ix(s[y])
      <3>1. s[x] \in Nat /\ s[y] \in Nat /\ s[x] < s[y] /\ s[y] - s[x] = y - x
        <4>1. s[x] = put[c] - k + x /\ s[y] = put[c] - k + y
          BY <2>5
        <4>2. put[c] - k \in Nat
          BY <2>1, <2>2, <2>3
        <4>3. QED
          BY <2>3, <2>6, <4>1, <4>2
      <3>2. y - x < nbuffers
        BY <2>1, <2>3, <2>6, BufferQueueAssumption DEF Bound
      <3>3. QED
        BY <3>1, <3>2, NearDiffer, BufferQueueAssumption DEF Ix
    <2>7. i \in 1 .. k /\ j \in 1 .. k
      BY <2>5 DEF s
    <2>8. CASE i < j
      BY <2>6, <2>7, <2>8 DEF s
    <2>9. CASE j < i
      BY <2>6, <2>7, <2>9 DEF s
    <2>10. QED
      BY <2>3, <2>7, <2>8, <2>9
  <1>2. QED
    BY <1>1, BqInvariant, PTL

\* A client that was reset, but not between the accesses of BQ_get_st(), goes
\* on with blocks newer than the last it was given.
THEOREM GoesOnNewer == Spec => NewerAfterOverrun
  <1>1. BqInv /\ [Next]_vars => [\A c \in BqClients : GetStore(c) /\ ~torn[c] => item[c] > last[c]]_vars
    <2> SUFFICES ASSUME BqInv, NEW c \in BqClients, GetStore(c), ~torn[c]
                 PROVE  item[c] > last[c]
      OBVIOUS
    <2>1. pc[c] = "store" /\ BqTypeOK /\ ClientInv(c)
      BY DEF GetStore, At, BqInv
    <2>2. /\ item[c] = put[c] - BQ_count(bq[c]) + 1 /\ last[c] + BQ_count(bq[c]) <= put[c]
          /\ BQ_count(bq[c]) \in Nat /\ put[c] \in Nat /\ last[c] \in Nat
      BY <2>1, Given
    <2>3. QED
      BY <2>2
  <1>2. QED
    BY <1>1, BqInvariant, PTL DEF Spec, NewerAfterOverrun

----------------------------------------------------------------------------
(* The live view hb0.                                                      *)

Hb0TypeOK ==
  /\ now \in Nat /\ hb_n \in Nat
  /\ upc \in {"idle", "test", "ix0", "ix1", "m1"}
  /\ rt \in [hb0_count : Nat, hb0_ix0 : Nat, hb0_ix1 : Nat, hb0_last : Nat, hbm_m1 : Nat \cup {-1}]
  /\ hb_pc \in [BqClients -> {"idle", "wait", "asleep", "copy", "ix0", "ix1"}]
  /\ count \in [BqClients -> Int] /\ seen \in [BqClients -> Int]
  /\ ix0 \in [BqClients -> Nat] /\ pair \in [BqClients -> Nat \X Nat]
  /\ raced \in [BqClients -> BOOLEAN]

\* hb0_count has changed, and not yet both buffers of the pair.
Publishing == upc \in {"ix0", "ix1"}

\* hbm_m1 is the buffer before the current one, published or not.
PreviousKept ==
  /\ upc = "idle" => rt.hbm_m1 = IF hb_n = 0 THEN -1 ELSE hb_n
  /\ upc # "idle" => hb_n >= 1 /\ rt.hbm_m1 = IF hb_n = 1 THEN -1 ELSE hb_n - 1
  /\ Publishing => hb_n > 1 /\ rt.hb0_count > 0

\* The published pair is consecutive, and older than a block not published yet.
PairInv ==
  /\ upc = "ix1" => rt.hb0_ix0 = hb_n - 1
  /\ upc \in {"idle", "m1"} => rt.hb0_ix1 <= hb_n
  /\ upc \in {"test", "ix0", "ix1"} => rt.hb0_ix1 < hb_n
  /\ ~Publishing /\ rt.hb0_count > 0 => rt.hb0_ix1 = rt.hb0_ix0 + 1

\* With the rate limit a pair is published in a later second than the one before.
RateInv ==
  /\ rt.hb0_last <= now
  /\ hb0_no_ratelimit = 0 => rt.hb0_count <= rt.hb0_last

\* The pairs that can be read whole.
Complete == IF Publishing THEN rt.hb0_count - 1 ELSE rt.hb0_count

\* A client in a read() knows a count from its beginning.  When a later pair is
\* complete it is newer than what the client was given by the read() before; a
\* client that copies has found a later count, and unless it races with its
\* publication, a complete pair.
Hb0ClientInv(c) ==
  /\ pair[c][2] <= rt.hb0_ix1
  /\ hb_pc[c] # "idle" =>
       /\ seen[c] \in Nat /\ seen[c] <= rt.hb0_count
       /\ seen[c] < Complete => pair[c][2] < rt.hb0_ix1
  /\ hb_pc[c] \in {"copy", "ix0", "ix1"} =>
       /\ seen[c] < rt.hb0_count
       /\ ~raced[c] => ~Publishing
  /\ hb_pc[c] = "ix1" /\ ~raced[c] => ix0[c] = rt.hb0_ix0

UpdaterInv == PreviousKept /\ PairInv /\ RateInv

Hb0Inv == Hb0TypeOK /\ UpdaterInv /\ \A c \in BqClients : Hb0ClientInv(c)

LEMMA Hb0Start == AllInit => Hb0Inv
  <1>1. AllInit => H!Init
    BY DEF AllInit
  <1>2. H!Init => Hb0Inv
    BY DEF H!Init, H!None, Hb0Inv, UpdaterInv, Hb0TypeOK, PreviousKept, PairInv, RateInv,
           Publishing, Complete, Hb0ClientInv
  <1>3. QED
    BY <1>1, <1>2

\* A step of any device, for each of the others.
LEMMA SumStep ==
  [AllNext]_allvars =>
    /\ H!Next \/ UNCHANGED hb0vars
    /\ Sew!Next \/ UNCHANGED sewvars
    /\ Seg!Next \/ UNCHANGED segvars
  <1> SUFFICES ASSUME [AllNext]_allvars
               PROVE  /\ H!Next \/ UNCHANGED hb0vars
                      /\ Sew!Next \/ UNCHANGED sewvars
                      /\ Seg!Next \/ UNCHANGED segvars
    OBVIOUS
  <1>1. CASE UNCHANGED allvars
    BY <1>1 DEF allvars
  <1>2. CASE BqOnly
    BY <1>2 DEF BqOnly
  <1>3. CASE Hb0Only /\ H!Next
    BY <1>3 DEF Hb0Only
  <1>4. CASE SewOnly /\ Sew!Next
    BY <1>4 DEF SewOnly
  <1>5. CASE SegOnly /\ Seg!Next
    BY <1>5 DEF SegOnly
  <1>6. QED
    BY <1>1, <1>2, <1>3, <1>4, <1>5 DEF AllNext

\* A step of either device, as a step of hb0.
LEMMA Hb0Cases ==
  [AllNext]_allvars =>
    \/ UNCHANGED hb0vars
    \/ H!Tick \/ H!NextBlock \/ H!CaptureEnds
    \/ H!UpdateCount \/ H!NotDue \/ H!UpdatePrevious \/ H!UpdateCurrent \/ H!UpdateDone
    \/ \E c \in BqClients :
         H!Hb0Read(c) \/ H!Wait(c) \/ H!Interrupted(c)
         \/ H!CopyCount(c) \/ H!CopyPrevious(c) \/ H!CopyCurrent(c)
  BY SumStep DEF H!Next, H!Updating, H!Reading

LEMMA Hb0TypeStep == Hb0TypeOK /\ PreviousKept /\ [AllNext]_allvars => Hb0TypeOK'
  <1> SUFFICES ASSUME Hb0TypeOK, PreviousKept, [AllNext]_allvars
               PROVE  Hb0TypeOK'
    OBVIOUS
  <1> USE DEF Hb0TypeOK, H!None
  <1>1. CASE UNCHANGED hb0vars
    BY <1>1 DEF hb0vars
  <1>2. CASE H!Tick
    BY <1>2 DEF H!Tick, H!client
  <1>3. CASE H!NextBlock
    BY <1>3 DEF H!NextBlock, H!client
  <1>4. CASE H!UpdateCount
    <2> DEFINE counted == [rt EXCEPT !.hb0_count = rt.hb0_count + 1]
               RT == [hb0_count : Nat, hb0_ix0 : Nat, hb0_ix1 : Nat, hb0_last : Nat, hbm_m1 : Nat \cup {-1}]
    <2>1. rt' = [counted EXCEPT !.hb0_last = now]
      BY <1>4 DEF H!UpdateCount
    <2>5. counted \in RT
      OBVIOUS
    <2> HIDE DEF counted
    <2>2. rt' \in RT
      BY <2>1, <2>5
    <2>3. raced' \in [BqClients -> BOOLEAN]
      BY <1>4 DEF H!UpdateCount
    <2>4. QED
      BY <1>4, <2>2, <2>3 DEF H!UpdateCount
  <1>5. CASE H!NotDue
    BY <1>5 DEF H!NotDue, H!client
  <1>6. CASE H!UpdatePrevious
    <2>1. rt.hbm_m1 \in Nat => Hb0TypeOK'
      BY <1>6 DEF H!UpdatePrevious, H!client
    <2>2. rt.hbm_m1 \in Nat
      BY <1>6 DEF H!UpdatePrevious, PreviousKept, Publishing
    <2>3. QED
      BY <2>1, <2>2
  <1>7. CASE H!UpdateCurrent
    BY <1>7 DEF H!UpdateCurrent
  <1>8. CASE H!UpdateDone
    BY <1>8 DEF H!UpdateDone, H!client
  <1>9. CASE H!CaptureEnds
    BY <1>9 DEF H!CaptureEnds, H!client
  <1>10. ASSUME NEW c \in BqClients, H!Hb0Read(c)
         PROVE  Hb0TypeOK'
    BY <1>10 DEF H!Hb0Read, H!Goto, H!At, H!updater
  <1>11. ASSUME NEW c \in BqClients, H!Wait(c)
         PROVE  Hb0TypeOK'
    BY <1>11 DEF H!Wait, H!Goto, H!At, H!updater
  <1>12. ASSUME NEW c \in BqClients, H!Interrupted(c)
         PROVE  Hb0TypeOK'
    BY <1>12 DEF H!Interrupted, H!Goto, H!At, H!updater
  <1>13. ASSUME NEW c \in BqClients, H!CopyCount(c)
         PROVE  Hb0TypeOK'
    BY <1>13 DEF H!CopyCount, H!Goto, H!At, H!updater
  <1>14. ASSUME NEW c \in BqClients, H!CopyPrevious(c)
         PROVE  Hb0TypeOK'
    BY <1>14 DEF H!CopyPrevious, H!Goto, H!At, H!updater
  <1>15. ASSUME NEW c \in BqClients, H!CopyCurrent(c)
         PROVE  Hb0TypeOK'
    BY <1>15 DEF H!CopyCurrent, H!Goto, H!At, H!updater
  <1>16. QED
    BY Hb0Cases, <1>1, <1>2, <1>3, <1>4, <1>5, <1>6, <1>7, <1>8, <1>9, <1>10, <1>11, <1>12, <1>13, <1>14, <1>15

\* What the steps of a client leave alone.
LEMMA Hb0ClientFrame ==
  ASSUME NEW c \in BqClients,
         \/ H!Hb0Read(c) \/ H!Wait(c) \/ H!Interrupted(c)
         \/ H!CopyCount(c) \/ H!CopyPrevious(c) \/ H!CopyCurrent(c)
  PROVE  now' = now /\ hb_n' = hb_n /\ upc' = upc /\ rt' = rt
  BY DEF H!Hb0Read, H!Wait, H!Interrupted, H!CopyCount, H!CopyPrevious, H!CopyCurrent, H!updater

\* The updater keeps the previous buffer and the pair, whatever the clients do.
LEMMA UpdaterStep == Hb0TypeOK /\ UpdaterInv /\ [AllNext]_allvars => UpdaterInv'
  <1> SUFFICES ASSUME Hb0TypeOK, UpdaterInv, [AllNext]_allvars
               PROVE  UpdaterInv'
    OBVIOUS
  <1> USE DEF Hb0TypeOK, UpdaterInv, PreviousKept, PairInv, RateInv, Publishing, H!None
  <1>1. CASE UNCHANGED hb0vars
    BY <1>1 DEF hb0vars
  <1>2. CASE H!Tick
    BY <1>2 DEF H!Tick
  <1>3. CASE H!NextBlock
    BY <1>3 DEF H!NextBlock
  <1>4. CASE H!UpdateCount
    BY <1>4 DEF H!UpdateCount, H!Due
  <1>5. CASE H!NotDue
    BY <1>5 DEF H!NotDue
  <1>6. CASE H!UpdatePrevious
    BY <1>6 DEF H!UpdatePrevious
  <1>7. CASE H!UpdateCurrent
    <2>1. /\ rt.hb0_ix1 \in Nat /\ rt.hb0_ix0 \in Nat /\ rt.hb0_count \in Nat /\ hb_n \in Nat
          /\ upc = "ix1" /\ upc' = "m1" /\ hb_n' = hb_n /\ now' = now
      BY <1>7 DEF H!UpdateCurrent
    <2>2. /\ rt'.hb0_ix1 = hb_n /\ rt'.hb0_ix0 = rt.hb0_ix0 /\ rt'.hb0_count = rt.hb0_count
          /\ rt'.hb0_last = rt.hb0_last /\ rt'.hbm_m1 = rt.hbm_m1
      BY <1>7 DEF H!UpdateCurrent
    <2>6. rt.hb0_ix0 + 1 = hb_n
      BY <2>1
    <2>3. PreviousKept' /\ RateInv'
      BY <2>1, <2>2
    <2>4. PairInv'
      BY <2>1, <2>2, <2>6
    <2>5. QED
      BY <2>3, <2>4
  <1>8. CASE H!UpdateDone
    BY <1>8 DEF H!UpdateDone
  <1>9. CASE H!CaptureEnds
    BY <1>9 DEF H!CaptureEnds
  <1>10. ASSUME now' = now, hb_n' = hb_n, upc' = upc, rt' = rt
         PROVE  UpdaterInv'
    BY <1>10
  <1>11. QED
    BY Hb0Cases, Hb0ClientFrame, <1>1, <1>2, <1>3, <1>4, <1>5, <1>6, <1>7, <1>8, <1>9, <1>10


LEMMA Hb0ClientTypes ==
  ASSUME Hb0TypeOK, NEW c \in BqClients
  PROVE  /\ rt.hb0_count \in Nat /\ rt.hb0_ix0 \in Nat /\ rt.hb0_ix1 \in Nat /\ hb_n \in Nat
         /\ count[c] \in Int /\ seen[c] \in Int /\ ix0[c] \in Nat
         /\ pair[c] \in Nat \X Nat /\ pair[c][2] \in Nat /\ raced[c] \in BOOLEAN
         /\ hb_pc[c] \in {"idle", "wait", "asleep", "copy", "ix0", "ix1"}
         /\ upc \in {"idle", "test", "ix0", "ix1", "m1"}
  BY DEF Hb0TypeOK

\* A client whose variables a step leaves alone, and for which no pair is begun
\* or completed.
LEMMA Hb0ClientRests ==
  ASSUME Hb0TypeOK, NEW c \in BqClients, Hb0ClientInv(c),
         hb_pc'[c] = hb_pc[c], seen'[c] = seen[c], ix0'[c] = ix0[c], pair'[c] = pair[c],
         raced'[c] = raced[c], Publishing' <=> Publishing,
         rt'.hb0_count = rt.hb0_count, rt'.hb0_ix1 = rt.hb0_ix1,
         hb_pc[c] = "ix1" /\ ~raced[c] => rt'.hb0_ix0 = rt.hb0_ix0
  PROVE  Hb0ClientInv(c)'
  BY DEF Hb0ClientInv, Complete

\* The steps of the updater, for a client.
LEMMA UpdaterForClient ==
  ASSUME Hb0TypeOK, UpdaterInv, NEW c \in BqClients, Hb0ClientInv(c),
         \/ H!Tick \/ H!NextBlock \/ H!CaptureEnds
         \/ H!UpdateCount \/ H!NotDue \/ H!UpdatePrevious \/ H!UpdateCurrent \/ H!UpdateDone
  PROVE  Hb0ClientInv(c)'
  <1> USE Hb0ClientTypes
  <1>1. CASE H!Tick \/ H!NextBlock \/ H!CaptureEnds \/ H!NotDue
    BY <1>1, Hb0ClientRests DEF H!Tick, H!NextBlock, H!CaptureEnds, H!NotDue, H!client, Publishing
  <1>2. CASE H!UpdateDone
    <2>1. rt'.hb0_count = rt.hb0_count /\ rt'.hb0_ix1 = rt.hb0_ix1 /\ rt'.hb0_ix0 = rt.hb0_ix0
      BY <1>2 DEF H!UpdateDone, Hb0TypeOK
    <2>2. QED
      BY <1>2, <2>1, Hb0ClientRests DEF H!UpdateDone, H!client, Publishing
  <1>3. CASE H!UpdatePrevious
    <2>1. rt'.hb0_count = rt.hb0_count /\ rt'.hb0_ix1 = rt.hb0_ix1
      BY <1>3 DEF H!UpdatePrevious, Hb0TypeOK
    <2>2. Publishing /\ Publishing'
      BY <1>3 DEF H!UpdatePrevious, Publishing
    <2>3. ~(hb_pc[c] = "ix1" /\ ~raced[c])
      BY <2>2 DEF Hb0ClientInv
    <2>4. QED
      BY <1>3, <2>1, <2>2, <2>3, Hb0ClientRests DEF H!UpdatePrevious, H!client
  <1>4. CASE H!UpdateCount
    <2>1. /\ rt'.hb0_count = rt.hb0_count + 1 /\ rt'.hb0_ix1 = rt.hb0_ix1 /\ rt'.hb0_ix0 = rt.hb0_ix0
      BY <1>4 DEF H!UpdateCount, Hb0TypeOK
    <2>2. ~Publishing /\ Publishing'
      BY <1>4 DEF H!UpdateCount, Publishing
    <2>3. /\ hb_pc' = hb_pc /\ seen' = seen /\ ix0' = ix0 /\ pair' = pair
          /\ hb_pc[c] \in {"copy", "ix0", "ix1"} => raced'[c]
      BY <1>4 DEF H!UpdateCount
    <2>4. Complete' = Complete /\ Complete = rt.hb0_count
      BY <2>1, <2>2 DEF Complete
    <2>5. QED
      BY <2>1, <2>2, <2>3, <2>4 DEF Hb0ClientInv
  <1>5. CASE H!UpdateCurrent
    <2>1. /\ rt'.hb0_count = rt.hb0_count /\ rt'.hb0_ix1 = hb_n /\ rt'.hb0_ix0 = rt.hb0_ix0
      BY <1>5 DEF H!UpdateCurrent, Hb0TypeOK
    <2>2. Publishing /\ ~Publishing' /\ upc = "ix1"
      BY <1>5 DEF H!UpdateCurrent, Publishing
    <2>3. /\ seen' = seen /\ ix0' = ix0 /\ pair' = pair /\ raced' = raced
          /\ hb_pc'[c] = IF hb_pc[c] = "asleep" THEN "wait" ELSE hb_pc[c]
      BY <1>5 DEF H!UpdateCurrent
    <2>4. rt.hb0_ix1 < hb_n
      BY <2>2 DEF UpdaterInv, PairInv
    <2>5. pair[c][2] < hb_n /\ pair'[c][2] <= rt'.hb0_ix1 /\ pair'[c][2] < rt'.hb0_ix1
      BY <2>1, <2>3, <2>4 DEF Hb0ClientInv
    <2>6. hb_pc'[c] # "idle" => hb_pc[c] # "idle"
      BY <2>3
    <2>7. hb_pc'[c] \in {"copy", "ix0", "ix1"} => hb_pc'[c] = hb_pc[c]
      BY <2>3
    <2>8. QED
      BY <2>1, <2>2, <2>3, <2>5, <2>6, <2>7 DEF Hb0ClientInv
  <1>6. QED
    BY <1>1, <1>2, <1>3, <1>4, <1>5

\* The steps of a client, for itself.
LEMMA Hb0OwnStep ==
  ASSUME hb0_no_ratelimit = 0, Hb0TypeOK, UpdaterInv, NEW c \in BqClients, Hb0ClientInv(c),
         \/ H!Hb0Read(c) \/ H!Wait(c) \/ H!Interrupted(c)
         \/ H!CopyCount(c) \/ H!CopyPrevious(c) \/ H!CopyCurrent(c)
  PROVE  Hb0ClientInv(c)'
  <1> USE Hb0ClientTypes
  <1>0. /\ rt' = rt /\ (Publishing' <=> Publishing) /\ Complete' = Complete
    BY Hb0ClientFrame DEF Publishing, Complete
  <1>1. CASE H!Hb0Read(c)
    <2>1. /\ hb_pc'[c] = "wait" /\ seen'[c] = rt.hb0_count /\ pair'[c] = pair[c]
      BY <1>1 DEF H!Hb0Read, H!Goto, Hb0TypeOK
    <2>2. Complete <= rt.hb0_count
      BY DEF Complete
    <2>3. QED
      BY <1>0, <2>1, <2>2 DEF Hb0ClientInv, Complete
  <1>2. CASE H!Wait(c)
    <2>1. /\ hb_pc[c] = "wait" /\ seen'[c] = seen[c] /\ pair'[c] = pair[c]
          /\ raced'[c] <=> Publishing
          /\ hb_pc'[c] \in {"idle", "copy", "asleep"}
          /\ hb_pc'[c] = "copy" => rt.hb0_count # seen[c]
      BY <1>2 DEF H!Wait, H!At, H!Goto, Hb0TypeOK, Publishing
    <2>2. QED
      BY <1>0, <2>1 DEF Hb0ClientInv
  <1>3. CASE H!Interrupted(c)
    <2>1. hb_pc'[c] = "idle" /\ pair'[c] = pair[c]
      BY <1>3 DEF H!Interrupted, H!Goto, Hb0TypeOK
    <2>2. QED
      BY <1>0, <2>1 DEF Hb0ClientInv
  <1>4. CASE H!CopyCount(c)
    <2>1. /\ hb_pc[c] = "copy" /\ hb_pc'[c] = "ix0" /\ pair'[c] = pair[c] /\ seen'[c] = seen[c]
          /\ raced'[c] = raced[c]
      BY <1>4 DEF H!CopyCount, H!At, H!Goto, Hb0TypeOK
    <2>2. QED
      BY <1>0, <2>1 DEF Hb0ClientInv
  <1>5. CASE H!CopyPrevious(c)
    <2>1. /\ hb_pc[c] = "ix0" /\ hb_pc'[c] = "ix1" /\ pair'[c] = pair[c] /\ seen'[c] = seen[c]
          /\ raced'[c] = raced[c] /\ ix0'[c] = rt.hb0_ix0
      BY <1>5 DEF H!CopyPrevious, H!At, H!Goto, Hb0TypeOK
    <2>2. QED
      BY <1>0, <2>1 DEF Hb0ClientInv
  <1>6. CASE H!CopyCurrent(c)
    <2>1. hb_pc'[c] = "idle" /\ pair'[c][2] = rt.hb0_ix1
      BY <1>6 DEF H!CopyCurrent, H!Goto, Hb0TypeOK
    <2>2. QED
      BY <1>0, <2>1 DEF Hb0ClientInv
  <1>7. QED
    BY <1>1, <1>2, <1>3, <1>4, <1>5, <1>6

\* The steps of a client, for another.
LEMMA Hb0OtherStep ==
  ASSUME Hb0TypeOK, NEW c \in BqClients, Hb0ClientInv(c), NEW d \in BqClients, d # c,
         \/ H!Hb0Read(d) \/ H!Wait(d) \/ H!Interrupted(d)
         \/ H!CopyCount(d) \/ H!CopyPrevious(d) \/ H!CopyCurrent(d)
  PROVE  Hb0ClientInv(c)'
  <1>1. /\ hb_pc'[c] = hb_pc[c] /\ seen'[c] = seen[c] /\ ix0'[c] = ix0[c]
        /\ pair'[c] = pair[c] /\ raced'[c] = raced[c]
    BY DEF H!Hb0Read, H!Wait, H!Interrupted, H!CopyCount, H!CopyPrevious, H!CopyCurrent, H!Goto,
           Hb0TypeOK
  <1>2. QED
    BY <1>1, Hb0ClientFrame, Hb0ClientRests DEF Publishing

LEMMA Hb0Step == hb0_no_ratelimit = 0 /\ Hb0Inv /\ [AllNext]_allvars => Hb0Inv'
  <1> SUFFICES ASSUME hb0_no_ratelimit = 0, Hb0Inv, [AllNext]_allvars
               PROVE  Hb0Inv'
    OBVIOUS
  <1>1. Hb0TypeOK' /\ UpdaterInv'
    BY Hb0TypeStep, UpdaterStep DEF Hb0Inv, UpdaterInv
  <1>2. ASSUME NEW c \in BqClients
        PROVE  Hb0ClientInv(c)'
    <2>1. CASE UNCHANGED hb0vars
      BY <2>1, Hb0ClientRests DEF hb0vars, Hb0Inv, Publishing
    <2>2. CASE \E d \in BqClients :
                 \/ H!Hb0Read(d) \/ H!Wait(d) \/ H!Interrupted(d)
                 \/ H!CopyCount(d) \/ H!CopyPrevious(d) \/ H!CopyCurrent(d)
      BY <2>2, Hb0OwnStep, Hb0OtherStep DEF Hb0Inv
    <2>3. QED
      BY <2>1, <2>2, Hb0Cases, UpdaterForClient DEF Hb0Inv
  <1>3. QED
    BY <1>1, <1>2 DEF Hb0Inv

\* Whatever the rate, the pair in the run time is consecutive whenever it is
\* not being published: update_hb0() keeps hbm_m1 up also when it publishes nothing.
THEOREM Hb0PairConsecutive == AllSpec => []H!PublishedConsecutive
  <1>1. AllInit => Hb0TypeOK /\ UpdaterInv
    BY Hb0Start DEF Hb0Inv
  <1>2. Hb0TypeOK /\ UpdaterInv /\ [AllNext]_allvars => (Hb0TypeOK /\ UpdaterInv)'
    BY Hb0TypeStep, UpdaterStep DEF UpdaterInv
  <1>3. Hb0TypeOK /\ UpdaterInv => H!PublishedConsecutive
    BY DEF UpdaterInv, PairInv, Publishing, H!PublishedConsecutive
  <1>4. QED
    BY <1>1, <1>2, <1>3, PTL DEF AllSpec

\* With the rate limit, as the module is loaded: pairs are consecutive, one a
\* second at most, and what a read() returns, unless a publication overlaps it, is
\* such a pair and newer than that of the read() before, for any number of clients,
\* blocks and seconds.
THEOREM Hb0PairsConsecutive == hb0_no_ratelimit = 0 => (AllSpec => PairsConsecutive)
  <1> SUFFICES ASSUME hb0_no_ratelimit = 0
               PROVE  AllSpec => PairsConsecutive
    OBVIOUS
  <1>1. AllSpec => []Hb0Inv
    <2>1. AllInit => Hb0Inv
      BY Hb0Start
    <2>2. Hb0Inv /\ [AllNext]_allvars => Hb0Inv'
      BY Hb0Step
    <2>3. QED
      BY <2>1, <2>2, PTL DEF AllSpec
  <1>2. Hb0Inv => H!PublishedConsecutive /\ H!RateLimited
    BY DEF Hb0Inv, Hb0TypeOK, UpdaterInv, PairInv, RateInv, Publishing,
           H!PublishedConsecutive, H!RateLimited
  <1>3. Hb0Inv /\ [AllNext]_allvars =>
          [\A c \in BqClients : H!CopyCurrent(c) /\ ~raced[c] =>
             /\ pair'[c][2] = pair'[c][1] + 1
             /\ pair'[c][2] > pair[c][2]]_(H!vars)
    <2> SUFFICES ASSUME Hb0Inv, NEW c \in BqClients, H!CopyCurrent(c), ~raced[c]
                 PROVE  pair'[c][2] = pair'[c][1] + 1 /\ pair'[c][2] > pair[c][2]
      OBVIOUS
    <2>1. hb_pc[c] = "ix1" /\ pair'[c] = <<ix0[c], rt.hb0_ix1>>
      BY DEF H!CopyCurrent, H!At, Hb0Inv, Hb0TypeOK
    <2>2. Hb0TypeOK /\ UpdaterInv /\ Hb0ClientInv(c)
      BY DEF Hb0Inv
    <2>3. /\ ~Publishing /\ ix0[c] = rt.hb0_ix0 /\ seen[c] < rt.hb0_count /\ seen[c] \in Nat
          /\ Complete = rt.hb0_count /\ pair[c][2] < rt.hb0_ix1
      BY <2>1, <2>2 DEF Hb0ClientInv, Complete
    <2>4. rt.hb0_count > 0 /\ rt.hb0_ix1 = rt.hb0_ix0 + 1
      BY <2>2, <2>3, Hb0ClientTypes DEF UpdaterInv, PairInv
    <2>5. QED
      BY <2>1, <2>2, <2>3, <2>4, Hb0ClientTypes
  <1>4. QED
    BY <1>1, <1>2, <1>3, PTL DEF AllSpec, PairsConsecutive, H!ReadsNewPair

----------------------------------------------------------------------------
(* The software embedded words.                                            *)

SewTypeOK ==
  /\ QueueOK(sew_q)
  /\ sf_task \in BOOLEAN /\ spoilt \in BOOLEAN
  /\ sew_pc \in [SewUsers -> {"closed", "open", "write", "stop", "free"}]
  /\ iwrite \in Nat /\ sew_count \in Nat /\ written \in Nat
  /\ work \in [pc : {"none", "wait", "embed"}, payload_count : Nat]

\* One file has the kthread.
SewUserInv ==
  /\ \A u, v \in SewUsers :
       sew_pc[u] \in {"open", "write", "stop"} =>
         /\ sf_task
         /\ sew_pc[v] \in {"open", "write", "stop"} => u = v
  /\ \A u \in SewUsers :
       /\ sew_pc[u] = "write" => iwrite < sew_count
       /\ sew_pc[u] = "open" => iwrite = 0

SewOpen == \E u \in SewUsers : sew_pc[u] \in {"open", "write"}

\* The bytes written since open().
Written == written + iwrite

\* The bytes up to the k-th.
Bytes(k) == [i \in 1 .. k |-> i]

\* The bytes written, numbered from 1 on, are those received and, after them, those
\* in the ring; the kthread has counted no more than there are.
SewRingInv ==
  SewOpen /\ ~spoilt =>
    /\ Window(sew_q, Written)
    /\ BQ_count(sew_q) <= Written
    /\ received = Bytes(Written - BQ_count(sew_q))
    /\ work.pc = "embed" => work.payload_count <= BQ_count(sew_q)

SewInv == SewTypeOK /\ SewUserInv /\ SewRingInv

\* The ring of the embedded words is a struct circ_buf with the accesses of a BQ.
LEMMA SewRing ==
  \A q, x : /\ Sew!BQ_init(x) = BQ_init(x) /\ Sew!BQ_put(q, x) = BQ_put(q, x)
            /\ Sew!BQ_count(q) = BQ_count(q) /\ Sew!BQ_space(q) = BQ_space(q)
            /\ Sew!BQ_items(q) = BQ_items(q)
  BY DEF Sew!BQ_init, Sew!BQ_put, Sew!BQ_store, Sew!BQ_advance, Sew!BQ_incr, Sew!BQ_count,
         Sew!BQ_space, Sew!BQ_items,
         BQ_init, BQ_put, BQ_store, BQ_advance, BQ_incr, BQ_count, BQ_space, BQ_items

\* The next k bytes after the first a.
LEMMA NextBytes ==
  ASSUME NEW a \in Nat, NEW k \in Nat
  PROVE  Bytes(a) \o [i \in 1 .. k |-> a + i] = Bytes(a + k)
  BY DEF Bytes

LEMMA SewStart == AllInit => SewInv
  <1> SUFFICES ASSUME Sew!Init
               PROVE  SewInv
    BY DEF AllInit
  <1>1. sew_q = BQ_init(SEW_FIFO_LEN) /\ SEW_FIFO_LEN \in Nat /\ SEW_FIFO_LEN >= 2
    BY SewRing, SewFifoConstants DEF Sew!Init, Sew!SewFifoAssumption
  <1>2. QueueOK(sew_q)
    BY <1>1, InitQueue
  <1>3. SewTypeOK /\ SewUserInv /\ ~SewOpen
    BY <1>2 DEF Sew!Init, SewTypeOK, SewUserInv, SewOpen
  <1>4. QED
    BY <1>3 DEF SewInv, SewRingInv

\* The buffer is there and empty, and the kthread starts.
LEMMA SewOpenStep ==
  ASSUME SewInv, NEW u \in SewUsers, Sew!Open(u)
  PROVE  SewInv'
  <1> USE DEF SewInv
  <1>1. sew_q' = BQ_clear(sew_q)
    BY DEF Sew!Open, Sew!acq400_sew_fifo_init, BQ_clear
  <1>2. QueueOK(sew_q') /\ BQ_count(sew_q') = 0
    BY <1>1, ClearFacts DEF SewTypeOK
  <1>3. /\ sew_pc[u] = "closed" /\ sew_pc' = [sew_pc EXCEPT ![u] = "open"]
        /\ ~sf_task /\ sf_task' = TRUE
        /\ work' = [pc |-> "wait", payload_count |-> 0]
        /\ iwrite' = 0 /\ sew_count' = 0 /\ written' = 0 /\ received' = << >> /\ spoilt' = FALSE
    BY DEF Sew!Open, Sew!acq400_sew_fifo_init
  <1>4. SewTypeOK'
    BY <1>2, <1>3 DEF SewTypeOK
  <1>5. \A v \in SewUsers : sew_pc[v] \notin {"open", "write", "stop"}
    BY <1>3 DEF SewUserInv
  <1>6. \A v \in SewUsers : sew_pc'[v] = IF v = u THEN "open" ELSE sew_pc[v]
    BY <1>3 DEF SewTypeOK
  <1>7. SewUserInv'
    BY <1>3, <1>5, <1>6 DEF SewUserInv
  <1>8. SewRingInv'
    <2>1. Window(sew_q', 0)
      BY <1>2 DEF Window
    <2>2. Written' = 0 /\ received' = Bytes(0)
      BY <1>3 DEF Bytes, Written
    <2>3. QED
      BY <1>2, <1>3, <2>1, <2>2 DEF SewRingInv
  <1>9. QED
    BY <1>4, <1>7, <1>8

\* The other steps of open() and release() touch neither the ring nor the counts.
LEMMA SewCloseStep ==
  ASSUME SewInv, NEW u \in SewUsers, Sew!Release(u) \/ Sew!Stopped(u) \/ Sew!Free(u)
  PROVE  SewInv'
  <1> USE DEF SewInv
  <1>1. /\ sew_q' = sew_q /\ work' = work /\ received' = received
        /\ iwrite' = iwrite /\ sew_count' = sew_count /\ written' = written /\ spoilt' = spoilt
    BY DEF Sew!Release, Sew!Stopped, Sew!Free, Sew!kthread
  <1>2. \/ /\ sew_pc[u] = "open" /\ sew_pc' = [sew_pc EXCEPT ![u] = "stop"] /\ sf_task' = sf_task
        \/ /\ sew_pc[u] = "stop" /\ sew_pc' = [sew_pc EXCEPT ![u] = "free"] /\ sf_task' = FALSE
        \/ /\ sew_pc[u] = "free" /\ sew_pc' = [sew_pc EXCEPT ![u] = "closed"] /\ sf_task' = sf_task
    BY DEF Sew!Release, Sew!Stopped, Sew!Free
  <1>3. SewTypeOK'
    BY <1>1, <1>2 DEF SewTypeOK
  <1>4. \A v \in SewUsers : v # u => sew_pc'[v] = sew_pc[v]
    BY <1>2 DEF SewTypeOK
  <1>5. sew_pc'[u] \in {"stop", "free", "closed"}
    BY <1>2 DEF SewTypeOK
  <1>6. SewUserInv'
    <2>1. CASE sf_task' = sf_task /\ (sew_pc'[u] = "stop" => sew_pc[u] = "open")
      BY <1>1, <1>4, <1>5, <2>1 DEF SewUserInv
    <2>2. CASE sew_pc[u] = "stop" /\ sew_pc'[u] = "free"
      <3>1. \A v \in SewUsers : sew_pc'[v] \notin {"open", "write", "stop"}
        BY <1>4, <2>2 DEF SewUserInv
      <3>2. QED
        BY <3>1 DEF SewUserInv
    <2>3. QED
      BY <1>2, <2>1, <2>2 DEF SewTypeOK
  <1>7. SewOpen' => SewOpen
    BY <1>4, <1>5 DEF SewOpen
  <1>8. SewRingInv'
    BY <1>1, <1>7 DEF SewRingInv, Written
  <1>9. QED
    BY <1>3, <1>6, <1>8

LEMMA SewWriteStep ==
  ASSUME SewInv, NEW u \in SewUsers, Sew!Write(u)
  PROVE  SewInv'
  <1> USE DEF SewInv
  <1>1. /\ sew_pc[u] = "open" /\ sew_pc' = [sew_pc EXCEPT ![u] = "write"]
        /\ sew_q' = sew_q /\ sf_task' = sf_task /\ work' = work /\ received' = received
        /\ iwrite' = 0 /\ written' = written /\ spoilt' = spoilt
    BY DEF Sew!Write, Sew!kthread
  <1>2. sew_count' \in Nat /\ sew_count' >= 1
    <2>1. PICK k \in 1 .. MaxBytes - written : sew_count' = k
      BY DEF Sew!Write
    <2>2. k \in Int /\ k >= 1
      OBVIOUS
    <2>3. QED
      BY <2>1, <2>2
  <1>3. \A v \in SewUsers : sew_pc'[v] = IF v = u THEN "write" ELSE sew_pc[v]
    BY <1>1 DEF SewTypeOK
  <1>4. SewTypeOK'
    BY <1>1, <1>2 DEF SewTypeOK
  <1>5. iwrite = 0 /\ SewOpen
    BY <1>1 DEF SewUserInv, SewOpen
  <1>6. SewUserInv'
    BY <1>1, <1>2, <1>3, <1>5 DEF SewUserInv
  <1>7. SewRingInv'
    BY <1>1, <1>5 DEF SewRingInv, Written
  <1>8. QED
    BY <1>4, <1>6, <1>7

\* A byte is put, in space or not; what that does to the counts.
LEMMA SewPut ==
  ASSUME SewInv, NEW u \in SewUsers, Sew!Put(u), spoilt' \in BOOLEAN
  PROVE  /\ SewTypeOK' /\ SewUserInv' /\ SewOpen
         /\ sew_q' = BQ_put(sew_q, Written + 1) /\ Written' = Written + 1
         /\ received' = received /\ work' = work
  <1> USE DEF SewInv
  <1>1. /\ sew_pc[u] = "write" /\ sf_task' = sf_task /\ work' = work /\ received' = received
        /\ sew_count' = sew_count /\ sew_q' = BQ_put(sew_q, Written + 1)
    BY SewRing DEF Sew!Put, Sew!kthread, Written
  <1>2. iwrite < sew_count /\ iwrite \in Nat /\ sew_count \in Nat /\ written \in Nat
    BY <1>1 DEF SewUserInv, SewTypeOK
  <1>3. QueueOK(sew_q')
    BY <1>1, <1>2, PutFacts DEF SewTypeOK, Written
  <1>4. SewOpen
    BY <1>1 DEF SewOpen
  <1>5. CASE iwrite + 1 < sew_count
    <2>1. iwrite' = iwrite + 1 /\ sew_pc' = sew_pc /\ written' = written
      BY <1>5 DEF Sew!Put
    <2>2. SewTypeOK'
      BY <1>1, <1>2, <1>3, <2>1 DEF SewTypeOK
    <2>3. \A v \in SewUsers : sew_pc[v] # "open"
      BY <1>1 DEF SewUserInv
    <2>4. SewUserInv'
      BY <1>1, <1>5, <2>1, <2>3 DEF SewUserInv
    <2>5. QED
      BY <1>1, <1>2, <1>4, <2>1, <2>2, <2>4 DEF Written
  <1>6. CASE ~(iwrite + 1 < sew_count)
    <2>1. iwrite' = 0 /\ sew_pc' = [sew_pc EXCEPT ![u] = "open"] /\ written' = written + sew_count
      BY <1>6 DEF Sew!Put
    <2>2. \A v \in SewUsers : sew_pc'[v] = IF v = u THEN "open" ELSE sew_pc[v]
      BY <2>1 DEF SewTypeOK
    <2>3. SewTypeOK'
      BY <1>1, <1>2, <1>3, <2>1 DEF SewTypeOK
    <2>4. \A v \in SewUsers : v # u => sew_pc[v] \notin {"open", "write", "stop"}
      BY <1>1 DEF SewUserInv
    <2>5. SewUserInv'
      BY <1>1, <2>1, <2>2, <2>4 DEF SewUserInv
    <2>6. sew_count = iwrite + 1
      BY <1>2, <1>6
    <2>7. QED
      BY <1>1, <1>2, <1>4, <2>1, <2>3, <2>5, <2>6 DEF Written
  <1>7. QED
    BY <1>5, <1>6

LEMMA SewPutByteStep ==
  ASSUME SewInv, NEW u \in SewUsers, Sew!PutByte(u)
  PROVE  SewInv'
  <1>1. Sew!Put(u) /\ spoilt' = spoilt /\ Sew!HasSpace
    BY DEF Sew!PutByte
  <1>2. /\ BQ_space(sew_q) > 0 /\ QueueOK(sew_q) /\ spoilt \in BOOLEAN
        /\ Written \in Nat /\ work.payload_count \in Nat
    BY <1>1, SewRing DEF Sew!HasSpace, SewInv, SewTypeOK, Written
  <1>3. /\ SewTypeOK' /\ SewUserInv' /\ SewOpen
        /\ sew_q' = BQ_put(sew_q, Written + 1) /\ Written' = Written + 1
        /\ received' = received /\ work' = work
    BY <1>1, <1>2, SewPut
  <1>4. BQ_space(sew_q) \in Int /\ BQ_count(sew_q) \in Nat
    BY <1>2, QueueCounts, QueueFields
  <1>5. /\ BQ_count(sew_q') = BQ_count(sew_q) + 1
        /\ Window(sew_q, Written) => Window(sew_q', Written + 1)
    <2>1. Written + 1 \in Nat /\ BQ_space(sew_q) >= 1
      BY <1>2, <1>4
    <2>2. QED
      BY <1>2, <1>3, <2>1, PutFacts
  <1>6. SewRingInv'
    <2> SUFFICES ASSUME ~spoilt
                 PROVE  /\ Window(sew_q', Written')
                        /\ BQ_count(sew_q') <= Written'
                        /\ received' = Bytes(Written' - BQ_count(sew_q'))
                        /\ work'.pc = "embed" => work'.payload_count <= BQ_count(sew_q')
      BY <1>1 DEF SewRingInv
    <2>1. /\ Window(sew_q, Written)
          /\ BQ_count(sew_q) <= Written
          /\ received = Bytes(Written - BQ_count(sew_q))
          /\ work.pc = "embed" => work.payload_count <= BQ_count(sew_q)
      BY <1>3 DEF SewInv, SewRingInv
    <2>2. Written' - BQ_count(sew_q') = Written - BQ_count(sew_q)
      BY <1>2, <1>3, <1>4, <1>5
    <2>3. QED
      BY <1>2, <1>3, <1>4, <1>5, <2>1, <2>2
  <1>7. QED
    BY <1>3, <1>6 DEF SewInv

\* After a timeout or a signal nothing is claimed until the next open().
LEMMA SewSpoilStep ==
  ASSUME SewInv, NEW u \in SewUsers, Sew!PutLate(u) \/ Sew!Interrupted(u)
  PROVE  SewInv'
  <1>1. spoilt' = TRUE
    BY DEF Sew!PutLate, Sew!Interrupted
  <1>2. CASE Sew!PutLate(u)
    <2>1. Sew!Put(u)
      BY <1>2 DEF Sew!PutLate
    <2>2. QED
      BY <1>1, <2>1, SewPut DEF SewInv, SewRingInv
  <1>3. CASE Sew!Interrupted(u)
    <2> USE DEF SewInv
    <2>1. /\ sew_pc[u] = "write" /\ iwrite' = 0
          /\ sew_pc' = sew_pc \/ sew_pc' = [sew_pc EXCEPT ![u] = "open"]
          /\ sew_q' = sew_q /\ sf_task' = sf_task /\ work' = work
          /\ sew_count' = sew_count /\ written' = written
      BY <1>3 DEF Sew!Interrupted, Sew!kthread
    <2>2. iwrite < sew_count /\ iwrite \in Nat /\ sew_count \in Nat
      BY <2>1 DEF SewUserInv, SewTypeOK
    <2>3. SewTypeOK'
      BY <1>1, <2>1 DEF SewTypeOK
    <2>4. \A v \in SewUsers : v # u => sew_pc'[v] = sew_pc[v]
      BY <2>1 DEF SewTypeOK
    <2>5. sew_pc'[u] \in {"open", "write"}
      BY <2>1 DEF SewTypeOK
    <2>6. SewUserInv'
      BY <2>1, <2>2, <2>4, <2>5 DEF SewUserInv
    <2>7. QED
      BY <1>1, <2>3, <2>6 DEF SewRingInv
  <1>4. QED
    BY <1>2, <1>3

\* The smaller of two numbers.
LEMMA SewMin ==
  ASSUME NEW a \in Nat, NEW b \in Nat
  PROVE  Sew!Min({a, b}) \in Nat /\ Sew!Min({a, b}) <= a
  <1>1. \E x \in {a, b} : \A y \in {a, b} : x <= y
    <2>1. CASE a <= b
      BY <2>1
    <2>2. CASE b <= a
      BY <2>2
    <2>3. QED
      BY <2>1, <2>2
  <1>2. Sew!Min({a, b}) \in {a, b} /\ \A y \in {a, b} : Sew!Min({a, b}) <= y
    BY <1>1 DEF Sew!Min
  <1>3. QED
    BY <1>2

LEMMA SewWorkStep ==
  ASSUME SewInv, Sew!WorkEnds \/ Sew!Count
  PROVE  SewInv'
  <1> USE DEF SewInv
  <1>1. /\ sew_q' = sew_q /\ sf_task' = sf_task /\ received' = received /\ spoilt' = spoilt
        /\ sew_pc' = sew_pc /\ iwrite' = iwrite /\ sew_count' = sew_count /\ written' = written
    BY DEF Sew!WorkEnds, Sew!Count, Sew!user
  <1>2. BQ_count(sew_q) \in Nat /\ Payload \in Nat
    BY QueueCounts, QueueFields, SewFifoConstants DEF SewTypeOK, Sew!SewFifoAssumption
  <1>3. /\ work' \in [pc : {"none", "wait", "embed"}, payload_count : Nat]
        /\ work'.pc = "embed" => work'.payload_count <= BQ_count(sew_q)
    <2>1. CASE Sew!WorkEnds
      BY <2>1 DEF Sew!WorkEnds, SewTypeOK
    <2>2. CASE Sew!Count
      <3> DEFINE k == Sew!Min({BQ_count(sew_q), Payload})
      <3>1. k \in Nat /\ k <= BQ_count(sew_q)
        BY <1>2, SewMin
      <3>2. work' = [work EXCEPT !.pc = "embed", !.payload_count = k]
        BY <2>2, SewRing DEF Sew!Count
      <3> HIDE DEF k
      <3>3. work' = [pc |-> "embed", payload_count |-> k]
        BY <3>2 DEF SewTypeOK
      <3>4. QED
        BY <3>1, <3>3
    <2>3. QED
      BY <2>1, <2>2
  <1>4. SewTypeOK' /\ SewUserInv' /\ (SewOpen' <=> SewOpen)
    BY <1>1, <1>3 DEF SewTypeOK, SewUserInv, SewOpen
  <1>5. SewRingInv'
    BY <1>1, <1>3, <1>4 DEF SewRingInv, Written
  <1>6. QED
    BY <1>4, <1>5

\* The payload is the oldest bytes of the ring, and so the next a receiver needs.
LEMMA SewEmbedStep ==
  ASSUME SewInv, Sew!Embed
  PROVE  SewInv'
  <1> DEFINE k == work.payload_count
             q == sew_q
             m == Written
             payload == [i \in 1 .. k |-> q.buf[(q.tail + i - 1) % q.bq_len]]
  <1>1. /\ sf_task' = sf_task /\ spoilt' = spoilt /\ sew_pc' = sew_pc
        /\ iwrite' = iwrite /\ sew_count' = sew_count /\ written' = written
        /\ work' = [work EXCEPT !.pc = "wait"]
        /\ sew_q' = [q EXCEPT !.tail = (q.tail + k) % q.bq_len]
        /\ received' = IF spoilt THEN << >> ELSE received \o payload
    BY DEF Sew!Embed, Sew!user
  <1>2. k \in Nat /\ QueueOK(q) /\ m \in Nat /\ Written' = m
    BY <1>1 DEF SewInv, SewTypeOK, Written
  <1>3. /\ QueueOK(sew_q')
        /\ k <= BQ_count(q) =>
             /\ BQ_count(sew_q') = BQ_count(q) - k
             /\ \A i \in 0 .. BQ_count(sew_q') - 1 : Cell(sew_q', i) = Cell(q, i + k)
    BY <1>1, <1>2, TakeFacts
  <1>4. SewTypeOK' /\ SewUserInv' /\ (SewOpen' <=> SewOpen) /\ work'.pc = "wait"
    BY <1>1, <1>3 DEF SewInv, SewTypeOK, SewUserInv, SewOpen
  <1>5. ASSUME SewOpen, ~spoilt, work.pc = "embed"
        PROVE  /\ Window(sew_q', m)
               /\ BQ_count(sew_q') <= m
               /\ received' = Bytes(m - BQ_count(sew_q'))
    <2>1. /\ Window(q, m) /\ BQ_count(q) <= m /\ k <= BQ_count(q)
          /\ received = Bytes(m - BQ_count(q))
      BY <1>5 DEF SewInv, SewRingInv
    <2>2. BQ_count(q) \in Nat /\ BQ_count(sew_q') = BQ_count(q) - k
      BY <1>2, <1>3, <2>1, QueueCounts, QueueFields
    <2>3. Window(sew_q', m)
      <3> SUFFICES ASSUME NEW i \in 0 .. BQ_count(sew_q') - 1
                   PROVE  Cell(sew_q', i) = m - BQ_count(sew_q') + 1 + i
        BY DEF Window
      <3>1. i + k \in 0 .. BQ_count(q) - 1
        BY <1>2, <2>2
      <3>2. Cell(q, i + k) = m - BQ_count(q) + 1 + (i + k)
        BY <2>1, <3>1 DEF Window
      <3>3. QED
        BY <1>2, <1>3, <2>1, <2>2, <3>2
    <2>4. \A i \in 1 .. k : payload[i] = m - BQ_count(q) + i
      <3> SUFFICES ASSUME NEW i \in 1 .. k
                   PROVE  payload[i] = m - BQ_count(q) + i
        OBVIOUS
      <3>1. i - 1 \in 0 .. BQ_count(q) - 1
        BY <1>2, <2>1, <2>2
      <3>2. Cell(q, i - 1) = m - BQ_count(q) + 1 + (i - 1)
        BY <2>1, <3>1 DEF Window
      <3>3. q.tail + i - 1 = q.tail + (i - 1)
        BY <1>2, QueueFields
      <3>4. payload[i] = Cell(q, i - 1)
        BY <3>3 DEF Cell
      <3>5. QED
        BY <1>2, <2>2, <3>2, <3>4
    <2> DEFINE a == m - BQ_count(q)
    <2>5. a \in Nat
      BY <1>2, <2>1, <2>2
    <2>6. payload = [i \in 1 .. k |-> a + i]
      BY <2>4
    <2>7. received' = Bytes(a) \o [i \in 1 .. k |-> a + i]
      BY <1>1, <1>5, <2>1, <2>6
    <2> HIDE DEF a, payload
    <2>8. received' = Bytes(a + k)
      BY <1>2, <2>5, <2>7, NextBytes
    <2>9. a + k = m - BQ_count(sew_q')
      BY <1>2, <2>2 DEF a
    <2>10. QED
      BY <1>2, <2>1, <2>2, <2>3, <2>8, <2>9
  <1>6. work.pc = "embed"
    BY DEF Sew!Embed
  <1>7. SewRingInv'
    BY <1>1, <1>2, <1>4, <1>5, <1>6 DEF SewRingInv
  <1>8. QED
    BY <1>4, <1>7 DEF SewInv

LEMMA SewStep == SewInv /\ [AllNext]_allvars => SewInv'
  <1> SUFFICES ASSUME SewInv, [AllNext]_allvars
               PROVE  SewInv'
    OBVIOUS
  <1>1. CASE UNCHANGED sewvars
    BY <1>1 DEF sewvars, SewInv, SewTypeOK, SewUserInv, SewOpen, SewRingInv, Written
  <1>2. CASE Sew!Next
    BY <1>2, SewOpenStep, SewCloseStep, SewWriteStep, SewPutByteStep, SewSpoilStep,
       SewWorkStep, SewEmbedStep DEF Sew!Next
  <1>3. QED
    BY <1>1, <1>2, SumStep

\* What a receiver unpacks, with what waits in the ring, is what was written.
LEMMA SewDelivers == AllSpec => []Sew!BytesInOrder
  <1>1. SewInv => Sew!BytesInOrder
    <2> SUFFICES ASSUME SewInv, SewOpen, ~spoilt
                 PROVE  received \o BQ_items(sew_q) = Bytes(Written)
      BY SewRing DEF Sew!BytesInOrder, SewOpen, Bytes, Written
    <2>1. QueueOK(sew_q) /\ Written \in Nat
      BY DEF SewInv, SewTypeOK, Written
    <2>2. /\ Window(sew_q, Written) /\ BQ_count(sew_q) <= Written
          /\ received = Bytes(Written - BQ_count(sew_q))
      BY DEF SewInv, SewRingInv
    <2>3. BQ_count(sew_q) \in Nat
      BY <2>1, QueueCounts, QueueFields
    <2>4. BQ_items(sew_q) = [i \in 1 .. BQ_count(sew_q) |-> Written - BQ_count(sew_q) + i]
      BY <2>1, <2>2, <2>3, Items
    <2>5. Written - BQ_count(sew_q) \in Nat /\ (Written - BQ_count(sew_q)) + BQ_count(sew_q) = Written
      BY <2>1, <2>2, <2>3
    <2>6. QED
      BY <2>2, <2>3, <2>4, <2>5, NextBytes
  <1>2. QED
    BY <1>1, SewStart, SewStep, PTL DEF AllSpec

----------------------------------------------------------------------------
(* The segments of a rearming AWG.                                         *)

\* What a queue holds, as a sequence.
LEMMA HeldItems ==
  ASSUME NEW q, QueueOK(q)
  PROVE  /\ BQ_items(q) \in Seq(Nat) /\ Len(BQ_items(q)) = BQ_count(q) /\ BQ_count(q) \in Nat
         /\ \A i \in 1 .. BQ_count(q) : BQ_items(q)[i] = Cell(q, i - 1)
  <1>1. /\ BQ_count(q) \in Nat /\ q.tail \in Nat /\ q.bq_len \in Nat
        /\ q.buf \in [0 .. q.bq_len - 1 -> Nat]
    BY QueueCounts, QueueFields DEF QueueOK
  <1>2. \A i \in 1 .. BQ_count(q) :
          /\ (q.tail + i - 1) % q.bq_len = (q.tail + (i - 1)) % q.bq_len
          /\ (q.tail + i - 1) % q.bq_len \in 0 .. q.bq_len - 1
    <2> SUFFICES ASSUME NEW i \in 1 .. BQ_count(q)
                 PROVE  /\ (q.tail + i - 1) % q.bq_len = (q.tail + (i - 1)) % q.bq_len
                        /\ (q.tail + i - 1) % q.bq_len \in 0 .. q.bq_len - 1
      OBVIOUS
    <2>1. q.tail + i - 1 = q.tail + (i - 1) /\ i - 1 \in 0 .. BQ_count(q) - 1
      BY <1>1
    <2>2. QED
      BY <2>1, HeadIsFree
  <1>3. BQ_items(q) \in [1 .. BQ_count(q) -> Nat]
    BY <1>1, <1>2 DEF BQ_items
  <1>4. \A i \in 1 .. BQ_count(q) : BQ_items(q)[i] = Cell(q, i - 1)
    BY <1>2 DEF BQ_items, Cell
  <1>5. QED
    BY <1>1, <1>3, <1>4, SeqDef

LEMMA PutItems ==
  ASSUME NEW q, QueueOK(q), NEW x \in Nat, BQ_space(q) >= 1
  PROVE  BQ_items(BQ_put(q, x)) = Append(BQ_items(q), x)
  <1> DEFINE r == BQ_put(q, x)
             s == BQ_items(q)
             t == BQ_items(r)
  <1>1. /\ QueueOK(r) /\ BQ_count(r) = BQ_count(q) + 1
        /\ \A i \in 0 .. BQ_count(q) - 1 : Cell(r, i) = Cell(q, i)
        /\ Cell(r, BQ_count(q)) = x
    BY PutFacts
  <1>2. /\ s \in Seq(Nat) /\ Len(s) = BQ_count(q) /\ BQ_count(q) \in Nat
        /\ \A i \in 1 .. BQ_count(q) : s[i] = Cell(q, i - 1)
    BY HeldItems
  <1> HIDE DEF r, s
  <1>3. /\ t \in Seq(Nat) /\ Len(t) = BQ_count(q) + 1
        /\ \A i \in 1 .. BQ_count(q) + 1 : t[i] = Cell(r, i - 1)
    BY <1>1, HeldItems
  <1> HIDE DEF t
  <1>4. /\ Append(s, x) \in Seq(Nat) /\ Len(Append(s, x)) = Len(s) + 1
        /\ \A i \in 1 .. Len(s) : Append(s, x)[i] = s[i]
        /\ Append(s, x)[Len(s) + 1] = x
    BY <1>2, AppendProperties
  <1>5. ASSUME NEW i \in 1 .. Len(t)
        PROVE  t[i] = Append(s, x)[i]
    <2>1. CASE i = BQ_count(q) + 1
      <3>1. i - 1 = BQ_count(q)
        BY <1>2, <2>1
      <3>2. QED
        BY <1>1, <1>2, <1>3, <1>4, <2>1, <3>1
    <2>2. CASE i \in 1 .. BQ_count(q)
      <3>1. i - 1 \in 0 .. BQ_count(q) - 1
        BY <1>2, <2>2
      <3>2. QED
        BY <1>1, <1>2, <1>3, <1>4, <2>2, <3>1
    <2>3. QED
      BY <1>2, <1>3, <2>1, <2>2
  <1>6. t = Append(s, x)
    BY <1>2, <1>3, <1>4, <1>5, SeqEqual
  <1>7. QED
    BY <1>6 DEF r, s, t

LEMMA DropItems ==
  ASSUME NEW q, QueueOK(q), BQ_count(q) >= 1
  PROVE  /\ QueueOK(BQ_drop(q)) /\ BQ_drop(q).bq_len = q.bq_len
         /\ BQ_count(BQ_drop(q)) = BQ_count(q) - 1
         /\ BQ_space(BQ_drop(q)) = BQ_space(q) + 1
         /\ \A i \in 0 .. BQ_count(q) - 2 : Cell(BQ_drop(q), i) = Cell(q, i + 1)
         /\ BQ_items(q) # << >> /\ BQ_item(q) = Head(BQ_items(q)) /\ BQ_item(q) = Cell(q, 0)
         /\ BQ_items(BQ_drop(q)) = Tail(BQ_items(q))
  <1> DEFINE r == BQ_drop(q)
             s == BQ_items(q)
             t == BQ_items(r)
  <1>1. q.bq_len \in Nat /\ q.bq_len >= 2 /\ q.tail \in 0 .. q.bq_len - 1
    BY QueueFields
  <1>2. r = [q EXCEPT !.tail = (q.tail + 1) % q.bq_len]
    BY DEF BQ_drop, BQ_incr
  <1>3. /\ QueueOK(r) /\ r.bq_len = q.bq_len /\ BQ_count(r) = BQ_count(q) - 1
        /\ \A i \in 0 .. BQ_count(r) - 1 : Cell(r, i) = Cell(q, i + 1)
    BY <1>2, TakeFacts
  <1>4. /\ s \in Seq(Nat) /\ Len(s) = BQ_count(q) /\ BQ_count(q) \in Nat
        /\ \A i \in 1 .. BQ_count(q) : s[i] = Cell(q, i - 1)
    BY HeldItems
  <1> HIDE DEF r
  <1>5. /\ BQ_space(r) = r.bq_len - 1 - BQ_count(r) /\ BQ_space(q) = q.bq_len - 1 - BQ_count(q)
    BY <1>3, QueueCounts
  <1>6. BQ_space(r) = BQ_space(q) + 1
    BY <1>1, <1>3, <1>4, <1>5
  <1>7. \A i \in 0 .. BQ_count(q) - 2 : Cell(r, i) = Cell(q, i + 1)
    BY <1>3, <1>4
  <1>8. /\ t \in Seq(Nat) /\ Len(t) = BQ_count(q) - 1
        /\ \A i \in 1 .. BQ_count(q) - 1 : t[i] = Cell(r, i - 1)
    BY <1>3, HeldItems
  <1> HIDE DEF s, t
  <1>9. s # << >> /\ Head(s) = s[1]
    BY <1>4
  <1>10. BQ_item(q) = Cell(q, 0)
    <2>1. q.tail + 0 = q.tail /\ q.tail % q.bq_len = q.tail
      BY <1>1
    <2>2. QED
      BY <2>1 DEF BQ_item, Cell
  <1>11. Head(s) = Cell(q, 0)
    BY <1>4, <1>9
  <1>12. /\ Tail(s) \in Seq(Nat) /\ Len(Tail(s)) = Len(s) - 1
         /\ \A i \in 1 .. Len(Tail(s)) : Tail(s)[i] = s[i + 1]
    BY <1>4, <1>9, HeadTailProperties
  <1>13. ASSUME NEW i \in 1 .. Len(t)
         PROVE  t[i] = Tail(s)[i]
    <2>1. i - 1 \in 0 .. BQ_count(q) - 2 /\ i + 1 \in 1 .. BQ_count(q) /\ (i - 1) + 1 = (i + 1) - 1
      BY <1>4, <1>8
    <2>2. t[i] = Cell(q, (i - 1) + 1)
      BY <1>7, <1>8, <2>1
    <2>3. s[i + 1] = Cell(q, (i + 1) - 1)
      BY <1>4, <2>1
    <2>4. i \in 1 .. Len(Tail(s))
      BY <1>4, <1>8, <1>12
    <2>5. QED
      BY <1>12, <2>1, <2>2, <2>3, <2>4
  <1>14. Len(t) = Len(Tail(s))
    BY <1>4, <1>8, <1>12
  <1>15. t = Tail(s)
    BY <1>8, <1>12, <1>13, <1>14, SeqEqual
  <1>16. QED
    BY <1>3, <1>6, <1>7, <1>9, <1>10, <1>11, <1>15 DEF r, s, t

LEMMA ClearItems ==
  ASSUME NEW q, QueueOK(q)
  PROVE  /\ QueueOK(BQ_clear(q)) /\ BQ_clear(q).bq_len = q.bq_len
         /\ BQ_count(BQ_clear(q)) = 0 /\ BQ_items(BQ_clear(q)) = << >>
  <1>1. QueueOK(BQ_clear(q)) /\ BQ_count(BQ_clear(q)) = 0 /\ BQ_clear(q).bq_len = q.bq_len
    BY ClearFacts
  <1>2. BQ_items(BQ_clear(q)) \in Seq(Nat) /\ Len(BQ_items(BQ_clear(q))) = 0
    BY <1>1, HeldItems
  <1>3. QED
    BY <1>1, <1>2, EmptySeq

\* A queue is full when there is no space.
LEMMA FullMeansNoSpace ==
  ASSUME NEW q, QueueOK(q), ~BQ_full(q)
  PROVE  BQ_space(q) >= 1
  <1>1. /\ q.bq_len \in Nat /\ q.bq_len >= 2
        /\ q.head \in 0 .. q.bq_len - 1 /\ q.tail \in 0 .. q.bq_len - 1
    BY QueueFields
  <1>2. (q.head + 1) % q.bq_len = IF q.head + 1 = q.bq_len THEN 0 ELSE q.head + 1
    BY <1>1, RingArithmetic
  <1>3. (q.head + 1) % q.bq_len # q.tail
    BY DEF BQ_full, BQ_incr
  <1>4. /\ BQ_count(q) = IF q.head >= q.tail THEN q.head - q.tail ELSE q.head - q.tail + q.bq_len
        /\ BQ_space(q) = q.bq_len - 1 - BQ_count(q)
    BY QueueCounts
  <1>5. QED
    BY <1>1, <1>2, <1>3, <1>4

LEMMA FunctionIsSeq ==
  ASSUME NEW S, NEW k \in Nat, NEW f \in [1 .. k -> S]
  PROVE  f \in Seq(S) /\ Len(f) = k
  BY SeqDef

\* What a list says when its head is moved to the list before it, and when it grows.
LEMMA ListMoves ==
  ASSUME NEW s \in Seq(Nat), NEW t \in Seq(Nat)
  PROVE  /\ t # << >> => Append(s, Head(t)) \o Tail(t) = s \o t
         /\ \A x \in Nat : s \o Append(t, x) = Append(s \o t, x)
  <1>1. ASSUME t # << >> PROVE Append(s, Head(t)) \o Tail(t) = s \o t
    <2> DEFINE h == Head(t)
               u == Tail(t)
    <2>1. h \in Nat /\ u \in Seq(Nat)
      BY <1>1, HeadTailProperties
    <2>2. t = <<h>> \o u
      BY <1>1
    <2> HIDE DEF h, u
    <2>3. Append(s, h) = s \o <<h>>
      BY <2>1, AppendIsConcat
    <2>4. <<h>> \in Seq(Nat)
      BY <2>1
    <2>5. (s \o <<h>>) \o u = s \o (<<h>> \o u)
      BY <2>1, <2>4, ConcatAssociative
    <2>6. Append(s, h) \o u = s \o t
      BY <2>2, <2>3, <2>5
    <2>7. QED
      BY <2>6 DEF h, u
  <1>2. ASSUME NEW x \in Nat PROVE s \o Append(t, x) = Append(s \o t, x)
    <2>1. Append(t, x) = t \o <<x>> /\ s \o t \in Seq(Nat) /\ <<x>> \in Seq(Nat)
      BY AppendIsConcat, ConcatProperties
    <2>2. Append(s \o t, x) = (s \o t) \o <<x>>
      BY <2>1, AppendIsConcat
    <2>3. QED
      BY <2>1, <2>2, ConcatAssociative
  <1>3. QED
    BY <1>1, <1>2

\* The list without its last items.
LEMMA ListFront ==
  ASSUME NEW s \in Seq(Nat), NEW t \in Seq(Nat)
  PROVE  /\ SubSeq(s \o t, 1, Len(s \o t) - Len(t)) = s
         /\ \A x \in Nat, u \in Seq(Nat) : Append(s, x) = u => s = SubSeq(u, 1, Len(u) - 1)
  <1>1. ASSUME NEW v \in Seq(Nat) PROVE SubSeq(s \o v, 1, Len(s \o v) - Len(v)) = s
    <2>1. /\ s \o v \in Seq(Nat) /\ Len(s \o v) = Len(s) + Len(v) /\ Len(s) \in Nat /\ Len(v) \in Nat
          /\ \A i \in 1 .. Len(s) + Len(v) : (s \o v)[i] = IF i <= Len(s) THEN s[i] ELSE v[i - Len(s)]
      BY ConcatProperties, LenProperties
    <2> DEFINE c == s \o v
    <2> HIDE DEF c
    <2>2. Len(c) - Len(v) = Len(s)
      BY <2>1 DEF c
    <2>3. \A i \in 1 .. Len(s) : c[i] = s[i] /\ c[i] \in Nat
      BY <2>1, ElementOfSeq DEF c
    <2>4. /\ SubSeq(c, 1, Len(s)) \in Seq(Nat)
          /\ Len(SubSeq(c, 1, Len(s))) = IF 1 <= Len(s) THEN Len(s) - 1 + 1 ELSE 0
          /\ \A i \in 1 .. Len(s) - 1 + 1 : SubSeq(c, 1, Len(s))[i] = c[1 + i - 1]
      BY <2>1, <2>3, SubSeqProperties
    <2>5. Len(SubSeq(c, 1, Len(s))) = Len(s)
      BY <2>1, <2>4
    <2>6. \A i \in 1 .. Len(s) : SubSeq(c, 1, Len(s))[i] = s[i]
      BY <2>1, <2>3, <2>4
    <2>7. SubSeq(c, 1, Len(s)) = s
      BY <2>4, <2>5, <2>6, SeqEqual
    <2>8. QED
      BY <2>2, <2>7 DEF c
  <1>2. ASSUME NEW x \in Nat, NEW u \in Seq(Nat), Append(s, x) = u
        PROVE  s = SubSeq(u, 1, Len(u) - 1)
    <2> DEFINE v == <<x>>
    <2>1. u = s \o v
      BY <1>2, AppendIsConcat
    <2>2. v \in Seq(Nat) /\ Len(v) = 1
      OBVIOUS
    <2> HIDE DEF v
    <2>3. SubSeq(s \o v, 1, Len(s \o v) - Len(v)) = s
      BY <1>1, <2>2
    <2>4. QED
      BY <2>1, <2>2, <2>3
  <1>3. QED
    BY <1>1, <1>2

SegTypeOK ==
  /\ QueueOK(new_queue) /\ QueueOK(ret_queue)
  /\ max_seg \in 1 .. Letters /\ awg_seg \in 1 .. Letters
  /\ awg_seg_bufs = Seg!SegBufs(max_seg) /\ distributor_segment_offset \in Nat
  /\ kpc \in {"idle", "switch", "reject"} /\ bx \in Nat
  /\ kpc = "switch" => bx \in 1 .. Letters
  /\ seg_tail \in Nat /\ (kpc # "idle" => seg_tail < new_queue.bq_len)
  /\ wpc \in {"open", "write", "put"} /\ left \in Seq(1 .. Letters) /\ headroom \in Nat
  /\ wpc \in {"write", "put"} => Len(left) >= 1
  /\ wpc = "put" => headroom >= 1 /\ headroom <= Len(left)
  /\ first \in Nat /\ seg_raced \in BOOLEAN /\ seg_spoilt \in BOOLEAN

\* The segment in use is one of max_seg, and so is the one it is to be.
SegFitsInv ==
  ~seg_raced =>
    /\ distributor_segment_offset + 1 <= max_seg
    /\ kpc = "switch" => bx <= max_seg

\* The segments asked for are those taken and, after them, those that wait; the
\* segments played are those handed back, those that wait to be, and the one that
\* plays.
SegListsInv ==
  ~seg_spoilt =>
    /\ asked \in Seq(Nat) /\ taken \in Seq(Nat) /\ back \in Seq(Nat)
    /\ taken \o BQ_items(new_queue) = asked
    /\ Append(back \o BQ_items(ret_queue), awg_seg) = <<first>> \o taken

\* A segment that waits is valid.
Waiting(q) == \A i \in 0 .. BQ_count(q) - 1 : Cell(q, i) \in 1 .. max_seg

\* The rearm thread has the next segment in hand, and what write() found room for
\* still has it.
SegRingInv ==
  ~seg_spoilt =>
    /\ Waiting(new_queue)
    /\ kpc # "reject"
    /\ kpc = "switch" =>
         /\ BQ_count(new_queue) >= 1 /\ bx = BQ_item(new_queue)
         /\ seg_tail = BQ_incr(new_queue, new_queue.tail)
    /\ wpc = "put" => headroom <= BQ_space(new_queue)

SegInv == SegTypeOK /\ SegFitsInv /\ SegListsInv /\ SegRingInv

\* The rings of the segments are rings with the accesses of a BQ.
LEMMA SegRing ==
  \A q, x : /\ Seg!BQ_init(x) = BQ_init(x) /\ Seg!BQ_put(q, x) = BQ_put(q, x)
            /\ Seg!BQ_count(q) = BQ_count(q) /\ Seg!BQ_space(q) = BQ_space(q)
            /\ Seg!BQ_items(q) = BQ_items(q) /\ Seg!BQ_item(q) = BQ_item(q)
            /\ Seg!BQ_incr(q, x) = BQ_incr(q, x) /\ Seg!BQ_drop(q) = BQ_drop(q)
            /\ Seg!BQ_clear(q) = BQ_clear(q) /\ Seg!BQ_full(q) = BQ_full(q)
  BY DEF Seg!BQ_init, Seg!BQ_put, Seg!BQ_store, Seg!BQ_advance, Seg!BQ_incr, Seg!BQ_count,
         Seg!BQ_space, Seg!BQ_items, Seg!BQ_item, Seg!BQ_drop, Seg!BQ_clear, Seg!BQ_full,
         BQ_init, BQ_put, BQ_store, BQ_advance, BQ_incr, BQ_count, BQ_space, BQ_items,
         BQ_item, BQ_drop, BQ_clear, BQ_full

LEMMA SegStart == AllInit => SegInv
  <1> SUFFICES ASSUME Seg!Init
               PROVE  SegInv
    BY DEF AllInit
  <1>1. /\ new_queue = BQ_init(AWG_ABCDE_LEN) /\ ret_queue = BQ_init(AWG_ABCDE_LEN)
        /\ AWG_ABCDE_LEN \in Nat /\ AWG_ABCDE_LEN >= 2 /\ Letters \in Nat \ {0}
    BY SegRing, AwgSegmentsConstants DEF Seg!Init, Seg!AwgSegmentsAssumption
  <1>2. /\ QueueOK(new_queue) /\ QueueOK(ret_queue)
        /\ BQ_count(new_queue) = 0 /\ BQ_count(ret_queue) = 0
    BY <1>1, InitQueue
  <1>3. BQ_items(new_queue) = << >> /\ BQ_items(ret_queue) = << >>
    BY <1>2, HeldItems, EmptySeq
  <1>4. /\ max_seg = Letters /\ awg_seg = 1 /\ awg_seg_bufs = Seg!SegBufs(max_seg)
        /\ distributor_segment_offset = 0
        /\ kpc = "idle" /\ bx = 0 /\ seg_tail = 0
        /\ wpc = "open" /\ left = << >> /\ headroom = 0
        /\ first = 1 /\ asked = << >> /\ taken = << >> /\ back = << >>
        /\ seg_raced = FALSE /\ seg_spoilt = FALSE
    BY DEF Seg!Init
  <1>5. SegTypeOK
    <2>1. left \in Seq(1 .. Letters)
      BY <1>4, EmptySeq
    <2>2. max_seg \in 1 .. Letters /\ awg_seg \in 1 .. Letters
      BY <1>1, <1>4
    <2>3. QED
      BY <1>2, <1>4, <2>1, <2>2 DEF SegTypeOK
  <1>6. SegFitsInv /\ SegRingInv
    BY <1>1, <1>2, <1>4 DEF SegFitsInv, SegRingInv, Waiting
  <1>7. SegListsInv
    <2>1. << >> \in Seq(Nat) /\ <<1>> \in Seq(Nat)
      BY EmptySeq
    <2>2. << >> \o << >> = << >> /\ <<1>> \o << >> = <<1>> /\ Append(<< >>, 1) = <<1>>
      BY <2>1, ConcatEmptySeq
    <2>3. QED
      BY <1>3, <1>4, <2>1, <2>2 DEF SegListsInv
  <1>8. QED
    BY <1>5, <1>6, <1>7 DEF SegInv

\* The rearm thread has found a segment that waits.
LEMMA SegTakeStep ==
  ASSUME SegInv, Seg!Take
  PROVE  SegInv'
  <1>1. /\ BQ_count(new_queue) > 0
        /\ bx' = BQ_item(new_queue) /\ seg_tail' = BQ_incr(new_queue, new_queue.tail)
        /\ kpc' = IF bx' \in 1 .. max_seg THEN "switch" ELSE "reject"
    BY SegRing DEF Seg!Take, Seg!VALID_ABCDE
  <1>2. /\ new_queue' = new_queue /\ ret_queue' = ret_queue
        /\ awg_seg' = awg_seg /\ max_seg' = max_seg /\ awg_seg_bufs' = awg_seg_bufs
        /\ distributor_segment_offset' = distributor_segment_offset
        /\ wpc' = wpc /\ left' = left /\ headroom' = headroom
        /\ first' = first /\ asked' = asked /\ taken' = taken /\ back' = back
        /\ seg_spoilt' = seg_spoilt /\ seg_raced' = seg_raced
    BY DEF Seg!Take, Seg!rings, Seg!module, Seg!process, Seg!ghosts
  <1>3. /\ QueueOK(new_queue) /\ max_seg \in 1 .. Letters /\ Letters \in Nat
        /\ BQ_count(new_queue) \in Nat
    BY QueueCounts, QueueFields, AwgSegmentsConstants
    DEF SegInv, SegTypeOK, Seg!AwgSegmentsAssumption
  <1>4. /\ seg_tail' \in Nat /\ seg_tail' < new_queue.bq_len
        /\ BQ_item(new_queue) \in Nat /\ BQ_item(new_queue) = Cell(new_queue, 0)
    <2>1. /\ new_queue.bq_len \in Nat /\ new_queue.bq_len >= 2
          /\ new_queue.tail \in 0 .. new_queue.bq_len - 1
          /\ new_queue.buf \in [0 .. new_queue.bq_len - 1 -> Nat]
      BY <1>3, QueueFields DEF QueueOK
    <2>2. BQ_incr(new_queue, new_queue.tail) =
            IF new_queue.tail + 1 = new_queue.bq_len THEN 0 ELSE new_queue.tail + 1
      BY <2>1, RingArithmetic DEF BQ_incr
    <2>3. BQ_item(new_queue) \in Nat
      BY <2>1 DEF BQ_item
    <2>4. BQ_item(new_queue) = Cell(new_queue, 0)
      BY <1>1, <1>3, DropItems
    <2>5. QED
      BY <1>1, <2>1, <2>2, <2>3, <2>4
  <1>5. bx' \in 1 .. max_seg => bx' \in 1 .. Letters
    BY <1>3
  <1>6. SegTypeOK'
    BY <1>1, <1>2, <1>4, <1>5 DEF SegInv, SegTypeOK
  <1>7. SegFitsInv'
    BY <1>1, <1>2, <1>3 DEF SegInv, SegFitsInv
  <1>8. SegListsInv'
    BY <1>2 DEF SegInv, SegListsInv
  <1>9. SegRingInv'
    <2> SUFFICES ASSUME ~seg_spoilt PROVE SegRingInv'
      BY <1>2 DEF SegRingInv
    <2>1. Waiting(new_queue) /\ (wpc = "put" => headroom <= BQ_space(new_queue))
      BY DEF SegInv, SegRingInv
    <2>2. bx' \in 1 .. max_seg
      BY <1>1, <1>3, <1>4, <2>1 DEF Waiting
    <2>3. Waiting(new_queue)'
      BY <1>2, <2>1 DEF Waiting
    <2>4. QED
      BY <1>1, <1>2, <1>3, <2>1, <2>2, <2>3 DEF SegRingInv
  <1>10. QED
    BY <1>6, <1>7, <1>8, <1>9 DEF SegInv

\* A switch to the segment in hand, and the old one is handed back; a segment that
\* had been valid is passed over.
LEMMA SegHandBackStep ==
  ASSUME SegInv, Seg!Switch \/ Seg!Reject
  PROVE  SegInv'
  <1>1. /\ kpc \in {"switch", "reject"} /\ kpc' = "idle"
        /\ new_queue' = [new_queue EXCEPT !.tail = seg_tail]
        /\ ret_queue' = BQ_put(ret_queue, awg_seg)
        /\ seg_spoilt' = (seg_spoilt \/ BQ_full(ret_queue))
        /\ taken' = IF seg_spoilt THEN << >> ELSE Append(taken, bx)
    BY SegRing DEF Seg!Switch, Seg!Reject, Seg!HandBack
  <1>2. /\ max_seg' = max_seg /\ awg_seg_bufs' = awg_seg_bufs
        /\ bx' = bx /\ seg_tail' = seg_tail
        /\ wpc' = wpc /\ left' = left /\ headroom' = headroom
        /\ first' = first /\ asked' = asked /\ back' = back /\ seg_raced' = seg_raced
    BY DEF Seg!Switch, Seg!Reject, Seg!module, Seg!process
  <1>3. \/ /\ kpc = "switch" /\ awg_seg' = bx /\ distributor_segment_offset' = bx - 1
        \/ /\ kpc = "reject" /\ awg_seg' = awg_seg
           /\ distributor_segment_offset' = distributor_segment_offset
    BY DEF Seg!Switch, Seg!Reject, Seg!module
  <1>4. /\ QueueOK(new_queue) /\ QueueOK(ret_queue)
        /\ awg_seg \in 1 .. Letters /\ Letters \in Nat /\ bx \in Nat
        /\ seg_tail \in Nat /\ seg_tail < new_queue.bq_len /\ seg_spoilt \in BOOLEAN
        /\ kpc = "switch" => bx \in 1 .. Letters
    BY <1>1, AwgSegmentsConstants DEF SegInv, SegTypeOK, Seg!AwgSegmentsAssumption
  <1>5. awg_seg \in Nat
    BY <1>4
  <1>6. QueueOK(new_queue') /\ new_queue'.bq_len = new_queue.bq_len /\ QueueOK(ret_queue')
    BY <1>1, <1>4, <1>5, WithTail, PutFacts
  <1>7. seg_spoilt' \in BOOLEAN
    BY <1>1
  <1>8. awg_seg' \in 1 .. Letters /\ distributor_segment_offset' \in Nat
    BY <1>3, <1>4 DEF SegInv, SegTypeOK
  <1>9. SegTypeOK'
    BY <1>1, <1>2, <1>4, <1>6, <1>7, <1>8 DEF SegInv, SegTypeOK
  <1>10. SegFitsInv'
    <2>1. kpc = "switch" => distributor_segment_offset' + 1 = bx
      BY <1>3, <1>4
    <2>2. QED
      BY <1>1, <1>2, <1>3, <2>1 DEF SegInv, SegFitsInv
  <1>11. ASSUME ~seg_spoilt'
         PROVE  SegListsInv' /\ SegRingInv'
    <2>1. ~seg_spoilt /\ ~BQ_full(ret_queue)
      BY <1>1, <1>4, <1>11
    <2>2. /\ kpc = "switch" /\ Waiting(new_queue) /\ BQ_count(new_queue) >= 1
          /\ bx = BQ_item(new_queue) /\ new_queue' = BQ_drop(new_queue)
          /\ wpc = "put" => headroom <= BQ_space(new_queue)
      BY <1>1, <2>1 DEF SegInv, SegRingInv, BQ_drop
    <2>3. /\ asked \in Seq(Nat) /\ taken \in Seq(Nat) /\ back \in Seq(Nat)
          /\ taken \o BQ_items(new_queue) = asked
          /\ Append(back \o BQ_items(ret_queue), awg_seg) = <<first>> \o taken
      BY <2>1 DEF SegInv, SegListsInv
    <2>4. /\ BQ_count(new_queue') = BQ_count(new_queue) - 1
          /\ BQ_space(new_queue') = BQ_space(new_queue) + 1
          /\ \A i \in 0 .. BQ_count(new_queue) - 2 : Cell(new_queue', i) = Cell(new_queue, i + 1)
          /\ BQ_items(new_queue) # << >> /\ bx = Head(BQ_items(new_queue))
          /\ BQ_items(new_queue') = Tail(BQ_items(new_queue))
      BY <1>4, <2>2, DropItems
    <2>5. /\ BQ_items(new_queue) \in Seq(Nat) /\ BQ_items(ret_queue) \in Seq(Nat)
          /\ BQ_count(new_queue) \in Nat
      BY <1>4, HeldItems
    <2>6. taken' = Append(taken, bx) /\ taken' \in Seq(Nat)
      BY <1>1, <1>4, <2>1, <2>3, AppendProperties
    <2>7. taken' \o BQ_items(new_queue') = asked
      <3>1. Append(taken, Head(BQ_items(new_queue))) \o Tail(BQ_items(new_queue)) =
              taken \o BQ_items(new_queue)
        BY <2>3, <2>4, <2>5, ListMoves, Zenon
      <3>2. QED
        BY <2>3, <2>4, <2>6, <3>1, Zenon
    <2>8. BQ_items(ret_queue') = Append(BQ_items(ret_queue), awg_seg)
      BY <1>1, <1>4, <1>5, <2>1, FullMeansNoSpace, PutItems
    <2>9. Append(back \o BQ_items(ret_queue'), awg_seg') = <<first>> \o taken'
      <3>1. back \o BQ_items(ret_queue') = <<first>> \o taken
        <4>1. back \o Append(BQ_items(ret_queue), awg_seg) = Append(back \o BQ_items(ret_queue), awg_seg)
          BY <1>5, <2>3, <2>5, ListMoves, Zenon
        <4>2. QED
          BY <2>3, <2>8, <4>1, Zenon
      <3>2. <<first>> \in Seq(Nat)
        BY DEF SegInv, SegTypeOK
      <3>3. <<first>> \o taken' = Append(<<first>> \o taken, bx)
        BY <1>4, <2>3, <2>6, <3>2, ListMoves
      <3>4. awg_seg' = bx
        BY <1>3, <2>2
      <3>5. QED
        BY <3>1, <3>3, <3>4
    <2>10. SegListsInv'
      BY <1>2, <2>3, <2>6, <2>7, <2>9 DEF SegListsInv
    <2>11. Waiting(new_queue)'
      <3> SUFFICES ASSUME NEW i \in 0 .. BQ_count(new_queue') - 1
                   PROVE  Cell(new_queue', i) \in 1 .. max_seg
        BY <1>2 DEF Waiting
      <3>1. i \in 0 .. BQ_count(new_queue) - 2 /\ i + 1 \in 0 .. BQ_count(new_queue) - 1
        BY <2>4, <2>5
      <3>2. QED
        BY <2>2, <2>4, <3>1 DEF Waiting
    <2>12. wpc' = "put" => headroom' <= BQ_space(new_queue')
      <3>1. headroom \in Nat /\ BQ_space(new_queue) \in Int
        BY <1>4, QueueCounts, QueueFields DEF SegInv, SegTypeOK
      <3>2. QED
        BY <1>2, <2>2, <2>4, <3>1
    <2>13. SegRingInv'
      BY <1>1, <2>11, <2>12 DEF SegRingInv
    <2>14. QED
      BY <2>10, <2>13
  <1>12. SegListsInv' /\ SegRingInv'
    BY <1>11 DEF SegListsInv, SegRingInv
  <1>13. QED
    BY <1>9, <1>10, <1>12 DEF SegInv

\* write() begins, or finds room.
LEMMA SegWriteStep ==
  ASSUME SegInv, Seg!Write \/ Seg!WriteSome
  PROVE  SegInv'
  <1>1. /\ new_queue' = new_queue /\ ret_queue' = ret_queue
        /\ awg_seg' = awg_seg /\ max_seg' = max_seg /\ awg_seg_bufs' = awg_seg_bufs
        /\ distributor_segment_offset' = distributor_segment_offset
        /\ kpc' = kpc /\ bx' = bx /\ seg_tail' = seg_tail
        /\ first' = first /\ asked' = asked /\ taken' = taken /\ back' = back
        /\ seg_spoilt' = seg_spoilt /\ seg_raced' = seg_raced
    BY DEF Seg!Write, Seg!WriteSome, Seg!rings, Seg!module, Seg!rearm, Seg!ghosts
  <1>2. /\ wpc' \in {"write", "put"} /\ left' \in Seq(1 .. Letters) /\ Len(left') >= 1
        /\ headroom' \in Nat
        /\ wpc' = "put" => /\ headroom' >= 1 /\ headroom' <= Len(left')
                           /\ headroom' <= BQ_space(new_queue)
    <2>1. CASE Seg!Write
      <3>1. PICK k \in 1 .. 2 : left' \in [1 .. k -> 1 .. Letters]
        BY <2>1 DEF Seg!Write
      <3>2. k \in Nat /\ k >= 1
        OBVIOUS
      <3>3. left' \in Seq(1 .. Letters) /\ Len(left') = k
        BY <3>1, <3>2, FunctionIsSeq
      <3>4. wpc' = "write" /\ headroom' = headroom
        BY <2>1 DEF Seg!Write
      <3>5. QED
        BY <3>2, <3>3, <3>4 DEF SegInv, SegTypeOK
    <2>2. CASE Seg!WriteSome
      <3>1. /\ wpc = "write" /\ wpc' = "put" /\ left' = left
            /\ BQ_space(new_queue) > 0
            /\ headroom' = IF Len(left) < BQ_space(new_queue) THEN Len(left) ELSE BQ_space(new_queue)
        BY <2>2, SegRing DEF Seg!WriteSome
      <3>2. /\ left \in Seq(1 .. Letters) /\ Len(left) >= 1 /\ Len(left) \in Nat
            /\ BQ_space(new_queue) \in Int
        BY <3>1, QueueCounts, QueueFields, LenProperties DEF SegInv, SegTypeOK
      <3>3. QED
        BY <3>1, <3>2
    <2>3. QED
      BY <2>1, <2>2
  <1>3. SegTypeOK'
    BY <1>1, <1>2 DEF SegInv, SegTypeOK
  <1>4. SegFitsInv' /\ SegListsInv'
    BY <1>1 DEF SegInv, SegFitsInv, SegListsInv
  <1>5. SegRingInv'
    BY <1>1, <1>2 DEF SegInv, SegRingInv, Waiting
  <1>6. QED
    BY <1>3, <1>4, <1>5 DEF SegInv

\* A byte is put, or passed over when there is no such segment.
LEMMA SegWriteByteStep ==
  ASSUME SegInv, Seg!WriteByte
  PROVE  SegInv'
  <1> DEFINE x == Head(left)
  <1>1. /\ wpc = "put"
        /\ \/ x \in 1 .. max_seg /\ new_queue' = BQ_put(new_queue, x) /\ asked' = Append(asked, x)
           \/ new_queue' = new_queue /\ asked' = asked
        /\ left' = Tail(left) /\ headroom' = headroom - 1
        /\ wpc' = IF headroom > 1 THEN "put" ELSE IF left' = << >> THEN "open" ELSE "write"
    BY SegRing DEF Seg!WriteByte, Seg!VALID_ABCDE
  <1>2. /\ ret_queue' = ret_queue
        /\ awg_seg' = awg_seg /\ max_seg' = max_seg /\ awg_seg_bufs' = awg_seg_bufs
        /\ distributor_segment_offset' = distributor_segment_offset
        /\ kpc' = kpc /\ bx' = bx /\ seg_tail' = seg_tail
        /\ first' = first /\ taken' = taken /\ back' = back
        /\ seg_spoilt' = seg_spoilt /\ seg_raced' = seg_raced
    BY DEF Seg!WriteByte, Seg!module, Seg!rearm
  <1>3. /\ QueueOK(new_queue) /\ max_seg \in 1 .. Letters
        /\ left \in Seq(1 .. Letters) /\ left # << >>
        /\ headroom \in Nat /\ headroom >= 1 /\ headroom <= Len(left)
        /\ BQ_count(new_queue) \in Nat /\ BQ_space(new_queue) \in Int
    BY <1>1, EmptySeq, QueueCounts, QueueFields DEF SegInv, SegTypeOK
  <1>4. /\ x \in 1 .. Letters /\ Tail(left) \in Seq(1 .. Letters) /\ Len(Tail(left)) = Len(left) - 1
        /\ Len(left) \in Nat
    BY <1>3, HeadTailProperties, LenProperties
  <1>5. x \in Nat
    BY <1>4
  <1> HIDE DEF x
  <1>6. QueueOK(new_queue') /\ new_queue'.bq_len = new_queue.bq_len
    BY <1>1, <1>3, <1>5, PutFacts
  <1>7. headroom' \in Nat /\ (wpc' = "put" => headroom' >= 1 /\ headroom' <= Len(left'))
    BY <1>1, <1>3, <1>4
  <1>8. wpc' = "write" => Len(left') >= 1
    BY <1>1, <1>4, EmptySeq
  <1>9. SegTypeOK'
    <2>1. left' \in Seq(1 .. Letters) /\ wpc' \in {"open", "write", "put"}
      BY <1>1, <1>4
    <2>2. wpc' \in {"write", "put"} => Len(left') >= 1
      BY <1>1, <1>3, <1>4, <1>7, <1>8
    <2>3. QED
      BY <1>2, <1>6, <1>7, <2>1, <2>2 DEF SegInv, SegTypeOK
  <1>10. SegFitsInv'
    BY <1>2 DEF SegInv, SegFitsInv
  <1>11. ASSUME ~seg_spoilt
         PROVE  SegListsInv' /\ SegRingInv'
    <2>1. /\ asked \in Seq(Nat) /\ taken \in Seq(Nat) /\ back \in Seq(Nat)
          /\ taken \o BQ_items(new_queue) = asked
          /\ Append(back \o BQ_items(ret_queue), awg_seg) = <<first>> \o taken
      BY <1>11 DEF SegInv, SegListsInv
    <2>2. /\ Waiting(new_queue) /\ kpc # "reject"
          /\ kpc = "switch" =>
               /\ BQ_count(new_queue) >= 1 /\ bx = BQ_item(new_queue)
               /\ seg_tail = BQ_incr(new_queue, new_queue.tail)
          /\ headroom <= BQ_space(new_queue)
      BY <1>1, <1>11 DEF SegInv, SegRingInv
    <2>3. CASE new_queue' = new_queue /\ asked' = asked
      <3>1. SegListsInv'
        BY <1>2, <2>1, <2>3 DEF SegListsInv
      <3>2. headroom' <= BQ_space(new_queue)
        BY <1>1, <1>3, <2>2
      <3>3. SegRingInv'
        BY <1>2, <2>2, <2>3, <3>2 DEF SegRingInv, Waiting
      <3>4. QED
        BY <3>1, <3>3
    <2>4. CASE /\ x \in 1 .. max_seg /\ new_queue' = BQ_put(new_queue, x)
               /\ asked' = Append(asked, x)
      <3>1. BQ_space(new_queue) >= 1
        BY <1>3, <2>2
      <3>2. /\ BQ_count(new_queue') = BQ_count(new_queue) + 1
            /\ BQ_space(new_queue') = BQ_space(new_queue) - 1
            /\ \A i \in 0 .. BQ_count(new_queue) - 1 : Cell(new_queue', i) = Cell(new_queue, i)
            /\ Cell(new_queue', BQ_count(new_queue)) = x
            /\ new_queue'.tail = new_queue.tail
        BY <1>3, <1>5, <2>4, <3>1, PutFacts
      <3>3. BQ_items(new_queue') = Append(BQ_items(new_queue), x)
        BY <1>3, <1>5, <2>4, <3>1, PutItems
      <3>4. BQ_items(new_queue) \in Seq(Nat)
        BY <1>3, HeldItems
      <3>5. taken \o BQ_items(new_queue') = asked'
        <4>1. taken \o Append(BQ_items(new_queue), x) = Append(taken \o BQ_items(new_queue), x)
          BY <1>5, <2>1, <3>4, ListMoves, Zenon
        <4>2. QED
          BY <2>1, <2>4, <3>3, <4>1, Zenon
      <3>6. asked' \in Seq(Nat)
        BY <1>5, <2>1, <2>4, AppendProperties
      <3>7. SegListsInv'
        BY <1>2, <2>1, <3>5, <3>6 DEF SegListsInv
      <3>8. Waiting(new_queue)'
        <4> SUFFICES ASSUME NEW i \in 0 .. BQ_count(new_queue') - 1
                     PROVE  Cell(new_queue', i) \in 1 .. max_seg
          BY <1>2 DEF Waiting
        <4>1. i = BQ_count(new_queue) \/ i \in 0 .. BQ_count(new_queue) - 1
          BY <1>3, <3>2
        <4>2. QED
          BY <2>2, <2>4, <3>2, <4>1 DEF Waiting
      <3>9. kpc = "switch" =>
              /\ BQ_count(new_queue') >= 1 /\ bx = BQ_item(new_queue')
              /\ seg_tail = BQ_incr(new_queue', new_queue'.tail)
        <4> SUFFICES ASSUME kpc = "switch"
                     PROVE  /\ BQ_count(new_queue') >= 1 /\ bx = BQ_item(new_queue')
                            /\ seg_tail = BQ_incr(new_queue', new_queue'.tail)
          OBVIOUS
        <4>1. BQ_item(new_queue') = Cell(new_queue', 0) /\ BQ_item(new_queue) = Cell(new_queue, 0)
          BY <1>3, <1>6, <2>2, <3>2, DropItems
        <4>2. 0 \in 0 .. BQ_count(new_queue) - 1
          BY <1>3, <2>2
        <4>3. QED
          BY <1>3, <1>6, <2>2, <3>2, <4>1, <4>2 DEF BQ_incr
      <3>10. headroom' <= BQ_space(new_queue')
        BY <1>1, <1>3, <2>2, <3>2
      <3>11. SegRingInv'
        BY <1>2, <2>2, <3>8, <3>9, <3>10 DEF SegRingInv
      <3>12. QED
        BY <3>7, <3>11
    <2>5. QED
      BY <1>1, <2>3, <2>4
  <1>12. SegListsInv' /\ SegRingInv'
    <2>1. CASE seg_spoilt
      BY <1>2, <2>1 DEF SegListsInv, SegRingInv
    <2>2. QED
      BY <1>11, <2>1
  <1>13. QED
    BY <1>9, <1>10, <1>12 DEF SegInv

\* A signal: what is queued, the last of what was asked for, is discarded.
LEMMA SegInterruptedStep ==
  ASSUME SegInv, Seg!WriteInterrupted
  PROVE  SegInv'
  <1>1. /\ asked' = SubSeq(asked, 1, Len(asked) - BQ_count(new_queue))
        /\ new_queue' = BQ_clear(new_queue)
        /\ seg_spoilt' = (seg_spoilt \/ kpc # "idle")
        /\ left' = << >> /\ wpc' = "open"
    BY SegRing DEF Seg!WriteInterrupted
  <1>2. /\ ret_queue' = ret_queue
        /\ awg_seg' = awg_seg /\ max_seg' = max_seg /\ awg_seg_bufs' = awg_seg_bufs
        /\ distributor_segment_offset' = distributor_segment_offset
        /\ kpc' = kpc /\ bx' = bx /\ seg_tail' = seg_tail /\ headroom' = headroom
        /\ first' = first /\ taken' = taken /\ back' = back /\ seg_raced' = seg_raced
    BY DEF Seg!WriteInterrupted, Seg!module, Seg!rearm
  <1>3. QueueOK(new_queue) /\ seg_spoilt \in BOOLEAN
    BY DEF SegInv, SegTypeOK
  <1>4. /\ QueueOK(new_queue') /\ new_queue'.bq_len = new_queue.bq_len
        /\ BQ_count(new_queue') = 0 /\ BQ_items(new_queue') = << >>
    BY <1>1, <1>3, ClearItems
  <1>5. left' \in Seq(1 .. Letters)
    BY <1>1, EmptySeq
  <1>6. SegTypeOK'
    BY <1>1, <1>2, <1>3, <1>4, <1>5 DEF SegInv, SegTypeOK
  <1>7. SegFitsInv'
    BY <1>2 DEF SegInv, SegFitsInv
  <1>8. ASSUME ~seg_spoilt'
        PROVE  SegListsInv' /\ SegRingInv'
    <2>1. ~seg_spoilt /\ kpc = "idle"
      BY <1>1, <1>3, <1>8
    <2>2. /\ asked \in Seq(Nat) /\ taken \in Seq(Nat) /\ back \in Seq(Nat)
          /\ taken \o BQ_items(new_queue) = asked
          /\ Append(back \o BQ_items(ret_queue), awg_seg) = <<first>> \o taken
      BY <2>1 DEF SegInv, SegListsInv
    <2>3. BQ_items(new_queue) \in Seq(Nat) /\ Len(BQ_items(new_queue)) = BQ_count(new_queue)
      BY <1>3, HeldItems
    <2>4. asked' = taken
      <3> DEFINE it == BQ_items(new_queue)
      <3>1. it \in Seq(Nat) /\ Len(it) = BQ_count(new_queue) /\ asked = taken \o it
        BY <2>2, <2>3
      <3> HIDE DEF it
      <3>2. SubSeq(taken \o it, 1, Len(taken \o it) - Len(it)) = taken
        BY <2>2, <3>1, ListFront, Zenon
      <3>3. QED
        BY <1>1, <3>1, <3>2, Zenon
    <2>5. taken \o << >> = taken
      BY <2>2, ConcatEmptySeq
    <2>6. SegListsInv'
      BY <1>2, <1>4, <2>2, <2>4, <2>5 DEF SegListsInv
    <2>7. SegRingInv'
      BY <1>1, <1>2, <1>4, <2>1 DEF SegRingInv, Waiting
    <2>8. QED
      BY <2>6, <2>7
  <1>9. SegListsInv' /\ SegRingInv'
    BY <1>8 DEF SegListsInv, SegRingInv
  <1>10. QED
    BY <1>6, <1>7, <1>9 DEF SegInv

\* The process is given back the segment played longest ago.
LEMMA SegReadStep ==
  ASSUME SegInv, Seg!Read
  PROVE  SegInv'
  <1>1. /\ BQ_count(ret_queue) > 0
        /\ back' = IF seg_spoilt THEN << >> ELSE Append(back, BQ_item(ret_queue))
        /\ ret_queue' = BQ_drop(ret_queue)
    BY SegRing DEF Seg!Read
  <1>2. /\ new_queue' = new_queue
        /\ awg_seg' = awg_seg /\ max_seg' = max_seg /\ awg_seg_bufs' = awg_seg_bufs
        /\ distributor_segment_offset' = distributor_segment_offset
        /\ kpc' = kpc /\ bx' = bx /\ seg_tail' = seg_tail
        /\ wpc' = wpc /\ left' = left /\ headroom' = headroom
        /\ first' = first /\ asked' = asked /\ taken' = taken
        /\ seg_spoilt' = seg_spoilt /\ seg_raced' = seg_raced
    BY DEF Seg!Read, Seg!module, Seg!rearm, Seg!process
  <1>3. /\ QueueOK(ret_queue) /\ BQ_count(ret_queue) >= 1
        /\ BQ_items(ret_queue) \in Seq(Nat)
    <2>1. QueueOK(ret_queue)
      BY DEF SegInv, SegTypeOK
    <2>2. BQ_count(ret_queue) \in Nat
      BY <2>1, HeldItems
    <2>3. QED
      BY <1>1, <2>1, <2>2, HeldItems
  <1>4. /\ QueueOK(ret_queue')
        /\ BQ_items(ret_queue) # << >> /\ BQ_item(ret_queue) = Head(BQ_items(ret_queue))
        /\ BQ_items(ret_queue') = Tail(BQ_items(ret_queue))
    BY <1>1, <1>3, DropItems
  <1>5. SegTypeOK'
    BY <1>2, <1>4 DEF SegInv, SegTypeOK
  <1>6. SegFitsInv' /\ SegRingInv'
    BY <1>2 DEF SegInv, SegFitsInv, SegRingInv, Waiting
  <1>7. ASSUME ~seg_spoilt
        PROVE  SegListsInv'
    <2>1. /\ asked \in Seq(Nat) /\ taken \in Seq(Nat) /\ back \in Seq(Nat)
          /\ taken \o BQ_items(new_queue) = asked
          /\ Append(back \o BQ_items(ret_queue), awg_seg) = <<first>> \o taken
      BY <1>7 DEF SegInv, SegListsInv
    <2>2. Head(BQ_items(ret_queue)) \in Nat
      BY <1>3, <1>4, HeadTailProperties
    <2>3. back' = Append(back, Head(BQ_items(ret_queue)))
      BY <1>1, <1>4, <1>7
    <2>4. back' \in Seq(Nat)
      BY <2>1, <2>2, <2>3, AppendProperties
    <2>5. back' \o BQ_items(ret_queue') = back \o BQ_items(ret_queue)
      BY <1>3, <1>4, <2>1, <2>3, ListMoves, Zenon
    <2>6. QED
      BY <1>2, <2>1, <2>4, <2>5 DEF SegListsInv
  <1>8. SegListsInv'
    <2>1. CASE seg_spoilt
      BY <1>2, <2>1 DEF SegListsInv
    <2>2. QED
      BY <1>7, <2>1
  <1>9. QED
    BY <1>5, <1>6, <1>8 DEF SegInv

\* The next process starts with empty rings and the segment that plays.
LEMMA SegReopenStep ==
  ASSUME SegInv, Seg!Reopen
  PROVE  SegInv'
  <1>1. /\ wpc = "open"
        /\ new_queue' = BQ_clear(new_queue) /\ ret_queue' = BQ_clear(ret_queue)
        /\ seg_spoilt' = (kpc # "idle")
        /\ first' = awg_seg /\ asked' = << >> /\ taken' = << >> /\ back' = << >>
    BY SegRing DEF Seg!Reopen
  <1>2. /\ awg_seg' = awg_seg /\ max_seg' = max_seg /\ awg_seg_bufs' = awg_seg_bufs
        /\ distributor_segment_offset' = distributor_segment_offset
        /\ kpc' = kpc /\ bx' = bx /\ seg_tail' = seg_tail
        /\ wpc' = wpc /\ left' = left /\ headroom' = headroom /\ seg_raced' = seg_raced
    BY DEF Seg!Reopen, Seg!module, Seg!rearm, Seg!process
  <1>3. /\ QueueOK(new_queue) /\ QueueOK(ret_queue) /\ Letters \in Nat
        /\ awg_seg \in 1 .. Letters
    BY AwgSegmentsConstants DEF SegInv, SegTypeOK, Seg!AwgSegmentsAssumption
  <1>4. /\ QueueOK(new_queue') /\ new_queue'.bq_len = new_queue.bq_len
        /\ BQ_count(new_queue') = 0 /\ BQ_items(new_queue') = << >>
        /\ QueueOK(ret_queue') /\ BQ_items(ret_queue') = << >>
    BY <1>1, <1>3, ClearItems
  <1>5. awg_seg \in Nat
    BY <1>3
  <1>6. SegTypeOK'
    BY <1>1, <1>2, <1>4, <1>5 DEF SegInv, SegTypeOK
  <1>7. SegFitsInv'
    BY <1>2 DEF SegInv, SegFitsInv
  <1>8. SegRingInv'
    <2>1. Waiting(new_queue)'
      BY <1>4 DEF Waiting
    <2>2. ~seg_spoilt' => kpc' = "idle" /\ wpc' = "open"
      BY <1>1, <1>2 DEF SegInv, SegTypeOK
    <2>3. QED
      BY <2>1, <2>2 DEF SegRingInv
  <1>9. SegListsInv'
    <2>1. << >> \in Seq(Nat) /\ <<awg_seg>> \in Seq(Nat)
      BY <1>5, EmptySeq
    <2>2. << >> \o << >> = << >> /\ <<awg_seg>> \o << >> = <<awg_seg>>
      BY <2>1, ConcatEmptySeq
    <2>3. Append(<< >>, awg_seg) = <<awg_seg>>
      OBVIOUS
    <2>4. QED
      BY <1>1, <1>2, <1>4, <2>1, <2>2, <2>3, Zenon DEF SegListsInv
  <1>10. QED
    BY <1>6, <1>7, <1>8, <1>9 DEF SegInv

\* Another number of segments: nothing is claimed of the rings until the next open().
LEMMA SegStoreStep ==
  ASSUME SegInv, Seg!StoreMaxSeg
  PROVE  SegInv'
  <1>1. /\ max_seg' \in 1 .. Letters
        /\ awg_seg' = 1 /\ distributor_segment_offset' = 0
        /\ awg_seg_bufs' = Seg!SegBufs(max_seg')
        /\ seg_raced' = (seg_raced \/ kpc # "idle") /\ seg_spoilt' = TRUE
    BY DEF Seg!StoreMaxSeg
  <1>2. /\ new_queue' = new_queue /\ ret_queue' = ret_queue
        /\ kpc' = kpc /\ bx' = bx /\ seg_tail' = seg_tail
        /\ wpc' = wpc /\ left' = left /\ headroom' = headroom /\ first' = first
    BY DEF Seg!StoreMaxSeg, Seg!rings, Seg!rearm, Seg!process
  <1>3. 1 \in 1 .. Letters /\ seg_raced' \in BOOLEAN
    BY <1>1, AwgSegmentsConstants DEF Seg!AwgSegmentsAssumption
  <1>4. SegTypeOK'
    BY <1>1, <1>2, <1>3 DEF SegInv, SegTypeOK
  <1>5. SegFitsInv'
    <2>1. distributor_segment_offset' + 1 <= max_seg'
      BY <1>1, AwgSegmentsConstants DEF Seg!AwgSegmentsAssumption
    <2>2. ~seg_raced' => kpc' # "switch"
      BY <1>1, <1>2 DEF SegInv, SegTypeOK
    <2>3. QED
      BY <2>1, <2>2 DEF SegFitsInv
  <1>6. SegListsInv' /\ SegRingInv'
    BY <1>1 DEF SegListsInv, SegRingInv
  <1>7. QED
    BY <1>4, <1>5, <1>6 DEF SegInv

LEMMA SegStep == SegInv /\ [AllNext]_allvars => SegInv'
  <1> SUFFICES ASSUME SegInv, [AllNext]_allvars
               PROVE  SegInv'
    OBVIOUS
  <1>1. CASE UNCHANGED segvars
    BY <1>1 DEF segvars, SegInv, SegTypeOK, SegFitsInv, SegListsInv, SegRingInv, Waiting
  <1>2. CASE Seg!Next
    BY <1>2, SegTakeStep, SegHandBackStep, SegWriteStep, SegWriteByteStep, SegInterruptedStep,
       SegReadStep, SegReopenStep, SegStoreStep DEF Seg!Next
  <1>3. QED
    BY <1>1, <1>2, SumStep

\* As many segments as max_seg says fit in the distributor's buffers.
LEMMA SegmentsFit ==
  ASSUME NEW D \in Nat, NEW s \in Nat \ {0}, NEW k \in Nat, k <= s
  PROVE  k * (((D \div s) \div 4) * 4) <= D
  <1> DEFINE b == D \div s
             c == (b \div 4) * 4
  <1>1. b \in Nat /\ s * b <= D
    OBVIOUS
  <1> HIDE DEF b
  <1>2. c \in Nat /\ c <= b
    BY <1>1
  <1> HIDE DEF c
  <1>3. k * c <= s * c
    BY <1>2
  <1>4. s * c <= s * b
    BY <1>1, <1>2
  <1>5. k * c \in Nat /\ s * c \in Nat /\ s * b \in Nat
    BY <1>1, <1>2
  <1>6. k * c <= D
    BY <1>1, <1>3, <1>4, <1>5
  <1>7. QED
    BY <1>6 DEF b, c

\* The rings between a process and the driver's kthreads, which no lock covers,
\* deliver: what a receiver unpacks from the embedded words is what was written to
\* the sew FIFO, and a rearming AWG plays the segments it was asked for in order,
\* hands them back in the order played, and stays within the distributor's buffers.
THEOREM RingsAlwaysDeliver == AllSpec => []RingsDeliver
  <1>1. SegInv => Seg!HandedBackInOrder
    <2> SUFFICES ASSUME SegInv, ~seg_spoilt
                 PROVE  /\ taken \o BQ_items(new_queue) = asked
                        /\ back \o BQ_items(ret_queue) =
                             SubSeq(<<first>> \o taken, 1, Len(taken))
      BY SegRing DEF Seg!HandedBackInOrder
    <2>1. /\ taken \in Seq(Nat) /\ back \in Seq(Nat)
          /\ taken \o BQ_items(new_queue) = asked
          /\ Append(back \o BQ_items(ret_queue), awg_seg) = <<first>> \o taken
      BY DEF SegInv, SegListsInv
    <2>2. QueueOK(ret_queue) /\ awg_seg \in Nat /\ <<first>> \in Seq(Nat)
      BY AwgSegmentsConstants DEF SegInv, SegTypeOK, Seg!AwgSegmentsAssumption
    <2> DEFINE s == back \o BQ_items(ret_queue)
               u == <<first>> \o taken
    <2>3. s \in Seq(Nat)
      BY <2>1, <2>2, HeldItems, ConcatProperties
    <2>4. u \in Seq(Nat) /\ Len(u) = Len(<<first>>) + Len(taken)
      BY <2>1, <2>2, ConcatProperties
    <2>5. Append(s, awg_seg) = u
      BY <2>1
    <2> HIDE DEF s, u
    <2>6. s = SubSeq(u, 1, Len(u) - 1)
      BY <2>2, <2>3, <2>4, <2>5, ListFront, Zenon
    <2>7. Len(u) - 1 = Len(taken)
      BY <2>1, <2>4, LenProperties
    <2>8. QED
      BY <2>1, <2>6, <2>7 DEF s, u
  <1>2. SegInv => Seg!SegmentFits
    <2> SUFFICES ASSUME SegInv, ~seg_raced
                 PROVE  (distributor_segment_offset + 1) * awg_seg_bufs <= DistBuffers
      BY DEF Seg!SegmentFits
    <2>1. /\ max_seg \in Nat \ {0} /\ DistBuffers \in Nat
          /\ distributor_segment_offset + 1 \in Nat /\ distributor_segment_offset + 1 <= max_seg
          /\ awg_seg_bufs = ((DistBuffers \div max_seg) \div 4) * 4
      BY AwgSegmentsConstants
      DEF SegInv, SegTypeOK, SegFitsInv, Seg!SegBufs, Seg!AwgSegmentsAssumption
    <2>2. QED
      BY <2>1, SegmentsFit
  <1>3. AllSpec => []SegInv
    BY SegStart, SegStep, PTL DEF AllSpec
  <1>4. Sew!BytesInOrder /\ Seg!HandedBackInOrder /\ Seg!SegmentFits => RingsDeliver
    BY DEF RingsDeliver
  <1>5. QED
    BY <1>1, <1>2, <1>3, <1>4, SewDelivers, PTL
=============================================================================
