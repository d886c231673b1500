-------------------------------- MODULE BQ ---------------------------------
(***************************************************************************)
(* struct BQ of acq400_structs.h: a queue of buffer numbers in a ring of   *)
(* bq_len cells, bq_len a power of two.  One cell is always left unused,   *)
(* so that head = tail means empty.  The producer moves head, the consumer *)
(* moves tail; there is no lock.                                           *)
(***************************************************************************)
EXTENDS Integers, Sequences

\* A queue of length len, as BQ_init() allocates it.
BQ_init(len) == [head |-> 0, tail |-> 0, buf |-> [i \in 0 .. len - 1 |-> 0], bq_len |-> len]

\* (cursor+1)&(bq->bq_len-1).
BQ_incr(q, cursor) == (cursor + 1) % q.bq_len

BQ_empty(q) == q.head = q.tail

BQ_full(q) == BQ_incr(q, q.head) = q.tail

\* CIRC_CNT() and CIRC_SPACE().
BQ_count(q) == (q.head - q.tail) % q.bq_len

BQ_space(q) == (q.tail - (q.head + 1)) % q.bq_len

\* BQ_put(): the item is stored and the head moves past it; it warns when the
\* queue is full, and puts the item anyway.
BQ_store(q, item) == [q EXCEPT !.buf = [@ EXCEPT ![q.head] = item]]
BQ_advance(q) == [q EXCEPT !.head = BQ_incr(q, q.head)]
BQ_put(q, item) == BQ_advance(BQ_store(q, item))

\* BQ_get() and BQ_get_st(): the item and the queue after it was taken.
BQ_item(q) == q.buf[q.tail]
BQ_drop(q) == [q EXCEPT !.tail = BQ_incr(q, q.tail)]

BQ_clear(q) == [q EXCEPT !.head = 0, !.tail = 0]

\* What the queue holds, oldest first.
BQ_items(q) == [i \in 1 .. BQ_count(q) |-> q.buf[(q.tail + i - 1) % q.bq_len]]
=============================================================================
