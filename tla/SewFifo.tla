------------------------------ MODULE SewFifo ------------------------------
(***************************************************************************)
(* The software embedded words: bytes written to /dev/acq400.0.sew1 go     *)
(* through a ring to a kthread, which every sew_fifo_msec puts up to three *)
(* of them in a register that the FPGA embeds in the data.  write() is in  *)
(* acq400_sewfifo.c, open() and release() in acq400_ui.c.  open() holds    *)
(* awg_mutex and release() does not.  A kthread gets no signals, so that   *)
(* its wait always times out.  One process at a time writes to a file.     *)
(***************************************************************************)
EXTENDS BQ, FiniteSetsExt

CONSTANTS
  SewUsers,                     \* processes that open the device
  SEW_FIFO_LEN,                 \* a power of two
  Payload,                      \* bytes a word takes: 3
  MaxBytes                      \* bound: bytes written

\* What the constants are; a module that instantiates this one assumes it.
SewFifoAssumption ==
  SEW_FIFO_LEN \in Nat /\ SEW_FIFO_LEN >= 2 /\ Payload \in Nat

VARIABLES
  q,                            \* sf_buf: head, tail, cells
  allocated,                    \* sf_buf.buf # 0
  sf_task,                      \* sf_task # 0
  work,                         \* the kthread: where it is, payload_count
  pc, iwrite, count,            \* each user: where it is, write()'s locals
  written,                      \* bytes of earlier write()s of this file
  received,                     \* what a receiver has unpacked, this open, until spoilt
  spoilt                        \* a byte put in a full ring, or sent again

kthread == <<work, received>>
user == <<pc, iwrite, count, written>>
vars == <<q, allocated, sf_task, kthread, user, spoilt>>

Init ==
  /\ q = BQ_init(SEW_FIFO_LEN) /\ allocated = FALSE /\ sf_task = FALSE
  /\ work = [pc |-> "none", payload_count |-> 0]
  /\ pc = [u \in SewUsers |-> "closed"]
  /\ iwrite = 0 /\ count = 0 /\ written = 0
  /\ received = <<>> /\ spoilt = FALSE

----------------------------------------------------------------------------
(* open() and release().                                                   *)

\* The buffer is allocated once; the ring is empty and the kthread runs.
acq400_sew_fifo_init ==
  /\ allocated' = TRUE
  /\ q' = [q EXCEPT !.head = 0, !.tail = 0]
  /\ sf_task' = TRUE
  /\ work' = [pc |-> "wait", payload_count |-> 0]

\* open(), under awg_mutex; -EBUSY when there is a task.
Open(u) ==
  /\ pc[u] = "closed" /\ ~sf_task
  /\ acq400_sew_fifo_init
  /\ pc' = [pc EXCEPT ![u] = "open"]
  /\ iwrite' = 0 /\ count' = 0 /\ written' = 0
  /\ received' = <<>> /\ spoilt' = FALSE

\* kthread_stop(): the thread sees it at the top of its loop.
Release(u) ==
  /\ pc[u] = "open"
  /\ pc' = [pc EXCEPT ![u] = "stop"]
  /\ UNCHANGED <<q, allocated, sf_task, kthread, iwrite, count, written, spoilt>>

Stopped(u) ==
  /\ pc[u] = "stop" /\ work.pc = "none"
  /\ sf_task' = FALSE
  /\ pc' = [pc EXCEPT ![u] = "free"]
  /\ UNCHANGED <<q, allocated, kthread, iwrite, count, written, spoilt>>

\* An open() since has kept the buffer that is freed now.
Free(u) ==
  /\ pc[u] = "free"
  /\ allocated' = FALSE
  /\ pc' = [pc EXCEPT ![u] = "closed"]
  /\ UNCHANGED <<q, sf_task, kthread, iwrite, count, written, spoilt>>

----------------------------------------------------------------------------
(* acq400_sew_fifo_write_bytes().                                          *)

\* Mutated form of HasSpace: the ring may be filled to its last cell.
HasSpace_all == BQ_count(q) < q.bq_len

HasSpace == BQ_space(q) > 0

Write(u) ==
  /\ pc[u] = "open"
  /\ \E n \in 1 .. MaxBytes - written : count' = n
  /\ iwrite' = 0
  /\ pc' = [pc EXCEPT ![u] = "write"]
  /\ UNCHANGED <<q, allocated, sf_task, kthread, written, spoilt>>

\* The byte of iwrite is put; the last one ends write().
Put(u) ==
  /\ pc[u] = "write" /\ allocated
  /\ q' = BQ_put(q, written + iwrite + 1)
  /\ IF iwrite + 1 < count
     THEN iwrite' = iwrite + 1 /\ UNCHANGED <<pc, written>>
     ELSE /\ pc' = [pc EXCEPT ![u] = "open"]
          /\ written' = written + count
          /\ iwrite' = 0
  /\ UNCHANGED <<allocated, sf_task, kthread, count>>

PutByte(u) == HasSpace /\ Put(u) /\ UNCHANGED spoilt

\* The wait has timed out: rc is 0, which is not < 0.  Bound: one timeout or
\* signal an open.
PutLate(u) == ~HasSpace /\ ~spoilt /\ Put(u) /\ spoilt' = TRUE

\* -ERESTARTSYS, the bytes before iwrite sent: the kernel calls write() again
\* with all of them, or the user sees EINTR.
Interrupted(u) ==
  /\ pc[u] = "write" /\ ~HasSpace /\ ~spoilt
  /\ spoilt' = TRUE
  /\ iwrite' = 0
  /\ \/ UNCHANGED pc
     \/ pc' = [pc EXCEPT ![u] = "open"]
  /\ UNCHANGED <<q, allocated, sf_task, kthread, count, written>>

----------------------------------------------------------------------------
(* acq400_sew_fifo_work().                                                 *)

Stopping == \E u \in SewUsers : pc[u] = "stop"

WorkEnds ==
  /\ work.pc = "wait" /\ Stopping
  /\ work' = [work EXCEPT !.pc = "none"]
  /\ UNCHANGED <<q, allocated, sf_task, received, user, spoilt>>

\* The interval has passed, whether or not somebody waits in kthread_stop().
Count ==
  /\ work.pc = "wait"
  /\ work' = [work EXCEPT !.pc = "embed", !.payload_count = Min({BQ_count(q), Payload})]
  /\ UNCHANGED <<q, allocated, sf_task, received, user, spoilt>>

\* The payload and its length, as the receiver takes them out of the word; the
\* word's modulo_count is left out.
Embed ==
  /\ work.pc = "embed" /\ allocated
  /\ LET n == work.payload_count
         payload == [i \in 1 .. n |-> q.buf[(q.tail + i - 1) % q.bq_len]]
     IN /\ q' = [q EXCEPT !.tail = (@ + n) % q.bq_len]
        /\ received' = IF spoilt THEN <<>> ELSE received \o payload
  /\ work' = [work EXCEPT !.pc = "wait"]
  /\ UNCHANGED <<allocated, sf_task, user, spoilt>>

Next ==
  \/ \E u \in SewUsers :
       Open(u) \/ Release(u) \/ Stopped(u) \/ Free(u)
         \/ Write(u) \/ PutByte(u) \/ PutLate(u) \/ Interrupted(u)
  \/ WorkEnds \/ Count \/ Embed

Spec == Init /\ [][Next]_vars
----------------------------------------------------------------------------
\* What a receiver unpacks from the words is what was written, byte by byte,
\* and the bytes it has not seen are in the ring; until a byte was put in a full
\* ring after a timeout or a write() was interrupted.
BytesInOrder ==
  (\E u \in SewUsers : pc[u] \in {"open", "write"}) /\ ~spoilt =>
    received \o BQ_items(q) = [i \in 1 .. written + iwrite |-> i]
=============================================================================
