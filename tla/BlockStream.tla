---------------------------- MODULE BlockStream ----------------------------
(***************************************************************************)
(* What the continuous capture device promises an application that reads   *)
(* it: a queue of data blocks with loss at its head.  Blocks are delivered *)
(* in the order in which they were acquired; when the application is slow  *)
(* the oldest blocks are discarded, never the newer ones before them; a    *)
(* block is delivered once.                                                *)
(***************************************************************************)
EXTENDS Integers, Sequences

CONSTANT Blocks                 \* the acquired blocks, numbered in order

VARIABLES queue,                \* blocks acquired and not yet delivered
          last                  \* the block delivered last

bsvars == <<queue, last>>

BSInit == queue = << >> /\ last = 0

\* A block is acquired: it is newer than all that wait or were delivered.
Acquire ==
  \E b \in Blocks :
    /\ b > last
    /\ \A i \in 1 .. Len(queue) : b > queue[i]
    /\ queue' = Append(queue, b)
    /\ UNCHANGED last

Deliver ==
  /\ queue # << >>
  /\ last' = Head(queue)
  /\ queue' = Tail(queue)

\* The n oldest blocks are lost.
Discard ==
  \E n \in 1 .. Len(queue) :
    /\ queue' = SubSeq(queue, n + 1, Len(queue))
    /\ UNCHANGED last

BSNext == Acquire \/ Deliver \/ Discard

BSSpec == BSInit /\ [][BSNext]_bsvars
=============================================================================
