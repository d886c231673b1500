--------------------------- MODULE MCBufferQueue ---------------------------
(***************************************************************************)
(* The device files that are queues without a lock, for TLC: the queues of *)
(* /dev/acq400.0.bq (BufferQueue; BQ_MIN_BACKLOG has its value in the      *)
(* code, BQ_MAX_BACKLOG is 8 for 512) and the live view hb0 (Hb0), by      *)
(* which other processes follow a capture; the software embedded words     *)
(* (SewFifo) and the segments of a rearming AWG (AwgSegments), with short  *)
(* rings for 4096.  They do not interact: a behaviour is one of either,    *)
(* and the others rest in their initial states.                            *)
(***************************************************************************)
EXTENDS BufferQueue

CONSTANTS
  hb0_no_ratelimit, MaxHb0Blocks, MaxSeconds,
  SewUsers, SEW_FIFO_LEN, Payload, MaxBytes,
  AWG_ABCDE_LEN, DistBuffers, Letters, MaxAsked, MaxChanges

VARIABLES which,                \* the device of this behaviour
          now, hb_n, upc, rt, over, hb_pc, count, seen, ix0, pair, raced,
          sew_q, allocated, sf_task, work, sew_pc, iwrite, sew_count, written,
          received, spoilt,
          new_queue, ret_queue, awg_seg, max_seg, awg_seg_bufs,
          distributor_segment_offset, kpc, bx, seg_tail, wpc, left, headroom, first,
          asked, taken, back, changes, seg_raced, seg_spoilt

hb0vars == <<now, hb_n, upc, rt, over, hb_pc, count, seen, ix0, pair, raced>>
sewvars == <<sew_q, allocated, sf_task, work, sew_pc, iwrite, sew_count, written,
             received, spoilt>>
segvars == <<new_queue, ret_queue, awg_seg, max_seg, awg_seg_bufs,
             distributor_segment_offset, kpc, bx, seg_tail, wpc, left, headroom, first,
             asked, taken, back, changes, seg_raced, seg_spoilt>>
allvars == <<which, vars, hb0vars, sewvars, segvars>>

H == INSTANCE Hb0 WITH n <- hb_n, pc <- hb_pc, Hb0Clients <- BqClients,
       MaxBlocks <- MaxHb0Blocks

Sew == INSTANCE SewFifo WITH q <- sew_q, pc <- sew_pc, count <- sew_count

Seg == INSTANCE AwgSegments WITH tail <- seg_tail, raced <- seg_raced, spoilt <- seg_spoilt

ASSUME SewFifoConstants == Sew!SewFifoAssumption

ASSUME AwgSegmentsConstants == Seg!AwgSegmentsAssumption

BqOnly == which = "bq" /\ UNCHANGED <<which, hb0vars, sewvars, segvars>>
Hb0Only == which = "hb0" /\ UNCHANGED <<which, vars, sewvars, segvars>>
SewOnly == which = "sew" /\ UNCHANGED <<which, vars, hb0vars, segvars>>
SegOnly == which = "seg" /\ UNCHANGED <<which, vars, hb0vars, sewvars>>

AllInit ==
  /\ which \in {"bq", "hb0", "sew", "seg"}
  /\ Init /\ H!Init /\ Sew!Init /\ Seg!Init

AllNext ==
  \/ BqOnly /\ Next
  \/ Hb0Only /\ H!Next
  \/ SewOnly /\ Sew!Next
  \/ SegOnly /\ Seg!Next

\* The fairness of FairSpec of BufferQueue and of Hb0.
AllSpec ==
  /\ AllInit /\ [][AllNext]_allvars
  /\ WF_allvars(BqOnly /\ Notifying)
  /\ WF_allvars(Hb0Only /\ H!Updating)
  /\ \A c \in BqClients :
       WF_allvars(BqOnly /\ Reading(c)) /\ WF_allvars(Hb0Only /\ H!Reading(c))

\* Hb0: the pairs update_hb0() publishes are consecutive, and not more than one
\* a second; a read() returns such a pair, and a newer one than the read() before.
PairsConsecutive == [](H!PublishedConsecutive /\ H!RateLimited) /\ H!ReadsNewPair

\* SewFifo: what a receiver unpacks from the embedded words is what was written.
\* AwgSegments: segments are played in the order asked for and handed back in the
\* order played, and the one in use lies within the distributor's buffers.
RingsDeliver == Sew!BytesInOrder /\ Seg!HandedBackInOrder /\ Seg!SegmentFits

\* A client of bq or hb0 that sleeps is woken when there is something to read.
ClientsWoken == WokenWhenData /\ H!WokenByUpdate
=============================================================================
