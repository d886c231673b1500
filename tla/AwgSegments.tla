---------------------------- MODULE AwgSegments ----------------------------
(***************************************************************************)
(* The segments of a rearming AWG: the distributor's buffers are divided   *)
(* in segments A, B, ...; a process writes the segments to be played to    *)
(* the awg_abcde device of acq400_ui.c, each rearm switches to the next in *)
(* _update_abcde_status() of acq400_drv.c and hands the segment it leaves  *)
(* back, so that the process may fill it again.  No lock covers the two    *)
(* byte rings or the module parameters awg_max_seg of xo_sysfs.c sets, so  *)
(* that a write is a step for each byte.                                   *)
(* Segment A is 1.  One process has the file open: the test of its pid     *)
(* compares the descriptor with itself.                                    *)
(***************************************************************************)
EXTENDS BQ

CONSTANTS
  AWG_ABCDE_LEN,                \* of the rings, a power of two
  DistBuffers,                   \* nbuffers - firstDistributorBuffer() at offset 0
  Letters,                      \* what a process writes, up to this number
  MaxAsked, MaxChanges          \* bounds: segments asked for, changes of max_seg or of process

\* What the constants are; a module that instantiates this one assumes it.
AwgSegmentsAssumption ==
  /\ AWG_ABCDE_LEN \in Nat /\ AWG_ABCDE_LEN >= 2
  /\ DistBuffers \in Nat /\ Letters \in Nat \ {0}

VARIABLES
  new_queue, ret_queue,         \* the rings
  awg_seg, max_seg, awg_seg_bufs, distributor_segment_offset,
  kpc, bx, tail,                \* the rearm thread and its locals
  wpc, left, headroom,          \* the process: where it is, bytes left to write, and of them to put
  first, asked, taken, back,    \* ghosts, while not spoilt: segment at open(), rings' traffic
  changes, raced,               \* of max_seg or process; was max_seg changed in mid switch?
  spoilt                        \* this open: a ring overrun or cleared in mid switch, max_seg changed

rings == <<new_queue, ret_queue>>
module == <<awg_seg, max_seg, awg_seg_bufs, distributor_segment_offset>>
rearm == <<kpc, bx, tail>>
ghosts == <<first, asked, taken, back, spoilt>>
process == <<wpc, left, headroom>>
vars == <<rings, module, rearm, process, ghosts, changes, raced>>

VALID_ABCDE(x) == x \in 1 .. max_seg

\* _set_awg_seg_bufs(): a whole number of groups of four.
SegBufs(segments) == ((DistBuffers \div segments) \div 4) * 4

Init ==
  /\ new_queue = BQ_init(AWG_ABCDE_LEN) /\ ret_queue = BQ_init(AWG_ABCDE_LEN)
  /\ max_seg = Letters
  /\ awg_seg = 1 /\ awg_seg_bufs = SegBufs(max_seg) /\ distributor_segment_offset = 0
  /\ kpc = "idle" /\ bx = 0 /\ tail = 0
  /\ wpc = "open" /\ left = <<>> /\ headroom = 0
  /\ first = 1 /\ asked = <<>> /\ taken = <<>> /\ back = <<>>
  /\ changes = 0 /\ raced = FALSE /\ spoilt = FALSE

----------------------------------------------------------------------------
(* The rearm thread.                                                       *)

\* buf_get() reads the cell and loads tail; VALID_ABCDE() is tested.
Take ==
  /\ kpc = "idle" /\ BQ_count(new_queue) > 0
  /\ bx' = BQ_item(new_queue)
  /\ tail' = BQ_incr(new_queue, new_queue.tail)
  /\ kpc' = IF VALID_ABCDE(bx') THEN "switch" ELSE "reject"
  /\ UNCHANGED <<rings, module, process, ghosts, changes, raced>>

\* buf_get() changes tail, and the old segment is handed back, space or not.
HandBack ==
  /\ new_queue' = [new_queue EXCEPT !.tail = tail]
  /\ ret_queue' = BQ_put(ret_queue, awg_seg)
  /\ spoilt' = (spoilt \/ BQ_full(ret_queue))
  /\ taken' = IF spoilt THEN <<>> ELSE Append(taken, bx)
  /\ kpc' = "idle"

Switch ==
  /\ kpc = "switch" /\ HandBack
  /\ awg_seg' = bx
  /\ distributor_segment_offset' = bx - 1
  /\ UNCHANGED <<max_seg, awg_seg_bufs, bx, tail, process, first, asked, back, changes, raced>>

\* A segment that was valid when it was written.
Reject ==
  /\ kpc = "reject" /\ HandBack
  /\ UNCHANGED <<module, bx, tail, process, first, asked, back, changes, raced>>

----------------------------------------------------------------------------
(* The process that has awg_abcde open.                                    *)

Write ==
  /\ wpc = "open"
  /\ \E n \in 1 .. 2 : left' \in [1 .. n -> 1 .. Letters]
  /\ Len(asked) + Len(left') <= MaxAsked
  /\ wpc' = "write"
  /\ UNCHANGED <<rings, module, rearm, headroom, ghosts, changes, raced>>

\* As many bytes as there is room for ...
WriteSome ==
  /\ wpc = "write" /\ BQ_space(new_queue) > 0
  /\ headroom' = IF Len(left) < BQ_space(new_queue) THEN Len(left) ELSE BQ_space(new_queue)
  /\ wpc' = "put"
  /\ UNCHANGED <<rings, module, rearm, left, ghosts, changes, raced>>

\* ... are put; the invalid ones are passed over, and count as room all the same.
WriteByte ==
  /\ wpc = "put"
  /\ IF VALID_ABCDE(Head(left))
     THEN new_queue' = BQ_put(new_queue, Head(left)) /\ asked' = Append(asked, Head(left))
     ELSE UNCHANGED <<new_queue, asked>>
  /\ left' = Tail(left)
  /\ headroom' = headroom - 1
  /\ wpc' = IF headroom > 1 THEN "put" ELSE IF left' = <<>> THEN "open" ELSE "write"
  /\ UNCHANGED <<ret_queue, module, rearm, first, taken, back, spoilt, changes, raced>>

\* A signal while there is no space: -EINTR, and what is queued is discarded.
WriteInterrupted ==
  /\ wpc = "write" /\ BQ_space(new_queue) = 0
  /\ asked' = SubSeq(asked, 1, Len(asked) - BQ_count(new_queue))
  /\ new_queue' = BQ_clear(new_queue)
  /\ spoilt' = (spoilt \/ kpc # "idle")
  /\ left' = <<>> /\ wpc' = "open"
  /\ UNCHANGED <<ret_queue, module, rearm, headroom, first, taken, back, changes, raced>>

Read ==
  /\ wpc = "open" /\ BQ_count(ret_queue) > 0
  /\ back' = IF spoilt THEN <<>> ELSE Append(back, BQ_item(ret_queue))
  /\ ret_queue' = BQ_drop(ret_queue)
  /\ UNCHANGED <<new_queue, module, rearm, process, first, asked, taken, spoilt, changes, raced>>

\* release() by one process, open() by the next; awg_seg stays.
Reopen ==
  /\ wpc = "open" /\ changes < MaxChanges
  /\ changes' = changes + 1
  /\ new_queue' = BQ_clear(new_queue) /\ ret_queue' = BQ_clear(ret_queue)
  /\ spoilt' = (kpc # "idle")
  /\ first' = awg_seg /\ asked' = <<>> /\ taken' = <<>> /\ back' = <<>>
  /\ UNCHANGED <<module, rearm, process, raced>>

\* store_awg_max_seg(): segment A again, and segments of another size.
StoreMaxSeg ==
  /\ changes < MaxChanges
  /\ changes' = changes + 1
  /\ max_seg' \in 1 .. Letters
  /\ awg_seg' = 1 /\ distributor_segment_offset' = 0
  /\ awg_seg_bufs' = SegBufs(max_seg')
  /\ raced' = (raced \/ kpc # "idle")
  /\ spoilt' = TRUE
  /\ UNCHANGED <<rings, rearm, process, first, asked, taken, back>>

Next ==
  \/ Take \/ Switch \/ Reject
  \/ Write \/ WriteSome \/ WriteByte \/ WriteInterrupted \/ Read \/ Reopen \/ StoreMaxSeg

Spec == Init /\ [][Next]_vars
----------------------------------------------------------------------------
\* Segments are played in the order asked for, and the segments handed back are
\* the ones played before each switch, starting with the one in use at open():
\* none is handed back twice, or while it plays, unless it was asked for again.
HandedBackInOrder ==
  ~spoilt /\ kpc = "idle" =>
    /\ taken \o BQ_items(new_queue) = asked
    /\ back \o BQ_items(ret_queue) = SubSeq(<<first>> \o taken, 1, Len(taken))

\* The buffers of the segment in use are the distributor's own.
SegmentFits ==
  ~raced => (distributor_segment_offset + 1) * awg_seg_bufs <= DistBuffers
=============================================================================
