------------------------------ MODULE WrDriver ------------------------------
(***************************************************************************)
(* The White Rabbit time stamp devices of the system controller:           *)
(* acq400_wrdrv.c.  The hardware sets a status bit in WR_CTRL for every    *)
(* event; wr_ts_isr() and wr_pps_isr(), each on an interrupt line of its   *)
(* own, record the time of the event in the source's struct WrClient, wake *)
(* its reader, and acknowledge by writing back the status they read.  A    *)
(* process that reads takes the stamp and clears it.                       *)
(*                                                                         *)
(* A time stamp is the number of the source's event.  The two handlers run *)
(* on one CPU with interrupts off (the default affinity): they do not      *)
(* interleave with each other, but hardware and processes go on while they *)
(* run.  A status bit is cleared by writing it, which is what the write of *)
(* int_sta is for.                                                         *)
(***************************************************************************)
EXTENDS Integers, FiniteSetsExt

CONSTANTS
  Sources,                      \* which of ts, tt0, tt1, pkt_rx, pps
  Readers, Writers,             \* processes that open for reading, for writing
  MaxEvents                     \* bound: events in all

ASSUME WrAssumption ==
  /\ Sources \subseteq {"ts", "tt0", "tt1", "pkt_rx", "pps"} /\ Sources # {}
  /\ Readers \cap Writers = {}
  /\ MaxEvents \in Nat

Procs == Readers \cup Writers

VARIABLES
  sta,                          \* the status bits of WR_CTRL
  ev,                           \* events so far: the stamp registers
  isr, int_sta, todo,           \* the handler that runs and its locals
  wc_ts, wc_pid,                \* struct WrClient of each source
  pc, dev, nonblock, tmp,       \* each process: its file and locals
  done,                         \* sources recorded by the handler that runs
  recorded,                     \* history: events that a handler recorded
  merged,                       \* history: events overwritten before that
  late,                         \* history: events after that, bit still set
  last,                         \* the last stamp a read took
  packet,                       \* the packet the last full read returned
  shared                        \* has a handler found the other's bits set?

hw == <<sta, ev, merged, late>>
handler == <<isr, int_sta, todo, done, recorded, shared>>
client == <<wc_ts, wc_pid>>
procs == <<pc, dev, nonblock, tmp>>
vars == <<hw, handler, client, procs, last, packet>>

NoPid == "none"

\* The device of a process that has none open.
AnySource == CHOOSE s \in Sources : TRUE

Init ==
  /\ sta = [s \in Sources |-> FALSE] /\ ev = [s \in Sources |-> 0]
  /\ isr = "idle" /\ int_sta = {} /\ todo = {} /\ done = {}
  /\ wc_ts = [s \in Sources |-> 0] /\ wc_pid = [s \in Sources |-> NoPid]
  /\ pc = [p \in Procs |-> "closed"]
  /\ dev = [p \in Procs |-> AnySource]
  /\ nonblock = [p \in Procs |-> FALSE]
  /\ tmp = [p \in Procs |-> 0]
  /\ recorded = [s \in Sources |-> 0] /\ merged = [s \in Sources |-> 0]
  /\ late = [s \in Sources |-> 0]
  /\ last = [s \in Sources |-> 0] /\ packet = 0 /\ shared = FALSE

----------------------------------------------------------------------------
(* The hardware and the interrupt handlers.                                *)

\* An event of source s.  It has no trace of its own in WR_CTRL when the bit
\* is still set.  Before the handler has read the stamp register it takes the
\* place there of the event before it: merged.  After that the write back of
\* the status clears it with the event that was recorded: late.
Event(s) ==
  /\ MapThenSumSet(LAMBDA r : ev[r], Sources) < MaxEvents
  /\ ev' = [ev EXCEPT ![s] = @ + 1]
  /\ sta' = [sta EXCEPT ![s] = TRUE]
  /\ merged' = [merged EXCEPT ![s] = IF sta[s] /\ s \notin done THEN @ + 1 ELSE @]
  /\ late' = [late EXCEPT ![s] = IF sta[s] /\ s \in done THEN @ + 1 ELSE @]
  /\ UNCHANGED <<handler, client, procs, last, packet>>

Pending == {s \in Sources : sta[s]}

\* A pulse per second and an event of another source are pending at once.
BothPending == "pps" \in Pending /\ Pending # {"pps"}

\* Mutated form of TsIsr: every status bit is written back, set or not.
TsIsr_ackall ==
  /\ isr = "idle" /\ Pending \ {"pps"} # {}
  /\ isr' = "ts" /\ int_sta' = Sources
  /\ todo' = Pending \ {"pps"}
  /\ shared' = (shared \/ BothPending)
  /\ UNCHANGED <<hw, done, recorded, client, procs, last, packet>>

\* wr_ts_isr(): int_sta is WR_CTRL, whatever bits are set in it; the sources
\* are looked at in this order.
TsIsr ==
  /\ isr = "idle" /\ Pending \ {"pps"} # {}
  /\ isr' = "ts" /\ int_sta' = Pending
  /\ todo' = Pending \ {"pps"}
  /\ shared' = (shared \/ BothPending)
  /\ UNCHANGED <<hw, done, recorded, client, procs, last, packet>>

\* wr_pps_isr(), on the second interrupt line.
PpsIsr ==
  /\ isr = "idle" /\ "pps" \in Pending
  /\ isr' = "pps" /\ int_sta' = Pending /\ todo' = {"pps"}
  /\ shared' = (shared \/ BothPending)
  /\ UNCHANGED <<hw, done, recorded, client, procs, last, packet>>

Wake(s) == pc' = [p \in Procs |-> IF pc[p] = "asleep" /\ dev[p] = s THEN "wait" ELSE pc[p]]

\* The order in which wr_ts_isr() looks at the status bits.
Turn == [tt0 |-> 1, tt1 |-> 2, ts |-> 3, pkt_rx |-> 4, pps |-> 5]

IsNext(s) == \A r \in todo : Turn[s] <= Turn[r]

\* Mutated form of Record: no wake_up_interruptible().
Record_nowake(s) ==
  /\ wc_ts' = [wc_ts EXCEPT ![s] = ev[s]]
  /\ recorded' = [recorded EXCEPT ![s] = @ + 1]
  /\ done' = done \cup {s} /\ todo' = todo \ {s}
  /\ UNCHANGED <<hw, isr, int_sta, shared, wc_pid, procs, last, packet>>

\* wrtt_client_isr_action(), wr_pkt_rx_client_isr_action(): the stamp
\* register is read and recorded, and the reader is woken.  (wr_pps_isr()
\* wakes its reader after the acknowledgement: a late wake up.)
Record(s) ==
  /\ wc_ts' = [wc_ts EXCEPT ![s] = ev[s]]
  /\ recorded' = [recorded EXCEPT ![s] = @ + 1]
  /\ done' = done \cup {s} /\ todo' = todo \ {s}
  /\ Wake(s)
  /\ UNCHANGED <<hw, isr, int_sta, shared, wc_pid, dev, nonblock, tmp, last, packet>>

IsrAction == \E s \in todo : IsNext(s) /\ Record(s)

\* acq400wr32(adev, WR_CTRL, int_sta).
Acknowledge ==
  /\ isr # "idle" /\ todo = {}
  /\ sta' = [s \in Sources |-> sta[s] /\ s \notin int_sta]
  /\ isr' = "idle" /\ int_sta' = {} /\ done' = {}
  /\ UNCHANGED <<ev, merged, late, todo, recorded, shared, client, procs, last, packet>>

----------------------------------------------------------------------------
(* open() and release(): one client at a time, by its pid.                 *)

Goto(p, l) == pc' = [pc EXCEPT ![p] = l]

\* The tests of _acq400_wr_open(): only ts and pkt_rx are writable, and a
\* source that another process has open is not opened for reading.
OpenTest(p, s, nb) ==
  /\ pc[p] = "closed"
  /\ p \in Writers => s \in {"ts", "pkt_rx"}
  /\ p \in Readers => wc_pid[s] \in {NoPid, p}
  /\ dev' = [dev EXCEPT ![p] = s]
  /\ nonblock' = [nonblock EXCEPT ![p] = nb]
  /\ Goto(p, "opening")
  /\ UNCHANGED <<hw, handler, client, tmp, last, packet>>

\* The pid is set, and a blocking open discards a stamp that is waiting:
\* for an open for writing too.
OpenSet(p) ==
  /\ pc[p] = "opening"
  /\ wc_pid' = [wc_pid EXCEPT ![dev[p]] = p]
  /\ wc_ts' = [wc_ts EXCEPT ![dev[p]] = IF nonblock[p] THEN @ ELSE 0]
  /\ Goto(p, "idle")
  /\ UNCHANGED <<hw, handler, dev, nonblock, tmp, last, packet>>

\* acq400_wr_release_exclusive().
Release(p) ==
  /\ pc[p] = "idle"
  /\ wc_pid' = [wc_pid EXCEPT ![dev[p]] = IF @ = p THEN NoPid ELSE @]
  /\ dev' = [dev EXCEPT ![p] = AnySource]
  /\ nonblock' = [nonblock EXCEPT ![p] = FALSE]
  /\ packet' = 0
  /\ Goto(p, "closed")
  /\ UNCHANGED <<hw, handler, wc_ts, tmp, last>>

----------------------------------------------------------------------------
(* read(): acq400_wr_read() and acq400_wr_read_pkt_rx().                   *)

\* Only the read of a packet does without the wait when it must not block.
ReadCall(p) ==
  /\ pc[p] = "idle" /\ p \in Readers
  /\ Goto(p, IF dev[p] = "pkt_rx" /\ nonblock[p] THEN "fetch" ELSE "wait")
  /\ packet' = 0
  /\ UNCHANGED <<hw, handler, client, dev, nonblock, tmp, last>>

WaitStamp(p) ==
  /\ pc[p] = "wait"
  /\ Goto(p, IF wc_ts[dev[p]] # 0 THEN "fetch" ELSE "asleep")
  /\ UNCHANGED <<hw, handler, client, dev, nonblock, tmp, last, packet>>

\* A signal: -EINTR.
Interrupted(p) ==
  /\ pc[p] = "asleep"
  /\ Goto(p, "idle")
  /\ UNCHANGED <<hw, handler, client, dev, nonblock, tmp, last, packet>>

\* tmp = wc->wc_ts ...
Fetch(p) ==
  /\ pc[p] = "fetch"
  /\ tmp' = [tmp EXCEPT ![p] = wc_ts[dev[p]]]
  /\ Goto(p, "clear")
  /\ UNCHANGED <<hw, handler, client, dev, nonblock, last, packet>>

\* Mutated form of Clear: the stamp stays.
Clear_kept(p) ==
  /\ pc[p] = "clear"
  /\ last' = [last EXCEPT ![dev[p]] = IF tmp[p] # 0 THEN tmp[p] ELSE @]
  /\ \E full \in BOOLEAN :
       /\ full => dev[p] = "pkt_rx"
       /\ Goto(p, IF full THEN "packet" ELSE "idle")
       /\ tmp' = [tmp EXCEPT ![p] = IF full THEN @ ELSE 0]
  /\ UNCHANGED <<hw, handler, client, dev, nonblock, packet>>

\* ... wc->wc_ts = 0, a step later: a stamp recorded in between is lost.  A
\* read of pkt_rx may be for the stamp alone or for the packet too.
Clear(p) ==
  /\ pc[p] = "clear"
  /\ wc_ts' = [wc_ts EXCEPT ![dev[p]] = 0]
  /\ last' = [last EXCEPT ![dev[p]] = IF tmp[p] # 0 THEN tmp[p] ELSE @]
  /\ \E full \in BOOLEAN :
       /\ full => dev[p] = "pkt_rx"
       /\ Goto(p, IF full THEN "packet" ELSE "idle")
       /\ tmp' = [tmp EXCEPT ![p] = IF full THEN @ ELSE 0]
  /\ UNCHANGED <<hw, handler, wc_pid, dev, nonblock, packet>>

\* It goes on to the packet registers, which hold the newest packet.
ReadPacket(p) ==
  /\ pc[p] = "packet"
  /\ packet' = ev["pkt_rx"]
  /\ tmp' = [tmp EXCEPT ![p] = 0]
  /\ Goto(p, "idle")
  /\ UNCHANGED <<hw, handler, client, dev, nonblock, last>>

----------------------------------------------------------------------------
Handler == TsIsr \/ PpsIsr \/ IsrAction \/ Acknowledge

Internal(p) == OpenSet(p) \/ WaitStamp(p) \/ Fetch(p) \/ Clear(p) \/ ReadPacket(p)

Process(p) ==
  \/ \E s \in Sources, nb \in BOOLEAN : OpenTest(p, s, nb)
  \/ Release(p) \/ ReadCall(p) \/ Interrupted(p)
  \/ Internal(p)

Next ==
  \/ \E s \in Sources : Event(s)
  \/ Handler
  \/ \E p \in Procs : Process(p)

Spec == Init /\ [][Next]_vars

\* An interrupt is served, and a process inside a system call runs.
FairSpec ==
  /\ Spec
  /\ WF_vars(Handler)
  /\ \A p \in Procs : WF_vars(Internal(p))
----------------------------------------------------------------------------
(* Properties.                                                             *)

\* Where the events of a source go (struct WrClient: "time of event, recorded by
\* ISR").  Of every event one of four is true: a handler recorded it; it is
\* pending; a newer one took its place in the stamp register before a handler
\* read that; or it came between the handler's reading of the stamp register and
\* its write back of the status, which acknowledges it with no record (late).
\* No event is lost in another way, in particular none of a source that
\* the handler did not find pending.  Claimed as long as no handler has found a
\* bit of the other handler's sources set.
EventsAccounted ==
  shared \/ \A s \in Sources :
    ev[s] = recorded[s] + merged[s] + late[s] + (IF sta[s] /\ s \notin done THEN 1 ELSE 0)

\* The stamps that reads take from a source only go forward, and none is
\* taken twice, although the handler stores a stamp between the fetch and
\* the clearing of the one before.  And the packet that a read returns is never
\* older than the stamp it returns with it: a packet that overtakes shows up as
\* the newer one.
StampsAdvance ==
  [][\A p \in Readers :
       /\ pc[p] = "clear" /\ pc'[p] # "clear" /\ tmp[p] # 0 => tmp[p] > last[dev[p]]
       /\ pc[p] = "packet" /\ pc'[p] # "packet" => packet' >= tmp[p]]_vars

\* A reader that waits while an event of its source is yet to be recorded
\* returns: no wake up is lost between its test of wc_ts and its sleep.  Three
\* cases are left out.  An event that comes after the handler has read the
\* stamp register (the source is in done) is acknowledged with no record and no wake
\* up: a reader that has taken the stamp and waits again sleeps through it.
\* Another open of the source discards the stamp.  And a handler that has
\* found a bit of the other handler's sources set acknowledges it unrecorded.
WaiterWakes ==
  \A p \in Readers :
    pc[p] \in {"wait", "asleep"} /\ sta[dev[p]] /\ dev[p] \notin done
      ~> \/ pc[p] \notin {"wait", "asleep"}
         \/ \E q \in Procs \ {p} : pc[q] = "opening" /\ dev[q] = dev[p]
         \/ shared
=============================================================================
