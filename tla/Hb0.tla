-------------------------------- MODULE Hb0 --------------------------------
(***************************************************************************)
(* The hb0 device: a client that samples the capture, say to show live     *)
(* data, reads the numbers of the current and of the previous host buffer. *)
(* _acq400_continuous_read_update_hb0() in acq400_drv.c publishes the      *)
(* pair, acq400_hb0_read() in acq400_ui.c reads it.  There is no lock: a   *)
(* step is one access to the fields of struct RUN_TIME.                    *)
(***************************************************************************)
EXTENDS Integers

CONSTANTS
  Hb0Clients,                   \* processes that read the device
  hb0_no_ratelimit,             \* module parameter
  MaxBlocks, MaxSeconds         \* bounds: blocks captured, get_seconds()

VARIABLES
  now,                          \* get_seconds()
  n,                            \* the block the capture's reader was given last
  upc,                          \* where update_hb0() is
  rt,                           \* hb0_count, hb0_ix, hb0_last, hbm_m1
  over,                         \* please_stop or refill_error
  pc, count, seen, ix0,         \* each client: where it is, HB0_COUNT, locals
  pair,                         \* what its last read() returned
  raced                         \* did it read while a pair was published?

updater == <<now, n, upc, rt, over>>
client == <<pc, count, seen, ix0, pair, raced>>
vars == <<updater, client>>

None == -1                      \* hbm_m1 == 0

\* _onStart() has cleared struct RUN_TIME; the clients have opened the device.
Init ==
  /\ now = 1 /\ n = 0 /\ upc = "idle" /\ over = FALSE
  /\ rt = [hb0_count |-> 0, hb0_ix0 |-> 0, hb0_ix1 |-> 0, hb0_last |-> 0, hbm_m1 |-> None]
  /\ pc = [c \in Hb0Clients |-> "idle"]
  /\ count = [c \in Hb0Clients |-> -1]
  /\ seen = [c \in Hb0Clients |-> -1]
  /\ ix0 = [c \in Hb0Clients |-> 0]
  /\ pair = [c \in Hb0Clients |-> <<0, 0>>]
  /\ raced = [c \in Hb0Clients |-> FALSE]

Tick ==
  /\ now < MaxSeconds
  /\ now' = now + 1
  /\ UNCHANGED <<n, upc, rt, over, client>>

----------------------------------------------------------------------------
(* The reader of the capture.                                              *)

NextBlock ==
  /\ upc = "idle" /\ n < MaxBlocks /\ ~over
  /\ n' = n + 1
  /\ upc' = "test"
  /\ UNCHANGED <<now, rt, over, client>>

Due == rt.hbm_m1 # None /\ now + hb0_no_ratelimit > rt.hb0_last

\* Publish the pair if it is due: hb0_count++ comes first ...  (hb0_last, which
\* no client reads, is set last in the code, to the time that was tested here.)
UpdateCount ==
  /\ upc = "test" /\ Due
  /\ rt' = [rt EXCEPT !.hb0_count = @ + 1, !.hb0_last = now]
  /\ upc' = "ix0"
  /\ raced' = [c \in Hb0Clients |-> raced[c] \/ pc[c] \in {"copy", "ix0", "ix1"}]
  /\ UNCHANGED <<now, n, over, pc, count, seen, ix0, pair>>

NotDue ==
  /\ upc = "test" /\ ~Due
  /\ upc' = "m1"
  /\ UNCHANGED <<now, n, rt, over, client>>

\* ... then the two buffers.
UpdatePrevious ==
  /\ upc = "ix0"
  /\ rt' = [rt EXCEPT !.hb0_ix0 = rt.hbm_m1]
  /\ upc' = "ix1"
  /\ UNCHANGED <<now, n, over, client>>

\* The current buffer, and the clients are woken.
UpdateCurrent ==
  /\ upc = "ix1"
  /\ rt' = [rt EXCEPT !.hb0_ix1 = n]
  /\ pc' = [c \in Hb0Clients |-> IF pc[c] = "asleep" THEN "wait" ELSE pc[c]]
  /\ upc' = "m1"
  /\ UNCHANGED <<now, n, over, count, seen, ix0, pair, raced>>

\* Mutated form of UpdateDone: the previous buffer is kept up only when a
\* pair is published.
UpdateDone_published ==
  /\ upc = "m1"
  /\ rt' = [rt EXCEPT !.hbm_m1 = IF @ = None \/ rt.hb0_ix1 = n THEN n ELSE @]
  /\ upc' = "idle"
  /\ UNCHANGED <<now, n, over, client>>

UpdateDone ==
  /\ upc = "m1"
  /\ rt' = [rt EXCEPT !.hbm_m1 = n]
  /\ upc' = "idle"
  /\ UNCHANGED <<now, n, over, client>>

\* please_stop or refill_error is set: hb0_marker is not woken.
CaptureEnds ==
  /\ ~over
  /\ over' = TRUE
  /\ UNCHANGED <<now, n, upc, rt, client>>

----------------------------------------------------------------------------
(* acq400_hb0_read().                                                      *)

At(c, l) == pc[c] = l
Goto(c, l) == pc' = [pc EXCEPT ![c] = l]

\* With hb0_no_ratelimit the client waits for a count other than that of its
\* last read(), otherwise for one other than the current.
Hb0Read(c) ==
  /\ At(c, "idle")
  /\ seen' = [seen EXCEPT ![c] = IF hb0_no_ratelimit # 0 THEN count[c] ELSE rt.hb0_count]
  /\ Goto(c, "wait")
  /\ UNCHANGED <<updater, count, ix0, pair, raced>>

\* wait_event_interruptible(), and what ended the wait: the end of the capture
\* before a new pair.
Wait(c) ==
  /\ At(c, "wait")
  /\ Goto(c, IF over THEN "idle" ELSE IF rt.hb0_count # seen[c] THEN "copy" ELSE "asleep")
  /\ raced' = [raced EXCEPT ![c] = upc \in {"ix0", "ix1"}]
  /\ UNCHANGED <<updater, count, seen, ix0, pair>>

Interrupted(c) ==
  /\ At(c, "asleep")
  /\ Goto(c, "idle")
  /\ UNCHANGED <<updater, count, seen, ix0, pair, raced>>

CopyCount(c) ==
  /\ At(c, "copy")
  /\ count' = [count EXCEPT ![c] = rt.hb0_count]
  /\ Goto(c, "ix0")
  /\ UNCHANGED <<updater, seen, ix0, pair, raced>>

\* sprintf() reads hb0_ix[0], then hb0_ix[1].
CopyPrevious(c) ==
  /\ At(c, "ix0")
  /\ ix0' = [ix0 EXCEPT ![c] = rt.hb0_ix0]
  /\ Goto(c, "ix1")
  /\ UNCHANGED <<updater, count, seen, pair, raced>>

CopyCurrent(c) ==
  /\ At(c, "ix1")
  /\ pair' = [pair EXCEPT ![c] = <<ix0[c], rt.hb0_ix1>>]
  /\ Goto(c, "idle")
  /\ UNCHANGED <<updater, count, seen, ix0, raced>>

----------------------------------------------------------------------------
Updating == UpdateCount \/ NotDue \/ UpdatePrevious \/ UpdateCurrent \/ UpdateDone

Reading(c) == Wait(c) \/ CopyCount(c) \/ CopyPrevious(c) \/ CopyCurrent(c)

Next ==
  \/ Tick \/ NextBlock \/ Updating \/ CaptureEnds
  \/ \E c \in Hb0Clients : Hb0Read(c) \/ Reading(c) \/ Interrupted(c)

Spec == Init /\ [][Next]_vars

\* Threads that can run do run.
FairSpec ==
  /\ Spec
  /\ WF_vars(Updating)
  /\ \A c \in Hb0Clients : WF_vars(Reading(c))

----------------------------------------------------------------------------
(* Properties.                                                             *)

\* Between two updates the published pair is the current and the previous
\* buffer, however many blocks the rate limit let go by.
PublishedConsecutive ==
  upc \in {"idle", "test"} /\ rt.hb0_count > 0 => rt.hb0_ix1 = rt.hb0_ix0 + 1

\* A client that sleeps is woken by the next pair that is published: no wake
\* up is lost between its test of hb0_count and its sleep.
WokenByUpdate ==
  \A c \in Hb0Clients :
    (pc[c] = "asleep" /\ rt.hb0_count # seen[c]) ~> pc[c] # "asleep"

\* The published pairs are never more than one a second in the rate limited
\* mode: hb0_count is at most the seconds that have passed.
RateLimited == hb0_no_ratelimit = 0 => rt.hb0_count <= now

\* What the comment of update_hb0() says, "client gets current and previous
\* hbm": a read() returns two buffers captured one after the other, and newer
\* ones than the read() before.  There is no lock, and hb0_count changes before
\* the pair: a read() that a publication overlaps is left out.
ReadsNewPair ==
  [][\A c \in Hb0Clients : CopyCurrent(c) /\ ~raced[c] =>
       /\ pair'[c][2] = pair'[c][1] + 1
       /\ pair'[c][2] > pair[c][2]]_vars
=============================================================================
