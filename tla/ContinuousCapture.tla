------------------------- MODULE ContinuousCapture -------------------------
(***************************************************************************)
(* Continuous capture on the system controller (site 0): the clients that  *)
(* open, read and release /dev/acq400.0.c, the data loop kthread           *)
(* ai_data_loop() that keeps the two ping-pong channels of the DMAC        *)
(* supplied with host buffers, the DMAC and its completion callback, and   *)
(* the fifo_monitor() kthread.  acq400_drv.c, acq400_lists.c,              *)
(* acq400_core.c, dma_shims.c.                                             *)
(*                                                                         *)
(* A step is what a thread does between two points at which another thread *)
(* can see or change what it uses: a critical section, or a test of shared *)
(* state made outside the mutex.  The tests of list_empty() in getFull()   *)
(* and getEmptyFromRefills() are such points: the list is tested outside   *)
(* list_mutex and its head is taken inside it.                             *)
(*                                                                         *)
(* Undefined behaviour (the head of an empty list, kthread_stop() of a     *)
(* thread that has gone, a second data loop) is recorded in ub and ends    *)
(* the behaviour: nothing is claimed of what follows.                      *)
(***************************************************************************)
EXTENDS HostBuffers, FiniteSets

CONSTANTS
  Clients,                      \* processes that open the capture device
  OPEN_BACKLOG,                 \* module parameters of the same names
  run_buffers,
  quit_on_buffer_exhaustion,
  SlowStart,                    \* may the poll for task_active give up?
  MaxBlocks,                    \* bound: blocks the DMAC transfers
  MaxOpens                      \* bound: opens of the device

ASSUME CaptureAssumption ==
  /\ Clients # {}
  /\ OPEN_BACKLOG \in Nat
  /\ run_buffers \in Nat
  /\ quit_on_buffer_exhaustion \in BOOLEAN
  /\ SlowStart \in BOOLEAN
  /\ MaxBlocks \in Nat
  /\ MaxOpens \in Nat

VARIABLES
  rt,                           \* struct RUN_TIME, cleared by _onStart()
  busy,                         \* adev->booleans.busy
  w_task, h_task,               \* is the pointer set?
  task_active,
  should_stop,                  \* kthread_should_stop() of the data loop
  dma_callback_done,
  aggregator,                   \* is the aggregator enabled?
  chan,                         \* the transfer queued on each DMA channel
  event,                        \* DMAC events EV0, EV1 that are latched
  callbacks,                    \* completed transfers yet to be called back
  content,                      \* the block each host buffer holds
  block,                        \* blocks transferred so far
  lpc, ic, lhbm, ldone, drain, dma_timeout,  \* ai_data_loop() and its locals
  cpc, backlog,                 \* each client: where it is, its locals
  opens,                        \* opens so far
  delivered,                    \* the last block a client was given (until stale)
  taken, drained,               \* buffers delivered, buffers drained
  stale,                        \* was a capture primed with an event left latched?
  ub                            \* undefined behaviour met

task == <<busy, w_task, h_task, task_active, should_stop>>
dmac == <<chan, event, callbacks, content, block>>
loop == <<lpc, ic, lhbm, ldone, drain, dma_timeout>>
client == <<cpc, backlog, opens>>
ghost == <<delivered, taken, drained, stale>>

vars == <<lists, rt, task, dma_callback_done, aggregator, dmac, loop, client, ghost, ub>>

NoHBM == -1

\* A DMA channel: the buffer of the transfer queued on it (NoHBM: none was
\* queued since the channel was terminated), whether the transfer waits for
\* the event of the other channel, and whether its cookie is complete.
Idle == [hbm |-> NoHBM, wait |-> FALSE, complete |-> TRUE]

RT0 == [refill_error |-> 0, please_stop |-> FALSE, buffers_dropped |-> 0,
        nget |-> 0, ngetr |-> 0, nput |-> 0]

\* The critical sections of empty_lists() and of the end of a capture.
Emptying == {"empty_refills", "empty_inflight", "move_opens", "move_refills", "move_inflight"}

Starting == {"empty_refills", "empty_inflight", "sort", "onstart", "reset",
             "start_dma", "kthread_run", "poll_active", "agg_enable"}
Reading == {"putempty", "getfull", "wait", "asleep", "take"}
Stopping == {"dma_stop", "kthread_stop", "join", "stop_monitor", "inactive",
             "move_opens", "move_refills", "move_inflight"}

LoopPc == {"none", "prime0", "prime1", "activate", "top", "wait", "dec", "sync",
           "putfull", "getempty", "refills", "pull", "issue", "fifo",
           "depth", "drain", "quit", "deactivate", "exited"}

ClientPc == {"closed", "idle"} \cup Starting \cup Reading \cup Stopping

RUN_TIME == [refill_error : 0 .. 2, please_stop : BOOLEAN,
             buffers_dropped : Nat, nget : Nat, ngetr : Nat, nput : Nat]

DMA_CHAN == [hbm : HBM \cup {NoHBM}, wait : BOOLEAN, complete : BOOLEAN]

RtTypeOK == rt \in RUN_TIME

TaskTypeOK ==
  /\ busy \in BOOLEAN /\ w_task \in BOOLEAN /\ h_task \in BOOLEAN
  /\ task_active \in BOOLEAN /\ should_stop \in BOOLEAN

DmacTypeOK ==
  /\ dma_callback_done \in Int
  /\ aggregator \in BOOLEAN
  /\ chan \in [0 .. 1 -> DMA_CHAN]
  /\ event \in [0 .. 1 -> BOOLEAN]
  /\ callbacks \in Nat
  /\ content \in [HBM -> Nat]
  /\ block \in Nat

LoopTypeOK ==
  /\ lpc \in LoopPc /\ ic \in 0 .. 1 /\ lhbm \in HBM \cup {NoHBM}
  /\ ldone \in Int /\ drain \in BOOLEAN
  /\ dma_timeout \in {"START_TIMEOUT", "DMA_TIMEOUT"}

ClientTypeOK ==
  /\ cpc \in [Clients -> ClientPc]
  /\ backlog \in [Clients -> Int]
  /\ opens \in Nat

GhostTypeOK ==
  /\ delivered \in Nat /\ taken \in Nat /\ drained \in Nat /\ stale \in BOOLEAN
  /\ ub \in {"no", "list_head", "dead_task", "two_loops", "unlocked_sort"}

TypeOK ==
  /\ ListsTypeOK /\ RtTypeOK /\ TaskTypeOK /\ DmacTypeOK /\ LoopTypeOK
  /\ ClientTypeOK /\ GhostTypeOK

Init ==
  /\ ListsInit
  /\ rt = RT0
  /\ busy = FALSE /\ w_task = FALSE /\ h_task = FALSE
  /\ task_active = FALSE /\ should_stop = FALSE
  /\ dma_callback_done = 0
  /\ aggregator = FALSE
  /\ chan = [c \in 0 .. 1 |-> Idle]
  /\ event = [e \in 0 .. 1 |-> FALSE]
  /\ callbacks = 0
  /\ content = [b \in HBM |-> 0]
  /\ block = 0
  /\ lpc = "none" /\ ic = 0 /\ lhbm = NoHBM /\ ldone = 0 /\ drain = FALSE
  /\ dma_timeout = "START_TIMEOUT"
  /\ cpc = [c \in Clients |-> "closed"]
  /\ backlog = [c \in Clients |-> 0]
  /\ opens = 0
  /\ delivered = 0 /\ taken = 0 /\ drained = 0 /\ stale = FALSE
  /\ ub = "no"

----------------------------------------------------------------------------
(* Pieces of steps.                                                        *)

At(c, l) == ub = "no" /\ cpc[c] = l
Goto(c, l) == cpc' = [cpc EXCEPT ![c] = l]

\* wake_up_interruptible(&adev->refill_ready): a sleeping reader tests its
\* condition again.
WakeReaders == cpc' = [c \in Clients |-> IF cpc[c] = "asleep" THEN "wait" ELSE cpc[c]]

\* adev->mutex is free: no client holds it while it stops the threads.
MutexFree == \A c \in Clients : cpc[c] \notin {"kthread_stop", "join", "stop_monitor"}

\* The behaviour is undefined from here on.
Undefined(kind) ==
  /\ ub' = kind
  /\ UNCHANGED <<lists, rt, task, dma_callback_done, aggregator, dmac, loop, client, ghost>>

----------------------------------------------------------------------------
(* open(): acq420_open_continuous() and acq2006_continuous_start().        *)

\* empty_lists() comes first, before anything asks whether the device is
\* busy: three critical sections, one for each list ...
OpenDevice(c) ==
  /\ At(c, "closed") /\ opens < MaxOpens
  /\ opens' = opens + 1
  /\ moveOpensToEmpty
  /\ Goto(c, "empty_refills")
  /\ UNCHANGED <<rt, task, dma_callback_done, aggregator, dmac, loop, backlog, ghost, ub>>

EmptyRefills(c) ==
  /\ At(c, "empty_refills")
  /\ moveRefillsToEmpty
  /\ Goto(c, "empty_inflight")
  /\ UNCHANGED <<rt, task, dma_callback_done, aggregator, dmac, loop, backlog, opens, ghost, ub>>

EmptyInflight(c) ==
  /\ At(c, "empty_inflight")
  /\ moveInflightToEmpty
  /\ Goto(c, "sort")
  /\ UNCHANGED <<rt, task, dma_callback_done, aggregator, dmac, loop, backlog, opens, ghost, ub>>

\* ... and sort_empties(), outside list_mutex.
SortEmpties(c) ==
  /\ At(c, "sort")
  /\ sortEmpties
  /\ Goto(c, "onstart")
  /\ UNCHANGED <<rt, task, dma_callback_done, aggregator, dmac, loop, backlog, opens, ghost, ub>>

\* Another thread is about to link or unlink a buffer of EMPTIES: is_sorted()
\* and list_sort() walk a list that changes under them.
SortRaces(c) ==
  /\ At(c, "sort")
  /\ \/ lpc \in {"prime0", "prime1", "getempty"} /\ EMPTIES # << >>
     \/ lpc = "drain" /\ REFILLS # << >>
     \/ \E d \in Clients \ {c} :
          \/ cpc[d] = "putempty" /\ backlog[d] > OPEN_BACKLOG
          \/ cpc[d] \in {"sort"} \cup Emptying
  /\ Undefined("unlocked_sort")

\* _onStart(), under adev->mutex: the run time state is cleared.
OnStart(c) ==
  /\ At(c, "onstart")
  /\ MutexFree
  /\ rt' = RT0
  /\ taken' = 0 /\ drained' = 0
  /\ Goto(c, "reset")
  /\ UNCHANGED <<lists, task, dma_callback_done, aggregator, dmac, loop, backlog, opens,
                 delivered, stale, ub>>

\* ... unless a signal ends the wait for the mutex.  The caller does not
\* look at -EINTR and goes on with the state of the capture before.
OnStartInterrupted(c) ==
  /\ At(c, "onstart")
  /\ ~MutexFree
  /\ Goto(c, "reset")
  /\ UNCHANGED <<lists, rt, task, dma_callback_done, aggregator, dmac, loop, backlog, opens, ghost, ub>>

\* (1) acq2106_aggregator_reset(), (2) sc_data_engine_reset_enable().
ResetAggregator(c) ==
  /\ At(c, "reset")
  /\ aggregator' = FALSE
  /\ Goto(c, "start_dma")
  /\ UNCHANGED <<lists, rt, task, dma_callback_done, dmac, loop, backlog, opens, ghost, ub>>

\* (3) _acq420_continuous_start_dma(), the part under adev->mutex: -EBUSY
\* when the device is busy or no DMA channel is free, -EINTR when a signal
\* ends the wait for the mutex.
StartDmaRefused(c) ==
  /\ At(c, "start_dma")
  /\ Goto(c, "closed")
  /\ UNCHANGED <<lists, rt, task, dma_callback_done, aggregator, dmac, loop, backlog, opens, ghost, ub>>

StartDma(c) ==
  /\ At(c, "start_dma")
  /\ MutexFree
  /\ ~busy
  /\ dma_callback_done' = 0
  /\ Goto(c, "kthread_run")
  /\ UNCHANGED <<lists, rt, task, aggregator, dmac, loop, backlog, opens, ghost, ub>>

\* kthread_run() of the data loop unless w_task is set, and of fifo_monitor().
\* A loop that a release forgot while it was starting is still there: the
\* new one would be a second.
RunThreads(c) ==
  /\ At(c, "kthread_run")
  /\ IF ~w_task /\ lpc \notin {"none", "exited"}
     THEN Undefined("two_loops")
     ELSE /\ w_task' = TRUE /\ h_task' = TRUE
          /\ lpc' = IF w_task THEN lpc ELSE "prime0"
          /\ should_stop' = (should_stop /\ w_task)
          /\ Goto(c, "poll_active")
          /\ UNCHANGED <<lists, rt, busy, task_active, dma_callback_done, aggregator, dmac,
                         ic, lhbm, ldone, dma_timeout, drain, backlog, opens, ghost, ub>>

\* The poll for task_active, every 10 msec; busy is set outside the mutex.
SeenActive(c) ==
  /\ At(c, "poll_active")
  /\ task_active
  /\ busy' = TRUE
  /\ Goto(c, "agg_enable")
  /\ UNCHANGED <<lists, rt, w_task, h_task, task_active, should_stop,
                 dma_callback_done, aggregator, dmac, loop, backlog, opens, ghost, ub>>

\* ... or gives up after 200 polls: open() fails, and nothing is undone.
PollGivesUp(c) ==
  /\ At(c, "poll_active")
  /\ SlowStart /\ ~task_active
  /\ Goto(c, "closed")
  /\ UNCHANGED <<lists, rt, task, dma_callback_done, aggregator, dmac, loop, backlog, opens, ghost, ub>>

\* (4) acq2006_aggregator_enable(), (5) acq400_enable_trg_if_master(): open()
\* returns, and data may flow.
EnableAggregator(c) ==
  /\ At(c, "agg_enable")
  /\ aggregator' = TRUE
  /\ Goto(c, "idle")
  /\ UNCHANGED <<lists, rt, task, dma_callback_done, dmac, loop, backlog, opens, ghost, ub>>

----------------------------------------------------------------------------
(* read(): acq400_continuous_read().                                       *)

\* read() returns -1 at once when the capture has been asked to stop;
\* otherwise it counts the buffers this client left open.
Read(c) ==
  /\ At(c, "idle")
  /\ ~rt.please_stop
  /\ backlog' = [backlog EXCEPT ![c] = Len(OPENS)]
  /\ Goto(c, "putempty")
  /\ UNCHANGED <<lists, rt, task, dma_callback_done, aggregator, dmac, loop, opens, ghost, ub>>

\* while (backlog-- > OPEN_BACKLOG) putEmpty().
PutEmpty(c) ==
  /\ At(c, "putempty")
  /\ backlog[c] > OPEN_BACKLOG
  /\ putEmpty
  /\ backlog' = [backlog EXCEPT ![c] = @ - 1]
  /\ rt' = [rt EXCEPT !.buffers_dropped = @ + 1]
  /\ UNCHANGED <<task, dma_callback_done, aggregator, dmac, loop, cpc, opens, ghost, ub>>

PutEmptyNone(c) ==
  /\ At(c, "putempty")
  /\ backlog[c] > OPEN_BACKLOG /\ OPENS = << >>
  /\ Undefined("list_head")

BacklogDone(c) ==
  /\ At(c, "putempty")
  /\ backlog[c] <= OPEN_BACKLOG
  /\ backlog' = [backlog EXCEPT ![c] = 0]
  /\ Goto(c, "getfull")
  /\ UNCHANGED <<lists, rt, task, dma_callback_done, aggregator, dmac, loop, opens, ghost, ub>>

\* getFull(): list_empty(&adev->REFILLS), outside the mutex.
TestRefills(c) ==
  /\ At(c, "getfull")
  /\ Goto(c, IF REFILLS = << >> THEN "wait" ELSE "take")
  /\ UNCHANGED <<lists, rt, task, dma_callback_done, aggregator, dmac, loop, backlog, opens, ghost, ub>>

\* wait_event_interruptible(): the condition is tested before the reader
\* sleeps and each time it is woken.  please_stop comes before refill_error,
\* and both come before data.
WaitRefill(c) ==
  /\ At(c, "wait")
  /\ Goto(c, IF rt.please_stop \/ rt.refill_error # 0 THEN "idle"
             ELSE IF REFILLS # << >> THEN "take" ELSE "asleep")
  /\ UNCHANGED <<lists, rt, task, dma_callback_done, aggregator, dmac, loop, backlog, opens, ghost, ub>>

\* A signal ends the sleep: read() returns -EINTR.
Interrupted(c) ==
  /\ At(c, "asleep")
  /\ Goto(c, "idle")
  /\ UNCHANGED <<lists, rt, task, dma_callback_done, aggregator, dmac, loop, backlog, opens, ghost, ub>>

\* __getFull(), inside the mutex; the client is given the buffer.  (The test
\* of OPENS that follows, acq400_drv.c:859, turns the result into -1 when another
\* client's open() has emptied the list since, and changes nothing.)
TakeFull(c) ==
  /\ At(c, "take")
  /\ getFull
  /\ delivered' = IF stale THEN delivered ELSE content[Head(REFILLS)]
  /\ taken' = taken + 1
  /\ Goto(c, "idle")
  /\ UNCHANGED <<rt, task, dma_callback_done, aggregator, dmac, loop, backlog, opens, drained, stale, ub>>

\* __getFull() of a list that was emptied after it was tested.
TakeListHead(c) ==
  /\ At(c, "take")
  /\ REFILLS = << >>
  /\ Undefined("list_head")

----------------------------------------------------------------------------
(* release(): acq2006_continuous_stop().                                   *)

Release(c) ==
  /\ At(c, "idle")
  /\ aggregator' = FALSE
  /\ Goto(c, "dma_stop")
  /\ UNCHANGED <<lists, rt, task, dma_callback_done, dmac, loop, backlog, opens, ghost, ub>>

\* _acq420_continuous_dma_stop(): under adev->mutex, task_active is tested ...
TestTaskActive(c) ==
  /\ At(c, "dma_stop")
  /\ MutexFree
  /\ Goto(c, IF task_active /\ w_task THEN "kthread_stop" ELSE "stop_monitor")
  /\ UNCHANGED <<lists, rt, task, dma_callback_done, aggregator, dmac, loop, backlog, opens, ghost, ub>>

\* ... and kthread_stop() asks the thread to stop.  The data loop may have
\* left through do_exit() since the test: w_task then points to nothing.
KthreadStop(c) ==
  /\ At(c, "kthread_stop")
  /\ lpc # "exited"
  /\ should_stop' = TRUE
  /\ Goto(c, "join")
  /\ UNCHANGED <<lists, rt, busy, w_task, h_task, task_active, dma_callback_done, aggregator, dmac,
                 loop, backlog, opens, ghost, ub>>

KthreadStopGone(c) ==
  /\ At(c, "kthread_stop")
  /\ lpc = "exited"
  /\ Undefined("dead_task")

\* kthread_stop() returns when the thread has exited.
Join(c) ==
  /\ At(c, "join")
  /\ lpc = "exited"
  /\ Goto(c, "stop_monitor")
  /\ UNCHANGED <<lists, rt, task, dma_callback_done, aggregator, dmac, loop, backlog, opens, ghost, ub>>

StopMonitor(c) ==
  /\ At(c, "stop_monitor")
  /\ h_task' = FALSE
  /\ Goto(c, "inactive")
  /\ UNCHANGED <<lists, rt, busy, w_task, task_active, should_stop, dma_callback_done, aggregator, dmac,
                 loop, backlog, opens, ghost, ub>>

\* The release waits until task_active is clear, then forgets the thread.
ForgetTask(c) ==
  /\ At(c, "inactive")
  /\ ~task_active /\ MutexFree
  /\ w_task' = FALSE
  /\ Goto(c, "move_opens")
  /\ UNCHANGED <<lists, rt, busy, h_task, task_active, should_stop, dma_callback_done, aggregator, dmac,
                 loop, backlog, opens, ghost, ub>>

\* The lists go back to EMPTIES, one critical section for each.
MoveOpens(c) ==
  /\ At(c, "move_opens")
  /\ moveOpensToEmpty
  /\ Goto(c, "move_refills")
  /\ UNCHANGED <<rt, task, dma_callback_done, aggregator, dmac, loop, backlog, opens, ghost, ub>>

MoveRefills(c) ==
  /\ At(c, "move_refills")
  /\ moveRefillsToEmpty
  /\ Goto(c, "move_inflight")
  /\ UNCHANGED <<rt, task, dma_callback_done, aggregator, dmac, loop, backlog, opens, ghost, ub>>

\* Mutated form of FinishRelease: busy stays set.
FinishRelease_busy(c) ==
  /\ At(c, "move_inflight")
  /\ moveInflightToEmpty
  /\ Goto(c, "closed")
  /\ UNCHANGED <<rt, task, dma_callback_done, aggregator, dmac, loop, backlog, opens, ghost, ub>>

\* busy is cleared; acq400_release().
FinishRelease(c) ==
  /\ At(c, "move_inflight")
  /\ moveInflightToEmpty
  /\ busy' = FALSE
  /\ Goto(c, "closed")
  /\ UNCHANGED <<rt, w_task, h_task, task_active, should_stop, dma_callback_done, aggregator, dmac,
                 loop, backlog, opens, ghost, ub>>

----------------------------------------------------------------------------
(* The data loop: ai_data_loop().                                          *)

LoopAt(l) == ub = "no" /\ lpc = l

\* hbm0 = getEmpty().
PrimeFirst ==
  /\ LoopAt("prime0")
  /\ getEmpty
  /\ lhbm' = Head(EMPTIES)
  /\ rt' = [rt EXCEPT !.nget = @ + 1]
  /\ lpc' = "prime1"
  /\ UNCHANGED <<task, dma_callback_done, aggregator, dmac, ic, ldone, drain, dma_timeout, client, ghost, ub>>

\* hbm1 = getEmpty(), and the DMAC is primed: channel 1 waits for the event
\* of channel 0, channel 0 does not wait.  No one clears the events: one that
\* the capture before left latched lets the channels run out of turn.
PrimeSecond ==
  /\ LoopAt("prime1")
  /\ getEmpty
  /\ chan' = [c \in 0 .. 1 |-> [hbm |-> IF c = 0 THEN lhbm ELSE Head(EMPTIES),
                                wait |-> c = 1, complete |-> FALSE]]
  /\ lhbm' = NoHBM
  /\ rt' = [rt EXCEPT !.nget = @ + 1]
  /\ lpc' = "activate"
  /\ stale' = (stale \/ event[0] \/ event[1])
  /\ UNCHANGED <<task, dma_callback_done, aggregator, event, callbacks, content,
                 block, ic, ldone, drain, dma_timeout, client, delivered, taken, drained, ub>>

\* getEmpty() returned 0 and its result is used.
PrimeNone ==
  /\ LoopAt("prime0") \/ LoopAt("prime1")
  /\ EMPTIES = << >>
  /\ Undefined("list_head")

Activate ==
  /\ LoopAt("activate")
  /\ task_active' = TRUE
  /\ ic' = 0 /\ dma_timeout' = "START_TIMEOUT"
  /\ lpc' = "top"
  /\ UNCHANGED <<lists, rt, busy, w_task, h_task, should_stop, dma_callback_done, aggregator, dmac,
                 lhbm, ldone, drain, client, ghost, ub>>

\* The heads of the two for loops.
LoopTop ==
  /\ LoopAt("top")
  /\ lpc' = IF should_stop THEN "quit" ELSE "wait"
  /\ drain' = FALSE
  /\ UNCHANGED <<lists, rt, task, dma_callback_done, aggregator, dmac, ic, lhbm, ldone, dma_timeout, client, ghost, ub>>


\* Mutated form of DmaReady: the wait does not end when the loop is to stop.
DmaReady_nostop ==
  /\ LoopAt("wait")
  /\ dma_callback_done # 0
  /\ ldone' = dma_callback_done
  /\ lpc' = "dec"
  /\ UNCHANGED <<lists, rt, task, dma_callback_done, aggregator, dmac, ic, lhbm, drain, dma_timeout,
                 client, ghost, ub>>

\* wait_event_interruptible_timeout(DMA_READY) ends, and the decrement of
\* dma_callback_done reads the counter.
DmaReady ==
  /\ LoopAt("wait")
  /\ dma_callback_done # 0 \/ should_stop
  /\ ldone' = dma_callback_done
  /\ lpc' = "dec"
  /\ UNCHANGED <<lists, rt, task, dma_callback_done, aggregator, dmac, ic, lhbm, drain, dma_timeout, client, ghost, ub>>


\* Mutated form of DmaTimeout: readers are not woken.
DmaTimeout_nowake ==
  /\ LoopAt("wait")
  /\ dma_timeout = "DMA_TIMEOUT"
  /\ dma_callback_done = 0 /\ ~should_stop
  /\ rt' = [rt EXCEPT !.refill_error = 2]
  /\ lpc' = "quit"
  /\ UNCHANGED <<lists, task, dma_callback_done, aggregator, dmac, ic, lhbm, ldone, drain,
                 dma_timeout, client, ghost, ub>>

\* No callback within the timeout: refill_error, readers are woken.  The
\* wait for the first block (START_TIMEOUT, MAX_SCHEDULE_TIMEOUT) has none.
DmaTimeout ==
  /\ LoopAt("wait")
  /\ dma_timeout = "DMA_TIMEOUT"
  /\ dma_callback_done = 0 /\ ~should_stop
  /\ rt' = [rt EXCEPT !.refill_error = 2]
  /\ WakeReaders
  /\ lpc' = "quit"
  /\ UNCHANGED <<lists, task, dma_callback_done, aggregator, dmac, ic, lhbm, ldone, dma_timeout, drain,
                 backlog, opens, ghost, ub>>

\* The decrement writes the counter back.
Decrement ==
  /\ LoopAt("dec")
  /\ dma_callback_done' = ldone - 1
  /\ ldone' = 0
  /\ lpc' = IF should_stop THEN "quit" ELSE "sync"
  /\ UNCHANGED <<lists, rt, task, aggregator, dmac, ic, lhbm, drain, dma_timeout, client, ghost, ub>>


\* Mutated form of SyncWait: no dma_sync_wait(), the callback count is
\* trusted.
SyncWait_trust ==
  /\ LoopAt("sync")
  /\ lpc' = "putfull"
  /\ UNCHANGED <<lists, rt, task, dma_callback_done, aggregator, dmac, ic, lhbm, ldone, drain,
                 dma_timeout, client, ghost, ub>>

\* dma_sync_wait() of the channel whose turn it is.
SyncWait ==
  /\ LoopAt("sync")
  /\ chan[ic].complete
  /\ lpc' = "putfull"
  /\ UNCHANGED <<lists, rt, task, dma_callback_done, aggregator, dmac, ic, lhbm, ldone, dma_timeout, drain, client, ghost, ub>>

\* ... which gives up after 5 sec: the loop quits and tells no one.
SyncTimeout ==
  /\ LoopAt("sync")
  /\ ~chan[ic].complete
  /\ lpc' = "quit"
  /\ UNCHANGED <<lists, rt, task, dma_callback_done, aggregator, dmac, ic, lhbm, ldone, dma_timeout, drain, client, ghost, ub>>

\* putFull(): the oldest buffer in flight is full; readers are woken.
PutFull ==
  /\ LoopAt("putfull")
  /\ putFull
  /\ rt' = [rt EXCEPT !.nput = @ + 1,
                      !.please_stop = @ \/ (run_buffers # 0 /\ rt.nput + 1 >= run_buffers)]
  /\ WakeReaders
  /\ lpc' = "getempty"
  /\ UNCHANGED <<task, dma_callback_done, aggregator, dmac, ic, lhbm, ldone, dma_timeout, drain,
                 backlog, opens, ghost, ub>>

\* putFull() finds nothing in flight: putFullErrors.
PutFullNone ==
  /\ LoopAt("putfull")
  /\ INFLIGHT = << >>
  /\ lpc' = "getempty"
  /\ UNCHANGED <<lists, rt, task, dma_callback_done, aggregator, dmac, ic, lhbm, ldone, dma_timeout, drain,
                 client, ghost, ub>>

GetEmpty ==
  /\ LoopAt("getempty")
  /\ getEmpty
  /\ rt' = [rt EXCEPT !.nget = @ + 1]
  /\ lhbm' = Head(EMPTIES)
  /\ lpc' = "issue"
  /\ UNCHANGED <<task, dma_callback_done, aggregator, dmac, ic, ldone, dma_timeout, drain, client, ghost, ub>>

GetEmptyNone ==
  /\ LoopAt("getempty")
  /\ EMPTIES = << >>
  /\ lpc' = "refills"
  /\ UNCHANGED <<lists, rt, task, dma_callback_done, aggregator, dmac, ic, lhbm, ldone, dma_timeout, drain,
                 client, ghost, ub>>

\* getEmptyFromRefills(): list_empty(&adev->REFILLS), outside the mutex.
\* With no full buffer either the loop quits and tells no one.
TestPull ==
  /\ LoopAt("refills")
  /\ lpc' = IF REFILLS = << >> THEN "quit" ELSE "pull"
  /\ UNCHANGED <<lists, rt, task, dma_callback_done, aggregator, dmac, ic, lhbm, ldone, dma_timeout, drain,
                 client, ghost, ub>>


\* Mutated form of PullRefill: the buffer lost is not counted.
PullRefill_uncounted ==
  /\ LoopAt("pull")
  /\ getEmptyFromRefills
  /\ lhbm' = Head(REFILLS)
  /\ drain' = TRUE
  /\ lpc' = "issue"
  /\ UNCHANGED <<rt, task, dma_callback_done, aggregator, dmac, ic, ldone, dma_timeout, client, ghost, ub>>

\* ... and the head taken inside it.
PullRefill ==
  /\ LoopAt("pull")
  /\ getEmptyFromRefills
  /\ rt' = [rt EXCEPT !.ngetr = @ + 1]
  /\ lhbm' = Head(REFILLS)
  /\ drain' = TRUE
  /\ lpc' = "issue"
  /\ UNCHANGED <<task, dma_callback_done, aggregator, dmac, ic, ldone, dma_timeout, client, ghost, ub>>

PullListHead ==
  /\ LoopAt("pull")
  /\ REFILLS = << >>
  /\ Undefined("list_head")

\* The buffer is queued on the channel that has just completed.
Issue ==
  /\ LoopAt("issue")
  /\ chan' = [chan EXCEPT ![ic] = [hbm |-> lhbm, wait |-> TRUE, complete |-> FALSE]]
  /\ lhbm' = NoHBM
  /\ lpc' = "fifo"
  /\ UNCHANGED <<lists, rt, task, dma_callback_done, aggregator, event, callbacks, content, block,
                 ic, ldone, dma_timeout, drain, client, ghost, ub>>

\* check_fifo_statuses(): no error ...
FifoOK ==
  /\ LoopAt("fifo")
  /\ lpc' = IF drain THEN "depth" ELSE "top"
  /\ ic' = IF drain THEN ic ELSE 1 - ic
  /\ dma_timeout' = IF drain THEN dma_timeout ELSE "DMA_TIMEOUT"
  /\ UNCHANGED <<lists, rt, task, dma_callback_done, aggregator, dmac, lhbm, ldone, drain, client, ghost, ub>>

\* ... or one: refill_error, readers are woken.
FifoError ==
  /\ LoopAt("fifo")
  /\ rt' = [rt EXCEPT !.refill_error = 1]
  /\ WakeReaders
  /\ lpc' = "quit"
  /\ UNCHANGED <<lists, task, dma_callback_done, aggregator, dmac, ic, lhbm, ldone, dma_timeout, drain,
                 backlog, opens, ghost, ub>>

\* The emergency drain: the full buffers are counted outside the mutex ...
CountRefills ==
  /\ LoopAt("depth")
  /\ rt' = [rt EXCEPT !.buffers_dropped = @ + Len(REFILLS)]
  /\ lpc' = "drain"
  /\ UNCHANGED <<lists, task, dma_callback_done, aggregator, dmac, ic, lhbm, ldone, dma_timeout, drain, client, ghost, ub>>

\* ... and moved inside it.
DrainRefills ==
  /\ LoopAt("drain")
  /\ moveRefillsToEmpty
  /\ drained' = drained + Len(REFILLS)
  /\ IF quit_on_buffer_exhaustion
     THEN /\ rt' = [rt EXCEPT !.refill_error = 1]
          /\ WakeReaders
          /\ lpc' = "quit"
          /\ UNCHANGED <<ic, dma_timeout>>
     ELSE /\ lpc' = "top"
          /\ ic' = 1 - ic /\ dma_timeout' = "DMA_TIMEOUT"
          /\ UNCHANGED <<rt, cpc>>
  /\ UNCHANGED <<task, dma_callback_done, aggregator, dmac, lhbm, ldone, drain, backlog, opens,
                 delivered, taken, stale, ub>>


\* Mutated form of Terminate: the channels are left running.
Terminate_none ==
  /\ LoopAt("quit")
  /\ lpc' = "deactivate"
  /\ UNCHANGED <<lists, rt, task, dma_callback_done, aggregator, dmac, ic, lhbm, ldone,
                 drain, dma_timeout, client, ghost, ub>>

\* DMA_TERMINATE_ALL on both channels: pl330.c kills their threads and drops
\* their transfers.  It does nothing about the events; whether the controller
\* keeps one latched across DMAKILL is not in the sources, so it may.
Terminate ==
  /\ LoopAt("quit")
  /\ chan' = [c \in 0 .. 1 |-> Idle]
  /\ event' \in {event, [e \in 0 .. 1 |-> FALSE]}
  /\ callbacks' = 0
  /\ lpc' = "deactivate"
  /\ UNCHANGED <<lists, rt, task, dma_callback_done, aggregator, content, block, ic, lhbm, ldone, dma_timeout,
                 drain, client, ghost, ub>>

\* task_active is cleared and the thread exits, through do_exit() or by
\* returning.  The thread is never seen between the two: kthread_stop() in
\* between waits for the exit.
Deactivate ==
  /\ LoopAt("deactivate")
  /\ task_active' = FALSE
  /\ lpc' = "exited"
  /\ UNCHANGED <<lists, rt, busy, w_task, h_task, should_stop, dma_callback_done, aggregator, dmac,
                 ic, lhbm, ldone, dma_timeout, drain, client, ghost, ub>>

----------------------------------------------------------------------------
(* The DMAC (external) and acq400_dma_callback().                          *)

\* A transfer runs when data flows and the event it waits for is set: the
\* buffer is filled with the next block and the event of the other channel
\* is set.
Transfer(c) ==
  /\ ub = "no"
  /\ aggregator
  /\ block < MaxBlocks
  /\ ~chan[c].complete
  /\ chan[c].wait => event[c]
  /\ content' = [content EXCEPT ![chan[c].hbm] = block + 1]
  /\ block' = block + 1
  /\ chan' = [chan EXCEPT ![c] = [hbm |-> @.hbm, wait |-> @.wait, complete |-> TRUE]]
  /\ event' = [event EXCEPT ![1 - c] = TRUE, ![c] = @ /\ ~chan[c].wait]
  /\ callbacks' = callbacks + 1
  /\ UNCHANGED <<lists, rt, task, dma_callback_done, aggregator, loop, client, ghost, ub>>

\* dma_callback_done++ in the DMAC's tasklet ...
DmaCallback ==
  /\ ub = "no" /\ callbacks > 0
  /\ callbacks' = callbacks - 1
  /\ dma_callback_done' = dma_callback_done + 1
  /\ UNCHANGED <<lists, rt, task, aggregator, chan, event, content, block, loop, client, ghost, ub>>

\* ... which reads the counter before the data loop writes its decrement and
\* writes it after: the decrement is lost.  (The other order, in which the
\* increment is lost, is a DmaCallback between DmaReady and Decrement.)
DmaCallbackRace ==
  /\ LoopAt("dec") /\ callbacks > 0
  /\ callbacks' = callbacks - 1
  /\ dma_callback_done' = dma_callback_done + 1
  /\ ldone' = 0
  /\ lpc' = IF should_stop THEN "quit" ELSE "sync"
  /\ UNCHANGED <<lists, rt, task, aggregator, chan, event, content, block, ic, lhbm, drain, dma_timeout,
                 client, ghost, ub>>

\* fifo_monitor(): loss of data or backpressure asks the capture to stop.
\* No one is woken.
MonitorStop ==
  /\ ub = "no" /\ h_task
  /\ task_active /\ w_task /\ ~rt.please_stop
  /\ rt' = [rt EXCEPT !.please_stop = TRUE]
  /\ UNCHANGED <<lists, task, dma_callback_done, aggregator, dmac, loop, client, ghost, ub>>

----------------------------------------------------------------------------
ClientInternal(c) ==
  \/ EmptyRefills(c) \/ EmptyInflight(c) \/ SortEmpties(c) \/ SortRaces(c)
  \/ OnStart(c) \/ OnStartInterrupted(c) \/ ResetAggregator(c)
  \/ StartDmaRefused(c) \/ StartDma(c) \/ RunThreads(c)
  \/ SeenActive(c) \/ PollGivesUp(c) \/ EnableAggregator(c)
  \/ PutEmpty(c) \/ PutEmptyNone(c) \/ BacklogDone(c) \/ TestRefills(c)
  \/ WaitRefill(c) \/ TakeFull(c) \/ TakeListHead(c)
  \/ TestTaskActive(c) \/ KthreadStop(c) \/ KthreadStopGone(c) \/ Join(c)
  \/ StopMonitor(c) \/ ForgetTask(c) \/ MoveOpens(c) \/ MoveRefills(c)
  \/ FinishRelease(c)

Client(c) ==
  \/ ClientInternal(c)
  \/ OpenDevice(c) \/ Read(c) \/ Interrupted(c) \/ Release(c)

DataLoop ==
  \/ PrimeFirst \/ PrimeSecond \/ PrimeNone \/ Activate \/ LoopTop \/ DmaReady \/ DmaTimeout
  \/ Decrement \/ SyncWait \/ SyncTimeout \/ PutFull \/ PutFullNone
  \/ GetEmpty \/ GetEmptyNone \/ TestPull \/ PullRefill \/ PullListHead
  \/ Issue \/ FifoOK \/ FifoError \/ CountRefills \/ DrainRefills
  \/ Terminate \/ Deactivate

Environment ==
  \/ \E c \in 0 .. 1 : Transfer(c)
  \/ DmaCallback \/ DmaCallbackRace \/ MonitorStop

\* The device is closed for good, or the behaviour has become undefined.
Done ==
  /\ ub # "no" \/ (opens = MaxOpens /\ \A c \in Clients : cpc[c] = "closed")
  /\ UNCHANGED vars

Next ==
  \/ \E c \in Clients : Client(c)
  \/ DataLoop
  \/ Environment
  \/ Done

Spec == Init /\ [][Next]_vars

\* A thread that can run does run: the data loop, the callback tasklet, and
\* a client inside a system call.  Nothing obliges a client to call again or
\* the hardware to produce data.
FairSpec ==
  /\ Spec
  /\ WF_vars(DataLoop)
  /\ WF_vars(DmaCallback)
  /\ \A c \in Clients : WF_vars(ClientInternal(c))
----------------------------------------------------------------------------
(* Properties.                                                             *)

\* The hardware only ever writes to a buffer that is in flight: no transfer
\* is queued on a channel for a buffer that is empty, that waits for a
\* reader, or that an application has open.  ai_data_loop() relies on the
\* order of INFLIGHT for this: putFull() takes the head of the list, not the
\* buffer of the channel that completed.  Claimed of every capture, those primed
\* with an event left latched included.
DmaTargetsInFlight ==
  \A c \in 0 .. 1 : ~chan[c].complete => bstate[chan[c].hbm] = "BS_FILLING"

\* The capture implements the abstract stream of blocks: the queue is what
\* the buffers on REFILLS hold, and what was delivered is what __getFull()
\* handed to a client.  Claimed of every capture up to the first that is primed
\* with an event its predecessor left latched: there the second channel may run
\* with the first, and the blocks are no longer in the order of the buffers.
Stream == INSTANCE BlockStream WITH
  Blocks <- 1 .. MaxBlocks,
  queue <- IF stale THEN << >> ELSE [i \in 1 .. Len(REFILLS) |-> content[REFILLS[i]]],
  last <- delivered

ImplementsStream == Stream!BSSpec

\* The data of a buffer does not change under the application that has it
\* open: from the read() that returned it to the read() that hands it back.
OpenBuffersStable ==
  [][\A b \in HBM : bstate[b] = "BS_FULL_APP" /\ bstate'[b] = "BS_FULL_APP"
                      => content'[b] = content[b]]_vars

\* The run time counters balance from _onStart() until the lists are emptied
\* at the end: every buffer filled was delivered, pulled back, drained or still
\* waits, and every buffer obtained was filled or is in flight.
CountersBalance ==
  (\E c \in Clients : cpc[c] \notin {"closed", "sort", "onstart"} \cup Emptying) =>
    /\ rt.nput = taken + rt.ngetr + drained + Len(REFILLS)
    /\ rt.nget + rt.ngetr = rt.nput + Len(INFLIGHT)

\* With the device closed nothing of the capture is left: no thread, no
\* transfer, no buffer off EMPTIES, and the device can be opened again.
ClosedIsQuiet ==
  (ub = "no" /\ \A c \in Clients : cpc[c] = "closed") =>
    /\ ~busy /\ ~w_task /\ ~task_active
    /\ \A c \in 0 .. 1 : chan[c].complete
    /\ Len(EMPTIES) = nbuffers

\* release() ends: neither kthread_stop() nor the wait for task_active hangs.
ReleaseCompletes ==
  \A c \in Clients : cpc[c] = "dma_stop" ~> (cpc[c] = "closed" \/ ub # "no")

\* A read() ends.  It may sleep for ever only while the first block is
\* awaited, or when the data loop has gone without setting refill_error:
\* dma_sync_wait() failed, or no buffer was left to pull back.
ReadReturns ==
  \A c \in Clients :
    cpc[c] \in Reading ~> \/ cpc[c] = "idle"
                          \/ ub # "no"
                          \/ dma_timeout = "START_TIMEOUT"
                          \/ lpc = "exited" /\ rt.refill_error = 0

\* What the comments of the list functions ask for, "call ONLY inside mutex":
\* no thread takes the head of a list that another thread has emptied.
NoListHeadTaken == ub # "list_head"
=============================================================================
