----------------------------- MODULE StreamDac -----------------------------
(***************************************************************************)
(* Streaming output: the application reads the numbers of empty buffers    *)
(* from /dev/acq400.0.streamdac, fills the buffers and writes the numbers  *)
(* back (acq400_ui.c); streamdac_data_loop() (xo_workers.c) plays them     *)
(* through two ping-pong DMA channels and hands them back.                 *)
(*                                                                         *)
(* pdesc->bq (empties) and stream_dac.refills each have one producer and   *)
(* one consumer, so that BQ_put() and BQ_get() are taken as single steps.  *)
(* defer_stream_dac_task_init is 1, its default: the first write starts    *)
(* the worker.  The DMAC and the application are external; the application *)
(* writes only numbers it has read.                                        *)
(***************************************************************************)
EXTENDS BQ, FiniteSets

CONSTANTS
  Clients,                      \* processes that open the device
  backlog,                      \* AWG_BACKLOG
  lastDistributorBuffer,        \* the first is 0
  MaxPairs,                     \* bound: pairs of numbers written
  MaxOpens,                     \* bound: opens
  MaxLost                       \* bound: times ++ and -- of the count overlap

\* backlog is a power of two; what is played and written in pairs needs that it
\* is even.  The distributor has a buffer at least.
ASSUME StreamDacAssumption ==
  /\ backlog \in Nat \ {0} /\ backlog % 2 = 0
  /\ lastDistributorBuffer \in Nat \ {0}
  /\ MaxPairs \in Nat /\ MaxLost \in Nat

VARIABLES
  bq_clients,                   \* sd_bqw
  refills, empties,             \* stream_dac.refills, and pdesc->bq of each client
  sd_task,                      \* stream_dac.sd_task is set
  worker_done, f_pos,           \* of each pdesc; f_pos: has been written
  pc, todo,                     \* each client's call; pairs left to write
  app,                          \* buffer numbers the application has, in order
  wpc, pdesc, should_stop,      \* streamdac_data_loop()
  ic, ab, hbm, last_push,
  dma_buffers_out, dma_buffers_in, dma_callback_done,
  ldone,                        \* dma_callback_done as the worker's decrement read it
  chan, event,                  \* the DMAC: transfers queued, events
  callbacks,                    \* completed transfers yet to be called back
  cdone,                        \* dma_callback_done as the callback's increment read it
  wseq, nplayed,                \* history: numbers written, and played
  lost,                         \* updates of dma_callback_done that were lost
  left,                         \* a stream was over before its transfers were
  opens, pairs

queues == <<bq_clients, refills, empties>>
files == <<sd_task, worker_done, f_pos>>
calls == <<pc, todo, app, opens, pairs>>
locals == <<pdesc, ic, ab, hbm, last_push>>
counts == <<dma_buffers_out, dma_buffers_in, dma_callback_done, ldone>>
dmac == <<chan, event, callbacks, cdone, nplayed, lost, left>>
vars == <<queues, files, calls, wpc, should_stop, locals, counts, dmac, wseq>>

\* acq400_streamdac_open(): as many buffers as the queue can hold.
limit == IF lastDistributorBuffer < backlog - 1 THEN lastDistributorBuffer ELSE backlog - 1
Buffers == 0 .. limit - 1

Transfers == [buf : Buffers, wait : BOOLEAN, set : BOOLEAN]
Queue == [head : 0 .. backlog - 1, tail : 0 .. backlog - 1,
          buf : [0 .. backlog - 1 -> Buffers], bq_len : {backlog}]

Init ==
  /\ bq_clients = {}
  /\ refills = BQ_init(backlog) /\ empties = [c \in Clients |-> BQ_init(backlog)]
  /\ sd_task = FALSE
  /\ worker_done = [c \in Clients |-> FALSE] /\ f_pos = [c \in Clients |-> FALSE]
  /\ pc = [c \in Clients |-> "closed"] /\ todo = [c \in Clients |-> 0]
  /\ app = [c \in Clients |-> << >>]
  /\ wpc = "none" /\ pdesc \in Clients /\ should_stop = FALSE
  /\ ic = 0 /\ ab = [i \in 0 .. 1 |-> 0] /\ hbm = 0 /\ last_push = "LP_IDLE"
  /\ dma_buffers_out = 0 /\ dma_buffers_in = 0 /\ dma_callback_done = 0 /\ ldone = 0
  /\ chan = [i \in 0 .. 1 |-> << >>] /\ event = [i \in 0 .. 1 |-> FALSE]
  /\ callbacks = 0 /\ cdone = << >>
  /\ wseq = << >> /\ nplayed = 0 /\ lost = 0 /\ left = FALSE
  /\ opens = 0 /\ pairs = 0

----------------------------------------------------------------------------
(* The application's calls.                                                *)

Goto(c, l) == pc' = [pc EXCEPT ![c] = l]

\* acq400_streamdac_open(): refused with -EBUSY when there is a client ...
OpenTest(c) ==
  /\ pc[c] = "closed" /\ opens < MaxOpens
  /\ bq_clients = {}
  /\ Goto(c, "init")
  /\ opens' = opens + 1
  /\ UNCHANGED <<queues, files, todo, app, pairs, wpc, should_stop, locals, counts, dmac, wseq>>

\* Empties as they are filled: a full set for the application.
Full(len) ==
  [head |-> limit, tail |-> 0, buf |-> [i \in 0 .. backlog - 1 |-> IF i < limit THEN i ELSE 0],
   bq_len |-> len]

\* ... bqw_init(), and the queues.
OpenInit(c) ==
  /\ pc[c] = "init"
  /\ bq_clients' = bq_clients \cup {c}
  /\ empties' = [empties EXCEPT ![c] = Full(backlog)]
  /\ refills' = BQ_clear(refills)
  /\ worker_done' = [worker_done EXCEPT ![c] = FALSE]
  /\ f_pos' = [f_pos EXCEPT ![c] = FALSE]
  /\ app' = [app EXCEPT ![c] = << >>]
  /\ wseq' = << >> /\ nplayed' = 0
  /\ Goto(c, "idle")
  /\ UNCHANGED <<sd_task, todo, opens, pairs, wpc, should_stop, locals, counts, chan, event,
                 callbacks, cdone, lost, left>>

\* acq400_streamdac_read() of a pair; it sleeps while there is none.
Read(c) ==
  /\ pc[c] = "idle"
  /\ BQ_count(empties[c]) >= 2
  /\ app' = [app EXCEPT ![c] = @ \o <<BQ_item(empties[c]), BQ_item(BQ_drop(empties[c]))>>]
  /\ empties' = [empties EXCEPT ![c] = BQ_drop(BQ_drop(@))]
  /\ UNCHANGED <<bq_clients, refills, files, pc, todo, opens, pairs, wpc, should_stop, locals,
                 counts, dmac, wseq>>

\* acq400_streamdac_write() of k pairs.
Write(c, k) ==
  /\ pc[c] = "idle"
  /\ 2 * k <= Len(app[c]) /\ pairs + k <= MaxPairs
  /\ todo' = [todo EXCEPT ![c] = k]
  /\ pairs' = pairs + k
  /\ Goto(c, "write")
  /\ UNCHANGED <<queues, files, app, opens, wpc, should_stop, locals, counts, dmac, wseq>>

\* Mutated form of HasSpace: a pair more is asked for.
HasSpace_more == BQ_space(refills) > 3

HasSpace == BQ_space(refills) > 2

WritePair(c) ==
  /\ pc[c] = "write" /\ todo[c] > 0
  /\ HasSpace
  /\ refills' = BQ_put(BQ_put(refills, app[c][1]), app[c][2])
  /\ wseq' = wseq \o SubSeq(app[c], 1, 2)
  /\ app' = [app EXCEPT ![c] = SubSeq(@, 3, Len(@))]
  /\ todo' = [todo EXCEPT ![c] = @ - 1]
  /\ UNCHANGED <<bq_clients, empties, files, pc, opens, pairs, wpc, should_stop, locals, counts, dmac>>

\* The first write starts the worker.
WriteEnd(c) ==
  /\ pc[c] = "write" /\ todo[c] = 0
  /\ f_pos' = [f_pos EXCEPT ![c] = TRUE]
  /\ IF f_pos[c]
     THEN UNCHANGED <<sd_task, wpc, pdesc, should_stop>>
     ELSE sd_task' = TRUE /\ wpc' = "created" /\ pdesc' = c /\ should_stop' = FALSE
  /\ Goto(c, "idle")
  /\ UNCHANGED <<queues, worker_done, todo, app, opens, pairs, ic, ab, hbm, last_push, counts, dmac,
                 wseq>>

\* acq400_streamdac_release(): kthread_stop() of a worker that is not done.
Release(c) ==
  /\ pc[c] = "idle"
  /\ IF ~worker_done[c] /\ sd_task
     THEN should_stop' = TRUE /\ Goto(c, "join")
     ELSE Goto(c, "wait") /\ UNCHANGED should_stop
  /\ UNCHANGED <<queues, files, todo, app, opens, pairs, wpc, locals, counts, dmac, wseq>>

Join(c) ==
  /\ pc[c] = "join" /\ wpc = "exited"
  /\ Goto(c, "wait")
  /\ UNCHANGED <<queues, files, todo, app, opens, pairs, wpc, should_stop, locals, counts, dmac, wseq>>

\* The wait for WORKER_DONE is over, or a signal ends it; bqw_release().
Close(c) ==
  /\ pc[c] = "wait"
  /\ sd_task' = FALSE
  /\ bq_clients' = bq_clients \ {c}
  /\ app' = [app EXCEPT ![c] = << >>]
  /\ empties' = [empties EXCEPT ![c] = BQ_init(backlog)]
  /\ Goto(c, "closed")
  /\ UNCHANGED <<refills, worker_done, f_pos, todo, opens, pairs, wpc, should_stop, locals, counts,
                 dmac, wseq>>

ReleaseDone(c) == worker_done[c] /\ Close(c)

ReleaseInterrupted(c) == ~worker_done[c] /\ Close(c)

----------------------------------------------------------------------------
(* streamdac_data_loop().                                                  *)

WorkerRuns ==
  /\ wpc = "created" /\ ~should_stop
  /\ wpc' = "prime"
  /\ last_push' = "LP_IDLE" /\ ic' = 0
  /\ dma_buffers_out' = 0 /\ dma_buffers_in' = 0
  /\ UNCHANGED <<queues, files, calls, should_stop, pdesc, ab, hbm, dma_callback_done, ldone,
                 dmac, wseq>>

\* A kthread that is stopped before it was scheduled never runs its function.
WorkerNeverRuns ==
  /\ wpc = "created" /\ should_stop
  /\ wpc' = "exited"
  /\ UNCHANGED <<queues, files, calls, should_stop, locals, counts, dmac, wseq>>

Push(i, b, w, s) == Append(chan[i], [buf |-> b, wait |-> w, set |-> s])

\* Mutated form of Prime: the channels are swapped.
Prime_swapped ==
  /\ wpc = "prime" /\ ~should_stop
  /\ BQ_count(refills) > 1
  /\ LET a == BQ_item(refills)
         b == BQ_item(BQ_drop(refills))
     IN /\ ab' = [i \in 0 .. 1 |-> IF i = 0 THEN a ELSE b]
        /\ hbm' = b
        /\ chan' = [i \in 0 .. 1 |-> IF i = 1 THEN Push(1, a, FALSE, TRUE) ELSE Push(0, b, TRUE, TRUE)]
  /\ refills' = BQ_drop(BQ_drop(refills))
  /\ dma_buffers_out' = 2
  /\ wpc' = "ready"
  /\ UNCHANGED <<bq_clients, empties, files, calls, should_stop, pdesc, ic, last_push,
                 dma_buffers_in, dma_callback_done, ldone, event, callbacks, cdone, nplayed, lost, left, wseq>>

\* Mutated form of Prime: channel 1 does not wait.
Prime_nowait ==
  /\ wpc = "prime" /\ ~should_stop
  /\ BQ_count(refills) > 1
  /\ LET a == BQ_item(refills)
         b == BQ_item(BQ_drop(refills))
     IN /\ ab' = [i \in 0 .. 1 |-> IF i = 0 THEN a ELSE b]
        /\ hbm' = b
        /\ chan' = [i \in 0 .. 1 |-> IF i = 0 THEN Push(0, a, FALSE, TRUE) ELSE Push(1, b, FALSE, TRUE)]
  /\ refills' = BQ_drop(BQ_drop(refills))
  /\ dma_buffers_out' = 2
  /\ wpc' = "ready"
  /\ UNCHANGED <<bq_clients, empties, files, calls, should_stop, pdesc, ic, last_push,
                 dma_buffers_in, dma_callback_done, ldone, event, callbacks, cdone, nplayed, lost, left, wseq>>

\* The first two refills prime the DMAC.
Prime ==
  /\ wpc = "prime" /\ ~should_stop
  /\ BQ_count(refills) > 1
  /\ LET a == BQ_item(refills)
         b == BQ_item(BQ_drop(refills))
     IN /\ ab' = [i \in 0 .. 1 |-> IF i = 0 THEN a ELSE b]
        /\ hbm' = b
        /\ chan' = [i \in 0 .. 1 |-> IF i = 0 THEN Push(0, a, FALSE, TRUE) ELSE Push(1, b, TRUE, TRUE)]
  /\ refills' = BQ_drop(BQ_drop(refills))
  /\ dma_buffers_out' = 2
  /\ wpc' = "ready"
  /\ UNCHANGED <<bq_clients, empties, files, calls, should_stop, pdesc, ic, last_push,
                 dma_buffers_in, dma_callback_done, ldone, event, callbacks, cdone, nplayed, lost, left, wseq>>

PrimeStop ==
  /\ wpc = "prime" /\ should_stop
  /\ wpc' = "quit"
  /\ UNCHANGED <<queues, files, calls, should_stop, locals, counts, dmac, wseq>>

\* DMA_READY, a wait without a timeout: a callback is there to be counted.
Ready ==
  /\ wpc = "ready"
  /\ dma_callback_done > 0
  /\ cdone # << >> => lost < MaxLost
  /\ ldone' = dma_callback_done
  /\ wpc' = "dec"
  /\ UNCHANGED <<queues, files, calls, should_stop, locals, dma_buffers_out, dma_buffers_in,
                 dma_callback_done, dmac, wseq>>

\* --dma_callback_done writes the counter back; DMA_COUNT_IN.  An increment made
\* since the counter was read is lost.
CountIn ==
  /\ wpc \in {"dec", "ddec"}
  /\ dma_callback_done' = ldone - 1
  /\ lost' = IF dma_callback_done # ldone THEN lost + 1 ELSE lost
  /\ ldone' = 0
  /\ dma_buffers_in' = dma_buffers_in + 1
  /\ wpc' = IF wpc = "dec" THEN "sync" ELSE "drain"
  /\ UNCHANGED <<queues, files, calls, should_stop, locals, dma_buffers_out, chan, event, callbacks,
                 cdone, nplayed, left, wseq>>

\* dma_sync_wait() of the channel whose turn it is ...
SyncWait ==
  /\ wpc = "sync"
  /\ chan[ic] = << >>
  /\ wpc' = "stall"
  /\ UNCHANGED <<queues, files, calls, should_stop, locals, counts, dmac, wseq>>

\* ... which gives up after 5 sec on a transfer that was counted too early.
SyncTimeout ==
  /\ wpc = "sync"
  /\ chan[ic] # << >>
  /\ left' = TRUE
  /\ wpc' = "quit"
  /\ UNCHANGED <<queues, files, calls, should_stop, locals, counts, chan, event, callbacks, cdone,
                 nplayed, lost, wseq>>

HasRefill ==
  /\ wpc = "stall"
  /\ BQ_count(refills) >= 1
  /\ wpc' = "push"
  /\ UNCHANGED <<queues, files, calls, should_stop, locals, counts, dmac, wseq>>

\* MAX_STALL_RETRIES without a refill, or told to stop.
Stall ==
  /\ wpc = "stall"
  /\ BQ_count(refills) < 1
  /\ last_push' = "LP_REQUEST"
  /\ wpc' = "push"
  /\ UNCHANGED <<queues, files, calls, should_stop, pdesc, ic, ab, hbm, counts, dmac, wseq>>

\* Mutated form of Turn: the buffer that was pushed last goes back.
Turn_hbm(lastOne) ==
  LET new == IF last_push = "LP_IDLE" THEN BQ_item(refills) ELSE hbm
  IN
  /\ wpc = "push"
  /\ empties' = [empties EXCEPT ![pdesc] = BQ_put(@, hbm)]
  /\ refills' = IF last_push = "LP_IDLE" THEN BQ_drop(refills) ELSE refills
  /\ ab' = IF last_push = "LP_IDLE" THEN [ab EXCEPT ![ic] = new] ELSE ab
  /\ hbm' = new
  /\ chan' = [chan EXCEPT ![ic] = Push(ic, new, TRUE, ~lastOne)]
  /\ last_push' = IF lastOne THEN "LP_DONE" ELSE last_push
  /\ dma_buffers_out' = dma_buffers_out + 1
  /\ ic' = 1 - ic
  /\ wpc' = IF lastOne THEN "quit" ELSE "ready"
  /\ UNCHANGED <<bq_clients, files, calls, should_stop, pdesc, dma_buffers_in, dma_callback_done,
                 ldone, event, callbacks, cdone, nplayed, lost, left, wseq>>

\* The buffer that was played goes back and the next one is pushed; after a
\* stall hbm is still the buffer that is in flight on the other channel.  The
\* last push sets no event.
Turn(lastOne) ==
  LET new == IF last_push = "LP_IDLE" THEN BQ_item(refills) ELSE hbm
  IN
  /\ wpc = "push"
  /\ empties' = [empties EXCEPT ![pdesc] = BQ_put(@, ab[ic])]
  /\ refills' = IF last_push = "LP_IDLE" THEN BQ_drop(refills) ELSE refills
  /\ ab' = IF last_push = "LP_IDLE" THEN [ab EXCEPT ![ic] = new] ELSE ab
  /\ hbm' = new
  /\ chan' = [chan EXCEPT ![ic] = Push(ic, new, TRUE, ~lastOne)]
  /\ last_push' = IF lastOne THEN "LP_DONE" ELSE last_push
  /\ dma_buffers_out' = dma_buffers_out + 1
  /\ ic' = 1 - ic
  /\ wpc' = IF lastOne THEN "quit" ELSE "ready"
  /\ UNCHANGED <<bq_clients, files, calls, should_stop, pdesc, dma_buffers_in, dma_callback_done,
                 ldone, event, callbacks, cdone, nplayed, lost, left, wseq>>

NextPush == last_push # "LP_REQUEST" /\ ~should_stop /\ Turn(FALSE)

\* A stall, a stop, or distributor_underrun() at any time.
LastPush == Turn(TRUE)

Quit ==
  /\ wpc = "quit"
  /\ refills' = BQ_clear(refills)
  /\ wpc' = "drain"
  /\ UNCHANGED <<bq_clients, empties, files, calls, should_stop, locals, counts, dmac, wseq>>

\* xo_data_loop_cleanup().
Drain ==
  /\ wpc = "drain"
  /\ dma_buffers_in < dma_buffers_out
  /\ dma_callback_done > 0
  /\ cdone # << >> => lost < MaxLost
  /\ ldone' = dma_callback_done
  /\ wpc' = "ddec"
  /\ UNCHANGED <<queues, files, calls, should_stop, locals, dma_buffers_out, dma_buffers_in,
                 dma_callback_done, dmac, wseq>>

\* There is a transfer or an event in the DMAC.
Busy == \E i \in 0 .. 1 : chan[i] # << >> \/ event[i]

\* Mutated form of Drained: one callback more is waited for.
Drained_more ==
  /\ wpc = "drain" /\ dma_buffers_in > dma_buffers_out
  /\ worker_done' = [worker_done EXCEPT ![pdesc] = TRUE]
  /\ left' = (left \/ Busy)
  /\ wpc' = "exited"
  /\ UNCHANGED <<queues, sd_task, f_pos, calls, should_stop, locals, counts, chan, event, callbacks,
                 cdone, nplayed, lost, wseq>>

\* ... then xo400_reset_playloop(adev, 0) and WORKER_DONE.
Drained ==
  /\ wpc = "drain" /\ dma_buffers_in >= dma_buffers_out
  /\ worker_done' = [worker_done EXCEPT ![pdesc] = TRUE]
  /\ left' = (left \/ Busy)
  /\ wpc' = "exited"
  /\ UNCHANGED <<queues, sd_task, f_pos, calls, should_stop, locals, counts, chan, event, callbacks,
                 cdone, nplayed, lost, wseq>>

----------------------------------------------------------------------------
(* The DMAC and its callback.                                              *)

Transfer(i) ==
  /\ chan[i] # << >>
  /\ Head(chan[i]).wait => event[i]
  /\ chan' = [chan EXCEPT ![i] = Tail(@)]
  /\ event' = [event EXCEPT ![i] = @ /\ ~Head(chan[i]).wait,
                            ![1 - i] = @ \/ Head(chan[i]).set]
  /\ nplayed' = nplayed + 1
  /\ callbacks' = callbacks + 1
  /\ UNCHANGED <<queues, files, calls, wpc, should_stop, locals, counts, cdone, lost, left, wseq>>

\* dma_callback_done++ in the tasklet, a read and a write on one core against the
\* worker's decrement on the other: whichever writes last undoes the other.
CallbackRead ==
  /\ callbacks > 0 /\ cdone = << >>
  /\ wpc \in {"dec", "ddec"} => lost < MaxLost
  /\ cdone' = <<dma_callback_done>>
  /\ callbacks' = callbacks - 1
  /\ UNCHANGED <<queues, files, calls, wpc, should_stop, locals, counts, chan, event, nplayed, lost,
                 left, wseq>>

CallbackWrite ==
  /\ cdone # << >>
  /\ dma_callback_done' = Head(cdone) + 1
  /\ lost' = IF dma_callback_done # Head(cdone) THEN lost + 1 ELSE lost
  /\ cdone' = << >>
  /\ UNCHANGED <<queues, files, calls, wpc, should_stop, locals, dma_buffers_out, dma_buffers_in, ldone,
                 chan, event, callbacks, nplayed, left, wseq>>

Callback == CallbackRead \/ CallbackWrite

----------------------------------------------------------------------------
Worker ==
  \/ WorkerRuns \/ WorkerNeverRuns \/ Prime \/ PrimeStop \/ Ready \/ CountIn \/ SyncWait
  \/ SyncTimeout \/ HasRefill \/ Stall
  \/ NextPush \/ LastPush \/ Quit \/ Drain \/ Drained

Next ==
  \/ \E c \in Clients :
       \/ OpenTest(c) \/ OpenInit(c) \/ Read(c) \/ WritePair(c) \/ WriteEnd(c)
       \/ \E k \in 1 .. MaxPairs : Write(c, k)
       \/ Release(c) \/ Join(c) \/ ReleaseDone(c) \/ ReleaseInterrupted(c)
  \/ Worker
  \/ \E i \in 0 .. 1 : Transfer(i)
  \/ Callback

Spec == Init /\ [][Next]_vars

\* The worker, the tasklet and the calls run, and the DAC is clocked and
\* triggered: a transfer that can run does run.
FairSpec ==
  /\ Spec
  /\ WF_vars(Worker) /\ WF_vars(Callback)
  /\ \A i \in 0 .. 1 : WF_vars(Transfer(i))
  /\ \A c \in Clients : WF_vars(WritePair(c) \/ WriteEnd(c) \/ Join(c))

----------------------------------------------------------------------------
(* Properties.                                                             *)

Elements(s) == {s[i] : i \in 1 .. Len(s)}
Distinct(s) == Cardinality(Elements(s)) = Len(s)

\* The numbers that are not in the worker's hands.
Outside(c) == app[c] \o BQ_items(empties[c]) \o BQ_items(refills)

Running == wpc \in {"ready", "dec", "sync", "stall", "push"}

\* Each buffer is in one place: with the application, in one of the queues or
\* in flight.  A buffer that the DMAC reads, or is about to, is never one that
\* the application could be filling.  And while the stream runs no buffer gets
\* lost between the queues: a queue that overflowed would drop them all.  Lost
\* callback counts make no difference to it; but of the DMAC it is claimed only
\* until a stream is over before its transfers are (dma_sync_wait() gave up, or a
\* decrement was lost and the drain ended early): from then on the DMAC reads
\* buffers that the next client has.
OnePlace ==
  \A c \in bq_clients :
    /\ Distinct(Outside(c))
    /\ ~left => \A i \in 0 .. 1 : \A t \in Elements(chan[i]) : t.buf \notin Elements(Outside(c))
    /\ (Running \/ wpc \in {"none", "created", "prime"}) /\ ~worker_done[c] =>
      Elements(Outside(c)) \cup (IF Running THEN {ab[0], ab[1]} ELSE {}) = Buffers

\* Buffers are played in the order they were written; at the end of the stream
\* the last one may be played twice.  This holds with lost callback counts as well,
\* until a stream is over before its transfers are.
PlayedInOrder ==
  [][\A i \in 0 .. 1 : Transfer(i) /\ ~left =>
       LET t == Head(chan[i])
       IN \/ nplayed < Len(wseq) /\ t.buf = wseq[nplayed + 1]
          \/ ~t.set /\ nplayed > 0 /\ nplayed <= Len(wseq) /\ t.buf = wseq[nplayed]]_vars

\* The callback that is counted is the one of the channel whose turn it is, and
\* a stream that has ended leaves nothing in the DMAC: no transfer, and no event
\* that the next shot would take for its own.  Claimed as long as no update of
\* dma_callback_done was lost: ++ in the tasklet and -- in the worker take no lock.
InTurn ==
  lost = 0 =>
    /\ wpc = "sync" => chan[ic] = << >>
    /\ wpc = "exited" => \A i \in 0 .. 1 : chan[i] = << >> /\ ~event[i]

\* The first write, which starts the worker, cannot wait for the worker: there
\* is room for every number the application can have.
FirstWriteFits ==
  \A c \in Clients : pc[c] = "write" /\ ~f_pos[c] /\ todo[c] > 0 => HasSpace

\* kthread_stop() in acq400_streamdac_release() returns: the worker ends when it
\* is told to, whatever it waits for, as long as no update of dma_callback_done was
\* lost.  (It waits for callbacks without a timeout and without a look at
\* kthread_should_stop(): with an increment lost it waits for ever.)
StopReturns == \A c \in Clients : pc[c] = "join" ~> (pc[c] # "join" \/ lost > 0)
=============================================================================
