---------------------------- MODULE AwgPlayloop ----------------------------
(***************************************************************************)
(* The arbitrary waveform generator: xo_data_loop() (xo_workers.c) feeds   *)
(* the distributor from host buffers through two ping-pong DMA channels,   *)
(* once, for ever or with a rearm after each shot; xo400_reset_playloop()  *)
(* and ao_auto_rearm() (acq400_drv.c) start and stop it, and the user sets *)
(* playloop_length and playloop_repeats (xo_sysfs.c).                      *)
(*                                                                         *)
(* The waveform is loaded; a length is in samples.  The DMAC, which plays  *)
(* a buffer when the event it waits for was set, and the FIFO, which       *)
(* drains, are external.                                                   *)
(***************************************************************************)
EXTENDS Integers, Sequences

CONSTANTS
  spb,                          \* ao_samples_per_hb
  Lengths,                      \* values of playloop_length, 0 is stop
  Modes,                        \* values of playloop_oneshot
  Repeats,                      \* values of playloop_repeats
  maxshot,                      \* AO_playloop.maxshot
  MaxStores,                    \* bound: writes of playloop_length
  MaxCycles                     \* bound: cycles of a continuous waveform

AO_MODES == {"AO_continuous", "AO_oneshot", "AO_oneshot_rearm"}

ASSUME AwgAssumption ==
  /\ spb \in Nat \ {0}
  /\ 0 \in Lengths /\ Lengths \subseteq Nat
  /\ Modes \subseteq AO_MODES
  /\ Repeats \subseteq Nat
  /\ maxshot \in Nat /\ MaxStores \in Nat /\ MaxCycles \in Nat

VARIABLES
  length, cursor, oneshot, repeats, cycles, pull_buf,   \* AO_playloop
  shot, dma_buffers_out, dma_buffers_in,                \* adev->stats
  w_task, task_active, should_stop,
  dma_callback_done,
  chan, event, callbacks,       \* the DMAC: transfers queued, events, callbacks
  played,                       \* the last buffer played in this shot, -1: none
  wave,                         \* the length the shot started with, a history variable
  started,                      \* onStart() of this shot: the FIFO drains
  lpc, ic, shot_buffer_count, shot_buffer_count0, last_push_done,
  continuous_at_start, dma_timeout,                     \* xo_data_loop()
  ldone, cdone,                 \* dma_callback_done as read by the loop, by the callback
  tail,                         \* loops past task_active = 0
  pc, arg,                      \* callers of xo400_reset_playloop()
  stores,                       \* writes of playloop_length so far
  file,                         \* the AWG device file of the user
  mishap                        \* a timeout, a lost count, a stale event, a mode changed in the shot

playloop == <<length, cursor, oneshot, repeats, cycles, pull_buf>>
stats == <<shot, dma_buffers_out, dma_buffers_in>>
task == <<w_task, task_active, should_stop>>
dmac == <<chan, event, callbacks, played, started, cdone>>
locals == <<ic, shot_buffer_count, shot_buffer_count0, last_push_done,
            continuous_at_start, dma_timeout, ldone, tail, wave>>
callers == <<pc, arg, stores, file>>
vars == <<playloop, stats, task, dma_callback_done, dmac, lpc, locals, callers, mishap>>

Callers == {"user", "rearm"}

AO_CONTINUOUS == oneshot = "AO_continuous"

LoopPc == {"none", "start", "head", "wait", "dec", "sync", "step", "drain", "ddec",
           "fifo"}

Init ==
  /\ length = 0 /\ cursor = 0 /\ oneshot = "AO_oneshot" /\ repeats = 0 /\ cycles = 0
  /\ pull_buf = 0
  /\ shot = 0 /\ dma_buffers_out = 0 /\ dma_buffers_in = 0
  /\ w_task = FALSE /\ task_active = FALSE /\ should_stop = FALSE
  /\ dma_callback_done = 0
  /\ chan = [c \in 0 .. 1 |-> << >>] /\ event = [e \in 0 .. 1 |-> FALSE]
  /\ callbacks = 0 /\ played = -1 /\ wave = 0 /\ started = FALSE /\ cdone = << >>
  /\ lpc = "none" /\ ic = 0 /\ shot_buffer_count = 0 /\ shot_buffer_count0 = 0
  /\ last_push_done = FALSE /\ continuous_at_start = FALSE
  /\ dma_timeout = "START_TIMEOUT" /\ ldone = 0 /\ tail = 0
  /\ pc = [c \in Callers |-> "idle"] /\ arg = [c \in Callers |-> 0]
  /\ stores = 0 /\ file = "closed" /\ mishap = "no"

----------------------------------------------------------------------------
(* xo_data_loop().                                                         *)

LoopAt(l) == lpc = l /\ mishap # "two_loops"

\* shot_buffer_count when the loop starts: whole buffers of the waveform ...
Whole == length \div spb

\* ... and one more for the overspill.
Buffers == IF Whole * spb < length THEN Whole + 1 ELSE Whole

\* Mutated form of Primed: the first transfer waits as well.
Primed_wait ==
  IF Buffers > 1
  THEN [c \in 0 .. 1 |-> Append(chan[c], [buf |-> c, wait |-> TRUE, set |-> TRUE])]
  ELSE [chan EXCEPT ![0] = Append(@, [buf |-> 0, wait |-> TRUE, set |-> TRUE])]

\* Mutated form of Primed: both transfers start right away.
Primed_nowait ==
  IF Buffers > 1
  THEN [c \in 0 .. 1 |-> Append(chan[c], [buf |-> c, wait |-> FALSE, set |-> TRUE])]
  ELSE [chan EXCEPT ![0] = Append(@, [buf |-> 0, wait |-> FALSE, set |-> TRUE])]

\* The DMAC is primed with buffers 0 and 1: channel 1 waits for channel 0.
Primed ==
  IF Buffers > 1
  THEN [c \in 0 .. 1 |-> Append(chan[c], [buf |-> c, wait |-> c = 1, set |-> TRUE])]
  ELSE [chan EXCEPT ![0] = Append(@, [buf |-> 0, wait |-> FALSE, set |-> TRUE])]

\* An event that the shot before set and nobody waited for is still set.
Start ==
  /\ LoopAt("start")
  /\ shot_buffer_count0' = Whole
  /\ shot_buffer_count' = Buffers
  /\ continuous_at_start' = AO_CONTINUOUS
  /\ last_push_done' = FALSE /\ ic' = 0 /\ dma_timeout' = "START_TIMEOUT"
  /\ shot' = shot + 1 /\ dma_buffers_in' = 0
  /\ task_active' = TRUE
  /\ chan' = Primed
  /\ pull_buf' = IF Buffers > 1 THEN 2 ELSE 1
  /\ dma_buffers_out' = IF Buffers > 1 THEN 2 ELSE 1
  /\ cursor' = 0
  /\ played' = -1 /\ started' = FALSE /\ wave' = length
  /\ mishap' = IF mishap = "no" /\ (event[0] \/ event[1]) THEN "event" ELSE mishap
  /\ lpc' = "head"
  /\ UNCHANGED <<length, oneshot, repeats, cycles, w_task, should_stop, dma_callback_done, event,
                 callbacks, cdone, ldone, tail, callers>>

LoopHead ==
  /\ LoopAt("head")
  /\ lpc' = IF cursor < length /\ ~should_stop THEN "wait" ELSE "drain"
  /\ UNCHANGED <<playloop, stats, task, dma_callback_done, dmac, locals, callers, mishap>>

\* The wait for DMA_READY ends, by a callback or a stop.
DmaReady ==
  /\ LoopAt("wait")
  /\ dma_callback_done # 0 \/ should_stop
  /\ ldone' = dma_callback_done
  /\ lpc' = IF should_stop THEN "drain" ELSE "dec"
  /\ UNCHANGED <<playloop, stats, task, dma_callback_done, dmac, ic, shot_buffer_count,
                 shot_buffer_count0, last_push_done, continuous_at_start, dma_timeout, tail, wave, callers,
                 mishap>>

\* START_TIMEOUT is for ever.  The others are 5 s and more: a caller, which
\* polls every 10 or 100 ms, has seen the task start by then.
TimeoutRuns == dma_timeout = "DMA_TIMEOUT" /\ started

TimedOut == IF mishap = "count" THEN "count" ELSE "timeout"

DmaTimeout ==
  /\ LoopAt("wait")
  /\ TimeoutRuns
  /\ dma_callback_done = 0 /\ ~should_stop
  /\ mishap' = TimedOut
  /\ lpc' = "drain"
  /\ UNCHANGED <<playloop, stats, task, dma_callback_done, dmac, locals, callers>>

\* --dma_callback_done writes the counter back; DMA_COUNT_IN.
Decrement ==
  /\ LoopAt("dec") \/ LoopAt("ddec")
  /\ mishap' = IF dma_callback_done # ldone THEN "count" ELSE mishap
  /\ dma_callback_done' = ldone - 1
  /\ ldone' = 0
  /\ dma_buffers_in' = dma_buffers_in + 1
  /\ lpc' = IF lpc = "dec" THEN "sync" ELSE "drain"
  /\ UNCHANGED <<playloop, shot, dma_buffers_out, task, dmac, ic, shot_buffer_count,
                 shot_buffer_count0, last_push_done, continuous_at_start, dma_timeout, tail, wave, callers>>

\* dma_sync_wait() of the channel whose turn it is.
SyncWait ==
  /\ LoopAt("sync")
  /\ chan[ic] = << >>
  /\ lpc' = "step"
  /\ UNCHANGED <<playloop, stats, task, dma_callback_done, dmac, locals, callers, mishap>>

SyncTimeout ==
  /\ LoopAt("sync")
  /\ chan[ic] # << >> /\ started
  /\ mishap' = TimedOut
  /\ lpc' = "drain"
  /\ UNCHANGED <<playloop, stats, task, dma_callback_done, dmac, locals, callers>>

\* A cycle is complete when its last buffer has been pushed; with a repeat to
\* do the buffers are gone through again.
CycleDone == dma_buffers_out >= shot_buffer_count
Again == CycleDone /\ (AO_CONTINUOUS \/ repeats > 0)

\* A buffer was played: count it, and push the next one unless the last has
\* been pushed.  The last push sets no event.
Step ==
  LET count == IF Again THEN shot_buffer_count + shot_buffer_count0 ELSE shot_buffer_count
      ib == IF Again THEN 0 ELSE pull_buf
      push == dma_buffers_out < count
      last == ~AO_CONTINUOUS /\ dma_buffers_out + 1 >= count
  IN
  /\ LoopAt("step")
  /\ ~(last_push_done /\ continuous_at_start)
  /\ AO_CONTINUOUS => cycles < MaxCycles
  /\ cursor' = IF Again THEN 0 ELSE cursor + spb
  /\ cycles' = IF CycleDone THEN cycles + 1 ELSE cycles
  /\ repeats' = IF ~Again THEN repeats ELSE IF AO_CONTINUOUS THEN repeats + 1 ELSE repeats - 1
  /\ shot_buffer_count' = count
  /\ pull_buf' = IF push THEN ib + 1 ELSE ib
  /\ dma_buffers_out' = IF push THEN dma_buffers_out + 1 ELSE dma_buffers_out
  /\ chan' = IF push
             THEN [chan EXCEPT ![ic] = Append(@, [buf |-> ib, wait |-> TRUE, set |-> ~last])]
             ELSE chan
  /\ last_push_done' = (last_push_done \/ (push /\ last))
  /\ ic' = 1 - ic /\ dma_timeout' = "DMA_TIMEOUT"
  /\ lpc' = "head"
  /\ UNCHANGED <<length, oneshot, shot, dma_buffers_in, task, dma_callback_done, event, callbacks,
                 played, started, cdone, shot_buffer_count0, continuous_at_start, ldone,
                 tail, wave, callers, mishap>>

\* A continuous waveform that was told to stop has played out.
StepDown ==
  /\ LoopAt("step")
  /\ last_push_done /\ continuous_at_start
  /\ cursor' = cursor + spb
  /\ lpc' = "drain"
  /\ UNCHANGED <<length, oneshot, repeats, cycles, pull_buf, stats, task, dma_callback_done, dmac,
                 locals, callers, mishap>>

\* xo_data_loop_cleanup(): wait for the transfers that are out.  A timeout is
\* counted like a callback, and takes dma_callback_done below zero.
DrainReady ==
  /\ LoopAt("drain")
  /\ dma_buffers_in < dma_buffers_out
  /\ \/ dma_callback_done # 0 /\ UNCHANGED mishap
     \/ dma_callback_done = 0 /\ TimeoutRuns /\ mishap' = TimedOut
  /\ ldone' = dma_callback_done
  /\ lpc' = "ddec"
  /\ UNCHANGED <<playloop, stats, task, dma_callback_done, dmac, ic, shot_buffer_count,
                 shot_buffer_count0, last_push_done, continuous_at_start, dma_timeout, tail, wave, callers>>

\* Mutated form of DrainDone: the shot ends without the wait.
DrainDone_now ==
  /\ LoopAt("drain")
  /\ lpc' = "fifo"
  /\ UNCHANGED <<playloop, stats, task, dma_callback_done, dmac, locals, callers, mishap>>

DrainDone ==
  /\ LoopAt("drain")
  /\ dma_buffers_in >= dma_buffers_out
  /\ lpc' = "fifo"
  /\ UNCHANGED <<playloop, stats, task, dma_callback_done, dmac, locals, callers, mishap>>

\* waitXoFifoEmpty(): the FIFO drains once onStart() has set it going; a
\* timeout is not an error.  onStop(), then task_active is cleared.
Cleanup ==
  /\ LoopAt("fifo") /\ started
  /\ task_active' = FALSE
  /\ lpc' = "none" /\ tail' = tail + 1
  /\ UNCHANGED <<playloop, stats, w_task, should_stop, dma_callback_done, dmac, ic, shot_buffer_count,
                 shot_buffer_count0, last_push_done, continuous_at_start, dma_timeout, ldone, wave, callers,
                 mishap>>

\* The rearm thread is started while task_active is already clear, so that a
\* new loop may be running by now.  Bound: one rearm thread at a time.
LoopEnd ==
  /\ tail > 0
  /\ IF oneshot = "AO_oneshot_rearm" /\ (maxshot = 0 \/ shot < maxshot) /\ pc["rearm"] = "idle"
     THEN pc' = [pc EXCEPT !["rearm"] = "poll"]
     ELSE UNCHANGED pc
  /\ tail' = tail - 1
  /\ UNCHANGED <<playloop, stats, task, dma_callback_done, dmac, lpc, ic, shot_buffer_count,
                 shot_buffer_count0, last_push_done, continuous_at_start, dma_timeout, ldone,
                 wave, arg, stores, file, mishap>>

----------------------------------------------------------------------------
(* The DMAC (external) and its callback.                                   *)

Transfer(c) ==
  /\ chan[c] # << >> /\ mishap # "two_loops"
  /\ Head(chan[c]).wait => event[c]
  /\ played' = Head(chan[c]).buf
  /\ chan' = [chan EXCEPT ![c] = Tail(@)]
  /\ event' = [event EXCEPT ![c] = @ /\ ~Head(chan[c]).wait,
                            ![1 - c] = @ \/ Head(chan[c]).set]
  /\ callbacks' = callbacks + 1
  /\ UNCHANGED <<playloop, stats, task, dma_callback_done, started, cdone, lpc, locals, callers,
                 mishap>>

\* dma_callback_done++, a read and a write on one core against the loop's
\* decrement on the other: whichever writes last undoes the other.
CallbackRead ==
  /\ callbacks > 0 /\ cdone = << >> /\ mishap # "two_loops"
  /\ cdone' = <<dma_callback_done>>
  /\ callbacks' = callbacks - 1
  /\ UNCHANGED <<playloop, stats, task, dma_callback_done, chan, event, played, started, lpc,
                 locals, callers, mishap>>

CallbackWrite ==
  /\ cdone # << >> /\ mishap # "two_loops"
  /\ mishap' = IF dma_callback_done # Head(cdone) THEN "count" ELSE mishap
  /\ dma_callback_done' = Head(cdone) + 1
  /\ cdone' = << >>
  /\ UNCHANGED <<playloop, stats, task, chan, event, callbacks, played, started, lpc, locals,
                 callers>>

----------------------------------------------------------------------------
(* xo400_reset_playloop(adev, n), called by the user and by the rearm      *)
(* thread.                                                                 *)

At(c, l) == pc[c] = l /\ mishap # "two_loops"
Goto(c, l) == pc' = [pc EXCEPT ![c] = l]

\* awg_mutex is held from the stop of the feeder to w_task = 0.
AwgMutexFree == \A c \in Callers : pc[c] \notin {"stop", "join", "inactive"}

\* A start is refused while a waveform is tee'd up; a stop makes it one-shot
\* and sets AWG_ABORT.
Begin(c) ==
  /\ At(c, "begin")
  /\ Goto(c, IF arg[c] # 0 THEN IF task_active THEN "return" ELSE "lock" ELSE "abort")
  /\ oneshot' = IF arg[c] = 0 THEN "AO_oneshot" ELSE oneshot
  /\ UNCHANGED <<length, cursor, repeats, cycles, pull_buf, stats, task, dma_callback_done, dmac,
                 lpc, locals, arg, stores, file, mishap>>

Abort(c) ==
  /\ At(c, "abort") /\ ~task_active
  /\ Goto(c, "lock")
  /\ UNCHANGED <<playloop, stats, task, dma_callback_done, dmac, lpc, locals, arg, stores, file, mishap>>

Lock(c) ==
  /\ At(c, "lock") /\ AwgMutexFree
  /\ Goto(c, "stop")
  /\ UNCHANGED <<playloop, stats, task, dma_callback_done, dmac, lpc, locals, arg, stores, file, mishap>>

\* xo400_distributor_feeder_control(adev, 0).
FeederStop(c) ==
  /\ At(c, "stop")
  /\ should_stop' = (should_stop \/ (task_active /\ w_task))
  /\ Goto(c, IF task_active /\ w_task THEN "join" ELSE "inactive")
  /\ UNCHANGED <<playloop, stats, w_task, task_active, dma_callback_done, dmac, lpc, locals, arg,
                 stores, file, mishap>>

Join(c) ==
  /\ At(c, "join") /\ lpc = "none" /\ tail = 0
  /\ Goto(c, "inactive")
  /\ UNCHANGED <<playloop, stats, task, dma_callback_done, dmac, lpc, locals, arg, stores, file, mishap>>

FeederStopped(c) ==
  /\ At(c, "inactive") /\ ~task_active
  /\ w_task' = FALSE
  /\ Goto(c, "set")
  /\ UNCHANGED <<playloop, stats, task_active, should_stop, dma_callback_done, dmac, lpc, locals,
                 arg, stores, file, mishap>>

SetLength(c) ==
  /\ At(c, "set") /\ ~task_active
  /\ length' = arg[c]
  /\ Goto(c, IF arg[c] # 0 THEN "feed" ELSE "return")
  /\ UNCHANGED <<cursor, oneshot, repeats, cycles, pull_buf, stats, task, dma_callback_done, dmac,
                 lpc, locals, arg, stores, file, mishap>>

\* xo400_distributor_feeder_control(adev, 1): kthread_run().  Where two loops
\* run on the same channels, the model stops.
FeederStart(c) ==
  /\ At(c, "feed")
  /\ w_task' = TRUE /\ should_stop' = FALSE
  /\ IF lpc = "none"
     THEN lpc' = "start" /\ UNCHANGED mishap
     ELSE mishap' = "two_loops" /\ UNCHANGED lpc
  /\ Goto(c, "active")
  /\ UNCHANGED <<playloop, stats, task_active, dma_callback_done, dmac, locals, arg, stores, file>>

\* The loop is seen to run; onStart().
Active(c) ==
  /\ At(c, "active") /\ task_active
  /\ started' = TRUE
  /\ Goto(c, "return")
  /\ UNCHANGED <<playloop, stats, task, dma_callback_done, chan, event, callbacks, played,
                 cdone, lpc, locals, arg, stores, file, mishap>>

\* The caller is done; store_playloop_length() clears repeats of a one-shot.
Return(c) ==
  /\ At(c, "return")
  /\ repeats' = IF c = "user" /\ file \in {"closed", "open"} /\ ~AO_CONTINUOUS THEN 0 ELSE repeats
  /\ file' = IF c # "user" THEN file
             ELSE IF file = "opening" THEN "open" ELSE IF file = "closing" THEN "closed" ELSE file
  /\ arg' = [arg EXCEPT ![c] = 0]
  /\ Goto(c, "idle")
  /\ UNCHANGED <<length, cursor, oneshot, cycles, pull_buf, stats, task, dma_callback_done, dmac,
                 lpc, locals, stores, mishap>>

\* ao_auto_rearm(): the FIFO drains, onStop() ...
RearmPoll ==
  /\ At("rearm", "poll")
  /\ Goto("rearm", "test")
  /\ UNCHANGED <<playloop, stats, task, dma_callback_done, dmac, lpc, locals, arg, stores, file, mishap>>

\* ... and the waveform is rearmed, unless it was stopped in the meantime.
RearmTest ==
  /\ At("rearm", "test")
  /\ IF length > 0 /\ oneshot = "AO_oneshot_rearm"
     THEN /\ cursor' = 0
          /\ arg' = [arg EXCEPT !["rearm"] = length]
          /\ Goto("rearm", "begin")
     ELSE Goto("rearm", "idle") /\ UNCHANGED <<cursor, arg>>
  /\ UNCHANGED <<length, oneshot, repeats, cycles, pull_buf, stats, task, dma_callback_done, dmac,
                 lpc, locals, stores, file, mishap>>

\* The user sets the mode, of a running shot as well.
SetMode(mode) ==
  /\ oneshot' = mode
  /\ mishap' = IF task_active /\ mode # oneshot /\ mishap = "no" THEN "mode" ELSE mishap

\* store_playloop_length(): a longer waveform is appended without a reset.
StoreLength(n, mode) ==
  /\ At("user", "idle") /\ file = "closed" /\ stores < MaxStores
  /\ stores' = stores + 1
  /\ SetMode(mode)
  /\ IF length = 0 \/ n < length
     THEN /\ arg' = [arg EXCEPT !["user"] = n]
          /\ Goto("user", "begin")
          /\ UNCHANGED <<length, repeats>>
     ELSE /\ length' = n
          /\ repeats' = IF mode = "AO_continuous" THEN repeats ELSE 0
          /\ UNCHANGED <<pc, arg>>
  /\ UNCHANGED <<cursor, cycles, pull_buf, stats, task, dma_callback_done, dmac, lpc, locals, file>>

\* store_playloop_repeats().
StoreRepeats(k) ==
  /\ At("user", "idle") /\ repeats = 0
  /\ repeats' = k
  /\ UNCHANGED <<length, cursor, oneshot, cycles, pull_buf, stats, task, dma_callback_done, dmac,
                 lpc, locals, callers, mishap>>

\* xo400_awg_open() for write: the length is cleared before the loop stops.
AwgOpen ==
  /\ At("user", "idle") /\ file = "closed" /\ stores < MaxStores
  /\ stores' = stores + 1
  /\ length' = 0
  /\ file' = "opening"
  /\ Goto("user", "begin")
  /\ UNCHANGED <<cursor, oneshot, repeats, cycles, pull_buf, stats, task, dma_callback_done, dmac,
                 lpc, locals, arg, mishap>>

\* xo400_awg_write(), all of the waveform at once.
AwgWrite(n) ==
  /\ At("user", "idle") /\ file = "open" /\ length = 0
  /\ length' = length + n
  /\ UNCHANGED <<cursor, oneshot, repeats, cycles, pull_buf, stats, task, dma_callback_done, dmac,
                 lpc, locals, callers, mishap>>

\* xo400_awg_release(): the minor device gives the mode.
AwgRelease(mode) ==
  /\ At("user", "idle") /\ file = "open"
  /\ SetMode(mode)
  /\ arg' = [arg EXCEPT !["user"] = length]
  /\ file' = "closing"
  /\ Goto("user", "begin")
  /\ UNCHANGED <<length, cursor, repeats, cycles, pull_buf, stats, task, dma_callback_done, dmac,
                 lpc, locals, stores>>

----------------------------------------------------------------------------
Loop ==
  \/ Start \/ LoopHead \/ DmaReady \/ DmaTimeout \/ Decrement \/ SyncWait \/ SyncTimeout
  \/ Step \/ StepDown \/ DrainReady \/ DrainDone \/ Cleanup \/ LoopEnd

ResetPlayloop(c) ==
  \/ Begin(c) \/ Abort(c) \/ Lock(c) \/ FeederStop(c) \/ Join(c) \/ FeederStopped(c)
  \/ SetLength(c) \/ FeederStart(c) \/ Active(c) \/ Return(c)

Callback == CallbackRead \/ CallbackWrite

Rearm == RearmPoll \/ RearmTest

Next ==
  \/ Loop
  \/ \E c \in 0 .. 1 : Transfer(c)
  \/ Callback
  \/ \E c \in Callers : ResetPlayloop(c)
  \/ Rearm
  \/ \E n \in Lengths, m \in Modes \cup {oneshot} : StoreLength(n, m)
  \/ \E k \in Repeats : StoreRepeats(k)
  \/ AwgOpen
  \/ \E n \in Lengths \ {0} : AwgWrite(n)
  \/ \E m \in Modes : AwgRelease(m)

Spec == Init /\ [][Next]_vars

\* Threads that can run do run, and the DAC is clocked and triggered (or
\* AWG_ABORT drains it): a transfer that can run does run.
FairSpec ==
  /\ Spec
  /\ WF_vars(Loop) /\ WF_vars(Callback) /\ WF_vars(Rearm)
  /\ \A c \in 0 .. 1 : WF_vars(Transfer(c))
  /\ \A c \in Callers : WF_vars(ResetPlayloop(c))

----------------------------------------------------------------------------
(* Properties.                                                             *)

\* The buffers of a waveform are played in order: after buffer k comes k + 1,
\* or buffer 0 of the next cycle after the last, through every interleaving
\* of the two channels.
PlayedInOrder ==
  [][\A c \in 0 .. 1 : Transfer(c) /\ mishap = "no" =>
       \/ played' = played + 1
       \/ played' = 0 /\ played + 1 >= shot_buffer_count0]_vars

\* The ping-pong never stops: as long as a transfer is queued, one can run.
\* A shot of a single buffer that is repeated has nothing to wait for and is
\* left out.
PingPongRuns ==
  mishap = "no" /\ (\E c \in 0 .. 1 : chan[c] # << >>) /\ wave > spb =>
    \E c \in 0 .. 1 : chan[c] # << >> /\ (Head(chan[c]).wait => event[c])

\* A shot is over, and the task inactive, only when everything that was
\* pushed has been played, unless a timeout or a lost count came in between.
\* And it ends on the last buffer of the waveform, be it a one-shot or a
\* continuous waveform that was stopped: no buffer of it is left out.  (The
\* overspill is played in the first cycle only.)
ShotPlaysOut ==
  /\ ~task_active /\ mishap = "no" /\ lpc # "start" => \A c \in 0 .. 1 : chan[c] = << >>
  /\ lpc = "fifo" /\ mishap = "no" /\ ~should_stop /\ length # 0 =>
       /\ played + 1 >= shot_buffer_count0
       /\ shot_buffer_count <= shot_buffer_count0 + 1 => (played + 1) * spb >= wave

\* A call of xo400_reset_playloop() returns: a stop is not waited for in vain.
ResetReturns ==
  \A c \in Callers : pc[c] = "begin" ~> (pc[c] = "idle" \/ mishap \in {"count", "timeout", "two_loops"})

\* What struct AOPlayloop says of repeats, "run one-shot more than once": the
\* repeated one-shot goes on playing.
RepeatsPlay ==
  mishap = "no" /\ (\E c \in 0 .. 1 : chan[c] # << >>) =>
    \E c \in 0 .. 1 : chan[c] # << >> /\ (Head(chan[c]).wait => event[c])
=============================================================================
