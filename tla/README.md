# Verification of the ACQ400 driver

TLA+ models of the core of ACQ400DRV, the Linux driver of the D-TACQ ACQ400
series of data acquisition carriers and the programs that come with it, with TLC
configurations and TLAPS proofs.
Paths are relative to the repository; `PROJECT.json` maps every definition that
models code to the lines it stands for.

## The system

An ACQ400 carrier has a system controller (site 0) and up to six mezzanine
modules (sites 1-6). Analogue input flows from the modules through an
aggregator FIFO in the FPGA, and a DMA controller (a PL330 with two channels
that play ping-pong by events) moves it into *host buffers* in DDR memory. User
space reads the *numbers* of full buffers from device files and maps the
buffers. Carriers of another type have an AXI DMA engine that walks a ring of
descriptors instead. Analogue output takes the reverse path through a
distributor. White Rabbit hardware stamps events with the time and interrupts the
driver; `wrtd` distributes triggers by such stamps. `acq400_stream` is the program
that runs captures: it opens the sites, streams or takes a transient shot around
an event, finds the event in memory, and demultiplexes and reduces the data.

### Inventory

| component | state | operations | interacts through |
|---|---|---|---|
| host buffer lists (`acq400_lists.c`, `hbm.c`) | `EMPTIES`, `INFLIGHT`, `REFILLS`, `OPENS`, the state of each buffer | getEmpty, putFull, getEmptyFromRefills, getFull, putEmpty, move_list_to_empty, sort_empties | `list_mutex`, `refill_ready` |
| continuous capture (`acq400_drv.c`, `acq400_core.c`, `dma_shims.c`) | `struct RUN_TIME`, `busy`, `w_task`, `h_task`, `task_active`, `dma_callback_done`, two DMA channels | open, read, release; `ai_data_loop()`; the DMA callback; `fifo_monitor()` | the lists, the DMAC, kthread_stop |
| buffer queue distribution (`acq400_structs.h`, `acq400_drv.c`, `acq400_ui.c`) | a ring `struct BQ` per client, `struct BQ_Wrapper` | `acq400_bq_notify()`; open, read, release of the bq minors | called by each read of the capture; `bq_clients_mutex` |
| hb0 live view (`acq400_drv.c`, `acq400_ui.c`) | `hb0_count`, `hb0_ix`, `hb0_last`, `hbm_m1` | publication; `acq400_hb0_read()` | called by each read of the capture; no lock |
| AWG playloop (`xo_workers.c`, `xo_sysfs.c`, `acq400_drv.c`) | `struct AOPlayloop`, two DMA channels, the shot's counters | `xo_data_loop()`, `xo400_reset_playloop()`, `ao_auto_rearm()`, playloop_length, playloop_repeats, the AWG file | `awg_mutex`, kthread_stop, DMA callbacks |
| stream DAC (`acq400_ui.c`, `xo_workers.c`) | rings of refills and empties, the worker, its two channels | open, read, write, release; `streamdac_data_loop()` | the rings, waitqueues, DMA callbacks |
| AWG segments (`acq400_ui.c`, `acq400_drv.c`, `xo_sysfs.c`) | two byte rings, `awg_seg`, `max_seg`, `distributor_segment_offset` | read, write, release of awg_abcde; `_update_abcde_status()`; awg_max_seg | the rearm thread; no lock |
| software embedded words (`acq400_sewfifo.c`) | a byte ring, `sf_task` | open, write, release; `acq400_sew_fifo_work()` | `awg_mutex` on open only, kthread_stop |
| White Rabbit stamps (`acq400_wrdrv.c`) | `WR_CTRL`, `struct WrClient` per source | two interrupt handlers; open, read, release | status bits, waitqueues |
| AXI64 capture (`acq400_drv.c`, `acq400_axi_chain.c`, `acq400_xilinx_axidma.c`) | the lists, descriptor rings, poison words | `axi64_data_loop()`, `axi64_dual_data_loop()`, open, read, release | poison words in the buffers, the wake-up of the interrupt |
| transient capture and event client (`acq400_stream.cpp`, `acq400_drv.c`, `acq400_ui.c`) | the state of `StreamHeadPrePost`, `rt.event_count`, the event file, event signatures in memory | arming, pre, post, stop, search; `event_action()`; read of the event file | the event device, sysfs knobs of event0, the buffers |
| data set and filters (`acq400_stream.cpp`, `Buffer.h`, `ES.cpp`) | the mapped host buffers | post-processing of a shot; `demux()`, oversampling, subsets | in place, one process |
| multi-event capture (`acq400_stream.cpp`) | `StreamHeadLivePP`, `MultiEventServer` | buffers, events and user settings as they come | a pipe, the buffers the DMAC overwrites |
| stream processes and sideported capture (`acq400_stream.cpp`, `acq400_drv.c`) | reaper, main, holders, live process; each site's reader mark | fork, signals, exits; open, read, release of a site | signals, a semaphore, process group |
| wrtd (`wrtd.cpp`, `wrtd_TS.h`, `wrtd_message.h`) | trigger registers, deferred actions | transmit, receive, defer | multicast messages |
| reserved buffers, frontside FIFO, RTM-T; sysfs knobs, module and chip drivers, vendored DMA drivers, other programs | see Not modelled | | |

### What is hard in this code

- **Tests outside the lock.** `getFull()`, `getEmptyFromRefills()` and
  `sort_empties()` look at a list without `list_mutex`; `busy`, `task_active`,
  `wc_pid` and the list of stream DAC clients are tested in one step and set in
  another.
- **A counter shared with a tasklet.** `dma_callback_done` is incremented by the
  DMA callback and decremented by a kthread on the other core, both as plain
  reads and writes. The loops recover from lost counts by asking the channel
  itself (`dma_sync_wait()`), or do not.
- **Order carried by convention.** `putFull()` takes the oldest buffer in
  flight, not the one of the channel that finished; one counter serves two
  channels; each transfer waits for an event the other channel's sets.
- **Lock-free rings.** `acq400_bq_notify()` resets a ring under its reader.
- **Ends.** Timeouts, stops, failed starts, exhausted buffers and signals each
  leave a loop by a different path, some of which wake nobody.
- **Acknowledgement.** Two interrupt handlers write back one status register.
- **Memory that goes on changing.** The buffers are a ring the hardware refills while
  processes search, copy and save from it; how far behind a process may be is
  nowhere written down. An AXI channel never waits for the driver.
- **Processes.** A program of five kinds of process is held together by one
  signal, a semaphore and the process group.
- **Time in few bits.** A trigger register knows three bits of the second.

`PROJECT.json` lists these at their lines as hazards, with the properties aimed
at each and, where nothing is claimed, why.

### What makes each component correct

- Lists: a buffer is on exactly one list, in the state that names it.
- Capture: hardware writes only to buffers in flight; a client gets blocks in
  order, each once, unchanged while it holds them; counters balance; release
  ends and leaves nothing; a read ends.
- Queues: each block once and in order unless the queue overran, then newer
  blocks; no buffer twice in a queue; no lost wake-up.
- hb0: consecutive pairs, at most one a second, each read newer.
- AWG: buffers in order, to the last one, no lock-up, every stop returns.
- Stream DAC: a buffer has one owner, none is lost, played in order written,
  nothing left in the DMAC, stop returns.
- White Rabbit: every event is recorded, stamps advance, readers are woken.
- AXI64: what is handed on is a whole block, in order, once; the loop keeps its
  place in the ring.
- Transient: the data set of a shot is its own, complete, and comes down in memory in
  order; a shot ends.
- Streams: what is shown, saved or sent of an event or a channel are its samples.
- Processes: nobody stops a site under the stream, a signal ends all.
- Triggers: fire at their time on every receiver.
- Rings of bytes: what comes out is what went in.

## Modules

`HostBuffers` has the four lists and the state of each buffer; every operation
of `acq400_lists.c` that moves buffers is an action on them. A critical section
under `list_mutex` is one step. `move_list_to_empty()` is an action per list,
because `empty_lists()` and the end of a capture release the mutex between
lists. `sort_empties()` leaves any order `list_sort()` with `hbm_cmp()` may
leave.

`ContinuousCapture` extends it with everything around a capture: each client's
`acq420_open_continuous()` / `acq2006_continuous_start()` (lists emptied,
`_onStart()`, the start of the threads, the poll for `task_active` with its
failure), `acq400_continuous_read()` with `getFull()`, and
`acq2006_continuous_stop()`; the data loop from priming the channels to
terminating them; the DMAC; the callback, with its race on
`dma_callback_done`; the monitor. Program counters are `cpc[c]` and `lpc`; one
action is what a thread does between two points where another may interfere.
Undefined behaviour (the head of an empty list, an unlocked sort of a list that
changes, `kthread_stop()` on a thread that has gone, a second data loop) sets
`ub` and ends the behaviour: all claims are about what comes before it.
The DMAC's event protocol (`Transfer`) is external, taken from how
`ai_data_loop()` programs the channels with `DMA_WAIT_EV`/`DMA_SETS_EV`.
Terminating the channels kills their threads; whether the controller then keeps
an event latched is not in the sources, so `Terminate` has both outcomes, and
`stale` records that a capture was primed with such an event.
Site modules beyond the aggregator set and the trigger registers are left out:
no state here depends on them.

`BlockStream` is the abstract specification of what the capture device
promises: a queue of blocks with loss at its head. `ContinuousCapture`
implements it with the queue as the contents of the buffers on `REFILLS`.

`BQ` has the operations of `struct BQ`, shared by `BufferQueue` and
`StreamDac`; `struct circ_buf` has the same ones, and `SewFifo` and `AwgSegments`
use them. `BufferQueue` models notifier and readers at the level of single
accesses to `head`, `tail` and cells, since no lock covers a ring. A client
opens either minor; a cell holds the number of the block, from which `Ix`
gives the buffer. Signals during open and release have their own steps
(`OpenInterrupted`, `ReleaseInterrupted`), because the code goes on without the
client being added or removed. `acq400_bq_poll()` changes no state; it reports
POLLIN when the ring has space, whatever it holds.

`Hb0` publishes and reads `hb0_count` and `hb0_ix` in single accesses.

`AwgPlayloop` models a shot from `xo400_reset_playloop()` to the end of
`xo_data_loop()`: the start under `awg_mutex`, priming, the loop, the
clean-up, the rearm thread and the users of sysfs and of the AWG file.
Abstractions: `playloop_maxlen` and `push_buf` keep their defaults; there is one
rearm thread at a time; an ordinary DMA timeout is 5 s or more, so it happens
only when no transfer can run; the user of the file does not write
playloop_length while it is open. `mishap` records what makes later claims
void: a timeout, a lost count, an event of the DMAC left set by a short
waveform, a mode changed in mid-shot, two loops at once.

`AwgSegments` models the rings of segments and the switch at a rearm, which is the
call of `update_abcde_status()` that `AwgPlayloop` leaves out of its rearm. The
switch is two steps, `buf_get()` with its test and the stores, because a process
may clear the ring or change awg_max_seg in between; `raced` and `spoilt` say that it
did. write() tests for room once and then puts its letters byte by byte. `SewFifo` models write() byte by byte against the kthread, with the timeout
that puts a byte in a full ring, a signal after which write() is called again, and a
release that frees the buffer a new open has kept.

`StreamDac` models the stream with the deferred start of the worker. Each
ring has one producer and one consumer, so that its operations are single steps.
`dma_callback_done` is read and written in separate steps by the tasklet
(`CallbackRead`, `CallbackWrite`) and by the worker (`Ready` or `Drain`, then
`CountIn`); `lost` counts the updates that were lost that way, at most `MaxLost`.
`left` records that a stream was over before its transfers were: `dma_sync_wait()` gave
up on one that was counted too early (`SyncTimeout`), or the drain ended early. An
open that finds a client returns `-EBUSY` and changes nothing. The AWG is idle.

`WrDriver` models the two handlers, status bits, and open, read and release of
`ts`, `tt0`, `tt1`, `pkt_rx` and `pps`. A stamp is the number of the
source's event, from 1: a stamp of 0 means none in the code as well. The
handlers run on one CPU and do not interleave with each other; hardware and
processes go on while they run. A status bit is cleared by writing it as 1,
the only effect the write-back of `int_sta` can have. So an event that comes
between the handler's reading of the stamp register and its write-back is
acknowledged with no record and no wake-up: `late` counts those, `merged` the ones whose
stamp was overwritten before a handler read it. The TIGA devices repeat this code
per site.

`Axi64` has the AXI loops over the lists of `HostBuffers`. A buffer is two values,
the block that fills it and the one its poison words belong to: an overwritten
poison word is how the loop learns that a buffer is full. The DMAC fills buffers
whatever the loop does; `KeepsUp` says how far ahead of it there is poison.
With two channels one full buffer ends the wait, and after one delay of
`axi64_dual_poison_udelay` (which may be 0) the loop hands on both, whatever it finds
of the other. `outlasts` says whether that delay is longer than one channel is behind
the other; `Delays` has the cases that a run looks at. It implements `BlockStream` as well,
while it keeps its place in the ring (`KeepsPlace`): `outlasts`, and until buffers
run out.

`Transient` has three parties: samples with event signatures, the driver's event
interrupt and file, and `StreamHeadPrePost`. Buffers keep what an earlier shot left.
How far the interrupt and the process may be behind is `MaxIrq` and `MaxLag`.
findEvent() is the sequence of buffers it looks at (`Candidate`), from the one that was
being filled when the event was noticed forward and then back. A process that reads the
event file after the capture has stopped is told a buffer filled last and none being
filled, and findEvent() then indexes `the_buffers` with -1 (`IndexUndefined`); such a shot
is reported as `undefined`, and `DataSetComplete` says that no shot that runs to its
end is. The event file is read with `event_to` at its default, which is to wait for
ever. (The buffer number it
returns with a hit further back is that of the first one looked at behind it,
`acq400_stream.cpp:2257`. It is left out here: postProcess() lays the data set out by
the address of the event alone.)
`TransientStore` has what happens to memory afterwards (where the data set lies, how
it is brought into one piece, copied or demultiplexed down in place) with signatures of
one, two or four samples, the sizes get_nchan_ES() gives, and
`StreamFilters` the filters on the way to a client, as functions of sequences of
words.

`StreamProcesses` has the reaper, the main process, one holder per site and launch, and
the live process, with pending and blocked signals, the semaphore `aggsem`, and each
site's sideported open, read and release in the driver. A launch may begin
while processes of the one before are still there.

`MultiEvent` has the DMAC, `StreamHeadLivePP`, the pipe and `MultiEventServer`
with its user's settings; the buffers are an array of samples that goes on changing.

`Wrtd` counts time in ticks and writes trigger registers of three bits of the second and
a tick. Messages are lost, repeated, delayed and overtaken. The four transmitters,
the filter of a receiver and the children that defer an absolute time are actions.

A component `X` whose theorems are proved has them in `XProofs`, which extends it:
`HostBuffersProofs` (moves of lists, and the sequence of blocks in a list),
`ContinuousCaptureProofs` (any number of clients, then one), `Axi64Proofs`,
`AwgPlayloopProofs`, `StreamDacProofs`, `WrDriverProofs`. Two extend the sum that the
component is checked in: `BufferQueueProofs` extends `MCBufferQueue` and has the proofs
about the four rings there, `StreamProcessesProofs` extends `MCTransient` and has those
about the processes and about the transient shot. A definition
`X_y` commented "Mutated form of X" is X with a plausible bug; each property
fails when its mutant takes X's place.

`MC*` modules instantiate these for TLC. Components that do not interact share a
run as a *sum*: a variable, chosen initially, says which one the behaviour is
about, and the variables of the others rest in their initial states: `MCBufferQueue` is
the sum of `BufferQueue`, `Hb0`, `SewFifo` and `AwgSegments`, `MCTransient` of
`StreamProcesses` and `Transient`, `MCStreamDac` of `StreamDac` and `AwgPlayloop`,
`MCAlgorithms` of the functions, `MultiEvent` and `Wrtd`. A
property of the sum that names one component is that component's property; what is
one question of two components (a stop returns, a client is woken) is a
conjunction.

## Runs

| run | instance | shows |
|---|---|---|
| `capture` | 4 buffers, 1 client, 2 opens, 4 blocks | buffers conserved, DMA only into buffers in flight, counters balance, open buffers stable, `BlockStream` implemented up to a capture primed with a latched event |
| `capture_restart` | 3 buffers, `run_buffers` 3, quit on exhaustion, 2 opens, fair | a closed device is quiet, release completes, reads return |
| `capture_clients` | 3 buffers, 2 clients, 2 opens, 1 block, failing starts | buffers conserved whatever overlaps |
| `capture_race` | 4 buffers, 1 client, 1 open, 5 blocks | *violation*: a reader takes the head of a list the drain has emptied |
| `bq` | `BufferQueue`: rings of 2 and 8 cells, 4 buffers, 7 blocks; `Hb0`: 5 blocks, 4 seconds; `SewFifo`: ring of 4, 2 users; `AwgSegments`: rings of 2, 2 segments; fair | each block once and in order; newer after an overrun; no buffer twice in a queue; consecutive pairs at most once a second, each read newer; wake-ups; segments and bytes in order |
| `wr` | `tt0`, `pkt_rx`, `pps`, a reader, a writer, 3 events, fair | events recorded, pending, merged or late and lost in no other way; stamps advance and a packet is not older; a waiter wakes |
| `awg` | `AwgPlayloop`: 2 buffers and an overspill, one-shot, continuous (2 writes of the length) or rearmed (1 write, 2 shots) | no lock-up, order, plays out |
| `awg_repeats` | 2 buffers and an overspill, 1 repeat | *violation*: a repeated one-shot locks up |
| `stream_dac` | `StreamDac`: ring of 8, 4 pairs, 2 opens, 1 lost count; `AwgPlayloop`: one buffer, rearming, 2 shots; fair | one owner per buffer and none lost, order, first write fits, every stop returns |
| `transient` | `Transient`: 11 buffers of 2 samples, pre 0 or 3, post 3, a search of 3 forward and 2 back, at most 2 buffers behind, 2 shots; `StreamProcesses`: one site, 2 launches; fair | data set complete, shot ends; sites held, processes end together |
| `algorithms` | every event position, signatures of 1, 2 and 4 samples, pre and post up to 8 in a ring of 7 buffers; demultiplexing of 6 samples cut every way; oversampling to 5, and signatures in a stream of subsets; `MultiEvent`: 8 buffers, 2 events; `Wrtd`: 4 ticks a second, 2 messages, 10 seconds | results equal to their reference definitions; events whole; triggers on time |
| `axi64` | 4 buffers, 1 and 2 channels, a delay that outlasts their skew and one that does not, 9 blocks, 2 opens, fair | whole blocks, `BlockStream` implemented, full buffers handed on |

Bounds. Four buffers are the fewest for which two can be in flight, one open
and one full; with four blocks over two captures all are filled once and the second
capture, which may find an event latched, starts on a list that the first has
reordered, and with the five of `capture_race` the loop both pulls a full buffer back and
drains the list. `capture_restart` needs three: two
primed and one to be exhausted. Two clients are enough for every overlap of
two calls, since no step involves three; a second data loop takes four opens,
which only the theorem covers. A ring of 2 cells is the real `BQ_MIN_BACKLOG`; 8 stands
for 512 as the ring that is longer than the number of buffers, and seven blocks
go round the four buffers and overrun the queue. A waveform of 5 samples with 2 a buffer has
whole buffers and an overspill; a behaviour of `awg` keeps to one-shots and one other
mode (why: `OneShotOnce`, below). Four pairs fill the stream's ring (limit is 7) and
one of them is written while it runs, so that the ring wraps; one lost update is enough for the
count to be one too high or one too low. Three White Rabbit events
are one more than the handler can have read and left. Short byte rings fill and wrap
within one write. Four AXI buffers are two per channel, one more than are
waited for, and nine blocks a channel go more than once round them, before and after a
restart; `Margins` is one or two buffers. The
transient ring, the search and the lags are at the limit of `ShotTimely` (see Proofs):
with a ring of 9 buffers or a search one buffer longer TLC finds `DataSetComplete`
violated; a second shot comes round to the signature of the first. Eight seconds of `Wrtd` are what three bits hold, and the run
starts in the last of them. `MultiEvent` goes round its eight buffers while
a file is saved. Client symmetry is used only where no liveness property is checked.

Deadlock is checked except where the system may stop for good: a client need not
read again, the bound on blocks ends the input, a release may wait for
a data loop that another client's failed open left waiting for its first block
(`capture_clients`), an AWG waits for a trigger, and a program has exited.

Fairness. A kthread, a tasklet, a process or a system call that can run does run
(weak fairness; the kernel's scheduler). Nothing obliges an application to call, the
hardware to produce data or an event to come. `AwgPlayloop` and `StreamDac` also
assume that a transfer that can run does: the DAC is clocked and triggered,
or an abort drains it. Mutexes are not fair and need not be: each
critical section ends. `ReadReturns` names the states in which a read may sleep
for ever: before the first block, and after a data loop that ended without
setting `refill_error`. `StopReturns` of the stream DAC is claimed while no update of
`dma_callback_done` was lost: with an increment lost the worker waits for ever for a
callback that has been. `WaiterWakes` exempts three readers: one whose source is
being opened by another process, which discards the stamp; one that took a stamp and
waits again before the handler that recorded it has written its status back, since an event
that comes there wakes nobody; and any after a handler has found a bit of the other one. In `Transient` samples
go on and the event comes, since `ShotEnds` is about a shot whose event is switched on;
that it may never come, and that a user may abort, are behaviours of the model too.
`StreamProcesses` has strong fairness for the one step that takes a signal in
`pselect()`: the reaper comes back there again and again, and a pending signal is
delivered. `Axi64` lets the channel that is a buffer behind catch up.

## Disagreements with the repository's own words

Checked, as runs that TLC must find violated:

- `capture_race`: "call ONLY inside mutex" (`acq400_lists.c:34`). `getFull()`
  tests `REFILLS` outside `list_mutex`, the emergency drain of `ai_data_loop()`
  empties it, and `__getFull()` returns the list head as a buffer.
- `awg_repeats`: "run one-shot more than once" (`acq400_structs.h:509`). The last
  push of the first cycle sets no event and the first of the next waits for one.

Met while modelling and not runs of their own; the models take these steps and the
properties are worded around them:

- a failed start leaves its work task behind (`acq400_drv.c:617`);
- `buffers_dropped` counts every buffer handed back (`acq400_drv.c:835`);
- a read of hb0 during a publication may return a torn pair (`acq400_drv.c:781`);
- `cycles` counts each buffer that completes after the last push
  (`xo_workers.c:300`);
- the user and the rearm thread may both start a loop (`acq400_drv.c:1600`),
  and a rearm may restart a waveform after the file was opened for writing
  (`acq400_drv.c:1397`);
- two opens of the stream DAC may both succeed (`acq400_ui.c:1825`), as may two
  opens for reading of a White Rabbit source (`acq400_wrdrv.c:412`);
- `store_playloop_length()` returns an uninitialised `rc` when a longer waveform
  is appended (`xo_sysfs.c:92`);
- each start of a capture requests `DMACHAN_MEMCPY` again and never releases it
  (`acq400_core.c:267`);
- a pulse per second and a stamp pending together are both acknowledged by the
  handler that runs first, against "time of event, recorded by ISR"
  (`acq400_structs.h:405`): `wr` has `pps` with sources whose handler records
  what it acknowledges;
- an event of White Rabbit hardware that comes after the handler has read the stamp
  register is acknowledged by the write-back (`acq400_wrdrv.c:199`), with no record and no
  wake-up, against the same words;
- stream DAC: ++ and -- of `dma_callback_done` may overlap (`dma_shims.c:58`,
  `xo_workers.c:168`); with the increment lost the worker waits without a timeout and without
  a look at kthread_should_stop() (`xo_workers.c:476`), and release() with it; with
  the decrement lost the drain ends before the transfers do;
- the DMAC's events are not cleared when channels are terminated (`acq400_drv.c:2099`); if
  one stays latched, the second channel of the next capture does not wait for the first;
- a byte of software embedded words is put in a full ring after a timeout
  (`acq400_sewfifo.c:135`), and an interrupted write sends its bytes again (133);
- AXI64: the dual loop sleeps `axi64_dual_poison_udelay` once, looks again for its
  statistics only, and hands on both buffers (`acq400_drv.c:1885-1900`): with a delay shorter
  than the skew of the channels one of them is not full, has poison in it, and is an old
  block;
- AXI64: the full buffers put back at exhaustion have no poison and are taken for new
  ones (`acq400_drv.c:1762`); buffers recycled after the loop has quit by itself keep
  their poison; `axi64_tie_off_dmac()` tests `itie > imax`, one too far; the chain
  keeps an existing pool when segments change; the warning "trim" trims nothing;
- AWG: a one-shot that is loaded through the AWG file after a continuous waveform was
  stopped through it inherits its `repeats`, which `xo_workers.c:311` counts up and only
  store_playloop_length() (`xo_sysfs.c:91`) clears, and locks up like a repeated one-shot;
  a rearm thread past its test (`acq400_drv.c:1397`) starts a loop under a user who has
  just stopped or opened the file, and this loop, with a length of 0, waits for buffers
  nobody pushes; it also clears the `cursor` of a shot that was started meanwhile;
- hb0: with `hb0_no_ratelimit` a new file's count of -1 (`acq400_ui.c:535`) differs from
  `hb0_count` 0, and the first read returns a pair that was never published;
- transient: the process switches event0 on again after the driver has switched it off
  at its limit (`acq400_stream.cpp:4474`), so that a second event may replace the first
  before it is read and be reported as a success without its post samples; with a post
  shorter than the search is long (`acq400_stream.cpp:2219`) the search goes on into
  buffers the shot has not filled, and finds an earlier shot's signature; winding back two buffers goes further than
  the comment at 3908 says (3928); `post_fits` does not count the signature (3745); a
  signature that ends a buffer makes `demux()` read a word past it (611); where the data
  set runs over the end of the ring, `finish` leaves the signature out (4107, 4118), and with
  one of 2 or 4 samples may lie in the buffer before the last sample's; the stride of the
  client that makes one sample of a buffer is rounded down (934), and more samples are added
  than the shift is for unless `over` divides their number; an event file that is read after
  the capture has stopped makes findEvent() index `the_buffers` with -1 (2202);
- processes: a SIGTERM between two waits of the reaper only sets a flag (1559); a main
  that leaves without close() leaves its holders (2102);
- multi-event: settings that are refused change the wait (4922); with `post_buffers()`
  + 1 of `nbuffers` or more it never ends; three fields leave `maxfiles` unset;
- wrtd: `add()` does not carry at exactly a second and `_adjust_ts()` not at all
  (`wrtd_TS.h:77`); `diff()` is unsigned, so that "missed ts" cannot be reported;
  `ntx` is counted twice; `next_second` tests the ticks' mask; an absolute time in the
  present second is polled for ever (`wrtd.cpp:373`); a message that is late or comes
  twice fires eight seconds later (399).

Hazards of these that no property covers are left out of `PROJECT.json`: two opens
that both succeed (`acq400_wrdrv.c:412`, `acq400_ui.c:1825`), an event of the DMAC left
set by a waveform of one or two buffers (`xo_workers.c:244`), a start of a second loop
(`acq400_drv.c:1600`), and the two of
`acq400_stream.cpp` at 3928 and 4840.

## Proofs

The theorems hold for every value of the constants, from the named assumptions about
them: `NBuffersAssumption` (there is a buffer), `CaptureAssumption`, `WrAssumption`,
`AwgAssumption`, `AxiAssumption` and `TransientConstants` (types of the parameters),
`BufferQueueAssumption` (the lengths of queues are powers of two, without which
`(head+1)&(bq_len-1)` is no ring; the byte rings likewise), `StreamDacAssumption` (an even
backlog, which a power of two is). Some theorems need more, which is a hypothesis in
their statement and holds in the run that checks the property:

- `OneShotOnce` (AWG): no one-shot runs with repeats to do, unless something has gone
  wrong before. It is about states, not constants, because a one-shot may inherit the
  count of a continuous waveform (see above). `AwgOneShotsPlay` is without it, where only
  one-shots are played and no repeats are set.
- `nbuffers > 1` (order of AXI64). That the delay of the dual loop outlasts the skew of
  the channels (`outlasts`) is part of `BlocksWhole` and of `KeepsPlace` themselves.
- `hb0_no_ratelimit = 0` (pairs of hb0): the rate limit is on, as it is by default; that
  the pair itself is consecutive needs no such thing.
- `ShotTimely` (transient shot): one event a shot, which event0 at its limit of one is
  meant to give; a process that is at most two buffers behind, the number streamCore()
  runs over by; a search that reaches back as far as the interrupt and the process may be
  late, and no further forward than the shot has got; and a ring that holds pre, post and
  all that may be late. The driver and the program check none of these.
- `OneReader` (White Rabbit stamps): two processes that read one source take each
  other's stamps.
- `Names` (processes): a site is not called "main" or "live".
- `OneClient` of the capture: one process, whose open() waits for the data loop. With
  two, or an open() that gives up, `empty_lists()` takes the buffers of a capture
  that runs; there only conservation holds (`capture_clients`).
- `OneClient` of the stream DAC: the test of `bq_clients` and `bqw_init()` are two
  steps; two opens may both succeed and have all the buffers each.

| module | theorem | states |
|---|---|---|
| `ContinuousCaptureProofs` | `CaptureConservesBuffers`, `CaptureTypeOK` | `BuffersConserved`, `TypeOK` |
| the same, one client | `TransfersInFlight`, `OpenDataStable`, `NothingIsLeft`, `CaptureCounts` | `DmaTargetsInFlight`, `OpenBuffersStable`, `ClosedIsQuiet`, `CountersBalance` |
| | `CaptureImplementsStream` | `ImplementsStream`, the refinement of `BlockStream` |
| `BufferQueueProofs` | `EveryBlockOnce`, `QueueNamesDiffer`, `GoesOnNewer` | `ExactlyOnceInOrder`, `QueuedBuffersDiffer`, `NewerAfterOverrun` |
| | `Hb0PairConsecutive`; `Hb0PairsConsecutive`, rate limited | `PublishedConsecutive`; `PairsConsecutive` |
| | `RingsAlwaysDeliver` | `RingsDeliver`, of `SewFifo` and `AwgSegments` |
| `WrDriverProofs` | `AllEventsAccounted`; `StampsGoForward`, one reader | `EventsAccounted`; `StampsAdvance` |
| `Axi64Proofs` | `AxiConserves`, `NoPoisonDelivered` | `BuffersConserved`, `BlocksWhole` |
| | `AxiStreamImplemented`, two buffers or more | `AxiImplementsStream`, the refinement of `BlockStream` |
| `AwgPlayloopProofs`, `OneShotOnce` | `AwgInvariant` | the invariant itself |
| | `AwgPingPongRuns`, `AwgShotPlaysOut`, `AwgPlayedInOrder` | `PingPongRuns`, `ShotPlaysOut`, `PlayedInOrder` |
| the same, one-shots only | `AwgOneShotsPlay` | all three |
| `StreamProcessesProofs` | `SitesStayHeld` | `SitesHeld` of `StreamProcesses` |
| the same, `ShotTimely` | `ShotsComplete` | `DataSetComplete` of `Transient` |
| `StreamDacProofs`, one client | `StreamInvariant` | the invariant itself |
| | `StreamOnePlace`, `StreamInTurn`, `StreamFirstWrite`, `StreamPlayedInOrder` | `OnePlace`, `InTurn`, `FirstWriteFits`, `PlayedInOrder` |

None of these properties is inductive. What each rests on:

**Lists.** A step on lists whose members need not be buffers says nothing, so the
invariant is `ListsInv`, conservation with the types of the lists. Every operation
moves the head of a list to the tail of another (`MoveOne`) or a whole list
(`MoveList`), which are stated for any four lists with states and rest on
facts about `Head`, `Tail`, `Append` and `\o` in terms of membership (`On`) and
repetition. `NextMovesLists` shows that every step of the capture is one of the nine list
operations or leaves the lists alone. So conservation rests on the moves being atomic,
which is what `list_mutex` is for, and on nothing the threads do between them: it holds
through failed starts and overlapping captures, up to undefined behaviour. `TypeOK` is
proved by parts, one step per action that touches the part; that a channel or the loop
holds a host buffer needs `ListsInv`.

**Capture.** That `putFull()` may take the head of `INFLIGHT` is a fact about order: the
list holds the buffers of the two channels in the order of their transfers (`FlightInv`),
because the events let the channels transfer in turn (`TurnsInv`), and nobody else
touches it, because where the client is determines whether the loop runs (`PhaseInv`) and
the lists are empty between captures (`QuietInv`). With this every step of the capture
maps to a step of `BlockStream` or a stutter; that what is delivered is newer than what
was is `BlocksInv`: the blocks of what was delivered, of `REFILLS` and of the completed
transfers increase in this order. `CaptureImplementsStream` has restarts in it but goes as
far as the first capture that is primed with an event left latched (`stale`): there the second
channel may transfer first, the blocks of the two are the other way round, and
what remains is what `TransfersInFlight`, `OpenDataStable`, `NothingIsLeft` and
`CaptureCounts` say, which hold with such events too. The counters are a sum over the lists, kept by each
list operation.

**Queue without a lock.** `ClientInv` says of the queue of one client that its cells are
a window of consecutive blocks that ends at the last one put in it, where notifier
(`Stage`) and reader are between two of their accesses, and what each may count on: the
notifier on a free cell, the reader on a full one that nobody overwrites. Both only
ever make the other's condition truer, except for the reset; a client that was reset
inside `BQ_get_st()` is `torn`, and nothing is said of it until it has closed.
`RingArithmetic` has the remainders; `NearDiffer` turns different blocks into different
buffers.

**hb0.** `hbm_m1` is the block before the one that is published (`PairInv`), so that the
pair is consecutive whatever the rate limit lets go by. A reader compares counts and then
copies two numbers; what makes a read newer than the one before is that a count the reader
has not seen means a pair that is complete and later than its own (`Hb0ClientInv`). While
a publication is under way the last complete pair is the one before (`Complete`).

**Rings of bytes and of segments.** A ring is a window (`Window`) of what was written, so
that what was received and what is in the ring, put one after the other, are what was
written. The kthread of the sew FIFO counts bytes before it takes them, and nobody else
takes any. Of the segments, those that wait are valid (`Waiting`), the segment the
rearm thread has in hand is still the head of its ring, and the room that write() found
before it puts its bytes is still there (`SegRingInv`): until a clear or a change of
awg_max_seg in between, for which `raced` and `spoilt` stand.

**Acknowledgement.** A handler's `todo` and `done` partition the status bits it read,
which stay set until it writes them back (`HandlerInv`). So an event of a source in
`done` whose bit is set is lost with that write-back, and the theorem says that this is the only
window in which an acknowledgement loses one. The hypothesis that no handler
has found a bit of the other one (`shared`) is part of `EventsAccounted`, and a
disagreement listed above.

**Poison.** A word that is poison has its datum in the stash (`StashInv`); what the loop
waits for is what is in flight (`FlightInv`); only buffers of the ring are ever poisoned,
and once a capture runs the ring has them all, for one channel or two (`RingInv`, which
needs that `sort_empties()` of every buffer is the identity, `SortedOrder`). From
these, nothing on `REFILLS` or `OPENS` is poison (`CleanInv`): with one channel however
late the loop looks, with two while the delay outlasts their skew, which is all the
timing that is assumed. Without it there is poison on `REFILLS`, and what is left is that a loop that
was told to stop leaves none in memory. That blocks come in order is harder, since the loop never sees the order in which
the DMAC fills the ring: `OPENS`, `REFILLS`, `INFLIGHT` and `EMPTIES`, one after the other,
are the ring from some buffer on, the i-th of them is poisoned exactly as long as block
first + i has not come and holds that block afterwards, and each channel is at the buffer
of its next block (`FollowInv`). It starts so (`StartInv`), the two channels stay in step
(`PaceInv`), and so the blocks on `REFILLS` rise (`RisingInv`) and every step is one of
`BlockStream` or a stutter, until the loop has put full buffers back.

**Processes.** A holder is only told to end together with main (`TermInv`), so that a
main that has not been told finds its holders reading: the state of a site in the
driver is that of its one holder (`DeviceInv`), as long as no earlier main left without
close() (`left`).

**Shot.** `LagInv` has, for each step of the process, how many buffers it may be behind,
which while it waits for the event file is more than when it selects; `CountInv` what apre,
apost and the buffers run over say of the buffers streamed. There is one event, after pre,
and it goes from the interrupt to the driver's count to the process (`EventInv`); the process notices it
before it has streamed the event's buffer, and the buffer it is told is no earlier than the
event and at most the lag later (`ShotSeenInv`). A buffer that the shot has filled and has
not come round to holds its own data only (`CleanInv`). So when the process has stopped,
nothing that the search looks at before it comes to the event's buffer has another shot's
signature (`SearchFinds`, by the least index with a hit), the ring has not come round to
pre (`EventKept`), and the post samples are among what was streamed, since the count of
post starts no more than two buffers before the event and runs over by three
(`ShotReports`).

**AWG.** A transfer that was pushed is waiting, called back or counted, and nothing else is
counted (`AccountInv`). Each channel has one at most; the one that comes next finds its
event set and the other does not, or nothing more will be pushed (`TurnInv`); a waveform of
one buffer has one transfer at all. `CycleInv` says how far the waveform has been pushed, in
its first cycle and in later ones, by the counts that the code decides by, and `EndInv`
that a shot that is not stopped leaves when all is pushed; that the mode and the length do
not change under it, but for a stop, is `UserInv`. With them `OrderInv` relates the buffer
pushed last, those on their way and the one played last. All of it holds until a mishap,
which is never forgotten (`MishapStays`).

**Stream DAC.** What holds whatever becomes of the count: where the worker and the client
are allow each other (`CallsInv`); where the loop is tells how many transfers it has still to
count in (`LoopInv`); the lists of the application, the empties and the refills share no buffer,
and together have all of them but the two being played (`PlacesInv`). Until a stream is
over before its transfers are (`left`), which `dma_sync_wait()` prevents as long as it
does not give up, the channels have one transfer each at most and the one event that can be
set is that which the next transfer waits for (`TurnInv`), a worker that has gone has left
nothing (`RestInv`), no buffer in a channel is outside (`Held`), and the refills are
the end of what was written and the transfers what comes before it (`OrderInv`). And while no
update was lost, every transfer is pending, to be called back, counted or counted in
(`CountInv`): then the one callback counted is of the channel whose turn it is, and a stream
is never over too early. That the first write finds room is arithmetic, and the reason
why backlog is even: before the worker runs, buffers go round in pairs. A last push after a
stall may repeat a buffer that is still in flight; its event, which is not set, tells it apart.

Only model-checked:

- all liveness (`ReleaseCompletes`, `ReadReturns`, `ClientsWoken`, `WaiterWakes`,
  `StopsReturn`, `ShotEnds`, `EndsTogether`, `FullHandedOn`): the prover does no
  fairness and no ENABLED;
- what is computed by recursion or by folds (`DataSetMoved`, `ChannelsDemuxed`,
  `StreamsReduced`), which takes induction over data;
- `MultiEvent` and `Wrtd` (`EventsWhole`, `FiresOnTime`, `AbsoluteKept`), which share the
  run and the modules of these;
- a transient shot with more than one event, for which `DataSetComplete` is false;
- the capture with more than one client, beyond conservation and types.

## Plan

Every safety property of a run that is not computed by recursion is proved. What could
come next: `AbsoluteKept` of `Wrtd` and `EventsWhole` of `MultiEvent`, in a sum of their own;
the capture with two clients up to the point where one takes the other's buffers; `StreamDac`
and `AwgPlayloop` on the same channels; reserved buffers as two more lists.

## Not modelled

The repository is some 74000 lines of C and C++ and the map stands for about 5300
of them, most of the code in which two parties can meet. The rest has little
behaviour for a state machine to show:

- vendored drivers: PL330 and dmaengine (of which the two-channel event protocol is
  modelled where it is used), Xilinx DMA and device configuration, dmatest;
- knobs: the sysfs files of the driver and of each module (some 10000 lines) read or
  write a field of one register each; the ones that drive a protocol (playloop_length,
  playloop_repeats, awg_max_seg) are modelled;
- the initialisation of modules, converters and clock chips: register and SPI
  sequences at probe, without concurrency or failure handling;
- memory maps, register windows, debugfs and procfs, which only read;
- command line tools: knob servers, AWG composition, file checkers and filters over
  pipes, one-socket servers;
- calibration tables, start-up scripts, packaging.

Left out though they have state: the reserved and stashed buffers of the distributor
(`reserve()`, `replace_all()`, which sorts `EMPTIES` outside the mutex), the
frontside FIFO of output modules without a distributor, the AXI one-shot, RTM-T
burst sizes, the pool of DMA channels beyond a refusal, the FIFO interrupts, and in
`acq400_stream` the null, spy, subrate-to-FIFO, disk and shared memory streams.
Return codes, logging and timing figures are left out everywhere. `PROJECT.json`
lists each of these with its sources.
