-------------------------------- MODULE Axi64 --------------------------------
(***************************************************************************)
(* AXI64 capture: the AXI DMA engine walks a ring of descriptors over the  *)
(* host buffers by itself and waits for nobody, and the kthread            *)
(* axi64_data_loop() (one channel) or axi64_dual_data_loop() (two channels *)
(* that fill alternate buffers) follows it.  The loop learns that a buffer *)
(* is full from the two poison words it left at its end having been        *)
(* overwritten.  acq400_drv.c, acq400_axi_chain.c, acq400_xilinx_axidma.c. *)
(*                                                                         *)
(* The module parameters have their default values: AXI_DMA_HAS_CATCHUP,   *)
(* no one-shot, no loopback index, quit_on_buffer_exhaustion off.  A host  *)
(* buffer is two values: body[b], the block that fills it, and word[b],    *)
(* the block its poison words belong to, or POISON.  One application opens *)
(* the device, reads and closes it; races of several are the subject of    *)
(* ContinuousCapture.                                                      *)
(***************************************************************************)
EXTENDS HostBuffers, FiniteSets

CONSTANTS OPEN_BACKLOG,         \* module parameter
          Margins,              \* how far ahead the DMAC finds poison: KeepsUp
          Delays,               \* does the delay outlast the skew: FALSE, TRUE
          MaxBlocks,            \* bound: blocks of each channel
          MaxOpens              \* bound: opens of the device

ASSUME AxiAssumption ==
  /\ OPEN_BACKLOG \in Nat /\ Margins \subseteq Nat \ {0} /\ Delays \subseteq BOOLEAN
  /\ MaxBlocks \in Nat /\ MaxOpens \in Nat

VARIABLES
  nchan,                        \* IS_AXI64_DUALCHAN(adev): 2, else 1
  margin,                       \* timing of DMAC and loop, a member of Margins
  outlasts,                     \* does axi64_dual_poison_udelay outlast the time
                                \* one channel is behind the other?  With one
                                \* channel there is none to wait for: TRUE
  word, body, stash,            \* the buffers and hbm->poison_data
  ring,                         \* each channel: the buffers of its descriptors
  pos,                          \* each channel: its descriptor, 0: terminated
  sent,                         \* each channel: blocks transferred
  flow,                         \* is the aggregator enabled?
  lpc, hbm, todo,               \* the loop: hbm0, hbm1 and buffers yet to move
  task_active, should_stop,
  cpc, opens, delivered         \* the application

mem == <<word, body, stash>>
dmac == <<ring, pos, sent>>
loop == <<lpc, hbm, todo, task_active>>
app == <<cpc, opens, delivered, flow, should_stop>>
vars == <<lists, nchan, margin, outlasts, mem, dmac, loop, app>>

POISON == -1
Chan == 0 .. nchan - 1

Init ==
  /\ ListsInit
  /\ nchan \in 1 .. 2 /\ margin \in Margins
  /\ outlasts \in IF nchan = 1 THEN {TRUE} ELSE Delays
  /\ word = [b \in HBM |-> 0] /\ body = word /\ stash = word
  /\ ring = [c \in Chan |-> << >>] /\ pos = [c \in Chan |-> 0]
  /\ sent = [c \in Chan |-> 0]
  /\ lpc = "none" /\ hbm = << >> /\ todo = 0
  /\ task_active = FALSE /\ should_stop = FALSE /\ flow = FALSE
  /\ cpc = "closed" /\ opens = 0 /\ delivered = 0

----------------------------------------------------------------------------
(* Poison.                                                                 *)

poison_overwritten(b) == word[b] # POISON

\* poison_one_buffer() of the buffers of B: the words are stashed, unless
\* they are poison already, and overwritten.
poison(B) ==
  /\ word' = [b \in HBM |-> IF b \in B THEN POISON ELSE word[b]]
  /\ stash' = [b \in HBM |-> IF b \in B /\ word[b] # POISON THEN word[b] ELSE stash[b]]
  /\ UNCHANGED body

\* Mutated form of clear_poison: the words of every buffer are put back.
clear_poison_always(B) ==
  /\ word' = [b \in HBM |-> IF b \in B THEN stash[b] ELSE word[b]]
  /\ UNCHANGED <<body, stash>>

\* clear_poison_from_buffer(): only what the DMAC did not overwrite.
clear_poison(B) ==
  /\ word' = [b \in HBM |-> IF b \in B /\ ~poison_overwritten(b) THEN stash[b] ELSE word[b]]
  /\ UNCHANGED <<body, stash>>

----------------------------------------------------------------------------
(* The DMAC.                                                               *)

\* init_axi64_hbm1(), init_axi64_hbm2() and the chain that
\* init_descriptor_cache_nonseg() makes of them: the channels take the
\* buffers in turn, in index order, and the last descriptor is tied to the
\* first.
ChainOf(c) == [i \in 1 .. nbuffers \div nchan |-> nchan * (i - 1) + c]

\* The buffer of channel d that is k after the one channel c is at.
Slot(c, d, k) == ring[d][((pos[c] + k - 1) % Len(ring[d])) + 1]

\* The assumption on timing under which the loop can work at all: the loop
\* and the application are less than a ring behind, so that the buffer the
\* DMAC writes, and the margin - 1 after it, are poisoned.
KeepsUp(c) ==
  /\ ~poison_overwritten(Slot(c, c, 0))
  /\ \A d \in Chan, k \in 1 .. margin - 1 : ~poison_overwritten(Slot(c, d, k))

\* The channels share the samples of one clock: neither is a buffer ahead.
Behind(c) == \E d \in Chan : sent[c] < sent[d]
InStep(c) == \A d \in Chan : sent[c] <= sent[d]

\* A descriptor completes: the buffer is full, poison words included, and
\* the DMAC goes on to the next descriptor.  The interrupt only wakes the
\* loop, which also polls every AXI_BUFFER_CHECK_TICKS.
Transfer(c) ==
  /\ flow /\ pos[c] # 0 /\ sent[c] < MaxBlocks
  /\ KeepsUp(c) /\ InStep(c)
  /\ LET blk == nchan * sent[c] + c + 1
     IN /\ word' = [word EXCEPT ![Slot(c, c, 0)] = blk]
        /\ body' = [body EXCEPT ![Slot(c, c, 0)] = blk]
  /\ sent' = [sent EXCEPT ![c] = @ + 1]
  /\ pos' = [pos EXCEPT ![c] = (@ % Len(ring[c])) + 1]
  /\ UNCHANGED <<lists, nchan, margin, outlasts, stash, ring, loop, app>>

----------------------------------------------------------------------------
(* The loop.                                                               *)

At(l) == lpc = l

\* check_fifo_statuses(), once for every group that was handed on.
CheckFifo(next) == lpc' \in {next, "fail"}

\* axi64_load_dmac(): the descriptors are made, and the DMAC is reset, given
\* the first of them and started.
LoadDmac ==
  /\ At("load")
  /\ ring' = [c \in Chan |-> ChainOf(c)]
  /\ pos' = [c \in Chan |-> 1]
  /\ LET most == CHOOSE n \in {sent[c] : c \in Chan} : \A c \in Chan : sent[c] <= n
     IN sent' = [c \in Chan |-> most]
  /\ lpc' = "poison"
  /\ UNCHANGED <<lists, nchan, margin, outlasts, mem, hbm, todo, task_active, app>>

\* poison_all_buffers() visits the descriptors.  check_all_buffers_are_poisoned()
\* looks at EMPTIES.
PoisonAll ==
  /\ At("poison")
  /\ poison({ring[c][i] : c \in Chan, i \in 1 .. nbuffers \div nchan})
  /\ lpc' = IF should_stop \/ \E i \in 1 .. Len(EMPTIES) : word'[EMPTIES[i]] # POISON
            THEN "quit" ELSE "get"
  /\ hbm' = << >> /\ todo' = nchan
  /\ UNCHANGED <<lists, nchan, margin, outlasts, dmac, task_active, app>>

\* getEmpty(), once or twice: the buffers the loop will wait for.
GetEmpty ==
  /\ At("get") /\ todo > 0
  /\ getEmpty
  /\ hbm' = Append(hbm, Head(EMPTIES))
  /\ todo' = todo - 1
  /\ UNCHANGED <<nchan, margin, outlasts, mem, dmac, lpc, task_active, app>>

\* The first time, the loop then goes to wait.  In the catch up loop it
\* hands on a group that is full already.
GotEmpties ==
  /\ At("get") /\ todo = 0
  /\ task_active' = TRUE
  /\ IF task_active /\ \A i \in 1 .. Len(hbm) : poison_overwritten(hbm[i])
     THEN lpc' = "put" /\ todo' = nchan
     ELSE /\ IF task_active THEN CheckFifo("wait") ELSE lpc' = "wait"
          /\ UNCHANGED todo
  /\ UNCHANGED <<lists, nchan, margin, outlasts, mem, dmac, hbm, app>>

\* One channel: no buffer is left.
NoEmpty ==
  /\ At("get") /\ todo > 0 /\ nchan = 1 /\ EMPTIES = << >>
  /\ CheckFifo("exhausted")
  /\ UNCHANGED <<lists, nchan, margin, outlasts, mem, dmac, hbm, todo, task_active, app>>

\* wait_event_interruptible_timeout(DMA_READY, dma_done()).  With two
\* channels one full buffer ends the wait, and after one delay of
\* axi64_dual_poison_udelay, which may be 0, both are handed on whatever is
\* found of the other: what is read after the delay is for statistics.  Only when
\* the delay outlasts the skew of the channels are both of them full.
DmaDone ==
  /\ At("wait")
  /\ \E i \in 1 .. Len(hbm) : poison_overwritten(hbm[i])
  /\ outlasts => \A i \in 1 .. Len(hbm) : On(INFLIGHT, hbm[i]) => poison_overwritten(hbm[i])
  /\ lpc' = "put" /\ todo' = nchan
  /\ UNCHANGED <<lists, nchan, margin, outlasts, mem, dmac, hbm, task_active, app>>

\* kthread_should_stop(), at the head of the loop and in the wait.
ToldToStop ==
  /\ At("wait") /\ should_stop
  /\ lpc' = "quit"
  /\ UNCHANGED <<lists, nchan, margin, outlasts, mem, dmac, hbm, todo, task_active, app>>

\* putFull(), once or twice; it complains when nothing is in flight.
PutFull ==
  /\ At("put") /\ todo > 0
  /\ IF INFLIGHT # << >> THEN putFull ELSE UNCHANGED lists
  /\ todo' = todo - 1
  /\ UNCHANGED <<nchan, margin, outlasts, mem, dmac, lpc, hbm, task_active, app>>

\* Then the catch up loop asks for the next group.  With two channels it
\* first asks whether there are two empties, and if not, the loop goes on to
\* wait for the group it has just handed on.
NextGroup ==
  /\ At("put") /\ todo = 0
  /\ IF nchan = 2 /\ Len(EMPTIES) < 2
     THEN CheckFifo("wait") /\ UNCHANGED <<hbm, todo>>
     ELSE lpc' = "get" /\ hbm' = << >> /\ todo' = nchan
  /\ UNCHANGED <<lists, nchan, margin, outlasts, mem, dmac, task_active, app>>

\* Buffer exhaustion, one channel: the full queue is discarded ...
DiscardFull ==
  /\ At("exhausted")
  /\ moveRefillsToEmpty
  /\ lpc' = "again"
  /\ UNCHANGED <<nchan, margin, outlasts, mem, dmac, hbm, todo, task_active, app>>

\* Mutated form of HoldAgain: the result of getEmpty() is not kept.
HoldAgain_lost ==
  /\ At("again")
  /\ IF EMPTIES = << >>
     THEN lpc' = "fail" /\ UNCHANGED <<lists, mem>>
     ELSE /\ getEmpty
          /\ poison({Head(EMPTIES)})
          /\ lpc' = "wait"
  /\ UNCHANGED <<nchan, margin, outlasts, dmac, hbm, todo, task_active, app>>

\* ... and the loop goes on with the first buffer of it, poisoned again; the
\* others keep what they hold.  "STILL NO EMPTIES" ends the loop.
HoldAgain ==
  /\ At("again")
  /\ IF EMPTIES = << >>
     THEN lpc' = "fail" /\ UNCHANGED <<lists, mem, hbm>>
     ELSE /\ getEmpty
          /\ poison({Head(EMPTIES)})
          /\ hbm' = <<Head(EMPTIES)>>
          /\ lpc' = "wait"
  /\ UNCHANGED <<nchan, margin, outlasts, dmac, todo, task_active, app>>

\* quit: axi64_terminate(), clear_poison_all_buffers(); told to stop, or by
\* itself.  Buffers that are recycled after that are poisoned none the less.
Quit ==
  /\ At("quit") \/ At("fail")
  /\ pos' = [c \in Chan |-> 0]
  /\ clear_poison({ring[c][i] : c \in Chan, i \in 1 .. nbuffers \div nchan})
  /\ task_active' = FALSE
  /\ lpc' = IF At("quit") THEN "exited" ELSE "failed"
  /\ UNCHANGED <<lists, nchan, margin, outlasts, ring, sent, hbm, todo, app>>

----------------------------------------------------------------------------
(* The application.                                                        *)

\* Mutated form of OpenDevice: the lists are emptied and not sorted.
OpenDevice_unsorted ==
  /\ cpc = "closed" /\ opens < MaxOpens
  /\ EMPTIES' = EMPTIES \o OPENS \o REFILLS \o INFLIGHT
  /\ OPENS' = << >> /\ REFILLS' = << >> /\ INFLIGHT' = << >>
  /\ bstate' = [b \in HBM |-> "BS_EMPTY"]
  /\ opens' = opens + 1
  /\ lpc' = "load" /\ should_stop' = FALSE
  /\ cpc' = "starting"
  /\ UNCHANGED <<nchan, margin, outlasts, mem, dmac, hbm, todo, task_active, delivered, flow>>

\* sort_empties(): by index, which is the order of the ring.
Sorted(q) ==
  LET rank(b) == Cardinality({j \in DOMAIN q : q[j] < b})
  IN  [i \in DOMAIN q |-> CHOOSE b \in {q[j] : j \in DOMAIN q} : rank(b) = i - 1]

\* open(): empty_lists(), which sorts EMPTIES into ring order, and
\* kthread_run() of the loop.
OpenDevice ==
  /\ cpc = "closed" /\ opens < MaxOpens
  /\ EMPTIES' = Sorted(EMPTIES \o OPENS \o REFILLS \o INFLIGHT)
  /\ OPENS' = << >> /\ REFILLS' = << >> /\ INFLIGHT' = << >>
  /\ bstate' = [b \in HBM |-> "BS_EMPTY"]
  /\ opens' = opens + 1
  /\ lpc' = "load" /\ should_stop' = FALSE
  /\ cpc' = "starting"
  /\ UNCHANGED <<nchan, margin, outlasts, mem, dmac, hbm, todo, task_active, delivered, flow>>

\* open() polls for task_active and only then enables the aggregator: no
\* data flows before the buffers are poisoned.
EnableAggregator ==
  /\ cpc = "starting" /\ task_active
  /\ flow' = TRUE /\ cpc' = "open"
  /\ UNCHANGED <<lists, nchan, margin, outlasts, mem, dmac, loop, opens, delivered, should_stop>>

\* read(): the backlog is recycled, each buffer poisoned by onPutEmpty() in
\* the critical section that puts it on EMPTIES ...
PutEmpty ==
  /\ cpc = "open" /\ Len(OPENS) > OPEN_BACKLOG
  /\ putEmpty
  /\ poison({Head(OPENS)})
  /\ UNCHANGED <<nchan, margin, outlasts, dmac, loop, app>>

\* ... and getFull().
GetFull ==
  /\ cpc = "open" /\ Len(OPENS) <= OPEN_BACKLOG
  /\ getFull
  /\ delivered' = body[Head(REFILLS)]
  /\ UNCHANGED <<nchan, margin, outlasts, mem, dmac, loop, cpc, opens, flow, should_stop>>

\* release(): the aggregator is disabled, and then kthread_stop(), which waits
\* for the loop to go.
Release ==
  /\ cpc = "open"
  /\ flow' = FALSE
  /\ should_stop' = TRUE /\ cpc' = "stopping"
  /\ UNCHANGED <<lists, nchan, margin, outlasts, mem, dmac, loop, opens, delivered>>

Stopped ==
  /\ cpc = "stopping" /\ lpc \in {"exited", "failed"}
  /\ EMPTIES' = EMPTIES \o OPENS \o REFILLS \o INFLIGHT
  /\ OPENS' = << >> /\ REFILLS' = << >> /\ INFLIGHT' = << >>
  /\ bstate' = [b \in HBM |-> "BS_EMPTY"]
  /\ cpc' = "closed"
  /\ UNCHANGED <<nchan, margin, outlasts, mem, dmac, loop, opens, delivered, flow, should_stop>>

----------------------------------------------------------------------------

LoopStep ==
  \/ LoadDmac \/ PoisonAll \/ GetEmpty \/ GotEmpties \/ NoEmpty \/ DmaDone
  \/ ToldToStop \/ PutFull \/ NextGroup \/ DiscardFull \/ HoldAgain
  \/ Quit

AppStep == OpenDevice \/ EnableAggregator \/ PutEmpty \/ GetFull \/ Release \/ Stopped

Next == LoopStep \/ AppStep \/ \E c \in Chan : Transfer(c)

\* The scheduler runs the kthread, and the channels fill the same number of
\* buffers.  Nothing makes the application read or close, nor a trigger come.
Spec ==
  /\ Init /\ [][Next]_vars
  /\ WF_vars(LoopStep)
  /\ WF_vars(\E c \in Chan : Behind(c) /\ Transfer(c))

----------------------------------------------------------------------------
(* What it is for.                                                         *)

\* The blocks that wait for the application.
Waiting == [i \in 1 .. Len(REFILLS) |-> body[REFILLS[i]]]

\* A single channel that finds no empty buffer discards the full ones without
\* poison (DiscardFull), and the loop takes them for new blocks when it comes
\* round to them: then the order is lost.
NeverExhausted == nchan = 2 \/ margin > 1

\* The loop follows the DMAC round the ring.  That the delay outlasts the skew, so
\* that no buffer is handed on before it is full, is the user's to see to: the
\* parameter axi64_dual_poison_udelay is not derived from the sample rate.
KeepsPlace == NeverExhausted /\ outlasts

\* The blocks an application reads are the stream of BlockStream: in order,
\* each once, lost at the head only, across stops and restarts of the
\* capture.  Claimed for a capture that never exhausts its buffers, and of which, with
\* two channels, the delay of the loop outlasts the skew of the channels.
Stream == INSTANCE BlockStream WITH
            Blocks <- 1 .. 2 * MaxBlocks,
            queue <- IF KeepsPlace THEN Waiting ELSE << >>,
            last <- IF KeepsPlace THEN delivered ELSE 0

AxiImplementsStream == Stream!BSSpec

\* Poison never reaches an application, if the delay of the dual loop outlasts
\* the skew of the channels: the words of a buffer that is handed on belong to
\* the block that fills it.  And, whatever the delay, when the loop has gone those of
\* every buffer do, unless it went by itself under an application that reads on.
BlocksWhole ==
  /\ outlasts =>
       /\ \A i \in 1 .. Len(REFILLS) : word[REFILLS[i]] = body[REFILLS[i]]
       /\ \A i \in 1 .. Len(OPENS) : word[OPENS[i]] = body[OPENS[i]]
  /\ lpc = "exited" => word = body

\* A full buffer the loop waits for is handed on, or the capture ends:
\* the loop does not wait for ever, even when buffers ran out or one was handed
\* on before it was full.
FullHandedOn ==
  \A b \in HBM : (On(INFLIGHT, b) /\ poison_overwritten(b)) ~> (~On(INFLIGHT, b) \/ should_stop \/ At("failed"))
=============================================================================
