-------------------------- MODULE AwgPlayloopProofs --------------------------
(***************************************************************************)
(* Proofs about AwgPlayloop, for waveforms of any length, buffers of any   *)
(* size, any modes and numbers of shots: as long as nothing went wrong the *)
(* two channels of xo_data_loop() never lock up, play the buffers in order *)
(* and play all of them.                                                   *)
(***************************************************************************)
EXTENDS AwgPlayloop, TLAPS

----------------------------------------------------------------------------
(* The inductive invariant.                                                *)

\* From Start to Cleanup.
Playing == lpc \in LoopPc \ {"none", "start"}

\* No one-shot runs with repeats to do.  (It would push a buffer after the last,
\* and this buffer waits for an event that the last push does not set.  repeats
\* is there for it; and a continuous waveform that was loaded through the AWG file
\* and rewritten through it leaves its count in repeats.)
OneShotOnce == mishap = "no" /\ Playing /\ ~continuous_at_start => repeats = 0

Transfers == [buf : Nat, wait : BOOLEAN, set : BOOLEAN]

CallerPc == {"idle", "begin", "abort", "lock", "stop", "join", "inactive", "set", "feed",
             "active", "return", "poll", "test"}

LoopTypes ==
  /\ lpc \in LoopPc /\ ic \in 0 .. 1 /\ cursor \in Nat /\ pull_buf \in Nat
  /\ shot_buffer_count \in Nat /\ shot_buffer_count0 \in Nat
  /\ last_push_done \in BOOLEAN /\ continuous_at_start \in BOOLEAN
  /\ dma_buffers_out \in Nat /\ dma_buffers_in \in Nat
  /\ ldone \in Nat /\ wave \in Nat

DmacTypes ==
  /\ chan \in [0 .. 1 -> Seq(Transfers)] /\ event \in [0 .. 1 -> BOOLEAN]
  /\ callbacks \in Nat /\ dma_callback_done \in Nat
  /\ cdone \in Seq(Nat) /\ Len(cdone) <= 1
  /\ played \in Nat \cup {-1}

CallerTypes ==
  /\ length \in Nat /\ oneshot \in AO_MODES /\ repeats \in Nat
  /\ task_active \in BOOLEAN /\ should_stop \in BOOLEAN
  /\ pc \in [Callers -> CallerPc] /\ arg \in [Callers -> Nat]
  /\ file \in {"closed", "opening", "open", "closing"}

AwgTypeOK == LoopTypes /\ DmacTypes /\ CallerTypes

\* The mode and the length of a shot change only in the ways of a stop.
UserInv ==
  /\ task_active <=> Playing
  /\ pc["user"] = "idle" => arg["user"] = 0
  /\ pc["rearm"] = "begin" => arg["rearm"] # 0
  /\ Playing /\ ~continuous_at_start => ~AO_CONTINUOUS
  /\ Playing /\ continuous_at_start /\ ~AO_CONTINUOUS => pc["user"] = "abort"
  /\ Playing /\ length < wave =>
       length = 0 /\ pc["user"] \in {"begin", "abort"} /\ arg["user"] = 0

\* Every transfer that was pushed is counted, called back, or still to be.
Idle(i) == chan[i] = << >>
Pending == Len(chan[0]) + Len(chan[1])

AccountInv ==
  /\ ~Playing \/ lpc = "fifo" =>
       /\ Idle(0) /\ Idle(1)
       /\ callbacks = 0 /\ dma_callback_done = 0 /\ cdone = << >>
  /\ lpc \in {"dec", "ddec"} => ldone >= 1
  /\ lpc \in {"sync", "step"} => ldone = 0
  /\ Playing =>
       dma_buffers_out =
         dma_buffers_in + (((dma_callback_done + callbacks) + Len(cdone)) + Pending)

\* The other channel, whose transfer comes after that of channel ic.
other == 1 - ic

\* Nothing will be pushed any more.
Ended ==
  \/ last_push_done /\ continuous_at_start
  \/ /\ ~AO_CONTINUOUS /\ dma_buffers_out >= shot_buffer_count
     /\ continuous_at_start => repeats = 0

\* A waveform of one buffer: the next push waits until the last was counted.
OneBuffer ==
  /\ dma_buffers_out <= dma_buffers_in + 1
  /\ lpc \in {"sync", "step"} => dma_buffers_out <= dma_buffers_in

\* Others: channel ic is first, and the event that the next transfer waits for is
\* the only one that is set.
PingPong ==
  /\ ~Idle(ic) => (Head(chan[ic]).wait <=> event[ic]) /\ ~event[other]
  /\ ~Idle(other) => Head(chan[other]).wait
  /\ ~Idle(ic) /\ ~Idle(other) => Head(chan[ic]).set
  /\ ~Idle(ic) /\ Idle(other) => Ended
  /\ Idle(ic) /\ ~Idle(other) => event[other] /\ ~event[ic]
  /\ Idle(ic) /\ Idle(other) => (event[ic] /\ ~event[other]) \/ Ended
  /\ \A i \in 0 .. 1 : ~Idle(i) => Head(chan[i]).set \/ Ended

\* Each channel has one transfer at most, and the loop pushes to an idle one.
TurnInv ==
  Playing =>
    /\ \A i \in 0 .. 1 : Len(chan[i]) <= 1
    /\ lpc = "step" => Idle(ic)
    /\ last_push_done => Ended
    /\ wave <= spb => OneBuffer
    /\ wave > spb => PingPong

\* How far the waveform has been pushed: in its first cycle, later ones; a
\* waveform that does not fill a buffer is only pushed once.  (The cursor can be
\* behind: ao_auto_rearm() clears it, in a shot that the user started as well.)
FirstCycle ==
  /\ shot_buffer_count0 >= 1
  /\ shot_buffer_count * spb >= wave /\ (shot_buffer_count - 1) * spb < wave
  /\ shot_buffer_count \in shot_buffer_count0 .. shot_buffer_count0 + 1
  /\ pull_buf = dma_buffers_out /\ dma_buffers_out <= shot_buffer_count
  /\ dma_buffers_out < shot_buffer_count => cursor + 2 * spb <= dma_buffers_out * spb

LaterCycle ==
  /\ shot_buffer_count0 >= 1
  /\ shot_buffer_count > shot_buffer_count0 + 1 \/ wave = spb
  /\ pull_buf \in 1 .. shot_buffer_count0
  /\ shot_buffer_count - dma_buffers_out = shot_buffer_count0 - pull_buf
  /\ dma_buffers_out < shot_buffer_count => cursor + spb <= pull_buf * spb

PartBuffer ==
  shot_buffer_count0 = 0 /\ wave < spb /\ shot_buffer_count <= 1 /\ dma_buffers_out = 1

CycleInv ==
  Playing =>
    /\ shot_buffer_count0 * spb <= wave /\ wave < (shot_buffer_count0 + 1) * spb
    /\ FirstCycle \/ LaterCycle \/ PartBuffer
    /\ last_push_done => dma_buffers_out >= shot_buffer_count

\* The buffer that was pushed last, and the order of those on their way.
LastBuf == IF shot_buffer_count0 = 0 THEN 0 ELSE pull_buf - 1

Follows(a, b) == b = a + 1 \/ (b = 0 /\ a + 1 >= shot_buffer_count0)

OrderInv ==
  Playing =>
    /\ Idle(ic) /\ Idle(other) => played = LastBuf
    /\ ~Idle(ic) /\ Idle(other) =>
         Head(chan[ic]).buf = LastBuf /\ Follows(played, LastBuf)
    /\ Idle(ic) /\ ~Idle(other) =>
         Head(chan[other]).buf = LastBuf /\ Follows(played, LastBuf)
    /\ ~Idle(ic) /\ ~Idle(other) =>
         /\ Head(chan[other]).buf = LastBuf /\ Follows(Head(chan[ic]).buf, LastBuf)
         /\ Follows(played, Head(chan[ic]).buf)

\* A shot that is not stopped ends when its last buffer has been pushed.
AllPushed ==
  /\ LastBuf + 1 >= shot_buffer_count0
  /\ shot_buffer_count <= shot_buffer_count0 + 1 => (LastBuf + 1) * spb >= wave

EndInv ==
  lpc \in {"drain", "ddec", "fifo"} /\ ~should_stop /\ length >= wave => AllPushed

AwgInv ==
  mishap = "no" =>
    AwgTypeOK /\ UserInv /\ AccountInv /\ TurnInv /\ CycleInv /\ OrderInv /\ EndInv

----------------------------------------------------------------------------
(* Steps.                                                                  *)

\* A step in which nothing goes wrong.
Calm == mishap = "no" /\ mishap' = "no"

\* What the callers of xo400_reset_playloop() and the user do.
CallerStep ==
  \/ \E c \in Callers : ResetPlayloop(c)
  \/ Rearm
  \/ \E n \in Lengths, m \in Modes \cup {oneshot} : StoreLength(n, m)
  \/ \E k \in Repeats : StoreRepeats(k)
  \/ AwgOpen
  \/ \E n \in Lengths \ {0} : AwgWrite(n)
  \/ \E m \in Modes : AwgRelease(m)

LEMMA NextParts ==
  Next <=> Loop \/ (\E i \in 0 .. 1 : Transfer(i)) \/ Callback \/ CallerStep
  BY Zenon DEF Next, CallerStep

\* A mishap is never forgotten.
LEMMA MishapStays ==
  ASSUME [Next]_vars, mishap' = "no"
  PROVE  mishap = "no"
  <1>1. CASE UNCHANGED vars
    BY <1>1 DEF vars
  <1>2. CASE Loop
    BY <1>2 DEF Loop, Start, LoopHead, DmaReady, DmaTimeout, Decrement, SyncWait, SyncTimeout, Step,
       StepDown, DrainReady, DrainDone, Cleanup, LoopEnd, TimedOut
  <1>3. CASE (\E i \in 0 .. 1 : Transfer(i)) \/ Callback
    BY <1>3 DEF Transfer, Callback, CallbackRead, CallbackWrite
  <1>4. CASE CallerStep
    <2>1. CASE \E c \in Callers : ResetPlayloop(c)
      BY <2>1 DEF ResetPlayloop, Begin, Abort, Lock, FeederStop, Join, FeederStopped, SetLength,
         FeederStart, Active, Return
    <2>2. CASE ~\E c \in Callers : ResetPlayloop(c)
      BY <1>4, <2>2 DEF CallerStep, Rearm, RearmPoll, RearmTest, StoreLength, StoreRepeats, AwgOpen,
         AwgWrite, AwgRelease, SetMode
    <2>3. QED
      BY <2>1, <2>2
  <1>5. QED
    BY <1>1, <1>2, <1>3, <1>4, NextParts

LEMMA InitInv == Init => AwgInv
  <1> SUFFICES ASSUME Init PROVE AwgTypeOK /\ UserInv /\ AccountInv /\ TurnInv /\ CycleInv /\ OrderInv
                                 /\ EndInv
    BY DEF AwgInv
  <1>1. lpc = "none" /\ ~Playing
    BY DEF Init, Playing
  <1>2. LoopTypes
    BY DEF Init, LoopTypes, LoopPc
  <1>3. DmacTypes
    BY DEF Init, DmacTypes
  <1>4. CallerTypes
    BY DEF Init, CallerTypes, AO_MODES, CallerPc
  <1>5. UserInv
    BY <1>1 DEF Init, UserInv, Callers
  <1>6. AccountInv
    BY <1>1 DEF Init, AccountInv, Idle
  <1>7. TurnInv /\ CycleInv /\ OrderInv /\ EndInv
    BY <1>1 DEF TurnInv, CycleInv, OrderInv, EndInv
  <1>8. QED
    BY <1>2, <1>3, <1>4, <1>5, <1>6, <1>7 DEF AwgTypeOK

----------------------------------------------------------------------------
(* Types.                                                                  *)

\* Whole buffers, by Euclid.
LEMMA Buffering ==
  ASSUME length \in Nat
  PROVE  /\ Whole \in Nat /\ Whole * spb <= length /\ length < Whole * spb + spb
         /\ Buffers \in Nat /\ Buffers = IF Whole * spb < length THEN Whole + 1 ELSE Whole
  <1>1. spb \in Nat /\ spb > 0
    BY AwgAssumption
  <1>2. Whole \in Nat /\ length = spb * Whole + (length % spb) /\ length % spb \in 0 .. spb - 1
    BY <1>1 DEF Whole
  <1>3. spb * Whole = Whole * spb /\ Whole * spb \in Nat
    BY <1>1, <1>2
  <1> DEFINE w == Whole * spb
  <1>4. w \in Nat /\ length = w + (length % spb)
    BY <1>2, <1>3
  <1> HIDE DEF w
  <1>5. w <= length /\ length < w + spb
    BY <1>1, <1>2, <1>4
  <1>6. QED
    BY <1>2, <1>5 DEF w, Buffers

\* What Start does to the loop.
LEMMA StartEffect ==
  ASSUME Start
  PROVE  /\ lpc = "start" /\ lpc' = "head"
         /\ shot_buffer_count0' = Whole /\ shot_buffer_count' = Buffers
         /\ continuous_at_start' \in BOOLEAN /\ (continuous_at_start' <=> AO_CONTINUOUS)
         /\ last_push_done' = FALSE /\ ic' = 0 /\ dma_buffers_in' = 0 /\ cursor' = 0
         /\ task_active' = TRUE /\ chan' = Primed /\ played' = -1 /\ wave' = length
         /\ pull_buf' = (IF Buffers > 1 THEN 2 ELSE 1)
         /\ dma_buffers_out' = (IF Buffers > 1 THEN 2 ELSE 1)
         /\ mishap' = "no" => ~event[0] /\ ~event[1]
         /\ UNCHANGED <<length, oneshot, repeats, should_stop, dma_callback_done, event, callbacks,
                        cdone, ldone, pc, arg>>
  <1>1. /\ lpc = "start" /\ lpc' = "head"
        /\ shot_buffer_count0' = Whole /\ shot_buffer_count' = Buffers
        /\ last_push_done' = FALSE /\ ic' = 0 /\ dma_buffers_in' = 0 /\ cursor' = 0
        /\ task_active' = TRUE /\ chan' = Primed /\ played' = -1 /\ wave' = length
        /\ pull_buf' = (IF Buffers > 1 THEN 2 ELSE 1)
        /\ dma_buffers_out' = (IF Buffers > 1 THEN 2 ELSE 1)
        /\ UNCHANGED <<length, oneshot, repeats, should_stop, dma_callback_done, event, callbacks,
                       cdone, ldone, pc, arg>>
    BY Zenon DEF Start, LoopAt, callers
  <1>2. continuous_at_start' \in BOOLEAN /\ (continuous_at_start' <=> AO_CONTINUOUS)
    BY Zenon DEF Start, AO_CONTINUOUS
  <1>3. mishap' = "no" => ~event[0] /\ ~event[1]
    <2>1. mishap = "no" /\ (event[0] \/ event[1]) => mishap' = "event"
      BY DEF Start
    <2>2. mishap # "no" => mishap' # "no"
      BY DEF Start
    <2>3. QED
      BY <2>1, <2>2
  <1>4. QED
    BY <1>1, <1>2, <1>3

LEMMA LoopTypesStep ==
  ASSUME AwgTypeOK, AccountInv, Calm, Next
  PROVE  LoopTypes'
  <1> USE DEF LoopPc, Calm
  <1>0. spb \in Nat \ {0}
    BY AwgAssumption
  <1>1. LoopTypes /\ length \in Nat /\ dma_callback_done \in Nat
    BY DEF AwgTypeOK, DmacTypes, CallerTypes
  <1>2. CASE Start
    <2>1. Whole \in Nat /\ Buffers \in Nat
      BY <1>1, Buffering
    <2>2. QED
      BY <1>1, <1>2, <2>1, StartEffect DEF LoopTypes
  <1>3. CASE Step
    BY <1>0, <1>1, <1>3 DEF Step, LoopTypes
  <1>4. CASE StepDown
    BY <1>0, <1>1, <1>4 DEF StepDown, LoopTypes, playloop, stats, locals
  <1>5. CASE LoopHead \/ DmaReady \/ SyncWait \/ DrainReady \/ DrainDone \/ Cleanup \/ LoopEnd
    BY <1>1, <1>5 DEF LoopHead, DmaReady, SyncWait, DrainReady, DrainDone, Cleanup, LoopEnd, LoopTypes,
       playloop, stats, locals
  <1>6. CASE DmaTimeout \/ SyncTimeout
    BY <1>6 DEF DmaTimeout, SyncTimeout, TimedOut
  <1>7. CASE Decrement
    BY <1>1, <1>7 DEF Decrement, LoopTypes, playloop
  <1>8. CASE (\E i \in 0 .. 1 : Transfer(i)) \/ Callback
    BY <1>1, <1>8 DEF Transfer, Callback, CallbackRead, CallbackWrite, LoopTypes, playloop, stats, locals
  <1>9. CASE CallerStep
    <2>1. CASE \E c \in Callers : ResetPlayloop(c)
      BY <1>1, <2>1 DEF ResetPlayloop, Begin, Abort, Lock, FeederStop, Join, FeederStopped, SetLength,
         FeederStart, Active, Return, LoopTypes, playloop, stats, locals
    <2>2. CASE ~\E c \in Callers : ResetPlayloop(c)
      BY <1>1, <1>9, <2>2 DEF CallerStep, Rearm, RearmPoll, RearmTest, StoreLength, StoreRepeats, AwgOpen,
         AwgWrite, AwgRelease, LoopTypes, playloop, stats, locals
    <2>3. QED
      BY <2>1, <2>2
  <1>10. QED
    BY <1>2, <1>3, <1>4, <1>5, <1>6, <1>7, <1>8, <1>9, NextParts DEF Loop

LEMMA TransferTypes ==
  ASSUME NEW t \in Transfers
  PROVE  t.buf \in Nat /\ t.wait \in BOOLEAN /\ t.set \in BOOLEAN
  BY DEF Transfers

\* What Start, Step and Transfer do to the channels.
LEMMA PrimedTypes ==
  ASSUME chan \in [0 .. 1 -> Seq(Transfers)]
  PROVE  Primed \in [0 .. 1 -> Seq(Transfers)]
  <1> DEFINE s == [buf |-> 0, wait |-> FALSE, set |-> TRUE]
             t(c) == [buf |-> c, wait |-> c = 1, set |-> TRUE]
  <1>1. s \in Transfers /\ \A c \in 0 .. 1 : t(c) \in Transfers
    BY DEF Transfers
  <1>2. Primed = IF Buffers > 1 THEN [c \in 0 .. 1 |-> Append(chan[c], t(c))]
                 ELSE [chan EXCEPT ![0] = Append(@, s)]
    BY DEF Primed
  <1> HIDE DEF s, t
  <1>3. QED
    BY <1>1, <1>2

LEMMA DmacTypesStep ==
  ASSUME AwgTypeOK, AccountInv, Calm, Next
  PROVE  DmacTypes'
  <1> USE DEF Calm
  <1>1. DmacTypes /\ ic \in 0 .. 1 /\ pull_buf \in Nat
    BY DEF AwgTypeOK, LoopTypes
  <1>2. CASE Start
    <2>1. Primed \in [0 .. 1 -> Seq(Transfers)]
      BY <1>1, PrimedTypes DEF DmacTypes
    <2>2. QED
      BY <1>1, <1>2, <2>1 DEF Start, DmacTypes
  <1>3. CASE Step
    <2> DEFINE ib == IF Again THEN 0 ELSE pull_buf
               count == IF Again THEN shot_buffer_count + shot_buffer_count0 ELSE shot_buffer_count
               last == ~AO_CONTINUOUS /\ dma_buffers_out + 1 >= count
               t == [buf |-> ib, wait |-> TRUE, set |-> ~last]
    <2>1. t \in Transfers
      BY <1>1 DEF Transfers
    <2>2. /\ chan' = [chan EXCEPT ![ic] = Append(@, t)] \/ chan' = chan
          /\ UNCHANGED <<dma_callback_done, event, callbacks, played, cdone>>
      BY <1>3, Zenon DEF Step
    <2> HIDE DEF t
    <2>3. chan[ic] \in Seq(Transfers)
      BY <1>1 DEF DmacTypes
    <2>4. Append(chan[ic], t) \in Seq(Transfers)
      BY <2>1, <2>3
    <2>5. chan' \in [0 .. 1 -> Seq(Transfers)]
      BY <1>1, <2>2, <2>4 DEF DmacTypes
    <2>6. QED
      BY <1>1, <2>2, <2>5 DEF DmacTypes
  <1>4. CASE LoopHead \/ DmaReady \/ SyncWait \/ StepDown \/ DrainReady \/ DrainDone \/ Cleanup \/ LoopEnd
    <2>1. UNCHANGED <<chan, event, callbacks, dma_callback_done, cdone, played>>
      BY <1>4 DEF LoopHead, DmaReady, SyncWait, StepDown, DrainReady, DrainDone, Cleanup, LoopEnd, dmac
    <2>2. QED
      BY <1>1, <2>1 DEF DmacTypes
  <1>5. CASE DmaTimeout \/ SyncTimeout
    BY <1>5 DEF DmaTimeout, SyncTimeout, TimedOut
  <1>6. CASE Decrement
    <2>1. ldone >= 1 /\ ldone \in Nat /\ dma_callback_done' = ldone - 1
      BY <1>6 DEF Decrement, LoopAt, AccountInv, AwgTypeOK, LoopTypes
    <2>2. UNCHANGED <<chan, event, callbacks, cdone, played>>
      BY <1>6 DEF Decrement, dmac
    <2>3. QED
      BY <1>1, <2>1, <2>2 DEF DmacTypes
  <1>7. ASSUME NEW i \in 0 .. 1, Transfer(i) PROVE DmacTypes'
    <2>1. chan[i] \in Seq(Transfers) /\ chan[i] # << >>
      BY <1>1, <1>7 DEF Transfer, DmacTypes
    <2>2. Tail(chan[i]) \in Seq(Transfers) /\ Head(chan[i]) \in Transfers
      BY <2>1
    <2>3. played' \in Nat
      BY <1>7, <2>2, TransferTypes DEF Transfer
    <2>4. chan' \in [0 .. 1 -> Seq(Transfers)]
      BY <1>1, <1>7, <2>2 DEF Transfer, DmacTypes
    <2>5. event' \in [0 .. 1 -> BOOLEAN]
      <3> DEFINE x == event[i] /\ ~Head(chan[i]).wait
                 y == event[1 - i] \/ Head(chan[i]).set
      <3>1. x \in BOOLEAN /\ y \in BOOLEAN
        BY Zenon
      <3>2. i = 1 - i => FALSE
        OBVIOUS
      <3>3. event' = [event EXCEPT ![i] = x, ![1 - i] = y]
        BY <1>1, <1>7, <3>2 DEF Transfer, DmacTypes
      <3> HIDE DEF x, y
      <3>4. QED
        BY <1>1, <3>1, <3>3 DEF DmacTypes
    <2>6. callbacks' = callbacks + 1 /\ UNCHANGED <<dma_callback_done, cdone>>
      BY <1>7 DEF Transfer
    <2>7. QED
      BY <1>1, <2>3, <2>4, <2>5, <2>6 DEF DmacTypes
  <1>8. CASE CallbackRead
    BY <1>1, <1>8 DEF CallbackRead, DmacTypes
  <1>9. CASE CallbackWrite
    <2>1. Head(cdone) \in Nat
      BY <1>1, <1>9 DEF CallbackWrite, DmacTypes
    <2>2. QED
      BY <1>1, <1>9, <2>1 DEF CallbackWrite, DmacTypes
  <1>10. CASE CallerStep
    <2>1. UNCHANGED <<chan, event, callbacks, dma_callback_done, cdone, played>>
      <3>1. CASE \E c \in Callers : ResetPlayloop(c)
        BY <3>1 DEF ResetPlayloop, Begin, Abort, Lock, FeederStop, Join, FeederStopped, SetLength,
           FeederStart, Active, Return, dmac
      <3>2. CASE ~\E c \in Callers : ResetPlayloop(c)
        BY <1>10, <3>2 DEF CallerStep, Rearm, RearmPoll, RearmTest, StoreLength, StoreRepeats, AwgOpen,
           AwgWrite, AwgRelease, dmac
      <3>3. QED
        BY <3>1, <3>2
    <2>2. QED
      BY <1>1, <2>1 DEF DmacTypes
  <1>11. QED
    BY <1>2, <1>3, <1>4, <1>5, <1>6, <1>7, <1>8, <1>9, <1>10, NextParts DEF Loop, Callback

LEMMA CallerTypesStep ==
  ASSUME AwgTypeOK, Next
  PROVE  CallerTypes'
  <1>1. CallerTypes /\ spb \in Nat
    BY AwgAssumption DEF AwgTypeOK
  <1>2. CASE Loop \/ (\E i \in 0 .. 1 : Transfer(i)) \/ Callback
    <2>1. CASE Step
      BY <1>1, <2>1 DEF Step, CallerTypes, task, callers, Again
    <2>2. CASE LoopEnd
      BY <1>1, <2>2 DEF LoopEnd, CallerTypes, playloop, task, Callers, CallerPc
    <2>3. CASE ~Step /\ ~LoopEnd
      BY <1>1, <1>2, <2>3 DEF Loop, Start, LoopHead, DmaReady, DmaTimeout, Decrement, SyncWait,
         SyncTimeout, StepDown, DrainReady, DrainDone, Cleanup, Transfer, Callback, CallbackRead,
         CallbackWrite, CallerTypes, playloop, task, callers
    <2>4. QED
      BY <2>1, <2>2, <2>3
  <1>3. CASE CallerStep
    <2> USE DEF CallerTypes, playloop, task, callers, CallerPc, AO_MODES, Callers
    <2>1. CASE \E c \in Callers : Begin(c) \/ Abort(c) \/ Lock(c) \/ Join(c) \/ FeederStopped(c) \/ Active(c)
      BY <1>1, <2>1 DEF Begin, Abort, Lock, Join, FeederStopped, Active, Goto
    <2>2. ASSUME NEW c \in Callers, SetLength(c) \/ FeederStart(c) PROVE CallerTypes'
      BY <1>1, <2>2 DEF SetLength, FeederStart, Goto
    <2>10. ASSUME NEW c \in Callers, Return(c) PROVE CallerTypes'
      <3>1. repeats' = 0 \/ repeats' = repeats
        BY <2>10 DEF Return
      <3>2. file' \in {file, "open", "closed"}
        BY <2>10 DEF Return
      <3>3. QED
        BY <1>1, <2>10, <3>1, <3>2 DEF Return, Goto
    <2>9. ASSUME NEW c \in Callers, FeederStop(c) PROVE CallerTypes'
      <3>1. should_stop' \in BOOLEAN
        BY <2>9, Zenon DEF FeederStop
      <3>2. QED
        BY <1>1, <2>9, <3>1 DEF FeederStop, Goto
    <2>3. CASE Rearm
      BY <1>1, <2>3 DEF Rearm, RearmPoll, RearmTest, Goto
    <2>4. ASSUME NEW n \in Lengths, NEW m \in Modes \cup {oneshot}, StoreLength(n, m) PROVE CallerTypes'
      BY <1>1, <2>4, AwgAssumption DEF StoreLength, SetMode, Goto
    <2>5. CASE \E k \in Repeats : StoreRepeats(k)
      BY <1>1, <2>5, AwgAssumption DEF StoreRepeats
    <2>6. CASE AwgOpen \/ \E n \in Lengths \ {0} : AwgWrite(n)
      BY <1>1, <2>6, AwgAssumption DEF AwgOpen, AwgWrite, Goto
    <2>7. ASSUME NEW m \in Modes, AwgRelease(m) PROVE CallerTypes'
      BY <1>1, <2>7, AwgAssumption DEF AwgRelease, SetMode, Goto
    <2>8. QED
      BY <1>3, <2>1, <2>2, <2>3, <2>4, <2>5, <2>6, <2>7, <2>9, <2>10 DEF CallerStep, ResetPlayloop
  <1>4. QED
    BY <1>2, <1>3, NextParts

----------------------------------------------------------------------------
(* The callers and the user.                                               *)

LEMMA PcTypes ==
  ASSUME AwgTypeOK
  PROVE  /\ pc \in [Callers -> CallerPc] /\ arg \in [Callers -> Nat]
         /\ length \in Nat /\ wave \in Nat /\ repeats \in Nat /\ oneshot \in AO_MODES
         /\ task_active \in BOOLEAN /\ should_stop \in BOOLEAN
  BY DEF AwgTypeOK, CallerTypes, LoopTypes

\* The part of UserInv that is about the callers alone.
CallersInv ==
  /\ pc["user"] = "idle" => arg["user"] = 0
  /\ pc["rearm"] = "begin" => arg["rearm"] # 0

\* In a running shot: the mode, and the length.
ModeInv ==
  Playing =>
    /\ ~continuous_at_start => ~AO_CONTINUOUS
    /\ continuous_at_start /\ ~AO_CONTINUOUS => pc["user"] = "abort"
    /\ length < wave => length = 0 /\ pc["user"] \in {"begin", "abort"} /\ arg["user"] = 0

LEMMA UserParts ==
  UserInv <=> (task_active <=> Playing) /\ CallersInv /\ ModeInv
  BY Zenon DEF UserInv, CallersInv, ModeInv

LEMMA CallersStep ==
  ASSUME AwgTypeOK, UserInv, Calm, CallerStep
  PROVE  CallersInv'
  <1>1. CallersInv /\ pc \in [Callers -> CallerPc] /\ arg \in [Callers -> Nat] /\ length \in Nat
    BY UserParts, PcTypes
  <1> USE DEF CallersInv, Callers, Goto
  <1>2. ASSUME NEW c \in Callers, Begin(c) \/ Abort(c) \/ Lock(c) \/ FeederStop(c) \/ Join(c)
        PROVE  CallersInv'
    BY <1>1, <1>2 DEF Begin, Abort, Lock, FeederStop, Join
  <1>3. ASSUME NEW c \in Callers,
               FeederStopped(c) \/ SetLength(c) \/ FeederStart(c) \/ Active(c) \/ Return(c)
        PROVE  CallersInv'
    BY <1>1, <1>3 DEF FeederStopped, SetLength, FeederStart, Active, Return
  <1>4. CASE Rearm
    BY <1>1, <1>4 DEF Rearm, RearmPoll, RearmTest
  <1>5. ASSUME NEW n \in Lengths, NEW m \in Modes \cup {oneshot}, StoreLength(n, m) PROVE CallersInv'
    BY <1>1, <1>5 DEF StoreLength
  <1>6. CASE \E k \in Repeats : StoreRepeats(k)
    BY <1>1, <1>6 DEF StoreRepeats, callers
  <1>7. CASE AwgOpen
    BY <1>1, <1>7 DEF AwgOpen
  <1>8. CASE \E n \in Lengths \ {0} : AwgWrite(n)
    BY <1>1, <1>8 DEF AwgWrite, callers
  <1>9. ASSUME NEW m \in Modes, AwgRelease(m) PROVE CallersInv'
    BY <1>1, <1>9 DEF AwgRelease
  <1>10. QED
    BY <1>2, <1>3, <1>4, <1>5, <1>6, <1>7, <1>8, <1>9 DEF CallerStep, ResetPlayloop

\* What the callers leave to the loop.
LEMMA CallersAside ==
  ASSUME CallerStep, Calm
  PROVE  /\ UNCHANGED <<chan, event, callbacks, dma_callback_done, cdone, played, ic,
                        shot_buffer_count, shot_buffer_count0, last_push_done, continuous_at_start,
                        ldone, dma_buffers_out, dma_buffers_in, pull_buf, wave, task_active>>
         /\ cursor' \in {cursor, 0}
         /\ lpc' = lpc \/ (lpc = "none" /\ lpc' = "start")
         /\ Playing' <=> Playing
         /\ lpc' = lpc => (should_stop => should_stop')
  <1> USE DEF playloop, stats, task, dmac, locals, callers
  <1>1. CASE \E c \in Callers : FeederStart(c)
    <2>1. lpc = "none" /\ lpc' = "start"
      BY <1>1 DEF FeederStart, Calm
    <2>2. ~Playing /\ ~Playing'
      BY <2>1 DEF Playing
    <2>3. QED
      BY <1>1, <2>1, <2>2 DEF FeederStart
  <1>2. ASSUME NEW c \in Callers,
               \/ Begin(c) \/ Abort(c) \/ Lock(c) \/ Join(c) \/ FeederStopped(c)
               \/ SetLength(c) \/ Active(c) \/ Return(c)
        PROVE  /\ UNCHANGED <<chan, event, callbacks, dma_callback_done, cdone, played, ic,
                              shot_buffer_count, shot_buffer_count0, last_push_done,
                              continuous_at_start, ldone, dma_buffers_out, dma_buffers_in, pull_buf,
                              wave, task_active, cursor, lpc, should_stop>>
    BY <1>2 DEF Begin, Abort, Lock, Join, FeederStopped, SetLength, Active, Return
  <1>3. ASSUME NEW c \in Callers, FeederStop(c)
        PROVE  /\ UNCHANGED <<chan, event, callbacks, dma_callback_done, cdone, played, ic,
                              shot_buffer_count, shot_buffer_count0, last_push_done,
                              continuous_at_start, ldone, dma_buffers_out, dma_buffers_in, pull_buf,
                              wave, task_active, cursor, lpc>>
               /\ should_stop => should_stop'
    <2>1. /\ UNCHANGED <<chan, event, callbacks, dma_callback_done, cdone, played, ic,
                         shot_buffer_count, shot_buffer_count0, last_push_done,
                         continuous_at_start, ldone, dma_buffers_out, dma_buffers_in, pull_buf,
                         wave, task_active, cursor, lpc>>
      BY <1>3 DEF FeederStop
    <2>2. should_stop' = (should_stop \/ (task_active /\ w_task))
      BY <1>3, Zenon DEF FeederStop
    <2>3. QED
      BY <2>1, <2>2
  <1>4. CASE ~\E c \in Callers : ResetPlayloop(c)
    <2>1. /\ UNCHANGED <<chan, event, callbacks, dma_callback_done, cdone, played, ic,
                         shot_buffer_count, shot_buffer_count0, last_push_done, continuous_at_start,
                         ldone, dma_buffers_out, dma_buffers_in, pull_buf, wave, task_active, lpc,
                         should_stop>>
          /\ cursor' \in {cursor, 0}
      BY <1>4 DEF CallerStep, Rearm, RearmPoll, RearmTest, StoreLength, StoreRepeats, AwgOpen,
         AwgWrite, AwgRelease
    <2>2. QED
      BY <2>1 DEF Playing
  <1>5. QED
    BY <1>1, <1>2, <1>3, <1>4, Zenon DEF ResetPlayloop, Playing

\* The mode of a running shot changes with a stop only, its length with the open
\* of the AWG file, or when a longer waveform is appended.
LEMMA ModeStep ==
  ASSUME AwgTypeOK, UserInv, Calm, CallerStep, Playing
  PROVE  /\ (~continuous_at_start => ~AO_CONTINUOUS')
         /\ continuous_at_start /\ ~AO_CONTINUOUS' => pc'["user"] = "abort"
         /\ length' < wave => length' = 0 /\ pc'["user"] \in {"begin", "abort"} /\ arg'["user"] = 0
         /\ AO_CONTINUOUS' => AO_CONTINUOUS
         /\ length' >= wave => length >= wave
         /\ ~AO_CONTINUOUS /\ continuous_at_start => repeats' = repeats
  <1> USE DEF Callers, Goto, AO_CONTINUOUS, CallersInv, ModeInv
  <1>1. /\ ModeInv /\ CallersInv /\ pc \in [Callers -> CallerPc] /\ arg \in [Callers -> Nat]
        /\ length \in Nat /\ wave \in Nat /\ task_active = TRUE
    BY UserParts, PcTypes
  <1>2. ASSUME NEW c \in Callers, Begin(c)
        PROVE  /\ (~continuous_at_start => ~AO_CONTINUOUS')
               /\ continuous_at_start /\ ~AO_CONTINUOUS' => pc'["user"] = "abort"
               /\ length' < wave => length' = 0 /\ pc'["user"] \in {"begin", "abort"} /\ arg'["user"] = 0
               /\ AO_CONTINUOUS' => AO_CONTINUOUS
               /\ length' >= wave => length >= wave
               /\ repeats' = repeats
    <2>1. pc[c] = "begin" /\ UNCHANGED <<length, repeats, arg>>
      BY <1>2 DEF Begin, At, callers
    <2>2. CASE arg[c] = 0
      <3>1. c = "user" /\ oneshot' = "AO_oneshot" /\ pc' = [pc EXCEPT !["user"] = "abort"]
        BY <1>1, <1>2, <2>1, <2>2 DEF Begin
      <3>2. QED
        BY <1>1, <2>1, <3>1
    <2>3. CASE arg[c] # 0
      <3>1. oneshot' = oneshot /\ pc' = [pc EXCEPT ![c] = "return"]
        BY <1>1, <1>2, <2>3 DEF Begin
      <3>2. c = "user" => pc["user"] = "begin"
        BY <2>1
      <3>3. c # "user" => pc'["user"] = pc["user"]
        BY <1>1, <3>1
      <3>4. QED
        BY <1>1, <2>1, <2>3, <3>1, <3>2, <3>3
    <2>4. QED
      BY <2>2, <2>3
  <1>3. ASSUME NEW c \in Callers,
               \/ Abort(c) \/ Lock(c) \/ FeederStop(c) \/ Join(c) \/ FeederStopped(c) \/ SetLength(c)
               \/ FeederStart(c) \/ Active(c) \/ Return(c)
        PROVE  /\ UNCHANGED <<length, oneshot>>
               /\ c = "user" => pc["user"] \notin {"begin", "abort"}
               /\ c # "user" => UNCHANGED <<repeats, pc["user"], arg["user"]>>
    <2>1. ~Abort(c) /\ ~FeederStopped(c) /\ ~SetLength(c)
      BY <1>1 DEF Abort, FeederStopped, SetLength
    <2>2. CASE Lock(c) \/ FeederStop(c) \/ Join(c) \/ FeederStart(c) \/ Active(c)
      BY <1>1, <2>2 DEF Lock, FeederStop, Join, FeederStart, Active, At, playloop
    <2>3. CASE Return(c)
      BY <1>1, <2>3 DEF Return, At
    <2>4. QED
      BY <1>3, <2>1, <2>2, <2>3
  <1>4. CASE Rearm
    <2>1. UNCHANGED <<length, oneshot, repeats, pc["user"], arg["user"]>>
      BY <1>1, <1>4 DEF Rearm, RearmPoll, RearmTest, playloop
    <2>2. QED
      BY <1>1, <2>1
  <1>5. ASSUME NEW n \in Lengths, NEW m \in Modes \cup {oneshot}, StoreLength(n, m)
        PROVE  /\ (~continuous_at_start => ~AO_CONTINUOUS')
               /\ continuous_at_start /\ ~AO_CONTINUOUS' => pc'["user"] = "abort"
               /\ length' < wave => length' = 0 /\ pc'["user"] \in {"begin", "abort"} /\ arg'["user"] = 0
               /\ AO_CONTINUOUS' => AO_CONTINUOUS
               /\ length' >= wave => length >= wave
               /\ ~(~AO_CONTINUOUS /\ continuous_at_start)
    <2>1. pc["user"] = "idle" /\ oneshot' = oneshot
      BY <1>1, <1>5 DEF StoreLength, At, SetMode, Calm
    <2>2. length >= wave /\ ~(~AO_CONTINUOUS /\ continuous_at_start)
      BY <1>1, <2>1
    <2>3. length' \in Nat /\ length' >= length
      BY <1>1, <1>5, AwgAssumption DEF StoreLength
    <2>4. QED
      BY <1>1, <2>1, <2>2, <2>3
  <1>6. ASSUME NEW k \in Repeats, StoreRepeats(k)
        PROVE  /\ UNCHANGED <<length, oneshot, pc, arg>> /\ pc["user"] = "idle"
    BY <1>6 DEF StoreRepeats, At, callers
  <1>7. CASE AwgOpen
    <2>1. /\ pc["user"] = "idle" /\ length' = 0 /\ pc'["user"] = "begin" /\ UNCHANGED <<oneshot, repeats, arg>>
      BY <1>1, <1>7 DEF AwgOpen, At
    <2>2. QED
      BY <1>1, <2>1
  <1>8. ASSUME NEW n \in Lengths \ {0}, AwgWrite(n)
        PROVE  /\ UNCHANGED <<oneshot, repeats, pc, arg>> /\ pc["user"] = "idle"
               /\ length' \in Nat /\ length' >= length
    BY <1>1, <1>8, AwgAssumption DEF AwgWrite, At, callers
  <1>9. ASSUME NEW m \in Modes, AwgRelease(m)
        PROVE  /\ UNCHANGED <<length, oneshot, repeats>> /\ pc["user"] = "idle"
    BY <1>1, <1>9 DEF AwgRelease, At, SetMode, Calm
  <1>10. CASE \E c \in Callers : ResetPlayloop(c)
    <2>1. CASE \E c \in Callers : Begin(c)
      BY <1>2, <2>1
    <2>2. CASE \E c \in Callers : ResetPlayloop(c) /\ ~Begin(c)
      <3>1. PICK c \in Callers : ResetPlayloop(c) /\ ~Begin(c)
        BY <2>2
      <3>2. /\ UNCHANGED <<length, oneshot>>
            /\ c = "user" => pc["user"] \notin {"begin", "abort"}
            /\ c # "user" => UNCHANGED <<repeats, pc["user"], arg["user"]>>
        BY <1>3, <3>1 DEF ResetPlayloop
      <3>3. QED
        BY <1>1, <3>2
    <2>3. QED
      BY <1>10, <2>1, <2>2
  <1>11. CASE \E n \in Lengths, m \in Modes \cup {oneshot} : StoreLength(n, m)
    BY <1>5, <1>11
  <1>12. CASE \E k \in Repeats : StoreRepeats(k)
    BY <1>1, <1>6, <1>12
  <1>13. CASE \E n \in Lengths \ {0} : AwgWrite(n)
    BY <1>1, <1>8, <1>13
  <1>14. CASE \E m \in Modes : AwgRelease(m)
    BY <1>1, <1>9, <1>14
  <1>15. QED
    BY <1>4, <1>7, <1>10, <1>11, <1>12, <1>13, <1>14 DEF CallerStep

\* What the loop and the DMAC leave to the callers.
LEMMA LoopAside ==
  ASSUME AwgTypeOK, Loop \/ (\E i \in 0 .. 1 : Transfer(i)) \/ Callback
  PROVE  /\ UNCHANGED <<length, oneshot, should_stop, arg, pc["user"]>>
         /\ pc'["rearm"] = "begin" => pc["rearm"] = "begin"
         /\ Start \/ UNCHANGED <<wave, continuous_at_start>>
         /\ Step \/ UNCHANGED repeats
  <1> USE DEF playloop, stats, task, locals, callers
  <1>1. CASE Loop
    <2>1. CASE LoopEnd
      BY <2>1, PcTypes DEF LoopEnd, Callers
    <2>2. CASE Start \/ LoopHead \/ DmaReady \/ DmaTimeout \/ Decrement \/ SyncWait \/ SyncTimeout
      BY <2>2 DEF Start, LoopHead, DmaReady, DmaTimeout, Decrement, SyncWait, SyncTimeout
    <2>3. CASE Step
      BY <2>3 DEF Step
    <2>4. CASE StepDown \/ DrainReady \/ DrainDone \/ Cleanup
      BY <2>4 DEF StepDown, DrainReady, DrainDone, Cleanup
    <2>5. QED
      BY <1>1, <2>1, <2>2, <2>3, <2>4 DEF Loop
  <1>2. CASE (\E i \in 0 .. 1 : Transfer(i)) \/ Callback
    BY <1>2 DEF Transfer, Callback, CallbackRead, CallbackWrite
  <1>3. QED
    BY <1>1, <1>2

LEMMA UserStep ==
  ASSUME AwgTypeOK, UserInv, Calm, Next
  PROVE  UserInv'
  <1>1. CASE CallerStep
    <2>1. CallersInv'
      BY <1>1, CallersStep
    <2>2. (task_active <=> Playing)'
      <3>1. task_active <=> Playing
        BY UserParts
      <3>2. task_active' = task_active /\ (Playing' <=> Playing)
        BY <1>1, CallersAside
      <3>3. QED
        BY <3>1, <3>2
    <2>3. ModeInv'
      <3>1. UNCHANGED <<continuous_at_start, wave>> /\ (Playing' <=> Playing)
        BY <1>1, CallersAside
      <3>2. QED
        BY <1>1, <3>1, ModeStep DEF ModeInv
    <2>4. QED
      BY <2>1, <2>2, <2>3, UserParts DEF UserInv, CallersInv, ModeInv
  <1>2. CASE Loop \/ (\E i \in 0 .. 1 : Transfer(i)) \/ Callback
    <2>1. (task_active <=> Playing) /\ CallersInv /\ ModeInv
      BY UserParts
    <2>2. /\ UNCHANGED <<length, oneshot, arg, pc["user"]>>
          /\ pc'["rearm"] = "begin" => pc["rearm"] = "begin"
          /\ Start \/ UNCHANGED <<wave, continuous_at_start>>
      BY <1>2, LoopAside
    <2>3. CallersInv'
      BY <2>1, <2>2 DEF CallersInv
    <2>4. (task_active <=> Playing)' /\ (Start \/ (Playing' => Playing))
      <3>1. lpc \in LoopPc
        BY DEF AwgTypeOK, LoopTypes
      <3> USE DEF Playing, LoopPc, task, LoopAt
      <3>2. CASE Start
        BY <3>2, StartEffect
      <3>3. CASE Cleanup
        BY <2>1, <3>1, <3>3 DEF Cleanup
      <3>4. CASE LoopHead \/ DmaReady \/ DmaTimeout \/ Decrement \/ SyncWait \/ SyncTimeout
        BY <2>1, <3>1, <3>4 DEF LoopHead, DmaReady, DmaTimeout, Decrement, SyncWait, SyncTimeout
      <3>5. CASE Step \/ StepDown \/ DrainReady \/ DrainDone \/ LoopEnd
        BY <2>1, <3>1, <3>5 DEF Step, StepDown, DrainReady, DrainDone, LoopEnd
      <3>6. CASE (\E i \in 0 .. 1 : Transfer(i)) \/ Callback
        BY <2>1, <3>1, <3>6 DEF Transfer, Callback, CallbackRead, CallbackWrite
      <3>7. QED
        BY <1>2, <3>2, <3>3, <3>4, <3>5, <3>6 DEF Loop
    <2>5. ModeInv'
      <3>1. CASE Start
        <4>1. wave' = length /\ length \in Nat /\ (continuous_at_start' <=> AO_CONTINUOUS)
          BY <3>1, StartEffect, PcTypes
        <4>2. ~(length < wave')
          BY <4>1
        <4>3. QED
          BY <2>2, <4>1, <4>2 DEF ModeInv, AO_CONTINUOUS
      <3>2. CASE ~Start
        BY <2>1, <2>2, <2>4, <3>2 DEF ModeInv, AO_CONTINUOUS
      <3>3. QED
        BY <3>1, <3>2
    <2>6. QED
      BY <2>3, <2>4, <2>5, UserParts DEF UserInv, CallersInv, ModeInv
  <1>3. QED
    BY <1>1, <1>2, NextParts

----------------------------------------------------------------------------
(* The account of the transfers.                                           *)

LEMMA ChannelTypes ==
  ASSUME AwgTypeOK
  PROVE  /\ ic \in {0, 1} /\ other \in {0, 1} /\ other # ic /\ other = 1 - ic /\ ic = 1 - other
         /\ chan \in [0 .. 1 -> Seq(Transfers)] /\ event \in [0 .. 1 -> BOOLEAN]
         /\ chan[ic] \in Seq(Transfers) /\ chan[other] \in Seq(Transfers)
         /\ event[ic] \in BOOLEAN /\ event[other] \in BOOLEAN
         /\ Len(chan[0]) \in Nat /\ Len(chan[1]) \in Nat
         /\ dma_buffers_out \in Nat /\ dma_buffers_in \in Nat /\ dma_callback_done \in Nat
         /\ callbacks \in Nat /\ cdone \in Seq(Nat) /\ Len(cdone) \in {0, 1} /\ ldone \in Nat
         /\ last_push_done \in BOOLEAN /\ continuous_at_start \in BOOLEAN
         /\ shot_buffer_count \in Nat /\ shot_buffer_count0 \in Nat /\ cursor \in Nat
         /\ pull_buf \in Nat /\ lpc \in LoopPc
  <1>1. LoopTypes /\ DmacTypes
    BY DEF AwgTypeOK
  <1>2. ic \in {0, 1} /\ other \in {0, 1} /\ other # ic /\ other = 1 - ic /\ ic = 1 - other
    BY <1>1 DEF LoopTypes, other
  <1>3. \A i \in 0 .. 1 : chan[i] \in Seq(Transfers) /\ event[i] \in BOOLEAN /\ Len(chan[i]) \in Nat
    BY <1>1 DEF DmacTypes
  <1>4. Len(cdone) \in {0, 1}
    <2>1. cdone \in Seq(Nat) /\ Len(cdone) <= 1
      BY <1>1 DEF DmacTypes
    <2>2. Len(cdone) \in Nat
      BY <2>1
    <2> DEFINE n == Len(cdone)
    <2> HIDE DEF n
    <2>3. n <= 1 /\ n \in Nat => n = 0 \/ n = 1
      OBVIOUS
    <2>4. QED
      BY <2>1, <2>2, <2>3 DEF n
  <1>5. QED
    BY <1>1, <1>2, <1>3, <1>4 DEF LoopTypes, DmacTypes

\* A channel that is not idle has a first transfer.
LEMMA HeadTypes ==
  ASSUME NEW s \in Seq(Transfers)
  PROVE  /\ s # << >> => /\ Head(s).buf \in Nat /\ Head(s).wait \in BOOLEAN
                         /\ Head(s).set \in BOOLEAN /\ Tail(s) \in Seq(Transfers)
                         /\ Len(Tail(s)) = Len(s) - 1
         /\ s # << >> /\ Len(s) <= 1 => Tail(s) = << >>
         /\ Len(s) \in Nat /\ (s = << >> <=> Len(s) = 0)
  <1>1. Len(s) \in Nat /\ (s = << >> <=> Len(s) = 0)
    OBVIOUS
  <1>2. s # << >> => Head(s) \in Transfers /\ Tail(s) \in Seq(Transfers) /\ Len(Tail(s)) = Len(s) - 1
    OBVIOUS
  <1>3. s # << >> /\ Len(s) <= 1 => Tail(s) = << >>
    BY <1>1, <1>2
  <1>4. QED
    BY <1>1, <1>2, <1>3, TransferTypes

LEMMA OneTransfer ==
  ASSUME NEW t
  PROVE  /\ Append(<< >>, t) = <<t>> /\ Len(<<t>>) = 1 /\ Head(<<t>>) = t /\ <<t>> # << >>
  OBVIOUS

\* One of the two channels changes.
LEMMA OneChannel ==
  ASSUME AwgTypeOK, NEW i \in 0 .. 1, NEW s \in Seq(Transfers), chan' = [chan EXCEPT ![i] = s]
  PROVE  /\ Pending' = (Pending - Len(chan[i])) + Len(s) /\ Pending \in Nat
         /\ (\A j \in 0 .. 1 : Len(chan[j]) <= 1) /\ Len(s) <= 1 => \A j \in 0 .. 1 : Len(chan'[j]) <= 1
  <1> DEFINE x == Len(chan[0])
             y == Len(chan[1])
             z == Len(s)
             x1 == Len(chan'[0])
             y1 == Len(chan'[1])
             w == Len(chan[i])
  <1>1. chan \in [0 .. 1 -> Seq(Transfers)]
    BY ChannelTypes
  <1>2. x \in Nat /\ y \in Nat /\ z \in Nat
    BY <1>1
  <1>3. (i = 0 /\ x1 = z /\ y1 = y /\ w = x) \/ (i = 1 /\ x1 = x /\ y1 = z /\ w = y)
    <2>1. CASE i = 0
      BY <1>1, <2>1
    <2>2. CASE i = 1
      BY <1>1, <2>2
    <2>3. QED
      BY <2>1, <2>2
  <1>4. Pending = x + y /\ Pending' = x1 + y1
    BY DEF Pending
  <1>5. ASSUME \A j \in 0 .. 1 : Len(chan[j]) <= 1, Len(s) <= 1
        PROVE  \A j \in 0 .. 1 : Len(chan'[j]) <= 1
    <2>1. x <= 1 /\ y <= 1 /\ z <= 1
      BY <1>5
    <2>2. x1 <= 1 /\ y1 <= 1
      BY <1>3, <2>1, Zenon
    <2>3. QED
      BY <2>2
  <1> HIDE DEF x, y, z, x1, y1, w
  <1>6. Pending' = (Pending - w) + z /\ Pending \in Nat
    BY <1>2, <1>3, <1>4
  <1>7. QED
    BY <1>5, <1>6 DEF w, z

\* The channels are primed from rest.
LEMMA PrimedFromRest ==
  ASSUME chan \in [0 .. 1 -> Seq(Transfers)], Idle(0), Idle(1)
  PROVE  /\ Primed[0] = <<[buf |-> 0, wait |-> FALSE, set |-> TRUE]>>
         /\ Buffers > 1 => Primed[1] = <<[buf |-> 1, wait |-> TRUE, set |-> TRUE]>>
         /\ ~(Buffers > 1) => Primed[1] = << >>
  <1> DEFINE s == [buf |-> 0, wait |-> FALSE, set |-> TRUE]
             t(c) == [buf |-> c, wait |-> c = 1, set |-> TRUE]
  <1>1. t(0) = s /\ t(1) = [buf |-> 1, wait |-> TRUE, set |-> TRUE]
    <2>1. 0 # 1
      OBVIOUS
    <2>2. (0 = 1) = FALSE /\ (1 = 1) = TRUE
      BY <2>1, Zenon
    <2>3. QED
      BY <2>2, Zenon
  <1>2. Primed = IF Buffers > 1 THEN [c \in 0 .. 1 |-> Append(chan[c], t(c))]
                 ELSE [chan EXCEPT ![0] = Append(@, s)]
    BY DEF Primed
  <1> HIDE DEF s, t
  <1>3. Append(<< >>, s) = <<s>> /\ Append(<< >>, t(1)) = <<t(1)>>
    BY OneTransfer
  <1>4. CASE Buffers > 1
    <2>1. Primed[0] = Append(chan[0], t(0)) /\ Primed[1] = Append(chan[1], t(1))
      BY <1>2, <1>4
    <2>2. Primed[0] = <<s>> /\ Primed[1] = <<t(1)>>
      BY <1>1, <1>3, <2>1 DEF Idle
    <2>3. QED
      BY <1>1, <1>4, <2>2 DEF s
  <1>5. CASE ~(Buffers > 1)
    <2>1. Primed = [chan EXCEPT ![0] = Append(chan[0], s)]
      BY <1>2, <1>5
    <2>2. Primed[0] = <<s>> /\ Primed[1] = << >>
      BY <1>3, <2>1 DEF Idle
    <2>3. QED
      BY <1>5, <2>2 DEF s
  <1>6. QED
    BY <1>4, <1>5

\* The parts of Step.
StepCount == IF Again THEN shot_buffer_count + shot_buffer_count0 ELSE shot_buffer_count
StepBuf == IF Again THEN 0 ELSE pull_buf
Pushes == dma_buffers_out < StepCount
PushesLast == ~AO_CONTINUOUS /\ dma_buffers_out + 1 >= StepCount
StepTransfer == [buf |-> StepBuf, wait |-> TRUE, set |-> ~PushesLast]

LEMMA StepEffect ==
  ASSUME AwgTypeOK, Step
  PROVE  /\ lpc = "step" /\ lpc' = "head" /\ ic' = other /\ other' = ic
         /\ ~(last_push_done /\ continuous_at_start)
         /\ cursor' = (IF Again THEN 0 ELSE cursor + spb)
         /\ ~Again => repeats' = repeats
         /\ shot_buffer_count' = StepCount
         /\ Pushes =>
              /\ chan' = [chan EXCEPT ![ic] = Append(chan[ic], StepTransfer)]
              /\ pull_buf' = StepBuf + 1 /\ dma_buffers_out' = dma_buffers_out + 1
         /\ ~Pushes => chan' = chan /\ pull_buf' = StepBuf /\ dma_buffers_out' = dma_buffers_out
         /\ last_push_done' <=> (last_push_done \/ (Pushes /\ PushesLast))
         /\ UNCHANGED <<length, oneshot, should_stop, dma_buffers_in, dma_callback_done, event,
                        callbacks, cdone, played, shot_buffer_count0, continuous_at_start, ldone, wave>>
  <1>1. /\ lpc = "step" /\ lpc' = "head" /\ ic' = 1 - ic
        /\ ~(last_push_done /\ continuous_at_start)
        /\ cursor' = (IF Again THEN 0 ELSE cursor + spb)
        /\ ~Again => repeats' = repeats
        /\ shot_buffer_count' = StepCount
        /\ pull_buf' = (IF Pushes THEN StepBuf + 1 ELSE StepBuf)
        /\ dma_buffers_out' = (IF Pushes THEN dma_buffers_out + 1 ELSE dma_buffers_out)
        /\ chan' = (IF Pushes THEN [chan EXCEPT ![ic] = Append(@, StepTransfer)] ELSE chan)
        /\ last_push_done' = (last_push_done \/ (Pushes /\ PushesLast))
    BY Zenon DEF Step, LoopAt, StepCount, StepBuf, Pushes, PushesLast, StepTransfer
  <1>2. UNCHANGED <<length, oneshot, should_stop, dma_buffers_in, dma_callback_done, event,
                    callbacks, cdone, played, shot_buffer_count0, continuous_at_start, ldone, wave>>
    BY DEF Step, task
  <1>3. ic' = other /\ other' = ic
    BY <1>1, ChannelTypes DEF other
  <1>4. Pushes => chan' = [chan EXCEPT ![ic] = Append(chan[ic], StepTransfer)]
    BY <1>1
  <1>5. QED
    BY <1>1, <1>2, <1>3, <1>4, Zenon

LEMMA StepTransferType ==
  ASSUME AwgTypeOK
  PROVE  /\ StepTransfer \in Transfers /\ StepTransfer.buf = StepBuf /\ StepTransfer.wait
         /\ (StepTransfer.set <=> ~PushesLast) /\ StepBuf \in Nat
  <1>1. StepBuf \in Nat
    BY ChannelTypes DEF StepBuf
  <1> DEFINE b == ~PushesLast
  <1>2. b \in BOOLEAN
    BY Zenon
  <1>3. StepTransfer = [buf |-> StepBuf, wait |-> TRUE, set |-> b]
    BY DEF StepTransfer
  <1> HIDE DEF b
  <1>4. StepTransfer \in Transfers /\ StepTransfer.buf = StepBuf /\ StepTransfer.wait /\ StepTransfer.set = b
    BY <1>1, <1>2, <1>3 DEF Transfers
  <1>5. QED
    BY <1>1, <1>4 DEF b

\* Which part of the invariant each part of the code can disturb: what the loop and
\* the callbacks leave to the transfers and to the waveform.
Transport == <<chan, event, played, ic, last_push_done, dma_buffers_out>>
Waveform == <<shot_buffer_count, shot_buffer_count0, pull_buf, wave>>

LEMMA LoopKeeps ==
  ASSUME LoopHead \/ DmaReady \/ SyncWait \/ StepDown \/ DrainReady \/ DrainDone \/ Cleanup \/ LoopEnd
         \/ Decrement \/ CallbackRead \/ CallbackWrite
  PROVE  /\ UNCHANGED Transport /\ UNCHANGED Waveform
         /\ UNCHANGED <<length, oneshot, repeats, should_stop, continuous_at_start>>
         /\ StepDown \/ UNCHANGED cursor
  <1> USE DEF Transport, Waveform, playloop, stats, task, dmac, locals
  <1>1. CASE LoopHead \/ DmaReady \/ SyncWait \/ StepDown \/ DrainReady
    BY <1>1 DEF LoopHead, DmaReady, SyncWait, StepDown, DrainReady
  <1>2. CASE DrainDone \/ Cleanup \/ LoopEnd \/ Decrement \/ CallbackRead \/ CallbackWrite
    BY <1>2 DEF DrainDone, Cleanup, LoopEnd, Decrement, CallbackRead, CallbackWrite
  <1>3. QED
    BY <1>1, <1>2

\* The account, when the shot plays.
Sum == ((dma_callback_done + callbacks) + Len(cdone)) + Pending

LEMMA AccountStep ==
  ASSUME AwgTypeOK, UserInv, AccountInv, Calm, Next, lpc = "step" => Idle(ic)
  PROVE  AccountInv'
  <1> USE DEF Playing, LoopPc, Calm
  <1>1. /\ dma_buffers_out \in Nat /\ dma_buffers_in \in Nat /\ dma_callback_done \in Nat
        /\ callbacks \in Nat /\ cdone \in Seq(Nat) /\ Len(cdone) \in {0, 1} /\ ldone \in Nat
        /\ chan \in [0 .. 1 -> Seq(Transfers)] /\ lpc \in LoopPc
        /\ Len(chan[0]) \in Nat /\ Len(chan[1]) \in Nat
        /\ cdone = << >> <=> Len(cdone) = 0
    BY ChannelTypes
  <1>2. Pending \in Nat /\ (Idle(0) <=> Len(chan[0]) = 0) /\ (Idle(1) <=> Len(chan[1]) = 0)
    <2>1. chan[0] \in Seq(Transfers) /\ chan[1] \in Seq(Transfers)
      BY <1>1
    <2>2. QED
      BY <1>1, <2>1 DEF Pending, Idle
  <1>3. Playing => dma_buffers_out = dma_buffers_in + Sum
    BY DEF AccountInv, Sum
  <1>4. CASE Start
    <2>1. /\ Idle(0) /\ Idle(1) /\ callbacks = 0 /\ dma_callback_done = 0 /\ cdone = << >>
      BY <1>4, StartEffect DEF AccountInv
    <2>2. /\ chan'[0] = <<[buf |-> 0, wait |-> FALSE, set |-> TRUE]>>
          /\ Buffers > 1 => chan'[1] = <<[buf |-> 1, wait |-> TRUE, set |-> TRUE]>>
          /\ ~(Buffers > 1) => chan'[1] = << >>
      BY <1>1, <1>4, <2>1, StartEffect, PrimedFromRest
    <2>3. Pending' = IF Buffers > 1 THEN 2 ELSE 1
      <3> DEFINE s == [buf |-> 0, wait |-> FALSE, set |-> TRUE]
                 t == [buf |-> 1, wait |-> TRUE, set |-> TRUE]
      <3> HIDE DEF s, t
      <3>1. Len(<<s>>) = 1 /\ Len(<<t>>) = 1
        OBVIOUS
      <3>2. Len(chan'[0]) = 1
        BY <2>2, <3>1 DEF s
      <3>3. Buffers > 1 => Len(chan'[1]) = 1
        BY <2>2, <3>1 DEF t
      <3>4. ~(Buffers > 1) => Len(chan'[1]) = 0
        BY <2>2
      <3>5. Pending' = Len(chan'[0]) + Len(chan'[1])
        BY DEF Pending
      <3>6. 1 + 1 = 2 /\ 1 + 0 = 1
        OBVIOUS
      <3>7. QED
        BY <3>2, <3>3, <3>4, <3>5, <3>6, Zenon
    <2>4. /\ lpc' = "head" /\ dma_buffers_in' = 0 /\ dma_buffers_out' = (IF Buffers > 1 THEN 2 ELSE 1)
          /\ UNCHANGED <<callbacks, dma_callback_done, cdone>>
      BY <1>4, StartEffect
    <2>5. Len(cdone') = 0
      BY <1>1, <2>1, <2>4
    <2>6. QED
      BY <2>1, <2>3, <2>4, <2>5 DEF AccountInv
  <1>5. CASE LoopHead \/ DmaReady \/ SyncWait \/ StepDown \/ DrainReady \/ DrainDone \/ Cleanup \/ LoopEnd
    <2>1. UNCHANGED <<chan, callbacks, dma_callback_done, cdone, dma_buffers_out, dma_buffers_in>>
      BY <1>5 DEF LoopHead, DmaReady, SyncWait, StepDown, DrainReady, DrainDone, Cleanup, LoopEnd, dmac, stats
    <2>2. Sum' = Sum /\ (Idle(0)' <=> Idle(0)) /\ (Idle(1)' <=> Idle(1))
      BY <2>1 DEF Sum, Pending, Idle
    <2>3. CASE LoopHead \/ SyncWait \/ StepDown \/ LoopEnd
      BY <1>1, <1>3, <2>1, <2>2, <2>3 DEF LoopHead, SyncWait, StepDown, LoopEnd, LoopAt, AccountInv, Sum, locals
    <2>4. CASE DmaReady \/ DrainReady
      <3>1. lpc \in {"wait", "drain"} /\ lpc' \in {"drain", "dec", "ddec"}
        BY <2>4 DEF DmaReady, DrainReady, LoopAt
      <3>2. lpc' \in {"dec", "ddec"} => ldone' = dma_callback_done /\ dma_callback_done # 0
        BY <2>4 DEF DmaReady, DrainReady, TimedOut
      <3>3. QED
        BY <1>1, <1>3, <2>1, <2>2, <3>1, <3>2 DEF AccountInv, Sum
    <2>5. CASE DrainDone
      <3>1. lpc = "drain" /\ lpc' = "fifo" /\ dma_buffers_in >= dma_buffers_out
        BY <2>5 DEF DrainDone, LoopAt
      <3>2. Sum = 0
        BY <1>1, <1>2, <1>3, <3>1 DEF Sum
      <3>3. dma_callback_done = 0 /\ callbacks = 0 /\ Len(cdone) = 0 /\ Pending = 0
        BY <1>1, <1>2, <3>2 DEF Sum
      <3>4. Idle(0) /\ Idle(1)
        BY <1>1, <1>2, <3>3 DEF Pending
      <3>5. QED
        BY <1>1, <1>3, <2>1, <2>2, <3>1, <3>3, <3>4 DEF AccountInv, Sum
    <2>6. CASE Cleanup
      <3>1. lpc = "fifo" /\ lpc' = "none"
        BY <2>6 DEF Cleanup, LoopAt
      <3>2. QED
        BY <2>1, <2>2, <3>1 DEF AccountInv
    <2>7. QED
      BY <1>5, <2>3, <2>4, <2>5, <2>6
  <1>6. CASE DmaTimeout \/ SyncTimeout
    BY <1>6 DEF DmaTimeout, SyncTimeout, TimedOut
  <1>7. CASE Decrement
    <2>1. /\ lpc \in {"dec", "ddec"} /\ lpc' \in {"sync", "drain"}
          /\ ldone >= 1 /\ dma_callback_done = ldone
          /\ dma_callback_done' = ldone - 1 /\ ldone' = 0 /\ dma_buffers_in' = dma_buffers_in + 1
          /\ UNCHANGED <<chan, callbacks, cdone, dma_buffers_out>>
      BY <1>7 DEF Decrement, LoopAt, dmac, AccountInv
    <2>2. Pending' = Pending /\ Len(cdone') = Len(cdone)
      BY <2>1 DEF Pending
    <2>3. dma_buffers_out' = dma_buffers_in' + Sum'
      BY <1>1, <1>2, <1>3, <2>1, <2>2 DEF Sum
    <2>4. QED
      BY <2>1, <2>3 DEF AccountInv, Sum
  <1>8. CASE Step
    <2>1. /\ lpc = "step" /\ lpc' = "head"
          /\ UNCHANGED <<callbacks, dma_callback_done, cdone, dma_buffers_in>>
      BY <1>8, StepEffect
    <2>2. CASE Pushes
      <3>1. chan[ic] = << >>
        BY <2>1 DEF Idle
      <3>2. chan' = [chan EXCEPT ![ic] = <<StepTransfer>>] /\ dma_buffers_out' = dma_buffers_out + 1
        BY <1>8, <2>2, <3>1, StepEffect, OneTransfer
      <3>3. <<StepTransfer>> \in Seq(Transfers) /\ Len(<<StepTransfer>>) = 1
        BY StepTransferType
      <3>4. Pending' = Pending + 1
        <4>1. Len(chan[ic]) = 0 /\ ic \in 0 .. 1
          BY <3>1, ChannelTypes
        <4>2. Pending' = (Pending - 0) + 1
          BY <3>2, <3>3, <4>1, OneChannel
        <4>3. QED
          BY <1>2, <4>2
      <3>5. dma_buffers_out' = dma_buffers_in' + Sum'
        BY <1>1, <1>2, <1>3, <2>1, <3>2, <3>4 DEF Sum
      <3>6. QED
        BY <2>1, <3>5 DEF AccountInv, Sum
    <2>3. CASE ~Pushes
      <3>1. chan' = chan /\ dma_buffers_out' = dma_buffers_out
        BY <1>8, <2>3, StepEffect
      <3>2. Pending' = Pending
        BY <3>1 DEF Pending
      <3>3. dma_buffers_out' = dma_buffers_in' + Sum'
        BY <1>1, <1>2, <1>3, <2>1, <3>1, <3>2 DEF Sum
      <3>4. QED
        BY <2>1, <3>3 DEF AccountInv, Sum
    <2>4. QED
      BY <2>2, <2>3
  <1>9. ASSUME NEW i \in 0 .. 1, Transfer(i) PROVE AccountInv'
    <2>1. /\ chan[i] # << >> /\ chan' = [chan EXCEPT ![i] = Tail(chan[i])]
          /\ callbacks' = callbacks + 1
          /\ UNCHANGED <<lpc, dma_callback_done, cdone, ldone, dma_buffers_out, dma_buffers_in>>
      BY <1>9 DEF Transfer, stats, locals
    <2>2. Playing /\ lpc # "fifo"
      BY <1>1, <2>1 DEF AccountInv, Idle
    <2>3. chan[i] \in Seq(Transfers)
      BY <1>1
    <2>4. Tail(chan[i]) \in Seq(Transfers) /\ Len(Tail(chan[i])) = Len(chan[i]) - 1 /\ Len(chan[i]) \in Nat
      BY <2>1, <2>3, HeadTypes
    <2> DEFINE p == Len(chan[i])
    <2>5. Pending' = (Pending - p) + (p - 1)
      BY <2>1, <2>4, OneChannel
    <2>6. p \in Nat
      BY <2>4
    <2> HIDE DEF p
    <2>7. Pending' = Pending - 1
      BY <1>2, <2>5, <2>6
    <2>8. dma_buffers_out' = dma_buffers_in' + Sum'
      BY <1>1, <1>2, <1>3, <2>1, <2>2, <2>7 DEF Sum
    <2>9. QED
      BY <2>1, <2>2, <2>8 DEF AccountInv, Sum
  <1>10. CASE CallbackRead
    <2>1. /\ callbacks > 0 /\ cdone = << >> /\ cdone' = <<dma_callback_done>> /\ callbacks' = callbacks - 1
          /\ UNCHANGED <<lpc, dma_callback_done, chan, ldone, dma_buffers_out, dma_buffers_in>>
      BY <1>10 DEF CallbackRead, stats, locals
    <2>2. Playing /\ lpc # "fifo"
      BY <1>1, <2>1 DEF AccountInv
    <2>3. Len(cdone') = 1 /\ Len(cdone) = 0 /\ Pending' = Pending
      BY <2>1 DEF Pending
    <2>4. dma_buffers_out' = dma_buffers_in' + Sum'
      BY <1>1, <1>2, <1>3, <2>1, <2>2, <2>3 DEF Sum
    <2>5. QED
      BY <2>1, <2>2, <2>4 DEF AccountInv, Sum
  <1>11. CASE CallbackWrite
    <2>1. /\ cdone # << >> /\ cdone' = << >>
          /\ dma_callback_done = Head(cdone) /\ dma_callback_done' = Head(cdone) + 1
          /\ UNCHANGED <<lpc, callbacks, chan, ldone, dma_buffers_out, dma_buffers_in>>
      BY <1>11 DEF CallbackWrite, stats, locals
    <2>2. Playing /\ lpc # "fifo"
      BY <1>1, <2>1 DEF AccountInv
    <2>3. Len(cdone') = 0 /\ Len(cdone) = 1 /\ Pending' = Pending
      BY <1>1, <2>1 DEF Pending
    <2>4. dma_buffers_out' = dma_buffers_in' + Sum'
      BY <1>1, <1>2, <1>3, <2>1, <2>2, <2>3 DEF Sum
    <2>5. QED
      BY <2>1, <2>2, <2>4 DEF AccountInv, Sum
  <1>12. CASE CallerStep
    <2>1. /\ UNCHANGED <<chan, callbacks, dma_callback_done, cdone, dma_buffers_out, dma_buffers_in, ldone>>
          /\ lpc' = lpc \/ (lpc = "none" /\ lpc' = "start")
      BY <1>12, CallersAside
    <2>2. Sum' = Sum /\ (Idle(0)' <=> Idle(0)) /\ (Idle(1)' <=> Idle(1))
      BY <2>1 DEF Sum, Pending, Idle
    <2>3. CASE lpc' = lpc
      BY <2>1, <2>2, <2>3 DEF AccountInv, Sum
    <2>4. CASE lpc = "none" /\ lpc' = "start"
      BY <2>1, <2>2, <2>4 DEF AccountInv
    <2>5. QED
      BY <2>1, <2>3, <2>4
  <1>13. QED
    BY <1>4, <1>5, <1>6, <1>7, <1>8, <1>9, <1>10, <1>11, <1>12, NextParts DEF Loop, Callback

----------------------------------------------------------------------------
(* Whose turn it is.                                                       *)

\* Multiples of the size of a buffer.
LEMMA Multiples ==
  ASSUME NEW x \in Nat, NEW y \in Nat, NEW s \in Nat
  PROVE  /\ x * s \in Nat /\ 0 * s = 0 /\ 1 * s = s /\ 2 * s = s + s
         /\ (x + 1) * s = x * s + s
         /\ x <= y => x * s <= y * s
         /\ s >= 1 /\ x * s < y * s => x < y
  <1>1. x * s \in Nat /\ 0 * s = 0 /\ 1 * s = s /\ 2 * s = s + s /\ (x + 1) * s = x * s + s
    OBVIOUS
  <1>2. x <= y => x * s <= y * s
    <2> SUFFICES ASSUME x <= y PROVE x * s <= y * s
      OBVIOUS
    <2>1. PICK d \in Nat : y = x + d
      <3>1. y - x \in Nat /\ y = x + (y - x)
        OBVIOUS
      <3>2. QED
        BY <3>1
    <2>2. y * s = x * s + d * s /\ d * s \in Nat /\ x * s \in Nat
      BY <2>1
    <2> DEFINE a == x * s
               b == d * s
    <2>3. y * s = a + b /\ a \in Nat /\ b \in Nat
      BY <2>2
    <2> HIDE DEF a, b
    <2>4. y * s >= a
      BY <2>3
    <2>5. QED
      BY <2>4, <2>3 DEF a
  <1>3. y <= x => y * s <= x * s
    <2> SUFFICES ASSUME y <= x PROVE y * s <= x * s
      OBVIOUS
    <2>1. PICK d \in Nat : x = y + d
      <3>1. x - y \in Nat /\ x = y + (x - y)
        OBVIOUS
      <3>2. QED
        BY <3>1
    <2>2. x * s = y * s + d * s /\ d * s \in Nat /\ y * s \in Nat
      BY <2>1
    <2> DEFINE a == y * s
               b == d * s
    <2>3. x * s = a + b /\ a \in Nat /\ b \in Nat
      BY <2>2
    <2> HIDE DEF a, b
    <2>4. x * s >= a
      BY <2>3
    <2>5. QED
      BY <2>4, <2>3 DEF a
  <1>4. x * s < y * s => x < y
    <2> DEFINE a == x * s
               b == y * s
    <2>1. a \in Nat /\ b \in Nat /\ (y <= x => b <= a)
      BY <1>3
    <2> HIDE DEF a, b
    <2>2. a < b => x < y
      BY <2>1
    <2>3. QED
      BY <2>2 DEF a, b
  <1>5. QED
    BY <1>1, <1>2, <1>4

\* A waveform of more than a buffer is primed on both channels.
LEMMA BuffersOne ==
  ASSUME length \in Nat
  PROVE  Buffers > 1 <=> length > spb
  <1> DEFINE w == Whole * spb
  <1>1. /\ Whole \in Nat /\ w <= length /\ length < w + spb
        /\ Buffers = IF w < length THEN Whole + 1 ELSE Whole
        /\ spb \in Nat /\ spb >= 1
    BY Buffering, AwgAssumption
  <1>2. w \in Nat /\ (Whole = 0 => w = 0) /\ (Whole = 1 => w = spb) /\ (Whole >= 2 => w >= spb + spb)
    <2>1. Whole = 0 => w = 0
      BY <1>1
    <2>2. Whole = 1 => w = spb
      BY <1>1
    <2>3. Whole >= 2 => 2 * spb <= w
      BY <1>1, Multiples
    <2>4. w \in Nat /\ 2 * spb = spb + spb
      BY <1>1
    <2>5. QED
      BY <2>1, <2>2, <2>3, <2>4
  <1> HIDE DEF w
  <1>3. CASE Whole = 0
    BY <1>1, <1>2, <1>3
  <1>4. CASE Whole = 1
    BY <1>1, <1>2, <1>4
  <1>5. CASE Whole >= 2
    BY <1>1, <1>2, <1>5
  <1>6. QED
    BY <1>1, <1>3, <1>4, <1>5

\* A shot that has pushed its last buffer pushes no more.
LEMMA EndedStays ==
  ASSUME AwgTypeOK, UserInv, OneShotOnce, Calm, Playing, Ended, Next
  PROVE  Ended'
  <1>1. CASE CallerStep
    <2>1. UNCHANGED <<last_push_done, continuous_at_start, dma_buffers_out, shot_buffer_count>>
      BY <1>1, CallersAside
    <2>2. /\ AO_CONTINUOUS' => AO_CONTINUOUS
          /\ ~AO_CONTINUOUS /\ continuous_at_start => repeats' = repeats
      BY <1>1, ModeStep
    <2>3. QED
      BY <2>1, <2>2, Zenon DEF Ended
  <1>2. ~Start
    BY DEF Start, LoopAt, Playing
  <1>3. CASE Step
    <2>1. ~(last_push_done /\ continuous_at_start)
      BY <1>3, StepEffect
    <2>2. /\ ~AO_CONTINUOUS /\ dma_buffers_out >= shot_buffer_count
          /\ continuous_at_start => repeats = 0
      BY <2>1, Zenon DEF Ended
    <2>3. repeats = 0
      BY <2>2, Zenon DEF OneShotOnce, Calm
    <2>4. ~Again
      BY <2>2, <2>3 DEF Again
    <2>5. ~Pushes /\ StepCount = shot_buffer_count
      BY <2>2, <2>4, ChannelTypes DEF Pushes, StepCount
    <2>6. UNCHANGED <<dma_buffers_out, shot_buffer_count, oneshot, repeats, continuous_at_start>>
      BY <1>3, <2>4, <2>5, StepEffect
    <2>7. ~AO_CONTINUOUS' /\ dma_buffers_out' >= shot_buffer_count' /\ (continuous_at_start' => repeats' = 0)
      BY <2>2, <2>3, <2>6 DEF AO_CONTINUOUS
    <2>8. QED
      BY <2>7 DEF Ended
  <1>4. CASE \/ LoopHead \/ DmaReady \/ SyncWait \/ StepDown \/ DrainReady \/ DrainDone \/ Cleanup \/ LoopEnd
             \/ Decrement \/ CallbackRead \/ CallbackWrite
    <2>1. UNCHANGED <<last_push_done, continuous_at_start, dma_buffers_out, shot_buffer_count, oneshot, repeats>>
      BY <1>4, LoopKeeps DEF Transport, Waveform
    <2>2. QED
      BY <2>1 DEF Ended, AO_CONTINUOUS
  <1>5. CASE DmaTimeout \/ SyncTimeout
    BY <1>5 DEF DmaTimeout, SyncTimeout, TimedOut, Calm
  <1>6. CASE \E i \in 0 .. 1 : Transfer(i)
    BY <1>6 DEF Transfer, locals, stats, playloop, Ended, AO_CONTINUOUS
  <1>7. QED
    BY <1>1, <1>2, <1>3, <1>4, <1>5, <1>6, NextParts DEF Loop, Callback

\* What a step of the loop pushes.
LEMMA StepEnds ==
  ASSUME AwgTypeOK, UserInv, TurnInv, CycleInv, OneShotOnce, Calm, Step
  PROVE  /\ Pushes => ~Ended
         /\ Pushes /\ PushesLast => Ended'
         /\ ~Pushes => Ended' \/ wave < spb
         /\ last_push_done' => Ended'
  <1>1. Playing
    BY StepEffect DEF Playing, LoopPc
  <1>2. Ended => Ended'
    BY <1>1, EndedStays, NextParts DEF Loop
  <1>3. Pushes => ~Ended
    <2> SUFFICES ASSUME Ended PROVE ~Pushes
      OBVIOUS
    <2>1. ~(last_push_done /\ continuous_at_start)
      BY StepEffect
    <2>2. /\ ~AO_CONTINUOUS /\ dma_buffers_out >= shot_buffer_count
          /\ continuous_at_start => repeats = 0
      BY <2>1, Zenon DEF Ended
    <2>3. repeats = 0
      BY <1>1, <2>2, Zenon DEF OneShotOnce, Calm
    <2>4. QED
      BY <2>2, <2>3, ChannelTypes DEF Pushes, StepCount, Again
  <1>4. Pushes /\ PushesLast => Ended'
    <2> SUFFICES ASSUME Pushes, PushesLast PROVE Ended'
      OBVIOUS
    <2>1. /\ last_push_done' /\ UNCHANGED <<oneshot, continuous_at_start>>
          /\ dma_buffers_out' = dma_buffers_out + 1 /\ shot_buffer_count' = StepCount
      BY StepEffect
    <2>2. ~AO_CONTINUOUS' /\ dma_buffers_out' >= shot_buffer_count'
      BY <2>1 DEF PushesLast, AO_CONTINUOUS
    <2>3. QED
      BY <2>1, <2>2, Zenon DEF Ended
  <1>5. ~Pushes => Ended' \/ wave < spb
    <2> SUFFICES ASSUME ~Pushes, ~(wave < spb) PROVE Ended'
      OBVIOUS
    <2>1. dma_buffers_out \in Nat /\ shot_buffer_count \in Nat /\ shot_buffer_count0 \in Nat /\ pull_buf \in Nat
      BY ChannelTypes
    <2>2. shot_buffer_count0 >= 1 /\ dma_buffers_out <= shot_buffer_count
      <3>1. FirstCycle \/ LaterCycle
        BY <1>1, Zenon DEF CycleInv, PartBuffer
      <3>2. CASE FirstCycle
        BY <3>2 DEF FirstCycle
      <3>3. CASE LaterCycle
        BY <2>1, <3>3 DEF LaterCycle
      <3>4. QED
        BY <3>1, <3>2, <3>3
    <2>3. ~Again
      BY <2>1, <2>2 DEF Pushes, StepCount
    <2>4. dma_buffers_out >= shot_buffer_count
      BY <2>1, <2>3 DEF Pushes, StepCount
    <2>5. ~AO_CONTINUOUS /\ repeats = 0
      BY <2>3, <2>4, PcTypes DEF Again, CycleDone
    <2>6. Ended
      BY <2>4, <2>5, Zenon DEF Ended
    <2>7. QED
      BY <1>2, <2>6
  <1>6. last_push_done' => Ended'
    <2>1. last_push_done => Ended
      BY <1>1 DEF TurnInv
    <2>2. last_push_done' => last_push_done \/ (Pushes /\ PushesLast)
      BY StepEffect
    <2>3. QED
      BY <1>2, <1>4, <2>1, <2>2
  <1>7. QED
    BY <1>3, <1>4, <1>5, <1>6

\* A transfer runs while the shot plays, and is alone on its channel.
LEMMA TransferAlone ==
  ASSUME AwgTypeOK, AccountInv, TurnInv, NEW i \in 0 .. 1, Transfer(i)
  PROVE  /\ Playing /\ lpc # "fifo" /\ ~Idle(i) /\ (Head(chan[i]).wait => event[i])
         /\ chan' = [chan EXCEPT ![i] = << >>] /\ played' = Head(chan[i]).buf
         /\ i = ic \/ i = other
         /\ UNCHANGED <<lpc, ic, last_push_done, dma_buffers_out, dma_buffers_in, shot_buffer_count,
                        shot_buffer_count0, pull_buf, wave, cursor, length, should_stop, repeats,
                        continuous_at_start, oneshot>>
  <1>1. ~Idle(i) /\ (Head(chan[i]).wait => event[i]) /\ chan' = [chan EXCEPT ![i] = Tail(chan[i])]
    BY DEF Transfer, Idle
  <1>2. Playing /\ lpc # "fifo"
    BY <1>1 DEF AccountInv
  <1>3. chan[i] \in Seq(Transfers) /\ Len(chan[i]) <= 1
    BY <1>2, ChannelTypes DEF TurnInv
  <1>4. Tail(chan[i]) = << >>
    BY <1>1, <1>3, HeadTypes DEF Idle
  <1>5. i = ic \/ i = other
    BY ChannelTypes
  <1>6. /\ played' = Head(chan[i]).buf
        /\ UNCHANGED <<lpc, ic, last_push_done, dma_buffers_out, dma_buffers_in, shot_buffer_count,
                       shot_buffer_count0, pull_buf, wave, cursor, length, should_stop, repeats,
                       continuous_at_start, oneshot>>
    BY DEF Transfer, locals, stats, playloop, task
  <1>7. QED
    BY <1>1, <1>2, <1>4, <1>5, <1>6

\* In a waveform of more than a buffer, it is the one whose turn it is, and sets the
\* event of the other.
LEMMA TransferTurn ==
  ASSUME AwgTypeOK, AccountInv, TurnInv, wave > spb, NEW i \in 0 .. 1, Transfer(i)
  PROVE  /\ i = ic \/ (i = other /\ Idle(ic))
         /\ i = ic => event' = [event EXCEPT ![ic] = FALSE, ![other] = Head(chan[ic]).set]
         /\ i = other => event' = [event EXCEPT ![other] = FALSE, ![ic] = Head(chan[other]).set]
  <1>1. Playing /\ ~Idle(i) /\ (Head(chan[i]).wait => event[i]) /\ (i = ic \/ i = other)
    BY TransferAlone
  <1>2. PingPong
    BY <1>1 DEF TurnInv
  <1>3. i = ic \/ (i = other /\ Idle(ic))
    BY <1>1, <1>2, Zenon DEF PingPong
  <1>4. event' = [event EXCEPT ![i] = @ /\ ~Head(chan[i]).wait, ![1 - i] = @ \/ Head(chan[i]).set]
    BY DEF Transfer
  <1>5. Head(chan[i]).set \in BOOLEAN /\ Head(chan[i]).wait \in BOOLEAN
    BY <1>1, ChannelTypes, HeadTypes DEF Idle
  <1>6. ASSUME i = ic PROVE event' = [event EXCEPT ![ic] = FALSE, ![other] = Head(chan[ic]).set]
    <2>1. (Head(chan[ic]).wait <=> event[ic]) /\ ~event[other]
      BY <1>1, <1>2, <1>6, Zenon DEF PingPong
    <2>2. /\ (event[ic] /\ ~Head(chan[ic]).wait) = FALSE
          /\ (event[other] \/ Head(chan[ic]).set) = Head(chan[ic]).set
      BY <1>5, <1>6, <2>1, ChannelTypes
    <2>3. QED
      BY <1>4, <1>6, <2>2, ChannelTypes
  <1>7. ASSUME i = other PROVE event' = [event EXCEPT ![other] = FALSE, ![ic] = Head(chan[other]).set]
    <2>1. Idle(ic) /\ Head(chan[other]).wait /\ ~event[ic]
      BY <1>1, <1>2, <1>3, <1>7, ChannelTypes DEF PingPong
    <2>2. /\ (event[other] /\ ~Head(chan[other]).wait) = FALSE
          /\ (event[ic] \/ Head(chan[other]).set) = Head(chan[other]).set
      BY <1>5, <1>7, <2>1, ChannelTypes
    <2>3. QED
      BY <1>4, <1>7, <2>2, ChannelTypes
  <1>8. QED
    BY <1>3, <1>6, <1>7

\* Idle channels and first transfers, after a step that fills or empties one.
LEMMA ChannelAfter ==
  ASSUME AwgTypeOK, NEW i \in 0 .. 1, NEW s, chan' = [chan EXCEPT ![i] = s]
  PROVE  chan'[i] = s /\ chan'[1 - i] = chan[1 - i]
  BY ChannelTypes

LEMMA PushedChannel ==
  ASSUME AwgTypeOK, Step, Idle(ic), Pushes
  PROVE  /\ chan' = [chan EXCEPT ![ic] = <<StepTransfer>>]
         /\ chan'[ic] = <<StepTransfer>> /\ chan'[other] = chan[other]
  <1>1. chan' = [chan EXCEPT ![ic] = <<StepTransfer>>]
    BY StepEffect, OneTransfer DEF Idle
  <1>2. QED
    BY <1>1, ChannelTypes

LEMMA PingPongPush ==
  ASSUME AwgTypeOK, UserInv, TurnInv, CycleInv, OneShotOnce, Calm, Step, wave > spb
  PROVE  PingPong'
  <1> DEFINE o == other
             t == StepTransfer
  <1>1. Playing /\ Idle(ic)
    BY StepEffect DEF Playing, LoopPc, TurnInv
  <1>2. PingPong
    BY <1>1 DEF TurnInv
  <1>3. /\ ic' = o /\ other' = ic /\ event' = event /\ ic \in {0, 1} /\ o \in {0, 1} /\ o # ic
        /\ o \in 0 .. 1
    BY StepEffect, ChannelTypes
  <1>4. CASE Pushes
    <2>1. chan'[ic] = <<t>> /\ chan'[o] = chan[o]
      BY <1>1, <1>4, PushedChannel
    <2>2. <<t>> # << >> /\ Head(<<t>>) = t
      BY OneTransfer
    <2>3. t.wait /\ (t.set <=> ~PushesLast)
      BY StepTransferType
    <2>4. ~Ended /\ (PushesLast => Ended')
      BY <1>4, StepEnds
    <2> HIDE DEF t, o
    <2>5. ~Idle(other)' /\ Head(chan'[other']) = t /\ (Idle(ic)' <=> Idle(o)) /\ chan'[ic'] = chan[o]
      BY <1>3, <2>1, <2>2 DEF Idle
    <2>6. ~Idle(o) => Head(chan[o]).wait /\ event[o] /\ ~event[ic] /\ Head(chan[o]).set
      BY <1>1, <1>2, <1>3, <2>4, Zenon DEF PingPong, o
    <2>7. Idle(o) => event[ic] /\ ~event[o]
      BY <1>1, <1>2, <2>4, Zenon DEF PingPong, o
    <2>8. \A i \in 0 .. 1 : ~Idle(i)' => Head(chan'[i]).set \/ Ended'
      <3>1. t.set \/ Ended'
        BY <2>3, <2>4, Zenon
      <3>2. ASSUME NEW i \in 0 .. 1, ~Idle(i)' PROVE Head(chan'[i]).set \/ Ended'
        <4>1. i = ic \/ i = o
          BY <1>3
        <4>2. CASE i = ic
          BY <2>1, <2>2, <3>1, <4>2, Zenon
        <4>3. CASE i = o
          BY <2>1, <2>6, <3>2, <4>3, Zenon DEF Idle
        <4>4. QED
          BY <4>1, <4>2, <4>3
      <3>3. QED
        BY <3>2
    <2>9. /\ ~Idle(ic)' => (Head(chan'[ic']).wait <=> event'[ic']) /\ ~event'[other']
          /\ ~Idle(ic)' /\ ~Idle(other)' => Head(chan'[ic']).set
      BY <1>3, <2>5, <2>6, Zenon
    <2>10. Idle(ic)' => event'[other'] /\ ~event'[ic']
      BY <1>3, <2>5, <2>7, Zenon
    <2>11. Head(chan'[other']).wait
      BY <2>3, <2>5, Zenon
    <2>12. QED
      BY <2>5, <2>8, <2>9, <2>10, <2>11, Zenon DEF PingPong
  <1>5. CASE ~Pushes
    <2>1. chan' = chan /\ Ended'
      <3>1. ~(wave < spb)
        BY PcTypes, AwgAssumption
      <3>2. QED
        BY <1>5, <3>1, StepEffect, StepEnds
    <2> HIDE DEF o
    <2>2. Idle(other)' /\ (Idle(ic)' <=> Idle(o)) /\ chan'[ic'] = chan[o]
      BY <1>1, <1>3, <2>1 DEF Idle
    <2>3. ~Idle(o) => Head(chan[o]).wait /\ event[o] /\ ~event[ic]
      BY <1>1, <1>2, Zenon DEF PingPong, o
    <2>4. ~Idle(ic)' => (Head(chan'[ic']).wait <=> event'[ic']) /\ ~event'[other']
      BY <1>3, <2>2, <2>3, Zenon
    <2>5. QED
      BY <2>1, <2>2, <2>4, Zenon DEF PingPong
  <1>6. QED
    BY <1>4, <1>5

LEMMA PingPongTransfer ==
  ASSUME AwgTypeOK, UserInv, AccountInv, TurnInv, OneShotOnce, Calm, wave > spb,
         NEW i \in 0 .. 1, Transfer(i)
  PROVE  PingPong'
  <1> DEFINE o == other
  <1>1. /\ Playing /\ ~Idle(i) /\ chan' = [chan EXCEPT ![i] = << >>] /\ UNCHANGED ic
        /\ i = ic \/ (i = o /\ Idle(ic))
    BY TransferAlone, TransferTurn
  <1>2. PingPong
    BY <1>1 DEF TurnInv
  <1>3. /\ ic' = ic /\ other' = o /\ ic \in {0, 1} /\ o \in {0, 1} /\ o # ic /\ o \in 0 .. 1
        /\ ic \in 0 .. 1
        /\ chan \in [0 .. 1 -> Seq(Transfers)] /\ event \in [0 .. 1 -> BOOLEAN]
    BY <1>1, ChannelTypes DEF other
  <1>4. Ended => Ended'
    BY <1>1, EndedStays, NextParts
  <1>5. i = ic => event' = [event EXCEPT ![ic] = FALSE, ![o] = Head(chan[ic]).set]
    BY TransferTurn
  <1>6. i = o => event' = [event EXCEPT ![o] = FALSE, ![ic] = Head(chan[o]).set]
    BY TransferTurn
  <1> HIDE DEF o
  <1>7. CASE i = ic
    <2>1. chan'[ic] = << >> /\ chan'[o] = chan[o] /\ event'[ic] = FALSE /\ event'[o] = Head(chan[ic]).set
      BY <1>1, <1>3, <1>5, <1>7
    <2>2. Idle(ic)' /\ (Idle(other)' <=> Idle(o))
      BY <1>3, <2>1 DEF Idle
    <2>3. ~Idle(o) => Head(chan[o]).wait /\ Head(chan[ic]).set /\ (Head(chan[o]).set \/ Ended)
      BY <1>1, <1>2, <1>3, <1>7, Zenon DEF PingPong, o
    <2>4. Idle(o) => Ended
      BY <1>1, <1>2, <1>7, Zenon DEF PingPong, o
    <2>5. \A j \in 0 .. 1 : ~Idle(j)' => Head(chan'[j]).set \/ Ended'
      <3>1. ASSUME NEW j \in 0 .. 1, ~Idle(j)' PROVE Head(chan'[j]).set \/ Ended'
        <4>1. j = ic \/ j = o
          BY <1>3
        <4>2. j # ic
          BY <2>1, <3>1, Zenon DEF Idle
        <4>3. QED
          BY <1>4, <2>1, <2>3, <3>1, <4>1, <4>2, Zenon DEF Idle
      <3>2. QED
        BY <3>1
    <2>6. Idle(other)' => Ended'
      BY <1>4, <2>2, <2>4
    <2>7. ~Idle(other)' => event'[other'] /\ ~event'[ic'] /\ Head(chan'[other']).wait
      BY <1>3, <2>1, <2>2, <2>3, Zenon
    <2>8. QED
      BY <1>3, <2>2, <2>5, <2>6, <2>7, Zenon DEF PingPong
  <1>8. CASE i = o
    <2>1. /\ chan'[o] = << >> /\ chan'[ic] = chan[ic] /\ event'[o] = FALSE
          /\ event'[ic] = Head(chan[o]).set
      BY <1>1, <1>3, <1>6, <1>8
    <2>2. Idle(ic)' /\ Idle(other)'
      BY <1>1, <1>3, <1>8, <2>1 DEF Idle
    <2>3. Head(chan[o]).set \/ Ended
      BY <1>1, <1>2, <1>3, <1>8, Zenon DEF PingPong, o
    <2>4. (event'[ic'] /\ ~event'[other']) \/ Ended'
      BY <1>3, <1>4, <2>1, <2>3, Zenon
    <2>5. \A j \in 0 .. 1 : ~Idle(j)' => Head(chan'[j]).set \/ Ended'
      <3>1. ASSUME NEW j \in 0 .. 1, ~Idle(j)' PROVE FALSE
        <4>1. j = ic \/ j = o
          BY <1>3
        <4>2. QED
          BY <1>3, <2>2, <3>1, <4>1, Zenon
      <3>2. QED
        BY <3>1
    <2>6. QED
      BY <1>3, <2>2, <2>4, <2>5, Zenon DEF PingPong
  <1>9. QED
    BY <1>1, <1>7, <1>8

LEMMA PingPongStart ==
  ASSUME AwgTypeOK, AccountInv, Calm, Start, length > spb
  PROVE  PingPong' /\ \A i \in 0 .. 1 : Len(chan'[i]) <= 1
  <1> DEFINE s == [buf |-> 0, wait |-> FALSE, set |-> TRUE]
             t == [buf |-> 1, wait |-> TRUE, set |-> TRUE]
  <1>1. Buffers > 1
    BY BuffersOne, PcTypes
  <1>2. Idle(0) /\ Idle(1) /\ chan \in [0 .. 1 -> Seq(Transfers)]
    BY StartEffect, ChannelTypes DEF AccountInv, Playing
  <1>3. Primed[0] = <<s>> /\ Primed[1] = <<t>>
    BY <1>1, <1>2, PrimedFromRest
  <1>4. /\ chan'[0] = <<s>> /\ chan'[1] = <<t>> /\ ic' = 0 /\ event' = event /\ ~event[0] /\ ~event[1]
    BY <1>3, StartEffect DEF Calm
  <1>5. other' = 1
    BY <1>4 DEF other
  <1>6. ~s.wait /\ s.set /\ t.wait /\ t.set
    OBVIOUS
  <1> HIDE DEF s, t
  <1>7. /\ <<s>> # << >> /\ Len(<<s>>) = 1 /\ Head(<<s>>) = s
        /\ <<t>> # << >> /\ Len(<<t>>) = 1 /\ Head(<<t>>) = t
    BY OneTransfer
  <1>8. \A i \in 0 .. 1 : Len(chan'[i]) <= 1
    <2>1. Len(chan'[0]) <= 1 /\ Len(chan'[1]) <= 1
      BY <1>4, <1>7
    <2>2. QED
      BY <2>1
  <1>9. ~Idle(ic)' /\ ~Idle(other)' /\ Head(chan'[ic']) = s /\ Head(chan'[other']) = t
    BY <1>4, <1>5, <1>7 DEF Idle
  <1>10. \A i \in 0 .. 1 : Head(chan'[i]).set
    <2>1. Head(chan'[0]).set /\ Head(chan'[1]).set
      BY <1>4, <1>6, <1>7, Zenon
    <2>2. QED
      BY <2>1
  <1>11. ~event'[ic'] /\ ~event'[other']
    BY <1>4, <1>5, Zenon
  <1>12. PingPong'
    BY <1>6, <1>9, <1>10, <1>11, Zenon DEF PingPong
  <1>13. QED
    BY <1>8, <1>12

LEMMA TurnStep ==
  ASSUME AwgTypeOK, UserInv, AccountInv, TurnInv, CycleInv, OneShotOnce, Calm, Next
  PROVE  TurnInv'
  <1> USE DEF Calm
  <1>1. /\ dma_buffers_out \in Nat /\ dma_buffers_in \in Nat /\ lpc \in LoopPc
        /\ chan \in [0 .. 1 -> Seq(Transfers)] /\ wave \in Nat /\ spb \in Nat /\ length \in Nat
    BY ChannelTypes, PcTypes, AwgAssumption
  <1>2. CASE Start
    <2>1. /\ Idle(0) /\ Idle(1)
      BY <1>2, StartEffect DEF AccountInv, Playing
    <2>2. /\ lpc' = "head" /\ last_push_done' = FALSE /\ wave' = length /\ dma_buffers_in' = 0
          /\ dma_buffers_out' = (IF Buffers > 1 THEN 2 ELSE 1)
      BY <1>2, StartEffect
    <2>3. CASE length > spb
      <3>1. PingPong' /\ \A i \in 0 .. 1 : Len(chan'[i]) <= 1
        BY <1>2, <2>3, PingPongStart
      <3>2. ~(wave' <= spb)
        BY <1>1, <2>2, <2>3
      <3>3. QED
        BY <2>2, <3>1, <3>2 DEF TurnInv
    <2>4. CASE ~(length > spb)
      <3>1. ~(Buffers > 1)
        BY <1>1, <2>4, BuffersOne
      <3>2. \A i \in 0 .. 1 : Len(chan'[i]) <= 1
        <4> DEFINE s == [buf |-> 0, wait |-> FALSE, set |-> TRUE]
        <4>1. chan'[0] = <<s>> /\ chan'[1] = << >>
          BY <1>1, <1>2, <2>1, <3>1, StartEffect, PrimedFromRest
        <4> HIDE DEF s
        <4>2. Len(chan'[0]) <= 1 /\ Len(chan'[1]) <= 1
          <5>1. Len(<<s>>) <= 1 /\ Len(<< >>) <= 1
            OBVIOUS
          <5>2. QED
            BY <4>1, <5>1, Zenon
        <4>3. QED
          BY <4>2
      <3>3. OneBuffer'
        BY <2>2, <3>1 DEF OneBuffer
      <3>4. ~(wave' > spb)
        BY <2>2, <2>4
      <3>5. QED
        BY <2>2, <3>2, <3>3, <3>4 DEF TurnInv
    <2>5. QED
      BY <2>3, <2>4
  <1>3. CASE Step
    <2>1. Playing /\ Idle(ic) /\ lpc = "step"
      BY <1>3, StepEffect DEF Playing, LoopPc, TurnInv
    <2>2. lpc' = "head" /\ UNCHANGED <<wave, dma_buffers_in>>
      BY <1>3, StepEffect
    <2>3. wave > spb => PingPong'
      BY <1>3, PingPongPush
    <2>4. \A i \in 0 .. 1 : Len(chan'[i]) <= 1
      <3>1. CASE Pushes
        <4>1. chan' = [chan EXCEPT ![ic] = <<StepTransfer>>] /\ ic \in 0 .. 1
          BY <1>3, <2>1, <3>1, PushedChannel, ChannelTypes
        <4>2. <<StepTransfer>> \in Seq(Transfers) /\ Len(<<StepTransfer>>) = 1
          BY StepTransferType
        <4>3. \A i \in 0 .. 1 : Len(chan[i]) <= 1
          BY <2>1 DEF TurnInv
        <4>4. QED
          BY <4>1, <4>2, <4>3, OneChannel
      <3>2. CASE ~Pushes
        BY <1>3, <2>1, <3>2, StepEffect DEF TurnInv
      <3>3. QED
        BY <3>1, <3>2
    <2>5. wave <= spb => OneBuffer'
      <3>1. dma_buffers_out' <= dma_buffers_out + 1
        BY <1>1, <1>3, StepEffect
      <3>2. wave <= spb => dma_buffers_out <= dma_buffers_in
        BY <2>1 DEF TurnInv, OneBuffer
      <3>3. dma_buffers_out' \in Nat
        BY <1>1, <1>3, StepEffect
      <3>4. QED
        BY <1>1, <2>2, <3>1, <3>2, <3>3 DEF OneBuffer
    <2>6. last_push_done' => Ended'
      BY <1>3, StepEnds
    <2>7. QED
      BY <2>2, <2>3, <2>4, <2>5, <2>6 DEF TurnInv
  <1>4. ASSUME NEW i \in 0 .. 1, Transfer(i) PROVE TurnInv'
    <2>1. /\ Playing /\ chan' = [chan EXCEPT ![i] = << >>]
          /\ UNCHANGED <<lpc, ic, last_push_done, dma_buffers_out, dma_buffers_in, wave>>
      BY <1>4, TransferAlone
    <2>2. \A j \in 0 .. 1 : Len(chan'[j]) <= 1
      <3>1. \A j \in 0 .. 1 : Len(chan[j]) <= 1
        BY <2>1 DEF TurnInv
      <3>2. << >> \in Seq(Transfers) /\ Len(<< >>) <= 1
        OBVIOUS
      <3>3. QED
        BY <2>1, <3>1, <3>2, OneChannel
    <2>3. lpc' = "step" => Idle(ic)'
      <3>1. Idle(ic) => Idle(ic)'
        BY <1>1, <2>1, ChannelTypes DEF Idle
      <3>2. lpc = "step" => Idle(ic)
        BY <2>1 DEF TurnInv
      <3>3. QED
        BY <2>1, <3>1, <3>2
    <2>4. last_push_done' => Ended'
      <3>1. Ended => Ended'
        BY <1>4, <2>1, EndedStays, NextParts
      <3>2. QED
        BY <2>1, <3>1 DEF TurnInv
    <2>5. wave > spb => PingPong'
      BY <1>4, PingPongTransfer
    <2>6. wave <= spb => OneBuffer'
      BY <2>1 DEF TurnInv, OneBuffer
    <2>7. QED
      BY <2>1, <2>2, <2>3, <2>4, <2>5, <2>6 DEF TurnInv
  <1>5. ASSUME UNCHANGED Transport, UNCHANGED wave, Playing' => Playing,
               lpc' = "step" => (lpc = "step" \/ Idle(ic)),
               (Playing /\ OneBuffer) => OneBuffer'
        PROVE  TurnInv'
    <2> SUFFICES ASSUME Playing' PROVE TurnInv'
      BY DEF TurnInv
    <2>1. Playing
      BY <1>5
    <2>2. UNCHANGED <<chan, event, ic, last_push_done>> /\ UNCHANGED wave
      BY <1>5 DEF Transport
    <2>3. Ended => Ended'
      BY <2>1, EndedStays
    <2>4. other' = other
      BY <2>2 DEF other
    <2>5. PingPong => PingPong'
      BY <2>2, <2>3, <2>4, Zenon DEF PingPong, Idle
    <2>6. \A i \in 0 .. 1 : Len(chan'[i]) <= 1
      BY <2>1, <2>2 DEF TurnInv
    <2>7. lpc' = "step" => Idle(ic)'
      BY <1>5, <2>1, <2>2 DEF TurnInv, Idle
    <2>8. QED
      BY <1>5, <2>1, <2>2, <2>3, <2>5, <2>6, <2>7, Zenon DEF TurnInv
  <1>6. CASE \/ LoopHead \/ DmaReady \/ SyncWait \/ StepDown \/ DrainReady \/ DrainDone \/ Cleanup \/ LoopEnd
             \/ Decrement \/ CallbackRead \/ CallbackWrite
    <2>1. UNCHANGED Transport /\ UNCHANGED wave
      BY <1>6, LoopKeeps DEF Waveform
    <2> USE DEF Playing, LoopPc, LoopAt, OneBuffer
    <2>2. dma_buffers_out' = dma_buffers_out
      BY <2>1 DEF Transport
    <2>3. CASE LoopHead \/ DmaReady \/ StepDown \/ DrainReady \/ DrainDone \/ Cleanup
      <3>1. Playing /\ lpc' \notin {"sync", "step"} /\ dma_buffers_in' = dma_buffers_in
        BY <2>3 DEF LoopHead, DmaReady, StepDown, DrainReady, DrainDone, Cleanup, stats
      <3>2. QED
        BY <1>5, <2>1, <2>2, <3>1
    <2>4. CASE SyncWait
      <3>1. lpc = "sync" /\ lpc' = "step" /\ Idle(ic) /\ dma_buffers_in' = dma_buffers_in
        BY <2>4 DEF SyncWait, Idle, stats
      <3>2. QED
        BY <1>5, <2>1, <2>2, <3>1
    <2>5. CASE LoopEnd \/ CallbackRead \/ CallbackWrite
      <3>1. lpc' = lpc /\ dma_buffers_in' = dma_buffers_in
        BY <2>5 DEF LoopEnd, CallbackRead, CallbackWrite, stats
      <3>2. QED
        BY <1>5, <2>1, <2>2, <3>1
    <2>6. CASE Decrement
      <3>1. lpc \in {"dec", "ddec"} /\ lpc' \in {"sync", "drain"} /\ dma_buffers_in' = dma_buffers_in + 1
        BY <2>6 DEF Decrement
      <3>2. QED
        BY <1>1, <1>5, <2>1, <2>2, <3>1
    <2>7. QED
      BY <1>6, <2>3, <2>4, <2>5, <2>6
  <1>7. CASE DmaTimeout \/ SyncTimeout
    BY <1>7 DEF DmaTimeout, SyncTimeout, TimedOut
  <1>8. CASE CallerStep
    <2>1. /\ UNCHANGED Transport /\ UNCHANGED <<wave, dma_buffers_in, dma_buffers_out>>
          /\ lpc' = lpc \/ lpc' = "start"
          /\ Playing' <=> Playing
      BY <1>8, CallersAside, Zenon DEF Transport
    <2>2. lpc' = "step" => lpc = "step"
      BY <2>1
    <2>3. lpc' \in {"sync", "step"} => lpc' = lpc
      BY <2>1
    <2>4. OneBuffer => OneBuffer'
      BY <2>1, <2>3 DEF OneBuffer
    <2>5. Playing' => Playing
      BY <1>8, CallersAside
    <2>6. QED
      BY <1>5, <2>1, <2>2, <2>4, <2>5
  <1>9. QED
    BY <1>2, <1>3, <1>4, <1>6, <1>7, <1>8, NextParts DEF Loop, Callback

----------------------------------------------------------------------------
(* How far the waveform was pushed.                                        *)

LEMMA CycleStart ==
  ASSUME AwgTypeOK, Start
  PROVE  CycleInv'
  <1> DEFINE W == Whole
             B == Buffers
             w == W * spb
  <1>1. /\ W \in Nat /\ B \in Nat /\ w <= length /\ length < w + spb
        /\ B = (IF w < length THEN W + 1 ELSE W)
        /\ spb \in Nat /\ spb >= 1 /\ length \in Nat
    BY Buffering, PcTypes, AwgAssumption
  <1>2. /\ shot_buffer_count0' = W /\ shot_buffer_count' = B /\ wave' = length /\ last_push_done' = FALSE
        /\ pull_buf' = (IF B > 1 THEN 2 ELSE 1) /\ dma_buffers_out' = (IF B > 1 THEN 2 ELSE 1)
        /\ cursor' = 0
    BY StartEffect
  <1>3. /\ w \in Nat /\ (W + 1) * spb = w + spb /\ (W = 0 => w = 0)
        /\ 0 + 2 * spb <= 2 * spb /\ 1 * spb = spb
        /\ W >= 1 => (W - 1) * spb = w - spb
    <2>1. w \in Nat /\ (W + 1) * spb = w + spb /\ (W = 0 => w = 0)
      BY <1>1, Multiples
    <2>2. W >= 1 => (W - 1) * spb = w - spb
      <3>1. ASSUME W >= 1 PROVE (W - 1) * spb = w - spb
        <4>1. W - 1 \in Nat /\ (W - 1) + 1 = W
          BY <1>1, <3>1
        <4>2. ((W - 1) + 1) * spb = (W - 1) * spb + spb /\ (W - 1) * spb \in Nat
          BY <1>1, <4>1, Multiples
        <4> DEFINE v == (W - 1) * spb
        <4>3. w = v + spb /\ v \in Nat
          BY <4>1, <4>2
        <4> HIDE DEF v, w
        <4>4. v = w - spb
          BY <1>1, <4>3
        <4>5. QED
          BY <4>4 DEF v
      <3>2. QED
        BY <3>1
    <2>3. 0 + 2 * spb <= 2 * spb /\ 1 * spb = spb
      BY <1>1
    <2>4. QED
      BY <2>1, <2>2, <2>3
  <1>4. B * spb >= length /\ B * spb \in Nat
    <2>1. CASE w < length
      BY <1>1, <1>3, <2>1
    <2>2. CASE ~(w < length)
      BY <1>1, <1>3, <2>2
    <2>3. QED
      BY <2>1, <2>2
  <1>5. W >= 1 => (B - 1) * spb < length
    <2>1. CASE w < length
      <3>1. B - 1 = W
        BY <1>1, <2>1
      <3>2. QED
        BY <2>1, <3>1
    <2>2. CASE ~(w < length)
      <3>1. B = W
        BY <1>1, <2>2
      <3>2. W >= 1 => w - spb < length
        BY <1>1, <1>3, <2>2
      <3>3. QED
        BY <1>3, <3>1, <3>2
    <2>3. QED
      BY <2>1, <2>2
  <1>6. (B > 1 <=> length > spb) /\ (W = 1 => w = spb)
    BY <1>1, <1>3, BuffersOne
  <1>7. FirstCycle' \/ PartBuffer'
    <2>1. CASE W = 0
      <3>1. length < spb /\ ~(B > 1) /\ B <= 1
        BY <1>1, <1>3, <2>1
      <3>2. QED
        BY <1>2, <2>1, <3>1 DEF PartBuffer
    <2>2. CASE W >= 1
      <3>1. B \in W .. W + 1 /\ B >= 1
        BY <1>1, <2>2
      <3>2. CASE B > 1
        BY <1>1, <1>2, <1>3, <1>4, <1>5, <2>2, <3>1, <3>2 DEF FirstCycle
      <3>3. CASE ~(B > 1)
        BY <1>1, <1>2, <1>3, <1>4, <1>5, <2>2, <3>1, <3>3 DEF FirstCycle
      <3>4. QED
        BY <3>2, <3>3
    <2>3. QED
      BY <1>1, <2>1, <2>2
  <1>8. QED
    BY <1>1, <1>2, <1>3, <1>7 DEF CycleInv

\* The numbers in CycleInv, with their multiples of spb.
LEMMA CycleNumbers ==
  ASSUME AwgTypeOK
  PROVE  /\ spb \in Nat /\ spb >= 1 /\ wave \in Nat /\ cursor \in Nat /\ pull_buf \in Nat
         /\ dma_buffers_out \in Nat /\ shot_buffer_count \in Nat /\ shot_buffer_count0 \in Nat
         /\ (dma_buffers_out + 1) * spb = dma_buffers_out * spb + spb /\ dma_buffers_out * spb \in Nat
         /\ (pull_buf + 1) * spb = pull_buf * spb + spb /\ pull_buf * spb \in Nat
         /\ shot_buffer_count * spb \in Nat
         /\ (shot_buffer_count0 + 1) * spb = shot_buffer_count0 * spb + spb
         /\ shot_buffer_count0 * spb \in Nat
         /\ 2 * spb = spb + spb /\ 1 * spb = spb
  <1>1. /\ spb \in Nat /\ spb >= 1 /\ wave \in Nat /\ cursor \in Nat /\ pull_buf \in Nat
        /\ dma_buffers_out \in Nat /\ shot_buffer_count \in Nat /\ shot_buffer_count0 \in Nat
    BY ChannelTypes, PcTypes, AwgAssumption
  <1>2. (dma_buffers_out + 1) * spb = dma_buffers_out * spb + spb /\ dma_buffers_out * spb \in Nat
    BY <1>1, Multiples
  <1>3. (pull_buf + 1) * spb = pull_buf * spb + spb /\ pull_buf * spb \in Nat
    BY <1>1, Multiples
  <1>4. shot_buffer_count * spb \in Nat /\ 2 * spb = spb + spb /\ 1 * spb = spb
    BY <1>1, Multiples
  <1>5. (shot_buffer_count0 + 1) * spb = shot_buffer_count0 * spb + spb /\ shot_buffer_count0 * spb \in Nat
    BY <1>1, Multiples
  <1>6. QED
    BY <1>1, <1>2, <1>3, <1>4, <1>5

\* No more than the waveform was pushed; what is left of its last cycle.
LEMMA CycleBounds ==
  ASSUME AwgTypeOK, CycleInv, Playing
  PROVE  /\ ~PartBuffer => /\ shot_buffer_count0 >= 1 /\ dma_buffers_out <= shot_buffer_count
                           /\ pull_buf >= 1
         /\ CycleDone /\ ~PartBuffer => dma_buffers_out = shot_buffer_count /\ pull_buf >= shot_buffer_count0
         /\ PartBuffer => ~Pushes /\ LastBuf = 0 /\ shot_buffer_count0 = 0
         /\ ~PartBuffer => LastBuf = pull_buf - 1
  <1>1. /\ dma_buffers_out \in Nat /\ shot_buffer_count \in Nat /\ shot_buffer_count0 \in Nat
        /\ pull_buf \in Nat
    BY CycleNumbers
  <1>2. CASE PartBuffer
    <2>1. shot_buffer_count0 = 0 /\ shot_buffer_count <= 1 /\ dma_buffers_out = 1
      BY <1>2 DEF PartBuffer
    <2>2. StepCount <= 1
      BY <1>1, <2>1 DEF StepCount
    <2>3. ~Pushes
      BY <2>1, <2>2, <1>1 DEF Pushes, StepCount
    <2>4. QED
      BY <1>2, <2>1, <2>3 DEF LastBuf
  <1>3. CASE ~PartBuffer
    <2>1. FirstCycle \/ LaterCycle
      BY <1>3 DEF CycleInv
    <2>2. CASE FirstCycle
      <3>1. /\ shot_buffer_count0 >= 1 /\ shot_buffer_count >= shot_buffer_count0
            /\ pull_buf = dma_buffers_out /\ dma_buffers_out <= shot_buffer_count
        BY <1>1, <2>2 DEF FirstCycle
      <3>2. pull_buf >= 1
        <4>1. dma_buffers_out < shot_buffer_count => 2 * spb <= dma_buffers_out * spb
          BY <2>2, CycleNumbers DEF FirstCycle
        <4>2. dma_buffers_out = 0 => dma_buffers_out * spb = 0
          BY CycleNumbers
        <4>3. QED
          BY <3>1, <4>1, <4>2, CycleNumbers
      <3>3. QED
        BY <1>1, <1>3, <3>1, <3>2 DEF CycleDone, LastBuf
    <2>3. CASE LaterCycle
      BY <1>1, <1>3, <2>3 DEF LaterCycle, CycleDone, LastBuf
    <2>4. QED
      BY <2>1, <2>2, <2>3
  <1>4. QED
    BY <1>2, <1>3

\* A push in a cycle that goes on.
LEMMA CyclePush ==
  ASSUME AwgTypeOK, CycleInv, Playing, Step, ~Again
  PROVE  FirstCycle' \/ LaterCycle' \/ PartBuffer'
  <1>1. /\ UNCHANGED <<wave, shot_buffer_count0, shot_buffer_count>> /\ cursor' = cursor + spb
        /\ Pushes => pull_buf' = pull_buf + 1 /\ dma_buffers_out' = dma_buffers_out + 1
        /\ ~Pushes => UNCHANGED <<pull_buf, dma_buffers_out>>
        /\ Pushes <=> dma_buffers_out < shot_buffer_count
    BY StepEffect DEF StepCount, StepBuf, Pushes
  <1> DEFINE m == dma_buffers_out * spb
             m1 == (dma_buffers_out + 1) * spb
             p == pull_buf * spb
             p1 == (pull_buf + 1) * spb
             d == 2 * spb
  <1>2. /\ spb \in Nat /\ cursor \in Nat /\ pull_buf \in Nat /\ dma_buffers_out \in Nat
        /\ shot_buffer_count \in Nat /\ shot_buffer_count0 \in Nat
        /\ m1 = m + spb /\ m \in Nat /\ p1 = p + spb /\ p \in Nat /\ d \in Nat
    BY CycleNumbers
  <1>3. CASE FirstCycle
    <2>1. CASE Pushes
      <3>1. cursor + d <= m
        BY <1>1, <1>3, <2>1 DEF FirstCycle
      <3> HIDE DEF m, m1, p, p1, d
      <3>2. cursor' + d <= m1
        BY <1>1, <1>2, <3>1
      <3>3. dma_buffers_out' = dma_buffers_out + 1 /\ pull_buf' = dma_buffers_out' /\ dma_buffers_out' <= shot_buffer_count
        BY <1>1, <1>2, <1>3, <2>1 DEF FirstCycle
      <3>4. cursor' + 2 * spb <= dma_buffers_out' * spb
        BY <3>2, <3>3 DEF m1, d
      <3>5. QED
        BY <1>1, <1>3, <3>3, <3>4 DEF FirstCycle
    <2>2. CASE ~Pushes
      <3>1. ~(dma_buffers_out' < shot_buffer_count')
        BY <1>1, <2>2
      <3>2. QED
        BY <1>1, <1>3, <2>2, <3>1 DEF FirstCycle
    <2>3. QED
      BY <2>1, <2>2
  <1>4. CASE LaterCycle
    <2>1. CASE Pushes
      <3>1. cursor + spb <= p /\ pull_buf + 1 <= shot_buffer_count0
        BY <1>1, <1>2, <1>4, <2>1 DEF LaterCycle
      <3> HIDE DEF m, m1, p, p1, d
      <3>2. cursor' + spb <= p1
        BY <1>1, <1>2, <3>1
      <3>3. pull_buf' = pull_buf + 1 /\ pull_buf' \in 1 .. shot_buffer_count0
        BY <1>1, <1>2, <2>1, <3>1
      <3>4. cursor' + spb <= pull_buf' * spb
        BY <3>2, <3>3 DEF p1
      <3>5. shot_buffer_count' - dma_buffers_out' = shot_buffer_count0' - pull_buf'
        BY <1>1, <1>2, <1>4, <2>1 DEF LaterCycle
      <3>6. QED
        BY <1>1, <1>4, <3>3, <3>4, <3>5 DEF LaterCycle
    <2>2. CASE ~Pushes
      <3>1. ~(dma_buffers_out' < shot_buffer_count')
        BY <1>1, <2>2
      <3>2. QED
        BY <1>1, <1>4, <2>2, <3>1 DEF LaterCycle
    <2>3. QED
      BY <2>1, <2>2
  <1>5. CASE PartBuffer
    BY <1>1, <1>5, CycleBounds DEF PartBuffer
  <1>6. QED
    BY <1>3, <1>4, <1>5 DEF CycleInv

\* A push that begins the next cycle.
LEMMA CycleAgain ==
  ASSUME AwgTypeOK, CycleInv, Playing, Step, Again
  PROVE  LaterCycle' \/ PartBuffer'
  <1> DEFINE n == shot_buffer_count
             n0 == shot_buffer_count0
             x == n * spb
             x0 == n0 * spb
  <1>1. /\ UNCHANGED <<wave, shot_buffer_count0>> /\ cursor' = 0 /\ shot_buffer_count' = n + n0
        /\ Pushes => pull_buf' = 1 /\ dma_buffers_out' = dma_buffers_out + 1
        /\ ~Pushes => dma_buffers_out' = dma_buffers_out
        /\ Pushes <=> dma_buffers_out < n + n0
        /\ CycleDone
    BY StepEffect DEF StepCount, StepBuf, Pushes, Again
  <1>2. /\ spb \in Nat /\ spb >= 1 /\ wave \in Nat /\ pull_buf \in Nat /\ dma_buffers_out \in Nat
        /\ n \in Nat /\ n0 \in Nat /\ x \in Nat /\ x0 \in Nat /\ 1 * spb = spb
    BY CycleNumbers
  <1>3. x0 <= wave
    BY DEF CycleInv
  <1>4. CASE ~PartBuffer
    <2>1. n0 >= 1 /\ dma_buffers_out = n /\ pull_buf >= n0
      BY <1>1, <1>4, CycleBounds
    <2>2. FirstCycle \/ LaterCycle
      BY <1>4 DEF CycleInv
    <2>3. n + n0 > n0 + 1 \/ wave = spb
      <3>1. CASE FirstCycle
        <4>1. n >= n0 /\ x >= wave
          BY <1>2, <3>1 DEF FirstCycle
        <4>2. CASE n = 1
          <5>1. n0 = 1
            BY <1>2, <2>1, <4>1, <4>2
          <5>2. x = spb /\ x0 = spb
            BY <1>2, <4>2, <5>1
          <5> HIDE DEF x, x0
          <5>3. QED
            BY <1>2, <1>3, <4>1, <5>2
        <4>3. CASE n # 1
          BY <1>2, <2>1, <4>1, <4>3
        <4>4. QED
          BY <4>2, <4>3
      <3>2. CASE LaterCycle
        <4>1. n > n0 + 1 \/ wave = spb
          BY <3>2 DEF LaterCycle
        <4>2. QED
          BY <1>2, <2>1, <4>1
      <3>3. QED
        BY <2>2, <3>1, <3>2
    <2>4. Pushes
      BY <1>1, <1>2, <2>1
    <2>5. pull_buf' = 1 /\ dma_buffers_out' = n + 1
      BY <1>1, <2>1, <2>4
    <2>6. cursor' + spb <= pull_buf' * spb
      BY <1>1, <1>2, <2>5
    <2>7. shot_buffer_count' - dma_buffers_out' = shot_buffer_count0' - pull_buf' /\ pull_buf' \in 1 .. n0
      BY <1>1, <1>2, <2>1, <2>5
    <2> HIDE DEF x, x0
    <2>8. LaterCycle'
      BY <1>1, <2>1, <2>3, <2>6, <2>7 DEF LaterCycle
    <2>9. QED
      BY <2>8
  <1>5. CASE PartBuffer
    <2>1. ~Pushes
      BY <1>5, CycleBounds
    <2>2. QED
      BY <1>1, <1>2, <1>5, <2>1 DEF PartBuffer
  <1>6. QED
    BY <1>4, <1>5

\* The cursor of a cycle that goes on can fall back, or the cycle is over.
LEMMA CycleKept ==
  ASSUME AwgTypeOK, CycleInv, UNCHANGED Waveform, UNCHANGED <<dma_buffers_out, last_push_done>>,
         Playing' => Playing,
         cursor' \in {cursor, 0} \/ dma_buffers_out >= shot_buffer_count
  PROVE  CycleInv'
  <1> SUFFICES ASSUME Playing' PROVE CycleInv'
    BY DEF CycleInv
  <1>1. Playing
    OBVIOUS
  <1>2. UNCHANGED <<shot_buffer_count, shot_buffer_count0, pull_buf, wave>>
    BY DEF Waveform
  <1> DEFINE m == dma_buffers_out * spb
             p == pull_buf * spb
             d == 2 * spb
  <1>3. /\ spb \in Nat /\ cursor \in Nat /\ dma_buffers_out \in Nat /\ shot_buffer_count \in Nat
        /\ m \in Nat /\ p \in Nat /\ d \in Nat
    BY CycleNumbers
  <1>4. dma_buffers_out < shot_buffer_count => cursor' <= cursor /\ cursor' \in Nat
    BY <1>3
  <1>5. FirstCycle => FirstCycle'
    <2> SUFFICES ASSUME FirstCycle PROVE FirstCycle'
      OBVIOUS
    <2>1. dma_buffers_out < shot_buffer_count => cursor + d <= m
      BY DEF FirstCycle
    <2> HIDE DEF m, p, d
    <2>2. dma_buffers_out < shot_buffer_count => cursor' + d <= m
      BY <1>3, <1>4, <2>1
    <2>3. QED
      BY <1>2, <2>2 DEF FirstCycle, m, d
  <1>6. LaterCycle => LaterCycle'
    <2> SUFFICES ASSUME LaterCycle PROVE LaterCycle'
      OBVIOUS
    <2>1. dma_buffers_out < shot_buffer_count => cursor + spb <= p
      BY DEF LaterCycle
    <2> HIDE DEF m, p, d
    <2>2. dma_buffers_out < shot_buffer_count => cursor' + spb <= p
      BY <1>3, <1>4, <2>1
    <2>3. QED
      BY <1>2, <2>2 DEF LaterCycle, p
  <1>7. PartBuffer => PartBuffer'
    BY <1>2 DEF PartBuffer
  <1>8. QED
    BY <1>1, <1>2, <1>5, <1>6, <1>7 DEF CycleInv

LEMMA CycleStep ==
  ASSUME AwgTypeOK, UserInv, TurnInv, CycleInv, OneShotOnce, Calm, Next
  PROVE  CycleInv'
  <1> USE DEF Calm
  <1>1. CASE Start
    BY <1>1, CycleStart
  <1>2. CASE Step
    <2>1. Playing
      BY <1>2, StepEffect DEF Playing, LoopPc
    <2>2. FirstCycle' \/ LaterCycle' \/ PartBuffer'
      BY <1>2, <2>1, CyclePush, CycleAgain
    <2>3. last_push_done' => dma_buffers_out' >= shot_buffer_count'
      <3>1. CASE Pushes /\ PushesLast
        BY <1>2, <3>1, StepEffect DEF PushesLast
      <3>2. CASE last_push_done
        <4>1. Ended /\ dma_buffers_out >= shot_buffer_count
          BY <2>1, <3>2 DEF TurnInv, CycleInv
        <4>2. ~Pushes
          BY <1>2, <4>1, StepEnds
        <4>3. StepCount <= dma_buffers_out
          BY <4>2, CycleNumbers DEF Pushes, StepCount
        <4>4. QED
          BY <1>2, <4>2, <4>3, StepEffect, CycleNumbers
      <3>3. QED
        BY <1>2, <3>1, <3>2, StepEffect
    <2>4. UNCHANGED <<wave, shot_buffer_count0>>
      BY <1>2, StepEffect
    <2>5. QED
      BY <2>1, <2>2, <2>3, <2>4 DEF CycleInv
  <1>3. CASE \E i \in 0 .. 1 : Transfer(i)
    <2>1. /\ UNCHANGED <<lpc, cursor, dma_buffers_out, last_push_done>>
          /\ UNCHANGED Waveform
      BY <1>3 DEF Transfer, Waveform, playloop, stats, locals
    <2>2. QED
      BY <2>1, CycleKept DEF Playing
  <1>4. CASE StepDown
    <2>1. UNCHANGED Waveform /\ UNCHANGED <<dma_buffers_out, last_push_done>>
      BY <1>4, LoopKeeps DEF Transport
    <2>2. Playing /\ last_push_done
      BY <1>4 DEF StepDown, LoopAt, Playing, LoopPc
    <2>3. dma_buffers_out >= shot_buffer_count
      BY <2>2 DEF CycleInv
    <2>4. QED
      BY <2>1, <2>2, <2>3, CycleKept
  <1>5. CASE \/ LoopHead \/ DmaReady \/ SyncWait \/ DrainReady \/ DrainDone \/ Cleanup \/ LoopEnd
             \/ Decrement \/ CallbackRead \/ CallbackWrite
    <2>1. UNCHANGED Waveform /\ UNCHANGED <<dma_buffers_out, last_push_done>>
      BY <1>5, LoopKeeps DEF Transport
    <2>2. cursor' = cursor \/ StepDown
      BY <1>5, LoopKeeps
    <2>3. Playing' => Playing
      BY <1>5 DEF LoopHead, DmaReady, SyncWait, DrainReady, DrainDone, Cleanup, LoopEnd, Decrement,
         CallbackRead, CallbackWrite, LoopAt, Playing, LoopPc
    <2>4. CASE StepDown
      BY <1>4, <2>4
    <2>5. CASE ~StepDown
      BY <2>1, <2>2, <2>3, <2>5, CycleKept
    <2>6. QED
      BY <2>4, <2>5
  <1>6. CASE DmaTimeout \/ SyncTimeout
    BY <1>6 DEF DmaTimeout, SyncTimeout, TimedOut
  <1>7. CASE CallerStep
    <2>1. /\ UNCHANGED Waveform /\ UNCHANGED <<dma_buffers_out, last_push_done>>
          /\ cursor' \in {cursor, 0}
      BY <1>7, CallersAside DEF Waveform
    <2>2. Playing' => Playing
      BY <1>7, CallersAside
    <2>3. QED
      BY <2>1, <2>2, CycleKept
  <1>8. QED
    BY <1>1, <1>2, <1>3, <1>4, <1>5, <1>6, <1>7, NextParts DEF Loop, Callback

----------------------------------------------------------------------------
(* The order of the buffers.                                               *)

\* The transfer that runs is the first of those on their way.
LEMMA TransferFirst ==
  ASSUME AwgTypeOK, AccountInv, TurnInv, NEW i \in 0 .. 1, Transfer(i)
  PROVE  i = ic \/ (i = other /\ Idle(ic))
  <1>1. Playing /\ ~Idle(i) /\ (i = ic \/ i = other)
    BY TransferAlone
  <1>2. wave \in Nat /\ spb \in Nat
    BY PcTypes, AwgAssumption
  <1>3. CASE wave > spb
    BY <1>3, TransferTurn
  <1>4. CASE ~(wave > spb)
    <2>1. dma_buffers_out <= dma_buffers_in + 1
      BY <1>1, <1>2, <1>4 DEF TurnInv, OneBuffer
    <2> DEFINE x == Len(chan[0])
               y == Len(chan[1])
               z == Len(cdone)
    <2>2. dma_buffers_out = dma_buffers_in + (((dma_callback_done + callbacks) + z) + (x + y))
      BY <1>1 DEF AccountInv, Pending
    <2>3. /\ dma_buffers_out \in Nat /\ dma_buffers_in \in Nat /\ dma_callback_done \in Nat
          /\ callbacks \in Nat /\ z \in {0, 1} /\ x \in Nat /\ y \in Nat
      BY ChannelTypes
    <2> HIDE DEF x, y, z
    <2>4. z \in Nat
      BY <2>3
    <2>5. x = 0 \/ y = 0
      BY <2>1, <2>2, <2>3, <2>4
    <2>6. Idle(0) \/ Idle(1)
      <3>1. chan[0] \in Seq(Transfers) /\ chan[1] \in Seq(Transfers)
        BY ChannelTypes
      <3>2. QED
        BY <2>5, <3>1, HeadTypes DEF Idle, x, y
    <2>7. i = ic \/ Idle(ic)
      <3>1. CASE i = ic
        BY <3>1
      <3>2. CASE i # ic
        <4>1. (i = 0 /\ ic = 1) \/ (i = 1 /\ ic = 0)
          BY <3>2, ChannelTypes
        <4>2. QED
          BY <1>1, <2>6, <4>1, Zenon
      <3>3. QED
        BY <3>1, <3>2
    <2>8. QED
      BY <1>1, <2>7
  <1>5. QED
    BY <1>3, <1>4

\* The transfer that runs comes after the one before.
LEMMA TransferFollows ==
  ASSUME AwgTypeOK, AccountInv, TurnInv, OrderInv, NEW i \in 0 .. 1, Transfer(i)
  PROVE  Follows(played, Head(chan[i]).buf) /\ played' = Head(chan[i]).buf
  <1>1. Playing /\ ~Idle(i) /\ played' = Head(chan[i]).buf
    BY TransferAlone
  <1>2. i = ic \/ (i = other /\ Idle(ic))
    BY TransferFirst
  <1>3. CASE i = ic
    <2>1. CASE Idle(other)
      <3>1. Head(chan[ic]).buf = LastBuf /\ Follows(played, LastBuf)
        BY <1>1, <1>3, <2>1, Zenon DEF OrderInv
      <3>2. QED
        BY <1>1, <1>3, <3>1
    <2>2. CASE ~Idle(other)
      <3>1. Follows(played, Head(chan[ic]).buf)
        BY <1>1, <1>3, <2>2, Zenon DEF OrderInv
      <3>2. QED
        BY <1>1, <1>3, <3>1
    <2>3. QED
      BY <2>1, <2>2
  <1>4. CASE i = other /\ Idle(ic)
    <2>1. Head(chan[other]).buf = LastBuf /\ Follows(played, LastBuf)
      BY <1>1, <1>4, Zenon DEF OrderInv
    <2>2. QED
      BY <1>1, <1>4, <2>1
  <1>5. QED
    BY <1>2, <1>3, <1>4

LEMMA OrderTransfer ==
  ASSUME AwgTypeOK, AccountInv, TurnInv, OrderInv, NEW i \in 0 .. 1, Transfer(i)
  PROVE  OrderInv'
  <1> DEFINE o == other
  <1>1. /\ Playing /\ ~Idle(i) /\ chan' = [chan EXCEPT ![i] = << >>] /\ played' = Head(chan[i]).buf
        /\ UNCHANGED <<ic, shot_buffer_count0, pull_buf>>
        /\ i = ic \/ (i = o /\ Idle(ic))
    BY TransferAlone, TransferFirst
  <1>2. /\ ic' = ic /\ other' = o /\ ic \in {0, 1} /\ o \in {0, 1} /\ o # ic
        /\ chan \in [0 .. 1 -> Seq(Transfers)]
    BY <1>1, ChannelTypes DEF other
  <1>3. LastBuf' = LastBuf
    BY <1>1 DEF LastBuf
  <1>4. \A a, b : Follows(a, b) <=> (b = a + 1 \/ (b = 0 /\ a + 1 >= shot_buffer_count0'))
    BY <1>1 DEF Follows
  <1> HIDE DEF o
  <1>5. CASE i = ic
    <2>1. chan'[ic] = << >> /\ chan'[o] = chan[o]
      BY <1>1, <1>2, <1>5
    <2>2. Idle(ic)' /\ (Idle(other)' <=> Idle(o))
      BY <1>2, <2>1 DEF Idle
    <2>3. CASE Idle(o)
      <3>1. Head(chan[ic]).buf = LastBuf
        BY <1>1, <1>5, <2>3, Zenon DEF OrderInv, o
      <3>2. played' = LastBuf'
        BY <1>1, <1>3, <1>5, <3>1
      <3>3. QED
        BY <2>2, <2>3, <3>2, Zenon DEF OrderInv
    <2>4. CASE ~Idle(o)
      <3>1. Head(chan[o]).buf = LastBuf /\ Follows(Head(chan[ic]).buf, LastBuf)
        BY <1>1, <1>5, <2>4, Zenon DEF OrderInv, o
      <3>2. Head(chan'[other']).buf = LastBuf' /\ Follows(played', LastBuf')
        BY <1>1, <1>2, <1>3, <1>5, <2>1, <3>1, Zenon
      <3>3. Follows(played, LastBuf)'
        BY <1>4, <3>2, Zenon DEF Follows
      <3>4. QED
        BY <2>2, <2>4, <3>2, <3>3, Zenon DEF OrderInv
    <2>5. QED
      BY <2>3, <2>4
  <1>6. CASE i = o
    <2>1. chan'[o] = << >> /\ chan'[ic] = chan[ic] /\ Idle(ic)
      BY <1>1, <1>2, <1>6
    <2>2. Idle(ic)' /\ Idle(other)'
      BY <1>2, <2>1 DEF Idle
    <2>3. Head(chan[o]).buf = LastBuf
      BY <1>1, <1>6, <2>1, Zenon DEF OrderInv, o
    <2>4. played' = LastBuf'
      BY <1>1, <1>3, <1>6, <2>3
    <2>5. QED
      BY <2>2, <2>4, Zenon DEF OrderInv
  <1>7. QED
    BY <1>1, <1>5, <1>6

LEMMA OrderPush ==
  ASSUME AwgTypeOK, TurnInv, CycleInv, OrderInv, Step
  PROVE  OrderInv'
  <1> DEFINE o == other
             t == StepTransfer
  <1>1. Playing /\ Idle(ic)
    BY StepEffect DEF Playing, LoopPc, TurnInv
  <1>2. /\ ic' = o /\ other' = ic /\ ic \in {0, 1} /\ o \in {0, 1} /\ o # ic
        /\ UNCHANGED <<played, shot_buffer_count0>>
    BY StepEffect, ChannelTypes
  <1>3. \A a, b : Follows(a, b) <=> (b = a + 1 \/ (b = 0 /\ a + 1 >= shot_buffer_count0'))
    BY <1>2 DEF Follows
  <1>4. CASE Pushes
    <2>1. chan'[ic] = <<t>> /\ chan'[o] = chan[o]
      BY <1>1, <1>4, PushedChannel
    <2>2. <<t>> # << >> /\ Head(<<t>>) = t
      BY OneTransfer
    <2>3. t.buf = StepBuf
      BY StepTransferType
    <2> HIDE DEF t, o
    <2>4. ~Idle(other)' /\ Head(chan'[other']).buf = StepBuf /\ (Idle(ic)' <=> Idle(o)) /\ chan'[ic'] = chan[o]
      BY <1>2, <2>1, <2>2, <2>3 DEF Idle
    <2>5. ~PartBuffer
      BY <1>1, <1>4, CycleBounds
    <2>6. LastBuf' = StepBuf
      <3>1. pull_buf' = StepBuf + 1 /\ StepBuf \in Nat
        BY <1>4, StepEffect, StepTransferType
      <3>2. shot_buffer_count0' # 0
        BY <1>1, <1>2, <2>5, CycleBounds, CycleNumbers
      <3>3. LastBuf' = pull_buf' - 1
        BY <3>2 DEF LastBuf
      <3>4. QED
        BY <3>1, <3>3
    <2>7. Follows(LastBuf, StepBuf)
      <3>1. LastBuf = pull_buf - 1 /\ pull_buf \in Nat
        BY <1>1, <2>5, CycleBounds, CycleNumbers
      <3>2. CASE Again
        <4>1. pull_buf >= shot_buffer_count0 /\ StepBuf = 0
          BY <1>1, <2>5, <3>2, CycleBounds DEF Again, StepBuf
        <4>2. QED
          BY <3>1, <4>1, CycleNumbers DEF Follows
      <3>3. CASE ~Again
        BY <3>1, <3>3 DEF StepBuf, Follows
      <3>4. QED
        BY <3>2, <3>3
    <2>8. CASE Idle(o)
      <3>1. played' = LastBuf
        BY <1>1, <1>2, <2>8, Zenon DEF OrderInv, o
      <3>2. Follows(played', LastBuf')
        BY <2>6, <2>7, <3>1, Zenon
      <3>3. Follows(played, LastBuf)'
        BY <1>3, <3>2, Zenon DEF Follows
      <3>4. QED
        BY <2>4, <2>6, <2>8, <3>3, Zenon DEF OrderInv
    <2>9. CASE ~Idle(o)
      <3>1. Head(chan[o]).buf = LastBuf /\ Follows(played, LastBuf)
        BY <1>1, <2>9, Zenon DEF OrderInv, o
      <3>2. Follows(Head(chan'[ic']).buf, LastBuf') /\ Follows(played', Head(chan'[ic']).buf)
        BY <1>2, <2>4, <2>6, <2>7, <3>1, Zenon
      <3>3. Follows(Head(chan[ic]).buf, LastBuf)' /\ Follows(played, Head(chan[ic]).buf)'
        BY <1>3, <3>2, Zenon DEF Follows
      <3>4. QED
        BY <2>4, <2>6, <2>9, <3>3, Zenon DEF OrderInv
    <2>10. QED
      BY <2>8, <2>9
  <1>5. CASE ~Pushes
    <2>1. chan' = chan /\ pull_buf' = StepBuf
      BY <1>5, StepEffect
    <2>2. LastBuf' = LastBuf
      <3>1. CASE PartBuffer
        BY <1>2, <3>1 DEF PartBuffer, LastBuf
      <3>2. CASE ~PartBuffer
        <4>1. ~Again
          BY <1>1, <1>5, <3>2, CycleBounds, CycleNumbers DEF Pushes, StepCount
        <4>2. QED
          BY <1>2, <2>1, <4>1 DEF StepBuf, LastBuf
      <3>3. QED
        BY <3>1, <3>2
    <2> HIDE DEF o
    <2>3. Idle(other)' /\ (Idle(ic)' <=> Idle(o)) /\ chan'[ic'] = chan[o]
      BY <1>1, <1>2, <2>1 DEF Idle
    <2>4. CASE Idle(o)
      <3>1. played' = LastBuf'
        BY <1>1, <1>2, <2>2, <2>4, Zenon DEF OrderInv, o
      <3>2. QED
        BY <2>3, <2>4, <3>1, Zenon DEF OrderInv
    <2>5. CASE ~Idle(o)
      <3>1. Head(chan[o]).buf = LastBuf /\ Follows(played, LastBuf)
        BY <1>1, <2>5, Zenon DEF OrderInv, o
      <3>2. Head(chan'[ic']).buf = LastBuf' /\ Follows(played', LastBuf')
        BY <1>2, <2>2, <2>3, <3>1, Zenon
      <3>3. Follows(played, LastBuf)'
        BY <1>3, <3>2, Zenon DEF Follows
      <3>4. QED
        BY <2>3, <2>5, <3>2, <3>3, Zenon DEF OrderInv
    <2>6. QED
      BY <2>4, <2>5
  <1>6. QED
    BY <1>4, <1>5

LEMMA OrderStep ==
  ASSUME AwgTypeOK, AccountInv, TurnInv, CycleInv, OrderInv, Calm, Next
  PROVE  OrderInv'
  <1> USE DEF Calm
  <1>1. CASE Start
    <2> DEFINE s == [buf |-> 0, wait |-> FALSE, set |-> TRUE]
               t == [buf |-> 1, wait |-> TRUE, set |-> TRUE]
    <2>1. Idle(0) /\ Idle(1) /\ chan \in [0 .. 1 -> Seq(Transfers)]
      BY <1>1, StartEffect, ChannelTypes DEF AccountInv, Playing
    <2>2. /\ Primed[0] = <<s>>
          /\ Buffers > 1 => Primed[1] = <<t>>
          /\ ~(Buffers > 1) => Primed[1] = << >>
      BY <2>1, PrimedFromRest
    <2>3. /\ chan' = Primed /\ ic' = 0 /\ played' = -1 /\ shot_buffer_count0' = Whole
          /\ pull_buf' = (IF Buffers > 1 THEN 2 ELSE 1)
      BY <1>1, StartEffect
    <2>4. other' = 1
      BY <2>3 DEF other
    <2>5. s.buf = 0 /\ t.buf = 1
      OBVIOUS
    <2> HIDE DEF s, t
    <2>6. <<s>> # << >> /\ Head(<<s>>) = s /\ <<t>> # << >> /\ Head(<<t>>) = t
      BY OneTransfer
    <2>7. ~Idle(ic)' /\ Head(chan'[ic']).buf = 0
      BY <2>2, <2>3, <2>5, <2>6 DEF Idle
    <2>8. Whole \in Nat /\ Buffers \in Nat /\ Buffers <= Whole + 1
      BY Buffering, PcTypes
    <2>9. CASE Buffers > 1
      <3>1. ~Idle(other)' /\ Head(chan'[other']).buf = 1
        BY <2>2, <2>3, <2>4, <2>5, <2>6, <2>9 DEF Idle
      <3>2. LastBuf' = 1
        BY <2>3, <2>8, <2>9 DEF LastBuf
      <3>3. Follows(Head(chan[ic]).buf, LastBuf)' /\ Follows(played, Head(chan[ic]).buf)'
        BY <2>3, <2>7, <3>2 DEF Follows
      <3>4. QED
        BY <2>7, <3>1, <3>2, <3>3, Zenon DEF OrderInv
    <2>10. CASE ~(Buffers > 1)
      <3>1. Idle(other)'
        BY <2>2, <2>3, <2>4, <2>10 DEF Idle
      <3>2. LastBuf' = 0
        BY <2>3, <2>8, <2>10 DEF LastBuf
      <3>3. Follows(played, LastBuf)'
        BY <2>3, <3>2 DEF Follows
      <3>4. QED
        BY <2>7, <3>1, <3>2, <3>3, Zenon DEF OrderInv
    <2>11. QED
      BY <2>9, <2>10
  <1>2. CASE Step
    BY <1>2, OrderPush
  <1>3. CASE \E i \in 0 .. 1 : Transfer(i)
    BY <1>3, OrderTransfer
  <1>4. ASSUME UNCHANGED Transport, UNCHANGED Waveform, Playing' => Playing
        PROVE  OrderInv'
    <2> SUFFICES ASSUME Playing' PROVE OrderInv'
      BY DEF OrderInv
    <2>1. UNCHANGED <<chan, ic, played, shot_buffer_count0, pull_buf>> /\ Playing
      BY <1>4 DEF Transport, Waveform
    <2>2. other' = other /\ LastBuf' = LastBuf
      BY <2>1 DEF other, LastBuf
    <2>3. \A a, b : Follows(a, b) <=> (b = a + 1 \/ (b = 0 /\ a + 1 >= shot_buffer_count0'))
      BY <2>1 DEF Follows
    <2>4. (Idle(ic)' <=> Idle(ic)) /\ (Idle(other)' <=> Idle(other))
      BY <2>1, <2>2 DEF Idle
    <2>5. /\ Follows(played, LastBuf)' <=> Follows(played, LastBuf)
          /\ Follows(Head(chan[ic]).buf, LastBuf)' <=> Follows(Head(chan[ic]).buf, LastBuf)
          /\ Follows(played, Head(chan[ic]).buf)' <=> Follows(played, Head(chan[ic]).buf)
      BY <2>1, <2>2 DEF Follows
    <2>6. Head(chan[ic]).buf' = Head(chan[ic]).buf /\ Head(chan[other]).buf' = Head(chan[other]).buf
      BY <2>1, <2>2
    <2>7. QED
      BY <2>1, <2>2, <2>4, <2>5, <2>6, Zenon DEF OrderInv
  <1>5. CASE \/ LoopHead \/ DmaReady \/ SyncWait \/ StepDown \/ DrainReady \/ DrainDone \/ Cleanup
             \/ LoopEnd \/ Decrement \/ CallbackRead \/ CallbackWrite
    <2>1. UNCHANGED Transport /\ UNCHANGED Waveform
      BY <1>5, LoopKeeps
    <2>2. Playing' => Playing
      BY <1>5 DEF LoopHead, DmaReady, SyncWait, StepDown, DrainReady, DrainDone, Cleanup, LoopEnd,
         Decrement, CallbackRead, CallbackWrite, LoopAt, Playing, LoopPc
    <2>3. QED
      BY <1>4, <2>1, <2>2
  <1>6. CASE DmaTimeout \/ SyncTimeout
    BY <1>6 DEF DmaTimeout, SyncTimeout, TimedOut
  <1>7. CASE CallerStep
    <2>1. UNCHANGED Transport /\ UNCHANGED Waveform
      BY <1>7, CallersAside DEF Transport, Waveform
    <2>2. Playing' => Playing
      BY <1>7, CallersAside
    <2>3. QED
      BY <1>4, <2>1, <2>2
  <1>8. QED
    BY <1>1, <1>2, <1>3, <1>5, <1>6, <1>7, NextParts DEF Loop, Callback

----------------------------------------------------------------------------
(* The end of a shot.                                                      *)

\* When the buffers of a cycle are out, the last buffer of the waveform is.
LEMMA AllOut ==
  ASSUME AwgTypeOK, CycleInv, Playing, dma_buffers_out >= shot_buffer_count
  PROVE  AllPushed
  <1> DEFINE n == shot_buffer_count
             n0 == shot_buffer_count0
             x == n * spb
             x0 == n0 * spb
             l == LastBuf
             y == (l + 1) * spb
  <1>1. /\ spb \in Nat /\ spb >= 1 /\ wave \in Nat /\ pull_buf \in Nat /\ dma_buffers_out \in Nat
        /\ n \in Nat /\ n0 \in Nat /\ x \in Nat /\ x0 \in Nat /\ 1 * spb = spb
        /\ (n0 + 1) * spb = x0 + spb
    BY CycleNumbers
  <1>2. x0 <= wave /\ wave < (n0 + 1) * spb
    BY DEF CycleInv
  <1>3. CASE PartBuffer
    <2>1. l = 0 /\ n0 = 0 /\ wave < spb
      BY <1>3, CycleBounds DEF PartBuffer
    <2>2. y = spb
      BY <1>1, <2>1
    <2> HIDE DEF l
    <2>3. QED
      BY <1>1, <2>1, <2>2 DEF AllPushed, l
  <1>4. CASE ~PartBuffer
    <2>1. n0 >= 1 /\ dma_buffers_out = n /\ pull_buf >= n0 /\ l + 1 = pull_buf
      BY <1>1, <1>4, CycleBounds DEF CycleDone
    <2>2. CASE FirstCycle
      <3>1. pull_buf = n /\ x >= wave
        BY <1>1, <2>1, <2>2 DEF FirstCycle
      <3>2. y = x
        BY <2>1, <3>1
      <3>3. QED
        BY <1>1, <2>1, <3>1, <3>2 DEF AllPushed
    <2>3. CASE LaterCycle
      <3>1. n > n0 + 1 \/ wave = spb
        BY <2>3 DEF LaterCycle
      <3>2. wave = spb => y >= wave
        <4>1. 1 <= pull_buf => 1 * spb <= pull_buf * spb
          BY <1>1, Multiples
        <4>2. QED
          BY <1>1, <2>1, <4>1
      <3>3. QED
        BY <1>1, <2>1, <3>1, <3>2 DEF AllPushed
    <2>4. QED
      BY <1>4, <2>2, <2>3 DEF CycleInv
  <1>5. QED
    BY <1>3, <1>4

\* The loop runs as long as the cursor is in the waveform.
LEMMA CursorEnds ==
  ASSUME AwgTypeOK, CycleInv, Playing, cursor >= length, length >= wave
  PROVE  AllPushed
  <1> DEFINE n == shot_buffer_count
             n0 == shot_buffer_count0
             m == dma_buffers_out * spb
             p == pull_buf * spb
  <1>1. /\ spb \in Nat /\ spb >= 1 /\ wave \in Nat /\ cursor \in Nat /\ length \in Nat
        /\ pull_buf \in Nat /\ dma_buffers_out \in Nat
        /\ n \in Nat /\ n0 \in Nat /\ m \in Nat /\ p \in Nat /\ 2 * spb = spb + spb
    BY CycleNumbers, PcTypes
  <1>2. cursor >= wave
    BY <1>1
  <1>3. CASE dma_buffers_out >= n
    BY <1>3, AllOut
  <1>4. CASE dma_buffers_out < n
    <2>1. CASE FirstCycle
      <3>1. cursor + 2 * spb <= m /\ (n - 1) * spb < wave
        BY <1>4, <2>1 DEF FirstCycle
      <3>2. dma_buffers_out <= n - 1 /\ n - 1 \in Nat
        BY <1>1, <1>4
      <3>3. m <= (n - 1) * spb /\ (n - 1) * spb \in Nat
        BY <1>1, <3>2, Multiples
      <3> HIDE DEF m
      <3>4. FALSE
        BY <1>1, <1>2, <3>1, <3>3
      <3>5. QED
        BY <3>4
    <2>2. CASE LaterCycle
      <3>1. cursor + spb <= p /\ pull_buf <= n0
        BY <1>1, <1>4, <2>2 DEF LaterCycle
      <3>2. p <= n0 * spb /\ n0 * spb \in Nat
        BY <1>1, <3>1, Multiples
      <3>3. n0 * spb <= wave
        BY DEF CycleInv
      <3> HIDE DEF p
      <3>4. FALSE
        BY <1>1, <1>2, <3>1, <3>2, <3>3
      <3>5. QED
        BY <3>4
    <2>3. CASE PartBuffer
      BY <1>1, <1>4, <2>3 DEF PartBuffer
    <2>4. QED
      BY <2>1, <2>2, <2>3 DEF CycleInv
  <1>5. QED
    BY <1>1, <1>3, <1>4

LEMMA EndStep ==
  ASSUME AwgTypeOK, UserInv, TurnInv, CycleInv, EndInv, OneShotOnce, Calm, Next
  PROVE  EndInv'
  <1> USE DEF Calm
  <1>1. lpc \in LoopPc /\ length \in Nat /\ cursor \in Nat /\ wave \in Nat
    BY CycleNumbers, ChannelTypes, PcTypes
  <1>2. CASE Start \/ Step \/ SyncWait \/ Cleanup
    <2>1. lpc' \in {"head", "step", "none"}
      BY <1>2, StepEffect, StartEffect DEF SyncWait, Cleanup
    <2>2. QED
      BY <2>1 DEF EndInv
  <1>3. ASSUME UNCHANGED Waveform PROVE AllPushed => AllPushed'
    BY <1>3 DEF AllPushed, LastBuf, Waveform
  <1>4. CASE LoopHead \/ DmaReady \/ StepDown \/ DrainReady \/ DrainDone \/ LoopEnd \/ Decrement
             \/ CallbackRead \/ CallbackWrite
    <2>1. UNCHANGED Waveform /\ UNCHANGED <<length, should_stop, wave>>
      BY <1>4, LoopKeeps DEF Waveform
    <2> SUFFICES ASSUME lpc' \in {"drain", "ddec", "fifo"}, ~should_stop, length >= wave
                 PROVE  AllPushed
      BY <1>3, <2>1 DEF EndInv
    <2>2. CASE LoopHead
      <3>1. Playing /\ ~(cursor < length)
        BY <2>2 DEF LoopHead, LoopAt, Playing, LoopPc
      <3>2. cursor >= length
        BY <1>1, <3>1
      <3>3. QED
        BY <3>1, <3>2, CursorEnds
    <2>3. CASE StepDown
      <3>1. Playing /\ last_push_done
        BY <2>3 DEF StepDown, LoopAt, Playing, LoopPc
      <3>2. dma_buffers_out >= shot_buffer_count
        BY <3>1 DEF CycleInv
      <3>3. QED
        BY <3>1, <3>2, AllOut
    <2>4. CASE DmaReady \/ DrainReady \/ DrainDone \/ LoopEnd \/ Decrement \/ CallbackRead \/ CallbackWrite
      <3>1. lpc \in {"drain", "ddec", "fifo"}
        BY <2>4 DEF DmaReady, DrainReady, DrainDone, LoopEnd, Decrement, CallbackRead, CallbackWrite, LoopAt
      <3>2. QED
        BY <3>1 DEF EndInv
    <2>5. QED
      BY <1>4, <2>2, <2>3, <2>4
  <1>5. CASE DmaTimeout \/ SyncTimeout
    BY <1>5 DEF DmaTimeout, SyncTimeout, TimedOut
  <1>6. CASE \E i \in 0 .. 1 : Transfer(i)
    <2>1. UNCHANGED Waveform /\ UNCHANGED <<lpc, length, should_stop, wave>>
      BY <1>6 DEF Transfer, Waveform, playloop, task, locals
    <2>2. QED
      BY <1>3, <2>1 DEF EndInv
  <1>7. CASE CallerStep
    <2>1. UNCHANGED Waveform
      BY <1>7, CallersAside DEF Waveform
    <2>2. lpc' \in {"drain", "ddec", "fifo"} => lpc' = lpc /\ (should_stop => should_stop') /\ Playing
      BY <1>7, CallersAside DEF Playing, LoopPc
    <2>3. Playing /\ length' >= wave => length >= wave
      BY <1>7, ModeStep
    <2>4. wave' = wave
      BY <2>1 DEF Waveform
    <2>5. QED
      BY <1>3, <2>1, <2>2, <2>3, <2>4 DEF EndInv
  <1>8. QED
    BY <1>2, <1>4, <1>5, <1>6, <1>7, NextParts DEF Loop, Callback

----------------------------------------------------------------------------
(* Theorems.                                                               *)

LEMMA AwgStutter ==
  ASSUME AwgTypeOK, UserInv, AccountInv, TurnInv, CycleInv, OrderInv, EndInv, UNCHANGED vars
  PROVE  (AwgTypeOK /\ UserInv /\ AccountInv /\ TurnInv /\ CycleInv /\ OrderInv /\ EndInv)'
  <1> USE DEF vars, playloop, stats, task, dmac, locals, callers
  <1>1. UNCHANGED Transport /\ UNCHANGED Waveform
    BY DEF Transport, Waveform
  <1>2. Playing' <=> Playing
    BY DEF Playing
  <1>3. AwgTypeOK'
    BY DEF AwgTypeOK, LoopTypes, DmacTypes, CallerTypes
  <1>4. UserInv'
    BY <1>2, Zenon DEF UserInv, AO_CONTINUOUS
  <1>5. AccountInv'
    BY <1>2, Zenon DEF AccountInv, Idle, Pending
  <1>6. (Ended' <=> Ended) /\ other' = other /\ LastBuf' = LastBuf
    BY DEF Ended, AO_CONTINUOUS, other, LastBuf
  <1>7. TurnInv'
    <2>1. (PingPong' <=> PingPong) /\ (OneBuffer' <=> OneBuffer)
      BY <1>6, Zenon DEF PingPong, OneBuffer, Idle
    <2>2. QED
      BY <1>2, <1>6, <2>1, Zenon DEF TurnInv, Idle
  <1>8. CycleInv'
    <2>1. UNCHANGED <<dma_buffers_out, last_push_done>> /\ cursor' = cursor
      OBVIOUS
    <2> HIDE DEF vars, playloop, stats, task, dmac, locals, callers
    <2>2. QED
      BY <1>1, <1>2, <2>1, CycleKept
  <1>9. OrderInv'
    BY <1>2, <1>6, Zenon DEF OrderInv, Idle, Follows
  <1>10. EndInv'
    BY <1>6, Zenon DEF EndInv, AllPushed
  <1>11. QED
    BY <1>3, <1>4, <1>5, <1>7, <1>8, <1>9, <1>10

LEMMA AwgInductive ==
  ASSUME AwgInv, OneShotOnce, [Next]_vars
  PROVE  AwgInv'
  <1> SUFFICES ASSUME mishap' = "no"
               PROVE  (AwgTypeOK /\ UserInv /\ AccountInv /\ TurnInv /\ CycleInv /\ OrderInv /\ EndInv)'
    BY DEF AwgInv
  <1>1. Calm
    BY MishapStays DEF Calm
  <1>2. AwgTypeOK /\ UserInv /\ AccountInv /\ TurnInv /\ CycleInv /\ OrderInv /\ EndInv
    BY <1>1 DEF AwgInv, Calm
  <1>3. CASE UNCHANGED vars
    BY <1>2, <1>3, AwgStutter
  <1>4. CASE Next
    <2>1. AwgTypeOK'
      BY <1>1, <1>2, <1>4, LoopTypesStep, DmacTypesStep, CallerTypesStep DEF AwgTypeOK
    <2>2. UserInv'
      BY <1>1, <1>2, <1>4, UserStep
    <2>3. AccountInv'
      <3>1. lpc = "step" => Idle(ic)
        BY <1>2 DEF TurnInv, Playing, LoopPc
      <3>2. QED
        BY <1>1, <1>2, <1>4, <3>1, AccountStep
    <2>4. TurnInv' /\ CycleInv'
      BY <1>1, <1>2, <1>4, TurnStep, CycleStep
    <2>5. OrderInv' /\ EndInv'
      BY <1>1, <1>2, <1>4, OrderStep, EndStep
    <2>6. QED
      BY <2>1, <2>2, <2>3, <2>4, <2>5
  <1>5. QED
    BY <1>3, <1>4

\* As long as no one-shot runs with repeats to do, the parts of the invariant hold
\* together until something goes wrong: a timeout, a lost count, a stale event or a
\* change of the mode in a shot.
THEOREM AwgInvariant == Spec /\ []OneShotOnce => []AwgInv
  <1>1. AwgInv /\ OneShotOnce /\ [Next]_vars => AwgInv'
    BY AwgInductive
  <1>2. QED
    BY <1>1, InitInv, PTL DEF Spec

\* The ping-pong never stops: xo_data_loop() pushes each buffer to the channel
\* whose turn it is, and the transfer that is first never waits for an event that
\* nobody will set.
THEOREM AwgPingPongRuns == Spec /\ []OneShotOnce => []PingPongRuns
  <1>1. AwgInv => PingPongRuns
    <2> SUFFICES ASSUME AwgInv, mishap = "no", NEW c \in 0 .. 1, chan[c] # << >>, wave > spb
                 PROVE  \E i \in 0 .. 1 : chan[i] # << >> /\ (Head(chan[i]).wait => event[i])
      BY DEF PingPongRuns
    <2>1. AwgTypeOK /\ AccountInv /\ TurnInv
      BY DEF AwgInv
    <2>2. Playing
      BY <2>1 DEF AccountInv, Idle
    <2>3. PingPong
      BY <2>1, <2>2 DEF TurnInv
    <2>4. ic \in 0 .. 1 /\ other \in 0 .. 1 /\ (c = ic \/ c = other)
      BY <2>1, ChannelTypes
    <2>5. CASE Idle(ic)
      <3>1. ~Idle(other)
        BY <2>4, <2>5, Zenon DEF Idle
      <3>2. event[other]
        BY <2>3, <2>5, <3>1, Zenon DEF PingPong
      <3>3. QED
        BY <2>4, <3>1, <3>2, Zenon DEF Idle
    <2>6. CASE ~Idle(ic)
      <3>1. Head(chan[ic]).wait => event[ic]
        BY <2>3, <2>6, Zenon DEF PingPong
      <3>2. QED
        BY <2>4, <2>6, <3>1, Zenon DEF Idle
    <2>7. QED
      BY <2>5, <2>6
  <1>2. QED
    BY <1>1, AwgInvariant, PTL

\* A shot ends only when everything that was pushed has been played and counted, and
\* it ends on the last buffer of its waveform: neither the way out of
\* xo_data_loop() nor xo_data_loop_cleanup() leaves one out.
THEOREM AwgShotPlaysOut == Spec /\ []OneShotOnce => []ShotPlaysOut
  <1>1. AwgInv => ShotPlaysOut
    <2> SUFFICES ASSUME AwgInv, mishap = "no" PROVE ShotPlaysOut
      BY DEF ShotPlaysOut
    <2>1. AwgTypeOK /\ UserInv /\ AccountInv /\ OrderInv /\ EndInv
      BY DEF AwgInv
    <2>2. ASSUME ~task_active PROVE \A c \in 0 .. 1 : chan[c] = << >>
      <3>1. ~Playing
        BY <2>1, <2>2 DEF UserInv
      <3>2. Idle(0) /\ Idle(1)
        BY <2>1, <3>1 DEF AccountInv
      <3>3. QED
        BY <3>2 DEF Idle
    <2>3. ASSUME lpc = "fifo", ~should_stop, length # 0
          PROVE  /\ played + 1 >= shot_buffer_count0
                 /\ shot_buffer_count <= shot_buffer_count0 + 1 => (played + 1) * spb >= wave
      <3>1. Playing
        BY <2>3 DEF Playing, LoopPc
      <3>2. length >= wave
        BY <2>1, <2>3, <3>1, PcTypes DEF UserInv
      <3>3. AllPushed
        BY <2>1, <2>3, <3>2 DEF EndInv
      <3>4. Idle(ic) /\ Idle(other)
        <4>1. Idle(0) /\ Idle(1)
          BY <2>1, <2>3 DEF AccountInv
        <4>2. ic \in {0, 1} /\ other \in {0, 1}
          BY <2>1, ChannelTypes
        <4>3. QED
          BY <4>1, <4>2
      <3>5. played = LastBuf
        BY <2>1, <3>1, <3>4, Zenon DEF OrderInv
      <3>6. QED
        BY <3>3, <3>5 DEF AllPushed
    <2>4. QED
      BY <2>2, <2>3 DEF ShotPlaysOut
  <1>2. QED
    BY <1>1, AwgInvariant, PTL

\* What PlayedInOrder says of a transfer.
TransferInOrder ==
  \A c \in 0 .. 1 : Transfer(c) /\ mishap = "no" =>
    \/ played' = played + 1
    \/ played' = 0 /\ played + 1 >= shot_buffer_count0

\* The buffers are played in order, cycle after cycle, whatever the order in which
\* the loop, the callbacks and the DMAC run.
THEOREM AwgPlayedInOrder == Spec /\ []OneShotOnce => PlayedInOrder
  <1>1. AwgInv /\ [Next]_vars => [TransferInOrder]_vars
    <2> SUFFICES ASSUME AwgInv, NEW c \in 0 .. 1, Transfer(c), mishap = "no"
                 PROVE  \/ played' = played + 1
                        \/ played' = 0 /\ played + 1 >= shot_buffer_count0
      BY DEF TransferInOrder
    <2>1. Follows(played, Head(chan[c]).buf) /\ played' = Head(chan[c]).buf
      BY TransferFollows DEF AwgInv
    <2>2. QED
      BY <2>1 DEF Follows
  <1>2. Spec /\ []OneShotOnce => [][TransferInOrder]_vars
    BY <1>1, AwgInvariant, PTL DEF Spec
  <1>3. QED
    BY <1>2 DEF PlayedInOrder, TransferInOrder

\* Where nobody plays a continuous waveform or sets repeats, no one-shot has any to do.
OneShots == Modes \cap {"AO_continuous"} = {} /\ Repeats = {}

NoRepeats == oneshot # "AO_continuous" /\ repeats = 0

LEMMA OneShotsRepeatNothing == OneShots => (Spec => []OneShotOnce)
  <1> SUFFICES ASSUME OneShots PROVE Spec => []OneShotOnce
    OBVIOUS
  <1>1. Init => NoRepeats
    BY DEF Init, NoRepeats
  <1>2. NoRepeats /\ [Next]_vars => NoRepeats'
    <2> SUFFICES ASSUME NoRepeats, [Next]_vars PROVE NoRepeats'
      OBVIOUS
    <2>1. CASE UNCHANGED vars
      BY <2>1 DEF vars, playloop, NoRepeats
    <2>2. CASE Loop \/ (\E i \in 0 .. 1 : Transfer(i)) \/ Callback
      <3>1. CASE Step
        BY <3>1 DEF Step, Again, NoRepeats, AO_CONTINUOUS
      <3>2. CASE ~Step
        BY <2>2, <3>2 DEF Loop, Start, LoopHead, DmaReady, DmaTimeout, Decrement, SyncWait,
           SyncTimeout, StepDown, DrainReady, DrainDone, Cleanup, LoopEnd, TimedOut, Transfer,
           Callback, CallbackRead, CallbackWrite, playloop, NoRepeats
      <3>3. QED
        BY <3>1, <3>2
    <2>3. CASE \E c \in Callers : ResetPlayloop(c)
      BY <2>3 DEF ResetPlayloop, Begin, Abort, Lock, FeederStop, Join, FeederStopped, SetLength,
         FeederStart, Active, Return, playloop, NoRepeats
    <2>4. CASE CallerStep /\ ~\E c \in Callers : ResetPlayloop(c)
      BY <2>4 DEF CallerStep, Rearm, RearmPoll, RearmTest, StoreLength, StoreRepeats, AwgOpen,
         AwgWrite, AwgRelease, SetMode, playloop, NoRepeats, OneShots
    <2>5. QED
      BY <2>1, <2>2, <2>3, <2>4, NextParts
  <1>3. NoRepeats => OneShotOnce
    BY DEF NoRepeats, OneShotOnce
  <1>4. QED
    BY <1>1, <1>2, <1>3, PTL DEF Spec

\* So one-shots, rearmed or not, play in order and to the end, however they are written,
\* stopped and restarted, until something goes wrong.
THEOREM AwgOneShotsPlay ==
  OneShots => (Spec => []PingPongRuns /\ []ShotPlaysOut /\ PlayedInOrder)
  <1> SUFFICES ASSUME OneShots PROVE Spec => []PingPongRuns /\ []ShotPlaysOut /\ PlayedInOrder
    OBVIOUS
  <1>1. Spec => []OneShotOnce
    BY OneShotsRepeatNothing
  <1>2. QED
    BY <1>1, AwgPingPongRuns, AwgShotPlaysOut, AwgPlayedInOrder, PTL
=============================================================================
