---------------------------- MODULE MCStreamDac ----------------------------
(***************************************************************************)
(* The stream DAC (StreamDac) and the rearming AWG (AwgPlayloop; MCAwg     *)
(* has its other modes), for TLC.  They are two uses of a DAC module,      *)
(* never at once: a behaviour is one of either, and the other rests in its *)
(* initial state.                                                          *)
(***************************************************************************)
EXTENDS StreamDac

VARIABLES
  which,                        \* the use of this behaviour
  length, cursor, oneshot, repeats, cycles, pull_buf, shot, aw_out, aw_in, w_task,
  task_active, aw_stop, aw_done, aw_chan, aw_event, aw_callbacks, played, wave, started,
  lpc, aw_ic, shot_buffer_count, shot_buffer_count0, last_push_done,
  continuous_at_start, dma_timeout, aw_ldone, aw_cdone, tail, aw_pc, arg, stores, file, mishap

awvars ==
  <<length, cursor, oneshot, repeats, cycles, pull_buf, shot, aw_out, aw_in, w_task,
    task_active, aw_stop, aw_done, aw_chan, aw_event, aw_callbacks, played, wave, started,
    lpc, aw_ic, shot_buffer_count, shot_buffer_count0, last_push_done,
    continuous_at_start, dma_timeout, aw_ldone, aw_cdone, tail, aw_pc, arg, stores, file, mishap>>
allvars == <<which, vars, awvars>>

\* A waveform of one sample, played again after each trigger, up to twice.
AW == INSTANCE AwgPlayloop WITH
        dma_buffers_out <- aw_out, dma_buffers_in <- aw_in, should_stop <- aw_stop,
        dma_callback_done <- aw_done, chan <- aw_chan, event <- aw_event, ic <- aw_ic,
        callbacks <- aw_callbacks, ldone <- aw_ldone, cdone <- aw_cdone, pc <- aw_pc, spb <- 2, Lengths <- {0, 1}, Modes <- {"AO_oneshot_rearm"},
        Repeats <- {1}, maxshot <- 2, MaxStores <- 2, MaxCycles <- 1

SdOnly == which = "sd" /\ UNCHANGED <<which, awvars>>
AwgOnly == which = "awg" /\ UNCHANGED <<which, vars>>

AllInit == which \in {"sd", "awg"} /\ Init /\ AW!Init

AllNext ==
  \/ SdOnly /\ Next
  \/ AwgOnly /\ AW!Next

\* The fairness of FairSpec of either module.
AllSpec ==
  /\ AllInit /\ [][AllNext]_allvars
  /\ WF_allvars(SdOnly /\ Worker) /\ WF_allvars(SdOnly /\ Callback)
  /\ \A c \in Clients : WF_allvars(SdOnly /\ (WritePair(c) \/ WriteEnd(c) \/ Join(c)))
  /\ WF_allvars(AwgOnly /\ AW!Loop)
  /\ WF_allvars(AwgOnly /\ AW!Callback)
  /\ WF_allvars(AwgOnly /\ AW!Rearm)
  /\ \A i \in 0 .. 1 :
       WF_allvars(SdOnly /\ Transfer(i)) /\ WF_allvars(AwgOnly /\ AW!Transfer(i))
  /\ \A c \in AW!Callers : WF_allvars(AwgOnly /\ AW!ResetPlayloop(c))

\* No stop is waited for in vain: kthread_stop() of the stream DAC's worker
\* returns, and so does a call of xo400_reset_playloop().
StopsReturn == StopReturns /\ AW!ResetReturns
=============================================================================
