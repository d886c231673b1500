------------------------------- MODULE MCAwg -------------------------------
(***************************************************************************)
(* The AWG, for TLC.  samples_per_hb is 2, so that a length of 5 is two    *)
(* buffers and an overspill.  MCAwg.cfg has the modes that play;           *)
(* MCAwgRepeats.cfg shows that a repeated one-shot locks up.               *)
(***************************************************************************)
EXTENDS AwgPlayloop

VARIABLE use                    \* the mode of this behaviour, next to the one-shot

UseInit == Init /\ use \in Modes

\* A behaviour is of one of the modes: a continuous waveform may leave its count
\* in repeats, and a shot with a rearm after it would then be a repeated one.
\* Bound: a waveform that is rearmed is loaded once.
UseNext ==
  /\ Next
  /\ oneshot' \in {use, "AO_oneshot"}
  /\ use = "AO_oneshot_rearm" => stores' <= 1
  /\ UNCHANGED use

UseSpec == UseInit /\ [][UseNext]_<<vars, use>>
=============================================================================
