---------------------------- MODULE MCTransient ----------------------------
(***************************************************************************)
(* acq400_stream at work, for TLC: the processes of the program that start *)
(* and end together (StreamProcesses), and the main process in a transient *)
(* capture (Transient).  A behaviour is one of either, and the other rests *)
(* in its initial state.                                                   *)
(***************************************************************************)
EXTENDS StreamProcesses

CONSTANTS NBuf, SamplesBuffer, Pres, Posts, MaxForTrack, MaxBackTrack, EventLimit,
          MaxIrq, MaxLag, MaxWait, MaxEvents, MaxShots

VARIABLES which,                \* the subject of this behaviour
          hw, sigs, rt, pd, proc, shot, result

shotvars == <<hw, sigs, rt, pd, proc, shot, result>>
allvars == <<which, vars, shotvars>>

T == INSTANCE Transient

ASSUME TransientConstants == T!TransientAssumption

ProcessesOnly == which = "processes" /\ UNCHANGED <<which, shotvars>>
ShotOnly == which = "shot" /\ UNCHANGED <<which, vars>>

AllInit == which \in {"shot", "processes"} /\ Init /\ T!Init

AllNext ==
  \/ ProcessesOnly /\ Next
  \/ T!Next /\ ShotOnly

\* The fairness of Spec of either module.
AllSpec ==
  /\ AllInit /\ [][AllNext]_allvars
  /\ WF_allvars(T!Process /\ ShotOnly) /\ WF_allvars(T!Sample /\ ShotOnly)
  /\ WF_allvars(T!event_action /\ ShotOnly) /\ WF_allvars(T!Trigger /\ ShotOnly)
  /\ WF_allvars(ProcessesOnly /\ ReaperStep)
  /\ SF_allvars(ProcessesOnly /\ WakeOnSignal)
  /\ WF_allvars(ProcessesOnly /\ MainStep)
  /\ WF_allvars(ProcessesOnly /\ Me("live") \in term /\ LiveExits)
  /\ \A l \in 1 .. MaxLaunches, s \in Sites :
       /\ WF_allvars(ProcessesOnly /\ (TakeAggsem(<<l, s>>) \/ HoldOpen(<<l, s>>)
                                         \/ HolderReads(<<l, s>>)))
       /\ WF_allvars(ProcessesOnly /\ <<l, s>> \in term /\ HolderExits(<<l, s>>))

\* Transient: a shot that ends by itself has found its own event, with the samples
\* around it in memory.
DataSetComplete == T!DataSetComplete

\* Transient: a shot that is started with the event switched on ends.
ShotEnds == T!ShotEnds
=============================================================================
