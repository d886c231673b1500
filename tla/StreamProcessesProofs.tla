------------------------ MODULE StreamProcessesProofs ------------------------
(***************************************************************************)
(* Proofs about acq400_stream, for any values of the constants.            *)
(*                                                                         *)
(* StreamProcesses, for any sites and number of launches: no holder stops  *)
(* a site under the main process, and none outlives the reaper, as long as *)
(* no main left without close().                                           *)
(*                                                                         *)
(* Transient, for any ring, buffers, settings and number of shots: a shot  *)
(* that ends by itself has found its own event, with the samples around it *)
(* in memory.  The invariant says how far the process may be behind the    *)
(* capture (LagInv), what its counts mean (CountInv), that there is one    *)
(* event and whether the driver and the process know of it (EventInv),     *)
(* where it lies from the buffer numbers they gave for it (ShotSeenInv),   *)
(* and that a buffer the shot has filled holds nothing else (CleanInv).    *)
(***************************************************************************)
EXTENDS MCTransient, FiniteSetTheorems, WellFoundedInduction, TLAPS

\* A site is not named like one of the other processes.
Names == MaxLaunches \in Nat /\ Sites \cap {"main", "live"} = {}

Processes == Sites \cup {"main", "live"}

TypeOK ==
  /\ launch \in Launches
  /\ reaper \in {"setup", "loop", "pselect", "kill", "reap", "default_wait", "exited"}
  /\ main \in {"forking", "waitHolders", "streaming", "closing", "waiting", "exited"}
  /\ live \in {"none", "running", "exited"}
  /\ holder \in [Launches \X Sites ->
                   {"none", "sem_wait", "open", "opened", "reading", "exited"}]
  /\ term \subseteq Launches \X Processes
  /\ seen \subseteq Sites
  /\ running \in [Sites -> BOOLEAN]
  /\ continuous_reader \in [Sites -> BOOLEAN]
  /\ left \subseteq Launches

LEMMA MeIsLaunched ==
  ASSUME TypeOK, NEW s \in Sites
  PROVE  Me(s) \in Launches \X Sites
  BY DEF TypeOK, Me

LEMMA GroupMembers ==
  ASSUME NEW x \in Group
  PROVE  \E n \in Processes : x = Me(n)
  <1>1. CASE x = Me("main") \/ x = Me("live")
    BY <1>1 DEF Processes
  <1>2. CASE \E s \in Sites : x = Me(s)
    BY <1>2 DEF Processes
  <1>3. QED
    BY <1>1, <1>2 DEF Group

LEMMA GroupIsLaunched ==
  ASSUME TypeOK
  PROVE  Group \subseteq Launches \X Processes
  BY GroupMembers DEF Me, TypeOK

LEMMA TypeStep ==
  ASSUME Names, TypeOK, [Next]_vars
  PROVE  TypeOK'
  <1> USE DEF TypeOK, procs, signals, devices, history
  <1>1. CASE Launch
    BY <1>1 DEF Launch, Names, Launches
  <1>2. CASE ReaperStep \/ Interrupt \/ Terminate \/ Stdin
    <2>1. CASE KillGroup
      BY <2>1, GroupIsLaunched DEF KillGroup
    <2>2. QED
      BY <1>2, <2>1 DEF ReaperStep, Interrupt, Terminate, Stdin, ReaperReady, EnterSelect,
                        WakeOnSignal, Reaped
  <1>3. CASE LiveExits \/ MainFails \/ MainExits \/ MainTermed \/ PostAggsem \/ Stream
    BY <1>3 DEF LiveExits, MainFails, MainExits, MainTermed, PostAggsem, Stream, Exits
  <1>4. CASE KillTheHolders
    BY <1>4, GroupIsLaunched DEF KillTheHolders
  <1>5. ASSUME NEW s \in Sites, ForkHolder(s) \/ HolderReady(s) PROVE TypeOK'
    BY <1>5, MeIsLaunched DEF ForkHolder, HolderReady
  <1>6. ASSUME NEW l \in Launches, NEW s \in Sites, HolderStep(<<l, s>>) PROVE TypeOK'
    <2>1. <<l, s>> \in Launches \X Sites
      OBVIOUS
    <2>2. CASE TakeAggsem(<<l, s>>)
      BY <2>1, <2>2 DEF TakeAggsem
    <2>3. CASE HoldOpen(<<l, s>>)
      BY <2>1, <2>3 DEF HoldOpen
    <2>4. CASE HolderReads(<<l, s>>)
      BY <2>1, <2>4 DEF HolderReads
    <2>5. CASE HolderExits(<<l, s>>)
      BY <2>1, <2>5 DEF HolderExits
    <2>6. QED
      BY <1>6, <2>2, <2>3, <2>4, <2>5 DEF HolderStep
  <1>7. CASE UNCHANGED vars
    BY <1>7 DEF vars
  <1>8. QED
    BY <1>1, <1>2, <1>3, <1>4, <1>5, <1>6, <1>7 DEF Next, MainStep

----------------------------------------------------------------------------
(* The inductive invariant.                                                *)

\* What is still to come: no holder of a later launch, no signal to one.
FutureInv ==
  /\ \A l \in Launches, s \in Sites : l > launch => holder[<<l, s>>] = "none"
  /\ \A l \in Launches, n \in Processes : <<l, n>> \in term => l <= launch
  /\ \A l \in left : l <= launch

\* The children of a reaper that has exited have gone; so have the holders of a
\* main that closed them, and of all those of earlier launches.
PastInv ==
  /\ reaper = "exited" => Gone(main) /\ Gone(live)
  /\ main = "exited" /\ launch \notin left => HoldersGone
  /\ \A l \in Launches, s \in Sites :
       l < launch /\ l \notin left => Gone(holder[<<l, s>>])

\* As long as main goes on, a holder that is told to end is not told alone.
TermInv ==
  main \in {"forking", "waitHolders", "streaming"} /\ (\E s \in Sites : Me(s) \in term)
    => Me("main") \in term

\* With no holder left over from an earlier launch, the state of a site in the
\* driver is that of its one holder.
DeviceInv ==
  left \subseteq {launch} =>
    \A s \in Sites :
      /\ running[s] <=> holder[Me(s)] \in {"opened", "reading"}
      /\ continuous_reader[s] <=> holder[Me(s)] = "reading"

\* A site that waitHolders() has seen is still held.
SeenInv ==
  left \subseteq {launch} /\ main \in {"waitHolders", "streaming"} /\ Me("main") \notin term =>
    \A s \in seen \ quit : holder[Me(s)] = "reading"

\* What it has seen by then: nothing before it starts, all when main streams.
StreamingInv ==
  /\ main = "forking" => seen = {}
  /\ main = "streaming" => seen = Sites

HeldInv ==
  TypeOK /\ FutureInv /\ PastInv /\ TermInv /\ DeviceInv /\ SeenInv /\ StreamingInv

LEMMA LaunchIsNumber ==
  ASSUME Names
  PROVE  Launches \subseteq Int /\ \A l \in Launches : l <= l
  BY DEF Names, Launches

LEMMA FutureStep ==
  ASSUME Names, TypeOK, FutureInv, [Next]_vars
  PROVE  FutureInv'
  <1> USE DEF TypeOK, FutureInv, procs, signals, devices, history
  <1>1. CASE Launch
    BY <1>1 DEF Launch, Names, Launches
  <1>2. CASE ReaperReady \/ EnterSelect \/ WakeOnSignal \/ Reaped \/ Interrupt \/ Terminate \/ Stdin
    BY <1>2 DEF Interrupt, Terminate, Stdin, ReaperReady, EnterSelect, WakeOnSignal, Reaped
  <1>3. CASE KillGroup \/ KillTheHolders
    <2>1. ASSUME NEW l \in Launches, NEW n \in Processes, <<l, n>> \in Group
          PROVE  l <= launch
      BY <2>1, GroupMembers, LaunchIsNumber DEF Me
    <2>2. QED
      BY <1>3, <2>1 DEF KillGroup, KillTheHolders
  <1>4. CASE LiveExits \/ MainFails \/ MainExits
    BY <1>4, LaunchIsNumber DEF LiveExits, MainFails, MainExits, Exits
  <1>5. CASE MainTermed \/ PostAggsem \/ Stream
    BY <1>5 DEF MainTermed, PostAggsem, Stream
  <1>6. ASSUME NEW s \in Sites, ForkHolder(s) \/ HolderReady(s) PROVE FutureInv'
    BY <1>6, MeIsLaunched, LaunchIsNumber DEF ForkHolder, HolderReady, Me
  <1>7. ASSUME NEW l \in Launches, NEW s \in Sites, HolderStep(<<l, s>>) PROVE FutureInv'
    <2>1. <<l, s>> \in Launches \X Sites /\ holder[<<l, s>>] # "none"
      BY <1>7 DEF HolderStep, TakeAggsem, HoldOpen, HolderReads, HolderExits, Gone
    <2>2. QED
      BY <1>7, <2>1 DEF HolderStep, TakeAggsem, HoldOpen, HolderReads, HolderExits
  <1>8. CASE UNCHANGED vars
    BY <1>8 DEF vars
  <1>9. QED
    BY <1>1, <1>2, <1>3, <1>4, <1>5, <1>6, <1>7, <1>8 DEF Next, MainStep, ReaperStep

LEMMA PastStep ==
  ASSUME Names, TypeOK, FutureInv, PastInv, [Next]_vars
  PROVE  PastInv'
  <1> USE DEF TypeOK, PastInv, procs, signals, devices, history, Gone, HoldersGone, Me
  <1>1. CASE Launch
    BY <1>1 DEF Launch, Names, Launches, FutureInv
  <1>2. CASE ReaperReady \/ EnterSelect \/ WakeOnSignal \/ Reaped \/ Interrupt \/ Terminate \/ Stdin
    BY <1>2 DEF Interrupt, Terminate, Stdin, ReaperReady, EnterSelect, WakeOnSignal, Reaped
  <1>3. CASE KillGroup \/ KillTheHolders
    BY <1>3 DEF KillGroup, KillTheHolders
  <1>4. CASE LiveExits \/ MainFails \/ MainExits
    BY <1>4 DEF LiveExits, MainFails, MainExits, Exits
  <1>5. CASE MainTermed \/ PostAggsem \/ Stream
    BY <1>5 DEF MainTermed, PostAggsem, Stream
  <1>6. ASSUME NEW s \in Sites, ForkHolder(s) \/ HolderReady(s) PROVE PastInv'
    BY <1>6, MeIsLaunched DEF ForkHolder, HolderReady, Launches
  <1>7. ASSUME NEW l \in Launches, NEW s \in Sites, HolderStep(<<l, s>>) PROVE PastInv'
    <2>1. <<l, s>> \in Launches \X Sites /\ ~Gone(holder[<<l, s>>])
      BY <1>7 DEF HolderStep, TakeAggsem, HoldOpen, HolderReads, HolderExits
    <2>2. UNCHANGED <<launch, reaper, main, live, left>>
      BY <1>7 DEF HolderStep, TakeAggsem, HoldOpen, HolderReads, HolderExits
    <2>3. \E h : holder' = [holder EXCEPT ![<<l, s>>] = h]
      BY <1>7 DEF HolderStep, TakeAggsem, HoldOpen, HolderReads, HolderExits
    <2>4. QED
      BY <2>1, <2>2, <2>3 DEF Launches
  <1>8. CASE UNCHANGED vars
    BY <1>8 DEF vars
  <1>9. QED
    BY <1>1, <1>2, <1>3, <1>4, <1>5, <1>6, <1>7, <1>8 DEF Next, MainStep, ReaperStep

LEMMA TermStep ==
  ASSUME Names, TypeOK, FutureInv, TermInv, [Next]_vars
  PROVE  TermInv'
  <1> USE DEF TypeOK, TermInv, procs, signals, devices, history
  <1>1. CASE Launch
    <2>1. \A s \in Sites : <<launch + 1, s>> \notin term
      BY <1>1, LaunchIsNumber DEF FutureInv, Launch, Processes
    <2>2. QED
      BY <1>1, <2>1 DEF Launch, Me
  <1>2. CASE ReaperReady \/ EnterSelect \/ WakeOnSignal \/ Reaped \/ Interrupt \/ Terminate \/ Stdin
    <2>1. UNCHANGED <<launch, main, term>>
      BY <1>2 DEF Interrupt, Terminate, Stdin, ReaperReady, EnterSelect, WakeOnSignal, Reaped
    <2>2. QED
      BY <2>1, Zenon DEF Me
  <1>3. CASE KillGroup
    <2>1. ~Gone(main) => Me("main") \in Group
      BY DEF Group
    <2>2. QED
      BY <1>3, <2>1 DEF KillGroup, Gone, Me
  <1>4. CASE KillTheHolders \/ MainFails \/ MainExits \/ MainTermed
    BY <1>4 DEF KillTheHolders, MainFails, MainExits, MainTermed
  <1>5. CASE LiveExits
    <2>1. Me("live") # Me("main") /\ \A s \in Sites : Me(s) # Me("live")
      BY DEF Me, Names
    <2>2. QED
      BY <1>5, <2>1 DEF LiveExits, Exits, Me
  <1>6. CASE PostAggsem \/ Stream
    <2>1. UNCHANGED <<launch, term>> /\ main \in {"forking", "waitHolders", "streaming"}
      BY <1>6 DEF PostAggsem, Stream
    <2>2. QED
      BY <2>1, Zenon DEF Me
  <1>7. ASSUME NEW s \in Sites, ForkHolder(s) \/ HolderReady(s) PROVE TermInv'
    <2>1. UNCHANGED <<launch, main, term>>
      BY <1>7 DEF ForkHolder, HolderReady
    <2>2. QED
      BY <2>1, Zenon DEF Me
  <1>8. ASSUME NEW l \in Launches, NEW s \in Sites, HolderStep(<<l, s>>) PROVE TermInv'
    <2>1. <<l, s>> # Me("main")
      BY DEF Me, Names
    <2>2. term' = term \/ term' = term \ {<<l, s>>}
      BY <1>8 DEF HolderStep, TakeAggsem, HoldOpen, HolderReads, HolderExits
    <2>3. UNCHANGED <<launch, main>>
      BY <1>8 DEF HolderStep, TakeAggsem, HoldOpen, HolderReads, HolderExits
    <2>4. QED
      BY <2>1, <2>2, <2>3 DEF Me
  <1>9. CASE UNCHANGED vars
    BY <1>9 DEF vars, Me
  <1>10. QED
    BY <1>1, <1>2, <1>3, <1>4, <1>5, <1>6, <1>7, <1>8, <1>9 DEF Next, MainStep, ReaperStep

\* Without leftovers, the holder of a site that is not gone is this launch's.
LEMMA OneHolder ==
  ASSUME Names, TypeOK, FutureInv, PastInv, left \subseteq {launch},
         NEW l \in Launches, NEW s \in Sites, ~Gone(holder[<<l, s>>])
  PROVE  l = launch
  <1>1. ~(l > launch)
    BY DEF FutureInv, Gone
  <1>2. ~(l < launch)
    BY LaunchIsNumber DEF PastInv, TypeOK
  <1>3. QED
    BY <1>1, <1>2, LaunchIsNumber DEF TypeOK

LEMMA DeviceStep ==
  ASSUME Names, TypeOK, FutureInv, PastInv, DeviceInv, [Next]_vars
  PROVE  DeviceInv'
  <1> USE DEF TypeOK, procs, signals, devices, history
  <1>1. CASE Launch
    <2> SUFFICES ASSUME left \subseteq {launch + 1}, NEW s \in Sites
                 PROVE  /\ ~running[s] /\ ~continuous_reader[s]
                        /\ holder[<<launch + 1, s>>] = "none"
      BY <1>1 DEF DeviceInv, Launch, Me
    <2>1. launch + 1 \in Launches /\ launch < launch + 1
      BY <1>1 DEF Launch, Launches, Names
    <2>2. left = {}
      BY <2>1, LaunchIsNumber DEF FutureInv
    <2>3. Gone(holder[Me(s)])
      BY <1>1, <2>2 DEF PastInv, Launch, HoldersGone, Gone
    <2>4. QED
      BY <2>1, <2>2, <2>3 DEF DeviceInv, Gone, FutureInv
  <1>2. CASE ReaperReady \/ EnterSelect \/ WakeOnSignal \/ Reaped \/ Interrupt \/ Terminate \/ Stdin
    BY <1>2 DEF Interrupt, Terminate, Stdin, ReaperReady, EnterSelect, WakeOnSignal, Reaped, Me,
                DeviceInv
  <1>3. CASE KillGroup \/ KillTheHolders \/ MainFails \/ MainExits \/ MainTermed \/ LiveExits
    BY <1>3 DEF KillGroup, KillTheHolders, MainFails, MainExits, MainTermed, LiveExits, Me, DeviceInv
  <1>4. CASE PostAggsem \/ Stream
    BY <1>4 DEF PostAggsem, Stream, Me, DeviceInv
  <1>5. ASSUME NEW s \in Sites, ForkHolder(s) \/ HolderReady(s) PROVE DeviceInv'
    BY <1>5 DEF ForkHolder, HolderReady, Me, DeviceInv
  <1>6. ASSUME NEW l \in Launches, NEW s \in Sites, HolderStep(<<l, s>>) PROVE DeviceInv'
    <2> SUFFICES ASSUME left' \subseteq {launch'}, NEW t \in Sites
                 PROVE  /\ running'[t] <=> holder'[<<launch', t>>] \in {"opened", "reading"}
                        /\ continuous_reader'[t] <=> holder'[<<launch', t>>] = "reading"
      BY DEF DeviceInv, Me
    <2>1. left \subseteq {launch} /\ launch' = launch
      BY <1>6 DEF HolderStep, TakeAggsem, HoldOpen, HolderReads, HolderExits
    <2>2. l = launch
      BY <1>6, <2>1, OneHolder DEF HolderStep, TakeAggsem, HoldOpen, HolderReads, HolderExits, Gone
    <2>3. /\ running[t] <=> holder[<<launch, t>>] \in {"opened", "reading"}
          /\ continuous_reader[t] <=> holder[<<launch, t>>] = "reading"
      BY <2>1 DEF DeviceInv, Me
    <2>4. <<launch, t>> \in Launches \X Sites /\ (<<launch, t>> = <<launch, s>> <=> t = s)
      OBVIOUS
    <2>5. CASE TakeAggsem(<<l, s>>)
      BY <2>1, <2>2, <2>3, <2>4, <2>5 DEF TakeAggsem
    <2>6. CASE HoldOpen(<<l, s>>)
      BY <2>1, <2>2, <2>3, <2>4, <2>6 DEF HoldOpen
    <2>7. CASE HolderReads(<<l, s>>)
      BY <2>1, <2>2, <2>3, <2>4, <2>7 DEF HolderReads
    <2>8. CASE HolderExits(<<l, s>>)
      BY <2>1, <2>2, <2>3, <2>4, <2>8 DEF HolderExits
    <2>9. QED
      BY <1>6, <2>5, <2>6, <2>7, <2>8 DEF HolderStep
  <1>7. CASE UNCHANGED vars
    BY <1>7 DEF vars, Me, DeviceInv
  <1>8. QED
    BY <1>1, <1>2, <1>3, <1>4, <1>5, <1>6, <1>7 DEF Next, MainStep, ReaperStep

LEMMA SeenStep ==
  ASSUME Names, HeldInv, [Next]_vars
  PROVE  SeenInv'
  <1> USE DEF HeldInv, TypeOK, procs, signals, devices, history
  <1>1. CASE Launch
    BY <1>1 DEF Launch, SeenInv
  <1>2. CASE ReaperReady \/ EnterSelect \/ WakeOnSignal \/ Reaped \/ Interrupt \/ Terminate \/ Stdin
    <2>1. UNCHANGED <<launch, main, term, holder, seen, quit, left>>
      BY <1>2 DEF Interrupt, Terminate, Stdin, ReaperReady, EnterSelect, WakeOnSignal, Reaped
    <2>2. QED
      BY <2>1, Zenon DEF Me, SeenInv
  <1>3. CASE KillGroup
    <2>1. UNCHANGED <<launch, main, holder, seen, quit, left>> /\ term \subseteq term'
      BY <1>3 DEF KillGroup
    <2>2. QED
      BY <2>1 DEF Me, SeenInv
  <1>4. CASE KillTheHolders \/ MainFails \/ MainExits \/ MainTermed
    BY <1>4 DEF KillTheHolders, MainFails, MainExits, MainTermed, SeenInv
  <1>5. CASE LiveExits
    <2>1. Me("live") # Me("main")
      BY DEF Me
    <2>2. UNCHANGED <<launch, main, holder, seen, quit, left>> /\ term' = term \ {Me("live")}
      BY <1>5 DEF LiveExits, Exits
    <2>3. QED
      BY <2>1, <2>2 DEF Me, SeenInv
  <1>6. CASE PostAggsem
    <2>1. seen = {}
      BY <1>6 DEF PostAggsem, StreamingInv
    <2>2. QED
      BY <1>6, <2>1 DEF PostAggsem, SeenInv
  <1>7. CASE Stream
    BY <1>7 DEF Stream, SeenInv, Me
  <1>8. ASSUME NEW s \in Sites, ForkHolder(s) PROVE SeenInv'
    BY <1>8 DEF ForkHolder, SeenInv
  <1>9. ASSUME NEW s \in Sites, HolderReady(s) PROVE SeenInv'
    <2>1. left \subseteq {launch} => holder[Me(s)] = "reading"
      BY <1>9 DEF HolderReady, DeviceInv
    <2>2. UNCHANGED <<launch, main, term, holder, quit, left>> /\ seen' = seen \cup {s}
      BY <1>9 DEF HolderReady
    <2>3. QED
      BY <1>9, <2>1, <2>2 DEF Me, SeenInv
  <1>10. ASSUME NEW l \in Launches, NEW s \in Sites, HolderStep(<<l, s>>) PROVE SeenInv'
    <2>1. /\ UNCHANGED <<launch, main, seen, left>>
          /\ (term' = term \/ term' = term \ {<<l, s>>})
          /\ quit \subseteq quit'
          /\ \E h : holder' = [holder EXCEPT ![<<l, s>>] = h]
      BY <1>10 DEF HolderStep, TakeAggsem, HoldOpen, HolderReads, HolderExits
    <2>2. <<l, s>> # Me("main")
      BY DEF Me, Names
    <2> SUFFICES ASSUME left \subseteq {launch}, main \in {"waitHolders", "streaming"},
                        Me("main") \notin term, NEW t \in seen \ quit'
                 PROVE  holder'[Me(t)] = "reading"
      BY <2>1, <2>2 DEF SeenInv, Me
    <2>3. holder[Me(t)] = "reading"
      BY <2>1 DEF SeenInv
    <2>4. CASE <<l, s>> # Me(t)
      BY <2>1, <2>3, <2>4 DEF Me
    <2>5. CASE <<l, s>> = Me(t)
      <3>1. t = s /\ Me(s) \notin term
        BY <2>5 DEF TermInv, Me
      <3>2. QED
        BY <1>10, <2>3, <2>5, <3>1 DEF HolderStep, TakeAggsem, HoldOpen, HolderReads, HolderExits
    <2>6. QED
      BY <2>4, <2>5
  <1>11. CASE UNCHANGED vars
    BY <1>11, Zenon DEF vars, Me, SeenInv
  <1>12. QED
    BY <1>1, <1>2, <1>3, <1>4, <1>5, <1>6, <1>7, <1>8, <1>9, <1>10, <1>11
       DEF Next, MainStep, ReaperStep

LEMMA StreamingStep ==
  ASSUME TypeOK, StreamingInv, [Next]_vars
  PROVE  StreamingInv'
  <1> USE DEF TypeOK, StreamingInv, procs, signals, devices, history
  <1>1. CASE Launch
    BY <1>1 DEF Launch
  <1>2. CASE ReaperStep \/ Interrupt \/ Terminate \/ Stdin
    BY <1>2 DEF ReaperStep, Interrupt, Terminate, Stdin, ReaperReady, EnterSelect, WakeOnSignal,
                KillGroup, Reaped
  <1>3. CASE KillTheHolders \/ MainFails \/ MainExits \/ MainTermed \/ LiveExits \/ PostAggsem
    BY <1>3 DEF KillTheHolders, MainFails, MainExits, MainTermed, LiveExits, PostAggsem
  <1>4. CASE Stream
    BY <1>4 DEF Stream
  <1>5. ASSUME NEW s \in Sites, ForkHolder(s) \/ HolderReady(s) PROVE StreamingInv'
    BY <1>5 DEF ForkHolder, HolderReady
  <1>6. ASSUME NEW l \in Launches, NEW s \in Sites, HolderStep(<<l, s>>) PROVE StreamingInv'
    BY <1>6 DEF HolderStep, TakeAggsem, HoldOpen, HolderReads, HolderExits
  <1>7. CASE UNCHANGED vars
    BY <1>7 DEF vars
  <1>8. QED
    BY <1>1, <1>2, <1>3, <1>4, <1>5, <1>6, <1>7 DEF Next, MainStep

----------------------------------------------------------------------------

LEMMA HeldInit ==
  ASSUME Names, Init
  PROVE  HeldInv
  <1> USE DEF Init, Launches, Names
  <1>1. TypeOK
    BY DEF TypeOK
  <1>2. FutureInv
    BY DEF FutureInv
  <1>3. PastInv
    BY DEF PastInv, Gone, HoldersGone, Me
  <1>4. TermInv /\ SeenInv /\ StreamingInv
    BY DEF TermInv, SeenInv, StreamingInv
  <1>5. DeviceInv
    BY DEF DeviceInv, Me
  <1>6. QED
    BY <1>1, <1>2, <1>3, <1>4, <1>5 DEF HeldInv

LEMMA HeldImplies ==
  ASSUME Names, HeldInv
  PROVE  SitesHeld
  <1> USE DEF HeldInv
  <1>1. ASSUME main = "streaming", Me("main") \notin term, left \subseteq {launch},
               NEW s \in Sites \ quit
        PROVE  running[s]
    <2>1. holder[Me(s)] = "reading"
      BY <1>1 DEF SeenInv, StreamingInv
    <2>2. QED
      BY <1>1, <2>1 DEF DeviceInv
  <1>2. ASSUME reaper = "exited", launch \notin left
        PROVE  Group = {}
    <2>1. Gone(main) /\ Gone(live) /\ main = "exited"
      BY <1>2 DEF PastInv, TypeOK, Gone
    <2>2. \A s \in Sites : Gone(holder[Me(s)])
      BY <1>2, <2>1 DEF PastInv, HoldersGone
    <2>3. QED
      BY <2>1, <2>2 DEF Group
  <1>3. QED
    BY <1>1, <1>2 DEF SitesHeld

\* While main streams and has not been told to end, no holder, of this launch or
\* of another, stops a site under it except by giving the site up on an error,
\* and when the reaper of acq400_stream has gone no process of the launch is
\* left: for any sites and launches, however the signals, the polls of
\* waitHolders() and the exits interleave.
THEOREM SitesStayHeld == Names => (Spec => []SitesHeld)
  <1> SUFFICES ASSUME Names PROVE Spec => []SitesHeld
    OBVIOUS
  <1>1. Init => HeldInv
    BY HeldInit
  <1>2. HeldInv /\ [Next]_vars => HeldInv'
    BY TypeStep, FutureStep, PastStep, TermStep, DeviceStep, SeenStep, StreamingStep DEF HeldInv
  <1>3. HeldInv => SitesHeld
    BY HeldImplies
  <1>4. QED
    BY <1>1, <1>2, <1>3, PTL DEF Spec

-----------------------------------------------------------------------------
(***************************************************************************)
(* The transient shot.                                                     *)
(***************************************************************************)

\* The buffer of a sample, by its number in the shot.
Buf(at) == at \div SamplesBuffer
\* The buffers over which n samples reach.
Span(n) == (n + SamplesBuffer - 1) \div SamplesBuffer

\* One event a shot, a process at most two buffers behind, and a search and a ring that
\* are large enough for its settings: findEvent() reaches back as far as the interrupt and
\* the process may be late, and forward no further than the process has streamed when it
\* stops; the samples before and after an event, and how late all is, fit in the ring.
ShotTimely ==
  /\ MaxEvents <= 1 /\ MaxLag <= 2
  /\ Span(MaxIrq) + MaxLag <= MaxBackTrack + 1
  /\ \A post \in Posts : MaxLag + MaxForTrack <= Buf(post) + 4
  /\ \A pre \in Pres, post \in Posts :
       Span(MaxIrq) + MaxLag + 4 + Buf(post) + Span(pre) < NBuf

\* Buffers filled, the events of this shot, and whether one is under way.
Filled == Buf(hw.smp)
Mine == {s \in sigs : s.shot = shot}
InShot == proc.pc \in {"select", "event", "feed", "estop", "end"}

\* Buffers streamed since the event was received, and the number of the buffer that
\* was to be streamed then.
PostBuffers == IF proc.over = 0 THEN Buf(proc.apost) ELSE Buf(proc.post) + proc.over
ReadAt == IF proc.state = "RUN_PRE" THEN proc.rd ELSE proc.rd - 1 - PostBuffers

Infos == {<<>>} \cup (Int \X Int)
Readings == {<<>>} \cup (Nat \X Int \X Int)

\* The states of acq400_stream's process.
ShotProcess ==
  [pc : {"none", "start", "select", "event", "feed", "estop", "end"},
   pre : Nat, post : Nat, enable_state : BOOLEAN,
   state : {"STOP", "ARM", "RUN_PRE", "RUN_POST", "POSTPROCESS"},
   apre : Nat, apost : Nat, over : Nat, accepting : BOOLEAN, received : BOOLEAN,
   info : Infos, reading : Readings,
   fcset : BOOLEAN, rd : Nat, quit : BOOLEAN]

\* At the event file, something is being read.
ReadingOK == proc.pc = "event" => proc.reading \in Nat \X Int \X Int

\* The type invariant of a shot.
ShotTypeOK ==
  /\ hw \in [running : BOOLEAN, smp : Nat, ev0 : BOOLEAN, irq : BOOLEAN]
  /\ sigs \subseteq [shot : Nat, at : Nat] /\ \A s \in sigs : s.shot <= shot
  /\ rt \in [at : Nat, count : Nat]
  /\ pd \in Nat
  /\ shot \in Nat
  /\ proc \in ShotProcess /\ ReadingOK

\* Between shots nothing runs, and a shot starts with its event off.
IdleInv ==
  /\ proc.pc \in {"none", "start"} => ~hw.running /\ ~hw.irq
  /\ proc.pc = "start" =>
       /\ ~hw.ev0 /\ proc.pre \in Pres /\ proc.post \in Posts
       /\ proc.apre = 0 /\ proc.apost = 0 /\ proc.over = 0 /\ proc.rd = 0
       /\ ~proc.accepting /\ ~proc.received /\ ~proc.quit

\* How far the process may be behind the capture, at each of its steps.
LagInv ==
  /\ proc.rd <= Filled
  /\ proc.pc = "select" => Filled <= proc.rd + MaxLag
  /\ proc.pc = "event" => LET b == proc.reading[3] IN
       /\ b <= proc.rd + MaxLag /\ b <= Filled
       /\ Filled <= proc.rd + MaxLag \/ Filled <= b + 1
       /\ IF proc.fcset THEN proc.rd < Filled \/ ~hw.running ELSE b <= proc.rd
  /\ proc.pc = "feed" => /\ Filled <= proc.rd + MaxLag + 1
                         /\ proc.rd < Filled \/ ~hw.running
  /\ proc.pc = "estop" => Filled <= proc.rd + MaxLag /\ (proc.quit \/ ~hw.running)
  /\ proc.pc = "end" => Filled <= proc.rd + MaxLag /\ ~hw.running

\* What streamCore() has counted is what it has streamed.
CountInv ==
  /\ proc.pre \in Pres /\ proc.post \in Posts
  /\ proc.state # "STOP"
  /\ proc.state = "ARM" => proc.apre = 0 /\ proc.apost = 0 /\ proc.over = 0 /\ proc.rd = 0
                           /\ ~proc.accepting /\ ~proc.received
  /\ proc.state = "RUN_PRE" => proc.pre > 0 /\ proc.apost = 0 /\ proc.over = 0
  /\ proc.apre <= proc.pre /\ proc.apre <= proc.rd * SamplesBuffer
  /\ proc.accepting => proc.apre = proc.pre /\ proc.pre > 0
  /\ proc.received => proc.accepting
  /\ proc.state \in {"RUN_POST", "POSTPROCESS"} =>
       IF proc.pre > 0 THEN proc.received /\ proc.rd > PostBuffers ELSE proc.rd = PostBuffers
  /\ IF proc.over = 0 THEN proc.apost = PostBuffers * SamplesBuffer /\ proc.apost <= proc.post
                      ELSE proc.apost = proc.post
  /\ proc.over <= 3
  /\ proc.quit <=> proc.over = 3
  /\ proc.quit <=> proc.state = "POSTPROCESS"
  /\ proc.quit => proc.pc \in {"estop", "end"}
  /\ hw.ev0 => proc.accepting

\* There is one event, at or after pre; the driver and the process know of it in turn.
EventInv ==
  /\ \A s, t \in Mine : s = t
  /\ \A s \in Mine : proc.accepting /\ proc.pre <= s.at /\ s.at <= hw.smp
  /\ hw.irq => rt.at = 0 /\ Mine # {} /\ \A s \in Mine : hw.smp <= s.at + MaxIrq
  /\ rt.at # 0 => /\ Mine # {} /\ rt.at <= hw.smp /\ ~hw.irq
                  /\ \A s \in Mine : s.at <= rt.at /\ rt.at <= s.at + MaxIrq
  /\ Mine # {} => hw.irq \/ rt.at # 0
  /\ pd # 0 => \/ proc.received /\ pd = rt.at
               \/ rt.at = 0 /\ proc.state = "ARM" /\ proc.pc \in {"select", "event"}
  /\ proc.received => rt.at # 0 /\ pd = rt.at /\ proc.info # <<>>
  /\ proc.pc = "event" => /\ proc.reading[1] = rt.at /\ rt.at # pd 
                          /\ rt.at = 0 => proc.state = "ARM"

\* b1 and b2 are what the event device gives of the event after r buffers are streamed:
\* the buffer that was being filled, and the one before it.
Noticed(b1, b2, r) ==
  IF b2 = T!None THEN ~hw.running /\ Filled <= r + MaxLag
  ELSE /\ Buf(rt.at) <= b2 /\ b2 <= r + MaxLag /\ b2 <= Filled
       /\ b1 = IF b2 = 0 THEN T!None ELSE b2 - 1

\* The process reads of the event before it has streamed the event's buffer, and the
\* buffers that it is given are around it.
ShotSeenInv ==
  rt.at # 0 =>
    IF proc.received
    THEN ReadAt <= Buf(rt.at) /\ Noticed(proc.info[1], proc.info[2], ReadAt)
    ELSE /\ proc.pc = "select" => proc.rd <= Buf(rt.at)
         /\ proc.pc = "feed" => proc.rd < Buf(rt.at) \/ (~hw.running /\ proc.rd >= Filled)
         /\ proc.pc = "event" => proc.rd <= Buf(rt.at) /\ Noticed(proc.reading[2], proc.reading[3], proc.rd)

\* A buffer that the shot has filled, and not come round to, holds its data only.
CleanInv ==
  \A d \in 0 .. Filled : d < Filled /\ Filled < d + NBuf =>
    \A s \in sigs : Buf(s.at) % NBuf = d % NBuf => s.shot = shot /\ Buf(s.at) = d

\* What holds of a shot that runs, and of the shot at all times.
InShotInv == LagInv /\ CountInv /\ EventInv /\ ShotSeenInv /\ CleanInv
ShotInv == ShotTypeOK /\ IdleInv /\ T!DataSetComplete /\ (InShot => InShotInv)

\* The constants of Transient.
LEMMA ShotConstants ==
  /\ NBuf \in Nat \ {0} /\ SamplesBuffer \in Nat \ {0}
  /\ Pres \subseteq Nat /\ Posts \subseteq Nat
  /\ MaxForTrack \in Nat \ {0} /\ MaxBackTrack \in Nat \ {0} /\ EventLimit \in Nat \ {0}
  /\ MaxIrq \in Nat \ {0} /\ MaxLag \in Nat \ {0}
  /\ MaxWait \in Nat /\ MaxEvents \in Nat /\ MaxShots \in Nat
  BY TransientConstants DEF T!TransientAssumption

\* The least of a set of numbers.
LEMMA NatMinimum ==
  ASSUME NEW S \in SUBSET Nat, S # {}
  PROVE  \E m \in S : \A n \in S : m <= n
  <1> DEFINE R == {ss \in Nat \X Nat : ss[1] < ss[2]}
  <1>1. IsWellFoundedOn(R, Nat)
    BY NatLessThanWellFounded DEF OpToRel
  <1>2. PICK m \in S : \A n \in S : ~(<<n, m>> \in R)
    <2> HIDE DEF R
    <2>1. QED
      BY <1>1, WFMin
  <1>3. ASSUME NEW n \in S PROVE m <= n
    <2>1. m \in Nat /\ n \in Nat
      OBVIOUS
    <2>2. ~(n < m)
      BY <1>2, <2>1
    <2>3. QED
      BY <2>1, <2>2
  <1>4. QED
    BY <1>3

\* Quotient and remainder.
LEMMA DivideFacts ==
  ASSUME NEW m \in Nat \ {0}, NEW a \in Int
  PROVE  /\ a \div m \in Int /\ a % m \in Int
         /\ a = m * (a \div m) + (a % m) /\ 0 <= a % m /\ a % m < m
  OBVIOUS

\* A quotient and a remainder are the quotient and the remainder.
LEMMA DivideIs ==
  ASSUME NEW m \in Nat \ {0}, NEW a \in Int, NEW q \in Int, NEW r \in Int,
         a = m * q + r, 0 <= r, r < m
  PROVE  a \div m = q /\ a % m = r
  <1>1. /\ a \div m \in Int /\ a % m \in Int
        /\ a = m * (a \div m) + (a % m) /\ 0 <= a % m /\ a % m < m
    BY DivideFacts
  <1> DEFINE x == a \div m
             y == a % m
             k == x - q
  <1> HIDE DEF x, y
  <1>2. k \in Int /\ m * k = r - y
    BY <1>1 DEF x, y
  <1> HIDE DEF k
  <1>3. ~(k <= -1)
    <2>1. k <= -1 => m * k <= -m
      BY <1>2
    <2>2. QED
      BY <1>1, <1>2, <2>1 DEF x, y
  <1>4. ~(k >= 1)
    <2>1. k >= 1 => m * k >= m
      BY <1>2
    <2>2. QED
      BY <1>1, <1>2, <2>1 DEF x, y
  <1>5. k = 0
    BY <1>2, <1>3, <1>4
  <1>6. x = q /\ y = r
    <2>1. x = q
      BY <1>1, <1>5 DEF k, x
    <2>2. QED
      BY <1>1, <2>1 DEF x, y
  <1>7. QED
    BY <1>6 DEF x, y

----------------------------------------------------------------------------
(* Buffers and samples.                                                    *)

\* The samples of a buffer.
LEMMA BufRange ==
  ASSUME NEW a \in Nat
  PROVE  /\ Buf(a) \in Nat
         /\ Buf(a) * SamplesBuffer <= a /\ a < Buf(a) * SamplesBuffer + SamplesBuffer
  <1> DEFINE q == a \div SamplesBuffer
  <1>1. /\ q \in Int /\ a = SamplesBuffer * q + (a % SamplesBuffer)
        /\ 0 <= a % SamplesBuffer /\ a % SamplesBuffer < SamplesBuffer /\ a % SamplesBuffer \in Int
    BY ShotConstants, DivideFacts
  <1>2. Buf(a) = q
    BY DEF Buf
  <1> HIDE DEF q
  <1>3. SamplesBuffer * q = q * SamplesBuffer /\ q * SamplesBuffer \in Int
    BY <1>1, ShotConstants
  <1>4. q >= 0
    <2>1. q <= -1 => q * SamplesBuffer <= -SamplesBuffer
      BY <1>1, ShotConstants
    <2>2. QED
      BY <1>1, <1>3, <2>1, ShotConstants
  <1>5. QED
    BY <1>1, <1>2, <1>3, <1>4, ShotConstants

\* The buffer in which the samples from k buffers on lie.
LEMMA BufIs ==
  ASSUME NEW a \in Nat, NEW k \in Int,
         k * SamplesBuffer <= a, a < k * SamplesBuffer + SamplesBuffer
  PROVE  Buf(a) = k
  <1> DEFINE r == a - k * SamplesBuffer
  <1>1. r \in Int /\ a = SamplesBuffer * k + r /\ 0 <= r /\ r < SamplesBuffer
    BY ShotConstants
  <1>2. QED
    BY <1>1, ShotConstants, DivideIs DEF Buf

\* The samples of some buffers.
LEMMA Times ==
  ASSUME NEW j \in Int, NEW k \in Int
  PROVE  /\ j * SamplesBuffer \in Int
         /\ (j + k) * SamplesBuffer = j * SamplesBuffer + k * SamplesBuffer
         /\ (j + 1) * SamplesBuffer = j * SamplesBuffer + SamplesBuffer
         /\ j <= k => j * SamplesBuffer <= k * SamplesBuffer
         /\ 0 * SamplesBuffer = 0 /\ 1 * SamplesBuffer = SamplesBuffer
  <1>1. /\ j * SamplesBuffer \in Int
        /\ (j + k) * SamplesBuffer = j * SamplesBuffer + k * SamplesBuffer
        /\ (j + 1) * SamplesBuffer = j * SamplesBuffer + SamplesBuffer
        /\ 0 * SamplesBuffer = 0 /\ 1 * SamplesBuffer = SamplesBuffer
    BY ShotConstants
  <1>2. j <= k => j * SamplesBuffer <= k * SamplesBuffer
    BY ShotConstants
  <1>3. QED
    BY <1>1, <1>2

\* Later samples lie in later buffers.
LEMMA BufOrder ==
  ASSUME NEW a \in Nat, NEW b \in Nat
  PROVE  /\ a <= b => Buf(a) <= Buf(b)
         /\ Buf(a) < Buf(b) => a < b
  <1>1. ASSUME Buf(a) > Buf(b) PROVE a > b
    <2>1. Buf(a) \in Nat /\ Buf(b) \in Nat
      BY BufRange
    <2>2. (Buf(b) + 1) * SamplesBuffer <= Buf(a) * SamplesBuffer
      BY <1>1, <2>1, Times
    <2>3. QED
      BY <2>1, <2>2, BufRange, Times, ShotConstants
  <1>2. ASSUME Buf(a) < Buf(b) PROVE a < b
    <2>1. Buf(a) \in Nat /\ Buf(b) \in Nat
      BY BufRange
    <2>2. (Buf(a) + 1) * SamplesBuffer <= Buf(b) * SamplesBuffer
      BY <1>2, <2>1, Times
    <2>3. QED
      BY <2>1, <2>2, BufRange, Times, ShotConstants
  <1>3. QED
    BY <1>1, <1>2, BufRange

\* A sample that completes a buffer is the last one in it.
LEMMA BufNext ==
  ASSUME NEW a \in Nat
  PROVE  Buf(a + 1) = IF (a + 1) % SamplesBuffer = 0 THEN Buf(a) + 1 ELSE Buf(a)
  <1> DEFINE q == Buf(a)
             p == Buf(a + 1)
             r == (a + 1) % SamplesBuffer
  <1>1. /\ q \in Nat /\ q * SamplesBuffer <= a /\ a < q * SamplesBuffer + SamplesBuffer
        /\ p \in Nat /\ p * SamplesBuffer <= a + 1
    BY BufRange
  <1>2. r \in Int /\ a + 1 = p * SamplesBuffer + r /\ 0 <= r
    <2>1. a + 1 = SamplesBuffer * p + r /\ 0 <= r /\ r \in Int
      BY ShotConstants, DivideFacts DEF Buf
    <2> HIDE DEF p, r
    <2>2. QED
      BY <1>1, <2>1, ShotConstants
  <1>3. CASE a + 1 < q * SamplesBuffer + SamplesBuffer
    <2>1. p = q
      <3>1. q \in Int /\ q * SamplesBuffer <= a + 1
        BY <1>1, ShotConstants
      <3> HIDE DEF q
      <3>2. QED
        BY <1>3, <3>1, BufIs
    <2>2. r # 0
      BY <1>1, <1>2, <2>1, Times
    <2>3. QED
      BY <2>1, <2>2
  <1>4. CASE a + 1 = q * SamplesBuffer + SamplesBuffer
    <2>1. (q + 1) * SamplesBuffer = a + 1
      BY <1>1, <1>4, Times
    <2>2. p = q + 1
      <3>1. q + 1 \in Int /\ a + 1 < (q + 1) * SamplesBuffer + SamplesBuffer
        BY <1>1, <2>1, ShotConstants
      <3> HIDE DEF q
      <3>2. QED
        BY <2>1, <3>1, BufIs
    <2>3. r = 0
      <3> HIDE DEF r, q
      <3>1. p * SamplesBuffer = a + 1
        BY <2>1, <2>2
      <3>2. QED
        BY <1>2, <3>1
    <2>4. QED
      BY <2>2, <2>3
  <1>5. QED
    BY <1>1, <1>3, <1>4, Times, ShotConstants

\* How many buffers c samples can take one on.
LEMMA BufFar ==
  ASSUME NEW a \in Nat, NEW b \in Nat, NEW c \in Nat, a <= b + c
  PROVE  Span(c) \in Nat /\ Buf(a) <= Buf(b) + Span(c)
  <1> DEFINE n == c + SamplesBuffer - 1
             k == Buf(n)
  <1>1. n \in Nat
    BY ShotConstants
  <1>2. k \in Nat /\ n < k * SamplesBuffer + SamplesBuffer
    BY <1>1, BufRange
  <1>3. c <= k * SamplesBuffer
    BY <1>2, Times, ShotConstants
  <1>4. /\ Buf(a) \in Nat /\ Buf(b) \in Nat /\ Buf(a) * SamplesBuffer <= a
        /\ b < Buf(b) * SamplesBuffer + SamplesBuffer
    BY BufRange
  <1> HIDE DEF k, n
  <1>5. ~(Buf(a) >= Buf(b) + k + 1)
    <2>1. SUFFICES ASSUME Buf(a) >= (Buf(b) + k) + 1 PROVE FALSE
      BY <1>2, <1>4
    <2>2. ((Buf(b) + k) + 1) * SamplesBuffer <= Buf(a) * SamplesBuffer
      BY <1>2, <1>4, <2>1, Times, ShotConstants
    <2>3. ((Buf(b) + k) + 1) * SamplesBuffer
            = Buf(b) * SamplesBuffer + k * SamplesBuffer + SamplesBuffer
      BY <1>2, <1>4, Times
    <2>4. QED
      BY <1>2, <1>3, <1>4, <2>2, <2>3, Times, ShotConstants
  <1>6. Buf(a) <= Buf(b) + k
    BY <1>2, <1>4, <1>5
  <1>7. QED
    BY <1>2, <1>6 DEF k, n, Buf, Span

----------------------------------------------------------------------------
(* Types.                                                                  *)

\* What the interrupt does.
LEMMA EventAction ==
  ASSUME ShotTypeOK, T!event_action
  PROVE  /\ hw.irq
         /\ rt' = [at |-> hw.smp, count |-> rt.count + 1]
         /\ hw' = [hw EXCEPT !.irq = FALSE, !.ev0 = hw'.ev0]
         /\ hw'.ev0 \in BOOLEAN /\ (hw'.ev0 => hw.ev0)
         /\ UNCHANGED <<sigs, pd, proc, shot, result>>
  <1> DEFINE e == hw.ev0 /\ rt.count + 1 < EventLimit
  <1>1. hw' = [hw EXCEPT !.irq = FALSE, !.ev0 = e] /\ hw.irq
        /\ rt' = [at |-> hw.smp, count |-> rt.count + 1]
        /\ UNCHANGED <<sigs, pd, proc, shot, result>>
    BY Zenon DEF T!event_action
  <1>2. e \in BOOLEAN /\ (e => hw.ev0)
    BY Zenon
  <1> HIDE DEF e
  <1>3. hw'.ev0 = e
    BY <1>1 DEF ShotTypeOK
  <1>4. QED
    BY <1>1, <1>2, <1>3

\* The steps beside the process keep the types.
LEMMA ShotTypeHardware ==
  ASSUME ShotTypeOK,
         T!Sample \/ T!Trigger \/ T!event_action \/ T!Abort \/ T!SetEvent0 \/ T!Kill
  PROVE  ShotTypeOK'
  <1> USE DEF ShotTypeOK
  <1>1. CASE T!Sample
    <2>1. /\ hw' = [hw EXCEPT !.smp = @ + 1] /\ sigs' \subseteq sigs
          /\ UNCHANGED <<rt, pd, proc, shot, result>>
      BY <1>1 DEF T!Sample
    <2>2. ReadingOK'
      BY <2>1 DEF ReadingOK
    <2>3. QED
      BY <2>1, <2>2
  <1>2. CASE T!Trigger
    <2>1. /\ hw' = [hw EXCEPT !.irq = TRUE]
          /\ sigs' = sigs \cup {[shot |-> shot, at |-> hw.smp]}
          /\ UNCHANGED <<rt, pd, proc, shot, result>>
      BY <1>2 DEF T!Trigger
    <2>2. ReadingOK'
      BY <2>1 DEF ReadingOK
    <2>3. hw' \in [running : BOOLEAN, smp : Nat, ev0 : BOOLEAN, irq : BOOLEAN]
      BY <2>1
    <2>4. sigs' \subseteq [shot : Nat, at : Nat] /\ \A s \in sigs' : s.shot <= shot
      <3> DEFINE e == [shot |-> shot, at |-> hw.smp]
      <3>1. e \in [shot : Nat, at : Nat] /\ e.shot <= shot
        OBVIOUS
      <3> HIDE DEF e
      <3>2. sigs' = sigs \cup {e}
        BY <2>1 DEF e
      <3>3. QED
        BY <3>1, <3>2
    <2>5. QED
      BY <2>1, <2>2, <2>3, <2>4
  <1>3. CASE T!event_action
    <2>0. /\ rt' = [at |-> hw.smp, count |-> rt.count + 1]
          /\ hw' = [hw EXCEPT !.irq = FALSE, !.ev0 = hw'.ev0] /\ hw'.ev0 \in BOOLEAN
          /\ UNCHANGED <<sigs, pd, proc, shot, result>>
      BY <1>3, EventAction, Zenon
    <2>1. /\ hw' \in [running : BOOLEAN, smp : Nat, ev0 : BOOLEAN, irq : BOOLEAN]
          /\ rt' \in [at : Nat, count : Nat]
          /\ UNCHANGED <<sigs, pd, proc, shot, result>>
      <3> DEFINE e == hw'.ev0
      <3> HIDE DEF e
      <3>1. hw' = [hw EXCEPT !.irq = FALSE, !.ev0 = e] /\ e \in BOOLEAN
        BY <2>0 DEF e
      <3>2. hw' \in [running : BOOLEAN, smp : Nat, ev0 : BOOLEAN, irq : BOOLEAN]
        BY <3>1
      <3>3. rt' \in [at : Nat, count : Nat]
        BY <2>0
      <3>4. QED
        BY <2>0, <3>2, <3>3, Zenon
    <2>2. ReadingOK'
      BY <2>1 DEF ReadingOK
    <2>3. QED
      BY <2>1, <2>2
  <1>4. CASE T!Abort \/ T!SetEvent0
    <2>1. /\ hw' \in [running : BOOLEAN, smp : Nat, ev0 : BOOLEAN, irq : BOOLEAN]
          /\ UNCHANGED <<sigs, rt, pd, proc, shot, result>>
      BY <1>4 DEF T!Abort, T!SetEvent0
    <2>2. ReadingOK'
      BY <2>1 DEF ReadingOK
    <2>3. QED
      BY <2>1, <2>2
  <1>5. CASE T!Kill
    <2>1. /\ hw' \in [running : BOOLEAN, smp : Nat, ev0 : BOOLEAN, irq : BOOLEAN]
          /\ UNCHANGED <<sigs, rt, pd, shot, result>>
      BY <1>5 DEF T!Kill
    <2>2. proc' \in ShotProcess /\ ReadingOK'
      BY <1>5 DEF T!Kill, T!NoProcess, ShotProcess, ReadingOK, Infos, Readings
    <2>3. QED
      BY <2>1, <2>2
  <1>6. QED
    BY <1>1, <1>2, <1>3, <1>4, <1>5

\* What streaming a buffer does to the process: a buffer before pre is complete, the
\* one after the event, one that finds no event yet; and a buffer after the event, the
\* last that is run over, one that is run over.
StreamsPre ==
  /\ proc.state \in {"ARM", "RUN_PRE"} /\ (proc.state = "ARM" => proc.pre > 0)
  /\ proc'.pc = "select" /\ proc'.apost = proc.apost /\ proc'.over = proc.over
  /\ proc'.quit = proc.quit
  /\ \/ /\ proc.apre + SamplesBuffer < proc.pre
        /\ proc'.apre = proc.apre + SamplesBuffer /\ proc'.state = "RUN_PRE"
        /\ proc'.accepting = proc.accepting
     \/ /\ proc.apre + SamplesBuffer >= proc.pre /\ proc.received
        /\ proc'.apre = proc.pre /\ proc'.state = "RUN_POST"
        /\ proc'.accepting = proc.accepting
     \/ /\ proc.apre + SamplesBuffer >= proc.pre /\ ~proc.received
        /\ proc'.apre = proc.pre /\ proc'.state = "RUN_PRE"
        /\ proc'.accepting = TRUE

StreamsPost ==
  /\ proc.state # "RUN_PRE" /\ (proc.state = "ARM" => proc.pre = 0)
  /\ proc'.apre = proc.apre /\ proc'.accepting = proc.accepting
  /\ \/ /\ proc.apost + SamplesBuffer <= proc.post
        /\ proc'.apost = proc.apost + SamplesBuffer /\ proc'.over = proc.over
        /\ proc'.state = (IF proc.state = "ARM" THEN "RUN_POST" ELSE proc.state)
        /\ proc'.pc = "select" /\ proc'.quit = proc.quit
     \/ /\ proc.apost + SamplesBuffer > proc.post /\ proc.over > 1
        /\ proc'.apost = proc.post /\ proc'.over = proc.over + 1
        /\ proc'.state = "POSTPROCESS" /\ proc'.pc = "estop" /\ proc'.quit = TRUE
     \/ /\ proc.apost + SamplesBuffer > proc.post /\ proc.over <= 1
        /\ proc'.apost = proc.post /\ proc'.over = proc.over + 1
        /\ proc'.state = (IF proc.state = "ARM" THEN "RUN_POST" ELSE proc.state)
        /\ proc'.pc = "select" /\ proc'.quit = proc.quit

Streams ==
  /\ proc' \in ShotProcess
  /\ proc'.rd = proc.rd + 1 /\ proc'.pre = proc.pre /\ proc'.post = proc.post
  /\ proc'.received = proc.received /\ proc'.info = proc.info
  /\ proc'.enable_state = proc.enable_state
  /\ StreamsPre \/ StreamsPost

\* The least of two numbers.
LEMMA LeastOfTwo ==
  ASSUME NEW a \in Int, NEW b \in Int
  PROVE  T!Min({a, b}) = IF a <= b THEN a ELSE b
  <1> DEFINE m == IF a <= b THEN a ELSE b
  <1>1. m \in {a, b} /\ \A y \in {a, b} : m =< y
    OBVIOUS
  <1>2. \A x \in {a, b} : (\A y \in {a, b} : x =< y) => x = m
    OBVIOUS
  <1> HIDE DEF m
  <1>3. QED
    BY <1>1, <1>2 DEF T!Min

\* streamCore() with a buffer, by cases.
LEMMA StreamsABuffer ==
  ASSUME ShotTypeOK, T!StreamBuffer
  PROVE  /\ Streams
         /\ proc.pc = "feed" /\ proc.rd < Filled
         /\ hw' = [hw EXCEPT !.ev0 = hw'.ev0]
         /\ hw'.ev0 \in BOOLEAN
         /\ hw'.ev0 => hw.ev0 \/ proc'.accepting
         /\ UNCHANGED <<sigs, rt, pd, shot, result>>
  <1> DEFINE p1 == [proc EXCEPT !.rd = @ + 1, !.pc = "select",
                                !.state = IF @ = "ARM"
                                          THEN IF proc.pre > 0 THEN "RUN_PRE" ELSE "RUN_POST"
                                          ELSE @]
             p2 == IF p1.state = "RUN_PRE" THEN T!RunPre(p1) ELSE T!RunPost(p1)
  <1>1. /\ proc.pc = "feed" /\ proc.rd < T!Filling
        /\ proc' = p2
        /\ hw' = [hw EXCEPT !.ev0 = IF T!SwitchesOn(p2) THEN p2.enable_state ELSE @]
        /\ UNCHANGED <<sigs, rt, pd, shot, result>>
    BY Zenon DEF T!StreamBuffer
  <1>2. proc.rd < Filled
    BY <1>1 DEF T!Filling, T!BufferOf, Buf, Filled
  <1>3. /\ proc.pre \in Nat /\ proc.post \in Nat /\ proc.apre \in Nat /\ proc.apost \in Nat
        /\ proc.over \in Nat /\ proc.rd \in Nat /\ SamplesBuffer \in Nat
        /\ proc.received \in BOOLEAN
    BY ShotConstants DEF ShotTypeOK, ShotProcess
  <1>p. /\ p1 \in ShotProcess
        /\ p1.rd = proc.rd + 1 /\ p1.pc = "select"
        /\ p1.state = (IF proc.state = "ARM"
                       THEN IF proc.pre > 0 THEN "RUN_PRE" ELSE "RUN_POST" ELSE proc.state)
        /\ p1.pre = proc.pre /\ p1.post = proc.post /\ p1.apre = proc.apre
        /\ p1.apost = proc.apost /\ p1.over = proc.over /\ p1.accepting = proc.accepting
        /\ p1.received = proc.received /\ p1.info = proc.info /\ p1.quit = proc.quit
        /\ p1.enable_state = proc.enable_state
    <2> DEFINE v == IF proc.state = "ARM"
                    THEN IF proc.pre > 0 THEN "RUN_PRE" ELSE "RUN_POST" ELSE proc.state
               n == proc.rd + 1
    <2>1. /\ v \in {"STOP", "ARM", "RUN_PRE", "RUN_POST", "POSTPROCESS"} /\ n \in Nat
          /\ proc \in ShotProcess
      BY <1>3 DEF ShotTypeOK, ShotProcess
    <2>2. p1 = [proc EXCEPT !.rd = n, !.pc = "select", !.state = v]
      OBVIOUS
    <2> HIDE DEF v, n, p1
    <2>3. p1 \in ShotProcess
      BY <2>1, <2>2 DEF ShotProcess
    <2>4. /\ p1.rd = n /\ p1.pc = "select" /\ p1.state = v
          /\ p1.pre = proc.pre /\ p1.post = proc.post /\ p1.apre = proc.apre
          /\ p1.apost = proc.apost /\ p1.over = proc.over /\ p1.accepting = proc.accepting
          /\ p1.received = proc.received /\ p1.info = proc.info /\ p1.quit = proc.quit
          /\ p1.enable_state = proc.enable_state
      BY <2>1, <2>2 DEF ShotProcess
    <2>5. QED
      BY <2>3, <2>4 DEF v, n
  <1>4. ASSUME p1.state = "RUN_PRE" PROVE Streams
    <2>1. proc.state \in {"ARM", "RUN_PRE"} /\ (proc.state = "ARM" => proc.pre > 0)
      BY <1>4, <1>p DEF ShotTypeOK, ShotProcess
    <2>2. proc' = T!RunPre(p1)
      BY <1>1, <1>4
    <2> HIDE DEF p1, p2
    <2> DEFINE a == T!Min({p1.apre + SamplesBuffer, p1.pre})
    <2>3. a = IF proc.apre + SamplesBuffer <= proc.pre THEN proc.apre + SamplesBuffer
              ELSE proc.pre
      <3>1. p1.apre + SamplesBuffer \in Int /\ p1.pre \in Int
        BY <1>3, <1>p
      <3>2. a = IF p1.apre + SamplesBuffer <= p1.pre THEN p1.apre + SamplesBuffer ELSE p1.pre
        BY <3>1, LeastOfTwo
      <3>3. QED
        BY <1>p, <3>2
    <2>4. proc' = IF a < p1.pre THEN [p1 EXCEPT !.apre = a]
                  ELSE IF p1.received THEN [p1 EXCEPT !.apre = a, !.state = "RUN_POST"]
                  ELSE [p1 EXCEPT !.apre = a, !.accepting = TRUE]
      BY <2>2, Zenon DEF T!RunPre
    <2> HIDE DEF a
    <2>5. a \in Nat
      BY <1>3, <2>3
    <2>6. CASE a < p1.pre
      <3>1. proc' = [p1 EXCEPT !.apre = a]
        BY <2>4, <2>6
      <3>2. proc' \in ShotProcess
        BY <1>3, <1>p, <2>3, <2>5, <2>6, <3>1 DEF ShotProcess
      <3>3. /\ proc'.rd = p1.rd /\ proc'.pre = p1.pre /\ proc'.post = p1.post
            /\ proc'.received = p1.received /\ proc'.info = p1.info
            /\ proc'.enable_state = p1.enable_state
            /\ proc'.pc = p1.pc /\ proc'.quit = p1.quit /\ proc'.apost = p1.apost /\ proc'.over = p1.over
            /\ proc'.apre = a /\ proc'.state = p1.state /\ proc'.accepting = p1.accepting
        BY <1>p, <3>1 DEF ShotProcess
      <3>4. QED
        BY <1>3, <1>4, <1>p, <2>1, <2>3, <2>5, <2>6, <3>2, <3>3 DEF Streams, StreamsPre
    <2>7. CASE ~(a < p1.pre) /\ p1.received
      <3>1. proc' = [p1 EXCEPT !.apre = a, !.state = "RUN_POST"]
        BY <2>4, <2>7
      <3>2. proc' \in ShotProcess
        BY <1>3, <1>p, <2>3, <2>5, <2>7, <3>1 DEF ShotProcess
      <3>3. /\ proc'.rd = p1.rd /\ proc'.pre = p1.pre /\ proc'.post = p1.post
            /\ proc'.received = p1.received /\ proc'.info = p1.info
            /\ proc'.enable_state = p1.enable_state
            /\ proc'.pc = p1.pc /\ proc'.quit = p1.quit /\ proc'.apost = p1.apost /\ proc'.over = p1.over
            /\ proc'.apre = a /\ proc'.state = "RUN_POST" /\ proc'.accepting = p1.accepting
        BY <1>p, <3>1 DEF ShotProcess
      <3>4. QED
        BY <1>3, <1>4, <1>p, <2>1, <2>3, <2>5, <2>7, <3>2, <3>3 DEF Streams, StreamsPre
    <2>8. CASE ~(a < p1.pre) /\ ~p1.received
      <3>1. proc' = [p1 EXCEPT !.apre = a, !.accepting = TRUE]
        BY <2>4, <2>8
      <3>2. proc' \in ShotProcess
        BY <1>3, <1>p, <2>3, <2>5, <2>8, <3>1 DEF ShotProcess
      <3>3. /\ proc'.rd = p1.rd /\ proc'.pre = p1.pre /\ proc'.post = p1.post
            /\ proc'.received = p1.received /\ proc'.info = p1.info
            /\ proc'.enable_state = p1.enable_state
            /\ proc'.pc = p1.pc /\ proc'.quit = p1.quit /\ proc'.apost = p1.apost /\ proc'.over = p1.over
            /\ proc'.apre = a /\ proc'.state = p1.state /\ proc'.accepting = TRUE
        BY <1>p, <3>1 DEF ShotProcess
      <3>4. QED
        BY <1>3, <1>4, <1>p, <2>1, <2>3, <2>5, <2>8, <3>2, <3>3 DEF Streams, StreamsPre
    <2>9. QED
      BY <2>6, <2>7, <2>8
  <1>5. ASSUME p1.state # "RUN_PRE" PROVE Streams
    <2>1. proc.state # "RUN_PRE" /\ (proc.state = "ARM" => proc.pre = 0)
      BY <1>3, <1>5, <1>p DEF ShotTypeOK, ShotProcess
    <2>2. proc' = T!RunPost(p1)
      BY <1>1, <1>5
    <2> HIDE DEF p1, p2
    <2> DEFINE a == p1.apost + SamplesBuffer
    <2>3. proc' = IF a <= p1.post THEN [p1 EXCEPT !.apost = a]
                  ELSE IF p1.over > 1
                       THEN [p1 EXCEPT !.apost = p1.post, !.over = @ + 1,
                                       !.state = "POSTPROCESS", !.quit = TRUE, !.pc = "estop"]
                       ELSE [p1 EXCEPT !.apost = p1.post, !.over = @ + 1]
      BY <2>2, Zenon DEF T!RunPost
    <2>4. a \in Nat /\ a = proc.apost + SamplesBuffer
      BY <1>3, <1>p
    <2> HIDE DEF a
    <2>5. CASE a <= p1.post
      <3>1. proc' = [p1 EXCEPT !.apost = a]
        BY <2>3, <2>5
      <3>2. proc' \in ShotProcess
        BY <1>3, <1>p, <2>4, <2>5, <3>1 DEF ShotProcess
      <3>3. /\ proc'.rd = p1.rd /\ proc'.pre = p1.pre /\ proc'.post = p1.post
            /\ proc'.received = p1.received /\ proc'.info = p1.info
            /\ proc'.enable_state = p1.enable_state
            /\ proc'.pc = p1.pc /\ proc'.quit = p1.quit /\ proc'.apost = a /\ proc'.over = p1.over
            /\ proc'.apre = p1.apre /\ proc'.state = p1.state /\ proc'.accepting = p1.accepting
        BY <1>p, <3>1 DEF ShotProcess
      <3>4. QED
        BY <1>3, <1>5, <1>p, <2>1, <2>4, <2>5, <3>2, <3>3 DEF Streams, StreamsPost
    <2>6. CASE ~(a <= p1.post) /\ p1.over > 1
      <3>1. proc' = [p1 EXCEPT !.apost = p1.post, !.over = @ + 1,
                               !.state = "POSTPROCESS", !.quit = TRUE, !.pc = "estop"]
        BY <2>3, <2>6
      <3>2. proc' \in ShotProcess
        <4> DEFINE b == p1.post
                   c == p1.over + 1
        <4>1. b \in Nat /\ c \in Nat /\ p1 \in ShotProcess
          BY <1>3, <1>p
        <4>2. proc' = [p1 EXCEPT !.apost = b, !.over = c,
                                     !.state = "POSTPROCESS", !.quit = TRUE, !.pc = "estop"]
          BY <3>1
        <4> HIDE DEF b, c
        <4>3. QED
          BY <4>1, <4>2 DEF ShotProcess
      <3>3. /\ proc'.rd = p1.rd /\ proc'.pre = p1.pre /\ proc'.post = p1.post
            /\ proc'.received = p1.received /\ proc'.info = p1.info
            /\ proc'.enable_state = p1.enable_state
            /\ proc'.pc = "estop" /\ proc'.quit = TRUE /\ proc'.apost = p1.post
            /\ proc'.over = p1.over + 1 /\ proc'.apre = p1.apre
            /\ proc'.state = "POSTPROCESS" /\ proc'.accepting = p1.accepting
        BY <1>p, <3>1 DEF ShotProcess
      <3>4. QED
        BY <1>3, <1>5, <1>p, <2>1, <2>4, <2>6, <3>2, <3>3 DEF Streams, StreamsPost
    <2>7. CASE ~(a <= p1.post) /\ ~(p1.over > 1)
      <3>1. proc' = [p1 EXCEPT !.apost = p1.post, !.over = @ + 1]
        BY <2>3, <2>7
      <3>2. proc' \in ShotProcess
        <4> DEFINE b == p1.post
                   c == p1.over + 1
        <4>1. b \in Nat /\ c \in Nat /\ p1 \in ShotProcess
          BY <1>3, <1>p
        <4>2. proc' = [p1 EXCEPT !.apost = b, !.over = c]
          BY <3>1
        <4> HIDE DEF b, c
        <4>3. QED
          BY <4>1, <4>2 DEF ShotProcess
      <3>3. /\ proc'.rd = p1.rd /\ proc'.pre = p1.pre /\ proc'.post = p1.post
            /\ proc'.received = p1.received /\ proc'.info = p1.info
            /\ proc'.enable_state = p1.enable_state
            /\ proc'.pc = p1.pc /\ proc'.quit = p1.quit /\ proc'.apost = p1.post
            /\ proc'.over = p1.over + 1 /\ proc'.apre = p1.apre
            /\ proc'.state = p1.state /\ proc'.accepting = p1.accepting
        BY <1>p, <3>1 DEF ShotProcess
      <3>4. QED
        BY <1>3, <1>5, <1>p, <2>1, <2>4, <2>7, <3>2, <3>3 DEF Streams, StreamsPost
    <2>8. QED
      BY <2>5, <2>6, <2>7
  <1>6. Streams
    BY <1>4, <1>5
  <1>7. /\ hw' = [hw EXCEPT !.ev0 = hw'.ev0] /\ hw'.ev0 \in BOOLEAN
        /\ hw'.ev0 => hw.ev0 \/ proc'.accepting
    <2>1. p2.enable_state \in BOOLEAN
      <3>1. proc'.enable_state = proc.enable_state
        BY <1>6 DEF Streams, ShotTypeOK, ShotProcess
      <3>2. QED
        BY <1>1, <3>1, Zenon DEF ShotTypeOK, ShotProcess
    <2>2. T!SwitchesOn(p2) => p2.accepting
      BY Zenon DEF T!SwitchesOn
    <2>3. p2 = proc'
      BY <1>1
    <2> HIDE DEF p1, p2
    <2>4. CASE T!SwitchesOn(p2)
      BY <1>1, <2>1, <2>2, <2>3, <2>4 DEF ShotTypeOK, ShotProcess
    <2>5. CASE ~T!SwitchesOn(p2)
      BY <1>1, <2>5 DEF ShotTypeOK, ShotProcess
    <2>6. QED
      BY <2>4, <2>5
  <1>8. QED
    BY <1>1, <1>2, <1>6, <1>7

\* And so do the steps of the process.
LEMMA ShotTypeProcess ==
  ASSUME ShotTypeOK, T!Process \/ \E pre \in Pres, post \in Posts : T!Construct(pre, post)
  PROVE  ShotTypeOK'
  <1> DEFINE Hardware == [running : BOOLEAN, smp : Nat, ev0 : BOOLEAN, irq : BOOLEAN]
  <1>t. /\ hw \in Hardware /\ proc \in ShotProcess /\ ReadingOK
        /\ sigs \subseteq [shot : Nat, at : Nat] /\ \A s \in sigs : s.shot <= shot
        /\ rt \in [at : Nat, count : Nat] /\ pd \in Nat /\ shot \in Nat
    BY Zenon DEF ShotTypeOK
  <1>1. ASSUME NEW pre \in Pres, NEW post \in Posts, T!Construct(pre, post) PROVE ShotTypeOK'
    <2>1. /\ hw' = [hw EXCEPT !.ev0 = FALSE] /\ pd' = rt.at
          /\ proc' = [T!NoProcess EXCEPT !.pc = "start", !.pre = pre, !.post = post,
                                         !.enable_state = hw.ev0]
          /\ UNCHANGED <<sigs, rt, shot>>
      BY <1>1 DEF T!Construct
    <2>2. pre \in Nat /\ post \in Nat /\ hw.ev0 \in BOOLEAN
      BY <1>t, ShotConstants
    <2>3. proc' \in ShotProcess
      BY <2>1, <2>2 DEF T!NoProcess, ShotProcess, Infos, Readings
    <2>4. proc'.pc = "start"
      BY <2>1 DEF T!NoProcess
    <2>5. hw' \in Hardware /\ pd' \in Nat
      BY <1>t, <2>1
    <2>6. QED
      BY <1>t, <2>1, <2>3, <2>4, <2>5 DEF ShotTypeOK, ReadingOK
  <1>2. CASE T!Start
    <2>1. /\ shot' = shot + 1 /\ rt' = [at |-> 0, count |-> 0]
          /\ hw' = [hw EXCEPT !.running = TRUE, !.smp = 0, !.irq = FALSE]
          /\ proc' = [proc EXCEPT !.pc = "select", !.state = "ARM"]
          /\ UNCHANGED <<sigs, pd>>
      BY <1>2 DEF T!Start
    <2>2. proc' \in ShotProcess /\ proc'.pc = "select"
      BY <1>t, <2>1 DEF ShotProcess
    <2>3. hw' \in Hardware
      BY <1>t, <2>1
    <2>6. rt' \in [at : Nat, count : Nat] /\ shot' \in Nat
      BY <1>t, <2>1
    <2>4. sigs' \subseteq [shot : Nat, at : Nat] /\ \A s \in sigs' : s.shot <= shot'
      BY <1>t, <2>1
    <2>5. QED
      BY <1>t, <2>1, <2>2, <2>3, <2>4, <2>6 DEF ShotTypeOK, ReadingOK
  <1>3. CASE T!Select
    <2> DEFINE b1 == IF T!Filling = 0 THEN T!None ELSE T!Filling - 1
               b2 == IF hw.running THEN T!Filling ELSE T!None
               c == IF T!EventReadable THEN "event" ELSE "feed"
               r == IF ~T!EventReadable THEN <<>> ELSE <<rt.at, b1, b2>>
               f == T!FeedReadable
    <2>1. /\ proc' = [proc EXCEPT !.pc = c, !.fcset = f, !.reading = r]
          /\ UNCHANGED <<hw, sigs, rt, pd, shot>>
      BY <1>3 DEF T!Select
    <2>2. b1 \in Int /\ b2 \in Int /\ rt.at \in Nat
      <3>1. T!Filling \in Int
        BY <1>t, BufRange DEF T!Filling, T!BufferOf, Buf
      <3>2. QED
        BY <1>t, <3>1 DEF T!None
    <2>3. f \in BOOLEAN
      BY Zenon DEF T!FeedReadable
    <2>4. r \in Readings /\ (c = "event" => r \in Nat \X Int \X Int) /\ c \in {"event", "feed"}
      <3> HIDE DEF b1, b2
      <3>1. QED
        BY <2>2 DEF Readings
    <2> HIDE DEF b1, b2, c, r, f
    <2>5. proc' \in ShotProcess /\ proc'.pc = c /\ proc'.reading = r
      BY <1>t, <2>1, <2>3, <2>4 DEF ShotProcess
    <2>6. QED
      BY <1>t, <2>1, <2>4, <2>5 DEF ShotTypeOK, ReadingOK
  <1>4. CASE T!event_read
    <2> DEFINE c == IF proc.fcset THEN "feed" ELSE "select"
               i == <<proc.reading[2], proc.reading[3]>>
               v == proc.received \/ proc.accepting
    <2>1. /\ proc' = [proc EXCEPT !.pc = c, !.info = i, !.received = v]
          /\ pd' = proc.reading[1] /\ UNCHANGED <<hw, sigs, rt, shot>> /\ proc.pc = "event"
      BY <1>4, Zenon DEF T!event_read
    <2>2. proc.reading \in Nat \X Int \X Int
      BY <1>t, <2>1 DEF ReadingOK
    <2>3. i \in Infos /\ pd' \in Nat
      BY <2>1, <2>2 DEF Infos
    <2>4. v \in BOOLEAN /\ c \in {"feed", "select"}
      BY Zenon
    <2> HIDE DEF c, i, v
    <2>5. proc' \in ShotProcess /\ proc'.pc = c
      BY <1>t, <2>1, <2>3, <2>4 DEF ShotProcess
    <2>6. QED
      BY <1>t, <2>1, <2>3, <2>4, <2>5 DEF ShotTypeOK, ReadingOK
  <1>5. CASE T!StreamBuffer
    <2> DEFINE e == hw'.ev0
    <2>1. /\ Streams /\ hw' = [hw EXCEPT !.ev0 = e] /\ e \in BOOLEAN
          /\ UNCHANGED <<sigs, rt, pd, shot>>
      BY <1>5, StreamsABuffer, Zenon
    <2> HIDE DEF e
    <2>2. hw' \in Hardware
      BY <1>t, <2>1
    <2>3. proc' \in ShotProcess /\ proc'.pc \in {"select", "estop"}
      BY <2>1 DEF Streams, StreamsPre, StreamsPost
    <2>4. QED
      BY <1>t, <2>1, <2>2, <2>3 DEF ShotTypeOK, ReadingOK
  <1>6. CASE T!FeedEnds \/ T!estop
    <2>1. PICK c \in {"estop", "end"} :
            proc' = [proc EXCEPT !.pc = c] /\ UNCHANGED <<sigs, rt, pd, shot>>
      BY <1>6, Zenon DEF T!FeedEnds, T!estop
    <2>2. proc' \in ShotProcess /\ proc'.pc = c
      BY <1>t, <2>1 DEF ShotProcess
    <2>3. hw' \in Hardware
      BY <1>6, <1>t DEF T!FeedEnds, T!estop
    <2>4. QED
      BY <1>t, <2>1, <2>2, <2>3 DEF ShotTypeOK, ReadingOK
  <1>7. CASE T!Finish
    <2> DEFINE e == hw.ev0 \/ rt.count >= EventLimit
    <2>1. /\ hw' = [hw EXCEPT !.ev0 = e, !.irq = FALSE] /\ proc' = T!NoProcess
          /\ UNCHANGED <<sigs, rt, pd, shot>>
      BY <1>7, Zenon DEF T!Finish
    <2>2. e \in BOOLEAN
      BY Zenon
    <2> HIDE DEF e
    <2>3. hw' \in Hardware
      BY <1>t, <2>1, <2>2
    <2>4. proc' \in ShotProcess /\ proc'.pc = "none"
      BY <2>1 DEF T!NoProcess, ShotProcess, Infos, Readings
    <2>5. QED
      BY <1>t, <2>1, <2>3, <2>4 DEF ShotTypeOK, ReadingOK
  <1>8. QED
    BY <1>1, <1>2, <1>3, <1>4, <1>5, <1>6, <1>7 DEF T!Process

\* Every step keeps the types.
LEMMA ShotTypeStep ==
  ASSUME ShotTypeOK, [T!Next]_shotvars
  PROVE  ShotTypeOK'
  <1>1. CASE UNCHANGED shotvars
    BY <1>1 DEF shotvars, ShotTypeOK, ReadingOK
  <1>2. CASE T!Next
    BY <1>2, ShotTypeHardware, ShotTypeProcess, Zenon DEF T!Next
  <1>3. QED
    BY <1>1, <1>2

\* The parts of a state, as numbers.
LEMMA ShotFields ==
  ASSUME ShotTypeOK
  PROVE  /\ hw.running \in BOOLEAN /\ hw.smp \in Nat /\ hw.ev0 \in BOOLEAN /\ hw.irq \in BOOLEAN
         /\ rt.at \in Nat /\ pd \in Nat /\ shot \in Nat
         /\ proc.pre \in Nat /\ proc.post \in Nat /\ proc.apre \in Nat /\ proc.apost \in Nat
         /\ proc.over \in Nat /\ proc.rd \in Nat
         /\ proc.pc \in {"none", "start", "select", "event", "feed", "estop", "end"}
         /\ proc.state \in {"STOP", "ARM", "RUN_PRE", "RUN_POST", "POSTPROCESS"}
         /\ proc.accepting \in BOOLEAN /\ proc.received \in BOOLEAN /\ proc.quit \in BOOLEAN
         /\ proc.fcset \in BOOLEAN /\ proc.info \in Infos
         /\ proc.pc = "event" => /\ proc.reading[1] \in Nat /\ proc.reading[2] \in Int
                                 /\ proc.reading[3] \in Int
         /\ Filled \in Nat /\ Buf(rt.at) \in Nat
         /\ \A s \in sigs : s.at \in Nat /\ s.shot \in Nat /\ Buf(s.at) \in Nat
         /\ SamplesBuffer \in Nat \ {0} /\ NBuf \in Nat \ {0} /\ MaxLag \in Nat /\ MaxLag >= 1
  <1>1. /\ hw.running \in BOOLEAN /\ hw.smp \in Nat /\ hw.ev0 \in BOOLEAN /\ hw.irq \in BOOLEAN
        /\ rt.at \in Nat /\ pd \in Nat /\ shot \in Nat
    BY DEF ShotTypeOK
  <1>2. /\ proc.pre \in Nat /\ proc.post \in Nat /\ proc.apre \in Nat /\ proc.apost \in Nat
        /\ proc.over \in Nat /\ proc.rd \in Nat
        /\ proc.pc \in {"none", "start", "select", "event", "feed", "estop", "end"}
        /\ proc.state \in {"STOP", "ARM", "RUN_PRE", "RUN_POST", "POSTPROCESS"}
        /\ proc.accepting \in BOOLEAN /\ proc.received \in BOOLEAN /\ proc.quit \in BOOLEAN
        /\ proc.fcset \in BOOLEAN /\ proc.info \in Infos
    BY DEF ShotTypeOK, ShotProcess
  <1>3. proc.pc = "event" => /\ proc.reading[1] \in Nat /\ proc.reading[2] \in Int
                             /\ proc.reading[3] \in Int
    BY DEF ShotTypeOK, ReadingOK
  <1>4. Filled \in Nat /\ Buf(rt.at) \in Nat
    BY <1>1, BufRange DEF Filled
  <1>5. \A s \in sigs : s.at \in Nat /\ s.shot \in Nat /\ Buf(s.at) \in Nat
    <2>1. \A s \in sigs : s.at \in Nat /\ s.shot \in Nat
      BY DEF ShotTypeOK
    <2>2. QED
      BY <2>1, BufRange
  <1>6. SamplesBuffer \in Nat \ {0} /\ NBuf \in Nat \ {0} /\ MaxLag \in Nat /\ MaxLag >= 1
    BY ShotConstants
  <1>7. QED
    BY <1>1, <1>2, <1>3, <1>4, <1>5, <1>6, Zenon

\* An event received has buffer numbers.
LEMMA ReceivedInfo ==
  ASSUME ShotTypeOK, EventInv, proc.received
  PROVE  proc.info[1] \in Int /\ proc.info[2] \in Int
  <1>1. proc.info \in Infos /\ proc.info # <<>>
    BY ShotFields DEF EventInv
  <1>2. QED
    BY <1>1 DEF Infos

\* What the hypotheses say of this shot.
LEMMA ShotBounds ==
  ASSUME ShotTimely, ShotTypeOK, CountInv
  PROVE  /\ Span(MaxIrq) \in Nat /\ Span(proc.pre) \in Nat /\ Buf(proc.post) \in Nat
         /\ MaxEvents <= 1 /\ MaxLag <= 2
         /\ Span(MaxIrq) + MaxLag <= MaxBackTrack + 1
         /\ MaxLag + MaxForTrack <= Buf(proc.post) + 4
         /\ Span(MaxIrq) + MaxLag + 4 + Buf(proc.post) + Span(proc.pre) < NBuf
         /\ PostBuffers \in Nat /\ PostBuffers <= Buf(proc.post) + proc.over
         /\ proc.over = 0 => PostBuffers = Buf(proc.apost)
         /\ proc.over > 0 => PostBuffers = Buf(proc.post) + proc.over
  <1>1. proc.pre \in Pres /\ proc.post \in Posts
    BY DEF CountInv
  <1>2. MaxIrq \in Nat /\ proc.pre \in Nat /\ proc.post \in Nat /\ proc.apost \in Nat
        /\ proc.over \in Nat
    BY ShotConstants, ShotFields
  <1>3. Span(MaxIrq) \in Nat /\ Span(proc.pre) \in Nat
    BY <1>2, BufFar
  <1>4. Buf(proc.post) \in Nat /\ Buf(proc.apost) \in Nat
    BY <1>2, BufRange
  <1>5. proc.over = 0 => Buf(proc.apost) <= Buf(proc.post)
    <2>1. proc.over = 0 => proc.apost <= proc.post
      BY DEF CountInv
    <2>2. QED
      BY <1>2, <2>1, BufOrder
  <1>6. /\ proc.over = 0 => PostBuffers = Buf(proc.apost)
        /\ proc.over # 0 => PostBuffers = Buf(proc.post) + proc.over
    BY Zenon DEF PostBuffers
  <1>7. QED
    BY <1>1, <1>2, <1>3, <1>4, <1>5, <1>6 DEF ShotTimely

----------------------------------------------------------------------------
(* What is not overwritten.                                                *)

\* While the capture runs or once the event is read, the ring has not come round to the
\* samples before the shot's event.
LEMMA EventKept ==
  ASSUME ShotTimely, ShotTypeOK, InShot, LagInv, CountInv, EventInv, ShotSeenInv,
         hw.running \/ proc.received, NEW s \in Mine
  PROVE  Filled + Span(proc.pre) < Buf(s.at) + NBuf
  <1>f. /\ s \in sigs /\ s.at \in Nat /\ Buf(s.at) \in Nat /\ hw.smp \in Nat /\ rt.at \in Nat
        /\ Filled \in Nat /\ Buf(rt.at) \in Nat /\ proc.rd \in Nat /\ proc.over \in Nat
        /\ MaxLag \in Nat /\ MaxLag >= 1 /\ NBuf \in Nat /\ MaxIrq \in Nat
        /\ proc.state \in {"STOP", "ARM", "RUN_PRE", "RUN_POST", "POSTPROCESS"}
    <2>1. s \in sigs
      BY DEF Mine
    <2>2. QED
      BY <2>1, ShotFields, ShotConstants
  <1> DEFINE E == Buf(rt.at)
             B == Buf(s.at)
             I == Span(MaxIrq)
             F == Buf(proc.post)
             R == Span(proc.pre)
  <1>b. /\ I \in Nat /\ R \in Nat /\ F \in Nat /\ PostBuffers \in Nat
        /\ I + MaxLag + 4 + F + R < NBuf
        /\ PostBuffers <= F + proc.over
    BY ShotBounds
  <1>1. SUFFICES Filled <= B + I + 4 + F + MaxLag
    BY <1>f, <1>b
  <1>2. CASE hw.irq
    <2>1. hw.smp <= s.at + MaxIrq
      BY <1>2 DEF EventInv
    <2>2. Filled <= B + I
      BY <1>f, <2>1, BufFar DEF Filled
    <2>3. QED
      BY <1>f, <1>b, <2>2
  <1>3. CASE ~hw.irq
    <2>1. rt.at # 0 /\ rt.at <= s.at + MaxIrq
      BY <1>3 DEF EventInv
    <2>2. E <= B + I
      BY <1>f, <2>1, BufFar
    <2> HIDE DEF E, B, I, F, R
    <2>3. CASE proc.received
      <3>1. ReadAt <= E
        BY <2>1, <2>3 DEF ShotSeenInv, E
      <3>2. proc.pc # "event"
        BY <2>3 DEF EventInv
      <3>3. proc.over <= 3 /\ (proc.quit <=> proc.over = 3)
            /\ (proc.quit => proc.pc \in {"estop", "end"}) /\ proc.state # "STOP"
            /\ (proc.state = "RUN_PRE" => proc.over = 0)
        BY DEF CountInv
      <3>4. proc.rd <= E + 1 + F + proc.over
        BY <1>f, <1>b, <3>1, <3>3 DEF ReadAt, E
      <3>5. \/ Filled <= proc.rd + MaxLag
            \/ Filled <= proc.rd + MaxLag + 1 /\ proc.pc = "feed"
        BY <3>2 DEF LagInv, InShot
      <3>6. E \in Nat
        BY <1>f DEF E
      <3>7. B \in Nat
        BY <1>f DEF B
      <3>8. CASE proc.pc = "feed"
        <4>1. proc.over <= 2
          BY <1>f, <3>3, <3>8
        <4>2. QED
          BY <1>f, <1>b, <2>2, <3>4, <3>5, <3>6, <3>7, <4>1
      <3>9. CASE proc.pc # "feed"
        BY <1>f, <1>b, <2>2, <3>3, <3>4, <3>5, <3>6, <3>7, <3>9
      <3>10. QED
        BY <3>8, <3>9
    <2>4. CASE ~proc.received
      <3>1. hw.running
        BY <2>4
      <3>2. proc.accepting
        BY DEF EventInv
      <3>3. ~proc.quit
        BY <2>4, <3>2 DEF CountInv
      <3>4. proc.pc \in {"select", "event", "feed"}
        BY <3>1, <3>3 DEF LagInv, InShot
      <3>5. proc.rd <= E /\ (proc.pc = "feed" => proc.rd < E)
        BY <1>f, <2>1, <2>4, <3>1, <3>4 DEF ShotSeenInv, E
      <3>6. Filled <= E + MaxLag + 1
        <4>1. CASE proc.pc = "event"
          <5>1. proc.reading[3] \in Int
            BY <4>1, ShotFields
          <5>2. /\ proc.reading[3] <= proc.rd + MaxLag
                /\ Filled <= proc.rd + MaxLag \/ Filled <= proc.reading[3] + 1
            BY <4>1 DEF LagInv
          <5>3. E \in Nat
            BY <1>f DEF E
          <5>4. QED
            BY <1>f, <3>5, <5>1, <5>2, <5>3
        <4>2. CASE proc.pc # "event"
          <5>1. Filled <= proc.rd + MaxLag + 1
            BY <1>f, <3>4, <4>2 DEF LagInv
          <5>2. E \in Nat
            BY <1>f DEF E
          <5>3. QED
            BY <1>f, <3>5, <5>1, <5>2
        <4>3. QED
          BY <4>1, <4>2
      <3>7. E \in Nat /\ B \in Nat
        BY <1>f DEF E, B
      <3>8. QED
        BY <1>f, <1>b, <2>2, <3>6, <3>7
    <2>5. QED
      BY <2>3, <2>4
  <1>4. QED
    BY <1>2, <1>3

\* Two numbers that are less than m apart differ modulo m.
LEMMA NearDiffer ==
  ASSUME NEW m \in Nat \ {0}, NEW a \in Nat, NEW b \in Nat, a < b, b < a + m
  PROVE  a % m # b % m
  <1> SUFFICES ASSUME a % m = b % m PROVE FALSE
    OBVIOUS
  <1> DEFINE q == a \div m
             r == a % m
             d == b - a
  <1>1. q \in Int /\ r \in Int /\ a = m * q + r /\ 0 <= r /\ r < m
    BY DivideFacts
  <1>2. b % m = r
    OBVIOUS
  <1> HIDE DEF q, r
  <1>3. CASE r + d < m
    <2>1. b = m * q + (r + d) /\ r + d \in Int /\ 0 <= r + d
      BY <1>1
    <2>2. b % m = r + d
      <3> DEFINE v == r + d
      <3>1. b = m * q + v /\ v \in Int /\ 0 <= v /\ v < m
        BY <1>3, <2>1
      <3> HIDE DEF v, d
      <3>2. b % m = v
        BY <1>1, <3>1, DivideIs
      <3>3. QED
        BY <3>2 DEF v
    <2>3. QED
      BY <1>1, <1>2, <2>2
  <1>4. CASE r + d >= m
    <2>1. m * (q + 1) = m * q + m
      BY <1>1
    <2>2. b = m * (q + 1) + (r + d - m) /\ r + d - m \in Int /\ 0 <= r + d - m /\ r + d - m < m
      BY <1>1, <1>4, <2>1
    <2>3. b % m = r + d - m
      <3> DEFINE v == r + d - m
                 p == q + 1
      <3>1. p \in Int /\ b = m * p + v /\ v \in Int /\ 0 <= v /\ v < m
        BY <1>1, <2>2
      <3> HIDE DEF v, p, d
      <3>2. b % m = v
        BY <3>1, DivideIs
      <3>3. QED
        BY <3>2 DEF v
    <2>4. QED
      BY <1>1, <1>2, <2>3
  <1>5. QED
    BY <1>1, <1>3, <1>4

----------------------------------------------------------------------------
(* The hardware and the driver.                                            *)

\* A sample keeps the invariant: what it overwrites is an earlier shot's.
LEMMA SampleStep ==
  ASSUME ShotTimely, ShotInv, T!Sample
  PROVE  (IdleInv /\ T!DataSetComplete /\ (InShot => InShotInv))'
  <1> DEFINE done == Filled
             full == (hw.smp + 1) % SamplesBuffer = 0
  <1>i. ShotTypeOK /\ IdleInv /\ T!DataSetComplete /\ (InShot => InShotInv)
    BY Zenon DEF ShotInv
  <1>f. /\ hw.smp \in Nat /\ rt.at \in Nat /\ Filled \in Nat /\ proc.rd \in Nat
        /\ Buf(rt.at) \in Nat /\ MaxLag \in Nat /\ MaxLag >= 1 /\ NBuf \in Nat \ {0}
        /\ MaxIrq \in Nat
        /\ proc.pc \in {"none", "start", "select", "event", "feed", "estop", "end"}
        /\ proc.pc = "event" => proc.reading[2] \in Int /\ proc.reading[3] \in Int
        /\ \A s \in sigs : s.at \in Nat /\ Buf(s.at) \in Nat
    BY <1>i, ShotFields, ShotConstants
  <1>1. /\ hw.running
        /\ hw.irq => \A s \in Mine : hw.smp - s.at < MaxIrq
        /\ full => \/ done + 1 - proc.rd <= MaxLag
                   \/ proc.pc = "event" /\ done = proc.reading[3]
        /\ hw' = [hw EXCEPT !.smp = @ + 1]
        /\ sigs' = IF full
                   THEN {s \in sigs : Buf(s.at) % NBuf = done % NBuf =>
                                        (s.shot = shot /\ Buf(s.at) = done)}
                   ELSE sigs
        /\ UNCHANGED <<rt, pd, proc, shot, result>>
    BY DEF T!Sample, T!Slot, T!Filling, T!BufferOf, Buf, Filled, Mine
  <1>2. /\ hw'.smp = hw.smp + 1 /\ hw'.running = hw.running /\ hw'.ev0 = hw.ev0
        /\ hw'.irq = hw.irq
    BY <1>1, <1>i DEF ShotTypeOK
  <1>3. Filled' = IF full THEN done + 1 ELSE done
    <2>1. Filled' = Buf(hw.smp + 1)
      BY <1>2 DEF Filled
    <2>2. QED
      BY <1>f, <2>1, BufNext DEF Filled
  <1>4. InShot /\ LagInv /\ CountInv /\ EventInv /\ ShotSeenInv /\ CleanInv
    <2>1. proc.pc \notin {"none", "start"}
      BY <1>1, <1>i DEF IdleInv
    <2>2. InShot
      BY <1>f, <2>1 DEF InShot
    <2>3. QED
      BY <1>i, <2>2 DEF InShotInv
  <1>5. UNCHANGED <<rt, pd, proc, shot, result>>
    BY <1>1
  <1> HIDE DEF full, done
  <1>6. Mine' = Mine
    <2>1. ASSUME NEW s \in Mine PROVE s \in sigs'
      <3>1. s \in sigs /\ s.shot = shot
        BY DEF Mine
      <3>2. s.at <= hw.smp
        BY <1>4 DEF EventInv
      <3>3. Buf(s.at) <= Filled
        BY <1>f, <3>1, <3>2, BufOrder DEF Filled
      <3>4. Filled < Buf(s.at) + NBuf
        <4>1. Filled + Span(proc.pre) < Buf(s.at) + NBuf
          BY <1>1, <1>4, <1>i, EventKept
        <4>2. Span(proc.pre) \in Nat
          BY <1>4, <1>i, ShotBounds
        <4>3. QED
          BY <1>f, <3>1, <4>1, <4>2
      <3>5. Buf(s.at) % NBuf = done % NBuf => Buf(s.at) = done
        BY <1>f, <3>1, <3>3, <3>4, NearDiffer DEF done
      <3>6. QED
        BY <1>1, <3>1, <3>5
    <2>2. sigs' \subseteq sigs
      BY <1>1
    <2>3. QED
      BY <1>5, <2>1, <2>2 DEF Mine
  <1>7. IdleInv'
    BY <1>5, <1>2, <1>4, Zenon DEF IdleInv, InShot
  <1>8. T!DataSetComplete'
    BY <1>5, <1>i DEF T!DataSetComplete
  <1>9. LagInv'
    <2>1. full => Filled + 1 <= proc.rd + MaxLag \/ (proc.pc = "event" /\ Filled = proc.reading[3])
      BY <1>f, <1>1 DEF done
    <2>2. QED
      BY <1>f, <1>1, <1>2, <1>3, <1>4, <1>5, <2>1 DEF LagInv, done
  <1>10. CountInv'
    BY <1>2, <1>4, <1>5 DEF CountInv, PostBuffers
  <1>11. EventInv'
    <2>1. \A s \in Mine : s.at \in Nat
      BY <1>f DEF Mine
    <2>2. \A s \in Mine : s.at <= hw'.smp
      <3>1. \A s \in Mine : s.at <= hw.smp
        BY <1>4 DEF EventInv
      <3>2. QED
        BY <1>f, <1>2, <2>1, <3>1
    <2>3. hw.irq => \A s \in Mine : hw'.smp <= s.at + MaxIrq
      <3>1. hw.irq => \A s \in Mine : hw.smp - s.at < MaxIrq
        BY <1>1
      <3>2. \A s \in Mine : hw.smp - s.at < MaxIrq => hw'.smp <= s.at + MaxIrq
        BY <1>f, <1>2, <2>1
      <3>3. QED
        BY <3>1, <3>2, Zenon
    <2>4. rt.at # 0 => rt.at <= hw'.smp
      <3>1. rt.at # 0 => rt.at <= hw.smp
        BY <1>4 DEF EventInv
      <3>2. QED
        BY <1>f, <1>2, <3>1
    <2>5. QED
      BY <1>2, <1>4, <1>5, <1>6, <2>2, <2>3, <2>4, Zenon DEF EventInv
  <1>12. ShotSeenInv'
    <2>1. Filled <= Filled' /\ Filled' \in Nat
      BY <1>f, <1>3 DEF done
    <2>2. SUFFICES ASSUME rt.at # 0
                   PROVE  IF proc.received
                          THEN ReadAt <= Buf(rt.at) /\ Noticed(proc.info[1], proc.info[2], ReadAt)'
                          ELSE /\ proc.pc = "select" => proc.rd <= Buf(rt.at)
                               /\ proc.pc = "feed" => proc.rd < Buf(rt.at)
                               /\ proc.pc = "event" =>
                                    /\ proc.rd <= Buf(rt.at)
                                    /\ Noticed(proc.reading[2], proc.reading[3], proc.rd)'
      BY <1>5 DEF ShotSeenInv, ReadAt, PostBuffers
    <2>3. ASSUME NEW b1, NEW b2, NEW r, b2 = T!None \/ b2 \in Int, Noticed(b1, b2, r)
          PROVE  /\ b2 # T!None /\ Buf(rt.at) <= b2 /\ b2 <= r + MaxLag /\ b2 <= Filled'
                 /\ b1 = IF b2 = 0 THEN T!None ELSE b2 - 1
      BY <1>f, <1>1, <2>1, <2>3 DEF Noticed
    <2>4. CASE proc.received
      <3>1. ReadAt <= Buf(rt.at) /\ Noticed(proc.info[1], proc.info[2], ReadAt)
        BY <1>4, <2>2, <2>4 DEF ShotSeenInv
      <3>2. proc.info[2] \in Int
        BY <1>4, <1>i, <2>4, ReceivedInfo
      <3>3. QED
        BY <1>5, <2>3, <2>4, <3>1, <3>2 DEF Noticed, ReadAt, PostBuffers
    <2>5. CASE ~proc.received
      <3>1. /\ proc.pc = "select" => proc.rd <= Buf(rt.at)
            /\ proc.pc = "feed" => proc.rd < Buf(rt.at)
            /\ proc.pc = "event" => /\ proc.rd <= Buf(rt.at)
                                    /\ Noticed(proc.reading[2], proc.reading[3], proc.rd)
        BY <1>1, <1>4, <2>2, <2>5 DEF ShotSeenInv
      <3>2. proc.pc = "event" => Noticed(proc.reading[2], proc.reading[3], proc.rd)'
        BY <1>f, <1>5, <2>3, <3>1 DEF Noticed
      <3>3. QED
        BY <2>5, <3>1, <3>2
    <2>6. QED
      BY <2>4, <2>5
  <1>13. CleanInv'
    <2> SUFFICES ASSUME NEW d \in 0 .. Filled', d < Filled', Filled' < d + NBuf,
                        NEW s \in sigs', Buf(s.at) % NBuf = d % NBuf
                 PROVE  s.shot = shot' /\ Buf(s.at) = d
      BY DEF CleanInv
    <2>1. s \in sigs /\ shot' = shot
      BY <1>1
    <2>2. CASE d < done
      <3>1. d \in 0 .. Filled /\ Filled < d + NBuf /\ d < Filled
        BY <1>f, <1>3, <2>2 DEF done
      <3>2. QED
        BY <1>4, <2>1, <3>1 DEF CleanInv
    <2>3. CASE d >= done
      <3>1. full /\ d = done
        BY <1>f, <1>3, <2>3 DEF done
      <3>2. QED
        BY <1>1, <2>1, <3>1
    <2>4. QED
      BY <1>f, <1>3, <2>2, <2>3 DEF done
  <1>14. QED
    BY <1>7, <1>8, <1>9, <1>10, <1>11, <1>12, <1>13 DEF InShotInv

\* An event does: it was accepted, and is the first of the shot.
LEMMA TriggerStep ==
  ASSUME ShotTimely, ShotInv, T!Trigger
  PROVE  (IdleInv /\ T!DataSetComplete /\ (InShot => InShotInv))'
  <1> DEFINE e == [shot |-> shot, at |-> hw.smp]
  <1>i. ShotTypeOK /\ IdleInv /\ T!DataSetComplete /\ (InShot => InShotInv)
    BY Zenon DEF ShotInv
  <1>f. /\ hw.smp \in Nat /\ rt.at \in Nat /\ Filled \in Nat /\ proc.rd \in Nat
        /\ NBuf \in Nat \ {0} /\ MaxIrq \in Nat /\ proc.pre \in Nat /\ proc.apre \in Nat
        /\ proc.pc \in {"none", "start", "select", "event", "feed", "estop", "end"}
        /\ \A s \in sigs : s.at \in Nat /\ Buf(s.at) \in Nat
    BY <1>i, ShotFields, ShotConstants
  <1>1. /\ hw.running /\ hw.ev0
        /\ T!Cardinality(Mine) < MaxEvents
        /\ sigs' = sigs \cup {e}
        /\ hw' = [hw EXCEPT !.irq = TRUE]
        /\ UNCHANGED <<rt, pd, proc, shot, result>>
    BY DEF T!Trigger, Mine
  <1>2. /\ hw'.smp = hw.smp /\ hw'.running = hw.running /\ hw'.ev0 = hw.ev0 /\ hw'.irq = TRUE
    BY <1>1, <1>i DEF ShotTypeOK
  <1>3. Filled' = Filled
    BY <1>2 DEF Filled
  <1>4. InShot /\ LagInv /\ CountInv /\ EventInv /\ ShotSeenInv /\ CleanInv
    <2>1. proc.pc \notin {"none", "start"}
      BY <1>1, <1>i DEF IdleInv
    <2>2. InShot
      BY <1>f, <2>1 DEF InShot
    <2>3. QED
      BY <1>i, <2>2 DEF InShotInv
  <1>5. UNCHANGED <<rt, pd, proc, shot, result>>
    BY <1>1
  <1>e. e.shot = shot /\ e.at = hw.smp
    OBVIOUS
  <1> HIDE DEF e
  <1>6. Mine = {} /\ Mine' = {e}
    <2>1. ASSUME NEW s \in Mine PROVE FALSE
      <3>1. Mine = {s}
        BY <1>4 DEF EventInv
      <3>2. Cardinality({s}) = 1
        BY FS_Singleton
      <3>3. T!Cardinality({s}) = Cardinality({s})
        BY Zenon DEF T!Cardinality, Cardinality
      <3>4. 1 < MaxEvents /\ MaxEvents \in Nat
        BY <1>1, <3>1, <3>2, <3>3, ShotConstants
      <3>5. QED
        BY <3>4 DEF ShotTimely
    <2>2. QED
      BY <1>1, <1>5, <1>e, <2>1 DEF Mine
  <1>7. proc.accepting /\ proc.pre <= hw.smp
    <2>1. proc.accepting /\ proc.apre = proc.pre /\ proc.apre <= proc.rd * SamplesBuffer
      BY <1>1, <1>4 DEF CountInv
    <2>2. proc.rd <= Filled
      BY <1>4 DEF LagInv
    <2>3. /\ proc.rd * SamplesBuffer <= Filled * SamplesBuffer
          /\ proc.rd * SamplesBuffer \in Int /\ Filled * SamplesBuffer \in Int
      BY <1>f, <2>2, Times
    <2>4. Filled * SamplesBuffer <= hw.smp
      BY <1>f, BufRange DEF Filled
    <2>5. QED
      BY <1>f, <2>1, <2>3, <2>4
  <1>8. rt.at = 0
    BY <1>4, <1>6 DEF EventInv
  <1>9. IdleInv' /\ T!DataSetComplete'
    BY <1>2, <1>4, <1>5, <1>i DEF IdleInv, InShot, T!DataSetComplete
  <1>10. LagInv'
    BY <1>2, <1>3, <1>4, <1>5 DEF LagInv
  <1>11. CountInv'
    BY <1>2, <1>4, <1>5 DEF CountInv, PostBuffers
  <1>12. EventInv'
    <2>1. /\ \A s, t \in Mine' : s = t
          /\ \A s \in Mine' : proc.accepting /\ proc.pre <= s.at /\ s.at <= hw'.smp
          /\ \A s \in Mine' : hw'.smp <= s.at + MaxIrq
      BY <1>f, <1>2, <1>6, <1>7, <1>e
    <2>2. QED
      BY <1>2, <1>4, <1>5, <1>6, <1>8, <2>1 DEF EventInv
  <1>13. ShotSeenInv'
    BY <1>5, <1>8 DEF ShotSeenInv
  <1>14. CleanInv'
    <2> SUFFICES ASSUME NEW d \in 0 .. Filled, d < Filled, Filled < d + NBuf,
                        NEW s \in sigs', Buf(s.at) % NBuf = d % NBuf
                 PROVE  s.shot = shot /\ Buf(s.at) = d
      BY <1>3, <1>5 DEF CleanInv
    <2>1. s # e
      <3>1. Buf(hw.smp) % NBuf # d % NBuf
        BY <1>f, NearDiffer DEF Filled
      <3>2. QED
        BY <1>e, <3>1
    <2>2. s \in sigs
      BY <1>1, <2>1
    <2>3. QED
      BY <1>4, <2>2 DEF CleanInv
  <1>15. QED
    BY <1>9, <1>10, <1>11, <1>12, <1>13, <1>14 DEF InShotInv

\* The interrupt does: it comes soon after the event.
LEMMA EventActionStep ==
  ASSUME ShotTimely, ShotInv, T!event_action
  PROVE  (IdleInv /\ T!DataSetComplete /\ (InShot => InShotInv))'
  <1>i. ShotTypeOK /\ IdleInv /\ T!DataSetComplete /\ (InShot => InShotInv)
    BY Zenon DEF ShotInv
  <1>f. /\ hw.smp \in Nat /\ rt.at \in Nat /\ Filled \in Nat /\ proc.rd \in Nat /\ pd \in Nat
        /\ NBuf \in Nat \ {0} /\ MaxIrq \in Nat /\ proc.pre \in Nat /\ hw.running \in BOOLEAN
        /\ proc.pc \in {"none", "start", "select", "event", "feed", "estop", "end"}
        /\ \A s \in sigs : s.at \in Nat
    BY <1>i, ShotFields, ShotConstants
  <1>1. /\ hw.irq /\ rt' = [at |-> hw.smp, count |-> rt.count + 1]
        /\ hw' = [hw EXCEPT !.irq = FALSE, !.ev0 = hw'.ev0]
        /\ hw'.ev0 \in BOOLEAN /\ (hw'.ev0 => hw.ev0)
        /\ UNCHANGED <<sigs, pd, proc, shot, result>>
    BY <1>i, EventAction
  <1>2. /\ hw'.smp = hw.smp /\ hw'.running = hw.running /\ hw'.irq = FALSE /\ rt'.at = hw.smp
    <2> DEFINE e == hw'.ev0
    <2>1. hw' = [hw EXCEPT !.irq = FALSE, !.ev0 = e]
      BY <1>1
    <2> HIDE DEF e
    <2>2. QED
      BY <1>1, <1>i, <2>1 DEF ShotTypeOK
  <1>3. Filled' = Filled /\ Mine' = Mine
    BY <1>1, <1>2 DEF Filled, Mine
  <1>4. InShot /\ LagInv /\ CountInv /\ EventInv /\ ShotSeenInv /\ CleanInv
    <2>1. proc.pc \notin {"none", "start"}
      BY <1>1, <1>i DEF IdleInv
    <2>2. InShot
      BY <1>f, <2>1 DEF InShot
    <2>3. QED
      BY <1>i, <2>2 DEF InShotInv
  <1>5. UNCHANGED <<sigs, pd, proc, shot, result>>
    BY <1>1
  <1>6. PICK s \in Mine : s \in sigs /\ s.at <= hw.smp /\ hw.smp <= s.at + MaxIrq
    BY <1>1, <1>4 DEF EventInv, Mine
  <1>7. proc.accepting /\ rt.at = 0 /\ ~proc.received /\ proc.state # "ARM" /\ hw.smp > 0
    <2>1. proc.accepting /\ proc.pre <= s.at /\ rt.at = 0 /\ ~proc.received
      BY <1>1, <1>4 DEF EventInv
    <2>2. proc.state # "ARM" /\ proc.pre > 0
      BY <1>4, <2>1 DEF CountInv
    <2>3. QED
      BY <1>f, <1>6, <2>1, <2>2
  <1>8. pd = 0 /\ proc.pc # "event"
    BY <1>4, <1>7 DEF EventInv
  <1>9. IdleInv' /\ T!DataSetComplete'
    BY <1>2, <1>4, <1>5, <1>i DEF IdleInv, InShot, T!DataSetComplete
  <1>10. LagInv'
    BY <1>2, <1>3, <1>4, <1>5 DEF LagInv
  <1>11. CountInv'
    BY <1>1, <1>4, <1>5 DEF CountInv, PostBuffers
  <1>12. EventInv'
    BY <1>f, <1>1, <1>2, <1>3, <1>4, <1>5, <1>6, <1>7, <1>8 DEF EventInv
  <1>13. ShotSeenInv'
    <2>1. Buf(rt'.at) = Filled
      BY <1>2 DEF Filled
    <2>2. /\ proc.pc \in {"select", "feed"} => proc.rd <= Filled
          /\ proc.pc = "feed" => proc.rd < Filled \/ ~hw.running
      BY <1>4 DEF LagInv
    <2>3. QED
      BY <1>f, <1>2, <1>3, <1>5, <1>7, <1>8, <2>1, <2>2 DEF ShotSeenInv
  <1>14. CleanInv'
    BY <1>3, <1>4, <1>5 DEF CleanInv
  <1>15. QED
    BY <1>9, <1>10, <1>11, <1>12, <1>13, <1>14 DEF InShotInv

\* A capture that stops does.
LEMMA AbortStep ==
  ASSUME ShotInv, T!Abort
  PROVE  (IdleInv /\ T!DataSetComplete /\ (InShot => InShotInv))'
  <1>i. ShotTypeOK /\ IdleInv /\ T!DataSetComplete /\ (InShot => InShotInv)
    BY Zenon DEF ShotInv
  <1>f. /\ Filled \in Nat /\ proc.rd \in Nat
        /\ proc.pc \in {"none", "start", "select", "event", "feed", "estop", "end"}
    BY <1>i, ShotFields
  <1>1. hw.running /\ hw' = [hw EXCEPT !.running = FALSE]
        /\ UNCHANGED <<sigs, rt, pd, proc, shot, result>>
    BY DEF T!Abort
  <1>2. hw'.smp = hw.smp /\ hw'.running = FALSE /\ hw'.irq = hw.irq /\ hw'.ev0 = hw.ev0
    BY <1>1, <1>i DEF ShotTypeOK
  <1>3. Filled' = Filled /\ Mine' = Mine
    BY <1>1, <1>2 DEF Filled, Mine
  <1>4. InShot /\ LagInv /\ CountInv /\ EventInv /\ ShotSeenInv /\ CleanInv
    <2>1. proc.pc \notin {"none", "start"}
      BY <1>1, <1>i DEF IdleInv
    <2>2. InShot
      BY <1>f, <2>1 DEF InShot
    <2>3. QED
      BY <1>i, <2>2 DEF InShotInv
  <1>5. UNCHANGED <<sigs, rt, pd, proc, shot, result>>
    BY <1>1
  <1>6. IdleInv' /\ T!DataSetComplete'
    BY <1>4, <1>5, <1>i DEF IdleInv, InShot, T!DataSetComplete
  <1>7. LagInv' /\ CountInv'
    BY <1>2, <1>3, <1>4, <1>5 DEF LagInv, CountInv, PostBuffers
  <1>8. EventInv'
    BY <1>2, <1>3, <1>4, <1>5 DEF EventInv
  <1>9. ShotSeenInv'
    BY <1>1, <1>2, <1>3, <1>4, <1>5 DEF ShotSeenInv, Noticed, ReadAt, PostBuffers
  <1>10. CleanInv'
    BY <1>3, <1>4, <1>5 DEF CleanInv
  <1>11. QED
    BY <1>6, <1>7, <1>8, <1>9, <1>10 DEF InShotInv

\* Between shots, and when the process is killed or constructed, no shot is under way.
LEMMA OutsideStep ==
  ASSUME ShotInv,
         T!SetEvent0 \/ T!Kill \/ \E pre \in Pres, post \in Posts : T!Construct(pre, post)
  PROVE  (IdleInv /\ T!DataSetComplete /\ (InShot => InShotInv))'
  <1>i. ShotTypeOK /\ IdleInv /\ T!DataSetComplete
    BY Zenon DEF ShotInv
  <1>1. ASSUME T!SetEvent0 \/ T!Kill
        PROVE  proc'.pc = "none" /\ ~hw'.running /\ ~hw'.irq /\ UNCHANGED <<shot, result>>
    <2>1. CASE T!SetEvent0
      BY <1>i, <2>1 DEF T!SetEvent0, ShotTypeOK, IdleInv
    <2>2. CASE T!Kill
      <3> DEFINE e == hw.ev0 \/ rt.count >= EventLimit
      <3>1. /\ hw' = [hw EXCEPT !.running = FALSE, !.irq = FALSE, !.ev0 = e]
            /\ proc' = T!NoProcess /\ UNCHANGED <<shot, result>>
        BY <2>2, Zenon DEF T!Kill
      <3> HIDE DEF e
      <3>2. proc'.pc = "none"
        BY <3>1 DEF T!NoProcess
      <3>3. QED
        BY <1>i, <3>1, <3>2 DEF ShotTypeOK
    <2>3. QED
      BY <1>1, <2>1, <2>2
  <1>2. ASSUME NEW pre \in Pres, NEW post \in Posts, T!Construct(pre, post)
        PROVE  (IdleInv /\ ~InShot)' /\ UNCHANGED <<shot, result>>
    <2>1. /\ proc.pc = "none" /\ hw' = [hw EXCEPT !.ev0 = FALSE]
          /\ proc' = [T!NoProcess EXCEPT !.pc = "start", !.pre = pre, !.post = post,
                                         !.enable_state = hw.ev0]
          /\ UNCHANGED <<shot, result>>
      BY <1>2 DEF T!Construct
    <2>2. ~hw'.running /\ ~hw'.irq /\ ~hw'.ev0
      BY <1>i, <2>1 DEF IdleInv, ShotTypeOK
    <2>3. /\ proc'.pc = "start" /\ proc'.pre = pre /\ proc'.post = post
          /\ proc'.apre = 0 /\ proc'.apost = 0 /\ proc'.over = 0 /\ proc'.rd = 0
          /\ ~proc'.accepting /\ ~proc'.received /\ ~proc'.quit
      BY <2>1 DEF T!NoProcess
    <2>4. QED
      BY <2>1, <2>2, <2>3 DEF IdleInv, InShot
  <1>3. CASE T!SetEvent0 \/ T!Kill
    BY <1>1, <1>3, <1>i DEF IdleInv, InShot, T!DataSetComplete
  <1>4. ASSUME NEW pre \in Pres, NEW post \in Posts, T!Construct(pre, post)
        PROVE  (IdleInv /\ T!DataSetComplete /\ (InShot => InShotInv))'
    <2>1. (IdleInv /\ ~InShot)' /\ UNCHANGED <<shot, result>>
      BY <1>2, <1>4
    <2>2. QED
      BY <1>i, <2>1 DEF T!DataSetComplete
  <1>5. QED
    BY <1>3, <1>4

----------------------------------------------------------------------------
(* The process.                                                            *)

\* The start of a shot does: nothing is filled or counted.
LEMMA StartStep ==
  ASSUME ShotTimely, ShotInv, T!Start
  PROVE  (IdleInv /\ T!DataSetComplete /\ (InShot => InShotInv))'
  <1>i. ShotTypeOK /\ IdleInv
    BY Zenon DEF ShotInv
  <1>f. /\ proc.pre \in Nat /\ proc.post \in Nat /\ pd \in Nat /\ shot \in Nat
        /\ MaxLag \in Nat /\ \A s \in sigs : s.shot \in Nat /\ s.shot <= shot
    BY <1>i, ShotFields DEF ShotTypeOK
  <1>1. /\ proc.pc = "start" /\ shot' = shot + 1 /\ rt' = [at |-> 0, count |-> 0]
        /\ hw' = [hw EXCEPT !.running = TRUE, !.smp = 0, !.irq = FALSE]
        /\ proc' = [proc EXCEPT !.pc = "select", !.state = "ARM"]
        /\ result' = T!NoResult /\ UNCHANGED <<sigs, pd>>
    BY DEF T!Start
  <1>2. /\ hw'.smp = 0 /\ hw'.running = TRUE /\ hw'.irq = FALSE /\ hw'.ev0 = hw.ev0
        /\ rt'.at = 0
    BY <1>1, <1>i DEF ShotTypeOK
  <1>3. /\ proc'.pc = "select" /\ proc'.state = "ARM"
        /\ proc'.pre = proc.pre /\ proc'.post = proc.post /\ proc'.apre = proc.apre
        /\ proc'.apost = proc.apost /\ proc'.over = proc.over /\ proc'.rd = proc.rd
        /\ proc'.accepting = proc.accepting /\ proc'.received = proc.received
        /\ proc'.quit = proc.quit
    BY <1>1, <1>i DEF ShotTypeOK, ShotProcess
  <1>4. /\ ~hw.ev0 /\ proc.pre \in Pres /\ proc.post \in Posts
        /\ proc.apre = 0 /\ proc.apost = 0 /\ proc.over = 0 /\ proc.rd = 0
        /\ ~proc.accepting /\ ~proc.received /\ ~proc.quit
    BY <1>1, <1>i DEF IdleInv
  <1>5. Buf(0) = 0
    BY BufIs, Times, ShotConstants
  <1>6. Filled' = 0
    BY <1>2, <1>5 DEF Filled
  <1>7. Mine' = {}
    <2>1. \A s \in sigs : s.shot # shot + 1
      BY <1>f
    <2>2. QED
      BY <1>1, <2>1 DEF Mine
  <1>8. IdleInv' /\ T!DataSetComplete'
    BY <1>1, <1>3 DEF IdleInv, T!DataSetComplete, T!NoResult
  <1>9. LagInv'
    BY <1>f, <1>3, <1>4, <1>6 DEF LagInv
  <1>10. CountInv'
    <2>1. PostBuffers' = 0
      BY <1>3, <1>4, <1>5 DEF PostBuffers
    <2>2. 0 * SamplesBuffer = 0
      BY Times
    <2>3. QED
      BY <1>f, <1>2, <1>3, <1>4, <2>1, <2>2 DEF CountInv
  <1>11. EventInv' /\ ShotSeenInv'
    BY <1>1, <1>2, <1>3, <1>4, <1>7 DEF EventInv, ShotSeenInv
  <1>12. CleanInv'
    BY <1>6 DEF CleanInv
  <1>13. QED
    BY <1>8, <1>9, <1>10, <1>11, <1>12 DEF InShotInv

\* getBufferId() does: it notes the buffers around the event.
LEMMA SelectStep ==
  ASSUME ShotTimely, ShotInv, T!Select
  PROVE  (IdleInv /\ T!DataSetComplete /\ (InShot => InShotInv))'
  <1>i. ShotTypeOK /\ T!DataSetComplete
    BY Zenon DEF ShotInv
  <1>f. /\ hw.smp \in Nat /\ rt.at \in Nat /\ Filled \in Nat /\ proc.rd \in Nat /\ pd \in Nat
        /\ Buf(rt.at) \in Nat /\ MaxLag \in Nat /\ MaxLag >= 1 /\ hw.running \in BOOLEAN
        /\ proc.received \in BOOLEAN
    BY <1>i, ShotFields
  <1> DEFINE b1 == IF Filled = 0 THEN T!None ELSE Filled - 1
             b2 == IF hw.running THEN Filled ELSE T!None
             c == IF T!EventReadable THEN "event" ELSE "feed"
             r == IF ~T!EventReadable THEN <<>> ELSE <<rt.at, b1, b2>>
             fs == T!FeedReadable
  <1>1. /\ proc.pc = "select" /\ (T!EventReadable \/ T!FeedReadable)
        /\ proc' = [proc EXCEPT !.pc = c, !.fcset = fs, !.reading = r]
        /\ UNCHANGED <<hw, sigs, rt, pd, shot, result>>
    BY DEF T!Select, T!Filling, T!BufferOf, Filled, Buf
  <1>2. /\ T!EventReadable <=> rt.at # pd
        /\ fs <=> proc.rd < Filled \/ ~hw.running
    BY DEF T!EventReadable, T!FeedReadable, T!Filling, T!BufferOf, Filled, Buf
  <1>3. /\ proc'.pc = c /\ proc'.fcset = fs /\ proc'.reading = r
        /\ proc'.pre = proc.pre /\ proc'.post = proc.post /\ proc'.apre = proc.apre
        /\ proc'.apost = proc.apost /\ proc'.over = proc.over /\ proc'.rd = proc.rd
        /\ proc'.accepting = proc.accepting /\ proc'.received = proc.received
        /\ proc'.quit = proc.quit /\ proc'.info = proc.info /\ proc'.state = proc.state
    <2> HIDE DEF c, r, fs
    <2>1. QED
      BY <1>1, <1>i DEF ShotTypeOK, ShotProcess
  <1>4. LagInv /\ CountInv /\ EventInv /\ ShotSeenInv /\ CleanInv
    BY <1>1 DEF ShotInv, InShot, InShotInv
  <1>5. Filled' = Filled /\ Mine' = Mine /\ UNCHANGED <<hw, sigs, rt, pd, shot, result>>
    BY <1>1 DEF Filled, Mine
  <1>6. CASE rt.at # pd
    <2>1. c = "event" /\ proc'.reading[1] = rt.at /\ proc'.reading[2] = b1 /\ proc'.reading[3] = b2
      BY <1>2, <1>3, <1>6
    <2> HIDE DEF c, r, fs
    <2>2. IdleInv' /\ T!DataSetComplete'
      BY <1>3, <1>5, <1>i, <2>1 DEF IdleInv, T!DataSetComplete
    <2>3. LagInv'
      BY <1>f, <1>1, <1>2, <1>3, <1>4, <1>5, <2>1 DEF LagInv, T!None
    <2>4. CountInv'
      <3>1. ~proc.quit
        BY <1>1, <1>4 DEF CountInv
      <3>2. QED
        BY <1>3, <1>4, <1>5, <3>1 DEF CountInv, PostBuffers
    <2>5. ~proc.received /\ (rt.at = 0 => proc.state = "ARM")
      BY <1>4, <1>6 DEF EventInv
    <2>6. EventInv'
      BY <1>3, <1>4, <1>5, <1>6, <2>1, <2>5 DEF EventInv
    <2>7. ShotSeenInv'
      <3>1. rt.at # 0 => proc.rd <= Buf(rt.at) /\ Buf(rt.at) <= Filled
        <4>1. rt.at # 0 => rt.at <= hw.smp
          BY <1>4 DEF EventInv
        <4>2. rt.at # 0 => proc.rd <= Buf(rt.at)
          BY <1>1, <1>4, <2>5 DEF ShotSeenInv
        <4>3. QED
          BY <1>f, <4>1, <4>2, BufOrder DEF Filled
      <3>2. Filled <= proc.rd + MaxLag
        BY <1>1, <1>4 DEF LagInv
      <3>3. rt.at # 0 => Noticed(b1, b2, proc.rd)
        <4>1. CASE hw.running
          <5>1. b2 = Filled /\ b2 # T!None
            BY <1>f, <4>1 DEF T!None
          <5> HIDE DEF b2
          <5>2. QED
            BY <1>f, <1>5, <3>1, <3>2, <5>1 DEF Noticed
        <4>2. CASE ~hw.running
          <5>1. b2 = T!None
            BY <4>2
          <5> HIDE DEF b2
          <5>2. QED
            BY <1>5, <3>2, <4>2, <5>1 DEF Noticed
        <4>3. QED
          BY <4>1, <4>2
      <3> HIDE DEF b1, b2
      <3>4. Noticed(b1, b2, proc.rd) => Noticed(proc.reading[2], proc.reading[3], proc.rd)'
        BY <1>3, <1>5, <2>1 DEF Noticed
      <3>5. QED
        BY <1>3, <1>5, <2>1, <2>5, <3>1, <3>3, <3>4 DEF ShotSeenInv
    <2>8. CleanInv'
      BY <1>4, <1>5 DEF CleanInv
    <2>9. QED
      BY <2>2, <2>3, <2>4, <2>6, <2>7, <2>8 DEF InShotInv
  <1>7. CASE rt.at = pd
    <2>1. c = "feed" /\ (proc.rd < Filled \/ ~hw.running)
      BY <1>1, <1>2, <1>7
    <2> HIDE DEF c, r, fs
    <2>2. IdleInv' /\ T!DataSetComplete'
      BY <1>3, <1>5, <1>i, <2>1 DEF IdleInv, T!DataSetComplete
    <2>3. LagInv'
      BY <1>f, <1>1, <1>3, <1>4, <1>5, <2>1 DEF LagInv
    <2>4. CountInv'
      <3>1. ~proc.quit
        BY <1>1, <1>4 DEF CountInv
      <3>2. QED
        BY <1>3, <1>4, <1>5, <3>1 DEF CountInv, PostBuffers
    <2>5. rt.at # 0 => proc.received
      BY <1>4, <1>7 DEF EventInv
    <2>6. EventInv'
      BY <1>3, <1>4, <1>5, <1>7, <2>1, <2>5 DEF EventInv
    <2>7. ShotSeenInv'
      BY <1>3, <1>4, <1>5, <2>1, <2>5 DEF ShotSeenInv, Noticed, ReadAt, PostBuffers
    <2>8. CleanInv'
      BY <1>4, <1>5 DEF CleanInv
    <2>9. QED
      BY <2>2, <2>3, <2>4, <2>6, <2>7, <2>8 DEF InShotInv
  <1>8. QED
    BY <1>6, <1>7

\* The read of the event device does: the event is received or cleared.
LEMMA EventReadStep ==
  ASSUME ShotTimely, ShotInv, T!event_read
  PROVE  (IdleInv /\ T!DataSetComplete /\ (InShot => InShotInv))'
  <1>i. ShotTypeOK /\ T!DataSetComplete
    BY Zenon DEF ShotInv
  <1> DEFINE c == IF proc.fcset THEN "feed" ELSE "select"
             i == <<proc.reading[2], proc.reading[3]>>
             v == proc.received \/ proc.accepting
             b == proc.reading[3]
  <1>1. /\ proc.pc = "event"
        /\ Filled > b \/ ~hw.running
        /\ pd' = proc.reading[1]
        /\ proc' = [proc EXCEPT !.pc = c, !.info = i, !.received = v]
        /\ UNCHANGED <<hw, sigs, rt, shot, result>>
    BY Zenon DEF T!event_read, T!Filling, T!BufferOf, Filled, Buf
  <1>f. /\ hw.smp \in Nat /\ rt.at \in Nat /\ Filled \in Nat /\ proc.rd \in Nat /\ pd \in Nat
        /\ Buf(rt.at) \in Nat /\ MaxLag \in Nat /\ MaxLag >= 1 /\ hw.running \in BOOLEAN
        /\ proc.received \in BOOLEAN /\ proc.accepting \in BOOLEAN /\ proc.fcset \in BOOLEAN
        /\ proc.reading[2] \in Int /\ b \in Int
        /\ proc.state \in {"STOP", "ARM", "RUN_PRE", "RUN_POST", "POSTPROCESS"}
    BY <1>1, <1>i, ShotFields
  <1>2. /\ proc'.pc = c /\ proc'.info = i /\ proc'.received = v
        /\ proc'.pre = proc.pre /\ proc'.post = proc.post /\ proc'.apre = proc.apre
        /\ proc'.apost = proc.apost /\ proc'.over = proc.over /\ proc'.rd = proc.rd
        /\ proc'.accepting = proc.accepting /\ proc'.quit = proc.quit
        /\ proc'.state = proc.state
    <2> HIDE DEF c, i, v, b
    <2>1. QED
      BY <1>1, <1>i DEF ShotTypeOK, ShotProcess
  <1>3. LagInv /\ CountInv /\ EventInv /\ ShotSeenInv /\ CleanInv
    BY <1>1 DEF ShotInv, InShot, InShotInv
  <1>4. Filled' = Filled /\ Mine' = Mine /\ UNCHANGED <<hw, sigs, rt, shot, result>>
    BY <1>1 DEF Filled, Mine
  <1>5. ~proc.received /\ pd' = rt.at /\ (rt.at = 0 => proc.state = "ARM")
    BY <1>1, <1>3 DEF EventInv
  <1>6. proc'.received <=> proc.accepting
    BY <1>2, <1>5
  <1>7. proc'.info # <<>> /\ proc'.info[1] = proc.reading[2] /\ proc'.info[2] = b
    BY <1>2
  <1>8. proc'.pc \in {"feed", "select"} /\ (proc'.pc = "feed" <=> proc.fcset)
    BY <1>f, <1>2
  <1> HIDE DEF c, i, v, b
  <1>9. rt.at # 0 <=> proc.accepting
    <2>1. rt.at # 0 => proc.accepting
      BY <1>3 DEF EventInv
    <2>2. rt.at = 0 => ~proc.accepting
      BY <1>3, <1>5 DEF CountInv
    <2>3. QED
      BY <2>1, <2>2
  <1>10. rt.at # 0 => proc.state = "RUN_PRE"
    <2>1. rt.at # 0 => proc.pre > 0 /\ proc.state # "ARM" /\ proc.state # "STOP"
      BY <1>3, <1>9 DEF CountInv
    <2>2. QED
      BY <1>f, <1>3, <1>5, <2>1 DEF CountInv
  <1>11. IdleInv' /\ T!DataSetComplete'
    BY <1>4, <1>8, <1>i DEF IdleInv, T!DataSetComplete
  <1>12. LagInv'
    <2>1. /\ proc.rd <= Filled /\ b <= proc.rd + MaxLag /\ b <= Filled
          /\ Filled <= proc.rd + MaxLag \/ Filled <= b + 1
          /\ IF proc.fcset THEN proc.rd < Filled \/ ~hw.running ELSE b <= proc.rd
      BY <1>1, <1>3 DEF LagInv, b
    <2>2. QED
      BY <1>f, <1>2, <1>4, <1>8, <2>1 DEF LagInv
  <1>13. CountInv'
    <2>1. ~proc.quit
      BY <1>1, <1>3 DEF CountInv
    <2>2. QED
      BY <1>2, <1>3, <1>4, <1>5, <1>6, <1>8, <1>9, <2>1 DEF CountInv, PostBuffers
  <1>14. EventInv'
    BY <1>2, <1>3, <1>4, <1>5, <1>6, <1>7, <1>8, <1>9 DEF EventInv
  <1>15. ShotSeenInv'
    <2>1. rt.at # 0 => proc.rd <= Buf(rt.at) /\ Noticed(proc.reading[2], proc.reading[3], proc.rd)
      BY <1>1, <1>3, <1>5 DEF ShotSeenInv
    <2>2. rt.at # 0 => ReadAt' = proc.rd
      BY <1>2, <1>10 DEF ReadAt
    <2>3. rt.at # 0 => Noticed(proc.info[1], proc.info[2], ReadAt)'
      BY <1>4, <1>7, <2>1, <2>2 DEF Noticed, b
    <2>4. QED
      BY <1>4, <1>6, <1>9, <2>1, <2>2, <2>3 DEF ShotSeenInv
  <1>16. CleanInv'
    BY <1>3, <1>4 DEF CleanInv
  <1>17. QED
    BY <1>11, <1>12, <1>13, <1>14, <1>15, <1>16 DEF InShotInv

\* The counts of streamCore(), for a buffer before the event's.
LEMMA CountPre ==
  ASSUME ShotTimely, ShotTypeOK, CountInv, proc.pc = "feed", Streams, StreamsPre,
         hw'.ev0 => hw.ev0 \/ proc'.accepting
  PROVE  CountInv'
  <1>f. /\ proc.apre \in Nat /\ proc.pre \in Nat /\ proc.post \in Nat /\ proc.rd \in Nat
        /\ proc.apost \in Nat /\ proc.over \in Nat /\ SamplesBuffer \in Nat \ {0}
        /\ proc.received \in BOOLEAN /\ proc.accepting \in BOOLEAN /\ proc.quit \in BOOLEAN
    BY ShotFields
  <1>1. /\ proc'.rd = proc.rd + 1 /\ proc'.pre = proc.pre /\ proc'.post = proc.post
        /\ proc'.received = proc.received /\ proc'.pc = "select" /\ proc'.quit = proc.quit
        /\ proc'.apost = proc.apost /\ proc'.over = proc.over
    BY DEF Streams, StreamsPre
  <1>2. proc.pre > 0 /\ proc.apost = 0 /\ proc.over = 0 /\ ~proc.quit
    BY <1>f DEF StreamsPre, CountInv
  <1>3. (proc.rd + 1) * SamplesBuffer = proc.rd * SamplesBuffer + SamplesBuffer
        /\ proc.rd * SamplesBuffer \in Int
    BY <1>f, Times
  <1>4. proc'.apre <= proc'.pre /\ proc'.apre <= proc'.rd * SamplesBuffer
    <2>1. proc.apre <= proc.pre /\ proc.apre <= proc.rd * SamplesBuffer
      BY DEF CountInv
    <2>2. proc'.apre <= proc.pre /\ proc'.apre <= proc.apre + SamplesBuffer
      BY <1>f, <2>1 DEF StreamsPre
    <2>3. proc'.apre \in Int
      BY <1>f DEF StreamsPre
    <2>4. QED
      BY <1>f, <1>1, <1>3, <2>1, <2>2, <2>3
  <1>5. PostBuffers' = PostBuffers /\ PostBuffers = 0
    <2>1. PostBuffers = Buf(0) /\ PostBuffers' = Buf(0)
      BY <1>1, <1>2 DEF PostBuffers
    <2>2. Buf(0) = 0
      BY BufIs, Times, ShotConstants
    <2>3. QED
      BY <2>1, <2>2
  <1>6. proc'.accepting => proc'.apre = proc.pre
    <2>1. proc.accepting => proc.apre = proc.pre
      BY DEF CountInv
    <2>2. proc.pre + SamplesBuffer \in Int /\ ~(proc.pre + SamplesBuffer < proc.pre)
      BY <1>f
    <2>3. proc.apre + SamplesBuffer < proc.pre => ~proc.accepting
      BY <2>1, <2>2, Zenon
    <2>4. QED
      BY <2>3, Zenon DEF StreamsPre
  <1>7. proc.accepting => proc'.accepting
    BY DEF StreamsPre
  <1>9. proc'.state \in {"RUN_PRE", "RUN_POST"} /\ (proc'.state = "RUN_POST" => proc.received)
    BY DEF StreamsPre
  <1>10. IF proc'.over = 0 THEN proc'.apost = PostBuffers' * SamplesBuffer /\ proc'.apost <= proc'.post
         ELSE proc'.apost = proc'.post
    BY <1>1, <1>2, <1>5 DEF CountInv
  <1>11. QED
    BY <1>f, <1>1, <1>2, <1>4, <1>5, <1>6, <1>7, <1>9, <1>10 DEF CountInv

\* And for one after it.
LEMMA CountPost ==
  ASSUME ShotTimely, ShotTypeOK, CountInv, proc.pc = "feed", Streams, StreamsPost,
         hw'.ev0 => hw.ev0 \/ proc'.accepting
  PROVE  CountInv' /\ PostBuffers' = PostBuffers + 1
  <1>f. /\ proc.apre \in Nat /\ proc.pre \in Nat /\ proc.post \in Nat /\ proc.rd \in Nat
        /\ proc.apost \in Nat /\ proc.over \in Nat /\ SamplesBuffer \in Nat \ {0}
        /\ proc.received \in BOOLEAN /\ proc.accepting \in BOOLEAN /\ proc.quit \in BOOLEAN
        /\ proc.state \in {"STOP", "ARM", "RUN_PRE", "RUN_POST", "POSTPROCESS"}
    BY ShotFields
  <1>1. /\ proc'.rd = proc.rd + 1 /\ proc'.pre = proc.pre /\ proc'.post = proc.post
        /\ proc'.received = proc.received /\ proc'.apre = proc.apre
        /\ proc'.accepting = proc.accepting
    BY DEF Streams, StreamsPost
  <1>b. /\ PostBuffers \in Nat /\ Buf(proc.post) \in Nat
        /\ proc.over = 0 => PostBuffers = Buf(proc.apost)
        /\ proc.over > 0 => PostBuffers = Buf(proc.post) + proc.over
    BY ShotBounds
  <1>2. /\ proc.pre \in Pres /\ proc.post \in Posts
        /\ proc.apre <= proc.pre /\ proc.apre <= proc.rd * SamplesBuffer
        /\ proc.accepting => proc.apre = proc.pre /\ proc.pre > 0
        /\ proc.received => proc.accepting
        /\ hw.ev0 => proc.accepting
    BY DEF CountInv
  <1>3. ~proc.quit /\ proc.over # 3 /\ proc.over <= 3 /\ proc.state \in {"ARM", "RUN_POST"}
    BY <1>f DEF CountInv, StreamsPost
  <1>4. IF proc.pre > 0 THEN proc.received /\ proc.rd > PostBuffers ELSE proc.rd = PostBuffers
    <2>1. CASE proc.state = "RUN_POST"
      BY <2>1 DEF CountInv
    <2>2. CASE proc.state = "ARM"
      <3>1. proc.pre = 0 /\ proc.rd = 0 /\ proc.over = 0 /\ proc.apost = 0
        BY <2>2 DEF CountInv, StreamsPost
      <3>2. Buf(0) = 0
        BY BufIs, Times, ShotConstants
      <3>3. QED
        BY <1>b, <3>1, <3>2
    <2>3. QED
      BY <1>3, <2>1, <2>2
  <1>5. /\ proc.over = 0 => proc.apost = PostBuffers * SamplesBuffer /\ proc.apost <= proc.post
        /\ proc.over # 0 => proc.apost = proc.post
    BY DEF CountInv
  <1>6. /\ (PostBuffers + 1) * SamplesBuffer = PostBuffers * SamplesBuffer + SamplesBuffer
        /\ PostBuffers * SamplesBuffer \in Int
    <2>1. PostBuffers \in Int
      BY <1>b
    <2>2. QED
      BY <2>1, Times
  <1>7. proc.rd * SamplesBuffer <= (proc.rd + 1) * SamplesBuffer
        /\ proc.rd * SamplesBuffer \in Int /\ (proc.rd + 1) * SamplesBuffer \in Int
    BY <1>f, Times
  <1>8. proc'.apre <= proc'.rd * SamplesBuffer
    BY <1>f, <1>1, <1>2, <1>7
  <1>9. CASE proc.apost + SamplesBuffer <= proc.post
    <2>1. /\ proc'.apost = proc.apost + SamplesBuffer /\ proc'.over = proc.over
          /\ proc'.state = "RUN_POST" /\ proc'.pc = "select" /\ proc'.quit = proc.quit
      BY <1>f, <1>3, <1>9 DEF StreamsPost
    <2>2. proc.over = 0
      BY <1>f, <1>5, <1>9
    <2>3. proc'.apost = (PostBuffers + 1) * SamplesBuffer
      BY <1>5, <1>6, <2>1, <2>2
    <2>4. PostBuffers' = PostBuffers + 1
      <3>1. Buf(proc'.apost) = PostBuffers + 1
        <4>1. proc'.apost \in Nat /\ PostBuffers + 1 \in Int
          BY <1>f, <1>b, <2>1
        <4>2. QED
          BY <1>f, <2>3, <4>1, BufIs
      <3>2. QED
        BY <2>1, <2>2, <3>1 DEF PostBuffers
    <2>5. CountInv'
      BY <1>f, <1>b, <1>1, <1>2, <1>3, <1>4, <1>8, <1>9, <2>1, <2>2, <2>3, <2>4 DEF CountInv
    <2>6. QED
      BY <2>4, <2>5
  <1>10. CASE proc.apost + SamplesBuffer > proc.post
    <2>1. proc.over = 0 => PostBuffers = Buf(proc.post)
      <3>1. proc.over = 0 => /\ PostBuffers * SamplesBuffer <= proc.post
                             /\ proc.post < PostBuffers * SamplesBuffer + SamplesBuffer
        BY <1>f, <1>5, <1>10
      <3>2. PostBuffers \in Int
        BY <1>b
      <3>3. QED
        BY <1>f, <3>1, <3>2, BufIs
    <2>2. PostBuffers = Buf(proc.post) + proc.over
      BY <1>f, <1>b, <2>1
    <2>3. proc'.apost = proc.post /\ proc'.over = proc.over + 1
      BY <1>f, <1>10 DEF StreamsPost
    <2>4. PostBuffers' = PostBuffers + 1
      <3>1. PostBuffers' = Buf(proc.post) + (proc.over + 1)
        BY <1>f, <1>1, <2>3 DEF PostBuffers
      <3>2. QED
        BY <1>f, <1>b, <2>2, <3>1
    <2>5. CASE proc.over > 1
      <3>1. proc'.state = "POSTPROCESS" /\ proc'.pc = "estop" /\ proc'.quit = TRUE
        BY <1>f, <1>10, <2>5 DEF StreamsPost
      <3>2. proc.over = 2
        BY <1>f, <1>3, <2>5
      <3>3. QED
        BY <1>f, <1>b, <1>1, <1>2, <1>4, <1>8, <2>3, <2>4, <3>1, <3>2 DEF CountInv
    <2>6. CASE proc.over <= 1
      <3>1. proc'.state = "RUN_POST" /\ proc'.pc = "select" /\ proc'.quit = proc.quit
        BY <1>f, <1>3, <1>10, <2>6 DEF StreamsPost
      <3>2. QED
        BY <1>f, <1>b, <1>1, <1>2, <1>3, <1>4, <1>8, <2>3, <2>4, <2>6, <3>1 DEF CountInv
    <2>7. QED
      BY <1>f, <2>5, <2>6
  <1>11. QED
    BY <1>f, <1>9, <1>10

\* streamCore() does: it counts a buffer before or after the event.
LEMMA StreamBufferStep ==
  ASSUME ShotTimely, ShotInv, T!StreamBuffer
  PROVE  (IdleInv /\ T!DataSetComplete /\ (InShot => InShotInv))'
  <1>i. ShotTypeOK /\ T!DataSetComplete
    BY Zenon DEF ShotInv
  <1>1. /\ Streams /\ proc.pc = "feed" /\ proc.rd < Filled
        /\ hw' = [hw EXCEPT !.ev0 = hw'.ev0] /\ hw'.ev0 \in BOOLEAN
        /\ hw'.ev0 => hw.ev0 \/ proc'.accepting
        /\ UNCHANGED <<sigs, rt, pd, shot, result>>
    BY <1>i, StreamsABuffer
  <1>2. /\ hw'.smp = hw.smp /\ hw'.running = hw.running /\ hw'.irq = hw.irq
    <2> DEFINE e == hw'.ev0
    <2>1. hw' = [hw EXCEPT !.ev0 = e]
      BY <1>1
    <2> HIDE DEF e
    <2>2. QED
      BY <1>i, <2>1 DEF ShotTypeOK
  <1>f. /\ rt.at \in Nat /\ Filled \in Nat /\ proc.rd \in Nat
        /\ Buf(rt.at) \in Nat /\ MaxLag \in Nat /\ MaxLag >= 1 /\ hw.running \in BOOLEAN
        /\ proc.received \in BOOLEAN /\ proc.accepting \in BOOLEAN
        /\ proc.state \in {"STOP", "ARM", "RUN_PRE", "RUN_POST", "POSTPROCESS"}
    BY <1>i, ShotFields
  <1>3. LagInv /\ CountInv /\ EventInv /\ ShotSeenInv /\ CleanInv
    BY <1>1 DEF ShotInv, InShot, InShotInv
  <1>4. /\ Filled' = Filled /\ Mine' = Mine
        /\ UNCHANGED <<sigs, rt, pd, shot, result>>
    BY <1>1, <1>2 DEF Filled, Mine
  <1>5. /\ proc'.rd = proc.rd + 1 /\ proc'.pre = proc.pre /\ proc'.post = proc.post
        /\ proc'.received = proc.received /\ proc'.info = proc.info
        /\ StreamsPre \/ StreamsPost
    BY <1>1 DEF Streams
  <1>6. /\ proc'.pc \in {"select", "estop"}
        /\ proc'.pc = "estop" => proc'.quit
        /\ proc.accepting => proc'.accepting
    BY <1>5 DEF StreamsPre, StreamsPost
  <1>7. CountInv'
    BY <1>1, <1>3, <1>5, <1>i, CountPre, CountPost
  <1>8. IdleInv' /\ T!DataSetComplete'
    BY <1>4, <1>6, <1>i DEF IdleInv, T!DataSetComplete
  <1>9. LagInv'
    <2>1. Filled <= proc.rd + MaxLag + 1
      BY <1>1, <1>3 DEF LagInv
    <2>2. QED
      BY <1>f, <1>1, <1>4, <1>5, <1>6, <2>1 DEF LagInv
  <1>10. EventInv'
    <2>1. \A s \in Mine : s \in sigs
      BY DEF Mine
    <2>2. QED
      BY <1>1, <1>2, <1>3, <1>4, <1>5, <1>6, <2>1 DEF EventInv
  <1>11. ShotSeenInv'
    <2>1. CASE proc.received
      <3>1. ReadAt' = ReadAt
        <4>1. PostBuffers \in Nat /\ proc.accepting /\ proc.apre = proc.pre /\ proc.pre \in Nat
              /\ SamplesBuffer \in Nat \ {0}
          BY <1>3, <1>i, <2>1, ShotBounds, ShotFields DEF CountInv
        <4>2. CASE StreamsPre
          <5>1. proc.state # "ARM"
            BY <1>3, <2>1 DEF CountInv
          <5>2. proc.state = "RUN_PRE" /\ proc'.state = "RUN_POST"
                /\ proc'.apost = proc.apost /\ proc'.over = proc.over
            <6>1. proc.pre + SamplesBuffer \in Int /\ ~(proc.pre + SamplesBuffer < proc.pre)
              BY <4>1
            <6>2. ~(proc.apre + SamplesBuffer < proc.pre)
              BY <4>1, <6>1, Zenon
            <6>3. QED
              BY <2>1, <4>2, <5>1, <6>2 DEF StreamsPre
          <5>3. proc.apost = 0 /\ proc.over = 0
            BY <1>3, <5>2 DEF CountInv
          <5>4. PostBuffers' = 0
            <6>1. PostBuffers' = Buf(0)
              BY <5>2, <5>3 DEF PostBuffers
            <6>2. QED
              BY <6>1, BufIs, Times, ShotConstants
          <5>5. QED
            BY <1>f, <1>5, <5>2, <5>4 DEF ReadAt
        <4>3. CASE StreamsPost
          <5>1. PostBuffers' = PostBuffers + 1
            BY <1>1, <1>3, <1>i, <4>3, CountPost
          <5>2. proc.state # "RUN_PRE" /\ proc'.state # "RUN_PRE"
            BY <1>f, <4>3 DEF StreamsPost
          <5>3. QED
            BY <1>f, <1>5, <4>1, <5>1, <5>2 DEF ReadAt
        <4>4. QED
          BY <1>5, <4>2, <4>3
      <3>2. QED
        BY <1>2, <1>3, <1>4, <1>5, <2>1, <3>1 DEF ShotSeenInv, Noticed
    <2>2. CASE ~proc.received
      <3>1. rt.at # 0 => proc.rd < Buf(rt.at)
        BY <1>f, <1>1, <1>3, <2>2 DEF ShotSeenInv
      <3>2. QED
        BY <1>f, <1>4, <1>5, <1>6, <2>2, <3>1 DEF ShotSeenInv
    <2>3. QED
      BY <1>f, <2>1, <2>2
  <1>12. CleanInv'
    BY <1>3, <1>4 DEF CleanInv
  <1>13. QED
    BY <1>7, <1>8, <1>9, <1>10, <1>11, <1>12 DEF InShotInv

\* The end of the capture does.
LEMMA EndStep ==
  ASSUME ShotTimely, ShotInv, T!FeedEnds \/ T!estop
  PROVE  (IdleInv /\ T!DataSetComplete /\ (InShot => InShotInv))'
  <1>i. ShotTypeOK /\ T!DataSetComplete
    BY Zenon DEF ShotInv
  <1>f. /\ Filled \in Nat /\ proc.rd \in Nat /\ MaxLag \in Nat /\ hw.running \in BOOLEAN
    BY <1>i, ShotFields
  <1>1. PICK c \in {"estop", "end"} :
          /\ proc' = [proc EXCEPT !.pc = c] /\ UNCHANGED <<sigs, rt, pd, shot, result>>
          /\ \/ c = "estop" /\ proc.pc = "feed" /\ ~hw.running /\ proc.rd >= Filled /\ hw' = hw
             \/ c = "end" /\ proc.pc = "estop" /\ hw' = [hw EXCEPT !.running = FALSE]
    BY DEF T!FeedEnds, T!estop, T!Filling, T!BufferOf, Filled, Buf
  <1>2. /\ hw'.smp = hw.smp /\ hw'.running = FALSE /\ hw'.irq = hw.irq /\ hw'.ev0 = hw.ev0
    BY <1>1, <1>i DEF ShotTypeOK
  <1>3. /\ proc'.pc = c
        /\ proc'.pre = proc.pre /\ proc'.post = proc.post /\ proc'.apre = proc.apre
        /\ proc'.apost = proc.apost /\ proc'.over = proc.over /\ proc'.rd = proc.rd
        /\ proc'.accepting = proc.accepting /\ proc'.received = proc.received
        /\ proc'.quit = proc.quit /\ proc'.info = proc.info /\ proc'.state = proc.state
    BY <1>1, <1>i DEF ShotTypeOK, ShotProcess
  <1>4. LagInv /\ CountInv /\ EventInv /\ ShotSeenInv /\ CleanInv
    BY <1>1 DEF ShotInv, InShot, InShotInv
  <1>5. Filled' = Filled /\ Mine' = Mine /\ UNCHANGED <<sigs, rt, pd, shot, result>>
    BY <1>1, <1>2 DEF Filled, Mine
  <1>6. IdleInv' /\ T!DataSetComplete'
    BY <1>3, <1>5, <1>i DEF IdleInv, T!DataSetComplete
  <1>7. LagInv'
    BY <1>f, <1>1, <1>2, <1>3, <1>4, <1>5 DEF LagInv
  <1>8. CountInv'
    BY <1>2, <1>3, <1>4 DEF CountInv, PostBuffers
  <1>9. EventInv'
    BY <1>1, <1>2, <1>3, <1>4, <1>5 DEF EventInv
  <1>10. ShotSeenInv'
    BY <1>2, <1>3, <1>4, <1>5 DEF ShotSeenInv, Noticed, ReadAt, PostBuffers
  <1>11. CleanInv'
    BY <1>4, <1>5 DEF CleanInv
  <1>12. QED
    BY <1>6, <1>7, <1>8, <1>9, <1>10, <1>11 DEF InShotInv

----------------------------------------------------------------------------
(* The search.                                                             *)

\* Steps in the ring add up.
LEMMA AddMod ==
  ASSUME NEW m \in Nat \ {0}, NEW a \in Int, NEW c \in Int
  PROVE  ((a % m) + c) % m = (a + c) % m
  <1> DEFINE q == a \div m
             x == (a % m) + c
             p == x \div m
             r == x % m
  <1>1. q \in Int /\ a % m \in Int /\ a = m * q + (a % m)
    BY DivideFacts
  <1>2. x \in Int
    BY <1>1
  <1>3. p \in Int /\ r \in Int /\ x = m * p + r /\ 0 <= r /\ r < m
    BY <1>2, DivideFacts
  <1> HIDE DEF q, p, r
  <1>4. a + c = m * q + x
    BY <1>1
  <1> HIDE DEF x
  <1>5. m * (q + p) = m * q + m * p /\ m * q \in Int /\ m * p \in Int
    BY <1>1, <1>3
  <1>6. a + c = m * (q + p) + r
    BY <1>2, <1>3, <1>4, <1>5
  <1>7. (a + c) % m = r
    <2>1. a + c \in Int /\ q + p \in Int
      BY <1>1, <1>3
    <2>2. QED
      BY <1>3, <1>6, <2>1, DivideIs
  <1>8. QED
    BY <1>7 DEF r, x

\* The number in the shot of the i-th buffer searched, and the last of these.
Number(i) == IF i <= MaxForTrack THEN proc.info[2] + (i - 1)
             ELSE proc.info[2] - (i - MaxForTrack)
LastSearched == MaxForTrack + MaxBackTrack + 1

\* findEvent() goes from buffer to buffer as the shot did.
LEMMA CandidateIs ==
  ASSUME proc.info[2] \in Nat,
         proc.info[1] = IF proc.info[2] = 0 THEN T!None ELSE proc.info[2] - 1,
         NEW i \in 1 .. LastSearched
  PROVE  T!Candidate(i) = Number(i) % NBuf
  <1> DEFINE b == proc.info[2]
             r1 == T!RingIndex(proc.info[1])
             r2 == T!RingIndex(b)
  <1>c. /\ NBuf \in Nat \ {0} /\ MaxForTrack \in Nat /\ MaxBackTrack \in Nat
    BY ShotConstants
  <1>i. i \in Int /\ b \in Nat
    BY <1>c DEF LastSearched
  <1>1. T!Candidate(i) = IF i <= MaxForTrack THEN T!SuccBy(r2, i - 1)
                         ELSE T!PredBy(IF r1 = T!None THEN T!PredBy(r2, 1) ELSE r1,
                                       i - MaxForTrack - 1)
    BY Zenon DEF T!Candidate, T!Searched
  <1>2. r2 = b % NBuf
    BY <1>i DEF T!RingIndex, T!None
  <1>3. (b - 1) % NBuf \in Int /\ (b - 1) % NBuf >= 0
    BY <1>c, <1>i, DivideFacts
  <1>4. r1 = IF b = 0 THEN T!None ELSE (b - 1) % NBuf
    <2>1. CASE b = 0
      BY <2>1 DEF T!RingIndex, T!None
    <2>2. CASE b # 0
      <3>1. proc.info[1] = b - 1 /\ b - 1 # T!None
        BY <1>i, <2>2 DEF T!None
      <3>2. QED
        BY <2>2, <3>1, Zenon DEF T!RingIndex
    <2>3. QED
      BY <2>1, <2>2
  <1>5. Number(i) = IF i <= MaxForTrack THEN b + (i - 1) ELSE b - (i - MaxForTrack)
    BY DEF Number
  <1> HIDE DEF r1, r2, b
  <1>6. CASE i <= MaxForTrack
    <2>1. ((b % NBuf) + (i - 1)) % NBuf = (b + (i - 1)) % NBuf
      <3>1. i - 1 \in Int /\ b \in Int
        BY <1>i
      <3>2. QED
        BY <1>c, <3>1, AddMod
    <2>2. T!Candidate(i) = ((b % NBuf) + (i - 1)) % NBuf
      BY <1>1, <1>2, <1>6 DEF T!SuccBy
    <2>3. QED
      BY <1>5, <1>6, <2>1, <2>2, Zenon
  <1>7. CASE i > MaxForTrack
    <2> DEFINE w == (b - 1) % NBuf
               k == i - MaxForTrack - 1
    <2>1. (IF r1 = T!None THEN T!PredBy(r2, 1) ELSE r1) = w
      <3>1. CASE b = 0
        <4>1. T!PredBy(r2, 1) = ((b % NBuf) - 1) % NBuf
          BY <1>2 DEF T!PredBy
        <4>2. ((b % NBuf) + (-1)) % NBuf = (b + (-1)) % NBuf
          <5>1. b \in Int /\ -1 \in Int
            BY <1>i
          <5>2. QED
            BY <1>c, <5>1, AddMod
        <4>3. (b % NBuf) - 1 = (b % NBuf) + (-1) /\ b - 1 = b + (-1)
          BY <1>c, <1>i
        <4>4. QED
          BY <1>4, <3>1, <4>1, <4>2, <4>3, Zenon
      <3>2. CASE b # 0
        <4>1. r1 = w /\ w # T!None
          BY <1>3, <1>4, <3>2 DEF T!None
        <4>2. QED
          BY <4>1
      <3>3. QED
        BY <3>1, <3>2
    <2>2. T!Candidate(i) = T!PredBy(w, k)
      BY <1>1, <1>7, <1>c, <1>i, <2>1
    <2>3. k \in Int /\ -k \in Int /\ b - 1 \in Int
      BY <1>c, <1>i
    <2>4. w - k = w + (-k) /\ (b - 1) + (-k) = b - (i - MaxForTrack)
      BY <1>3, <1>c, <1>i
    <2> HIDE DEF k
    <2>5. (w + (-k)) % NBuf = ((b - 1) + (-k)) % NBuf
      BY <1>c, <2>3, AddMod
    <2>6. T!PredBy(w, k) = (w - k) % NBuf
      BY DEF T!PredBy
    <2>7. ~(i <= MaxForTrack)
      BY <1>7, <1>c, <1>i
    <2>8. QED
      BY <1>5, <2>2, <2>4, <2>5, <2>6, <2>7, Zenon
  <1>8. QED
    BY <1>6, <1>7, <1>c, <1>i

\* How far the process has come when it has stopped by itself.
LEMMA Stopped ==
  ASSUME ShotTimely, ShotTypeOK, LagInv, CountInv, proc.pc = "end", proc.quit
  PROVE  /\ PostBuffers = Buf(proc.post) + 3 /\ Buf(proc.post) \in Nat
         /\ proc.rd <= Filled /\ Filled <= proc.rd + MaxLag
         /\ proc.pre = 0 => proc.rd = PostBuffers
         /\ proc.pre > 0 => proc.received /\ proc.rd > PostBuffers
         /\ proc.state = "POSTPROCESS" /\ ReadAt = proc.rd - 1 - PostBuffers
  <1>1. proc.over = 3 /\ proc.state = "POSTPROCESS"
    BY DEF CountInv
  <1>2. PostBuffers = Buf(proc.post) + 3 /\ Buf(proc.post) \in Nat
    BY <1>1, ShotBounds
  <1>3. IF proc.pre > 0 THEN proc.received /\ proc.rd > PostBuffers ELSE proc.rd = PostBuffers
    BY <1>1 DEF CountInv
  <1>4. proc.pre \in Nat
    BY ShotFields
  <1>5. proc.rd <= Filled /\ Filled <= proc.rd + MaxLag
    BY DEF LagInv
  <1>6. ReadAt = proc.rd - 1 - PostBuffers
    BY <1>1 DEF ReadAt
  <1>7. QED
    BY <1>1, <1>2, <1>3, <1>4, <1>5, <1>6

\* What the event device told the process that has stopped: b2 is the buffer that was
\* being filled when it was read, soon after the event.
LEMMA Told ==
  ASSUME ShotTimely, ShotTypeOK, LagInv, CountInv, EventInv, ShotSeenInv,
         proc.pc = "end", proc.quit, proc.pre > 0, NEW s \in Mine
  PROVE  /\ proc.info[2] \in Nat
         /\ proc.info[1] = IF proc.info[2] = 0 THEN T!None ELSE proc.info[2] - 1
         /\ Buf(s.at) <= proc.info[2] /\ proc.info[2] <= Buf(s.at) + (MaxBackTrack + 1)
         /\ proc.info[2] + MaxForTrack <= proc.rd /\ proc.info[2] <= Filled
         /\ s.at <= rt.at /\ Buf(rt.at) <= ReadAt + 2
  <1> DEFINE E == Buf(rt.at)
             B == Buf(s.at)
             b == proc.info[2]
             F == Buf(proc.post)
             I == Span(MaxIrq)
  <1>f. /\ s.at \in Nat /\ B \in Nat /\ rt.at \in Nat /\ E \in Nat /\ Filled \in Nat
        /\ proc.rd \in Nat /\ MaxLag \in Nat /\ MaxIrq \in Nat /\ MaxForTrack \in Nat
        /\ MaxBackTrack \in Nat
    <2>1. s \in sigs
      BY DEF Mine
    <2>2. QED
      BY <2>1, ShotFields, ShotConstants
  <1>1. /\ PostBuffers = F + 3 /\ F \in Nat
        /\ proc.rd <= Filled /\ Filled <= proc.rd + MaxLag
        /\ proc.received /\ proc.rd > PostBuffers /\ ReadAt = proc.rd - 1 - PostBuffers
    BY Stopped
  <1>2. I \in Nat /\ MaxLag <= 2 /\ I + MaxLag <= MaxBackTrack + 1
        /\ MaxLag + MaxForTrack <= F + 4
    BY ShotBounds
  <1>3. rt.at # 0 /\ s.at <= rt.at /\ rt.at <= s.at + MaxIrq
    BY <1>1 DEF EventInv
  <1>4. B <= E /\ E <= B + I
    BY <1>3, <1>f, BufOrder, BufFar
  <1>5. ReadAt <= E /\ Noticed(proc.info[1], b, ReadAt)
    BY <1>1, <1>3 DEF ShotSeenInv
  <1>6. b \in Int
    BY <1>1, ReceivedInfo
  <1> HIDE DEF E, B, b, F, I
  <1>7. b # T!None
    <2>1. ~(Filled <= ReadAt + MaxLag)
      BY <1>1, <1>2, <1>f
    <2>2. QED
      BY <1>5, <2>1, Zenon DEF Noticed
  <1>8. /\ E <= b /\ b <= ReadAt + MaxLag /\ b <= Filled
        /\ proc.info[1] = IF b = 0 THEN T!None ELSE b - 1
    BY <1>5, <1>7, Zenon DEF Noticed, E
  <1>9. b \in Nat /\ B <= b
    BY <1>4, <1>6, <1>8, <1>f
  <1>10. b <= B + (MaxBackTrack + 1)
    BY <1>1, <1>2, <1>4, <1>5, <1>8, <1>9, <1>f
  <1>11. b + MaxForTrack <= proc.rd
    BY <1>1, <1>2, <1>8, <1>9, <1>f
  <1>12. E <= ReadAt + 2
    BY <1>1, <1>2, <1>8, <1>9, <1>f
  <1>13. QED
    BY <1>3, <1>8, <1>9, <1>10, <1>11, <1>12 DEF E, B, b

\* The first buffer of the search in which there is a signature is the event's.
LEMMA SearchFinds ==
  ASSUME ShotTimely, ShotTypeOK, InShotInv,
         proc.pc = "end", proc.quit, proc.pre > 0, NEW s \in Mine
  PROVE  T!SearchResult = {s}
  <1> DEFINE B == Buf(s.at)
             b == proc.info[2]
             K == LastSearched
             hits == {i \in 1 .. K : T!SigsIn(T!Candidate(i)) # {}}
             i0 == IF B = b THEN 1 ELSE MaxForTrack + (b - B)
  <1>i. /\ LagInv /\ CountInv /\ EventInv /\ ShotSeenInv /\ CleanInv
    BY DEF InShotInv
  <1>1. /\ b \in Nat /\ proc.info[1] = IF b = 0 THEN T!None ELSE b - 1
        /\ B <= b /\ b <= B + (MaxBackTrack + 1)
        /\ b + MaxForTrack <= proc.rd /\ b <= Filled
    BY <1>i, Told
  <1>f. /\ s \in sigs /\ s.at \in Nat /\ B \in Nat /\ Filled \in Nat
        /\ proc.rd \in Nat /\ MaxForTrack \in Nat \ {0} /\ MaxBackTrack \in Nat
        /\ NBuf \in Nat \ {0} /\ Span(proc.pre) \in Nat /\ K \in Nat
        /\ K = MaxForTrack + MaxBackTrack + 1
    <2>1. s \in sigs
      BY DEF Mine
    <2>2. QED
      BY <1>i, <2>1, ShotFields, ShotConstants, ShotBounds DEF LastSearched
  <1>2. proc.rd <= Filled /\ proc.received
    BY <1>i, Stopped
  <1>3. Filled + Span(proc.pre) < B + NBuf
    BY <1>2, <1>i, EventKept DEF InShot
  <1>n. \A i \in 1 .. K : T!Candidate(i) = Number(i) % NBuf
    BY <1>1, CandidateIs
  <1>o. \A i \in 1 .. K : T!SigsIn(T!Candidate(i)) = {t \in sigs : Buf(t.at) % NBuf = Number(i) % NBuf}
    BY <1>n DEF T!SigsIn, T!Slot, T!BufferOf, Buf
  <1>p. b # T!None
    BY <1>1 DEF T!None
  <1> HIDE DEF B, K
  <1>4. i0 \in 1 .. K /\ Number(i0) = B
    <2>1. i0 \in 1 .. K
      BY <1>1, <1>f
    <2>2. CASE B = b
      BY <1>f, <1>1, <2>2 DEF Number
    <2>3. CASE B # b
      BY <1>f, <1>1, <2>3 DEF Number
    <2>4. QED
      BY <2>1, <2>2, <2>3
  <1>5. i0 \in hits
    <2>1. T!SigsIn(T!Candidate(i0)) = {t \in sigs : Buf(t.at) % NBuf = B % NBuf}
      <3> HIDE DEF i0
      <3>1. QED
        BY <1>4, <1>o
    <2>2. s \in T!SigsIn(T!Candidate(i0))
      BY <1>f, <2>1 DEF B
    <2> HIDE DEF i0
    <2>3. QED
      BY <1>4, <2>2
  <1> DEFINE m == T!Min(hits)
  <1>6. m \in hits /\ \A i \in hits : m <= i
    <2>1. hits \in SUBSET Nat /\ hits # {}
      BY <1>5, <1>f
    <2> HIDE DEF hits
    <2>2. \E x \in hits : \A y \in hits : x <= y
      BY <2>1, NatMinimum
    <2>3. QED
      BY <2>2 DEF T!Min
  <1> DEFINE d == Number(m)
             found == {t \in sigs : Buf(t.at) % NBuf = d % NBuf}
  <1>7. m \in 1 .. K /\ m <= i0 /\ m \in Int /\ found # {}
        /\ T!SigsIn(T!Candidate(m)) = found
    <2>1. m \in 1 .. K /\ T!SigsIn(T!Candidate(m)) # {} /\ m <= i0
      BY <1>5, <1>6
    <2> HIDE DEF m
    <2>2. T!SigsIn(T!Candidate(m)) = found
      BY <1>o, <2>1
    <2>3. QED
      BY <1>f, <2>1, <2>2
  <1>s. T!SearchResult = {T!FirstIn(T!Candidate(m))}
    <2>1. hits # {}
      BY <1>5
    <2>2. T!SearchResult = IF hits # {} THEN {T!FirstIn(T!Candidate(m))}
                           ELSE IF {ib \in 0 .. NBuf - 1 : T!SigsIn(ib) # {}} # {}
                           THEN {T!FirstIn(T!Min({ib \in 0 .. NBuf - 1 : T!SigsIn(ib) # {}}))}
                           ELSE {}
      BY <1>p, Zenon DEF T!SearchResult, K, LastSearched
    <2>3. QED
      BY <2>1, <2>2, Zenon
  <1> HIDE DEF hits, m
  <1>8. d \in Nat /\ B <= d /\ d < Filled
    <2>1. CASE m <= MaxForTrack
      <3>1. d = b + (m - 1)
        BY <2>1 DEF Number
      <3>2. QED
        BY <1>1, <1>2, <1>7, <1>f, <2>1, <3>1
    <2>2. CASE m > MaxForTrack
      <3>1. d = b - (m - MaxForTrack)
        BY <1>7, <1>f, <2>2 DEF Number
      <3>2. m <= MaxForTrack + (b - B)
        BY <1>1, <1>7, <1>f, <2>2
      <3>3. QED
        BY <1>1, <1>2, <1>7, <1>f, <2>2, <3>1, <3>2
    <2>3. QED
      BY <1>7, <1>f, <2>1, <2>2
  <1> HIDE DEF d
  <1>9. Filled < d + NBuf /\ d \in 0 .. Filled
    BY <1>3, <1>8, <1>f
  <1>10. \A t \in found : t \in Mine
    BY <1>8, <1>9, <1>i DEF CleanInv, Mine
  <1>11. found = {s}
    <2>1. \A t \in found : t = s
      BY <1>10, <1>i DEF EventInv
    <2>2. QED
      BY <1>7, <2>1
  <1>12. T!FirstIn(T!Candidate(m)) = s
    <2>1. T!SigsIn(T!Candidate(m)) = {s}
      BY <1>7, <1>11
    <2>2. s.at % SamplesBuffer <= s.at % SamplesBuffer
      BY <1>f, ShotConstants, DivideFacts
    <2>3. QED
      BY <2>1, <2>2 DEF T!FirstIn
  <1>13. QED
    BY <1>s, <1>12

\* What a shot that has stopped by itself reports.
LEMMA ShotReports ==
  ASSUME ShotTimely, ShotTypeOK, InShotInv, proc.pc = "end", proc.quit,
         NEW e, NEW at,
         IF proc.pre = 0 THEN at = 0 ELSE e \in Mine /\ at = e.at
  PROVE  /\ at >= proc.pre /\ at + proc.post < hw.smp
         /\ Filled - Buf(at - proc.pre) < NBuf
  <1>i. /\ LagInv /\ CountInv /\ EventInv /\ ShotSeenInv
    BY DEF InShotInv
  <1>f. /\ hw.smp \in Nat /\ Filled \in Nat /\ proc.rd \in Nat /\ proc.pre \in Nat
        /\ proc.post \in Nat /\ rt.at \in Nat /\ Buf(rt.at) \in Nat /\ MaxLag \in Nat
        /\ NBuf \in Nat /\ SamplesBuffer \in Nat \ {0}
    BY ShotFields
  <1>1. /\ PostBuffers = Buf(proc.post) + 3 /\ Buf(proc.post) \in Nat
        /\ proc.rd <= Filled /\ Filled <= proc.rd + MaxLag
    BY <1>i, Stopped
  <1>2. /\ Filled * SamplesBuffer <= hw.smp
        /\ proc.rd * SamplesBuffer <= Filled * SamplesBuffer
        /\ Filled * SamplesBuffer \in Int /\ proc.rd * SamplesBuffer \in Int
    BY <1>1, <1>f, BufRange, Times DEF Filled
  <1>3. /\ proc.post < (Buf(proc.post) + 1) * SamplesBuffer
        /\ (Buf(proc.post) + 1) * SamplesBuffer \in Int
    BY <1>1, <1>f, BufRange, Times
  <1>4. CASE proc.pre = 0
    <2>1. at = 0 /\ proc.rd = Buf(proc.post) + 3 /\ Buf(0) = 0
      BY <1>1, <1>4, <1>i, Stopped, BufIs, Times, ShotConstants
    <2>2. (Buf(proc.post) + 1) * SamplesBuffer <= proc.rd * SamplesBuffer
      BY <1>1, <2>1, Times
    <2>3. at + proc.post < hw.smp
      BY <1>1, <1>2, <1>3, <1>f, <2>1, <2>2
    <2>4. Filled < NBuf
      <3>1. /\ Span(MaxIrq) \in Nat /\ Span(proc.pre) \in Nat
            /\ Span(MaxIrq) + MaxLag + 4 + Buf(proc.post) + Span(proc.pre) < NBuf
        BY <1>i, ShotBounds
      <3>2. QED
        BY <1>1, <1>f, <2>1, <3>1
    <2>5. at - proc.pre = 0
      BY <1>4, <2>1
    <2>6. QED
      BY <1>4, <1>f, <2>1, <2>3, <2>4, <2>5
  <1>5. CASE proc.pre # 0
    <2>1. e \in Mine /\ at = e.at /\ e \in sigs /\ at \in Nat /\ Buf(at) \in Nat
      <3>1. e \in Mine /\ at = e.at /\ e \in sigs
        BY <1>5 DEF Mine
      <3>2. QED
        BY <3>1, ShotFields
    <2>2. at <= rt.at /\ Buf(rt.at) <= ReadAt + 2
      BY <1>5, <1>f, <1>i, <2>1, Told
    <2>3. proc.received /\ ReadAt = proc.rd - 1 - PostBuffers
      BY <1>5, <1>f, <1>i, Stopped
    <2>4. proc.pre <= at
      BY <1>i, <2>1 DEF EventInv
    <2>5. at + proc.post < hw.smp
      <3> DEFINE E == Buf(rt.at)
                 F == Buf(proc.post)
      <3>1. rt.at < (E + 1) * SamplesBuffer /\ (E + 1) * SamplesBuffer \in Int
        BY <1>f, BufRange, Times
      <3>2. E \in Nat /\ F \in Nat /\ (E + 1) + (F + 1) <= proc.rd
        BY <1>1, <1>f, <2>2, <2>3
      <3> HIDE DEF E, F
      <3>3. ((E + 1) + (F + 1)) * SamplesBuffer <= proc.rd * SamplesBuffer
        BY <1>f, <3>2, Times
      <3>4. ((E + 1) + (F + 1)) * SamplesBuffer = (E + 1) * SamplesBuffer + (F + 1) * SamplesBuffer
        BY <3>2, Times
      <3>5. proc.post < (F + 1) * SamplesBuffer /\ (F + 1) * SamplesBuffer \in Int
        BY <1>3 DEF F
      <3>6. QED
        BY <1>2, <1>f, <2>1, <2>2, <3>1, <3>3, <3>4, <3>5
    <2>6. Filled + Span(proc.pre) < Buf(at) + NBuf
      <3>1. InShot
        BY DEF InShot
      <3>2. QED
        BY <1>i, <2>1, <2>3, <3>1, EventKept
    <2>7. Span(proc.pre) \in Nat /\ Buf(at) <= Buf(at - proc.pre) + Span(proc.pre)
          /\ Buf(at - proc.pre) \in Nat
      <3>1. at - proc.pre \in Nat /\ at <= (at - proc.pre) + proc.pre
        BY <1>f, <2>1, <2>4
      <3>2. QED
        BY <1>f, <2>1, <3>1, BufFar, BufRange
    <2>8. QED
      BY <1>f, <2>1, <2>4, <2>5, <2>6, <2>7
  <1>6. QED
    BY <1>4, <1>5

\* onStreamEnd() does: it reports a whole data set.
LEMMA FinishStep ==
  ASSUME ShotTimely, ShotInv, T!Finish
  PROVE  (IdleInv /\ T!DataSetComplete /\ (InShot => InShotInv))'
  <1> DEFINE report(r) == [r EXCEPT !.kind = IF proc.quit THEN @ ELSE "aborted"]
             success(s) == [kind |-> "success", pre |-> proc.pre, post |-> proc.post,
                            es |-> s, smp |-> hw.smp]
             first == [shot |-> shot, at |-> 0]
  <1>i. ShotTypeOK /\ proc.pc = "end"
    BY Zenon DEF ShotInv, T!Finish
  <1>1. InShotInv /\ LagInv /\ CountInv /\ EventInv
    BY <1>i DEF ShotInv, InShot, InShotInv
  <1>2. /\ result' = CASE proc.pre = 0 -> report(success(first))
                       [] proc.pre > 0 /\ proc.info = <<>> -> report([kind |-> "assert"])
                       [] proc.pre > 0 /\ T!IndexUndefined -> report([kind |-> "undefined"])
                       [] OTHER ->
                            IF T!SearchResult = {} THEN report([kind |-> "notfound"])
                            ELSE report(success(CHOOSE s \in T!SearchResult : TRUE))
        /\ proc' = T!NoProcess /\ shot' = shot
    BY Zenon DEF T!Finish
  <1>3. proc'.pc = "none" /\ ~hw'.running /\ ~hw'.irq
    <2> DEFINE e == hw.ev0 \/ rt.count >= EventLimit
    <2>1. hw' = [hw EXCEPT !.ev0 = e, !.irq = FALSE]
      BY Zenon DEF T!Finish
    <2> HIDE DEF e
    <2>2. hw'.running = hw.running /\ hw'.irq = FALSE
      BY <1>i, <2>1 DEF ShotTypeOK
    <2>3. ~hw.running
      BY <1>1, <1>i DEF LagInv
    <2>4. QED
      BY <1>2, <2>2, <2>3 DEF T!NoProcess
  <1>f. proc.pre \in Nat /\ proc.quit \in BOOLEAN
    BY <1>i, ShotFields
  <1>4. T!DataSetComplete'
    <2>1. CASE ~proc.quit
      <3>1. \A s : report(success(s)).kind = "aborted"
        BY <2>1
      <3>2. report([kind |-> "assert"]).kind = "aborted"
            /\ report([kind |-> "notfound"]).kind = "aborted"
            /\ report([kind |-> "undefined"]).kind = "aborted"
        BY <2>1
      <3> HIDE DEF report, success, first
      <3>3. result'.kind = "aborted"
        <4>1. CASE proc.pre = 0
          BY <1>2, <3>1, <4>1
        <4>2. CASE proc.pre # 0
          BY <1>2, <1>f, <3>1, <3>2, <4>2
        <4>3. QED
          BY <4>1, <4>2
      <3>4. QED
        BY <3>3 DEF T!DataSetComplete
    <2>2. CASE proc.quit
      <3>1. PICK s : /\ result' = report(success(s))
                     /\ IF proc.pre = 0 THEN s = first ELSE s \in Mine
        <4>1. CASE proc.pre = 0
          <5> HIDE DEF report, success, first
          <5>1. result' = report(success(first))
            BY <1>2, <4>1
          <5>2. QED
            BY <4>1, <5>1
        <4>2. CASE proc.pre # 0
          <5>1. proc.pre > 0
            BY <1>f, <4>2
          <5>2. proc.received
            BY <1>1, <1>i, <2>2, <5>1, Stopped
          <5>3. proc.info # <<>> /\ Mine # {}
            BY <1>1, <5>2 DEF EventInv
          <5>4. PICK s \in Mine : TRUE
            BY <5>3
          <5>5. ~T!IndexUndefined
            <6>1. LagInv /\ CountInv /\ EventInv /\ ShotSeenInv
              BY <1>1 DEF InShotInv
            <6>2. proc.info[2] \in Nat
              BY <1>i, <2>2, <5>1, <5>4, <6>1, Told
            <6>3. QED
              BY <6>2 DEF T!IndexUndefined, T!None
          <5>6. T!SearchResult = {s}
            BY <1>1, <1>i, <2>2, <5>1, <5>4, SearchFinds
          <5> HIDE DEF report, success, first
          <5>7. (CHOOSE x \in T!SearchResult : TRUE) = s
            BY <5>6
          <5>8. result' = report(success(s))
            BY <1>2, <4>2, <5>3, <5>5, <5>6, <5>7
          <5>9. QED
            BY <4>2, <5>4, <5>8
        <4>3. QED
          BY <4>1, <4>2
      <3>2. /\ result'.kind = "success" /\ result'.pre = proc.pre /\ result'.post = proc.post
            /\ result'.es = s /\ result'.smp = hw.smp
        BY <2>2, <3>1
      <3>3. s.shot = shot /\ (proc.pre = 0 => s.at = 0)
        BY <3>1 DEF Mine
      <3>4. /\ s.at >= proc.pre /\ s.at + proc.post < hw.smp
            /\ Filled - Buf(s.at - proc.pre) < NBuf
        <4>1. IF proc.pre = 0 THEN s.at = 0 ELSE s \in Mine /\ s.at = s.at
          BY <3>1, <3>3
        <4>2. QED
          BY <1>1, <1>i, <2>2, <4>1, ShotReports
      <3>5. QED
        BY <1>2, <3>2, <3>3, <3>4 DEF T!DataSetComplete, T!BufferOf, Filled, Buf
    <2>3. QED
      BY <1>f, <2>1, <2>2
  <1>5. QED
    BY <1>3, <1>4 DEF IdleInv, InShot

----------------------------------------------------------------------------
(* The shot.                                                               *)

\* The invariant of a shot holds at the start.
LEMMA ShotInit == T!Init => ShotInv
  <1> SUFFICES ASSUME T!Init PROVE ShotInv
    OBVIOUS
  <1>1. /\ hw = [running |-> FALSE, smp |-> 0, ev0 |-> TRUE, irq |-> FALSE]
        /\ sigs = {} /\ rt = [at |-> 0, count |-> 0] /\ pd = 0
        /\ proc = T!NoProcess /\ shot = 0 /\ result = [kind |-> "none"]
    BY DEF T!Init, T!NoResult
  <1>2. proc \in ShotProcess /\ proc.pc = "none"
    BY <1>1 DEF T!NoProcess, ShotProcess, Infos, Readings
  <1>3. ShotTypeOK
    BY <1>1, <1>2 DEF ShotTypeOK, ReadingOK
  <1>4. IdleInv /\ T!DataSetComplete /\ ~InShot
    BY <1>1, <1>2 DEF IdleInv, T!DataSetComplete, InShot
  <1>5. QED
    BY <1>3, <1>4 DEF ShotInv

\* And is kept by every step.
LEMMA ShotStep == ShotTimely /\ ShotInv /\ [T!Next]_shotvars => ShotInv'
  <1> SUFFICES ASSUME ShotTimely, ShotInv, [T!Next]_shotvars
               PROVE  ShotInv'
    OBVIOUS
  <1> DEFINE Rest == IdleInv /\ T!DataSetComplete /\ (InShot => InShotInv)
  <1>1. ShotTypeOK'
    BY ShotTypeStep DEF ShotInv
  <1>2. Rest'
    <2>1. CASE T!Sample
      BY <2>1, SampleStep
    <2>2. CASE T!Trigger
      BY <2>2, TriggerStep
    <2>3. CASE T!event_action
      BY <2>3, EventActionStep
    <2>4. CASE T!Abort
      BY <2>4, AbortStep
    <2>5. CASE T!SetEvent0 \/ T!Kill \/ \E pre \in Pres, post \in Posts : T!Construct(pre, post)
      BY <2>5, OutsideStep
    <2>6. CASE T!Start
      BY <2>6, StartStep
    <2>7. CASE T!Select
      BY <2>7, SelectStep
    <2>8. CASE T!event_read
      BY <2>8, EventReadStep
    <2>9. CASE T!StreamBuffer
      BY <2>9, StreamBufferStep
    <2>10. CASE T!FeedEnds \/ T!estop
      BY <2>10, EndStep
    <2>11. CASE T!Finish
      BY <2>11, FinishStep
    <2>12. CASE UNCHANGED shotvars
      <3>1. /\ hw' = hw /\ sigs' = sigs /\ rt' = rt /\ pd' = pd /\ proc' = proc
            /\ shot' = shot /\ result' = result
        BY <2>12 DEF shotvars
      <3>2. Rest
        BY Zenon DEF ShotInv
      <3>3. QED
        BY <3>1, <3>2 DEF IdleInv, T!DataSetComplete, InShot, InShotInv, LagInv, CountInv,
           EventInv, ShotSeenInv, CleanInv, Noticed, ReadAt, PostBuffers, Filled, Mine
    <2> HIDE DEF Rest
    <2>13. QED
      BY <2>1, <2>2, <2>3, <2>4, <2>5, <2>6, <2>7, <2>8, <2>9, <2>10, <2>11, <2>12, Zenon
         DEF T!Next, T!Process
  <1>3. QED
    BY <1>1, <1>2 DEF ShotInv

\* A shot that ends by itself reports success, and with it its own event and every sample
\* from pre before it to post after it, taken and not overwritten: findEvent() comes to
\* the buffer of the event, and to no other event, by the buffer numbers that the event
\* device gave.  That is so for rings of every size, buffers and settings of every length
\* and any number of shots, when they fit together as ShotTimely says.
THEOREM ShotsComplete == ShotTimely => (AllSpec => []DataSetComplete)
  <1> SUFFICES ASSUME ShotTimely
               PROVE  AllSpec => []DataSetComplete
    OBVIOUS
  <1>1. AllInit => ShotInv
    BY ShotInit DEF AllInit
  <1>2. ShotInv /\ [AllNext]_allvars => ShotInv'
    <2> SUFFICES ASSUME ShotInv, [AllNext]_allvars
                 PROVE  ShotInv'
      OBVIOUS
    <2>1. [T!Next]_shotvars
      BY Zenon DEF AllNext, ProcessesOnly, ShotOnly, allvars
    <2>2. QED
      BY <2>1, ShotStep
  <1>3. ShotInv => DataSetComplete
    BY Zenon DEF ShotInv, DataSetComplete
  <1>4. QED
    BY <1>1, <1>2, <1>3, PTL DEF AllSpec
=============================================================================
