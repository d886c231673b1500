--------------------------- MODULE StreamProcesses ---------------------------
(***************************************************************************)
(* The processes of acq400_stream when it aggregates sites, how they start *)
(* and how they end.  The original process becomes the reaper; the main    *)
(* process, its child, forks one holder for each site, which keeps the     *)
(* site's sideported device open while main streams from site 0; a live    *)
(* data process may be another child of the reaper.  All are one process   *)
(* group.  acq400_stream.cpp, and acq420_sideported_start(), _read() and   *)
(* _stop() of acq400_drv.c, which is what a holder holds.                  *)
(*                                                                         *)
(* The program is launched again when its reaper has exited; a process of  *)
(* the launch before may still be there.                                   *)
(***************************************************************************)
EXTENDS Integers, FiniteSets

CONSTANTS Sites,                \* G::the_sites
          MaxLaunches           \* bound: launches of the program

VARIABLES
  launch,                       \* launches so far
  reaper, main, live,           \* where the processes of this launch are
  holder,                       \* the holder of a site, for each launch
  term,                         \* processes with a SIGTERM pending
  pending,                      \* is a blocked signal pending to the reaper?
  aggsem,                       \* value of the semaphore
  seen,                         \* waitHolders(): the sites found ready
  running, continuous_reader,   \* each site: adev->stats.run, the reader mark
  left, quit                    \* history: launches whose main left without
                                \* close(), sites whose holder quit on an error

procs == <<reaper, main, live, holder>>
signals == <<term, pending>>
devices == <<running, continuous_reader>>
history == <<left, quit>>
vars == <<launch, procs, signals, aggsem, seen, devices, history>>

Launches == 0 .. MaxLaunches   \* 0: before the first
Me(s) == <<launch, s>>           \* a process of this launch

Init ==
  /\ launch = 0
  /\ reaper = "exited" /\ main = "exited" /\ live = "exited"
  /\ holder = [p \in Launches \X Sites |-> "none"]
  /\ term = {} /\ pending = FALSE
  /\ aggsem = 0 /\ seen = {}
  /\ running = [s \in Sites |-> FALSE]
  /\ continuous_reader = running
  /\ left = {} /\ quit = {}

Gone(p) == p \in {"none", "exited"}
HoldersGone == \A s \in Sites : Gone(holder[Me(s)])

----------------------------------------------------------------------------
(* The reaper.                                                             *)

\* init(), instance() and hold_open(sites) up to the fork of main: a new
\* process group, make_aggsem(), perhaps the live process.
Launch ==
  /\ reaper = "exited" /\ launch < MaxLaunches
  /\ launch' = launch + 1
  /\ reaper' = "setup" /\ main' = "forking"
  /\ live' \in {"none", "running"}
  /\ pending' = FALSE
  /\ aggsem' = 0 /\ seen' = {}
  /\ quit' = {}
  /\ UNCHANGED <<holder, term, devices, left>>

\* wait_and_cleanup(): SIGHUP, SIGINT and SIGCHLD are blocked outside
\* pselect() and, with SIGTERM, which is not, get a handler that only sets
\* a flag, it_was_sig_term.
ReaperReady ==
  /\ reaper = "setup"
  /\ reaper' = "loop"
  /\ UNCHANGED <<launch, main, live, holder, signals, aggsem, seen, devices, history>>

EnterSelect ==
  /\ reaper = "loop"
  /\ reaper' = "pselect"
  /\ UNCHANGED <<launch, main, live, holder, signals, aggsem, seen, devices, history>>

\* A blocked signal arrives.
Interrupt ==
  /\ reaper \in {"loop", "pselect"}
  /\ pending' = TRUE
  /\ UNCHANGED <<launch, procs, term, aggsem, seen, devices, history>>

\* SIGTERM to the reaper ends pselect().  During the setup the handler is
\* default_wait_on_sigterm(); and outside pselect() the handler's
\* it_was_sig_term is looked at only when something else ends pselect().
Terminate ==
  /\ \/ reaper = "setup" /\ reaper' = "default_wait"
     \/ reaper = "pselect" /\ reaper' = "kill"
  /\ UNCHANGED <<launch, main, live, holder, signals, aggsem, seen, devices, history>>

\* pselect() unblocks what is pending.
WakeOnSignal ==
  /\ reaper = "pselect" /\ pending
  /\ reaper' = "kill"
  /\ pending' = FALSE
  /\ UNCHANGED <<launch, main, live, holder, term, aggsem, seen, devices, history>>

\* "quit" or end of file on stdin; any other line is answered.
Stdin ==
  /\ reaper = "pselect"
  /\ reaper' \in {"kill", "loop"}
  /\ UNCHANGED <<launch, main, live, holder, signals, aggsem, seen, devices, history>>

\* The members of the process group.
Group ==
  (IF Gone(main) THEN {} ELSE {Me("main")}) \cup (IF Gone(live) THEN {} ELSE {Me("live")})
     \cup {Me(s) : s \in {t \in Sites : ~Gone(holder[Me(t)])}}

\* Mutated form of KillGroup: the child it forked, and not the group.
KillGroup_child ==
  /\ reaper = "kill"
  /\ term' = term \cup (Group \cap {Me("main")})
  /\ reaper' = "reap"
  /\ UNCHANGED <<launch, main, live, holder, pending, aggsem, seen, devices, history>>

\* kill(0, SIGTERM), which the reaper itself blocks.
KillGroup ==
  /\ reaper = "kill"
  /\ term' = term \cup Group
  /\ reaper' = "reap"
  /\ UNCHANGED <<launch, main, live, holder, pending, aggsem, seen, devices, history>>

\* waitpid() until it has no child left; the holders are not its children.
Reaped ==
  /\ reaper \in {"reap", "default_wait"}
  /\ Gone(main) /\ Gone(live)
  /\ reaper' = "exited"
  /\ UNCHANGED <<launch, main, live, holder, signals, aggsem, seen, devices, history>>

\* A child of the reaper goes: SIGCHLD, which is ignored before the setup.
Exits(p) ==
  /\ pending' = (pending \/ reaper \in {"loop", "pselect"})
  /\ term' = term \ {p}

\* The live data process fails, or is told to end.
LiveExits ==
  /\ live = "running"
  /\ live' = "exited" /\ Exits(Me("live"))
  /\ UNCHANGED <<launch, reaper, main, holder, aggsem, seen, devices, history>>

----------------------------------------------------------------------------
(* Main.                                                                   *)

\* A fork() does not complete while a signal is pending, so that kill() of
\* the group misses no child.
ForkHolder(s) ==
  /\ main = "forking" /\ Me("main") \notin term /\ holder[Me(s)] = "none"
  /\ holder' = [holder EXCEPT ![Me(s)] = "sem_wait"]
  /\ UNCHANGED <<launch, reaper, main, live, signals, aggsem, seen, devices, history>>

\* sem_post(G::aggsem), when all the holders are forked.
PostAggsem ==
  /\ main = "forking" /\ \A s \in Sites : holder[Me(s)] # "none"
  /\ aggsem' = 1
  /\ main' = "waitHolders"
  /\ UNCHANGED <<launch, reaper, live, holder, signals, seen, devices, history>>

\* waitHolders(): the sites are polled one after the other ...
HolderReady(s) ==
  /\ main = "waitHolders" /\ continuous_reader[s]
  /\ seen' = seen \cup {s}
  /\ UNCHANGED <<launch, procs, signals, aggsem, devices, history>>

\* Mutated form of Stream: main does not wait for the last of them.
Stream_early ==
  /\ main = "waitHolders" /\ Cardinality(seen) >= Cardinality(Sites) - 1
  /\ main' = "streaming"
  /\ UNCHANGED <<launch, reaper, live, holder, signals, aggsem, seen, devices, history>>

\* ... and main streams.
Stream ==
  /\ main = "waitHolders" /\ seen = Sites
  /\ main' = "streaming"
  /\ UNCHANGED <<launch, reaper, live, holder, signals, aggsem, seen, devices, history>>

\* The poll times out, a device does not open, or the trigger fails and
\* soft_trigger_control() kills main: close() is not called.
MainFails ==
  /\ main \in {"waitHolders", "streaming"}
  /\ main' = "exited" /\ Exits(Me("main"))
  /\ left' = left \cup {launch}
  /\ UNCHANGED <<launch, reaper, live, holder, aggsem, seen, devices, quit>>

\* The data set is complete: close() calls kill_the_holders().
KillTheHolders ==
  /\ main = "streaming"
  /\ main' = "closing"
  /\ term' = term \cup (Group \ {Me("main"), Me("live")})
  /\ UNCHANGED <<launch, reaper, live, holder, pending, aggsem, seen, devices, history>>

\* default_wait_on_sigterm(): main waits for its holders too.
MainTermed ==
  /\ Me("main") \in term /\ main \in {"forking", "waitHolders", "streaming"}
  /\ main' = "waiting"
  /\ UNCHANGED <<launch, reaper, live, holder, signals, aggsem, seen, devices, history>>

\* wait() of the holders, in kill_the_holders() or the handler, and exit.
MainExits ==
  /\ main \in {"closing", "waiting"} /\ HoldersGone
  /\ main' = "exited" /\ Exits(Me("main"))
  /\ UNCHANGED <<launch, reaper, live, holder, aggsem, seen, devices, history>>

----------------------------------------------------------------------------
(* A holder p, of this launch or of the one before.                        *)

\* holder_wait_and_pass_aggsem() leaves the semaphore as it found it.
TakeAggsem(p) ==
  /\ holder[p] = "sem_wait" /\ p[1] = launch /\ aggsem > 0
  /\ holder' = [holder EXCEPT ![p] = "open"]
  /\ UNCHANGED <<launch, reaper, main, live, signals, aggsem, seen, devices, history>>

\* acq420_sideported_start(): any number of readers may open a site.
HoldOpen(p) ==
  /\ holder[p] = "open"
  /\ holder' = [holder EXCEPT ![p] = "opened"]
  /\ running' = [running EXCEPT ![p[2]] = TRUE]
  /\ UNCHANGED <<launch, reaper, main, live, signals, aggsem, seen, continuous_reader, history>>

\* acq400_sideported_read(): only now is the reader marked.
HolderReads(p) ==
  /\ holder[p] = "opened"
  /\ holder' = [holder EXCEPT ![p] = "reading"]
  /\ continuous_reader' = [continuous_reader EXCEPT ![p[2]] = TRUE]
  /\ UNCHANGED <<launch, reaper, main, live, signals, aggsem, seen, running, history>>

\* The process ends, by SIGTERM or on an error report of the site; the file
\* is closed: acq420_sideported_stop().
HolderExits(p) ==
  /\ ~Gone(holder[p])
  /\ \/ p \in term /\ UNCHANGED history
     \/ holder[p] = "reading" /\ quit' = quit \cup {p[2]} /\ UNCHANGED left
  /\ IF holder[p] \in {"opened", "reading"}
     THEN /\ running' = [running EXCEPT ![p[2]] = FALSE]
          /\ continuous_reader' = [continuous_reader EXCEPT ![p[2]] = FALSE]
     ELSE UNCHANGED devices
  /\ holder' = [holder EXCEPT ![p] = "exited"]
  /\ term' = term \ {p}
  /\ UNCHANGED <<launch, reaper, main, live, pending, aggsem, seen>>

----------------------------------------------------------------------------

ReaperStep == ReaperReady \/ EnterSelect \/ WakeOnSignal \/ KillGroup \/ Reaped

MainStep ==
  \/ \E s \in Sites : ForkHolder(s) \/ HolderReady(s)
  \/ PostAggsem \/ Stream \/ MainTermed \/ MainExits

HolderStep(p) ==
  TakeAggsem(p) \/ HoldOpen(p) \/ HolderReads(p) \/ HolderExits(p)

Next ==
  \/ Launch \/ Interrupt \/ Terminate \/ Stdin \/ LiveExits \/ MainFails \/ KillTheHolders
  \/ ReaperStep \/ MainStep
  \/ \E l \in Launches, s \in Sites : HolderStep(<<l, s>>)

\* Every process runs, and a signal is delivered: a user does not type a line
\* at each pselect() for ever.  Nothing makes a capture end, a site fail or a
\* user stop it.
Spec ==
  /\ Init /\ [][Next]_vars
  /\ WF_vars(ReaperStep) /\ SF_vars(WakeOnSignal) /\ WF_vars(MainStep)
  /\ WF_vars(Me("live") \in term /\ LiveExits)
  /\ \A l \in 1 .. MaxLaunches, s \in Sites :
       /\ WF_vars(TakeAggsem(<<l, s>>) \/ HoldOpen(<<l, s>>) \/ HolderReads(<<l, s>>))
       /\ WF_vars(<<l, s>> \in term /\ HolderExits(<<l, s>>))

----------------------------------------------------------------------------

\* While main streams and has not been told to end, every site it aggregates
\* is running, unless the site's holder gave it up on an error: no holder of
\* this launch or of one before stops a site under main.  And when the reaper has
\* gone no process of the launch is left.  (A main that leaves without close()
\* leaves holders that the reaper does not wait for, and both fail for the next
\* launch.)
SitesHeld ==
  /\ main = "streaming" /\ Me("main") \notin term /\ left \subseteq {launch}
       => \A s \in Sites \ quit : running[s]
  /\ reaper = "exited" /\ launch \notin left => Group = {}

\* A signal the reaper blocks outside pselect(), or the end of a child it
\* has seen start, ends every process of the group.
EndsTogether ==
  \A l \in 1 .. MaxLaunches : (launch = l /\ pending) ~> (launch > l \/ Group = {})
=============================================================================
