------------------------------ MODULE Transient ------------------------------
(***************************************************************************)
(* A transient capture: acq400_stream follows the buffers that the driver  *)
(* fills until the samples before the event are in memory, lets the        *)
(* hardware raise the event, counts the samples after it, stops the        *)
(* capture and looks for the event signature in memory.                    *)
(*                                                                         *)
(* Three parties run side by side: the hardware (samples, event            *)
(* signatures), the driver (the interrupt and the event device) and the    *)
(* process StreamHeadPrePost.  The ring of buffers is filled in order and  *)
(* a new shot starts at its first buffer; what an earlier shot left in a   *)
(* buffer stays there until the buffer is filled again.  How the buffers   *)
(* travel through the driver is ContinuousCapture's subject, where the     *)
(* data go afterwards is TransientStore's.                                 *)
(***************************************************************************)
EXTENDS Integers, Sequences, FiniteSetsExt

CONSTANTS
    NBuf,           \* buffers of the ring
    SamplesBuffer,  \* samples_buffer
    Pres, Posts,    \* the settings of pre and post a shot may have
    MaxForTrack,    \* MAX_FORTRACK
    MaxBackTrack,   \* MAX_BACKTRACK
    EventLimit,     \* acq400_event_count_limit
    MaxIrq,         \* bound: samples taken before an interrupt is served
    MaxLag,         \* bound: filled buffers the process has not read when it runs
    MaxWait,        \* bound: samples taken before the first event of a shot
    MaxEvents,      \* bound: event signatures of a shot
    MaxShots        \* bound: shots

\* What the constants are; a module that instantiates this one assumes it.
TransientAssumption ==
    /\ NBuf \in Nat \ {0} /\ SamplesBuffer \in Nat \ {0}
    /\ Pres \subseteq Nat /\ Posts \subseteq Nat
    /\ {MaxForTrack, MaxBackTrack, EventLimit, MaxIrq, MaxLag} \subseteq Nat \ {0}
    /\ {MaxWait, MaxEvents, MaxShots} \subseteq Nat

VARIABLES
    hw,     \* the hardware: running, smp samples taken, ev0 event enable, irq
    sigs,   \* the event signatures in memory, [shot, at], at being a sample number
    rt,     \* the driver's rt.samples_at_event and rt.event_count
    pd,     \* samples_at_event of the open event file
    proc,   \* the process
    shot,   \* stats.shot
    result  \* what the last shot reported

vars == <<hw, sigs, rt, pd, proc, shot, result>>

None == -1
BufferOf(at) == at \div SamplesBuffer
Filling == BufferOf(hw.smp)             \* the number in this shot of that buffer

\* The process before it is started.  enable_state is what event0 was set to.
NoProcess == [pc |-> "none", pre |-> 0, post |-> 0, enable_state |-> FALSE,
              state |-> "STOP", apre |-> 0, apost |-> 0, over |-> 0,
              accepting |-> FALSE, received |-> FALSE, info |-> <<>>,
              reading |-> <<>>, fcset |-> FALSE, rd |-> 0, quit |-> FALSE]

NoResult == [kind |-> "none"]

Init ==
    /\ hw = [running |-> FALSE, smp |-> 0, ev0 |-> TRUE, irq |-> FALSE]
    /\ sigs = {}
    /\ rt = [at |-> 0, count |-> 0]
    /\ pd = 0
    /\ proc = NoProcess
    /\ shot = 0
    /\ result = NoResult

-----------------------------------------------------------------------------
(***************************************************************************)
(* The hardware and the driver.                                            *)
(***************************************************************************)

\* Where a signature lies in the ring.
Slot(s) == BufferOf(s.at) % NBuf

\* A sample is taken.  A buffer that it completes holds this shot's data only.
Sample ==
    LET done == BufferOf(hw.smp)
        full == (hw.smp + 1) % SamplesBuffer = 0
        mine == {s \in sigs : s.shot = shot}
    IN  /\ hw.running
        /\ mine = {} => hw.smp < MaxWait
        /\ hw.irq => \A s \in mine : hw.smp - s.at < MaxIrq
        /\ full => \/ done + 1 - proc.rd <= MaxLag
                   \/ proc.pc = "event" /\ done = proc.reading[3]
        /\ hw' = [hw EXCEPT !.smp = @ + 1]
        /\ sigs' = IF full
                   THEN {s \in sigs : Slot(s) = done % NBuf =>
                                        (s.shot = shot /\ BufferOf(s.at) = done)}
                   ELSE sigs
        /\ UNCHANGED <<rt, pd, proc, shot, result>>

\* The event input while TIM_CTRL enables it: a signature goes into the data and
\* the interrupt is raised.
Trigger ==
    LET mine == {s \in sigs : s.shot = shot}
        es == [shot |-> shot, at |-> hw.smp]
    IN  /\ hw.running /\ hw.ev0
        /\ es \notin sigs /\ Cardinality(mine) < MaxEvents
        /\ sigs' = sigs \cup {es}
        /\ hw' = [hw EXCEPT !.irq = TRUE]
        /\ UNCHANGED <<rt, pd, proc, shot, result>>

\* acq400_isr() calls event_action().
event_action ==
    /\ hw.irq
    /\ rt' = [at |-> hw.smp, count |-> rt.count + 1]
    /\ hw' = [hw EXCEPT !.irq = FALSE, !.ev0 = @ /\ rt.count + 1 < EventLimit]
    /\ UNCHANGED <<sigs, pd, proc, shot, result>>

\* The capture stops by itself, on an error or by another process.
Abort ==
    /\ hw.running
    /\ hw' = [hw EXCEPT !.running = FALSE]
    /\ UNCHANGED <<sigs, rt, pd, proc, shot, result>>

\* The user sets the event0 knob between shots.
SetEvent0 ==
    /\ proc.pc = "none" /\ ~hw.ev0
    /\ hw' = [hw EXCEPT !.ev0 = TRUE]
    /\ UNCHANGED <<sigs, rt, pd, proc, shot, result>>

-----------------------------------------------------------------------------
(***************************************************************************)
(* The process.                                                            *)
(***************************************************************************)

\* The constructor: the event is switched off and the event device opened.
Construct(pre, post) ==
    /\ proc.pc = "none" /\ shot < MaxShots
    /\ proc' = [NoProcess EXCEPT !.pc = "start", !.pre = pre, !.post = post,
                                 !.enable_state = hw.ev0]
    /\ hw' = [hw EXCEPT !.ev0 = FALSE]
    /\ pd' = rt.at
    /\ UNCHANGED <<sigs, rt, shot, result>>

\* hold_open() and open_feed() start the sites and the capture, which clears rt;
\* stream() clears the result.
Start ==
    /\ proc.pc = "start"
    /\ shot' = shot + 1
    /\ rt' = [at |-> 0, count |-> 0]
    /\ hw' = [hw EXCEPT !.running = TRUE, !.smp = 0, !.irq = FALSE]
    /\ proc' = [proc EXCEPT !.pc = "select", !.state = "ARM"]
    /\ result' = NoResult
    /\ UNCHANGED <<sigs, pd>>

EventReadable == rt.at # pd
FeedReadable == proc.rd < Filling \/ ~hw.running

\* getBufferId(): select(), and the first part of acq400_event_read(): the event is
\* somewhere between the last buffer filled and the one being filled.
Select ==
    /\ proc.pc = "select"
    /\ EventReadable \/ FeedReadable
    /\ proc' = [proc EXCEPT
            !.pc = IF EventReadable THEN "event" ELSE "feed",
            !.fcset = FeedReadable,
            !.reading = IF ~EventReadable THEN <<>>
                        ELSE <<rt.at, IF Filling = 0 THEN None ELSE Filling - 1,
                               IF hw.running THEN Filling ELSE None>>]
    /\ UNCHANGED <<hw, sigs, rt, pd, shot, result>>

\* acq400_event_read() waits until the buffer being filled is full; event_to, its
\* backstop, is left at its default, which is for ever.
event_read ==
    /\ proc.pc = "event"
    /\ Filling > proc.reading[3] \/ ~hw.running
    /\ pd' = proc.reading[1]
    /\ proc' = [proc EXCEPT
            !.pc = IF proc.fcset THEN "feed" ELSE "select",
            !.info = <<proc.reading[2], proc.reading[3]>>,
            !.received = @ \/ proc.accepting]
    /\ UNCHANGED <<hw, sigs, rt, shot, result>>

\* What streamCore() does with a buffer, as the new value of the process and whether
\* the event is switched on.
RunPre(p) ==
    LET apre == Min({p.apre + SamplesBuffer, p.pre}) IN
    IF apre < p.pre THEN [p EXCEPT !.apre = apre]
    ELSE IF p.received THEN [p EXCEPT !.apre = apre, !.state = "RUN_POST"]
    ELSE [p EXCEPT !.apre = apre, !.accepting = TRUE]

RunPost_exact(p) ==
    LET apost == p.apost + SamplesBuffer IN
    IF apost <= p.post THEN [p EXCEPT !.apost = apost]
    ELSE [p EXCEPT !.apost = p.post, !.state = "POSTPROCESS", !.quit = TRUE,
                   !.pc = "estop"]

RunPost(p) ==
    LET apost == p.apost + SamplesBuffer IN
    IF apost <= p.post THEN [p EXCEPT !.apost = apost]
    ELSE IF p.over > 1
         THEN [p EXCEPT !.apost = p.post, !.over = @ + 1, !.state = "POSTPROCESS",
                        !.quit = TRUE, !.pc = "estop"]
         ELSE [p EXCEPT !.apost = p.post, !.over = @ + 1]

\* Mutated form of SwitchesOn: once, with the first buffer.
SwitchesOn_first(p) == p.state = "RUN_PRE" /\ p.apre = SamplesBuffer

\* G::corner_turn_delay is 0: the event is on from the buffer that completes pre,
\* and is switched on again with each buffer until it is received.
SwitchesOn(p) == p.state = "RUN_PRE" /\ p.accepting

StreamBuffer ==
    LET p1 == [proc EXCEPT !.rd = @ + 1, !.pc = "select",
                           !.state = IF @ = "ARM"
                                     THEN IF proc.pre > 0 THEN "RUN_PRE" ELSE "RUN_POST"
                                     ELSE @]
        p2 == IF p1.state = "RUN_PRE" THEN RunPre(p1) ELSE RunPost(p1)
    IN  /\ proc.pc = "feed"
        /\ proc.rd < Filling
        /\ proc' = p2
        /\ hw' = [hw EXCEPT !.ev0 = IF SwitchesOn(p2) THEN p2.enable_state ELSE @]
        /\ UNCHANGED <<sigs, rt, pd, shot, result>>

\* The feed fails when the capture has stopped and all is read.
FeedEnds ==
    /\ proc.pc = "feed" /\ ~hw.running /\ proc.rd >= Filling
    /\ proc' = [proc EXCEPT !.pc = "estop"]
    /\ UNCHANGED <<hw, sigs, rt, pd, shot, result>>

estop ==
    /\ proc.pc = "estop"
    /\ hw' = [hw EXCEPT !.running = FALSE]
    /\ proc' = [proc EXCEPT !.pc = "end"]
    /\ UNCHANGED <<sigs, rt, pd, shot, result>>

-----------------------------------------------------------------------------
(***************************************************************************)
(* Looking for the event.                                                  *)
(***************************************************************************)
SuccBy(ib, n) == (ib + n) % NBuf
PredBy(ib, n) == (ib - n) % NBuf

SigsIn(ib) == {s \in sigs : Slot(s) = ib}

\* The first signature of a buffer in which there is one.
FirstIn(ib) ==
    CHOOSE s \in SigsIn(ib) :
        \A t \in SigsIn(ib) : s.at % SamplesBuffer <= t.at % SamplesBuffer

\* findEvent(): the i-th buffer that is searched, from the one that was being filled
\* forward, and then back from the one before it.
Searched(b1, b2, i) ==
    IF i <= MaxForTrack THEN SuccBy(b2, i - 1)
    ELSE PredBy(IF b1 = None THEN PredBy(b2, 1) ELSE b1, i - MaxForTrack - 1)

RingIndex(b) == IF b = None THEN None ELSE b % NBuf
Candidate(i) == Searched(RingIndex(proc.info[1]), RingIndex(proc.info[2]), i)

\* The event file was read after the capture had stopped: there was a buffer filled
\* last, but none being filled, and findEvent() indexes the_buffers with -1.
IndexUndefined ==
    proc.info # <<>> /\ proc.info[1] # None /\ proc.info[2] = None

\* findEvent(), which finds nothing when it is given no buffer at all, then
\* findEventSearchAll().
SearchResult ==
    LET hits == IF proc.info[2] = None THEN {}
                ELSE {i \in 1 .. MaxForTrack + MaxBackTrack + 1 : SigsIn(Candidate(i)) # {}}
        all == {ib \in 0 .. NBuf - 1 : SigsIn(ib) # {}}
    IN  IF hits # {} THEN {FirstIn(Candidate(Min(hits)))}
        ELSE IF all # {} THEN {FirstIn(Min(all))}
        ELSE {}

\* onStreamEnd() and close().  An event file that was never read is an assertion;
\* the last close of the device switches the event on again.
Finish ==
    LET ev0 == hw.ev0 \/ rt.count >= EventLimit
        report(r) == [r EXCEPT !.kind = IF proc.quit THEN @ ELSE "aborted"]
        found(s) == report([kind |-> "success", pre |-> proc.pre, post |-> proc.post,
                            es |-> s, smp |-> hw.smp])
    IN  /\ proc.pc = "end"
        /\ result' = CASE proc.pre = 0 -> found([shot |-> shot, at |-> 0])
                       [] proc.pre > 0 /\ proc.info = <<>> -> report([kind |-> "assert"])
                       [] proc.pre > 0 /\ IndexUndefined -> report([kind |-> "undefined"])
                       [] OTHER ->
                            IF SearchResult = {} THEN report([kind |-> "notfound"])
                            ELSE found(CHOOSE s \in SearchResult : TRUE)
        /\ hw' = [hw EXCEPT !.ev0 = ev0, !.irq = FALSE]
        /\ proc' = NoProcess
        /\ UNCHANGED <<sigs, rt, pd, shot>>

\* The process is killed: the driver stops the capture with the last close.
Kill ==
    /\ proc.pc # "none"
    /\ proc' = NoProcess
    /\ hw' = [hw EXCEPT !.running = FALSE, !.irq = FALSE,
                        !.ev0 = @ \/ rt.count >= EventLimit]
    /\ UNCHANGED <<sigs, rt, pd, shot, result>>

-----------------------------------------------------------------------------
Process == Start \/ Select \/ event_read \/ StreamBuffer \/ FeedEnds \/ estop \/ Finish

Next ==
    \/ Sample \/ Trigger \/ event_action \/ Abort \/ SetEvent0 \/ Kill
    \/ \E pre \in Pres, post \in Posts : Construct(pre, post)
    \/ Process

\* The converters run, interrupts are served and the process is scheduled.  An event
\* input that is enabled sees an event.
Spec ==
    /\ Init /\ [][Next]_vars
    /\ WF_vars(Process) /\ WF_vars(Sample) /\ WF_vars(event_action) /\ WF_vars(Trigger)

-----------------------------------------------------------------------------
\* A shot that ran to its end and reports success has found an event of its own, and
\* every sample from pre before it to post after it was taken and has not been
\* overwritten since (StreamHeadPrePost::streamCore(), findEvent()).  And after an
\* event it does report success: the buffer numbers that the event device gave lead
\* findEvent() to it, however late they were read, and to a buffer that there is.
DataSetComplete ==
    /\ result.kind = "success" =>
        /\ result.es.shot = shot
        /\ result.es.at >= result.pre
        /\ result.es.at + result.post < result.smp
        /\ BufferOf(result.smp) - BufferOf(result.es.at - result.pre) < NBuf
    /\ result.kind \notin {"notfound", "assert", "undefined"}

\* A shot that is started with the event switched on ends: no event goes unnoticed in
\* getBufferId() because an earlier shot's event had the same sample count, or
\* because it came before it was accepted.
ShotEnds == (proc.pc = "start" /\ proc.enable_state) ~> (proc.pc = "none")
=============================================================================
