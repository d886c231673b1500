----------------------------- MODULE MCAlgorithms -----------------------------
(***************************************************************************)
(* What acq400_stream makes of the data, for TLC: its algorithms on every  *)
(* input of a small size, against reference definitions, where a behaviour *)
(* takes one input and computes one result; the events it takes from a     *)
(* stream (MultiEvent); and the distribution of triggers (Wrtd).  A        *)
(* behaviour is of one task, and the rest stays in its initial state.      *)
(***************************************************************************)
EXTENDS TransientStore, StreamFilters

CONSTANTS MaxPre, MaxPost,  \* samples before and after the event
          MaxOver           \* oversampling

VARIABLES task, out,
          hb, events, live, pipe, user, mes, shown, saved, late, nev,
          now, stamp, mode, ntx, wake, sent, received, net, trg, kids, tap, fired

evvars == <<hb, events, live, pipe, user, mes, shown, saved, late, nev>>
wrvars == <<now, stamp, mode, ntx, wake, sent, received, net, trg, kids, tap, fired>>
vars == <<task, out, evvars, wrvars>>

\* Events in a stream over eight buffers of two samples.
ME == INSTANCE MultiEvent WITH
        nbuffers <- 8, bufferlen <- 2, LivePre <- 1, LivePost <- 1,
        Settings <- {<<3, 1>>, <<1, 3>>}, suppress_event <- 0, maxfiles_limit <- 3,
        MaxLag <- 1, MaxNumber <- 2, MaxBuffers <- 10, MaxEvents <- 2

\* Triggers from the last second before the three bits of the registers wrap,
\* for long enough that a late one comes round.  One is for both registers, and
\* one names a register that is not there.  A tick is 12.5 ns.
W == INSTANCE Wrtd WITH
        ticks_per_sec <- 4, delta_ticks <- 3, delay01 <- 2, local_clkdiv <- 2,
        local_clkoffset <- 1, NsNum <- 25, NsDen <- 2, ntriggers <- 2, max_tx <- 2,
        Headers <- {[mask |-> {}, id |-> 2], [mask |-> {1, 3}, id |-> 0]},
        Ats <- {[sec |-> 8, ns |-> 13]}, BaseTai <- 64, MaxDelay <- 2, MaxLag <- 1,
        MaxSent <- 2, MaxReceived <- 2, Start <- 29, LastSent <- 31, Horizon <- 68

EventsTask == [alg |-> "events"]
TriggersTask == [alg |-> "triggers"]

RingSamples == b2s(BaHi - BaLo)
BufSamples == BufLen \div NChan

\* A signature of esam samples, all that get_nchan_ES() can give, at sample es.
StoreTasks ==
    [alg : {"store"}, es : 0 .. RingSamples - 1, esam : {1, 2, 4},
     pre : 1 .. MaxPre, post : 1 .. MaxPost, cooked : BOOLEAN]

\* nsam samples of nc channels in buffers of len words, with a signature of es
\* samples before sample esat when that is one of them.
DemuxTasks ==
    [alg : {"demux"}, nc : 2 .. 3, step : 1 .. 2, es : 1 .. 2, esat : 0 .. 7, len : 2 .. 9]

SubrateTasks ==
    [alg : {"subrate"}, nc : {2}, nsam : 1 .. 7, over : 1 .. MaxOver, top : {1, 3}]

\* Sample sig of the buffer, if there is one, is a signature.
SubsetTasks ==
    [alg : {"subset"}, nc : 2 .. 4, nsam : 1 .. 4, start : 0 .. 2, len : 1 .. 3, sig : 0 .. 4]

\* The words of the stream of a demux task: word number w of channel c is 10 * w + c.
DemuxSamples == 6
DemuxStream(t) ==
    LET sample(k) == [i \in 1 .. t.nc * t.step |->
                        10 * (k * t.step + ((i - 1) % t.step)) + (i - 1) \div t.step]
        es == [i \in 1 .. t.nc * t.es |-> Es]
    IN  FoldLeft(LAMBDA ws, k : ws \o (IF k = t.esat THEN es ELSE <<>>) \o sample(k),
                 <<>>, [k \in 1 .. DemuxSamples |-> k - 1])

Cut(ws, len) == [i \in 1 .. (Len(ws) + len - 1) \div len |->
                    SubSeq(ws, (i - 1) * len + 1, Min({i * len, Len(ws)}))]

\* Without a signature a buffer need not hold a whole number of samples.
DemuxLen(t) == t.len * t.step * (IF t.esat < DemuxSamples THEN t.nc ELSE 1)

\* The words of channel 0 are all at the top of the range.
SubrateWords(t) == [n \in 1 .. t.nsam * t.nc |-> IF n % t.nc = 1 THEN t.top ELSE n % 4]

SubsetWords(t) ==
    [n \in 1 .. t.nsam * t.nc |-> IF (n - 1) \div t.nc = t.sig THEN Es ELSE n]

\* What the buffer before left in buf.
Left == 0

Memory == [a \in 0 .. BaHi - 1 |-> a]

Compute(t) ==
    CASE t.alg = "store" ->
            PostProcess(Memory, BaLo + s2b(t.es), t.pre, t.post, s2b(t.esam), t.cooked, 1)
      [] t.alg = "demux" ->
            DemuxAll(Cut(DemuxStream(t), DemuxLen(t)),
                     t.nc, t.step, t.nc * t.es).out
      [] t.alg = "subrate" ->
            [over |-> Oversample(SubrateWords(t), t.nc, t.over, ASR(t.over)),
             single |-> IF t.nsam >= t.over
                        THEN SingleSample(SubrateWords(t), t.nc, t.over, ASR(t.over)) ELSE <<>>]
      [] t.alg = "subset" ->
            [sub |-> Subset([i \in 1 .. t.nsam * t.len |-> Left], SubsetWords(t), t.nc, t.start, t.len).out,
             mask |-> [i \in 1 .. t.nsam |->
                        Gather(SubSeq(SubsetWords(t), (i - 1) * t.nc + 1, i * t.nc),
                               t.start .. t.start + t.len - 1)]]

Init ==
    /\ task \in StoreTasks \cup SubrateTasks \cup {EventsTask, TriggersTask}
                \cup {t \in DemuxTasks : t.es % t.step = 0}
                \cup {t \in SubsetTasks : t.start + t.len <= t.nc}
    /\ out = <<>>
    /\ ME!Init /\ W!Init
    /\ task # TriggersTask => mode = "none"

Run ==
    /\ task \notin {EventsTask, TriggersTask} /\ out = <<>>
    /\ out' = Compute(task)
    /\ UNCHANGED <<task, evvars, wrvars>>

Next ==
    \/ Run
    \/ task = EventsTask /\ ME!Next /\ UNCHANGED <<task, out, wrvars>>
    \/ task = TriggersTask /\ W!Next /\ UNCHANGED <<task, out, evvars>>

Spec == Init /\ [][Next]_vars

-----------------------------------------------------------------------------
Done(alg) == task.alg = alg /\ out # <<>>

RingAdd(a, n) == BaLo + ((a - BaLo + n) % (BaHi - BaLo))

\* The n-th word of the data set of a task.
DataWord(t, n) ==
    RingAdd(BaLo + s2b(t.es), IF n < s2b(t.pre) THEN n - s2b(t.pre)
                                                ELSE n - s2b(t.pre) + s2b(t.esam))

\* Which word of the data set stands at address a once it has been demultiplexed.
CookedWord(a) ==
    LET sam == (a \div BufLen) * BufSamples + (a % BufSamples)
        chan == (a % BufLen) \div BufSamples
    IN  s2b(sam) + chan

\* The data set leaves room for one buffer in the ring; the event does not lie so
\* close to the end of the memory that the samples after it fit only if the
\* signature is not counted, which is how BufferDistribution tests it; and when the
\* data set runs over the end of the ring, its last sample lies in the buffer
\* that finish is in.  finish does not count the signature: it is at the
\* last sample when that is one sample, and may be in the buffer before otherwise.
StoreInDomain ==
    LET esp == BaLo + s2b(task.es)
        lastword == DataWord(task, s2b(task.pre + task.post) - 1)
    IN  /\ task.pre + task.post + task.esam + BufSamples <= RingSamples
        /\ RingSamples - task.es \notin task.post .. task.post + task.esam - 1
        /\ Mode(esp, task.pre, task.post) \in {"precorner", "postcorner"} =>
              GetBuffer(lastword) = GetBuffer(CornerFinish(esp, task.pre, task.post))

\* postProcess() brings the pre samples before the signature and the post samples
\* after it to the start of the memory, in order, without the signature, and in place;
\* or channel by channel when demultiplexed.  For signatures of one, two and four
\* samples, and wherever in the ring the event lies but for what StoreInDomain
\* leaves out: there the last samples are wrong.
DataSetMoved ==
    Done("store") /\ StoreInDomain =>
        /\ out.ok
        /\ \A n \in 0 .. s2b(task.pre + task.post) - 1 :
              LET to == IF task.cooked THEN CHOOSE a \in 0 .. BaHi - 1 : CookedWord(a) = n ELSE n
              IN  out.mem[to] = DataWord(task, n)

\* Some buffer ends within or right after the signature.
SignatureAtEnd(t) ==
    LET first == t.esat * t.nc * t.step IN
    /\ t.esat < DemuxSamples
    /\ \E n \in first + 1 .. first + t.nc * t.es : n % DemuxLen(t) = 0

\* demux() gives each channel its own words in the order in which they were taken,
\* however the stream is cut into buffers, and drops the signature: unless that is the
\* last of a buffer, when a word is read past its end.
ChannelsDemuxed ==
    Done("demux") /\ ~SignatureAtEnd(task) =>
        \A ic \in 0 .. task.nc - 1 :
            out[ic] = [w \in 1 .. DemuxSamples * task.step |-> 10 * (w - 1) + ic]

\* The samples of a buffer, of the channels of the task, from one to another.
Chosen(from, to) == FlattenSeq(SubSeq(out.mask, from + 1, to + 1))

\* A word of an oversampled stream is in the range of the words it is made of: ASR()
\* is "needed to ensure no overflow".  Of the client that makes one sample of a
\* buffer this is claimed only when over divides its samples: its stride is
\* rounded down, so that otherwise it adds more samples than the shift is for.
\* The two ways to take channels from a stream agree and keep every sample
\* once; but a signature goes out whole from one of them, and after it what stands
\* first in its buffer, which is no sample of that place.
StreamsReduced ==
    /\ Done("subrate") =>
        /\ Len(out.over) = task.nc * (task.nsam \div task.over)
        /\ \A i \in DOMAIN out.over : out.over[i] <= 3
        /\ task.nsam % task.over = 0 => \A i \in DOMAIN out.single : out.single[i] <= 3
    /\ Done("subset") /\ task.sig >= task.nsam => out.sub = Chosen(0, task.nsam - 1)
    /\ Done("subset") /\ task.sig < task.nsam =>
        out.sub = Chosen(0, task.sig - 1) \o [i \in 1 .. task.nc |-> Es]
                    \o (IF task.sig = 0 THEN [i \in 1 .. task.len |-> Left] ELSE Chosen(0, 0))
                    \o Chosen(task.sig + 1, task.nsam - 1)

\* MultiEvent: what is shown and saved of an event are the samples around it.
EventsWhole == ME!EventsWhole

\* Wrtd: a trigger that comes in time fires at its time, on every receiver.
FiresOnTime == W!FiresOnTime

\* Wrtd: the child of a trigger at an absolute time does not sleep through it.
AbsoluteKept == W!AbsoluteKept
=============================================================================
