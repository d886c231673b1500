---------------------------- MODULE StreamFilters ----------------------------
(***************************************************************************)
(* What acq400_stream makes of the words of a buffer on their way to a     *)
(* client: demultiplexing into channels, oversampling, sums, subsets of    *)
(* the channels.  A buffer is a sequence of words, nc of them to a sample; *)
(* a word of an event signature is Es, any other word is a number.         *)
(***************************************************************************)
EXTENDS Integers, Sequences, SequencesExt, FiniteSetsExt

Es == -1

Samples(words, nc) == Len(words) \div nc
WordAt(words, nc, isam, ic) == words[isam * nc + ic + 1]

\* ES::isES(): every word that matches selects is a word of a signature, and it
\* selects some.
isES(cursor, matches) == matches # {} /\ \A i \in matches : cursor[i] = Es

\* get_nchan_ES(): a signature is at least eight long words.
nchan_ES(nchan, active, data32) ==
    LET nlongs == IF data32 THEN active ELSE active \div 2
    IN  nchan * (CASE nlongs >= 8 -> 1 [] nlongs \in 4 .. 7 -> 2 [] OTHER -> 4)

-----------------------------------------------------------------------------
(***************************************************************************)
(* DemuxBuffer::demux(): step words of a channel stand side by side (1, or *)
(* 2 for DB_DOUBLE).  The state between buffers is startchan and the       *)
(* output of each channel; within a buffer pos counts the words of the     *)
(* sample, top is true where a signature is looked for, and skip counts    *)
(* the words of a signature still to go.                                   *)
(***************************************************************************)
DemuxState(nc) == [startchan |-> 0, out |-> [ic \in 0 .. nc - 1 |-> <<>>]]

Deliver(st, w, nc, step) ==
    LET pos == st.pos + 1 IN
    [st EXCEPT !.out[st.pos \div step] = Append(@, w),
               !.pos = IF pos = nc * step THEN 0 ELSE pos,
               !.top = pos = nc * step]

DemuxWord(st, w, nc, step, es) ==
    CASE st.skip > 0 -> [st EXCEPT !.skip = @ - 1]
      [] st.skip = 0 /\ st.top /\ w = Es -> [st EXCEPT !.skip = es - 1, !.top = FALSE]
      [] OTHER -> Deliver(st, w, nc, step)

\* Every buffer is taken to start a sample.
Demux_aligned(d, words, next, nc, step, es) ==
    LET st0 == [pos |-> 0, top |-> TRUE, skip |-> 0, out |-> d.out]
        st1 == FoldLeft(LAMBDA st, w : DemuxWord(st, w, nc, step, es), st0, words)
    IN  [startchan |-> 0, out |-> st1.out]

\* A signature that ends the buffer is followed by one more word: next, the first of
\* the buffer after it.
Demux(d, words, next, nc, step, es) ==
    LET st0 == [pos |-> d.startchan * step, top |-> TRUE, skip |-> 0, out |-> d.out]
        st1 == FoldLeft(LAMBDA st, w : DemuxWord(st, w, nc, step, es), st0, words)
        st2 == IF words # <<>> /\ Last(words) = Es THEN Deliver(st1, next, nc, step) ELSE st1
    IN  [startchan |-> st2.pos \div step, out |-> st2.out]

\* The buffers of a stream, one after the other.
DemuxAll(bufs, nc, step, es) ==
    FoldLeft(LAMBDA d, i : Demux(d, bufs[i],
                                 IF i < Len(bufs) THEN bufs[i + 1][1] ELSE 0, nc, step, es),
             DemuxState(nc), [i \in 1 .. Len(bufs) |-> i])

-----------------------------------------------------------------------------
(***************************************************************************)
(* Oversampling.                                                           *)
(***************************************************************************)

\* The shift that divides by at least os.
ASR_short(os) == Max({n \in 0 .. os : 2 ^ n <= os})
ASR(os) == Min({n \in 0 .. os : 2 ^ n >= os})

SumOver(words, nc, isams, ic) ==
    FoldFunction(+, 0, [isam \in isams |-> WordAt(words, nc, isam, ic)])

\* OversamplingMapBuffer::writeBuffer(): one sample for over of the buffer; what is
\* left over at its end is dropped.
Oversample(words, nc, over, asr) ==
    LET osams == Samples(words, nc) \div over IN
    [n \in 1 .. osams * nc |->
        LET osam == (n - 1) \div nc
            ic == (n - 1) % nc
        IN  SumOver(words, nc, osam * over .. osam * over + over - 1, ic) \div 2 ^ asr]

\* OversamplingMapBufferSingleSample::writeBuffer(): one sample for the buffer, from
\* samples that are stride apart.  Fewer samples than over is a loop without end.
SingleSample(words, nc, over, asr) ==
    LET stride == Samples(words, nc) \div over
        isams == {i \in 0 .. Samples(words, nc) - 1 : i % stride = 0}
    IN  [ic \in 1 .. nc |-> SumOver(words, nc, isams, ic - 1) \div 2 ^ asr]

\* SumStreamHeadClientImpl: the sum of len channels from start, for each sample.
SumStream(words, nc, start, len) ==
    [i \in 1 .. Samples(words, nc) |->
        FoldFunction(+, 0, [ic \in start .. start + len - 1 |-> WordAt(words, nc, i - 1, ic)])]

-----------------------------------------------------------------------------
(***************************************************************************)
(* Subsets of the channels.                                                *)
(***************************************************************************)

\* SubsetStreamHeadClientImpl::onStreamBufferStart() with buf as the buffer before
\* left it: a signature goes out whole, after what is in buf; pb then points past the
\* first sample of buf, which goes out once more, before those after the signature.
SubsetSample(st, words, nc, start, len, isam) ==
    LET sample == SubSeq(words, isam * nc + 1, isam * nc + nc)
        fill(i) == IF i \in st.pb + 1 .. st.pb + len
                   THEN sample[start + i - st.pb] ELSE st.buf[i]
    IN  IF Head(sample) = Es
        THEN [st EXCEPT !.out = @ \o SubSeq(st.buf, 1, st.pb) \o sample, !.pb = len]
        ELSE [st EXCEPT !.buf = [i \in DOMAIN st.buf |-> fill(i)], !.pb = @ + len]

Subset(buf, words, nc, start, len) ==
    LET st == FoldLeft(LAMBDA s, isam : SubsetSample(s, words, nc, start, len, isam),
                       [buf |-> buf, pb |-> 0, out |-> <<>>],
                       [i \in 1 .. Samples(words, nc) |-> i - 1])
    IN  [buf |-> st.buf, out |-> st.out \o SubSeq(st.buf, 1, st.pb)]

\* SubsetStreamHeadClientChannelMask: the channels of the mask, in order.
Gather(sample, mask) ==
    LET chans == SetToSortSeq(mask, <) IN [i \in DOMAIN chans |-> sample[chans[i] + 1]]
=============================================================================
