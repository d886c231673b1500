---------------------------- MODULE TransientStore ----------------------------
(***************************************************************************)
(* What acq400_stream does with the memory of a transient capture when the *)
(* shot is over: it finds out where the data set lies round the event      *)
(* signature, brings it into one piece when it runs over the end of the    *)
(* ring, and copies or demultiplexes it down to the start of the memory.   *)
(*                                                                         *)
(* All the host buffers are mapped end to end: an address is a word of     *)
(* that mapping, a sample is NChan words, and an event signature is es     *)
(* words (G::nchan_ES), the place of one, two or four samples.  Buffers 0  *)
(* and 1 are reserved: the capture fills the others in turn, as a ring.    *)
(***************************************************************************)
EXTENDS Integers, Sequences, SequencesExt, FiniteSetsExt

CONSTANTS
    NBuffers,   \* Buffer::nbuffers
    BufLen,     \* Buffer::bufferlen, in words
    NChan,      \* G::nchan
    ShowEs      \* G::show_es

ASSUME StoreAssumption ==
    /\ NBuffers \in Nat /\ NBuffers > 3
    /\ NChan \in Nat \ {0}
    /\ BufLen \in Nat \ {0}
    /\ ShowEs \in BOOLEAN

\* MapBuffer::reserve(): the first two buffers are no part of the data set.
Reserved == 2
BaLo == Reserved * BufLen
BaHi == NBuffers * BufLen

\* A word that no buffer holds.
Junk == -1

s2b(samples) == samples * NChan
b2s(words) == words \div NChan

GetBuffer(a) == a \div BufLen

\* MapBuffer::succ() and pred().
Succ(ib) == IF ib >= NBuffers - 1 THEN Reserved ELSE ib + 1
Pred(ib) == IF ib = Reserved THEN NBuffers - 1 ELSE ib - 1

Segment(base, len) == [base |-> base, len |-> len]

-----------------------------------------------------------------------------
(***************************************************************************)
(* BufferDistribution: where the data set of an event at esp lies.         *)
(***************************************************************************)
Tailroom(esp) == b2s(esp - BaLo)
Headroom(esp) == b2s(BaHi - esp)

PreFits(esp, pre) == Tailroom(esp) >= pre
PostFits_loose(esp, post) == Headroom(esp) + 1 >= post
PostFits(esp, post) == Headroom(esp) >= post

Mode(esp, pre, post) ==
    CASE PreFits(esp, pre) /\ PostFits(esp, post) -> "linear"
      [] ~PreFits(esp, pre) /\ ~PostFits(esp, post) -> "error"
      [] ~PreFits(esp, pre) /\ PostFits(esp, post) -> "precorner"
      [] OTHER -> "postcorner"

SegmentsLinear(esp, pre, post, es) ==
    <<Segment(esp - s2b(pre), s2b(pre))>>
      \o (IF ShowEs THEN <<Segment(esp, es)>> ELSE <<>>)
      \o <<Segment(esp + es, s2b(post))>>

\* The buffers of the data set, first the ones up to the end of the ring and then
\* the ones from its start to fin, are numbered from 1; 0 is not in the data set.
BufferSeqs(first, fin) ==
    [ib \in 0 .. NBuffers - 1 |->
        CASE ib \in Reserved .. fin -> NBuffers - first + ib - Reserved + 1
          [] ib \notin Reserved .. fin /\ ib >= first -> ib - first + 1
          [] OTHER -> 0]

SeqLength(first, fin) == NBuffers - first + fin - Reserved + 1

\* The contents of buffer from moved to buffer to.
CopyBuffer(mem, to, from) ==
    [a \in DOMAIN mem |-> IF GetBuffer(a) = to THEN mem[a + (from - to) * BufLen]
                                                ELSE mem[a]]

\* BufferSeq::swap() through buffer 0, with what is known of each buffer.  No buffer
\* is ever empty here, so that BufferSeq::mv() is never called.
SwapBuffers(st, from, to) ==
    [ok |-> st.ok,
     mem |-> CopyBuffer(CopyBuffer(CopyBuffer(st.mem, 0, from), from, to), to, 0),
     iseq |-> [st.iseq EXCEPT ![0] = st.iseq[from], ![from] = st.iseq[to],
                              ![to] = st.iseq[from]],
     es |-> CASE st.es = from -> to [] st.es = to /\ st.es # from -> from
              [] OTHER -> st.es]

\* One turn of the loop of sortToLinearBuffer(): the buffer numbered k goes to
\* place k.  It is an assertion that there is one.
PlaceNext(st, k) ==
    LET froms == {ib \in DOMAIN st.iseq : st.iseq[ib] = k}
    IN  IF ~st.ok \/ froms = {} \/ k \notin DOMAIN st.iseq
        THEN [st EXCEPT !.ok = FALSE]
        ELSE SwapBuffers(st, Min(froms), k)

\* sortToLinearBuffer(): the data set is in one piece from buffer 1 on, and the
\* event signature is where its buffer went.
SortToLinear(mem, esp, start, finish) ==
    LET first == GetBuffer(start)
        fin == GetBuffer(finish)
        st == FoldLeft(PlaceNext,
                       [ok |-> TRUE, mem |-> mem, iseq |-> BufferSeqs(first, fin),
                        es |-> GetBuffer(esp)],
                       [k \in 1 .. SeqLength(first, fin) |-> k])
    IN  [ok |-> st.ok, mem |-> st.mem, esp |-> st.es * BufLen + (esp % BufLen)]

\* getSegmentsPrecorner() and getSegmentsPostcorner(): the two ends of the data set,
\* where the words of the signature are not counted.
CornerStart(esp, pre, post) ==
    IF PreFits(esp, pre) THEN esp - s2b(pre) ELSE BaHi - s2b(pre - Tailroom(esp))
CornerFinish(esp, pre, post) ==
    IF PreFits(esp, pre) THEN BaLo + s2b(post - Headroom(esp))
                         ELSE BaLo + s2b(Tailroom(esp)) + s2b(post)

\* getSegments().  ok is false where the program stops with an error.
Distribute(mem, esp, pre, post, es) ==
    CASE Mode(esp, pre, post) = "linear" ->
            [ok |-> TRUE, mem |-> mem, segs |-> SegmentsLinear(esp, pre, post, es)]
      [] Mode(esp, pre, post) = "error" -> [ok |-> FALSE, mem |-> mem, segs |-> <<>>]
      [] OTHER ->
            LET st == SortToLinear(mem, esp, CornerStart(esp, pre, post),
                                   CornerFinish(esp, pre, post))
            IN  [ok |-> st.ok, mem |-> st.mem,
                 segs |-> SegmentsLinear(st.esp, pre, post, es)]

-----------------------------------------------------------------------------
(***************************************************************************)
(* The copies.  Each is a sequence of word moves, done in order, since the *)
(* source and the destination lie in the same memory.                      *)
(***************************************************************************)
Read(mem, a) == IF a \in DOMAIN mem THEN mem[a] ELSE Junk
MoveWord(mem, mv) == [mem EXCEPT ![mv.to] = Read(mem, mv.from)]
DoMoves(mem, mvs) == FoldLeft(MoveWord, mem, mvs)

\* The addresses of the words of the segments, taken one after the other.
Words(segs) ==
    FoldLeft(LAMBDA ws, seg : ws \o [i \in 1 .. seg.len |-> seg.base + i - 1], <<>>, segs)

\* BLT: the words of the segments, down to the start of the memory.
BltMoves(segs) ==
    LET ws == Words(segs) IN [i \in 1 .. Len(ws) |-> [to |-> i - 1, from |-> ws[i]]]

\* Demuxer::demux() over the segments: each buffer of the destination holds the
\* samples of one channel after those of the channel before.  With step 2 the two
\* samples of a channel lie side by side in the source.
ChannelBufferSam == BufLen \div NChan
DemuxTo(j, chan) ==
    (j \div ChannelBufferSam) * BufLen + chan * ChannelBufferSam + (j % ChannelBufferSam)

DemuxMoves(segs, step) ==
    LET ws == Words(segs)
        group(n) == (n - 1) \div (NChan * step)
        chan(n) == ((n - 1) % (NChan * step)) \div step
    IN  [n \in 1 .. Len(ws) |->
            [to |-> DemuxTo(group(n) * step + ((n - 1) % step), chan(n)), from |-> ws[n]]]

\* StreamHeadPrePost::postProcess() and DemuxingStreamHeadPrePost::postProcess() of
\* an event at esp; with pre = 0 the data set starts at esp.
PostProcess(mem, esp, pre, post, es, cooked, step) ==
    LET bd == IF pre > 0 THEN Distribute(mem, esp, pre, post, es)
              ELSE [ok |-> TRUE, mem |-> mem, segs |-> <<Segment(esp, s2b(post))>>]
    IN  [ok |-> bd.ok,
         mem |-> CASE ~bd.ok -> bd.mem
                   [] bd.ok /\ cooked -> DoMoves(bd.mem, DemuxMoves(bd.segs, step))
                   [] OTHER -> DoMoves(bd.mem, BltMoves(bd.segs))]
=============================================================================
