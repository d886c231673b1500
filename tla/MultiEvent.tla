----------------------------- MODULE MultiEvent -----------------------------
(***************************************************************************)
(* Events during a continuous stream: StreamHeadLivePP shows pre and post  *)
(* samples around each event on its output and passes the event on, down a *)
(* pipe, to MultiEventServer, another process, which saves its own pre and *)
(* post samples in a file.  Both read the host buffers, mapped as one      *)
(* array b0 .. b1, while the DMAC goes on round them.  acq400_stream.cpp.  *)
(*                                                                         *)
(* Samples and buffers are numbered from the start of the stream; the      *)
(* array keeps, at each offset, the sample last written there.  The main   *)
(* process runs at real time priority: it takes a buffer, and hb_last      *)
(* moves on, as the buffer fills.                                          *)
(***************************************************************************)
EXTENDS Integers, Sequences

CONSTANTS
  nbuffers, bufferlen,          \* Buffer::nbuffers, samples in a buffer
  LivePre, LivePost,            \* live_pre, live_post
  Settings,                     \* the <<pre, post>> a user may ask for
  suppress_event,               \* 0 or 1
  maxfiles_limit,
  MaxLag,                       \* buffers a process may be late, see BufferFull
  MaxNumber,                    \* bound: update numbers
  MaxBuffers,                   \* bound: buffers of the stream
  MaxEvents                     \* bound: events of the stream

VARIABLES
  hb,                           \* buffers filled so far
  events,                       \* samples of the events not yet read
  live,                         \* StreamHeadLivePP
  pipe,                         \* messages to the server
  user,                         \* /dev/shm/multi_event_settings
  mes,                          \* MultiEventServer
  shown, saved,                 \* what was shown and saved of the last event
  late,                         \* how late each process is
  nev                           \* events so far

vars == <<hb, events, live, pipe, user, mes, shown, saved, late, nev>>

Length == nbuffers * bufferlen
NotThere == -1

\* The sample at offset o of the array; the buffer being filled has none.
At(o) ==
  LET i == o \div bufferlen
      a == (hb - 1) - ((hb - 1 - i) % nbuffers)   \* the buffer last filled there
  IN IF i = hb % nbuffers \/ a < 0 THEN NotThere ELSE a * bufferlen + (o % bufferlen)

\* len samples of the array from offset o, as fwrite() takes them.
Copy(o, len) == [k \in 1 .. len |-> At(o + k - 1)]

\* The samples from a to b of the stream.
Samples(a, b) == [k \in 1 .. b - a + 1 |-> a + k - 1]

Nothing == [got |-> << >>, want |-> << >>, apart |-> TRUE]

Init ==
  /\ hb = 0 /\ events = << >> /\ nev = 0
  /\ live = [pc |-> "select", es |-> 0]
  /\ pipe = << >>
  /\ LET pp == CHOOSE x \in Settings : TRUE IN   \* the definition serve() began with
       /\ user = [pre |-> pp[1], post |-> pp[2], maxfiles |-> 1, number |-> 1]
       /\ mes = [pc |-> "fgets", pre |-> pp[1], post |-> pp[2], scanned |-> pp[2],
                 maxfiles |-> 1, number |-> 1, ev_count |-> 0, es |-> 0, hb0 |-> 0,
                 file |-> << >>, apart |-> TRUE]
  /\ shown = Nothing /\ saved = Nothing
  /\ late = [p \in {"live", "mes"} |-> 0]

----------------------------------------------------------------------------
(* The hardware and the user.                                              *)

delta_hb(a, b) == IF b >= a THEN b - a ELSE nbuffers - a + b
hb_last == (hb - 1) % nbuffers

post_buffers(post) == post \div bufferlen

\* Mutated form of Waited: the buffer in which the event was is not counted.
Waited_short == delta_hb(mes.hb0, hb_last) >= post_buffers(mes.scanned)
Waited == delta_hb(mes.hb0, hb_last) >= post_buffers(mes.scanned) + 1

\* What each process could do now, if it were given the processor.
Runnable(p) ==
  IF p = "live" THEN live.pc = "show" \/ (events # << >> /\ hb > Head(events) \div bufferlen)
  ELSE \/ mes.pc = "fgets" /\ pipe # << >>
       \/ mes.pc = "post" /\ Waited

\* The DMAC fills the next buffer.  A process is at most MaxLag buffers late
\* with what it could do.
BufferFull ==
  /\ hb < MaxBuffers
  /\ \A p \in {"live", "mes"} : Runnable(p) => late[p] < MaxLag
  /\ hb' = hb + 1
  /\ late' = [p \in {"live", "mes"} |-> IF Runnable(p) THEN late[p] + 1 ELSE 0]
  /\ UNCHANGED <<events, live, pipe, user, mes, shown, saved, nev>>

\* An event, in the buffer being filled, one to a buffer.
Event ==
  \E e \in hb * bufferlen .. (hb + 1) * bufferlen - 1 :
    /\ nev < MaxEvents
    /\ \A pp \in Settings : e >= pp[1] /\ e >= LivePre   \* there is as much data
    /\ \A i \in 1 .. Len(events) : e \div bufferlen > events[i] \div bufferlen
    /\ events' = Append(events, e)
    /\ nev' = nev + 1
    /\ UNCHANGED <<hb, live, pipe, user, mes, shown, saved, late>>

\* The user asks for other lengths, or for more files: with an update number,
\* which grows, or without.
UserSets ==
  \E pp \in Settings, n \in {0, user.number + 1}, m \in 0 .. 1 :
    /\ n <= MaxNumber
    /\ user' = [pre |-> pp[1], post |-> pp[2], maxfiles |-> m, number |-> n]
    /\ user' # user
    /\ UNCHANGED <<hb, events, live, pipe, mes, shown, saved, late, nev>>

----------------------------------------------------------------------------
(* StreamHeadLivePP::_stream().                                            *)

Offset(e) == e % Length

\* read(f_ev), which returns when the buffer of the event is full, findEvent()
\* and the message.  An event in the last buffer of the array is dropped.
LiveEvent ==
  /\ live.pc = "select" /\ events # << >>
  /\ LET e == Head(events)
         ibuf == (e \div bufferlen) % nbuffers
         found == At(Offset(e)) = e
     IN /\ hb > e \div bufferlen
        /\ pipe' = IF found /\ ibuf < nbuffers - 1
                   THEN Append(pipe, [es |-> e, apart |-> pipe = << >> /\ mes.pc = "fgets"])
                   ELSE pipe
        /\ live' = [pc |-> IF found /\ ibuf < nbuffers - 1 THEN "show" ELSE "select", es |-> e]
  /\ events' = Tail(events)
  /\ late' = [late EXCEPT !["live"] = 0]
  /\ UNCHANGED <<hb, user, mes, shown, saved, nev>>

\* The event is dropped unless its post samples are in its own buffer and its
\* pre samples do not begin before the array.
LiveFits(o) ==
  /\ o + LivePost <= (o \div bufferlen + 1) * bufferlen
  /\ o - LivePre > 0 /\ o + LivePost < Length

\* writeBuffer() of the pre and of the post samples.
LiveShows ==
  /\ live.pc = "show"
  /\ LET o == Offset(live.es)
     IN shown' = IF ~LiveFits(o) THEN Nothing
                 ELSE [got |-> Copy(o - LivePre, LivePre + LivePost),
                       want |-> Samples(live.es - LivePre, live.es + LivePost - 1),
                       apart |-> TRUE]
  /\ live' = [live EXCEPT !.pc = "select"]
  /\ late' = [late EXCEPT !["live"] = 0]
  /\ UNCHANGED <<hb, events, pipe, user, mes, saved, nev>>

----------------------------------------------------------------------------
(* MultiEventServer.                                                       *)

set_maxfiles(m) == IF m > maxfiles_limit THEN maxfiles_limit ELSE m

\* update_prams(): three fields, or a fourth that is a newer number.  What is
\* not taken is scanned all the same, and is the post of post_buffers().
update_prams ==
  LET nf4 == user.number # 0
      taken == ~nf4 \/ user.number > mes.number
      more == set_maxfiles(user.maxfiles + mes.ev_count)
  IN IF ~taken THEN [mes EXCEPT !.scanned = user.post]
     ELSE [mes EXCEPT
            !.pre = user.pre, !.post = user.post, !.scanned = user.post,
            !.number = IF nf4 THEN user.number ELSE @,
            !.maxfiles = IF user.maxfiles = 0 THEN 0
                         ELSE IF nf4 \/ @ # 0 THEN more ELSE @]

\* handle_event(): the pre samples, from the end of the array when the event
\* is near its beginning.
PreSamples(m, o) ==
  IF m.pre > o THEN Copy(Length - (m.pre - o), m.pre - o) \o Copy(0, o)
  ELSE Copy(o - m.pre, m.pre)

\* The post samples and the event itself, to the end of the array and on
\* from its beginning.
PostSamples(m, o) ==
  LET n == m.post + 1
      ss == suppress_event
  IN IF n > Length - o THEN Copy(o + ss, Length - o - ss) \o Copy(0, n - (Length - o))
     ELSE Copy(o + ss, n - ss)

\* serve(): a message and the settings: no file when there are enough.
ServeNoFile ==
  /\ mes.pc = "fgets" /\ pipe # << >>
  /\ mes.ev_count >= update_prams.maxfiles
  /\ mes' = [update_prams EXCEPT !.ev_count = @ + 1]
  /\ pipe' = Tail(pipe)
  /\ late' = [late EXCEPT !["mes"] = 0]
  /\ UNCHANGED <<hb, events, live, user, shown, saved, nev>>

\* handle_event() begins a file with the pre samples; when df() finds the
\* memory low, which may be at any time, the file is the event alone.
ServeEvent ==
  /\ mes.pc = "fgets" /\ pipe # << >>
  /\ mes.ev_count < update_prams.maxfiles
  /\ LET m == [update_prams EXCEPT !.ev_count = @ + 1]
         e == Head(pipe).es
     IN \/ /\ mes' = [m EXCEPT !.pc = "post", !.es = e, !.hb0 = hb_last,
                              !.file = PreSamples(m, Offset(e)), !.apart = Head(pipe).apart]
           /\ UNCHANGED saved
        \/ /\ mes' = m
           /\ saved' = [got |-> Copy(Offset(e), 1), want |-> <<e>>, apart |-> Head(pipe).apart]
  /\ pipe' = Tail(pipe)
  /\ late' = [late EXCEPT !["mes"] = 0]
  /\ UNCHANGED <<hb, events, live, user, shown, nev>>

\* The wait for the post samples, by counting buffers, and the rest.
SavePost ==
  /\ mes.pc = "post" /\ Waited
  /\ saved' = [got |-> mes.file \o PostSamples(mes, Offset(mes.es)),
               want |-> Samples(mes.es - mes.pre, mes.es - 1)
                        \o Samples(mes.es + suppress_event, mes.es + mes.post),
               apart |-> mes.apart /\ mes.scanned = mes.post]
  /\ mes' = [mes EXCEPT !.pc = "fgets", !.file = << >>]
  /\ late' = [late EXCEPT !["mes"] = 0]
  /\ UNCHANGED <<hb, events, live, pipe, user, shown, nev>>

----------------------------------------------------------------------------

Next == BufferFull \/ Event \/ UserSets \/ LiveEvent \/ LiveShows
        \/ ServeNoFile \/ ServeEvent \/ SavePost

Spec == Init /\ [][Next]_vars

\* What is shown of an event, and what is saved of it when the server was
\* idle as the event was passed on, are the samples around it: all of them, in
\* order and of this stream, not one that is not there yet, nor one of the round
\* of the array before or after.  (Settings that are refused, because of their
\* number, still say how long to wait; what is saved then is left out.)
EventsWhole ==
  /\ shown.got = shown.want
  /\ saved.apart => saved.got = saved.want
=============================================================================
