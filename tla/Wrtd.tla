-------------------------------- MODULE Wrtd --------------------------------
(***************************************************************************)
(* White Rabbit trigger distribution: wrtd.cpp, soft_wrtd.cpp and the      *)
(* headers they share.  A transmitter reads the time stamp of a trigger    *)
(* and multicasts a time in the near future; every receiver writes it to   *)
(* its trigger registers, and the hardware of all of them fires at that    *)
(* time.  The registers hold three bits of the second and a tick; a        *)
(* message with an absolute time is kept by a child process until its      *)
(* second is near enough for that.                                         *)
(*                                                                         *)
(* Time is counted in ticks from a second BaseTai that is a multiple of    *)
(* eight; all clocks are the same clock, which is what White Rabbit is     *)
(* for.  Messages are lost, delayed, repeated and overtaken.  A request    *)
(* carries the tick it is meant for as due.                                *)
(***************************************************************************)
EXTENDS Integers, FiniteSets, TLC

CONSTANTS
  ticks_per_sec, delta_ticks, delay01, local_clkdiv, local_clkoffset,
  NsNum, NsDen,                 \* ns_per_tick is NsNum / NsDen
  ntriggers, max_tx,
  Headers,                      \* masks and identifiers of messages
  Ats,                          \* seconds and nanoseconds given to txa
  BaseTai,
  MaxDelay,                     \* bound: ticks that a message is on its way
  MaxLag,                       \* bound: ticks that a process is late to run
  MaxSent, MaxReceived,         \* bounds: messages
  Start, LastSent, Horizon      \* bounds: the first tick, the last one to send at, the last

MIN_TAI == 59
SECONDS == 8
TICKS == 4 * ticks_per_sec      \* TICKS_MASK + 1, of which a second is a part

NoTs == [tai |-> 0, s |-> 0, t |-> -1, mask |-> {}]
None == [ts |-> NoTs, due |-> 0, late |-> FALSE]

VARIABLES
  now, stamp,                   \* the clock; the stamp wr_ts holds, or -1
  mode, ntx, wake,              \* the event loop of a transmitter
  sent, received, net,          \* messages sent, received and on their way
  trg,                          \* the trigger registers of a receiver
  kids, tap,                    \* its children; a second tap to come, or -1
  fired                         \* what the hardware last did

vars == <<now, stamp, mode, ntx, wake, sent, received, net, trg, kids, tap, fired>>
transmitter == <<stamp, mode, ntx, wake>>
receiver == <<trg, kids, tap, fired>>

Init ==
  /\ now = Start /\ stamp = -1
  /\ mode \in {"tx", "txi", "none"} /\ ntx = 0 /\ wake = 0
  /\ sent = 0 /\ received = 0 /\ net = {}
  /\ trg = [k \in 0 .. ntriggers - 1 |-> None]
  /\ kids = {} /\ tap = -1 /\ fired = {}

Tai(n) == BaseTai + n \div ticks_per_sec

----------------------------------------------------------------------------
(* Time stamps.                                                            *)

make_raw(secs, ticks) ==
  [tai |-> IF secs > MIN_TAI THEN secs ELSE 0,
   s |-> secs % SECONDS, t |-> ticks % TICKS, mask |-> {}]

Secs(ts) == IF ts.tai # 0 THEN ts.tai ELSE ts.s

ts_quick == [tai |-> 0, s |-> SECONDS - 1, t |-> TICKS - 1, mask |-> {}]
Quick(ts) == ts.t = ts_quick.t /\ Secs(ts) = Secs(ts_quick)

add(ts, dticks) ==
  LET tt == ts.t + dticks IN
  IF tt > ticks_per_sec THEN make_raw(Secs(ts) + 1, tt - ticks_per_sec)
  ELSE make_raw(Secs(ts), tt)

next_second(ts) ==
  make_raw(Secs(ts) + (IF ts.t + delta_ticks >= TICKS - 1 THEN 2 ELSE 1), 0)

nsec(ticks) == (ticks * NsNum) \div NsDen
FromNs(ns) == (ns * NsDen) \div NsNum

\* Round up to the local clock, less its offset.
_adjust_ts(ts) ==
  LET rem == ts.t % local_clkdiv
      ticks == IF rem # 0 THEN ts.t + local_clkdiv - rem ELSE ts.t
  IN  make_raw(Secs(ts), IF ticks > local_clkoffset THEN ticks - local_clkoffset ELSE ticks)

adjust_ts(ts) ==
  IF ~Quick(ts) /\ (local_clkdiv > 1 \/ local_clkoffset # 0) THEN _adjust_ts(ts) ELSE ts

----------------------------------------------------------------------------
(* The receiver.                                                           *)

\* A register takes a time that is still to come; what is sent in time is
\* written before the earliest tick it may fire at.
Armed(ts, due) ==
  [ts |-> ts, due |-> due, late |-> now >= due - local_clkoffset - 1]

\* onAction(): what is written to which register.  A mask names registers, or
\* the identifier chose one; 2 is for both, one after the other.
Writes(ts, g, due) ==
  CASE ts.mask # {} ->
         [k \in ts.mask \cap (0 .. ntriggers - 1) |-> Armed(adjust_ts(ts), due)]
    [] ts.mask = {} /\ g < 2 -> g :> Armed(adjust_ts(ts), due)
    [] OTHER ->
         0 :> Armed(adjust_ts(ts), due)
         @@ (IF Quick(ts) THEN <<>>
             ELSE 1 :> Armed(adjust_ts(add(ts, delay01)), due + delay01))

\* The registers take what is written; a quick time fires at once.
WriteTrg(w) ==
  LET quick == {k \in DOMAIN w : Quick(w[k].ts)} IN
  /\ trg' = [k \in DOMAIN trg |->
               IF k \in DOMAIN w \ quick THEN w[k] ELSE IF k \in quick THEN None ELSE trg[k]]
  /\ fired' = {[k |-> k, at |-> now, due |-> now, late |-> FALSE] : k \in quick}

\* Mutated form of Near: a whole turn of the register ahead is near enough.
Near_turn(secs) == secs > Tai(now) /\ secs - Tai(now) < 9

\* Mutated form of Near: not before the second itself.
Near_reached(secs) == secs - Tai(now) <= 0

Near(secs) == secs > Tai(now) /\ secs - Tai(now) < 7

\* action() with g from the filter: an absolute time is left to a child.
Action(ts, g, due) ==
  IF ts.tai # 0
  THEN /\ kids' = kids \cup {[ts |-> ts, g |-> g, due |-> due, rx |-> now, next |-> now]}
       /\ UNCHANGED <<trg, fired, tap>>
  ELSE /\ WriteTrg(Writes(ts, g, due))
       /\ tap' = IF Quick(ts) /\ ts.mask = {} /\ g = 2 THEN now + delay01 ELSE tap
       /\ UNCHANGED kids

\* recvfrom(): a message may come again, until it is lost.
Receive(m) ==
  /\ tap = -1
  /\ received < MaxReceived /\ received' = received + 1
  /\ m.id \in 0 .. 2                       \* is_for_us()
  /\ LET ts == IF m.quick THEN ts_quick ELSE make_raw(m.sec, FromNs(m.ns)) IN
     Action([ts EXCEPT !.mask = m.mask], m.id, IF m.quick THEN now ELSE m.due)
  /\ UNCHANGED <<now, transmitter, sent, net>>

\* The second of two quick triggers, after usleep().
SecondTap ==
  /\ tap # -1 /\ now >= tap
  /\ WriteTrg(1 :> Armed(ts_quick, tap))
  /\ tap' = -1
  /\ UNCHANGED <<now, transmitter, sent, received, net, kids>>

\* deferredAction(): the child looks at the time once a second.
Poll(c) ==
  /\ now >= c.next
  /\ IF Near(Secs(c.ts))
     THEN /\ WriteTrg(Writes([c.ts EXCEPT !.tai = 0], c.g, c.due))
          /\ kids' = kids \ {c}
     ELSE /\ kids' = (kids \ {c}) \cup {[c EXCEPT !.next = now + ticks_per_sec]}
          /\ UNCHANGED <<trg, fired>>
  /\ UNCHANGED <<now, transmitter, sent, received, net, tap>>

----------------------------------------------------------------------------
(* Transmitters.                                                           *)

CanSend == sent < MaxSent /\ now <= LastSent /\ sent' = sent + 1

Send(ts, id, due) ==
  net' = net \cup {[sec |-> Secs(ts), ns |-> nsec(ts.t), mask |-> ts.mask, id |-> id,
                    due |-> due, sent |-> now, quick |-> FALSE]}

\* A trigger, and its time stamp (WrDriver).
Event ==
  /\ mode = "tx" /\ stamp = -1 /\ now <= LastSent
  /\ stamp' = now
  /\ UNCHANGED <<now, mode, ntx, wake, sent, received, net, receiver>>

\* Transmitter::event_loop(): ntx is counted by the loop and in its body.
Transmit(ons, mask, id, local) ==
  /\ mode \in {"tx", "txi"} /\ now >= wake
  /\ CanSend
  /\ mode = "tx" => stamp # -1
  /\ LET at == IF mode = "tx" THEN stamp ELSE now
         ts == make_raw(Tai(at) % SECONDS, at % ticks_per_sec)
         tx == IF ons THEN next_second(ts) ELSE add(ts, delta_ticks)
         due == IF ons THEN (at \div ticks_per_sec + 1) * ticks_per_sec ELSE at + delta_ticks
     IN  /\ Send([tx EXCEPT !.mask = mask], id, due)
         /\ IF local THEN Action([tx EXCEPT !.mask = mask], 0, due) ELSE UNCHANGED receiver
  /\ mode' = IF ntx + 1 >= max_tx THEN "none" ELSE mode
  /\ ntx' = ntx + 2
  /\ stamp' = -1
  /\ wake' = IF mode = "txi" THEN now + 2 * delta_ticks ELSE wake
  /\ UNCHANGED <<now, received>>

\* txq()
Txq(mask, id) ==
  /\ CanSend
  /\ net' = net \cup {[sec |-> 0, ns |-> 0, mask |-> mask, id |-> id, due |-> now,
                       sent |-> now, quick |-> TRUE]}
  /\ UNCHANGED <<now, transmitter, received, receiver>>

\* A time in ticks from BaseTai.
AtTick(secs, ticks) == (secs - BaseTai) * ticks_per_sec + ticks

\* txa with a relative time: the coming second, and one more to have enough
\* slack (not in soft_wrtd, whose txi sends the coming second).
TxaRel(at, slack, id) ==
  /\ CanSend
  /\ LET secs == Tai(now) + 1 + slack + at.sec
         ticks == FromNs(at.ns)
     IN  Send(make_raw(secs, ticks), id, AtTick(secs, ticks))
  /\ UNCHANGED <<now, transmitter, received, receiver>>

\* txa with an absolute time.
TxaAbs(at, id) ==
  /\ CanSend
  /\ at.sec + BaseTai >= Tai(now)
  /\ LET secs == at.sec + BaseTai
         ticks == FromNs(at.ns)
     IN  Send(make_raw(secs, ticks), id, AtTick(secs, ticks))
  /\ UNCHANGED <<now, transmitter, received, receiver>>

----------------------------------------------------------------------------
(* The network and the hardware.                                           *)

Lose(m) == net' = net \ {m} /\ UNCHANGED <<now, transmitter, sent, received, receiver>>

\* The clock.  A register that equals it fires, once.  A message is on its way
\* for MaxDelay at most, and no process is more than MaxLag late to run.
Tick ==
  /\ now < Horizon
  /\ \A c \in kids : now < c.next + MaxLag
  /\ tap # -1 => now < tap + MaxLag
  /\ now' = now + 1
  /\ LET hits == {k \in DOMAIN trg : /\ trg[k].ts.s = Tai(now') % SECONDS
                                     /\ trg[k].ts.t = now' % ticks_per_sec} IN
     /\ fired' = {[k |-> k, at |-> now', due |-> trg[k].due, late |-> trg[k].late] : k \in hits}
     /\ trg' = [k \in DOMAIN trg |-> IF k \in hits THEN None ELSE trg[k]]
  /\ net' = {m \in net : now' - m.sent <= MaxDelay}
  /\ UNCHANGED <<transmitter, sent, received, kids, tap>>

Next ==
  \/ Tick \/ Event \/ SecondTap
  \/ \E m \in net : Receive(m) \/ Lose(m)
  \/ \E c \in kids : Poll(c)
  \/ \E h \in Headers :
       \/ Txq(h.mask, h.id)
       \/ \E ons, local \in BOOLEAN : Transmit(ons, h.mask, h.id, local)
       \/ \E at \in Ats : TxaAbs(at, h.id) \/ \E slack \in 0 .. 1 : TxaRel(at, slack, h.id)

Spec == Init /\ [][Next]_vars

----------------------------------------------------------------------------
(* Properties.                                                             *)

\* A trigger that was written in time fires within a period of the local clock
\* of the tick it is for, less the offset and what is lost in the conversion
\* to nanoseconds, on each receiver and over the wrap of the seconds; and no
\* register is passed over, but one that holds the tick after the last of a
\* second, which add() and _adjust_ts() do not carry.
FiresOnTime ==
  /\ \A f \in fired : ~f.late =>
       f.at \in f.due - local_clkoffset - 1 .. f.due + local_clkdiv - 1
  /\ \A k \in DOMAIN trg : trg[k] # None /\ ~trg[k].late =>
       now <= trg[k].due + local_clkdiv - 1 \/ trg[k].ts.t >= ticks_per_sec

\* A trigger at an absolute time that came before its second, early enough for
\* its child to start, is written before its second: the child does not sleep
\* through it.
AbsoluteKept ==
  \A c \in kids : Tai(c.rx + MaxLag) < Secs(c.ts) => Tai(now) < Secs(c.ts)
=============================================================================
