--------------------------- MODULE WrDriverProofs ---------------------------
(***************************************************************************)
(* Proofs about WrDriver: where every event goes, for any set of sources   *)
(* and of processes; and a reader's stamps go forward, for one reader and  *)
(* any number of writers.                                                  *)
(***************************************************************************)
EXTENDS WrDriver, TLAPS

----------------------------------------------------------------------------
(* Types.                                                                  *)

HwTypeOK ==
  /\ sta \in [Sources -> BOOLEAN]
  /\ ev \in [Sources -> Nat]
  /\ merged \in [Sources -> Nat]
  /\ late \in [Sources -> Nat]

HandlerTypeOK ==
  /\ isr \in {"idle", "ts", "pps"}
  /\ int_sta \subseteq Sources
  /\ recorded \in [Sources -> Nat]
  /\ shared \in BOOLEAN

ClientTypeOK ==
  /\ wc_ts \in [Sources -> Nat]
  /\ last \in [Sources -> Nat]

Pc == {"closed", "opening", "idle", "wait", "asleep", "fetch", "clear", "packet"}

ProcsTypeOK ==
  /\ pc \in [Procs -> Pc]
  /\ dev \in [Procs -> Sources]
  /\ tmp \in [Procs -> Nat]

TypeOK == HwTypeOK /\ HandlerTypeOK /\ ClientTypeOK /\ ProcsTypeOK

\* A status bit that a handler has read stays set while it runs; what it has
\* read it has recorded or is about to, unless the bits are of the other
\* handler's sources as well.
HandlerInv ==
  /\ todo \cup done \subseteq int_sta
  /\ todo \cap done = {}
  /\ \A s \in int_sta : sta[s]
  /\ isr = "idle" => int_sta = {}
  /\ ~shared => int_sta = todo \cup done

LEMMA AnySourceIsSource == AnySource \in Sources
  BY WrAssumption DEF AnySource

----------------------------------------------------------------------------
(* The handlers.                                                           *)

\* Neither opens nor reads touch what the hardware and the handlers share.
LEMMA ProcessLeavesHandler ==
  ASSUME NEW p \in Procs, Process(p)
  PROVE  UNCHANGED <<hw, handler>>
  BY DEF Process, Internal, OpenTest, Release, ReadCall, Interrupted, OpenSet,
         WaitStamp, Fetch, Clear, ReadPacket

LEMMA HandlerTypes ==
  ASSUME HwTypeOK, HandlerTypeOK, HandlerInv, [Next]_vars
  PROVE  HwTypeOK' /\ HandlerTypeOK'
  <1> USE DEF HwTypeOK, HandlerTypeOK, hw, handler
  <1>1. CASE \E s \in Sources : Event(s)
    BY <1>1 DEF Event
  <1>2. CASE TsIsr \/ PpsIsr
    BY <1>2 DEF TsIsr, PpsIsr, Pending, BothPending
  <1>3. CASE IsrAction
    BY <1>3 DEF IsrAction, Record, HandlerInv
  <1>4. CASE Acknowledge
    BY <1>4 DEF Acknowledge
  <1>5. CASE \E p \in Procs : Process(p)
    BY <1>5, ProcessLeavesHandler
  <1>6. CASE UNCHANGED vars
    BY <1>6 DEF vars
  <1>7. QED
    BY <1>1, <1>2, <1>3, <1>4, <1>5, <1>6 DEF Next, Handler

LEMMA HandlerStep ==
  ASSUME HwTypeOK, HandlerTypeOK, HandlerInv, [Next]_vars
  PROVE  HandlerInv'
  <1> USE DEF HandlerInv, HwTypeOK, HandlerTypeOK, hw, handler
  <1>1. CASE \E s \in Sources : Event(s)
    BY <1>1 DEF Event
  <1>2. CASE TsIsr
    BY <1>2 DEF TsIsr, Pending, BothPending
  <1>3. CASE PpsIsr
    BY <1>3 DEF PpsIsr, Pending, BothPending
  <1>4. CASE IsrAction
    BY <1>4 DEF IsrAction, Record
  <1>5. CASE Acknowledge
    BY <1>5 DEF Acknowledge
  <1>6. CASE \E p \in Procs : Process(p)
    BY <1>6, ProcessLeavesHandler
  <1>7. CASE UNCHANGED vars
    BY <1>7 DEF vars
  <1>8. QED
    BY <1>1, <1>2, <1>3, <1>4, <1>5, <1>6, <1>7 DEF Next, Handler

LEMMA AccountedStep ==
  ASSUME HwTypeOK, HandlerTypeOK, HandlerInv, EventsAccounted, [Next]_vars
  PROVE  EventsAccounted'
  <1> USE DEF EventsAccounted, HandlerInv, HwTypeOK, HandlerTypeOK, hw, handler
  <1>1. CASE \E s \in Sources : Event(s)
    BY <1>1 DEF Event
  <1>2. CASE TsIsr \/ PpsIsr
    BY <1>2 DEF TsIsr, PpsIsr, Pending, BothPending
  <1>3. CASE IsrAction
    BY <1>3 DEF IsrAction, Record
  <1>4. CASE Acknowledge
    BY <1>4 DEF Acknowledge
  <1>5. CASE \E p \in Procs : Process(p)
    BY <1>5, ProcessLeavesHandler
  <1>6. CASE UNCHANGED vars
    BY <1>6 DEF vars
  <1>7. QED
    BY <1>1, <1>2, <1>3, <1>4, <1>5, <1>6 DEF Next, Handler

AccountedInv == HwTypeOK /\ HandlerTypeOK /\ HandlerInv /\ EventsAccounted

\* For any sources, processes and number of events: every event was recorded, is
\* pending, was overwritten in its stamp register by a newer one, or came between
\* the handler's reading of the stamp register and its write back, which is the
\* only window in which an acknowledgement loses an event, until a handler
\* finds a bit of the other handler's sources set.
THEOREM AllEventsAccounted == Spec => []EventsAccounted
  <1>1. Init => AccountedInv
    <2> SUFFICES ASSUME Init PROVE AccountedInv
      OBVIOUS
    <2>1. HwTypeOK /\ HandlerTypeOK
      BY DEF Init, HwTypeOK, HandlerTypeOK
    <2>2. HandlerInv
      BY DEF Init, HandlerInv
    <2>3. EventsAccounted
      BY DEF Init, EventsAccounted
    <2>4. QED
      BY <2>1, <2>2, <2>3 DEF AccountedInv
  <1>2. AccountedInv /\ [Next]_vars => AccountedInv'
    BY HandlerTypes, HandlerStep, AccountedStep DEF AccountedInv
  <1>3. AccountedInv => EventsAccounted
    BY DEF AccountedInv
  <1>4. QED
    BY <1>1, <1>2, <1>3, PTL DEF Spec

----------------------------------------------------------------------------
(* One reader.  What it may read of a source is newer than what it took    *)
(* last, and an event of which the status bit is set and that is not yet   *)
(* recorded is newer than both.                                            *)

OneReader == \A p, q \in Readers : p = q

\* Only a reader is inside read().
OnlyReadersRead ==
  \A p \in Procs : pc[p] \in {"wait", "asleep", "fetch", "clear", "packet"} => p \in Readers

\* A stamp x of source s is not from the future, nor is it of the event that
\* is still to be recorded.
Past(x, s) ==
  /\ x <= ev[s]
  /\ sta[s] /\ s \notin done => x < ev[s]

StampInv ==
  \A s \in Sources :
    /\ Past(wc_ts[s], s) /\ Past(last[s], s)
    /\ wc_ts[s] # 0 => wc_ts[s] > last[s]

ReaderInv ==
  \A p \in Readers :
    /\ pc[p] \in {"clear", "packet"} => Past(tmp[p], dev[p])
    /\ pc[p] = "clear" /\ tmp[p] # 0 => tmp[p] > last[dev[p]]
    /\ pc[p] = "packet" => dev[p] = "pkt_rx"

LEMMA ReadersTypes ==
  ASSUME TypeOK, HandlerInv, [Next]_vars
  PROVE  ClientTypeOK' /\ ProcsTypeOK'
  <1> USE DEF TypeOK, HwTypeOK, HandlerTypeOK, ClientTypeOK, ProcsTypeOK, client, procs
  <1>1. CASE \E s \in Sources : Event(s)
    BY <1>1 DEF Event
  <1>2. CASE TsIsr \/ PpsIsr \/ Acknowledge
    BY <1>2 DEF TsIsr, PpsIsr, Acknowledge
  <1>3. CASE IsrAction
    BY <1>3 DEF IsrAction, Record, Wake, Pc, HandlerInv
  <1>4. ASSUME NEW p \in Procs, Process(p) PROVE ClientTypeOK' /\ ProcsTypeOK'
    <2> USE <1>4 DEF Goto, Pc
    <2>1. CASE \E s \in Sources, nb \in BOOLEAN : OpenTest(p, s, nb)
      BY <2>1 DEF OpenTest
    <2>2. CASE OpenSet(p)
      BY <2>2 DEF OpenSet
    <2>3. CASE Release(p)
      BY <2>3, AnySourceIsSource DEF Release
    <2>4. CASE ReadCall(p) \/ Interrupted(p) \/ WaitStamp(p)
      BY <2>4 DEF ReadCall, Interrupted, WaitStamp
    <2>5. CASE Fetch(p)
      BY <2>5 DEF Fetch
    <2>6. CASE Clear(p)
      BY <2>6 DEF Clear
    <2>7. CASE ReadPacket(p)
      BY <2>7 DEF ReadPacket
    <2>8. QED
      BY <2>1, <2>2, <2>3, <2>4, <2>5, <2>6, <2>7 DEF Process, Internal
  <1>5. CASE UNCHANGED vars
    BY <1>5 DEF vars
  <1>6. QED
    BY <1>1, <1>2, <1>3, <1>4, <1>5 DEF Next, Handler

LEMMA OnlyReadersStep ==
  ASSUME TypeOK, OnlyReadersRead, [Next]_vars
  PROVE  OnlyReadersRead'
  <1> USE DEF OnlyReadersRead, TypeOK, ProcsTypeOK, procs
  <1>1. CASE \E s \in Sources : Event(s)
    BY <1>1 DEF Event
  <1>2. CASE TsIsr \/ PpsIsr \/ Acknowledge
    BY <1>2 DEF TsIsr, PpsIsr, Acknowledge
  <1>3. CASE IsrAction
    BY <1>3 DEF IsrAction, Record, Wake
  <1>4. ASSUME NEW p \in Procs, Process(p) PROVE OnlyReadersRead'
    BY <1>4 DEF Process, Internal, OpenTest, Release, ReadCall, Interrupted, OpenSet,
         WaitStamp, Fetch, Clear, ReadPacket, Goto, Pc
  <1>5. CASE UNCHANGED vars
    BY <1>5 DEF vars
  <1>6. QED
    BY <1>1, <1>2, <1>3, <1>4, <1>5 DEF Next, Handler

\* The handlers record stamps that are newer than those taken.
LEMMA StampHandlerStep ==
  ASSUME TypeOK, HandlerInv, StampInv, ReaderInv,
         (\E s \in Sources : Event(s)) \/ Handler
  PROVE  StampInv' /\ ReaderInv'
  <1> USE DEF TypeOK, HwTypeOK, HandlerTypeOK, ClientTypeOK, ProcsTypeOK, StampInv, ReaderInv,
              Past, Procs
  <1>1. CASE \E s \in Sources : Event(s)
    BY <1>1 DEF Event, handler, client, procs
  <1>2. CASE TsIsr \/ PpsIsr
    BY <1>2 DEF TsIsr, PpsIsr, hw, client, procs
  <1>3. CASE IsrAction
    BY <1>3 DEF IsrAction, Record, Wake, hw, HandlerInv
  <1>4. CASE Acknowledge
    BY <1>4 DEF Acknowledge, client, procs, HandlerInv
  <1>5. QED
    BY <1>1, <1>2, <1>3, <1>4 DEF Handler

\* What a read takes is what it has fetched, and no other process reads.
LEMMA StampProcessStep ==
  ASSUME TypeOK, OnlyReadersRead, StampInv, ReaderInv, OneReader,
         NEW p \in Procs, Process(p)
  PROVE  StampInv' /\ ReaderInv'
  <1> USE DEF TypeOK, HwTypeOK, HandlerTypeOK, ClientTypeOK, ProcsTypeOK, StampInv, ReaderInv,
              Past, Procs, hw, handler, Goto
  <1>1. CASE \E s \in Sources, nb \in BOOLEAN : OpenTest(p, s, nb)
    BY <1>1 DEF OpenTest, client
  <1>2. CASE OpenSet(p)
    BY <1>2 DEF OpenSet
  <1>3. CASE Release(p)
    BY <1>3, AnySourceIsSource DEF Release
  <1>4. CASE ReadCall(p) \/ Interrupted(p) \/ WaitStamp(p)
    BY <1>4 DEF ReadCall, Interrupted, WaitStamp, client
  <1>5. CASE Fetch(p)
    BY <1>5 DEF Fetch, client
  <1>6. CASE Clear(p)
    BY <1>6 DEF Clear, OneReader, OnlyReadersRead
  <1>7. CASE ReadPacket(p)
    BY <1>7 DEF ReadPacket, client
  <1>8. QED
    BY <1>1, <1>2, <1>3, <1>4, <1>5, <1>6, <1>7, ProcessLeavesHandler DEF Process, Internal

StampsInv == TypeOK /\ HandlerInv /\ OnlyReadersRead /\ StampInv /\ ReaderInv

LEMMA StampsInvInit == Init => StampsInv
  <1> SUFFICES ASSUME Init PROVE StampsInv
    OBVIOUS
  <1>1. HwTypeOK /\ HandlerTypeOK /\ ClientTypeOK
    BY DEF Init, HwTypeOK, HandlerTypeOK, ClientTypeOK
  <1>2. ProcsTypeOK
    BY AnySourceIsSource DEF Init, ProcsTypeOK, Pc
  <1>3. HandlerInv
    BY DEF Init, HandlerInv
  <1>4. OnlyReadersRead /\ ReaderInv
    BY DEF Init, OnlyReadersRead, ReaderInv, Procs
  <1>5. StampInv
    BY DEF Init, StampInv, Past
  <1>6. QED
    BY <1>1, <1>2, <1>3, <1>4, <1>5 DEF StampsInv, TypeOK

LEMMA StampsInvStep ==
  ASSUME StampsInv, [Next]_vars, OneReader
  PROVE  StampsInv'
  <1> USE DEF StampsInv
  <1>1. TypeOK'
    BY HandlerTypes, ReadersTypes DEF TypeOK
  <1>2. HandlerInv'
    BY HandlerStep DEF TypeOK
  <1>3. OnlyReadersRead'
    BY OnlyReadersStep
  <1>4. StampInv' /\ ReaderInv'
    <2>1. CASE (\E s \in Sources : Event(s)) \/ Handler
      BY <2>1, StampHandlerStep
    <2>2. CASE \E p \in Procs : Process(p)
      BY <2>2, StampProcessStep
    <2>3. CASE UNCHANGED vars
      BY <2>3 DEF vars, hw, handler, client, procs, StampInv, ReaderInv, Past
    <2>4. QED
      BY <2>1, <2>2, <2>3 DEF Next
  <1>5. QED
    BY <1>1, <1>2, <1>3, <1>4

\* What StampsAdvance says of a step.
Advances ==
  \A p \in Readers :
    /\ pc[p] = "clear" /\ pc'[p] # "clear" /\ tmp[p] # 0 => tmp[p] > last[dev[p]]
    /\ pc[p] = "packet" /\ pc'[p] # "packet" => packet' >= tmp[p]

LEMMA StepAdvances ==
  ASSUME StampsInv, [Next]_vars
  PROVE  Advances
  <1> SUFFICES ASSUME NEW p \in Readers, pc[p] = "packet", pc'[p] # "packet"
               PROVE  packet' >= tmp[p]
    BY DEF Advances, StampsInv, ReaderInv
  <1> USE DEF StampsInv, TypeOK, ProcsTypeOK, Procs
  <1>1. ReadPacket(p)
    <2>1. CASE (\E s \in Sources : Event(s)) \/ TsIsr \/ PpsIsr \/ Acknowledge \/ UNCHANGED vars
      BY <2>1 DEF Event, TsIsr, PpsIsr, Acknowledge, vars, procs
    <2>2. CASE IsrAction
      BY <2>2 DEF IsrAction, Record, Wake
    <2>3. ASSUME NEW q \in Procs, Process(q) PROVE ReadPacket(p)
      BY <2>3 DEF Process, Internal, OpenTest, Release, ReadCall, Interrupted, OpenSet,
           WaitStamp, Fetch, Clear, ReadPacket, Goto
    <2>4. QED
      BY <2>1, <2>2, <2>3 DEF Next, Handler
  <1>2. tmp[p] <= ev["pkt_rx"]
    BY DEF ReaderInv, Past
  <1>3. "pkt_rx" \in Sources
    BY DEF ReaderInv
  <1>4. QED
    BY <1>1, <1>2, <1>3 DEF ReadPacket, HwTypeOK

\* With one reader, any writers and any sources: the stamps that reads take from a
\* source go forward, and a packet is never older than the stamp that is
\* returned with it.
THEOREM StampsGoForward == OneReader => (Spec => StampsAdvance)
  <1> SUFFICES ASSUME OneReader PROVE Spec => StampsAdvance
    OBVIOUS
  <1>1. Init => StampsInv
    BY StampsInvInit
  <1>2. StampsInv /\ [Next]_vars => StampsInv'
    BY StampsInvStep
  <1>3. StampsInv /\ [Next]_vars => [Advances]_vars
    BY StepAdvances
  <1>4. Spec => [][Advances]_vars
    BY <1>1, <1>2, <1>3, PTL DEF Spec
  <1>5. QED
    BY <1>4 DEF StampsAdvance, Advances
=============================================================================
