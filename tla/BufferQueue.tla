---------------------------- MODULE BufferQueue ----------------------------
(***************************************************************************)
(* Distribution of the captured buffers to the clients of /dev/acq400.0.bq *)
(* (minors BQ_NOWAIT and BQ_FULL): acq400_bq_notify() puts the number of   *)
(* each buffer the capture's reader is given on the queue of every client; *)
(* a client reads them at its own pace.  acq400_drv.c, acq400_ui.c.        *)
(*                                                                         *)
(* bq_clients_mutex guards the list of clients, not their queues: the      *)
(* notifier and the reader of one queue run at the same time, and a step   *)
(* here is one access to the queue's head, tail or cells.                  *)
(*                                                                         *)
(* A queue cell holds hbm->ix.  Buffers are captured in turn, so the model *)
(* keeps the number of the block and Ix() is the buffer that holds it.     *)
(***************************************************************************)
EXTENDS BQ

CONSTANTS
  BqClients,                    \* processes that open the device
  BQ_MIN_BACKLOG,               \* length of the queue of either minor
  BQ_MAX_BACKLOG,
  nbuffers,                     \* module parameter nbuffers
  MaxBlocks                     \* bound: blocks captured

\* The lengths for which the mask of CIRC_CNT() is a remainder.
PowersOfTwo == {2, 4, 8, 16, 32, 64, 128, 256, 512}

ASSUME BufferQueueAssumption ==
  /\ BQ_MIN_BACKLOG \in PowersOfTwo /\ BQ_MAX_BACKLOG \in PowersOfTwo
  /\ nbuffers \in Nat \ {0}
  /\ MaxBlocks \in Nat

Backlogs == {BQ_MIN_BACKLOG, BQ_MAX_BACKLOG}

VARIABLES
  n,                            \* blocks captured
  npc, todo, nq,                \* acq400_bq_notify(): where it is, its locals
  bq_clients,                   \* struct BQ_Wrapper
  bq_overruns, bq_max,
  bq,                           \* the queue of each client
  pc, cursor, item,             \* acq400_bq_read() of each client, its locals
  put, last,                    \* the last block put on and taken from each
                                \* queue since it was opened
  reset,                        \* was the queue reset since it was opened?
  torn                          \* ... while the client was in BQ_get_st()?

notifier == <<n, npc, todo, nq>>
wrapper == <<bq_clients, bq_overruns, bq_max>>
reader == <<pc, cursor, item>>
history == <<put, last, reset, torn>>
vars == <<notifier, wrapper, bq, reader, history>>

Ix(b) == b % nbuffers

Members(s) == {s[i] : i \in 1 .. Len(s)}

\* list_del() of c from the list s, if it is on it.
Without(s, c) ==
  IF c \in Members(s)
  THEN [i \in 1 .. Len(s) - 1 |-> IF \E j \in 1 .. i : s[j] = c THEN s[i + 1] ELSE s[i]]
  ELSE s

InGet(c) == pc[c] \in {"load", "store"}

TypeOK ==
  /\ n \in 0 .. MaxBlocks
  /\ npc \in {"idle", "test", "tail", "head", "put", "incr"}
  /\ todo \in Seq(BqClients)
  /\ nq \in 0 .. BQ_MAX_BACKLOG - 1
  /\ bq_clients \in Seq(BqClients)
  /\ bq_overruns \in Nat /\ bq_max \in 0 .. BQ_MAX_BACKLOG - 1
  /\ DOMAIN bq = BqClients
  /\ \A c \in BqClients :
       LET cells == 0 .. bq[c].bq_len - 1 IN
         bq[c] \in [head : cells, tail : cells, buf : [cells -> 0 .. MaxBlocks],
                   bq_len : Backlogs]
  /\ pc \in [BqClients -> {"closed", "idle", "wait", "asleep", "test", "load", "store",
                           "leaked"}]
  /\ cursor \in [BqClients -> 0 .. BQ_MAX_BACKLOG - 1]
  /\ item \in [BqClients -> 0 .. MaxBlocks]
  /\ put \in [BqClients -> 0 .. MaxBlocks] /\ last \in [BqClients -> 0 .. MaxBlocks]
  /\ reset \in [BqClients -> BOOLEAN] /\ torn \in [BqClients -> BOOLEAN]

Init ==
  /\ n = 0
  /\ npc = "idle" /\ todo = << >> /\ nq = 0
  /\ bq_clients = << >> /\ bq_overruns = 0 /\ bq_max = 0
  /\ bq = [c \in BqClients |-> BQ_init(BQ_MIN_BACKLOG)]
  /\ pc = [c \in BqClients |-> "closed"]
  /\ cursor = [c \in BqClients |-> 0] /\ item = [c \in BqClients |-> 0]
  /\ put = [c \in BqClients |-> 0] /\ last = [c \in BqClients |-> 0]
  /\ reset = [c \in BqClients |-> FALSE] /\ torn = [c \in BqClients |-> FALSE]

----------------------------------------------------------------------------
(* acq400_bq_notify(): for each client in turn, with bq_clients_mutex held *)
(* from the first to the last.                                             *)

\* The capture's reader was given the next block.
Notify ==
  /\ npc = "idle" /\ n < MaxBlocks
  /\ n' = n + 1
  /\ todo' = bq_clients
  /\ npc' = "test"
  /\ UNCHANGED <<nq, wrapper, bq, reader, history>>

\* Mutated form of Threshold: as many entries as there are buffers, twice.
Threshold_none == 2 * nbuffers

\* int th = nbuffers - 2.
Threshold == nbuffers - 2

\* How full is the queue of the client?
NotifyTest ==
  /\ npc = "test" /\ todo # << >>
  /\ LET q == bq[Head(todo)] IN
       /\ nq' = BQ_count(q)
       /\ npc' = IF BQ_space(q) < 1 \/ BQ_count(q) > Threshold THEN "tail" ELSE "put"
  /\ UNCHANGED <<n, todo, wrapper, bq, reader, history>>

\* It overran: bq->head = bq->tail = 0, two stores.
NotifyResetTail ==
  /\ npc = "tail"
  /\ bq' = [bq EXCEPT ![Head(todo)] = [@ EXCEPT !.tail = 0]]
  /\ reset' = [reset EXCEPT ![Head(todo)] = TRUE]
  /\ torn' = [torn EXCEPT ![Head(todo)] = @ \/ InGet(Head(todo))]
  /\ npc' = "head"
  /\ UNCHANGED <<n, todo, nq, wrapper, reader, put, last>>

\* Mutated form of NotifyResetHead: only the tail is reset.
NotifyResetHead_not ==
  /\ npc = "head"
  /\ bq_overruns' = bq_overruns + 1
  /\ torn' = [torn EXCEPT ![Head(todo)] = @ \/ InGet(Head(todo))]
  /\ npc' = "put"
  /\ UNCHANGED <<n, todo, nq, bq, bq_clients, bq_max, reader, put, last, reset>>

NotifyResetHead ==
  /\ npc = "head"
  /\ bq' = [bq EXCEPT ![Head(todo)] = [@ EXCEPT !.head = 0]]
  /\ bq_overruns' = bq_overruns + 1
  /\ torn' = [torn EXCEPT ![Head(todo)] = @ \/ InGet(Head(todo))]
  /\ npc' = "put"
  /\ UNCHANGED <<n, todo, nq, bq_clients, bq_max, reader, put, last, reset>>

\* BQ_put(): the cell is written ...
NotifyPut ==
  /\ npc = "put"
  /\ bq' = [bq EXCEPT ![Head(todo)] = BQ_store(@, n)]
  /\ npc' = "incr"
  /\ UNCHANGED <<n, todo, nq, wrapper, reader, history>>

Woken(c) == IF pc[c] = "asleep" THEN "wait" ELSE pc[c]

\* Mutated form of NotifyIncr: the client is not woken.
NotifyIncr_nowake ==
  /\ npc = "incr"
  /\ LET c == Head(todo) IN
       /\ bq' = [bq EXCEPT ![c] = BQ_advance(@)]
       /\ put' = [put EXCEPT ![c] = n]
  /\ bq_max' = IF nq > bq_max THEN nq ELSE bq_max
  /\ todo' = Tail(todo)
  /\ npc' = "test"
  /\ UNCHANGED <<n, nq, bq_clients, bq_overruns, pc, cursor, item, last, reset, torn>>

\* ... before the head moves past it; the client is woken, and the next one
\* is looked at.
NotifyIncr ==
  /\ npc = "incr"
  /\ LET c == Head(todo) IN
       /\ bq' = [bq EXCEPT ![c] = BQ_advance(@)]
       /\ put' = [put EXCEPT ![c] = n]
       /\ pc' = [pc EXCEPT ![c] = Woken(c)]
  /\ bq_max' = IF nq > bq_max THEN nq ELSE bq_max
  /\ todo' = Tail(todo)
  /\ npc' = "test"
  /\ UNCHANGED <<n, nq, bq_clients, bq_overruns, cursor, item, last, reset, torn>>

\* Every client has been notified: mutex_unlock().
NotifyEnd ==
  /\ npc = "test" /\ todo = << >>
  /\ npc' = "idle"
  /\ UNCHANGED <<n, todo, nq, wrapper, bq, reader, history>>

----------------------------------------------------------------------------
(* A client.                                                               *)

At(c, l) == pc[c] = l
Goto(c, l) == pc' = [pc EXCEPT ![c] = l]

\* acq400_bq_open() of either minor: bqw_init() allocates the queue and adds
\* the client to the list, under the mutex that a notifier holds until it has
\* been round the list.
Open(c, backlog) ==
  /\ At(c, "closed")
  /\ npc = "idle"
  /\ bq' = [bq EXCEPT ![c] = BQ_init(backlog)]
  /\ bq_clients' = Append(bq_clients, c)
  /\ put' = [put EXCEPT ![c] = n] /\ last' = [last EXCEPT ![c] = n]
  /\ Goto(c, "idle")
  /\ UNCHANGED <<notifier, bq_overruns, bq_max, cursor, item, reset, torn>>

\* A signal ends the wait for the mutex: bqw_init() fails, open() does not.
OpenInterrupted(c, backlog) ==
  /\ At(c, "closed")
  /\ npc # "idle"
  /\ bq' = [bq EXCEPT ![c] = BQ_init(backlog)]
  /\ Goto(c, "idle")
  /\ UNCHANGED <<notifier, wrapper, cursor, item, history>>

\* acq400_bq_read().
Read(c) ==
  /\ At(c, "idle")
  /\ Goto(c, "wait")
  /\ UNCHANGED <<notifier, wrapper, bq, cursor, item, history>>

\* wait_event_interruptible(CIRC_CNT(...)).
Wait(c) ==
  /\ At(c, "wait")
  /\ Goto(c, IF BQ_count(bq[c]) # 0 THEN "test" ELSE "asleep")
  /\ UNCHANGED <<notifier, wrapper, bq, cursor, item, history>>

Interrupted(c) ==
  /\ At(c, "asleep")
  /\ Goto(c, "idle")
  /\ UNCHANGED <<notifier, wrapper, bq, cursor, item, history>>

\* BQ_get_st(): empty after all, and the reader waits again ...
GetTest(c) ==
  /\ At(c, "test")
  /\ Goto(c, IF BQ_empty(bq[c]) THEN "wait" ELSE "load")
  /\ cursor' = [cursor EXCEPT ![c] = IF BQ_empty(bq[c]) THEN @ ELSE bq[c].tail]
  /\ torn' = [torn EXCEPT ![c] = @ \/ (npc = "head" /\ Head(todo) = c)]
  /\ UNCHANGED <<notifier, wrapper, bq, item, put, last, reset>>

\* ... or the cell at the tail is read ...
GetLoad(c) ==
  /\ At(c, "load")
  /\ item' = [item EXCEPT ![c] = bq[c].buf[cursor[c]]]
  /\ Goto(c, "store")
  /\ UNCHANGED <<notifier, wrapper, bq, cursor, history>>

\* Mutated form of GetStore: the tail moves to the head.
GetStore_all(c) ==
  /\ At(c, "store")
  /\ bq' = [bq EXCEPT ![c] = [@ EXCEPT !.tail = bq[c].head]]
  /\ last' = [last EXCEPT ![c] = item[c]]
  /\ cursor' = [cursor EXCEPT ![c] = 0] /\ item' = [item EXCEPT ![c] = 0]
  /\ Goto(c, "idle")
  /\ UNCHANGED <<notifier, wrapper, put, reset, torn>>

\* ... and the tail moves past it; smp_store_release() reads the tail again.
GetStore(c) ==
  /\ At(c, "store")
  /\ bq' = [bq EXCEPT ![c] = BQ_drop(bq[c])]
  /\ last' = [last EXCEPT ![c] = item[c]]
  /\ cursor' = [cursor EXCEPT ![c] = 0] /\ item' = [item EXCEPT ![c] = 0]
  /\ Goto(c, "idle")
  /\ UNCHANGED <<notifier, wrapper, put, reset, torn>>

\* acq400_bq_release(): bqw_release() takes the client off the list and frees
\* the queue.
Release(c) ==
  /\ At(c, "idle")
  /\ npc = "idle"
  /\ bq_clients' = Without(bq_clients, c)
  /\ bq' = [bq EXCEPT ![c] = BQ_init(BQ_MIN_BACKLOG)]
  /\ put' = [put EXCEPT ![c] = 0] /\ last' = [last EXCEPT ![c] = 0]
  /\ reset' = [reset EXCEPT ![c] = FALSE] /\ torn' = [torn EXCEPT ![c] = FALSE]
  /\ Goto(c, "closed")
  /\ UNCHANGED <<notifier, bq_overruns, bq_max, cursor, item>>

\* A signal ends the wait for the mutex: the file is closed and the client
\* stays on the list for good.
ReleaseInterrupted(c) ==
  /\ At(c, "idle")
  /\ npc # "idle"
  /\ Goto(c, "leaked")
  /\ UNCHANGED <<notifier, wrapper, bq, cursor, item, history>>

----------------------------------------------------------------------------
Notifying ==
  NotifyTest \/ NotifyResetTail \/ NotifyResetHead \/ NotifyPut \/ NotifyIncr
  \/ NotifyEnd

Reading(c) == Wait(c) \/ GetTest(c) \/ GetLoad(c) \/ GetStore(c)

Next ==
  \/ Notify \/ Notifying
  \/ \E c \in BqClients :
       \/ \E len \in Backlogs : Open(c, len) \/ OpenInterrupted(c, len)
       \/ Read(c) \/ Reading(c) \/ Interrupted(c)
       \/ Release(c) \/ ReleaseInterrupted(c)

Spec == Init /\ [][Next]_vars

\* The kernel runs a notifier and a reader that can run; nothing obliges a
\* client to read or the capture to go on.
FairSpec ==
  /\ Spec
  /\ WF_vars(Notifying)
  /\ \A c \in BqClients : WF_vars(Reading(c))

----------------------------------------------------------------------------
(* Properties.                                                             *)

Listed(c) == c \in Members(bq_clients) /\ pc[c] # "leaked"

\* A client whose queue was never reset is given every block that was
\* captured since it opened the device, once and in order: what waits in its
\* queue is what acq400_bq_notify() put there after the last block the client
\* was given, although there is no lock between the two.
ExactlyOnceInOrder ==
  \A c \in BqClients : ~reset[c] =>
    BQ_items(bq[c]) = [i \in 1 .. put[c] - last[c] |-> last[c] + i]

\* After an overrun the client goes on with newer blocks: it is never given
\* a block older than the last, unless the reset came while it was between
\* the first and the last access of BQ_get_st().
NewerAfterOverrun ==
  [][\A c \in BqClients : GetStore(c) /\ ~torn[c] =>
       item[c] > last[c]]_vars

\* The numbers that wait in a queue name different buffers, so that the
\* client can tell them apart: acq400_bq_notify() resets a queue before the
\* capture has gone once round the buffers.
QueuedBuffersDiffer ==
  \A c \in BqClients : ~torn[c] /\ npc \notin {"head", "put", "incr"} =>
    LET q == BQ_items(bq[c]) IN
      \A i, j \in 1 .. Len(q) : i # j => Ix(q[i]) # Ix(q[j])

\* A client does not sleep beside a queue that holds data.
WokenWhenData ==
  \A c \in BqClients :
    (pc[c] = "asleep" /\ BQ_count(bq[c]) # 0) ~> (pc[c] # "asleep" \/ BQ_count(bq[c]) = 0)
=============================================================================
