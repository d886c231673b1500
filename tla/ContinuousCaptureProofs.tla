---------------------- MODULE ContinuousCaptureProofs ----------------------
(***************************************************************************)
(* Proofs about ContinuousCapture.  For any number of buffers and clients: *)
(* no buffer is lost, and the types.  With one client whose open() does    *)
(* not give up, for any number of opens and of blocks and any setting of   *)
(* the module parameters: the hardware writes only to buffers in flight,   *)
(* and the device delivers the stream of blocks that BlockStream promises. *)
(***************************************************************************)
EXTENDS ContinuousCapture, HostBuffersProofs, FiniteSetTheorems

----------------------------------------------------------------------------
(* Any number of clients.                                                  *)

\* A step of the capture moves buffers through an operation of HostBuffers,
\* or leaves the lists alone.
LEMMA NextMovesLists ==
  ASSUME [Next]_vars
  PROVE  \/ getEmpty \/ putFull \/ getEmptyFromRefills \/ getFull \/ putEmpty
         \/ moveOpensToEmpty \/ moveRefillsToEmpty \/ moveInflightToEmpty \/ sortEmpties
         \/ UNCHANGED lists
  <1>1. CASE \E c \in Clients : Client(c)
    <2> PICK c \in Clients : Client(c)
      BY <1>1
    <2>1. CASE OpenDevice(c) \/ EmptyRefills(c) \/ EmptyInflight(c) \/ SortEmpties(c)
      BY <2>1 DEF OpenDevice, EmptyRefills, EmptyInflight, SortEmpties
    <2>2. CASE PutEmpty(c)
      BY <2>2 DEF PutEmpty
    <2>3. CASE TakeFull(c)
      BY <2>3 DEF TakeFull
    <2>4. CASE MoveOpens(c) \/ MoveRefills(c) \/ FinishRelease(c)
      BY <2>4 DEF MoveOpens, MoveRefills, FinishRelease
    <2>5. CASE \/ OnStart(c) \/ OnStartInterrupted(c) \/ SortRaces(c)
               \/ ResetAggregator(c) \/ StartDmaRefused(c)
               \/ StartDma(c) \/ RunThreads(c)
               \/ SeenActive(c) \/ PollGivesUp(c) \/ EnableAggregator(c)
      BY <2>5 DEF OnStart, OnStartInterrupted, SortRaces, ResetAggregator, StartDmaRefused, StartDma, RunThreads,
                  SeenActive, PollGivesUp, EnableAggregator, Undefined
    <2>6. CASE \/ Read(c) \/ PutEmptyNone(c) \/ BacklogDone(c) \/ TestRefills(c)
               \/ WaitRefill(c) \/ Interrupted(c) \/ TakeListHead(c)
      BY <2>6 DEF Read, PutEmptyNone, BacklogDone, TestRefills, WaitRefill,
                  Interrupted, TakeListHead, Undefined
    <2>7. CASE \/ Release(c) \/ TestTaskActive(c) \/ KthreadStop(c)
               \/ KthreadStopGone(c) \/ Join(c) \/ StopMonitor(c) \/ ForgetTask(c)
      BY <2>7 DEF Release, TestTaskActive, KthreadStop, KthreadStopGone, Join,
                  StopMonitor, ForgetTask, Undefined
    <2>8. QED
      BY <2>1, <2>2, <2>3, <2>4, <2>5, <2>6, <2>7 DEF Client, ClientInternal
  <1>2. CASE DataLoop
    <2>1. CASE PrimeFirst \/ PrimeSecond \/ GetEmpty
      BY <2>1 DEF PrimeFirst, PrimeSecond, GetEmpty
    <2>2. CASE PutFull
      BY <2>2 DEF PutFull
    <2>3. CASE PullRefill
      BY <2>3 DEF PullRefill
    <2>4. CASE DrainRefills
      BY <2>4 DEF DrainRefills
    <2>5. CASE \/ PrimeNone \/ Activate \/ LoopTop \/ DmaReady \/ DmaTimeout
               \/ Decrement \/ SyncWait \/ SyncTimeout \/ PutFullNone
      BY <2>5 DEF PrimeNone, Activate, LoopTop, DmaReady, DmaTimeout, Decrement,
                  SyncWait, SyncTimeout, PutFullNone, Undefined
    <2>6. CASE \/ GetEmptyNone \/ TestPull \/ PullListHead \/ Issue \/ FifoOK
               \/ FifoError \/ CountRefills \/ Terminate \/ Deactivate
      BY <2>6 DEF GetEmptyNone, TestPull, PullListHead, Issue, FifoOK, FifoError,
                  CountRefills, Terminate, Deactivate, Undefined
    <2>7. QED
      BY <1>2, <2>1, <2>2, <2>3, <2>4, <2>5, <2>6 DEF DataLoop
  <1>3. CASE Environment
    BY <1>3 DEF Environment, Transfer, DmaCallback, DmaCallbackRace, MonitorStop
  <1>4. CASE Done \/ UNCHANGED vars
    BY <1>4 DEF Done, vars
  <1>5. QED
    BY <1>1, <1>2, <1>3, <1>4 DEF Next

\* Every step preserves what the lists guarantee.
LEMMA NextKeepsLists ==
  ASSUME ListsInv, [Next]_vars
  PROVE  ListsInv'
  <1>1. CASE UNCHANGED lists
    BY <1>1 DEF lists, ListsInv, ListsTypeOK, BuffersConserved
  <1>2. QED
    BY <1>1, NextMovesLists, GetEmptyConserves, PutFullConserves, PullConserves,
       GetFullConserves, PutEmptyConserves, MoveOpensConserves, MoveRefillsConserves,
       MoveInflightConserves, SortConserves

\* Conservation of the host buffers, for any number of buffers and of
\* clients, opens that fail and captures that overlap included: each buffer
\* is on exactly one of EMPTIES, INFLIGHT, REFILLS and OPENS, and its bstate
\* names the list.
THEOREM CaptureConservesBuffers == Spec => []BuffersConserved
  <1>1. Init => ListsInv
    BY InitConserves DEF Init
  <1>2. ListsInv /\ [Next]_vars => ListsInv'
    BY NextKeepsLists
  <1>3. ListsInv => BuffersConserved
    BY DEF ListsInv
  <1>4. QED
    BY <1>1, <1>2, <1>3, PTL DEF Spec

----------------------------------------------------------------------------
(* Type correctness.  Each part of TypeOK is shown to be preserved by the  *)
(* steps that write the variables it types.                                *)

\* The updates that are made to struct RUN_TIME.
LEMMA RunTimeError ==
  ASSUME NEW r \in RUN_TIME, NEW e \in 0 .. 2
  PROVE  [r EXCEPT !.refill_error = e] \in RUN_TIME
  BY DEF RUN_TIME

LEMMA RunTimeDropped ==
  ASSUME NEW r \in RUN_TIME, NEW n \in Nat
  PROVE  [r EXCEPT !.buffers_dropped = @ + n] \in RUN_TIME
  BY DEF RUN_TIME

LEMMA RunTimeGet ==
  ASSUME NEW r \in RUN_TIME
  PROVE  [r EXCEPT !.nget = @ + 1] \in RUN_TIME /\ [r EXCEPT !.ngetr = @ + 1] \in RUN_TIME
  BY DEF RUN_TIME

LEMMA RunTimeStop ==
  ASSUME NEW r \in RUN_TIME, NEW p \in BOOLEAN
  PROVE  [r EXCEPT !.please_stop = p] \in RUN_TIME
  BY DEF RUN_TIME

LEMMA RunTimePut ==
  ASSUME NEW r \in RUN_TIME, NEW p \in BOOLEAN
  PROVE  [r EXCEPT !.nput = @ + 1, !.please_stop = p] \in RUN_TIME
  <1>1. [r EXCEPT !.nput = @ + 1] \in RUN_TIME
    BY DEF RUN_TIME
  <1>2. QED
    BY <1>1, RunTimeStop

\* Steps that write rt.
LEMMA RtTypes ==
  ASSUME TypeOK, [Next]_vars
  PROVE  RtTypeOK'
  <1> USE DEF TypeOK, RtTypeOK
  <1>1. ASSUME NEW c \in Clients, Client(c) PROVE RtTypeOK'
    <2>1. CASE OnStart(c)
      BY <2>1 DEF OnStart, RT0, RUN_TIME
    <2>2. CASE PutEmpty(c)
      <3>1. rt' = [rt EXCEPT !.buffers_dropped = @ + 1]
        BY <2>2 DEF PutEmpty
      <3>2. QED
        BY <3>1, RunTimeDropped
    <2>3. CASE \/ OpenDevice(c) \/ EmptyRefills(c) \/ EmptyInflight(c) \/ SortEmpties(c) \/ OnStartInterrupted(c)
               \/ SortRaces(c) \/ ResetAggregator(c) \/ StartDmaRefused(c)
               \/ StartDma(c) \/ RunThreads(c)
               \/ SeenActive(c) \/ PollGivesUp(c) \/ EnableAggregator(c)
      BY <2>3, Zenon DEF OpenDevice, EmptyRefills, EmptyInflight, SortEmpties, OnStartInterrupted, SortRaces,
                  ResetAggregator, StartDmaRefused, StartDma, RunThreads,
                  SeenActive, PollGivesUp, EnableAggregator, Undefined
    <2>4. CASE \/ Read(c) \/ PutEmptyNone(c) \/ BacklogDone(c) \/ TestRefills(c)
               \/ WaitRefill(c) \/ Interrupted(c) \/ TakeFull(c) \/ TakeListHead(c)
      BY <2>4, Zenon DEF Read, PutEmptyNone, BacklogDone, TestRefills, WaitRefill,
                  Interrupted, TakeFull, TakeListHead, Undefined
    <2>5. CASE \/ Release(c) \/ TestTaskActive(c) \/ KthreadStop(c)
               \/ KthreadStopGone(c) \/ Join(c) \/ StopMonitor(c) \/ ForgetTask(c)
               \/ MoveOpens(c) \/ MoveRefills(c) \/ FinishRelease(c)
      BY <2>5, Zenon DEF Release, TestTaskActive, KthreadStop, KthreadStopGone, Join,
                  StopMonitor, ForgetTask, MoveOpens, MoveRefills, FinishRelease, Undefined
    <2>6. QED
      BY <1>1, <2>1, <2>2, <2>3, <2>4, <2>5 DEF Client, ClientInternal
  <1>2. CASE DataLoop
    <2>1. CASE PrimeFirst \/ PrimeSecond \/ GetEmpty
      <3>1. rt' = [rt EXCEPT !.nget = @ + 1]
        BY <2>1 DEF PrimeFirst, PrimeSecond, GetEmpty
      <3>2. QED
        BY <3>1, RunTimeGet
    <2>2. CASE DmaTimeout \/ FifoError
      <3>1. \E e \in 0 .. 2 : rt' = [rt EXCEPT !.refill_error = e]
        BY <2>2 DEF DmaTimeout, FifoError
      <3>2. QED
        BY <3>1, RunTimeError
    <2>3. CASE PutFull
      <3> DEFINE p == rt.please_stop \/ (run_buffers # 0 /\ rt.nput + 1 >= run_buffers)
      <3>1. p \in BOOLEAN
        BY Zenon
      <3>2. rt' = [rt EXCEPT !.nput = @ + 1, !.please_stop = p]
        BY <2>3, Zenon DEF PutFull
      <3> HIDE DEF p
      <3>3. QED
        BY <3>1, <3>2, RunTimePut
    <2>4. CASE PullRefill
      <3>1. rt' = [rt EXCEPT !.ngetr = @ + 1]
        BY <2>4 DEF PullRefill
      <3>2. QED
        BY <3>1, RunTimeGet
    <2>5. CASE CountRefills
      <3>1. rt' = [rt EXCEPT !.buffers_dropped = @ + Len(REFILLS)]
        BY <2>5 DEF CountRefills
      <3>2. Len(REFILLS) \in Nat
        BY LenProperties DEF ListsTypeOK
      <3>3. QED
        BY <3>1, <3>2, RunTimeDropped
    <2>6. CASE DrainRefills
      <3>1. rt' = rt \/ rt' = [rt EXCEPT !.refill_error = 1]
        BY <2>6 DEF DrainRefills
      <3>2. 1 \in 0 .. 2
        OBVIOUS
      <3>3. QED
        BY <3>1, <3>2, RunTimeError
    <2>7. CASE \/ PrimeNone \/ Activate \/ LoopTop \/ DmaReady
               \/ Decrement \/ SyncWait \/ SyncTimeout \/ PutFullNone
      BY <2>7, Zenon DEF PrimeNone, Activate, LoopTop, DmaReady, Decrement,
                  SyncWait, SyncTimeout, PutFullNone, Undefined
    <2>8. CASE \/ GetEmptyNone \/ TestPull \/ PullListHead \/ Issue \/ FifoOK
               \/ Terminate \/ Deactivate
      BY <2>8, Zenon DEF GetEmptyNone, TestPull, PullListHead, Issue, FifoOK,
                  Terminate, Deactivate, Undefined
    <2>9. QED
      BY <1>2, <2>1, <2>2, <2>3, <2>4, <2>5, <2>6, <2>7, <2>8 DEF DataLoop
  <1>3. CASE Environment
    <2>1. CASE MonitorStop
      <3>1. rt' = [rt EXCEPT !.please_stop = TRUE]
        BY <2>1 DEF MonitorStop
      <3>2. QED
        BY <3>1, RunTimeStop
    <2>2. CASE (\E c \in 0 .. 1 : Transfer(c)) \/ DmaCallback \/ DmaCallbackRace
      BY <2>2 DEF Transfer, DmaCallback, DmaCallbackRace
    <2>3. QED
      BY <1>3, <2>1, <2>2 DEF Environment
  <1>4. CASE Done \/ UNCHANGED vars
    BY <1>4 DEF Done, vars
  <1>5. QED
    BY <1>1, <1>2, <1>3, <1>4 DEF Next


\* Steps that write busy, the tasks or should_stop.
LEMMA TaskTypes ==
  ASSUME TypeOK, [Next]_vars
  PROVE  TaskTypeOK'
  <1> USE DEF TypeOK, TaskTypeOK, task
  <1>1. ASSUME NEW c \in Clients, Client(c) PROVE TaskTypeOK'
    <2>1. CASE RunThreads(c)
      BY <2>1 DEF RunThreads, Undefined
    <2>2. CASE SeenActive(c)
      BY <2>2 DEF SeenActive
    <2>3. CASE KthreadStop(c) \/ StopMonitor(c) \/ ForgetTask(c) \/ FinishRelease(c)
      BY <2>3 DEF KthreadStop, StopMonitor, ForgetTask, FinishRelease
    <2>4. CASE \/ OpenDevice(c) \/ EmptyRefills(c) \/ EmptyInflight(c) \/ SortEmpties(c) \/ OnStartInterrupted(c)
               \/ SortRaces(c) \/ OnStart(c) \/ ResetAggregator(c) \/ StartDmaRefused(c)
               \/ StartDma(c) \/ PollGivesUp(c) \/ EnableAggregator(c)
      BY <2>4, Zenon DEF OpenDevice, EmptyRefills, EmptyInflight, SortEmpties, OnStartInterrupted, SortRaces,
                  OnStart, ResetAggregator, StartDmaRefused, StartDma,
                  PollGivesUp, EnableAggregator, Undefined
    <2>5. CASE \/ Read(c) \/ PutEmpty(c) \/ PutEmptyNone(c) \/ BacklogDone(c) \/ TestRefills(c)
               \/ WaitRefill(c) \/ Interrupted(c) \/ TakeFull(c) \/ TakeListHead(c)
      BY <2>5, Zenon DEF Read, PutEmpty, PutEmptyNone, BacklogDone, TestRefills, WaitRefill,
                  Interrupted, TakeFull, TakeListHead, Undefined
    <2>6. CASE \/ MoveOpens(c) \/ MoveRefills(c) \/ Release(c) \/ TestTaskActive(c) \/ KthreadStopGone(c) \/ Join(c)
      BY <2>6, Zenon DEF MoveOpens, MoveRefills, Release, TestTaskActive, KthreadStopGone, Join, Undefined
    <2>7. QED
      BY <1>1, <2>1, <2>2, <2>3, <2>4, <2>5, <2>6 DEF Client, ClientInternal
  <1>2. CASE DataLoop
    <2>1. CASE Activate \/ Deactivate
      BY <2>1 DEF Activate, Deactivate
    <2>2. CASE \/ PrimeFirst \/ PrimeSecond \/ PrimeNone \/ LoopTop \/ DmaReady \/ DmaTimeout
               \/ Decrement \/ SyncWait \/ SyncTimeout \/ PutFull \/ PutFullNone
      BY <2>2, Zenon DEF PrimeFirst, PrimeSecond, PrimeNone, LoopTop, DmaReady, DmaTimeout,
                  Decrement, SyncWait, SyncTimeout, PutFull, PutFullNone, Undefined
    <2>3. CASE \/ GetEmpty \/ GetEmptyNone \/ TestPull \/ PullRefill \/ PullListHead \/ Issue
               \/ FifoOK \/ FifoError \/ CountRefills \/ DrainRefills \/ Terminate
      BY <2>3, Zenon DEF GetEmpty, GetEmptyNone, TestPull, PullRefill, PullListHead, Issue,
                  FifoOK, FifoError, CountRefills, DrainRefills, Terminate, Undefined
    <2>4. QED
      BY <1>2, <2>1, <2>2, <2>3 DEF DataLoop
  <1>3. CASE Environment
    BY <1>3, Zenon DEF Environment, Transfer, DmaCallback, DmaCallbackRace, MonitorStop
  <1>4. CASE Done \/ UNCHANGED vars
    BY <1>4, Zenon DEF Done, vars
  <1>5. QED
    BY <1>1, <1>2, <1>3, <1>4 DEF Next

\* The head of a list is a buffer.
LEMMA HeadIsBuffer ==
  ASSUME ListsTypeOK
  PROVE  /\ EMPTIES # << >> => Head(EMPTIES) \in HBM
         /\ REFILLS # << >> => Head(REFILLS) \in HBM
  BY HeadTailFacts DEF ListsTypeOK

\* Steps that write the state of the DMAC, its callback count or the
\* aggregator.
LEMMA DmacTypes ==
  ASSUME TypeOK, [Next]_vars
  PROVE  DmacTypeOK'
  <1> USE DEF TypeOK, DmacTypeOK, dmac
  <1>1. ASSUME NEW c \in Clients, Client(c) PROVE DmacTypeOK'
    <2>1. CASE ResetAggregator(c) \/ StartDma(c) \/ EnableAggregator(c)
      <3>1. aggregator' \in BOOLEAN /\ dma_callback_done' \in {0, dma_callback_done}
        BY <2>1, Zenon DEF ResetAggregator, StartDma, EnableAggregator
      <3>2. UNCHANGED dmac
        BY <2>1, Zenon DEF ResetAggregator, StartDma, EnableAggregator
      <3>3. dma_callback_done' \in Int
        BY <3>1
      <3>4. QED
        BY <3>1, <3>2, <3>3, Zenon
    <2>2. CASE Release(c)
      BY <2>2 DEF Release
    <2>3. CASE \/ OpenDevice(c) \/ EmptyRefills(c) \/ EmptyInflight(c) \/ SortEmpties(c) \/ OnStartInterrupted(c)
               \/ SortRaces(c) \/ OnStart(c) \/ StartDmaRefused(c) \/ RunThreads(c)
               \/ SeenActive(c) \/ PollGivesUp(c)
      BY <2>3, Zenon DEF OpenDevice, EmptyRefills, EmptyInflight, SortEmpties, OnStartInterrupted, SortRaces,
                  OnStart, StartDmaRefused, RunThreads,
                  SeenActive, PollGivesUp, Undefined
    <2>4. CASE \/ Read(c) \/ PutEmpty(c) \/ PutEmptyNone(c) \/ BacklogDone(c) \/ TestRefills(c)
               \/ WaitRefill(c) \/ Interrupted(c) \/ TakeFull(c) \/ TakeListHead(c)
      BY <2>4, Zenon DEF Read, PutEmpty, PutEmptyNone, BacklogDone, TestRefills, WaitRefill,
                  Interrupted, TakeFull, TakeListHead, Undefined
    <2>5. CASE \/ TestTaskActive(c) \/ KthreadStop(c) \/ KthreadStopGone(c)
               \/ Join(c) \/ StopMonitor(c) \/ ForgetTask(c) \/ MoveOpens(c) \/ MoveRefills(c) \/ FinishRelease(c)
      BY <2>5, Zenon DEF TestTaskActive, KthreadStop, KthreadStopGone, Join, StopMonitor,
                  ForgetTask, MoveOpens, MoveRefills, FinishRelease, Undefined
    <2>6. QED
      BY <1>1, <2>1, <2>2, <2>3, <2>4, <2>5 DEF Client, ClientInternal
  <1>2. CASE DataLoop
    <2>1. CASE PrimeSecond
      <3>1. Head(EMPTIES) \in HBM
        BY <2>1, HeadIsBuffer DEF PrimeSecond, getEmpty
      <3>2. chan' \in [0 .. 1 -> DMA_CHAN]
        BY <2>1, <3>1 DEF PrimeSecond, DMA_CHAN, LoopTypeOK
      <3>3. QED
        BY <2>1, <3>2, Zenon DEF PrimeSecond
    <2>2. CASE Issue
      <3>1. chan' \in [0 .. 1 -> DMA_CHAN]
        BY <2>2 DEF Issue, DMA_CHAN, LoopTypeOK
      <3>2. QED
        BY <2>2, <3>1, Zenon DEF Issue
    <2>3. CASE Terminate
      BY <2>3 DEF Terminate, Idle, DMA_CHAN
    <2>4. CASE Decrement
      BY <2>4 DEF Decrement, LoopTypeOK
    <2>5. CASE \/ PrimeFirst \/ PrimeNone \/ Activate \/ LoopTop \/ DmaReady \/ DmaTimeout
               \/ SyncWait \/ SyncTimeout \/ PutFull \/ PutFullNone
      BY <2>5, Zenon DEF PrimeFirst, PrimeNone, Activate, LoopTop, DmaReady, DmaTimeout,
                  SyncWait, SyncTimeout, PutFull, PutFullNone, Undefined
    <2>6. CASE \/ GetEmpty \/ GetEmptyNone \/ TestPull \/ PullRefill \/ PullListHead
               \/ FifoOK \/ FifoError \/ CountRefills \/ DrainRefills \/ Deactivate
      BY <2>6, Zenon DEF GetEmpty, GetEmptyNone, TestPull, PullRefill, PullListHead,
                  FifoOK, FifoError, CountRefills, DrainRefills, Deactivate, Undefined
    <2>7. QED
      BY <1>2, <2>1, <2>2, <2>3, <2>4, <2>5, <2>6 DEF DataLoop
  <1>3. CASE Environment
    <2>1. ASSUME NEW c \in 0 .. 1, Transfer(c) PROVE DmacTypeOK'
      <3>1. chan' \in [0 .. 1 -> DMA_CHAN]
        BY <2>1 DEF Transfer, DMA_CHAN
      <3>2. content' \in [HBM -> Nat]
        <4>1. block + 1 \in Nat
          OBVIOUS
        <4>2. content' = [content EXCEPT ![chan[c].hbm] = block + 1]
          BY <2>1 DEF Transfer
        <4>3. content \in [HBM -> Nat]
          OBVIOUS
        <4>4. QED
          BY <4>1, <4>2, <4>3
      <3>3. event' \in [0 .. 1 -> BOOLEAN]
        BY <2>1 DEF Transfer
      <3>4. block' \in Nat /\ callbacks' \in Nat
        BY <2>1 DEF Transfer
      <3>5. QED
        BY <2>1, <3>1, <3>2, <3>3, <3>4, Zenon DEF Transfer
    <2>2. CASE DmaCallback \/ DmaCallbackRace
      BY <2>2 DEF DmaCallback, DmaCallbackRace
    <2>3. CASE MonitorStop
      BY <2>3, Zenon DEF MonitorStop
    <2>4. QED
      BY <1>3, <2>1, <2>2, <2>3 DEF Environment
  <1>4. CASE Done \/ UNCHANGED vars
    BY <1>4, Zenon DEF Done, vars
  <1>5. QED
    BY <1>1, <1>2, <1>3, <1>4 DEF Next


\* Steps that write the data loop's locals.
LEMMA LoopTypes ==
  ASSUME TypeOK, [Next]_vars
  PROVE  LoopTypeOK'
  <1> USE DEF TypeOK, LoopTypeOK, loop
  <1>1. ASSUME NEW c \in Clients, Client(c) PROVE LoopTypeOK'
    <2>1. CASE RunThreads(c)
      BY <2>1 DEF RunThreads, Undefined, LoopPc
    <2>2. CASE \/ OpenDevice(c) \/ EmptyRefills(c) \/ EmptyInflight(c) \/ SortEmpties(c) \/ OnStartInterrupted(c)
               \/ SortRaces(c) \/ OnStart(c) \/ ResetAggregator(c) \/ StartDmaRefused(c)
               \/ StartDma(c) \/ SeenActive(c) \/ PollGivesUp(c)
               \/ EnableAggregator(c)
      BY <2>2, Zenon DEF OpenDevice, EmptyRefills, EmptyInflight, SortEmpties, OnStartInterrupted, SortRaces,
                  OnStart, ResetAggregator, StartDmaRefused, StartDma,
                  SeenActive, PollGivesUp, EnableAggregator, Undefined
    <2>3. CASE \/ Read(c) \/ PutEmpty(c) \/ PutEmptyNone(c) \/ BacklogDone(c) \/ TestRefills(c)
               \/ WaitRefill(c) \/ Interrupted(c) \/ TakeFull(c) \/ TakeListHead(c)
      BY <2>3, Zenon DEF Read, PutEmpty, PutEmptyNone, BacklogDone, TestRefills, WaitRefill,
                  Interrupted, TakeFull, TakeListHead, Undefined
    <2>4. CASE \/ Release(c) \/ TestTaskActive(c) \/ KthreadStop(c) \/ KthreadStopGone(c)
               \/ Join(c) \/ StopMonitor(c) \/ ForgetTask(c) \/ MoveOpens(c) \/ MoveRefills(c) \/ FinishRelease(c)
      BY <2>4, Zenon DEF Release, TestTaskActive, KthreadStop, KthreadStopGone, Join,
                  StopMonitor, ForgetTask, MoveOpens, MoveRefills, FinishRelease, Undefined
    <2>5. QED
      BY <1>1, <2>1, <2>2, <2>3, <2>4 DEF Client, ClientInternal
  <1>2. CASE DataLoop
    <2>1. CASE PrimeFirst \/ GetEmpty
      <3>1. Head(EMPTIES) \in HBM
        BY <2>1, HeadIsBuffer DEF PrimeFirst, GetEmpty, getEmpty
      <3>2. QED
        BY <2>1, <3>1 DEF PrimeFirst, GetEmpty, LoopPc
    <2>2. CASE PullRefill
      <3>1. Head(REFILLS) \in HBM
        BY <2>2, HeadIsBuffer DEF PullRefill, getEmptyFromRefills
      <3>2. QED
        BY <2>2, <3>1 DEF PullRefill, LoopPc
    <2>3. CASE \/ PrimeSecond \/ Activate \/ LoopTop \/ Issue \/ Terminate \/ Deactivate
      <3>1. lpc' \in LoopPc
        BY <2>3 DEF PrimeSecond, Activate, LoopTop, Issue, Terminate, Deactivate, LoopPc
      <3>2. ic' \in 0 .. 1
        BY <2>3 DEF PrimeSecond, Activate, LoopTop, Issue, Terminate, Deactivate
      <3>3. QED
        BY <2>3, <3>1, <3>2, Zenon DEF PrimeSecond, Activate, LoopTop, Issue, Terminate,
                                       Deactivate
    <2>4. CASE DmaReady \/ Decrement
      <3>1. lpc' \in LoopPc /\ ldone' \in Int
        BY <2>4 DEF DmaReady, Decrement, DmacTypeOK, LoopPc
      <3>2. QED
        BY <2>4, <3>1, Zenon DEF DmaReady, Decrement
    <2>5. CASE DmaTimeout \/ SyncWait \/ SyncTimeout \/ PutFull \/ PutFullNone
      <3>1. lpc' \in LoopPc
        BY <2>5 DEF DmaTimeout, SyncWait, SyncTimeout, PutFull, PutFullNone, LoopPc
      <3>2. QED
        BY <2>5, <3>1, Zenon DEF DmaTimeout, SyncWait, SyncTimeout, PutFull, PutFullNone
    <2>6. CASE GetEmptyNone \/ TestPull \/ FifoError \/ CountRefills
      <3>1. lpc' \in LoopPc
        BY <2>6 DEF GetEmptyNone, TestPull, FifoError, CountRefills, LoopPc
      <3>2. QED
        BY <2>6, <3>1, Zenon DEF GetEmptyNone, TestPull, FifoError, CountRefills
    <2>7. CASE FifoOK
      BY <2>7 DEF FifoOK, LoopPc
    <2>8. CASE DrainRefills
      BY <2>8 DEF DrainRefills, LoopPc
    <2>9. CASE PrimeNone \/ PullListHead
      BY <2>9, Zenon DEF PrimeNone, PullListHead, Undefined
    <2>10. QED
      BY <1>2, <2>1, <2>2, <2>3, <2>4, <2>5, <2>6, <2>7, <2>8, <2>9 DEF DataLoop
  <1>3. CASE Environment
    <2>1. CASE DmaCallbackRace
      BY <2>1 DEF DmaCallbackRace, LoopPc
    <2>2. CASE (\E c \in 0 .. 1 : Transfer(c)) \/ DmaCallback \/ MonitorStop
      BY <2>2, Zenon DEF Transfer, DmaCallback, MonitorStop
    <2>3. QED
      BY <1>3, <2>1, <2>2 DEF Environment
  <1>4. CASE Done \/ UNCHANGED vars
    BY <1>4, Zenon DEF Done, vars
  <1>5. QED
    BY <1>1, <1>2, <1>3, <1>4 DEF Next

\* A client moves within its states, by its own step or woken by another.
LEMMA GotoTypes ==
  ASSUME ClientTypeOK, NEW c \in Clients, NEW l \in ClientPc, Goto(c, l)
  PROVE  cpc' \in [Clients -> ClientPc]
  BY DEF Goto, ClientTypeOK

LEMMA WakeTypes ==
  ASSUME ClientTypeOK, WakeReaders
  PROVE  cpc' \in [Clients -> ClientPc]
  BY DEF WakeReaders, ClientTypeOK, ClientPc, Reading

\* Steps that write the state of the clients.
LEMMA ClientTypes ==
  ASSUME TypeOK, [Next]_vars
  PROVE  ClientTypeOK'
  <1> USE DEF TypeOK, client
  <1>1. ASSUME NEW c \in Clients, Client(c) PROVE ClientTypeOK'
    <2>0. ClientPc = {"closed", "idle"} \cup Starting \cup Reading \cup Stopping
      BY DEF ClientPc
    <2>1. CASE \/ EmptyRefills(c) \/ EmptyInflight(c) \/ SortEmpties(c) \/ OnStartInterrupted(c)
               \/ OnStart(c) \/ ResetAggregator(c) \/ StartDmaRefused(c)
               \/ StartDma(c) \/ SeenActive(c)
               \/ PollGivesUp(c) \/ EnableAggregator(c)
      <3>1. (\E l \in ClientPc : Goto(c, l)) /\ UNCHANGED <<backlog, opens>>
        BY <2>1 DEF EmptyRefills, EmptyInflight, SortEmpties, OnStartInterrupted,
                    OnStart, ResetAggregator, StartDmaRefused, StartDma,
                    SeenActive, PollGivesUp, EnableAggregator, ClientPc, Starting
      <3>2. QED
        BY <3>1, GotoTypes DEF ClientTypeOK
    <2>2. CASE TestRefills(c) \/ WaitRefill(c) \/ Interrupted(c) \/ TakeFull(c)
      <3>1. (\E l \in ClientPc : Goto(c, l)) /\ UNCHANGED <<backlog, opens>>
        BY <2>2 DEF TestRefills, WaitRefill, Interrupted, TakeFull, ClientPc, Reading
      <3>2. QED
        BY <3>1, GotoTypes DEF ClientTypeOK
    <2>3. CASE \/ Release(c) \/ TestTaskActive(c) \/ KthreadStop(c) \/ Join(c)
               \/ StopMonitor(c) \/ ForgetTask(c) \/ MoveOpens(c) \/ MoveRefills(c) \/ FinishRelease(c)
      <3>1. (\E l \in ClientPc : Goto(c, l)) /\ UNCHANGED <<backlog, opens>>
        BY <2>3 DEF Release, TestTaskActive, KthreadStop, Join, StopMonitor, ForgetTask,
                    MoveOpens, MoveRefills, FinishRelease, ClientPc, Stopping
      <3>2. QED
        BY <3>1, GotoTypes DEF ClientTypeOK
    <2>4. CASE OpenDevice(c)
      <3>1. Goto(c, "empty_refills") /\ "empty_refills" \in ClientPc
        BY <2>4 DEF OpenDevice, ClientPc, Starting
      <3>2. QED
        BY <2>4, <3>1, GotoTypes DEF OpenDevice, ClientTypeOK
    <2>5. CASE Read(c)
      <3>1. Goto(c, "putempty") /\ "putempty" \in ClientPc /\ Len(OPENS) \in Nat
        BY <2>5, LenProperties DEF Read, ClientPc, Reading, ListsTypeOK
      <3>2. QED
        BY <2>5, <3>1, GotoTypes DEF Read, ClientTypeOK
    <2>6. CASE PutEmpty(c)
      BY <2>6 DEF PutEmpty, ClientTypeOK
    <2>7. CASE BacklogDone(c)
      <3>1. Goto(c, "getfull") /\ "getfull" \in ClientPc
        BY <2>7 DEF BacklogDone, ClientPc, Reading
      <3>2. QED
        BY <2>7, <3>1, GotoTypes DEF BacklogDone, ClientTypeOK
    <2>8. CASE \/ SortRaces(c) \/ PutEmptyNone(c) \/ TakeListHead(c)
               \/ KthreadStopGone(c)
      BY <2>8, Zenon DEF SortRaces, PutEmptyNone, TakeListHead, KthreadStopGone, Undefined,
                  ClientTypeOK
    <2>9. CASE RunThreads(c)
      <3>1. CASE UNCHANGED client
        BY <3>1 DEF ClientTypeOK
      <3>2. CASE Goto(c, "poll_active") /\ UNCHANGED <<backlog, opens>>
        BY <3>2, GotoTypes DEF ClientTypeOK, ClientPc, Starting
      <3>3. QED
        BY <2>9, <3>1, <3>2 DEF RunThreads, Undefined
    <2>10. QED
      BY <1>1, <2>1, <2>2, <2>3, <2>4, <2>5, <2>6, <2>7, <2>8, <2>9 DEF Client, ClientInternal
  <1>2. CASE DataLoop
    <2>1. CASE DmaTimeout \/ PutFull \/ FifoError
      BY <2>1, WakeTypes, Zenon DEF DmaTimeout, PutFull, FifoError, ClientTypeOK
    <2>2. CASE DrainRefills
      <3>1. (WakeReaders \/ UNCHANGED cpc) /\ UNCHANGED <<backlog, opens>>
        BY <2>2, Zenon DEF DrainRefills
      <3>2. QED
        BY <3>1, WakeTypes, Zenon DEF ClientTypeOK
    <2>3. CASE \/ PrimeFirst \/ PrimeSecond \/ PrimeNone \/ Activate \/ LoopTop \/ DmaReady
               \/ Decrement \/ SyncWait \/ SyncTimeout \/ PutFullNone
      BY <2>3, Zenon DEF PrimeFirst, PrimeSecond, PrimeNone, Activate, LoopTop, DmaReady,
                  Decrement, SyncWait, SyncTimeout, PutFullNone, Undefined, ClientTypeOK
    <2>4. CASE \/ GetEmpty \/ GetEmptyNone \/ TestPull \/ PullRefill \/ PullListHead \/ Issue
               \/ FifoOK \/ CountRefills \/ Terminate \/ Deactivate
      BY <2>4, Zenon DEF GetEmpty, GetEmptyNone, TestPull, PullRefill, PullListHead, Issue,
                  FifoOK, CountRefills, Terminate, Deactivate, Undefined, ClientTypeOK
    <2>5. QED
      BY <1>2, <2>1, <2>2, <2>3, <2>4 DEF DataLoop
  <1>3. CASE Environment
    BY <1>3, Zenon DEF Environment, Transfer, DmaCallback, DmaCallbackRace, MonitorStop,
                ClientTypeOK
  <1>4. CASE Done \/ UNCHANGED vars
    BY <1>4, Zenon DEF Done, vars, ClientTypeOK
  <1>5. QED
    BY <1>1, <1>2, <1>3, <1>4 DEF Next

\* Steps that write the history of the run.
LEMMA GhostTypes ==
  ASSUME TypeOK, [Next]_vars
  PROVE  GhostTypeOK'
  <1> USE DEF TypeOK, GhostTypeOK, ghost
  <1>1. ASSUME NEW c \in Clients, Client(c) PROVE GhostTypeOK'
    <2>1. CASE OnStart(c)
      BY <2>1 DEF OnStart
    <2>2. CASE TakeFull(c)
      <3>1. Head(REFILLS) \in HBM
        BY <2>2, HeadIsBuffer DEF TakeFull, getFull
      <3>2. content[Head(REFILLS)] \in Nat
        BY <3>1 DEF DmacTypeOK
      <3>3. QED
        BY <2>2, <3>2 DEF TakeFull
    <2>3. CASE SortRaces(c) \/ PutEmptyNone(c) \/ TakeListHead(c) \/ KthreadStopGone(c)
      BY <2>3 DEF SortRaces, PutEmptyNone, TakeListHead, KthreadStopGone, Undefined
    <2>4. CASE \/ OpenDevice(c) \/ EmptyRefills(c) \/ EmptyInflight(c) \/ SortEmpties(c) \/ OnStartInterrupted(c)
               \/ ResetAggregator(c) \/ StartDmaRefused(c) \/ StartDma(c)
               \/ RunThreads(c) \/ SeenActive(c) \/ PollGivesUp(c) \/ EnableAggregator(c)
      BY <2>4, Zenon DEF OpenDevice, EmptyRefills, EmptyInflight, SortEmpties, OnStartInterrupted,
                  ResetAggregator, StartDmaRefused, StartDma, RunThreads,
                  SeenActive, PollGivesUp, EnableAggregator, Undefined
    <2>5. CASE \/ Read(c) \/ PutEmpty(c) \/ BacklogDone(c) \/ TestRefills(c)
               \/ WaitRefill(c) \/ Interrupted(c)
      BY <2>5, Zenon DEF Read, PutEmpty, BacklogDone, TestRefills, WaitRefill, Interrupted
    <2>6. CASE \/ Release(c) \/ TestTaskActive(c) \/ KthreadStop(c) \/ Join(c)
               \/ StopMonitor(c) \/ ForgetTask(c) \/ MoveOpens(c) \/ MoveRefills(c) \/ FinishRelease(c)
      BY <2>6, Zenon DEF Release, TestTaskActive, KthreadStop, Join, StopMonitor, ForgetTask,
                  MoveOpens, MoveRefills, FinishRelease
    <2>7. QED
      BY <1>1, <2>1, <2>2, <2>3, <2>4, <2>5, <2>6 DEF Client, ClientInternal
  <1>2. CASE DataLoop
    <2>1. CASE PrimeNone \/ PullListHead
      BY <2>1 DEF PrimeNone, PullListHead, Undefined
    <2>2. CASE DrainRefills
      <3>1. Len(REFILLS) \in Nat
        BY LenProperties DEF ListsTypeOK
      <3>2. QED
        BY <2>2, <3>1 DEF DrainRefills
    <2>0. CASE PrimeSecond
      BY <2>0 DEF PrimeSecond, DmacTypeOK
    <2>3. CASE \/ PrimeFirst \/ Activate \/ LoopTop \/ DmaReady \/ DmaTimeout
               \/ Decrement \/ SyncWait \/ SyncTimeout \/ PutFull \/ PutFullNone
      BY <2>3, Zenon DEF PrimeFirst, Activate, LoopTop, DmaReady, DmaTimeout,
                  Decrement, SyncWait, SyncTimeout, PutFull, PutFullNone
    <2>4. CASE \/ GetEmpty \/ GetEmptyNone \/ TestPull \/ PullRefill \/ Issue
               \/ FifoOK \/ FifoError \/ CountRefills \/ Terminate \/ Deactivate
      BY <2>4, Zenon DEF GetEmpty, GetEmptyNone, TestPull, PullRefill, Issue,
                  FifoOK, FifoError, CountRefills, Terminate, Deactivate
    <2>5. QED
      BY <1>2, <2>0, <2>1, <2>2, <2>3, <2>4 DEF DataLoop
  <1>3. CASE Environment
    BY <1>3, Zenon DEF Environment, Transfer, DmaCallback, DmaCallbackRace, MonitorStop
  <1>4. CASE Done \/ UNCHANGED vars
    BY <1>4, Zenon DEF Done, vars
  <1>5. QED
    BY <1>1, <1>2, <1>3, <1>4 DEF Next


\* Type correctness of the capture, for any number of buffers and clients:
\* each program counter stays in its set, and whatever a channel or the data
\* loop holds as a buffer is one (or NoHBM).  That Head() is a buffer needs
\* the lists to be typed, and the lists stay typed only because they conserve
\* the buffers: the invariant is ListsInv together with TypeOK.
THEOREM CaptureTypeOK == Spec => []TypeOK
  <1>1. Init => ListsInv /\ TypeOK
    <2> SUFFICES ASSUME Init PROVE ListsInv /\ TypeOK
      OBVIOUS
    <2>1. ListsInv
      BY InitConserves DEF Init
    <2>2. RtTypeOK /\ TaskTypeOK
      <3>1. RT0 \in RUN_TIME
        BY DEF RT0, RUN_TIME
      <3>2. QED
        BY <3>1, Zenon DEF Init, RtTypeOK, TaskTypeOK
    <2>3. DmacTypeOK
      <3>1. Idle \in DMA_CHAN
        BY DEF Idle, DMA_CHAN
      <3>2. chan \in [0 .. 1 -> DMA_CHAN]
        BY <3>1 DEF Init
      <3>3. event \in [0 .. 1 -> BOOLEAN] /\ content \in [HBM -> Nat]
        BY DEF Init
      <3>4. aggregator \in BOOLEAN
        BY Zenon DEF Init
      <3>5. dma_callback_done \in Int /\ callbacks \in Nat /\ block \in Nat
        BY DEF Init
      <3>6. QED
        BY <3>2, <3>3, <3>4, <3>5, Zenon DEF DmacTypeOK
    <2>4. LoopTypeOK
      <3>1. /\ lpc \in LoopPc /\ lhbm \in HBM \cup {NoHBM} /\ drain \in BOOLEAN
            /\ dma_timeout \in {"START_TIMEOUT", "DMA_TIMEOUT"}
        BY Zenon DEF Init, LoopPc
      <3>2. ic \in 0 .. 1 /\ ldone \in Int
        BY DEF Init
      <3>3. QED
        BY <3>1, <3>2, Zenon DEF LoopTypeOK
    <2>5. ClientTypeOK /\ GhostTypeOK
      <3>1. "closed" \in ClientPc
        BY DEF ClientPc
      <3>2. cpc \in [Clients -> ClientPc] /\ backlog \in [Clients -> Int]
        BY <3>1 DEF Init
      <3>3. opens \in Nat /\ delivered \in Nat /\ taken \in Nat /\ drained \in Nat /\ stale \in BOOLEAN
        BY DEF Init
      <3>4. ub \in {"no", "list_head", "dead_task", "two_loops", "unlocked_sort"}
        BY Zenon DEF Init
      <3>5. QED
        BY <3>2, <3>3, <3>4, Zenon DEF ClientTypeOK, GhostTypeOK
    <2>6. QED
      BY <2>1, <2>2, <2>3, <2>4, <2>5 DEF TypeOK, ListsInv
  <1>2. ListsInv /\ TypeOK /\ [Next]_vars => (ListsInv /\ TypeOK)'
    <2> SUFFICES ASSUME ListsInv, TypeOK, [Next]_vars PROVE ListsInv' /\ TypeOK'
      OBVIOUS
    <2>1. ListsInv'
      BY NextKeepsLists
    <2>2. QED
      BY <2>1, RtTypes, TaskTypes, DmacTypes, LoopTypes, ClientTypes, GhostTypes
         DEF TypeOK, ListsInv
  <1>3. QED
    BY <1>1, <1>2, PTL DEF Spec

----------------------------------------------------------------------------
(* One client.                                                             *)

\* One process has the device, and its open() waits for the data loop.  (With
\* two clients, or an open() that gives up, empty_lists() takes the buffers of
\* a capture that runs, and none of this holds.)
OneClient == ~SlowStart /\ \A c, d \in Clients : c = d

----------------------------------------------------------------------------
(* The inductive invariant.                                                *)

\* Where the data loop is while task_active is set.
Active == LoopPc \ {"none", "prime0", "prime1", "activate", "exited"}

\* Where a client is when no capture runs, from the release on until
\* kthread_run(); and where it is when it has waited for the data loop to go.
Before == {"closed", "empty_refills", "empty_inflight", "sort", "onstart", "reset",
           "start_dma", "kthread_run"}
After == {"stop_monitor", "inactive", "move_opens", "move_refills", "move_inflight"}

\* The data loop runs only while the client waits for it, captures or stops it.
PhaseInv ==
  /\ task_active <=> lpc \in Active
  /\ \A c \in Clients :
       /\ cpc[c] \in Before => lpc \in {"none", "exited"} /\ ~busy
       /\ cpc[c] \in After => lpc = "exited"
       /\ cpc[c] \notin Before \cup After \cup {"poll_active"} => lpc \in Active \cup {"exited"}
       /\ w_task <=> cpc[c] \notin Before \cup {"move_opens", "move_refills", "move_inflight"}

\* No buffer is off EMPTIES between two captures.
QuietInv ==
  \A c \in Clients :
    /\ cpc[c] \in Before => INFLIGHT = << >>
    /\ cpc[c] \in Before \cup {"move_inflight"} => REFILLS = << >>
    /\ cpc[c] \in Before \cup {"move_inflight", "move_refills"} => OPENS = << >>

\* Both channels have a transfer whose buffer is yet to be put on REFILLS; only
\* the second one has.
Both == {"activate", "top", "wait", "dec", "sync", "putfull", "fifo", "depth", "drain"}
Between == {"getempty", "refills", "pull", "issue"}

\* The channel whose transfer comes first.
Oldest == IF lpc = "activate" THEN 0 ELSE IF lpc \in {"fifo", "depth", "drain"} THEN 1 - ic ELSE ic

\* INFLIGHT holds the buffers of the channels in the order of their transfers.
FlightInv ==
  /\ lpc \notin Both \cup Between \cup {"quit"} => \A c \in 0 .. 1 : chan[c].complete
  /\ lpc = "prime0" => INFLIGHT = << >>
  /\ lpc = "prime1" => INFLIGHT = <<lhbm>>
  /\ lpc \in Both => INFLIGHT = <<chan[Oldest].hbm, chan[1 - Oldest].hbm>>
  /\ lpc \in Between \ {"issue"} => INFLIGHT = <<chan[1 - ic].hbm>>
  /\ lpc = "issue" => INFLIGHT = <<chan[1 - ic].hbm, lhbm>>
  /\ lpc \in Between \cup {"putfull"} => chan[ic].complete
  /\ lpc = "quit" => \A c \in 0 .. 1 : ~chan[c].complete => On(INFLIGHT, chan[c].hbm)

\* The events let the channels transfer in turn, unless an event was latched
\* when the channels were primed.
TurnsInv ==
  LET f == Oldest
      s == 1 - Oldest
  IN lpc \in Both \cup Between =>
          /\ chan[s].wait
          /\ ~chan[f].complete => ~chan[s].complete /\ ~event[s] /\ (chan[f].wait \/ ~event[f])
          /\ chan[f].complete /\ ~chan[s].complete => ~event[f]
          /\ chan[f].complete /\ chan[s].complete => ~event[s]

\* The channels whose transfer is complete and whose buffer is in flight.
Filled == {c \in 0 .. 1 : chan[c].complete /\ (lpc \in Both \/ (lpc \in Between /\ c # ic))}

\* The blocks f of the buffers on list q increase, are above n, are below n.
Rising(f, q) == \A i, j \in 1 .. Len(q) : i < j => f[q[i]] < f[q[j]]
AllAbove(f, q, n) == \A i \in 1 .. Len(q) : n < f[q[i]]
AllBelow(f, q, n) == \A i \in 1 .. Len(q) : f[q[i]] < n

\* What was delivered, what is on REFILLS and what was transferred since are
\* blocks in the order of their acquisition.
BlocksInv ==
  /\ delivered <= block /\ block <= MaxBlocks
  /\ \A b \in HBM : content[b] <= block
  /\ Rising(content, REFILLS) /\ AllAbove(content, REFILLS, delivered)
  /\ \A c \in Filled : /\ delivered < content[chan[c].hbm]
                       /\ AllBelow(content, REFILLS, content[chan[c].hbm])
  /\ Filled = 0 .. 1 => content[chan[Oldest].hbm] < content[chan[1 - Oldest].hbm]

----------------------------------------------------------------------------
(* What the steps of a client and of the data loop leave alone.            *)

LEMMA ClientFrame ==
  ASSUME NEW c \in Clients, Client(c)
  PROVE  /\ UNCHANGED <<dmac, ic, lhbm, task_active>>
         /\ ub = "no"
         /\ \/ lpc' = lpc
            \/ cpc[c] = "kthread_run" /\ lpc \in {"none", "exited"} /\ lpc' = "prime0"
         /\ \/ INFLIGHT' = INFLIGHT
            \/ cpc[c] \in {"empty_inflight", "move_inflight"} /\ INFLIGHT' = << >>
         /\ \/ UNCHANGED <<REFILLS, delivered>>
            \/ REFILLS' = << >> /\ delivered' = delivered
            \/ TakeFull(c)
  <1> USE DEF dmac, loop, task, lists, ghost, At
  <1>1. CASE \/ OpenDevice(c) \/ EmptyRefills(c) \/ EmptyInflight(c) \/ SortEmpties(c)
    BY <1>1 DEF OpenDevice, EmptyRefills, EmptyInflight, SortEmpties, moveOpensToEmpty,
                moveRefillsToEmpty, moveInflightToEmpty, sortEmpties
  <1>2. CASE \/ OnStart(c) \/ OnStartInterrupted(c) \/ SortRaces(c) \/ ResetAggregator(c)
             \/ StartDmaRefused(c) \/ StartDma(c) \/ SeenActive(c) \/ PollGivesUp(c)
             \/ EnableAggregator(c)
    BY <1>2 DEF OnStart, OnStartInterrupted, SortRaces, ResetAggregator, StartDmaRefused,
                StartDma, SeenActive, PollGivesUp, EnableAggregator, Undefined
  <1>3. CASE RunThreads(c)
    BY <1>3 DEF RunThreads, Undefined
  <1>4. CASE \/ Read(c) \/ PutEmpty(c) \/ PutEmptyNone(c) \/ BacklogDone(c) \/ TestRefills(c)
             \/ WaitRefill(c) \/ Interrupted(c) \/ TakeFull(c) \/ TakeListHead(c)
    BY <1>4 DEF Read, PutEmpty, PutEmptyNone, BacklogDone, TestRefills, WaitRefill,
                Interrupted, TakeFull, TakeListHead, Undefined, putEmpty, getFull
  <1>5. CASE \/ Release(c) \/ TestTaskActive(c) \/ KthreadStop(c) \/ KthreadStopGone(c)
             \/ Join(c) \/ StopMonitor(c) \/ ForgetTask(c)
    BY <1>5 DEF Release, TestTaskActive, KthreadStop, KthreadStopGone, Join, StopMonitor,
                ForgetTask, Undefined
  <1>6. CASE MoveOpens(c) \/ MoveRefills(c) \/ FinishRelease(c)
    BY <1>6 DEF MoveOpens, MoveRefills, FinishRelease, moveOpensToEmpty, moveRefillsToEmpty,
                moveInflightToEmpty
  <1>7. QED
    BY <1>1, <1>2, <1>3, <1>4, <1>5, <1>6 DEF Client, ClientInternal

\* The data loop and the tasklet wake a reader, and change no other client.
LEMMA LoopFrame ==
  ASSUME TypeOK, DataLoop \/ Environment
  PROVE  /\ \A c \in Clients : cpc'[c] = cpc[c] \/ (cpc[c] = "asleep" /\ cpc'[c] = "wait")
         /\ UNCHANGED <<busy, w_task, OPENS, delivered, taken>>
  <1> USE DEF dmac, loop, task, lists, ghost, client
  <1>1. CASE Environment
    BY <1>1 DEF Environment, Transfer, DmaCallback, DmaCallbackRace, MonitorStop
  <1>2. CASE DataLoop
    <2>1. CASE \/ PrimeFirst \/ PrimeSecond \/ PrimeNone \/ Activate \/ LoopTop \/ DmaReady
      BY <2>1 DEF PrimeFirst, PrimeSecond, PrimeNone, Activate, LoopTop, DmaReady, Undefined,
                  getEmpty
    <2>2. CASE \/ Decrement \/ SyncWait \/ SyncTimeout \/ PutFullNone
               \/ GetEmpty \/ GetEmptyNone \/ TestPull \/ PullRefill \/ PullListHead
      BY <2>2 DEF Decrement, SyncWait, SyncTimeout, PutFullNone, GetEmpty, GetEmptyNone,
                  TestPull, PullRefill, PullListHead, Undefined, getEmpty, getEmptyFromRefills
    <2>3. CASE \/ Issue \/ FifoOK \/ CountRefills \/ Terminate \/ Deactivate
      BY <2>3 DEF Issue, FifoOK, CountRefills, Terminate, Deactivate
    <2>4. CASE \/ DmaTimeout \/ PutFull \/ FifoError
      BY <2>4 DEF DmaTimeout, PutFull, FifoError, WakeReaders, putFull
    <2>5. CASE DrainRefills
      BY <2>5 DEF DrainRefills, WakeReaders, moveRefillsToEmpty
    <2>6. QED
      BY <1>2, <2>1, <2>2, <2>3, <2>4, <2>5 DEF DataLoop
  <1>3. QED
    BY <1>1, <1>2

----------------------------------------------------------------------------
(* Each step preserves it.                                                 *)

LEMMA PhaseStep ==
  ASSUME OneClient, TypeOK, PhaseInv, [Next]_vars
  PROVE  PhaseInv'
  <1> USE DEF Before, After, Active, LoopPc
  <1>1. ASSUME NEW c \in Clients, Client(c) PROVE PhaseInv'
    <2> USE DEF TypeOK, ClientTypeOK, OneClient, PhaseInv, At, Goto, loop, task
    <2>1. CASE \/ OpenDevice(c) \/ EmptyRefills(c) \/ EmptyInflight(c) \/ SortEmpties(c)
               \/ OnStart(c) \/ OnStartInterrupted(c) \/ ResetAggregator(c)
               \/ StartDmaRefused(c) \/ StartDma(c)
      BY <2>1 DEF OpenDevice, EmptyRefills, EmptyInflight, SortEmpties, OnStart,
                  OnStartInterrupted, ResetAggregator, StartDmaRefused, StartDma
    <2>2. CASE RunThreads(c)
      BY <2>2 DEF RunThreads, Undefined, client
    <2>3. CASE SeenActive(c) \/ PollGivesUp(c) \/ EnableAggregator(c)
      BY <2>3 DEF SeenActive, PollGivesUp, EnableAggregator
    <2>4. CASE \/ Read(c) \/ PutEmpty(c) \/ BacklogDone(c) \/ TestRefills(c)
               \/ WaitRefill(c) \/ Interrupted(c) \/ TakeFull(c) \/ Release(c)
      BY <2>4 DEF Read, PutEmpty, BacklogDone, TestRefills, WaitRefill, Interrupted, TakeFull, Release
    <2>5. CASE \/ PutEmptyNone(c) \/ TakeListHead(c) \/ SortRaces(c) \/ KthreadStopGone(c)
      BY <2>5 DEF PutEmptyNone, TakeListHead, SortRaces, KthreadStopGone, Undefined, client
    <2>6. CASE \/ TestTaskActive(c) \/ KthreadStop(c) \/ Join(c) \/ StopMonitor(c)
      BY <2>6 DEF TestTaskActive, KthreadStop, Join, StopMonitor
    <2>7. CASE ForgetTask(c) \/ MoveOpens(c) \/ MoveRefills(c) \/ FinishRelease(c)
      BY <2>7 DEF ForgetTask, MoveOpens, MoveRefills, FinishRelease
    <2>8. QED
      BY <1>1, <2>1, <2>2, <2>3, <2>4, <2>5, <2>6, <2>7 DEF Client, ClientInternal
  <1>2. CASE DataLoop
    <2> USE DEF LoopAt, loop, task
    <2>1. \A c \in Clients :
            /\ cpc'[c] \in Before <=> cpc[c] \in Before
            /\ cpc'[c] \in After <=> cpc[c] \in After
            /\ cpc'[c] = "poll_active" <=> cpc[c] = "poll_active"
            /\ cpc'[c] \in {"move_opens", "move_refills", "move_inflight"}
                 <=> cpc[c] \in {"move_opens", "move_refills", "move_inflight"}
      BY <1>2, LoopFrame
    <2>2. UNCHANGED <<busy, w_task>>
      BY <1>2, LoopFrame
    <2>3. /\ lpc \notin {"none", "exited"}
          /\ lpc' = lpc \/ lpc \in Active \/ lpc' \in {"prime1", "activate", "top"}
      BY <1>2 DEF DataLoop, PrimeFirst, PrimeSecond, PrimeNone, Activate, LoopTop, DmaReady, DmaTimeout,
         Decrement, SyncWait, SyncTimeout, PutFull, PutFullNone, GetEmpty, GetEmptyNone, TestPull,
         PullRefill, PullListHead, Issue, FifoOK, FifoError, CountRefills, DrainRefills,
         Terminate, Deactivate, Undefined
    <2>4. /\ task_active' <=> lpc' \in Active
          /\ lpc \in Active => lpc' \in Active \cup {"exited"}
      BY <1>2 DEF DataLoop, PrimeFirst, PrimeSecond, PrimeNone, Activate, LoopTop, DmaReady, DmaTimeout,
         Decrement, SyncWait, SyncTimeout, PutFull, PutFullNone, GetEmpty, GetEmptyNone, TestPull,
         PullRefill, PullListHead, Issue, FifoOK, FifoError, CountRefills, DrainRefills,
         Terminate, Deactivate, Undefined, PhaseInv
    <2> HIDE DEF Before, After, Active
    <2>5. QED
      BY <2>1, <2>2, <2>3, <2>4 DEF PhaseInv, Active
  <1>3. CASE Environment
    <2>1. UNCHANGED <<cpc, busy, w_task, task_active>>
      BY <1>3 DEF Environment, Transfer, DmaCallback, DmaCallbackRace, MonitorStop, task, client
    <2>2. lpc' = lpc \/ (lpc = "dec" /\ lpc' \in {"quit", "sync"})
      BY <1>3 DEF Environment, Transfer, DmaCallback, DmaCallbackRace, MonitorStop, loop, LoopAt
    <2>3. QED
      BY <2>1, <2>2 DEF PhaseInv
  <1>4. CASE Done \/ UNCHANGED vars
    <2>1. UNCHANGED <<cpc, busy, w_task, task_active, lpc>>
      BY <1>4 DEF Done, vars, task, loop, client
    <2>2. QED
      BY <2>1, Zenon DEF PhaseInv
  <1>5. QED
    BY <1>1, <1>2, <1>3, <1>4 DEF Next

\* The data loop takes a step only when it has been started and has not exited.
LEMMA LoopRuns ==
  ASSUME DataLoop
  PROVE  ub = "no" /\ lpc \notin {"none", "exited"}
  BY DEF DataLoop, LoopAt, PrimeFirst, PrimeSecond, PrimeNone, Activate, LoopTop, DmaReady, DmaTimeout,
         Decrement, SyncWait, SyncTimeout, PutFull, PutFullNone, GetEmpty, GetEmptyNone, TestPull,
         PullRefill, PullListHead, Issue, FifoOK, FifoError, CountRefills, DrainRefills,
         Terminate, Deactivate

LEMMA QuietStep ==
  ASSUME OneClient, TypeOK, PhaseInv, QuietInv, [Next]_vars
  PROVE  QuietInv'
  <1>1. ASSUME NEW c \in Clients, Client(c) PROVE QuietInv'
    <2> USE DEF TypeOK, ClientTypeOK, OneClient, QuietInv, Before, At, Goto, lists
    <2>1. CASE \/ OpenDevice(c) \/ EmptyRefills(c) \/ EmptyInflight(c) \/ SortEmpties(c)
      <3>1. INFLIGHT' = << >> /\ REFILLS' = << >> /\ OPENS' = << >>
        BY <2>1 DEF OpenDevice, EmptyRefills, EmptyInflight, SortEmpties, moveOpensToEmpty,
                    moveRefillsToEmpty, moveInflightToEmpty, sortEmpties
      <3>2. QED
        BY <3>1
    <2>2. CASE \/ OnStart(c) \/ OnStartInterrupted(c) \/ ResetAggregator(c)
               \/ StartDmaRefused(c) \/ StartDma(c) \/ RunThreads(c)
      BY <2>2 DEF OnStart, OnStartInterrupted, ResetAggregator, StartDmaRefused, StartDma,
                  RunThreads, Undefined, client
    <2>3. CASE SeenActive(c) \/ PollGivesUp(c) \/ EnableAggregator(c)
      BY <2>3 DEF SeenActive, PollGivesUp, EnableAggregator
    <2>4. CASE \/ Read(c) \/ PutEmpty(c) \/ BacklogDone(c) \/ TestRefills(c)
               \/ WaitRefill(c) \/ Interrupted(c) \/ TakeFull(c) \/ Release(c)
      BY <2>4 DEF Read, PutEmpty, BacklogDone, TestRefills, WaitRefill, Interrupted, TakeFull, Release
    <2>5. CASE \/ PutEmptyNone(c) \/ TakeListHead(c) \/ SortRaces(c) \/ KthreadStopGone(c)
      BY <2>5 DEF PutEmptyNone, TakeListHead, SortRaces, KthreadStopGone, Undefined, client
    <2>6. CASE \/ TestTaskActive(c) \/ KthreadStop(c) \/ Join(c) \/ StopMonitor(c) \/ ForgetTask(c)
      BY <2>6 DEF TestTaskActive, KthreadStop, Join, StopMonitor, ForgetTask
    <2>7. CASE MoveOpens(c) \/ MoveRefills(c) \/ FinishRelease(c)
      BY <2>7 DEF MoveOpens, MoveRefills, FinishRelease, moveOpensToEmpty,
                  moveRefillsToEmpty, moveInflightToEmpty
    <2>8. QED
      BY <1>1, <2>1, <2>2, <2>3, <2>4, <2>5, <2>6, <2>7 DEF Client, ClientInternal
  <1>2. CASE DataLoop
    <2>1. \A c \in Clients : cpc[c] \notin Before \cup After
      BY <1>2, LoopRuns DEF PhaseInv
    <2>2. \A c \in Clients : cpc'[c] \notin Before \cup After
      BY <1>2, <2>1, LoopFrame DEF Before, After
    <2>3. QED
      BY <2>2 DEF QuietInv, After
  <1>3. CASE Environment \/ Done \/ UNCHANGED vars
    <2>1. UNCHANGED <<cpc, INFLIGHT, REFILLS, OPENS>>
      BY <1>3 DEF Environment, Transfer, DmaCallback, DmaCallbackRace, MonitorStop, lists, client,
                  Done, vars
    <2>2. QED
      BY <2>1, Zenon DEF QuietInv
  <1>4. QED
    BY <1>1, <1>2, <1>3 DEF Next

----------------------------------------------------------------------------

\* Lists of one and two buffers.
LEMMA AppendSecond ==
  ASSUME NEW x, NEW y
  PROVE  Append(<<x>>, y) = <<x, y>>
  <1> DEFINE s == Append(<<x>>, y)
             t == <<x, y>>
  <1>1. s \in Seq({x, y}) /\ Len(s) = 2 /\ s[1] = x /\ s[2] = y
    OBVIOUS
  <1>2. t \in Seq({x, y}) /\ Len(t) = 2 /\ t[1] = x /\ t[2] = y
    OBVIOUS
  <1> HIDE DEF s, t
  <1>3. \A i \in 1 .. Len(s) : s[i] = t[i]
    BY <1>1, <1>2
  <1>4. s = t
    BY <1>1, <1>2, <1>3, SeqEqual
  <1>5. QED
    BY <1>4 DEF s, t

LEMMA OneOrTwo ==
  ASSUME NEW x, NEW y
  PROVE  /\ Append(<< >>, x) = <<x>>
         /\ <<x>> # << >> /\ Head(<<x>>) = x /\ Len(<<x>>) = 1
         /\ <<x, y>> # << >> /\ Head(<<x, y>>) = x /\ Tail(<<x, y>>) = <<y>> /\ Len(<<x, y>>) = 2
         /\ <<x, y>>[1] = x /\ <<x, y>>[2] = y /\ <<x>>[1] = x
  OBVIOUS

LEMMA ShortMembers ==
  ASSUME NEW x, NEW y, NEW b
  PROVE  /\ On(<<x>>, b) <=> b = x
         /\ On(<<x, y>>, b) <=> b = x \/ b = y
  BY OneOrTwo DEF On

LEMMA Channels ==
  ASSUME TypeOK
  PROVE  /\ ic \in {0, 1} /\ 1 - ic \in {0, 1} /\ 1 - ic # ic /\ 1 - (1 - ic) = ic
         /\ Oldest \in {0, 1} /\ 1 - Oldest \in {0, 1} /\ 1 - Oldest # Oldest /\ 1 - (1 - Oldest) = Oldest
         /\ 0 .. 1 = {0, 1}
         /\ chan \in [{0, 1} -> DMA_CHAN]
  BY DEF TypeOK, LoopTypeOK, DmacTypeOK, Oldest

LEMMA BothFly ==
  ASSUME TypeOK, NEW f \in {Oldest, ic}, INFLIGHT = <<chan[f].hbm, chan[1 - f].hbm>>
  PROVE  \A c \in 0 .. 1 : On(INFLIGHT, chan[c].hbm)
  <1> TAKE c \in 0 .. 1
  <1>1. c = f \/ c = 1 - f
    BY Channels
  <1>2. \A x, y : On(<<x, y>>, x) /\ On(<<x, y>>, y)
    BY ShortMembers
  <1>3. QED
    BY <1>1, <1>2, Zenon

LEMMA FlightStep ==
  ASSUME TypeOK, PhaseInv, QuietInv, FlightInv, [Next]_vars
  PROVE  FlightInv'
  <1>1. ASSUME NEW c \in Clients, Client(c) PROVE FlightInv'
    <2>1. /\ UNCHANGED <<chan, ic, lhbm>>
          /\ lpc' = lpc \/ (cpc[c] = "kthread_run" /\ lpc \in {"none", "exited"} /\ lpc' = "prime0")
          /\ \/ INFLIGHT' = INFLIGHT
             \/ cpc[c] \in {"empty_inflight", "move_inflight"} /\ INFLIGHT' = << >>
      BY <1>1, ClientFrame DEF dmac
    <2>2. cpc[c] \in {"empty_inflight", "move_inflight"} => lpc \in {"none", "exited"}
      BY DEF PhaseInv, Before, After
    <2>3. cpc[c] = "kthread_run" => INFLIGHT = << >>
      BY DEF QuietInv, Before
    <2>4. CASE lpc' = lpc /\ INFLIGHT' = INFLIGHT
      BY <2>1, <2>4, Zenon DEF FlightInv, Oldest
    <2>5. CASE lpc' = lpc /\ lpc \in {"none", "exited"}
      BY <2>1, <2>5 DEF FlightInv, Both, Between
    <2>6. CASE cpc[c] = "kthread_run" /\ lpc \in {"none", "exited"} /\ lpc' = "prime0"
      BY <2>1, <2>3, <2>6 DEF FlightInv, Both, Between
    <2>7. QED
      BY <2>1, <2>2, <2>4, <2>5, <2>6
  <1>2. CASE DataLoop
    <2> USE DEF LoopAt, loop, lists
    <2>1. CASE PrimeFirst
      BY <2>1, OneOrTwo DEF PrimeFirst, getEmpty, FlightInv, Both, Between, dmac
    <2>2. CASE PrimeSecond
      <3>1. INFLIGHT' = <<chan'[0].hbm, chan'[1].hbm>>
        <4>1. chan'[0].hbm = lhbm /\ chan'[1].hbm = Head(EMPTIES)
          BY <2>2 DEF PrimeSecond
        <4>2. INFLIGHT' = Append(<<lhbm>>, Head(EMPTIES))
          BY <2>2 DEF PrimeSecond, getEmpty, FlightInv
        <4>3. QED
          BY <4>1, <4>2, AppendSecond
      <3>2. lpc' = "activate" /\ Oldest' = 0
        BY <2>2 DEF PrimeSecond, Oldest
      <3>3. QED
        BY <3>1, <3>2 DEF FlightInv, Both, Between
    <2>3. CASE PrimeNone \/ PullListHead
      BY <2>3, Zenon DEF PrimeNone, PullListHead, Undefined, FlightInv, Oldest, dmac
    <2>4. CASE \/ Activate \/ LoopTop \/ DmaReady \/ DmaTimeout \/ Decrement \/ SyncWait \/ SyncTimeout
      <3>1. UNCHANGED <<INFLIGHT, chan>> /\ lpc \in Both
        BY <2>4 DEF Activate, LoopTop, DmaReady, DmaTimeout, Decrement, SyncWait, SyncTimeout, dmac, Both
      <3>2. lpc' = "quit" \/ (lpc' \in {"top", "wait", "dec", "sync", "putfull"} /\ Oldest' = Oldest)
        BY <2>4 DEF Activate, LoopTop, DmaReady, DmaTimeout, Decrement, SyncWait, SyncTimeout, Oldest
      <3>3. lpc' = "putfull" => chan[ic'].complete
        BY <2>4 DEF Activate, LoopTop, DmaReady, DmaTimeout, Decrement, SyncWait, SyncTimeout
      <3>4. INFLIGHT = <<chan[Oldest].hbm, chan[1 - Oldest].hbm>>
        BY <3>1 DEF FlightInv
      <3>5. \A c \in 0 .. 1 : On(INFLIGHT, chan[c].hbm)
        BY <3>4, BothFly
      <3>6. QED
        BY <3>1, <3>2, <3>3, <3>4, <3>5 DEF FlightInv, Both, Between
    <2>5. CASE PutFull
      <3>1. INFLIGHT = <<chan[ic].hbm, chan[1 - ic].hbm>> /\ chan[ic].complete
        BY <2>5 DEF PutFull, FlightInv, Both, Oldest
      <3>2. INFLIGHT' = <<chan[1 - ic].hbm>> /\ UNCHANGED <<chan, ic>> /\ lpc' = "getempty"
        BY <2>5, <3>1, OneOrTwo DEF PutFull, putFull, dmac
      <3>3. QED
        BY <3>1, <3>2 DEF FlightInv, Both, Between
    <2>6. CASE PutFullNone
      BY <2>6, OneOrTwo DEF PutFullNone, FlightInv, Both, Oldest
    <2>7. CASE GetEmpty \/ PullRefill
      <3>1. INFLIGHT = <<chan[1 - ic].hbm>> /\ chan[ic].complete
        BY <2>7 DEF GetEmpty, PullRefill, FlightInv, Between
      <3>2. UNCHANGED <<chan, ic>> /\ lpc' = "issue" /\ INFLIGHT' = Append(INFLIGHT, lhbm')
        BY <2>7 DEF GetEmpty, PullRefill, getEmpty, getEmptyFromRefills, dmac
      <3>3. QED
        BY <3>1, <3>2, AppendSecond DEF FlightInv, Both, Between
    <2>8. CASE GetEmptyNone \/ TestPull
      <3>1. INFLIGHT = <<chan[1 - ic].hbm>> /\ chan[ic].complete
        BY <2>8 DEF GetEmptyNone, TestPull, FlightInv, Between
      <3>2. UNCHANGED <<INFLIGHT, chan, ic>> /\ lpc' \in {"refills", "pull", "quit"}
        BY <2>8 DEF GetEmptyNone, TestPull, dmac
      <3>3. \A c \in 0 .. 1 : ~chan[c].complete => On(INFLIGHT, chan[c].hbm)
        BY <3>1, Channels, ShortMembers
      <3>4. QED
        BY <3>1, <3>2, <3>3 DEF FlightInv, Both, Between
    <2>9. CASE Issue
      <3>1. INFLIGHT = <<chan[1 - ic].hbm, lhbm>>
        BY <2>9 DEF Issue, FlightInv
      <3>2. /\ chan'[ic].hbm = lhbm /\ chan'[1 - ic] = chan[1 - ic] /\ UNCHANGED <<INFLIGHT, ic>>
            /\ lpc' = "fifo"
        BY <2>9, Channels DEF Issue
      <3>3. Oldest' = 1 - ic /\ 1 - Oldest' = ic
        BY <3>2, Channels DEF Oldest
      <3>4. QED
        BY <3>1, <3>2, <3>3 DEF FlightInv, Both, Between
    <2>10. CASE FifoOK \/ FifoError \/ CountRefills \/ DrainRefills
      <3>1. UNCHANGED <<INFLIGHT, chan>> /\ lpc \in Both
        BY <2>10 DEF FifoOK, FifoError, CountRefills, DrainRefills, moveRefillsToEmpty, dmac, Both
      <3>2. lpc' = "quit" \/ (lpc' \in {"top", "depth", "drain"} /\ Oldest' = Oldest)
        BY <2>10 DEF FifoOK, FifoError, CountRefills, DrainRefills, Oldest
      <3>3. INFLIGHT = <<chan[Oldest].hbm, chan[1 - Oldest].hbm>>
        BY <3>1 DEF FlightInv
      <3>4. \A c \in 0 .. 1 : On(INFLIGHT, chan[c].hbm)
        BY <3>3, BothFly
      <3>5. QED
        BY <3>1, <3>2, <3>3, <3>4 DEF FlightInv, Both, Between
    <2>11. CASE Terminate
      BY <2>11 DEF Terminate, Idle, FlightInv, Both, Between
    <2>12. CASE Deactivate
      BY <2>12 DEF Deactivate, FlightInv, Both, Between, dmac
    <2>13. QED
      BY <1>2, <2>1, <2>2, <2>3, <2>4, <2>5, <2>6, <2>7, <2>8, <2>9, <2>10, <2>11, <2>12 DEF DataLoop
  <1>3. ASSUME NEW c \in 0 .. 1, Transfer(c) PROVE FlightInv'
    <2>1. UNCHANGED <<lpc, ic, lhbm, INFLIGHT>>
      BY <1>3 DEF Transfer, loop, lists
    <2>2. \A d \in 0 .. 1 : chan'[d].hbm = chan[d].hbm /\ (chan[d].complete => chan'[d].complete)
      BY <1>3, Channels DEF Transfer
    <2>3. Oldest' = Oldest
      BY <2>1 DEF Oldest
    <2>4. QED
      BY <2>1, <2>2, <2>3, Channels DEF FlightInv
  <1>4. CASE DmaCallback \/ DmaCallbackRace \/ MonitorStop
    <2>1. UNCHANGED <<INFLIGHT, chan, ic, lhbm>> /\ (lpc' = lpc \/ (lpc = "dec" /\ lpc' \in {"quit", "sync"}))
      BY <1>4 DEF DmaCallback, DmaCallbackRace, MonitorStop, lists, dmac, loop, LoopAt
    <2>2. CASE lpc' = lpc
      BY <2>1, <2>2, Zenon DEF FlightInv, Oldest
    <2>3. CASE lpc = "dec" /\ lpc' \in {"quit", "sync"}
      <3>1. INFLIGHT = <<chan[ic].hbm, chan[1 - ic].hbm>>
        BY <2>3 DEF FlightInv, Both, Oldest
      <3>2. \A c \in 0 .. 1 : On(INFLIGHT, chan[c].hbm)
        BY <3>1, BothFly
      <3>3. QED
        BY <2>1, <2>3, <3>1, <3>2 DEF FlightInv, Both, Between, Oldest
    <2>4. QED
      BY <2>1, <2>2, <2>3
  <1>5. CASE Done \/ UNCHANGED vars
    <2>1. UNCHANGED <<INFLIGHT, chan, ic, lhbm, lpc>>
      BY <1>5 DEF Done, vars, lists, dmac, loop
    <2>2. QED
      BY <2>1, Zenon DEF FlightInv, Oldest
  <1>6. QED
    BY <1>1, <1>2, <1>3, <1>4, <1>5 DEF Next, Environment

\* A transfer that is not complete has a buffer in flight.
LEMMA TargetsFly ==
  ASSUME TypeOK, ListsInv, FlightInv, NEW c \in 0 .. 1, ~chan[c].complete
  PROVE  On(INFLIGHT, chan[c].hbm) /\ chan[c].hbm \in HBM /\ bstate[chan[c].hbm] = "BS_FILLING"
  <1>1. On(INFLIGHT, chan[c].hbm)
    <2>1. lpc \in Both \cup Between \cup {"quit"}
      BY DEF FlightInv
    <2>2. CASE lpc \in Both
      BY <2>2, BothFly DEF FlightInv
    <2>3. CASE lpc \in Between
      <3>1. c = 1 - ic
        BY <2>3, Channels DEF FlightInv
      <3>2. INFLIGHT = <<chan[1 - ic].hbm>> \/ INFLIGHT = <<chan[1 - ic].hbm, lhbm>>
        BY <2>3 DEF FlightInv
      <3>3. \A x, y : On(<<x>>, x) /\ On(<<x, y>>, x)
        BY ShortMembers
      <3>4. QED
        BY <3>1, <3>2, <3>3, Zenon
    <2>4. CASE lpc = "quit"
      BY <2>4 DEF FlightInv
    <2>5. QED
      BY <2>1, <2>2, <2>3, <2>4
  <1>2. QED
    BY <1>1 DEF On, ListsInv, ListsTypeOK, BuffersConserved, InState

\* Only priming the DMAC finds an event latched, and it is never taken back.
LEMMA StaleStays ==
  ASSUME [Next]_vars
  PROVE  (stale => stale') /\ (stale' => stale \/ PrimeSecond)
  <1> USE DEF ghost
  <1>1. ASSUME NEW c \in Clients, Client(c) PROVE stale' = stale
    <2>1. CASE \/ OpenDevice(c) \/ EmptyRefills(c) \/ EmptyInflight(c) \/ SortEmpties(c) \/ OnStartInterrupted(c)
               \/ ResetAggregator(c) \/ StartDmaRefused(c) \/ StartDma(c)
               \/ RunThreads(c) \/ SeenActive(c) \/ PollGivesUp(c) \/ EnableAggregator(c)
      BY <2>1, Zenon DEF OpenDevice, EmptyRefills, EmptyInflight, SortEmpties, OnStartInterrupted,
                  ResetAggregator, StartDmaRefused, StartDma, RunThreads,
                  SeenActive, PollGivesUp, EnableAggregator, Undefined
    <2>2. CASE \/ OnStart(c) \/ Read(c) \/ PutEmpty(c) \/ BacklogDone(c) \/ TestRefills(c)
               \/ WaitRefill(c) \/ Interrupted(c) \/ TakeFull(c)
      BY <2>2, Zenon DEF OnStart, Read, PutEmpty, BacklogDone, TestRefills, WaitRefill, Interrupted, TakeFull
    <2>3. CASE \/ Release(c) \/ TestTaskActive(c) \/ KthreadStop(c) \/ Join(c)
               \/ StopMonitor(c) \/ ForgetTask(c) \/ MoveOpens(c) \/ MoveRefills(c) \/ FinishRelease(c)
      BY <2>3, Zenon DEF Release, TestTaskActive, KthreadStop, Join, StopMonitor, ForgetTask,
                  MoveOpens, MoveRefills, FinishRelease
    <2>4. CASE SortRaces(c) \/ PutEmptyNone(c) \/ TakeListHead(c) \/ KthreadStopGone(c)
      BY <2>4 DEF SortRaces, PutEmptyNone, TakeListHead, KthreadStopGone, Undefined
    <2>5. QED
      BY <1>1, <2>1, <2>2, <2>3, <2>4 DEF Client, ClientInternal
  <1>2. CASE DataLoop /\ ~PrimeSecond
    <2>1. CASE \/ PrimeFirst \/ Activate \/ LoopTop \/ DmaReady \/ DmaTimeout
               \/ Decrement \/ SyncWait \/ SyncTimeout \/ PutFull \/ PutFullNone
      BY <2>1 DEF PrimeFirst, Activate, LoopTop, DmaReady, DmaTimeout,
                  Decrement, SyncWait, SyncTimeout, PutFull, PutFullNone
    <2>2. CASE \/ GetEmpty \/ GetEmptyNone \/ TestPull \/ PullRefill \/ Issue \/ DrainRefills
               \/ FifoOK \/ FifoError \/ CountRefills \/ Terminate \/ Deactivate
      BY <2>2 DEF GetEmpty, GetEmptyNone, TestPull, PullRefill, Issue, DrainRefills,
                  FifoOK, FifoError, CountRefills, Terminate, Deactivate
    <2>3. CASE PrimeNone \/ PullListHead
      BY <2>3 DEF PrimeNone, PullListHead, Undefined
    <2>4. QED
      BY <1>2, <2>1, <2>2, <2>3 DEF DataLoop
  <1>3. CASE PrimeSecond
    BY <1>3 DEF PrimeSecond
  <1>4. ASSUME NEW c \in 0 .. 1, Transfer(c) PROVE stale' = stale
    BY <1>4 DEF Transfer
  <1>5. CASE DmaCallback \/ DmaCallbackRace \/ MonitorStop \/ Done \/ UNCHANGED vars
    BY <1>5 DEF DmaCallback, DmaCallbackRace, MonitorStop, Done, vars
  <1>6. QED
    BY <1>1, <1>2, <1>3, <1>4, <1>5 DEF Next, Environment

LEMMA TurnsStep ==
  ASSUME TypeOK, FlightInv, TurnsInv, ~stale', [Next]_vars
  PROVE  TurnsInv'
  <1>1. ASSUME NEW c \in Clients, Client(c) PROVE TurnsInv'
    <2>1. /\ UNCHANGED <<chan, event, ic>>
          /\ lpc' = lpc \/ (lpc \in {"none", "exited"} /\ lpc' = "prime0")
      BY <1>1, ClientFrame DEF dmac
    <2>2. CASE lpc' = lpc
      BY <2>1, <2>2, Zenon DEF TurnsInv, Oldest
    <2>3. CASE lpc \in {"none", "exited"} /\ lpc' = "prime0"
      BY <2>1, <2>3 DEF TurnsInv, Both, Between
    <2>4. QED
      BY <2>1, <2>2, <2>3
  <1>2. CASE DataLoop
    <2> USE DEF LoopAt, loop
    <2>1. CASE \/ PrimeFirst \/ PrimeNone \/ PullListHead
      <3>1. UNCHANGED <<chan, event, ic>> /\ (lpc' = lpc \/ (lpc = "prime0" /\ lpc' = "prime1"))
        BY <2>1 DEF PrimeFirst, PrimeNone, PullListHead, Undefined, dmac
      <3>2. CASE lpc' = lpc
        BY <3>1, <3>2, Zenon DEF TurnsInv, Oldest
      <3>3. CASE lpc = "prime0" /\ lpc' = "prime1"
        BY <3>1, <3>3 DEF TurnsInv, Both, Between
      <3>4. QED
        BY <3>1, <3>2, <3>3
    <2>2. CASE PrimeSecond
      <3>0. ~event[0] /\ ~event[1]
        BY <2>2, Zenon DEF PrimeSecond
      <3>1. /\ lpc' = "activate" /\ event' = event /\ ~event[0] /\ ~event[1]
            /\ Oldest' = 0 /\ 1 - Oldest' = 1
        BY <2>2, <3>0 DEF PrimeSecond, Oldest
      <3>2. ~chan'[0].complete /\ ~chan'[1].complete
        BY <2>2 DEF PrimeSecond
      <3>3. chan'[1].wait
        <4>1. chan'[1].wait = (1 = 1)
          BY <2>2 DEF PrimeSecond
        <4>2. QED
          BY <4>1, Zenon
      <3>4. QED
        BY <3>1, <3>2, <3>3 DEF TurnsInv, Both, Between
    <2>3. CASE \/ Activate \/ LoopTop \/ DmaReady \/ DmaTimeout \/ Decrement \/ SyncWait \/ SyncTimeout
      <3>1. UNCHANGED <<chan, event>> /\ lpc \in Both
        BY <2>3 DEF Activate, LoopTop, DmaReady, DmaTimeout, Decrement, SyncWait, SyncTimeout, dmac, Both
      <3>2. lpc' = "quit" \/ (lpc' \in Both /\ Oldest' = Oldest)
        BY <2>3 DEF Activate, LoopTop, DmaReady, DmaTimeout, Decrement, SyncWait, SyncTimeout, Oldest, Both
      <3>3. QED
        BY <3>1, <3>2 DEF TurnsInv, Both, Between
    <2>4. CASE \/ PutFull \/ PutFullNone \/ GetEmpty \/ GetEmptyNone \/ TestPull \/ PullRefill
      <3>1. UNCHANGED <<chan, event>> /\ lpc \in Both \cup Between
        BY <2>4 DEF PutFull, PutFullNone, GetEmpty, GetEmptyNone, TestPull, PullRefill, dmac, Both, Between
      <3>2. lpc' = "quit" \/ (lpc' \in Between /\ Oldest' = Oldest)
        BY <2>4 DEF PutFull, PutFullNone, GetEmpty, GetEmptyNone, TestPull, PullRefill, Oldest, Between
      <3>3. QED
        BY <3>1, <3>2 DEF TurnsInv, Both, Between
    <2>5. CASE Issue
      <3>1. /\ ~chan'[ic].complete /\ chan'[ic].wait /\ chan'[1 - ic] = chan[1 - ic]
            /\ UNCHANGED <<event, ic>> /\ lpc' = "fifo"
        BY <2>5, Channels DEF Issue
      <3>2. chan[ic].complete /\ Oldest = ic /\ lpc \in Between
        BY <2>5 DEF Issue, FlightInv, Oldest, Between
      <3>3. Oldest' = 1 - ic /\ 1 - Oldest' = ic
        BY <3>1, Channels DEF Oldest
      <3>4. /\ chan[1 - ic].wait
            /\ ~chan[1 - ic].complete => ~event[ic]
            /\ chan[1 - ic].complete => ~event[1 - ic]
        BY <3>2 DEF TurnsInv
      <3>5. QED
        BY <3>1, <3>3, <3>4 DEF TurnsInv, Both, Between
    <2>6. CASE FifoOK \/ FifoError \/ CountRefills \/ DrainRefills
      <3>1. UNCHANGED <<chan, event>> /\ lpc \in Both
        BY <2>6 DEF FifoOK, FifoError, CountRefills, DrainRefills, dmac, Both
      <3>2. lpc' = "quit" \/ (lpc' \in Both /\ Oldest' = Oldest)
        BY <2>6 DEF FifoOK, FifoError, CountRefills, DrainRefills, Oldest, Both
      <3>3. QED
        BY <3>1, <3>2 DEF TurnsInv, Both, Between
    <2>7. CASE Terminate
      BY <2>7 DEF Terminate, TurnsInv, Both, Between
    <2>8. CASE Deactivate
      BY <2>8 DEF Deactivate, TurnsInv, Both, Between, dmac
    <2>9. QED
      BY <1>2, <2>1, <2>2, <2>3, <2>4, <2>5, <2>6, <2>7, <2>8 DEF DataLoop
  <1>3. ASSUME NEW c \in 0 .. 1, Transfer(c) PROVE TurnsInv'
    <2>1. UNCHANGED <<lpc, ic>> /\ Oldest' = Oldest
      BY <1>3 DEF Transfer, loop, Oldest
    <2>2. /\ chan'[c].complete /\ chan'[c].wait = chan[c].wait /\ chan'[1 - c] = chan[1 - c]
          /\ event'[1 - c] = TRUE /\ event'[c] = (event[c] /\ ~chan[c].wait)
      BY <1>3, Channels DEF Transfer, TypeOK, DmacTypeOK
    <2>3. ~chan[c].complete /\ (chan[c].wait => event[c])
      BY <1>3 DEF Transfer
    <2>4. lpc \in Both \cup Between \cup {"quit"}
      BY <2>3 DEF FlightInv
    <2>5. CASE lpc = "quit"
      BY <2>1, <2>5 DEF TurnsInv, Both, Between
    <2>6. CASE lpc \in Both \cup Between /\ c = Oldest
      <3>1. chan[1 - c].wait /\ ~chan[1 - c].complete /\ (chan[c].wait \/ ~event[c])
        BY <2>3, <2>6 DEF TurnsInv
      <3>2. ~event'[c] /\ ~chan'[1 - c].complete /\ chan'[1 - c].wait
        BY <2>2, <3>1
      <3>3. QED
        BY <2>1, <2>2, <2>6, <3>2 DEF TurnsInv
    <2>7. CASE lpc \in Both \cup Between /\ c = 1 - Oldest
      <3>1. chan[c].wait /\ chan[Oldest].complete
        BY <2>3, <2>7 DEF TurnsInv
      <3>2. ~event'[c] /\ chan'[Oldest].complete /\ chan'[c].complete /\ chan'[c].wait
        BY <2>2, <2>7, <3>1, Channels
      <3>3. QED
        BY <2>1, <2>7, <3>2 DEF TurnsInv
    <2>8. QED
      BY <2>4, <2>5, <2>6, <2>7, Channels
  <1>4. CASE DmaCallback \/ DmaCallbackRace \/ MonitorStop
    <2>1. UNCHANGED <<chan, event, ic>> /\ (lpc' = lpc \/ (lpc = "dec" /\ lpc' \in {"quit", "sync"}))
      BY <1>4 DEF DmaCallback, DmaCallbackRace, MonitorStop, dmac, loop, LoopAt
    <2>2. CASE lpc' = lpc
      BY <2>1, <2>2, Zenon DEF TurnsInv, Oldest
    <2>3. CASE lpc = "dec" /\ lpc' \in {"quit", "sync"}
      BY <2>1, <2>3 DEF TurnsInv, Both, Between, Oldest
    <2>4. QED
      BY <2>1, <2>2, <2>3
  <1>5. CASE Done \/ UNCHANGED vars
    <2>1. UNCHANGED <<chan, event, ic, lpc>>
      BY <1>5 DEF Done, vars, dmac, loop
    <2>2. QED
      BY <2>1, Zenon DEF TurnsInv, Oldest
  <1>6. QED
    BY <1>1, <1>2, <1>3, <1>4, <1>5 DEF Next, Environment

----------------------------------------------------------------------------

LEMMA TailRises ==
  ASSUME NEW f \in [HBM -> Nat], NEW q \in Seq(HBM), q # << >>, Rising(f, q), NEW n
  PROVE  /\ Tail(q) \in Seq(HBM)
         /\ Rising(f, Tail(q)) /\ AllAbove(f, Tail(q), f[Head(q)])
         /\ AllAbove(f, q, n) => AllAbove(f, Tail(q), n)
         /\ AllBelow(f, q, n) => f[Head(q)] < n /\ AllBelow(f, Tail(q), n)
  <1>1. /\ Len(q) \in Nat /\ Len(q) >= 1 /\ Head(q) = q[1]
        /\ Len(Tail(q)) = Len(q) - 1
        /\ \A i \in 1 .. Len(q) - 1 : Tail(q)[i] = q[i + 1]
    BY HeadTailFacts
  <1>2. Rising(f, Tail(q))
    BY <1>1 DEF Rising
  <1>3. AllAbove(f, Tail(q), f[Head(q)])
    BY <1>1 DEF Rising, AllAbove
  <1>4. AllAbove(f, q, n) => AllAbove(f, Tail(q), n)
    BY <1>1 DEF AllAbove
  <1>5. AllBelow(f, q, n) => f[Head(q)] < n /\ AllBelow(f, Tail(q), n)
    BY <1>1 DEF AllBelow
  <1>6. QED
    BY <1>2, <1>3, <1>4, <1>5, HeadTailFacts

LEMMA AppendRises ==
  ASSUME NEW f \in [HBM -> Nat], NEW q \in Seq(HBM), NEW b \in HBM, Rising(f, q),
         AllBelow(f, q, f[b]), NEW n \in Nat
  PROVE  /\ Rising(f, Append(q, b))
         /\ AllAbove(f, q, n) /\ n < f[b] => AllAbove(f, Append(q, b), n)
         /\ f[b] < n => AllBelow(f, Append(q, b), n)
  <1>1. /\ Len(q) \in Nat /\ Len(Append(q, b)) = Len(q) + 1
        /\ \A i \in 1 .. Len(q) : Append(q, b)[i] = q[i] /\ q[i] \in HBM
        /\ Append(q, b)[Len(q) + 1] = b
    BY AppendFacts
  <1>2. \A i \in 1 .. Len(q) + 1 : i \in 1 .. Len(q) \/ i = Len(q) + 1
    BY <1>1
  <1>3. Rising(f, Append(q, b))
    BY <1>1, <1>2 DEF Rising, AllBelow
  <1>4. AllAbove(f, q, n) /\ n < f[b] => AllAbove(f, Append(q, b), n)
    BY <1>1, <1>2 DEF AllAbove
  <1>5. f[b] < n => AllBelow(f, Append(q, b), n)
    BY <1>1, <1>2 DEF AllBelow
  <1>6. QED
    BY <1>3, <1>4, <1>5

LEMMA EmptyRises ==
  ASSUME NEW f, NEW n
  PROVE  Rising(f, << >>) /\ AllAbove(f, << >>, n) /\ AllBelow(f, << >>, n)
  BY DEF Rising, AllAbove, AllBelow

\* Buffers go from the head of REFILLS, and no transfer completes.
LEMMA BlocksGo ==
  ASSUME TypeOK, BlocksInv, UNCHANGED <<content, block, delivered>>,
         REFILLS' = REFILLS \/ REFILLS' = << >> \/ (REFILLS # << >> /\ REFILLS' = Tail(REFILLS)),
         Filled' \subseteq Filled, \A c \in Filled' : chan'[c].hbm = chan[c].hbm,
         Filled' = 0 .. 1 => UNCHANGED <<chan, Oldest>>
  PROVE  BlocksInv'
  <1>1. content \in [HBM -> Nat] /\ REFILLS \in Seq(HBM)
    BY DEF TypeOK, DmacTypeOK, ListsTypeOK
  <1>2. Rising(content, REFILLS) /\ AllAbove(content, REFILLS, delivered)
    BY DEF BlocksInv
  <1>3. Rising(content, REFILLS') /\ AllAbove(content, REFILLS', delivered)
    BY <1>1, <1>2, TailRises, EmptyRises
  <1>4. ASSUME NEW c \in Filled'
        PROVE  /\ delivered < content[chan'[c].hbm]
               /\ AllBelow(content, REFILLS', content[chan'[c].hbm])
    <2>1. delivered < content[chan[c].hbm] /\ AllBelow(content, REFILLS, content[chan[c].hbm])
      BY <1>4 DEF BlocksInv
    <2>2. AllBelow(content, REFILLS', content[chan[c].hbm])
      BY <1>1, <1>2, <2>1, TailRises, EmptyRises
    <2>3. QED
      BY <1>4, <2>1, <2>2
  <1>5. Filled' = 0 .. 1 => content[chan'[Oldest'].hbm] < content[chan'[1 - Oldest'].hbm]
    <2> SUFFICES ASSUME Filled' = 0 .. 1 PROVE content[chan[Oldest].hbm] < content[chan[1 - Oldest].hbm]
      OBVIOUS
    <2>1. Filled = 0 .. 1
      BY DEF Filled
    <2>2. QED
      BY <2>1 DEF BlocksInv
  <1>6. QED
    BY <1>3, <1>4, <1>5 DEF BlocksInv

LEMMA BlocksTake ==
  ASSUME TypeOK, BlocksInv, ~stale, NEW k \in Clients, TakeFull(k)
  PROVE  BlocksInv'
  <1>1. content \in [HBM -> Nat] /\ REFILLS \in Seq(HBM)
    BY DEF TypeOK, DmacTypeOK, ListsTypeOK
  <1>2. /\ REFILLS # << >> /\ REFILLS' = Tail(REFILLS) /\ delivered' = content[Head(REFILLS)]
        /\ UNCHANGED <<content, block, chan, ic, lpc>>
    BY DEF TakeFull, getFull, dmac, loop
  <1>3. Filled' = Filled /\ Oldest' = Oldest
    BY <1>2, Zenon DEF Filled, Oldest
  <1>4. Rising(content, REFILLS)
    BY DEF BlocksInv
  <1>5. Rising(content, REFILLS') /\ AllAbove(content, REFILLS', delivered')
    BY <1>1, <1>2, <1>4, TailRises
  <1>6. ASSUME NEW c \in Filled
        PROVE  delivered' < content[chan[c].hbm] /\ AllBelow(content, REFILLS', content[chan[c].hbm])
    <2>1. AllBelow(content, REFILLS, content[chan[c].hbm])
      BY DEF BlocksInv
    <2>2. QED
      BY <1>1, <1>2, <1>4, <2>1, TailRises
  <1>7. delivered' <= block
    BY <1>1, <1>2, HeadTailFacts DEF BlocksInv
  <1>8. QED
    BY <1>2, <1>3, <1>5, <1>6, <1>7 DEF BlocksInv

LEMMA FlyingIsBuffer ==
  ASSUME TypeOK, FlightInv, lpc \in Both, NEW c \in 0 .. 1
  PROVE  chan[c].hbm \in HBM
  <1>1. On(INFLIGHT, chan[c].hbm)
    BY BothFly DEF FlightInv
  <1>2. QED
    BY <1>1 DEF On, TypeOK, ListsTypeOK

LEMMA BlocksPut ==
  ASSUME TypeOK, FlightInv, BlocksInv, PutFull
  PROVE  BlocksInv'
  <1> DEFINE b == chan[ic].hbm
  <1>1. content \in [HBM -> Nat] /\ REFILLS \in Seq(HBM) /\ delivered \in Nat
    BY DEF TypeOK, DmacTypeOK, ListsTypeOK, GhostTypeOK
  <1>2. /\ lpc = "putfull" /\ lpc' = "getempty"
        /\ UNCHANGED <<content, block, chan, ic, delivered>>
    BY DEF PutFull, dmac, LoopAt, ghost
  <1>3. Oldest = ic /\ Oldest' = ic
    BY <1>2 DEF Oldest
  <1>4. INFLIGHT = <<b, chan[1 - ic].hbm>> /\ chan[ic].complete
    BY <1>2, <1>3 DEF FlightInv, Both
  <1>5. REFILLS' = Append(REFILLS, b)
    BY <1>4, OneOrTwo DEF PutFull, putFull
  <1>6. b \in HBM /\ chan[1 - ic].hbm \in HBM
    BY <1>2, FlyingIsBuffer, Channels DEF Both
  <1>7. ic \in Filled
    BY <1>2, <1>4, Channels DEF Filled, Both
  <1>8. delivered < content[b] /\ AllBelow(content, REFILLS, content[b])
    BY <1>7 DEF BlocksInv
  <1> HIDE DEF b
  <1>9. Rising(content, REFILLS') /\ AllAbove(content, REFILLS', delivered)
    BY <1>1, <1>5, <1>6, <1>8, AppendRises DEF BlocksInv
  <1>10. Filled' = Filled \ {ic}
    BY <1>2 DEF Filled, Both, Between
  <1>11. ASSUME NEW c \in Filled'
         PROVE  delivered < content[chan[c].hbm] /\ AllBelow(content, REFILLS', content[chan[c].hbm])
    <2>1. c = 1 - ic /\ Filled = 0 .. 1
      BY <1>7, <1>10, <1>11, Channels DEF Filled
    <2>2. content[b] < content[chan[c].hbm]
      BY <1>3, <2>1 DEF BlocksInv, b
    <2>3. content[chan[c].hbm] \in Nat
      BY <1>1, <1>6, <2>1
    <2>4. AllBelow(content, REFILLS', content[chan[c].hbm])
      BY <1>1, <1>5, <1>6, <1>8, <2>2, <2>3, AppendRises DEF BlocksInv
    <2>5. delivered < content[chan[c].hbm]
      BY <1>10, <1>11 DEF BlocksInv
    <2>6. QED
      BY <2>4, <2>5
  <1>12. Filled' # 0 .. 1
    BY <1>10, Channels
  <1>13. QED
    BY <1>2, <1>9, <1>11, <1>12 DEF BlocksInv

LEMMA BlocksTransfer ==
  ASSUME TypeOK, ListsInv, FlightInv, TurnsInv, BlocksInv, NEW c \in 0 .. 1, Transfer(c)
  PROVE  BlocksInv'
  <1> DEFINE t == chan[c].hbm
  <1>1. /\ content \in [HBM -> Nat] /\ REFILLS \in Seq(HBM) /\ delivered \in Nat /\ block \in Nat
        /\ MaxBlocks \in Nat
    BY CaptureAssumption DEF TypeOK, DmacTypeOK, ListsTypeOK, GhostTypeOK
  <1>2. /\ ~chan[c].complete /\ block' = block + 1 /\ block < MaxBlocks
        /\ content' = [content EXCEPT ![t] = block + 1]
        /\ UNCHANGED <<lpc, ic, delivered, REFILLS>>
    BY DEF Transfer, loop, ghost, lists
  <1>3. chan'[c].hbm = t /\ chan'[c].complete /\ chan'[1 - c] = chan[1 - c] /\ 1 - c \in 0 .. 1 /\ 1 - c # c
    BY Channels DEF Transfer
  <1>4. Oldest' = Oldest
    BY <1>2 DEF Oldest
  <1>5. t \in HBM /\ bstate[t] = "BS_FILLING"
    BY <1>2, TargetsFly
  <1>6. \A i \in 1 .. Len(REFILLS) : REFILLS[i] \in HBM /\ REFILLS[i] # t
    BY <1>1, <1>5 DEF ListsInv, BuffersConserved, InState
  <1> HIDE DEF t
  <1>7. content'[t] = block + 1 /\ \A b \in HBM : b # t => content'[b] = content[b]
    BY <1>1, <1>2, <1>5
  <1>8. Rising(content', REFILLS') /\ AllAbove(content', REFILLS', delivered')
    BY <1>2, <1>6, <1>7 DEF BlocksInv, Rising, AllAbove
  <1>9. \A b \in HBM : content'[b] <= block'
    BY <1>1, <1>2, <1>7 DEF BlocksInv
  <1>10. delivered' < content'[t] /\ AllBelow(content', REFILLS', content'[t])
    BY <1>1, <1>2, <1>6, <1>7 DEF BlocksInv, AllBelow
  <1>11. ASSUME 1 - c \in Filled'
         PROVE  /\ lpc \in Both /\ 1 - c \in Filled /\ 1 - c = Oldest
                /\ chan[1 - c].hbm \in HBM /\ chan[1 - c].hbm # t
    <2>1. 1 - c \in Filled
      BY <1>2, <1>3, <1>11 DEF Filled
    <2>2. lpc \in Both
      BY <1>2, <2>1, Channels DEF Filled, FlightInv
    <2>3. 1 - c = Oldest /\ c = 1 - Oldest
      BY <1>2, <2>1, <2>2, Channels DEF Filled, TurnsInv
    <2>4. chan[1 - c].hbm \in HBM
      BY <1>3, <2>2, FlyingIsBuffer
    <2>5. INFLIGHT = <<chan[1 - c].hbm, t>>
      BY <2>2, <2>3 DEF FlightInv, t
    <2>6. NoRepeat(INFLIGHT)
      BY DEF ListsInv, BuffersConserved
    <2>7. chan[1 - c].hbm # t
      BY <2>5, <2>6, OneOrTwo DEF NoRepeat
    <2>8. QED
      BY <2>1, <2>2, <2>3, <2>4, <2>7
  <1>12. ASSUME 1 - c \in Filled'
         PROVE  /\ delivered' < content'[chan'[1 - c].hbm]
                /\ AllBelow(content', REFILLS', content'[chan'[1 - c].hbm])
                /\ content'[chan'[1 - c].hbm] < content'[t]
    <2> DEFINE u == chan[1 - c].hbm
    <2>1. chan'[1 - c].hbm = u /\ content'[u] = content[u] /\ u \in HBM
      BY <1>3, <1>7, <1>11, <1>12
    <2>2. delivered < content[u] /\ AllBelow(content, REFILLS, content[u])
      BY <1>11, <1>12 DEF BlocksInv
    <2> HIDE DEF u
    <2>3. AllBelow(content', REFILLS', content[u])
      BY <1>2, <1>6, <1>7, <2>2 DEF AllBelow
    <2>4. content[u] < block + 1
      BY <1>1, <2>1 DEF BlocksInv
    <2>5. QED
      BY <1>2, <1>7, <2>1, <2>2, <2>3, <2>4
  <1>13. ASSUME NEW d \in Filled'
         PROVE  delivered' < content'[chan'[d].hbm] /\ AllBelow(content', REFILLS', content'[chan'[d].hbm])
    <2>1. d = c \/ d = 1 - c
      BY <1>13, Channels DEF Filled
    <2>2. QED
      BY <1>3, <1>10, <1>12, <1>13, <2>1
  <1>14. Filled' = 0 .. 1 => content'[chan'[Oldest'].hbm] < content'[chan'[1 - Oldest'].hbm]
    <2> SUFFICES ASSUME Filled' = 0 .. 1
                 PROVE  content'[chan'[Oldest].hbm] < content'[chan'[1 - Oldest].hbm]
      BY <1>4
    <2>1. 1 - c \in Filled'
      BY <1>3
    <2>2. Oldest = 1 - c /\ 1 - Oldest = c
      BY <1>11, <2>1, Channels
    <2>3. QED
      BY <1>3, <1>12, <2>1, <2>2
  <1>15. delivered' <= block' /\ block' <= MaxBlocks
    BY <1>1, <1>2 DEF BlocksInv
  <1>16. QED
    BY <1>8, <1>9, <1>13, <1>14, <1>15 DEF BlocksInv

LEMMA BlocksStep ==
  ASSUME TypeOK, ListsInv, FlightInv, TurnsInv, BlocksInv, ~stale, [Next]_vars
  PROVE  BlocksInv'
  <1>1. ASSUME NEW c \in Clients, Client(c) PROVE BlocksInv'
    <2>1. /\ UNCHANGED <<content, block, chan, ic>>
          /\ lpc' = lpc \/ (lpc \in {"none", "exited"} /\ lpc' = "prime0")
          /\ \/ UNCHANGED <<REFILLS, delivered>>
             \/ REFILLS' = << >> /\ delivered' = delivered
             \/ TakeFull(c)
      BY <1>1, ClientFrame DEF dmac
    <2>2. CASE TakeFull(c)
      BY <2>2, BlocksTake
    <2>3. CASE ~TakeFull(c)
      <3>1. (lpc' = lpc /\ Filled' = Filled /\ Oldest' = Oldest) \/ Filled' = {}
        <4>1. CASE lpc' = lpc
          BY <2>1, <4>1, Zenon DEF Filled, Oldest
        <4>2. CASE lpc' = "prime0"
          BY <4>2 DEF Filled, Both, Between
        <4>3. QED
          BY <2>1, <4>1, <4>2
      <3>2. Filled' \subseteq Filled /\ (Filled' = 0 .. 1 => UNCHANGED <<chan, Oldest>>)
        BY <2>1, <3>1
      <3>3. UNCHANGED <<content, block, delivered>> /\ (REFILLS' = REFILLS \/ REFILLS' = << >>)
        BY <2>1, <2>3
      <3>4. QED
        BY <2>1, <3>2, <3>3, BlocksGo
    <2>4. QED
      BY <2>2, <2>3
  <1>2. CASE DataLoop /\ ~PutFull
    <2> USE DEF LoopAt, loop, lists, ghost
    <2>1. UNCHANGED <<content, block, delivered>>
      BY <1>2 DEF DataLoop, PrimeFirst, PrimeSecond, PrimeNone, Activate, LoopTop, DmaReady, DmaTimeout,
         Decrement, SyncWait, SyncTimeout, PutFullNone, GetEmpty, GetEmptyNone, TestPull,
         PullRefill, PullListHead, Issue, FifoOK, FifoError, CountRefills, DrainRefills,
         Terminate, Deactivate, Undefined, dmac
    <2>2. REFILLS' = REFILLS \/ REFILLS' = << >> \/ (REFILLS # << >> /\ REFILLS' = Tail(REFILLS))
      BY <1>2 DEF DataLoop, PrimeFirst, PrimeSecond, PrimeNone, Activate, LoopTop, DmaReady, DmaTimeout,
         Decrement, SyncWait, SyncTimeout, PutFullNone, GetEmpty, GetEmptyNone, TestPull,
         PullRefill, PullListHead, Issue, FifoOK, FifoError, CountRefills, DrainRefills,
         Terminate, Deactivate, Undefined, getEmpty, getEmptyFromRefills, moveRefillsToEmpty
    <2>3. \/ Filled' = {}
          \/ UNCHANGED <<chan, Oldest>> /\ Filled' \subseteq Filled
          \/ Issue
      <3>1. CASE \/ PrimeFirst \/ SyncTimeout \/ DmaTimeout \/ FifoError \/ Terminate \/ Deactivate
        BY <3>1 DEF PrimeFirst, SyncTimeout, DmaTimeout, FifoError, Terminate, Deactivate,
                    Filled, Both, Between
      <3>2. CASE PrimeSecond
        <4>1. ~chan'[0].complete /\ ~chan'[1].complete
          BY <3>2 DEF PrimeSecond
        <4>2. QED
          BY <4>1, Channels DEF Filled
      <3>3. CASE PrimeNone \/ PullListHead
        BY <3>3, Zenon DEF PrimeNone, PullListHead, Undefined, dmac, Filled, Oldest
      <3>4. CASE \/ Activate \/ LoopTop \/ DmaReady \/ Decrement \/ SyncWait \/ FifoOK \/ CountRefills
                 \/ DrainRefills
        <4>1. /\ UNCHANGED chan /\ lpc \in Both
              /\ lpc' = "quit" \/ (lpc' \in Both /\ Oldest' = Oldest)
          BY <3>4 DEF Activate, LoopTop, DmaReady, Decrement, SyncWait, FifoOK, CountRefills,
                      DrainRefills, dmac, Both, Oldest
        <4>2. QED
          BY <4>1 DEF Filled, Both, Between
      <3>5. CASE PutFullNone
        BY <3>5, OneOrTwo DEF PutFullNone, FlightInv, Both, Oldest
      <3>6. CASE GetEmpty \/ GetEmptyNone \/ TestPull \/ PullRefill
        <4>1. /\ UNCHANGED <<chan, ic>> /\ lpc \in Between /\ Oldest' = Oldest
              /\ lpc' = "quit" \/ lpc' \in Between
          BY <3>6 DEF GetEmpty, GetEmptyNone, TestPull, PullRefill, dmac, Between, Oldest
        <4>2. QED
          BY <4>1 DEF Filled, Both, Between
      <3>7. QED
        BY <1>2, <3>1, <3>2, <3>3, <3>4, <3>5, <3>6 DEF DataLoop
    <2>4. CASE Issue
      <3>1. /\ ~chan'[ic].complete /\ chan'[1 - ic] = chan[1 - ic] /\ ic' = ic
            /\ lpc = "issue" /\ lpc' = "fifo"
        BY <2>4, Channels DEF Issue
      <3>2. Filled' = (IF chan[1 - ic].complete THEN {1 - ic} ELSE {}) /\ Filled' = Filled
        BY <3>1, Channels DEF Filled, Both, Between
      <3>3. QED
        BY <2>1, <2>2, <3>1, <3>2, BlocksGo, Channels
    <2>5. CASE ~Issue
      <3>1. /\ Filled' \subseteq Filled
            /\ \A c \in Filled' : chan'[c].hbm = chan[c].hbm
            /\ Filled' = 0 .. 1 => UNCHANGED <<chan, Oldest>>
        BY <2>3, <2>5
      <3>2. QED
        BY <2>1, <2>2, <3>1, BlocksGo
    <2>6. QED
      BY <2>4, <2>5
  <1>3. CASE DmaCallback \/ DmaCallbackRace \/ MonitorStop \/ Done \/ UNCHANGED vars
    <2>1. UNCHANGED <<content, block, delivered, REFILLS, chan, ic>>
      BY <1>3 DEF DmaCallback, DmaCallbackRace, MonitorStop, Done, vars, lists, dmac, loop, ghost
    <2>2. lpc' = lpc \/ (lpc = "dec" /\ lpc' \in {"quit", "sync"})
      BY <1>3 DEF DmaCallback, DmaCallbackRace, MonitorStop, Done, vars, loop, LoopAt
    <2>3. CASE lpc' = lpc
      <3>1. Filled' = Filled /\ Oldest' = Oldest
        BY <2>1, <2>3, Zenon DEF Filled, Oldest
      <3>2. QED
        BY <2>1, <3>1, BlocksGo
    <2>4. CASE lpc = "dec" /\ lpc' \in {"quit", "sync"}
      <3>1. Filled' \subseteq Filled /\ Oldest' = Oldest
        BY <2>1, <2>4 DEF Filled, Oldest, Both, Between
      <3>2. QED
        BY <2>1, <3>1, BlocksGo
    <2>5. QED
      BY <2>2, <2>3, <2>4
  <1>4. QED
    BY <1>1, <1>2, <1>3, BlocksPut, BlocksTransfer DEF Next, Environment, DataLoop

----------------------------------------------------------------------------

ClientInv == PhaseInv /\ QuietInv /\ FlightInv /\ (~stale => TurnsInv /\ BlocksInv)

LEMMA ClientInit ==
  ASSUME Init
  PROVE  ClientInv
  <1> USE DEF Init, ListsInit
  <1>1. PhaseInv
    BY DEF PhaseInv, Active, LoopPc, Before, After
  <1>2. QuietInv
    BY DEF QuietInv
  <1>3. FlightInv
    BY DEF FlightInv, Both, Between, Idle
  <1>4. TurnsInv
    BY DEF TurnsInv, Both, Between
  <1>5. BlocksInv
    <2>1. Filled = {}
      BY DEF Filled, Both, Between
    <2>2. Rising(content, REFILLS) /\ AllAbove(content, REFILLS, delivered)
      BY EmptyRises
    <2>3. delivered <= block /\ block <= MaxBlocks /\ \A b \in HBM : content[b] <= block
      BY CaptureAssumption
    <2>4. QED
      BY <2>1, <2>2, <2>3 DEF BlocksInv
  <1>6. QED
    BY <1>1, <1>2, <1>3, <1>4, <1>5 DEF ClientInv

LEMMA ClientInvariant == OneClient => (Spec => [](TypeOK /\ ListsInv /\ ClientInv))
  <1> SUFFICES ASSUME OneClient PROVE Spec => [](TypeOK /\ ListsInv /\ ClientInv)
    OBVIOUS
  <1>1. Init => ClientInv
    BY ClientInit
  <1>2. TypeOK /\ ListsInv /\ ClientInv /\ [Next]_vars => ClientInv'
    BY PhaseStep, QuietStep, FlightStep, TurnsStep, BlocksStep, StaleStays DEF ClientInv
  <1>3. TypeOK /\ BuffersConserved => ListsInv
    BY DEF TypeOK, ListsInv
  <1>4. QED
    BY <1>1, <1>2, <1>3, CaptureTypeOK, CaptureConservesBuffers, PTL DEF Spec

\* The hardware only ever writes to a buffer that is in flight, for any number
\* of buffers, opens and blocks and whatever the module parameters: putFull()
\* of ai_data_loop() takes the head of INFLIGHT, and that is always the buffer
\* of the channel that dma_sync_wait() found complete.
THEOREM TransfersInFlight == OneClient => (Spec => []DmaTargetsInFlight)
  <1>1. TypeOK /\ ListsInv /\ ClientInv => DmaTargetsInFlight
    BY TargetsFly DEF DmaTargetsInFlight, ClientInv
  <1>2. QED
    BY <1>1, ClientInvariant, PTL

\* The data of a buffer never changes under the application that has it open:
\* no step, of any thread or of the hardware, writes to a buffer on OPENS.
THEOREM OpenDataStable == OneClient => (Spec => OpenBuffersStable)
  <1>1. ASSUME TypeOK, ListsInv, ClientInv, [Next]_vars
        PROVE  [\A b \in HBM : bstate[b] = "BS_FULL_APP" /\ bstate'[b] = "BS_FULL_APP"
                                 => content'[b] = content[b]]_vars
    <2>1. ASSUME NEW c \in 0 .. 1, Transfer(c), NEW b \in HBM, bstate[b] = "BS_FULL_APP"
          PROVE  content'[b] = content[b]
      <3>1. bstate[chan[c].hbm] = "BS_FILLING" /\ chan[c].hbm \in HBM
        BY <1>1, <2>1, TargetsFly DEF ClientInv, Transfer
      <3>2. QED
        BY <1>1, <2>1, <3>1 DEF Transfer, TypeOK, DmacTypeOK
    <2>2. ASSUME NEW c \in Clients, Client(c) PROVE content' = content
      BY <2>2, ClientFrame DEF dmac
    <2>3. CASE DataLoop
      BY <2>3 DEF DataLoop, PrimeFirst, PrimeSecond, PrimeNone, Activate, LoopTop, DmaReady,
         DmaTimeout, Decrement, SyncWait, SyncTimeout, PutFull, PutFullNone, GetEmpty, GetEmptyNone,
         TestPull, PullRefill, PullListHead, Issue, FifoOK, FifoError, CountRefills, DrainRefills,
         Terminate, Deactivate, Undefined, dmac
    <2>4. CASE DmaCallback \/ DmaCallbackRace \/ MonitorStop \/ Done \/ UNCHANGED vars
      BY <2>4 DEF DmaCallback, DmaCallbackRace, MonitorStop, Done, vars, dmac
    <2>5. QED
      BY <1>1, <2>1, <2>2, <2>3, <2>4 DEF Next, Environment
  <1>2. QED
    BY <1>1, ClientInvariant, PTL DEF Spec, OpenBuffersStable

----------------------------------------------------------------------------
(* The refinement.                                                         *)

\* The blocks that wait for the application, a queue of BlockStream.
Queue == BlocksOf(content, REFILLS)

\* What a step does to REFILLS, to the data in the buffers and to what was
\* delivered.
LEMMA RefillsMove ==
  ASSUME TypeOK, [Next]_vars
  PROVE  \/ UNCHANGED <<REFILLS, content, delivered>>
         \/ REFILLS' = << >> /\ UNCHANGED <<content, delivered>>
         \/ REFILLS # << >> /\ REFILLS' = Tail(REFILLS) /\ UNCHANGED <<content, delivered>>
         \/ \E c \in Clients : TakeFull(c)
         \/ PutFull
         \/ \E c \in 0 .. 1 : Transfer(c)
  <1> USE DEF lists, dmac, ghost
  <1>1. ASSUME NEW c \in Clients, Client(c), ~TakeFull(c)
        PROVE  (REFILLS' = REFILLS \/ REFILLS' = << >>) /\ UNCHANGED <<content, delivered>>
    BY <1>1, ClientFrame
  <1>2. CASE DataLoop /\ ~PutFull
    <2>1. UNCHANGED <<content, delivered>>
      BY <1>2 DEF DataLoop, PrimeFirst, PrimeSecond, PrimeNone, Activate, LoopTop, DmaReady, DmaTimeout,
         Decrement, SyncWait, SyncTimeout, PutFullNone, GetEmpty, GetEmptyNone, TestPull,
         PullRefill, PullListHead, Issue, FifoOK, FifoError, CountRefills, DrainRefills,
         Terminate, Deactivate, Undefined
    <2>2. REFILLS' = REFILLS \/ REFILLS' = << >> \/ (REFILLS # << >> /\ REFILLS' = Tail(REFILLS))
      BY <1>2 DEF DataLoop, PrimeFirst, PrimeSecond, PrimeNone, Activate, LoopTop, DmaReady, DmaTimeout,
         Decrement, SyncWait, SyncTimeout, PutFullNone, GetEmpty, GetEmptyNone, TestPull,
         PullRefill, PullListHead, Issue, FifoOK, FifoError, CountRefills, DrainRefills,
         Terminate, Deactivate, Undefined, getEmpty, getEmptyFromRefills, moveRefillsToEmpty
    <2>3. QED
      BY <2>1, <2>2
  <1>3. CASE DmaCallback \/ DmaCallbackRace \/ MonitorStop \/ Done \/ UNCHANGED vars
    BY <1>3 DEF DmaCallback, DmaCallbackRace, MonitorStop, Done, vars
  <1>4. QED
    BY <1>1, <1>2, <1>3 DEF Next, Environment, DataLoop

\* Up to the first capture that is primed with a latched event, a step of the
\* capture is a step of the stream of blocks, or changes nothing of it.
LEMMA StreamStep ==
  ASSUME TypeOK, ListsInv, ClientInv, ~stale, ~stale', [Next]_vars
  PROVE  [Stream!BSNext]_(Stream!bsvars)
  <1>1. /\ content \in [HBM -> Nat] /\ REFILLS \in Seq(HBM) /\ delivered \in Nat /\ block \in Nat
        /\ MaxBlocks \in Nat
    BY CaptureAssumption DEF TypeOK, DmacTypeOK, ListsTypeOK, GhostTypeOK
  <1>2. BlocksInv
    BY DEF ClientInv
  <1>3. Queue \in Seq(Nat) /\ Len(Queue) = Len(REFILLS) /\ \A i \in 1 .. Len(REFILLS) : Queue[i] = content[REFILLS[i]]
    BY <1>1, BlocksOfList DEF Queue
  <1>4. CASE Queue' = Queue /\ delivered' = delivered
    BY <1>4 DEF Stream!bsvars, Queue, BlocksOf
  <1>5. ASSUME NEW n \in 1 .. Len(Queue), Queue' = SubSeq(Queue, n + 1, Len(Queue)), delivered' = delivered
        PROVE  Stream!BSNext
    BY <1>5 DEF Stream!BSNext, Stream!Discard, Queue, BlocksOf
  <1>6. CASE UNCHANGED <<REFILLS, content, delivered>>
    BY <1>4, <1>6 DEF Queue
  <1>7. CASE REFILLS' = << >> /\ UNCHANGED <<content, delivered>>
    <2>1. Queue' = << >>
      BY <1>7, BlocksOfNone DEF Queue
    <2>2. CASE REFILLS = << >>
      BY <1>4, <1>7, <2>2 DEF Queue
    <2>3. CASE REFILLS # << >>
      <3>1. Len(Queue) \in 1 .. Len(Queue)
        BY <1>1, <1>3, <2>3
      <3>2. SubSeq(Queue, Len(Queue) + 1, Len(Queue)) = << >>
        BY <1>3
      <3>3. QED
        BY <1>5, <1>7, <2>1, <3>1, <3>2
    <2>4. QED
      BY <2>2, <2>3
  <1>8. CASE REFILLS # << >> /\ REFILLS' = Tail(REFILLS) /\ UNCHANGED <<content, delivered>>
    <2>1. Queue' = SubSeq(Queue, 2, Len(Queue))
      BY <1>1, <1>8, BlocksOfTail DEF Queue
    <2>2. 1 \in 1 .. Len(Queue) /\ 1 + 1 = 2
      BY <1>1, <1>3, <1>8
    <2>3. QED
      BY <1>5, <1>8, <2>1, <2>2
  <1>9. ASSUME NEW c \in Clients, TakeFull(c) PROVE Stream!BSNext
    <2>1. /\ REFILLS # << >> /\ REFILLS' = Tail(REFILLS) /\ content' = content
          /\ delivered' = content[Head(REFILLS)]
      BY <1>9 DEF TakeFull, getFull, dmac
    <2>2. Queue # << >> /\ delivered' = Head(Queue) /\ Queue' = Tail(Queue)
      BY <1>1, <2>1, BlocksOfTail DEF Queue
    <2>3. QED
      BY <2>2 DEF Stream!BSNext, Stream!Deliver, Queue, BlocksOf
  <1>10. CASE PutFull
    <2> DEFINE b == content[chan[ic].hbm]
    <2>1. lpc = "putfull" /\ content' = content /\ delivered' = delivered
      BY <1>10 DEF PutFull, LoopAt, dmac, ghost
    <2>2. INFLIGHT = <<chan[ic].hbm, chan[1 - ic].hbm>> /\ ic \in Filled /\ chan[ic].hbm \in HBM
      BY <2>1, Channels, FlyingIsBuffer DEF ClientInv, FlightInv, Both, Oldest, Filled
    <2>3. REFILLS' = Append(REFILLS, chan[ic].hbm)
      BY <1>10, <2>2, OneOrTwo DEF PutFull, putFull
    <2>4. Queue' = Append(Queue, b)
      BY <1>1, <2>1, <2>2, <2>3, BlocksOfAppend DEF Queue
    <2>5. delivered < b /\ b <= block /\ block <= MaxBlocks /\ AllBelow(content, REFILLS, b)
      BY <1>2, <2>2 DEF BlocksInv
    <2>6. b \in Nat
      BY <1>1, <2>2
    <2> HIDE DEF b
    <2>7. b \in 1 .. MaxBlocks /\ b > delivered /\ \A i \in 1 .. Len(Queue) : b > Queue[i]
      BY <1>1, <1>3, <2>5, <2>6 DEF AllBelow
    <2>8. QED
      BY <2>1, <2>4, <2>7 DEF Stream!BSNext, Stream!Acquire, Queue, BlocksOf
  <1>11. ASSUME NEW c \in 0 .. 1, Transfer(c) PROVE [Stream!BSNext]_(Stream!bsvars)
    <2>1. /\ UNCHANGED <<REFILLS, delivered>> /\ ~chan[c].complete
          /\ content' = [content EXCEPT ![chan[c].hbm] = block + 1]
      BY <1>11 DEF Transfer, lists, ghost
    <2>2. \A i \in 1 .. Len(REFILLS) : REFILLS[i] \in HBM /\ REFILLS[i] # chan[c].hbm
      BY <1>1, <2>1, TargetsFly DEF ClientInv, ListsInv, BuffersConserved, InState
    <2>3. \A i \in 1 .. Len(REFILLS) : content'[REFILLS[i]] = content[REFILLS[i]]
      BY <1>1, <2>1, <2>2
    <2>4. Queue' = Queue
      BY <2>1, <2>3 DEF Queue, BlocksOf
    <2>5. QED
      BY <1>4, <2>1, <2>4
  <1>12. QED
    BY <1>6, <1>7, <1>8, <1>9, <1>10, <1>11, RefillsMove

\* From there on nothing is claimed: the queue is given up and nothing is delivered.
LEMMA StaleStep ==
  ASSUME TypeOK, stale', [Next]_vars
  PROVE  [Stream!BSNext]_(Stream!bsvars)
  <1> DEFINE queue == IF stale THEN << >> ELSE Queue
  <1>1. delivered' = delivered
    <2>1. CASE PrimeSecond
      BY <2>1 DEF PrimeSecond
    <2>2. ASSUME NEW c \in Clients, TakeFull(c), stale PROVE delivered' = delivered
      BY <2>2 DEF TakeFull
    <2>3. CASE PutFull
      BY <2>3 DEF PutFull, ghost
    <2>4. ASSUME NEW c \in 0 .. 1, Transfer(c) PROVE delivered' = delivered
      BY <2>4 DEF Transfer, ghost
    <2>5. QED
      BY <2>1, <2>2, <2>3, <2>4, RefillsMove, StaleStays
  <1>2. CASE queue = << >>
    BY <1>1, <1>2 DEF Stream!bsvars, Queue, BlocksOf
  <1>3. CASE queue # << >>
    <2>1. content \in [HBM -> Nat] /\ REFILLS \in Seq(HBM)
      BY DEF TypeOK, DmacTypeOK, ListsTypeOK
    <2>2. Queue \in Seq(Nat) /\ Queue # << >> /\ ~stale
      BY <1>3, <2>1, BlocksOfList DEF Queue
    <2>3. Len(Queue) \in 1 .. Len(Queue) /\ SubSeq(Queue, Len(Queue) + 1, Len(Queue)) = << >>
      BY <2>2
    <2>4. \E n \in 1 .. Len(Queue) : << >> = SubSeq(Queue, n + 1, Len(Queue)) /\ delivered' = delivered
      BY <1>1, <2>3
    <2>5. QED
      BY <2>2, <2>4 DEF Stream!BSNext, Stream!Discard, Queue, BlocksOf
  <1>4. QED
    BY <1>2, <1>3

\* The device implements the stream of blocks: what it delivers is a sequence
\* of acquired blocks in the order of their acquisition, none twice, and what
\* it loses it loses from the oldest on, for any number of buffers and blocks,
\* in captures that follow each other too, up to the first that is primed with an
\* event its predecessor left latched in the DMAC.
THEOREM CaptureImplementsStream == OneClient => (Spec => ImplementsStream)
  <1>1. Init => Stream!BSInit
    <2> SUFFICES ASSUME Init PROVE Stream!BSInit
      OBVIOUS
    <2>1. BlocksOf(content, REFILLS) = << >> /\ delivered = 0 /\ ~stale
      BY BlocksOfNone DEF Init, ListsInit
    <2>2. QED
      BY <2>1 DEF Stream!BSInit, BlocksOf
  <1>2. TypeOK /\ ListsInv /\ ClientInv /\ [Next]_vars => [Stream!BSNext]_(Stream!bsvars)
    BY StreamStep, StaleStep, StaleStays
  <1>3. QED
    BY <1>1, <1>2, ClientInvariant, PTL DEF Spec, ImplementsStream, Stream!BSSpec

----------------------------------------------------------------------------
(* The end of a capture.                                                   *)

\* With the device closed nothing of the capture is left, whatever ended it: no
\* thread, no transfer, no buffer off EMPTIES, and busy is clear.
THEOREM NothingIsLeft == OneClient => (Spec => []ClosedIsQuiet)
  <1>1. ASSUME TypeOK, ListsInv, ClientInv PROVE ClosedIsQuiet
    <2> SUFFICES ASSUME \A c \in Clients : cpc[c] = "closed"
                 PROVE  /\ ~busy /\ ~w_task /\ ~task_active
                        /\ \A c \in 0 .. 1 : chan[c].complete
                        /\ Len(EMPTIES) = nbuffers
      BY DEF ClosedIsQuiet
    <2>1. PICK c \in Clients : cpc[c] = "closed"
      BY CaptureAssumption
    <2>2. lpc \in {"none", "exited"} /\ ~busy /\ ~w_task /\ ~task_active
      BY <1>1, <2>1 DEF ClientInv, PhaseInv, Before, Active
    <2>3. \A d \in 0 .. 1 : chan[d].complete
      BY <1>1, <2>2 DEF ClientInv, FlightInv, Both, Between
    <2>4. INFLIGHT = << >> /\ REFILLS = << >> /\ OPENS = << >>
      BY <1>1, <2>1 DEF ClientInv, QuietInv, Before
    <2>5. \A b : ~On(INFLIGHT, b) /\ ~On(REFILLS, b) /\ ~On(OPENS, b)
      BY <2>4 DEF On
    <2>6. EMPTIES \in Seq(HBM) /\ NoRepeat(EMPTIES) /\ \A b \in HBM : On(EMPTIES, b)
      BY <1>1, <2>5 DEF ListsInv, ListsTypeOK, BuffersConserved
    <2>7. Len(EMPTIES) = nbuffers
      BY <2>6, FullList
    <2>8. QED
      BY <2>2, <2>3, <2>7
  <1>2. QED
    BY <1>1, ClientInvariant, PTL

----------------------------------------------------------------------------
(* The counters.                                                           *)

\* The counters r and the buffers taken, drained, on REFILLS and on INFLIGHT.
Balanced(r, t, d, full, flying) ==
  r.nput = t + r.ngetr + d + full /\ r.nget + r.ngetr = r.nput + flying

Balance == Balanced(rt, taken, drained, Len(REFILLS), Len(INFLIGHT))

Counting(l) == l \notin {"closed", "sort", "onstart"} \cup Emptying

\* The updates of struct RUN_TIME, and what each does to the balance.
LEMMA CountersKept ==
  ASSUME NEW r \in RUN_TIME, NEW x, NEW s,
         \/ s = [r EXCEPT !.refill_error = x]
         \/ s = [r EXCEPT !.buffers_dropped = x]
         \/ s = [r EXCEPT !.please_stop = x]
  PROVE  s.nput = r.nput /\ s.nget = r.nget /\ s.ngetr = r.ngetr
  BY DEF RUN_TIME

LEMMA BalanceKept ==
  ASSUME NEW r, NEW s, s.nput = r.nput, s.nget = r.nget, s.ngetr = r.ngetr,
         NEW t, NEW d, NEW m, NEW n, Balanced(r, t, d, m, n)
  PROVE  Balanced(s, t, d, m, n)
  BY DEF Balanced

LEMMA BalanceMoves ==
  ASSUME NEW r \in RUN_TIME, NEW t \in Nat, NEW d \in Nat, NEW m \in Nat, NEW n \in Nat,
         Balanced(r, t, d, m, n)
  PROVE  /\ Balanced([r EXCEPT !.nget = @ + 1], t, d, m, n + 1)
         /\ m >= 1 => Balanced([r EXCEPT !.ngetr = @ + 1], t, d, m - 1, n + 1)
         /\ n >= 1 => Balanced([r EXCEPT !.nput = @ + 1], t, d, m + 1, n - 1)
         /\ m >= 1 => Balanced(r, t + 1, d, m - 1, n)
         /\ Balanced(r, t, d + m, 0, n)
  BY DEF Balanced, RUN_TIME

\* A buffer goes from the head of one list to the tail of another.
LEMMA MoveLengths ==
  ASSUME NEW q \in Seq(HBM), NEW r \in Seq(HBM), q # << >>
  PROVE  /\ Len(q) \in Nat /\ Len(q) >= 1 /\ Len(r) \in Nat
         /\ Len(Tail(q)) = Len(q) - 1 /\ Len(Append(r, Head(q))) = Len(r) + 1
  BY HeadTailFacts, AppendFacts

LEMMA BalanceClient ==
  ASSUME OneClient, TypeOK, QuietInv, NEW c \in Clients, Client(c),
         Counting(cpc[c]) => Balance
  PROVE  Counting(cpc'[c]) => Balance'
  <1> USE DEF TypeOK, ClientTypeOK, At, Goto, Counting, Emptying
  <1>1. rt \in RUN_TIME /\ taken \in Nat /\ drained \in Nat /\ Len(REFILLS) \in Nat /\ Len(INFLIGHT) \in Nat
    BY LenProperties DEF RtTypeOK, GhostTypeOK, ListsTypeOK
  <1>2. CASE \/ OpenDevice(c) \/ EmptyRefills(c) \/ EmptyInflight(c) \/ SortEmpties(c)
             \/ StartDmaRefused(c) \/ PollGivesUp(c) \/ ForgetTask(c)
             \/ MoveOpens(c) \/ MoveRefills(c) \/ FinishRelease(c)
    BY <1>2 DEF OpenDevice, EmptyRefills, EmptyInflight, SortEmpties, StartDmaRefused, PollGivesUp,
                ForgetTask, MoveOpens, MoveRefills, FinishRelease
  <1>3. CASE OnStart(c)
    <2>1. INFLIGHT' = << >> /\ REFILLS' = << >> /\ rt' = RT0 /\ taken' = 0 /\ drained' = 0
      BY <1>3 DEF OnStart, lists, QuietInv, Before
    <2>2. QED
      BY <2>1 DEF Balance, Balanced, RT0
  <1>4. CASE OnStartInterrupted(c)
    BY <1>4 DEF OnStartInterrupted, MutexFree, OneClient
  <1>5. CASE PutEmpty(c)
    <2>1. /\ rt' = [rt EXCEPT !.buffers_dropped = rt.buffers_dropped + 1]
          /\ UNCHANGED <<taken, drained, REFILLS, INFLIGHT, cpc>> /\ cpc[c] = "putempty"
      BY <1>5 DEF PutEmpty, putEmpty, ghost
    <2>2. Balance
      BY <2>1
    <2>3. rt'.nput = rt.nput /\ rt'.nget = rt.nget /\ rt'.ngetr = rt.ngetr
      BY <1>1, <2>1, CountersKept
    <2>4. Balanced(rt', taken, drained, Len(REFILLS), Len(INFLIGHT))
      BY <2>2, <2>3, BalanceKept DEF Balance
    <2>5. Balance'
      BY <2>1, <2>4, Zenon DEF Balance
    <2>6. QED
      BY <2>5
  <1>6. CASE TakeFull(c)
    <2>1. /\ UNCHANGED <<rt, drained, INFLIGHT>> /\ taken' = taken + 1
          /\ REFILLS # << >> /\ REFILLS' = Tail(REFILLS) /\ cpc[c] = "take"
      BY <1>6 DEF TakeFull, getFull
    <2>2. Balance
      BY <2>1
    <2>3. Len(REFILLS) >= 1 /\ Len(REFILLS') = Len(REFILLS) - 1
      BY <2>1, HeadTailFacts DEF ListsTypeOK
    <2>4. Balanced(rt, taken, drained, Len(REFILLS), Len(INFLIGHT))
      BY <2>2, Zenon DEF Balance
    <2>5. Balanced(rt, taken + 1, drained, Len(REFILLS) - 1, Len(INFLIGHT))
      BY <1>1, <2>3, <2>4, BalanceMoves
    <2>6. Balance'
      BY <2>1, <2>3, <2>5 DEF Balance
    <2>7. QED
      BY <2>6
  <1>7. CASE \/ ResetAggregator(c) \/ StartDma(c) \/ RunThreads(c) \/ SeenActive(c)
             \/ EnableAggregator(c) \/ Read(c) \/ PutEmptyNone(c) \/ BacklogDone(c) \/ TestRefills(c)
             \/ WaitRefill(c) \/ Interrupted(c) \/ TakeListHead(c)
    <2>1. UNCHANGED <<rt, taken, drained, REFILLS, INFLIGHT>> /\ Counting(cpc[c])
      BY <1>7 DEF ResetAggregator, StartDma, RunThreads, SeenActive, EnableAggregator, Read,
                  PutEmptyNone, BacklogDone, TestRefills, WaitRefill, Interrupted, TakeListHead,
                  Undefined, lists, ghost
    <2>2. QED
      BY <2>1, Zenon DEF Balance
  <1>8. CASE \/ Release(c) \/ TestTaskActive(c) \/ KthreadStop(c) \/ KthreadStopGone(c) \/ Join(c)
             \/ StopMonitor(c)
    <2>1. UNCHANGED <<rt, taken, drained, REFILLS, INFLIGHT>> /\ Counting(cpc[c])
      BY <1>8 DEF Release, TestTaskActive, KthreadStop, KthreadStopGone, Join, StopMonitor,
                  Undefined, lists, ghost
    <2>2. QED
      BY <2>1, Zenon DEF Balance
  <1>9. CASE SortRaces(c)
    BY <1>9 DEF SortRaces, Undefined, client
  <1>10. QED
    BY <1>2, <1>3, <1>4, <1>5, <1>6, <1>7, <1>8, <1>9 DEF Client, ClientInternal

LEMMA BalanceLoop ==
  ASSUME TypeOK, DataLoop, Balance
  PROVE  Balance'
  <1>1. rt \in RUN_TIME /\ taken \in Nat /\ drained \in Nat /\ Len(REFILLS) \in Nat /\ Len(INFLIGHT) \in Nat
    BY LenProperties DEF TypeOK, RtTypeOK, GhostTypeOK, ListsTypeOK
  <1>2. Balanced(rt, taken, drained, Len(REFILLS), Len(INFLIGHT))
    BY DEF Balance
  <1>3. /\ EMPTIES \in Seq(HBM) /\ REFILLS \in Seq(HBM) /\ INFLIGHT \in Seq(HBM)
    BY DEF TypeOK, ListsTypeOK
  <1>4. CASE PrimeFirst \/ PrimeSecond \/ GetEmpty
    <2>1. /\ rt' = [rt EXCEPT !.nget = @ + 1] /\ UNCHANGED <<taken, drained, REFILLS>>
          /\ EMPTIES # << >> /\ INFLIGHT' = Append(INFLIGHT, Head(EMPTIES))
      BY <1>4 DEF PrimeFirst, PrimeSecond, GetEmpty, getEmpty, ghost
    <2>2. Len(INFLIGHT') = Len(INFLIGHT) + 1
      BY <1>3, <2>1, MoveLengths
    <2>3. QED
      BY <1>1, <1>2, <2>1, <2>2, BalanceMoves DEF Balance
  <1>5. CASE PutFull
    <2> DEFINE r == [rt EXCEPT !.nput = @ + 1]
               p == rt.please_stop \/ (run_buffers # 0 /\ rt.nput + 1 >= run_buffers)
    <2>1. /\ INFLIGHT # << >> /\ INFLIGHT' = Tail(INFLIGHT) /\ REFILLS' = Append(REFILLS, Head(INFLIGHT))
          /\ UNCHANGED <<taken, drained>>
      BY <1>5 DEF PutFull, putFull, ghost
    <2>2. rt' = [rt EXCEPT !.nput = @ + 1, !.please_stop = p]
      BY <1>5, Zenon DEF PutFull
    <2> HIDE DEF p
    <2>3. rt' = [r EXCEPT !.please_stop = p]
      BY <1>1, <2>2 DEF RUN_TIME
    <2>4. r \in RUN_TIME
      BY <1>1 DEF RUN_TIME
    <2>5. /\ Len(INFLIGHT) >= 1 /\ Len(INFLIGHT') = Len(INFLIGHT) - 1 /\ Len(INFLIGHT') \in Nat
          /\ Len(REFILLS') = Len(REFILLS) + 1 /\ Len(REFILLS') \in Nat
      BY <1>1, <1>3, <2>1, MoveLengths
    <2>6. Balanced(r, taken, drained, Len(REFILLS'), Len(INFLIGHT'))
      BY <1>1, <1>2, <2>5, BalanceMoves
    <2> HIDE DEF r
    <2>7. rt'.nput = r.nput /\ rt'.nget = r.nget /\ rt'.ngetr = r.ngetr
      BY <2>3, <2>4, CountersKept
    <2>8. QED
      BY <2>1, <2>6, <2>7, BalanceKept DEF Balance
  <1>6. CASE PullRefill
    <2>1. /\ rt' = [rt EXCEPT !.ngetr = @ + 1] /\ UNCHANGED <<taken, drained>>
          /\ REFILLS # << >> /\ REFILLS' = Tail(REFILLS) /\ INFLIGHT' = Append(INFLIGHT, Head(REFILLS))
      BY <1>6 DEF PullRefill, getEmptyFromRefills, ghost
    <2>2. /\ Len(REFILLS) >= 1 /\ Len(REFILLS') = Len(REFILLS) - 1 /\ Len(INFLIGHT') = Len(INFLIGHT) + 1
      BY <1>3, <2>1, MoveLengths
    <2>3. QED
      BY <1>1, <1>2, <2>1, <2>2, BalanceMoves DEF Balance
  <1>7. CASE DrainRefills
    <2>1. /\ UNCHANGED <<taken, INFLIGHT>> /\ drained' = drained + Len(REFILLS) /\ REFILLS' = << >>
          /\ rt' = rt \/ rt' = [rt EXCEPT !.refill_error = 1]
      BY <1>7 DEF DrainRefills, moveRefillsToEmpty
    <2>2. Balanced(rt, taken, drained + Len(REFILLS), 0, Len(INFLIGHT)) /\ Len(<< >>) = 0
      BY <1>1, <1>2, BalanceMoves
    <2>3. rt'.nput = rt.nput /\ rt'.nget = rt.nget /\ rt'.ngetr = rt.ngetr
      <3>1. CASE rt' = rt
        BY <3>1
      <3>2. CASE rt' = [rt EXCEPT !.refill_error = 1]
        BY <1>1, <3>2, CountersKept
      <3>3. QED
        BY <2>1, <3>1, <3>2
    <2>4. Balanced(rt', taken, drained + Len(REFILLS), 0, Len(INFLIGHT))
      BY <2>2, <2>3, BalanceKept
    <2>5. QED
      BY <2>1, <2>2, <2>4 DEF Balance
  <1>8. CASE DmaTimeout \/ FifoError \/ CountRefills
    <2>1. UNCHANGED <<taken, drained, REFILLS, INFLIGHT>>
      BY <1>8 DEF DmaTimeout, FifoError, CountRefills, lists, ghost
    <2>2. PICK x : rt' = [rt EXCEPT !.refill_error = x] \/ rt' = [rt EXCEPT !.buffers_dropped = x]
      BY <1>8 DEF DmaTimeout, FifoError, CountRefills
    <2>3. rt'.nput = rt.nput /\ rt'.nget = rt.nget /\ rt'.ngetr = rt.ngetr
      <3>1. CASE rt' = [rt EXCEPT !.refill_error = x]
        BY <1>1, <3>1, CountersKept
      <3>2. CASE rt' = [rt EXCEPT !.buffers_dropped = x]
        BY <1>1, <3>2, CountersKept
      <3>3. QED
        BY <2>2, <3>1, <3>2
    <2>4. QED
      BY <1>2, <2>1, <2>3, BalanceKept DEF Balance
  <1>9. CASE \/ PrimeNone \/ Activate \/ LoopTop \/ DmaReady \/ Decrement \/ SyncWait \/ SyncTimeout
             \/ PutFullNone \/ GetEmptyNone \/ TestPull \/ PullListHead \/ Issue \/ FifoOK
             \/ Terminate \/ Deactivate
    <2>1. UNCHANGED <<rt, taken, drained, REFILLS, INFLIGHT>>
      BY <1>9 DEF PrimeNone, Activate, LoopTop, DmaReady, Decrement, SyncWait, SyncTimeout, PutFullNone,
                  GetEmptyNone, TestPull, PullListHead, Issue, FifoOK, Terminate, Deactivate,
                  Undefined, lists, ghost
    <2>2. QED
      BY <2>1, Zenon DEF Balance
  <1>10. QED
    BY <1>4, <1>5, <1>6, <1>7, <1>8, <1>9 DEF DataLoop

CountInv == \A c \in Clients : Counting(cpc[c]) => Balance

LEMMA CountStep ==
  ASSUME OneClient, TypeOK, PhaseInv, QuietInv, CountInv, [Next]_vars
  PROVE  CountInv'
  <1>1. ASSUME NEW c \in Clients, Client(c) PROVE CountInv'
    <2>1. Counting(cpc'[c]) => Balance'
      BY <1>1, BalanceClient DEF CountInv
    <2>2. QED
      BY <2>1 DEF CountInv, OneClient
  <1>2. CASE DataLoop
    <2>1. \A c \in Clients : cpc[c] \notin Before \cup After
      BY <1>2, LoopRuns DEF PhaseInv
    <2>2. \A c \in Clients : Counting(cpc[c])
      BY <2>1 DEF Counting, Before, After, Emptying
    <2>3. QED
      BY <1>2, <2>2, BalanceLoop DEF CountInv
  <1>3. CASE Environment
    <2>1. UNCHANGED <<taken, drained, REFILLS, INFLIGHT, cpc>>
      BY <1>3 DEF Environment, Transfer, DmaCallback, DmaCallbackRace, MonitorStop, lists, ghost, client
    <2>2. rt' = rt \/ rt' = [rt EXCEPT !.please_stop = TRUE]
      BY <1>3 DEF Environment, Transfer, DmaCallback, DmaCallbackRace, MonitorStop
    <2>3. rt'.nput = rt.nput /\ rt'.nget = rt.nget /\ rt'.ngetr = rt.ngetr
      BY <2>2, CountersKept DEF TypeOK, RtTypeOK
    <2>4. Balance => Balance'
      BY <2>1, <2>3, BalanceKept DEF Balance
    <2>5. QED
      BY <2>1, <2>4 DEF CountInv
  <1>4. CASE Done \/ UNCHANGED vars
    <2>1. UNCHANGED <<rt, taken, drained, REFILLS, INFLIGHT, cpc>>
      BY <1>4 DEF Done, vars, lists, ghost, client
    <2>2. QED
      BY <2>1, Zenon DEF CountInv, Balance
  <1>5. QED
    BY <1>1, <1>2, <1>3, <1>4 DEF Next

\* The run time counters balance from _onStart() until the lists are emptied,
\* for any number of buffers: every buffer that putFull() counted was delivered,
\* pulled back, drained or waits on REFILLS, and every one that getEmpty() or
\* getEmptyFromRefills() counted was filled or is in flight.
THEOREM CaptureCounts == OneClient => (Spec => []CountersBalance)
  <1> SUFFICES ASSUME OneClient PROVE Spec => []CountersBalance
    OBVIOUS
  <1>1. Init => CountInv
    BY DEF Init, CountInv, Counting
  <1>2. TypeOK /\ ClientInv /\ CountInv /\ [Next]_vars => CountInv'
    BY CountStep DEF ClientInv
  <1>3. CountInv => CountersBalance
    BY DEF CountInv, Counting, CountersBalance, Balance, Balanced
  <1>4. QED
    BY <1>1, <1>2, <1>3, ClientInvariant, PTL DEF Spec
=============================================================================
