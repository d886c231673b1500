----------------------------- MODULE Axi64Proofs -----------------------------
(***************************************************************************)
(* Proofs about Axi64, for any number of buffers, opens and blocks and for *)
(* either number of channels.  No buffer is lost, whatever the timing.  If *)
(* the delay of the dual loop outlasts the skew of its channels, no poison *)
(* reaches the application, and, while no loop runs out of buffers, the    *)
(* blocks are handed over in the order of the ring, as BlockStream says.   *)
(***************************************************************************)
EXTENDS Axi64, HostBuffersProofs

----------------------------------------------------------------------------
(* The inductive invariant.                                                *)

AxiTypeOK ==
  /\ nchan \in 1 .. 2
  /\ sent \in [Chan -> Nat]
  /\ body \in [HBM -> Nat] /\ stash \in [HBM -> Nat]
  /\ word \in [HBM -> Nat \cup {POISON}]
  /\ hbm \in Seq(HBM) /\ todo \in 0 .. nchan

Poisoned(b) == word[b] = POISON

\* The words that poison covers are kept in the stash.
StashInv == \A b \in HBM : word[b] = body[b] \/ (Poisoned(b) /\ stash[b] = body[b])

\* When the application can be where, given where the loop is.
PhaseInv ==
  /\ should_stop => cpc \in {"stopping", "closed"}
  /\ cpc = "closed" => lpc \in {"none", "exited", "failed"}
  /\ lpc \in {"none", "load", "poison", "exited", "failed"} => ~task_active
  /\ lpc \in {"load", "poison", "quit", "exited"} => cpc # "open"
  /\ lpc = "quit" /\ cpc = "starting" => ~task_active

\* The buffers in flight are those the loop waits for, if it has any at all.
FlightInv ==
  /\ lpc \in {"load", "poison"} => INFLIGHT = << >> /\ REFILLS = << >> /\ OPENS = << >>
  /\ lpc \in {"get", "wait"} => \A b \in HBM : On(INFLIGHT, b) => On(hbm, b)
  /\ lpc = "get" => Len(INFLIGHT) + todo <= nchan
  /\ lpc = "wait" => Len(INFLIGHT) <= nchan
  /\ lpc = "put" => Len(INFLIGHT) <= todo
  /\ lpc = "put" /\ outlasts => \A b \in HBM : On(INFLIGHT, b) => ~Poisoned(b)
  /\ lpc \in {"exhausted", "again"} => INFLIGHT = << >>

\* The buffers that the descriptors reach: with two channels and an odd number
\* of buffers all but the last, and then the capture does not start.
InRing(b) == b < nchan * (nbuffers \div nchan)

RingInv ==
  /\ lpc \notin {"none", "load"} =>
       \A b \in HBM : InRing(b) <=> \E c \in Chan, i \in 1 .. nbuffers \div nchan : ring[c][i] = b
  /\ \A b \in HBM : Poisoned(b) => InRing(b)
  /\ cpc = "open" \/ task_active \/ lpc \in {"get", "wait", "put", "exhausted", "again"} =>
       \A b \in HBM : InRing(b)

\* No poison in what the application was or will be given, if the delay of the
\* loop outlasts the skew of the channels, nor in any buffer once the loop was
\* told to stop and has gone.
CleanInv ==
  /\ outlasts => \A b \in HBM : On(REFILLS, b) \/ On(OPENS, b) => ~Poisoned(b)
  /\ lpc = "exited" => \A b \in HBM : ~Poisoned(b)

AxiInv ==
  AxiTypeOK /\ ListsInv /\ StashInv /\ PhaseInv /\ FlightInv /\ RingInv /\ CleanInv

----------------------------------------------------------------------------
(* The operations.                                                         *)

\* sort_empties() of all the buffers is the order of the ring.
LEMMA SortedOrder ==
  ASSUME NEW q \in Seq(HBM), NoRepeat(q), \A b \in HBM : On(q, b)
  PROVE  Sorted(q) = [i \in 1 .. nbuffers |-> i - 1]
  <1> DEFINE Below(b) == {j \in DOMAIN q : q[j] < b}
  <1>1. DOMAIN q = 1 .. nbuffers /\ \A j \in 1 .. nbuffers : q[j] \in HBM
    BY FullList, LenProperties
  <1>2. \A b \in HBM : \E j \in 1 .. nbuffers : q[j] = b
    BY FullList DEF On
  <1>3. \A i, j \in 1 .. nbuffers : q[i] = q[j] => i = j
    BY FullList DEF NoRepeat
  <1>4. ASSUME NEW b \in HBM PROVE Cardinality(Below(b)) = b
    <2> DEFINE f == [k \in 1 .. b |-> CHOOSE j \in 1 .. nbuffers : q[j] = k - 1]
    <2>1. \A k \in 1 .. b : k - 1 \in HBM
      BY <1>4, NBuffersAssumption DEF HBM
    <2>2. \A k \in 1 .. b : f[k] \in 1 .. nbuffers /\ q[f[k]] = k - 1
      BY <1>2, <2>1
    <2>3. \A k \in 1 .. b : f[k] \in Below(b)
      <3> HIDE DEF f
      <3>1. \A k \in 1 .. b : k - 1 < b
        BY <1>4 DEF HBM
      <3>2. QED
        BY <1>1, <2>2, <3>1
    <2>4. f \in Injection(1 .. b, Below(b))
      <3>1. f \in [1 .. b -> Below(b)]
        BY <2>3
      <3>2. \A j, k \in 1 .. b : f[j] = f[k] => j = k
        <4> SUFFICES ASSUME NEW j \in 1 .. b, NEW k \in 1 .. b, f[j] = f[k] PROVE j = k
          OBVIOUS
        <4> HIDE DEF f
        <4>1. j - 1 = k - 1
          BY <2>2
        <4>2. QED
          BY <4>1
      <3> HIDE DEF f
      <3>3. QED
        BY <3>1, <3>2 DEF Injection, IsInjective
    <2>5. f \in Surjection(1 .. b, Below(b))
      <3>1. ASSUME NEW j \in Below(b) PROVE \E k \in 1 .. b : f[k] = j
        <4>1. j \in 1 .. nbuffers /\ q[j] \in HBM /\ q[j] < b
          BY <1>1
        <4>2. q[j] + 1 \in 1 .. b /\ (q[j] + 1) - 1 = q[j]
          BY <4>1, NBuffersAssumption DEF HBM
        <4>3. q[f[q[j] + 1]] = q[j] /\ f[q[j] + 1] \in 1 .. nbuffers
          BY <2>2, <4>2
        <4>4. f[q[j] + 1] = j
          BY <1>3, <4>1, <4>3
        <4>5. QED
          BY <4>2, <4>4
      <3>2. f \in [1 .. b -> Below(b)]
        BY <2>3
      <3> HIDE DEF f
      <3>3. QED
        BY <3>1, <3>2 DEF Surjection
    <2>6. ExistsBijection(1 .. b, Below(b))
      BY <2>4, <2>5 DEF Bijection, ExistsBijection
    <2>7. QED
      BY <2>6, FS_CountingElements DEF HBM
  <1>5. {q[j] : j \in DOMAIN q} = HBM
    BY <1>1, <1>2
  <1>6. ASSUME NEW i \in 1 .. nbuffers
        PROVE  (CHOOSE b \in {q[j] : j \in DOMAIN q} : Cardinality(Below(b)) = i - 1) = i - 1
    <2>1. i - 1 \in HBM
      BY NBuffersAssumption DEF HBM
    <2>2. \A b \in HBM : Cardinality(Below(b)) = i - 1 <=> b = i - 1
      BY <1>4
    <2> HIDE DEF Below
    <2>3. QED
      BY <1>5, <2>1, <2>2
  <1>7. Sorted(q) = [i \in 1 .. nbuffers |->
                       CHOOSE b \in {q[j] : j \in DOMAIN q} : Cardinality(Below(b)) = i - 1]
    BY <1>1 DEF Sorted
  <1>8. QED
    BY <1>6, <1>7

\* What poison_one_buffer() does to the buffers of B ...
LEMMA PoisonFacts ==
  ASSUME AxiTypeOK, StashInv, NEW B, poison(B)
  PROVE  /\ body' = body /\ stash' \in [HBM -> Nat] /\ word' \in [HBM -> Nat \cup {POISON}]
         /\ StashInv'
         /\ \A b \in HBM : Poisoned(b)' <=> b \in B \/ Poisoned(b)
  <1>1. body' = body
    BY DEF poison
  <1>2. \A b \in HBM : word'[b] = IF b \in B THEN POISON ELSE word[b]
    BY DEF poison
  <1>3. \A b \in HBM : stash'[b] = IF b \in B /\ word[b] # POISON THEN word[b] ELSE stash[b]
    BY DEF poison
  <1>4. \A b \in HBM : stash'[b] \in Nat /\ word'[b] \in Nat \cup {POISON}
    BY <1>2, <1>3 DEF AxiTypeOK
  <1>5. stash' \in [HBM -> Nat] /\ word' \in [HBM -> Nat \cup {POISON}]
    BY <1>4 DEF poison
  <1>6. StashInv'
    BY <1>1, <1>2, <1>3 DEF StashInv, Poisoned
  <1>7. \A b \in HBM : Poisoned(b)' <=> b \in B \/ Poisoned(b)
    BY <1>2 DEF Poisoned
  <1>8. QED
    BY <1>1, <1>5, <1>6, <1>7

\* ... and clear_poison_from_buffer().
LEMMA ClearFacts ==
  ASSUME AxiTypeOK, StashInv, NEW B, clear_poison(B)
  PROVE  /\ body' = body /\ stash' = stash /\ word' \in [HBM -> Nat \cup {POISON}]
         /\ StashInv'
         /\ \A b \in HBM : Poisoned(b)' <=> Poisoned(b) /\ b \notin B
  <1>1. body' = body /\ stash' = stash
    BY DEF clear_poison
  <1>2. \A b \in HBM : word'[b] = IF b \in B /\ word[b] = POISON THEN stash[b] ELSE word[b]
    BY DEF clear_poison, poison_overwritten
  <1>3. \A b \in HBM : /\ stash[b] \in Nat /\ stash[b] # POISON /\ body[b] # POISON
                       /\ word[b] \in Nat \cup {POISON}
    BY DEF AxiTypeOK, POISON
  <1>4. word' \in [HBM -> Nat \cup {POISON}]
    <2>1. \A b \in HBM : word'[b] \in Nat \cup {POISON}
      BY <1>2, <1>3
    <2>2. QED
      BY <2>1 DEF clear_poison
  <1>5. StashInv'
    <2>1. ASSUME NEW b \in HBM
          PROVE  word'[b] = body[b] \/ (word'[b] = POISON /\ stash[b] = body[b])
      BY <1>2, <1>3 DEF StashInv, Poisoned
    <2>2. QED
      BY <1>1, <2>1 DEF StashInv, Poisoned
  <1>6. \A b \in HBM : Poisoned(b)' <=> Poisoned(b) /\ b \notin B
    BY <1>2, <1>3 DEF Poisoned
  <1>7. QED
    BY <1>1, <1>4, <1>5, <1>6

\* The lists, over every step.
LEMMA ListsStep ==
  ASSUME ListsInv, [Next]_vars
  PROVE  ListsInv'
  <1>1. CASE GetEmpty \/ HoldAgain \/ PutFull \/ DiscardFull \/ PutEmpty \/ GetFull
    <2>1. \/ getEmpty \/ putFull \/ moveRefillsToEmpty \/ putEmpty \/ getFull \/ UNCHANGED lists
      BY <1>1 DEF GetEmpty, HoldAgain, PutFull, DiscardFull, PutEmpty, GetFull
    <2>2. CASE UNCHANGED lists
      BY <2>2 DEF lists, ListsInv, ListsTypeOK, BuffersConserved
    <2>3. QED
      BY <2>1, <2>2, GetEmptyConserves, PutFullConserves, MoveRefillsConserves, PutEmptyConserves,
         GetFullConserves
  <1>2. CASE OpenDevice \/ Stopped
    <2> DEFINE q == EMPTIES \o OPENS \o REFILLS \o INFLIGHT
    <2>1. q \in Seq(HBM) /\ NoRepeat(q) /\ \A b \in HBM : On(q, b)
      BY AllLists
    <2>2. /\ EMPTIES' = q \/ EMPTIES' = Sorted(q)
          /\ INFLIGHT' = << >> /\ REFILLS' = << >> /\ OPENS' = << >>
          /\ bstate' = [b \in HBM |-> "BS_EMPTY"]
      BY <1>2 DEF OpenDevice, Stopped
    <2> HIDE DEF q
    <2>3. EMPTIES' \in Seq(HBM) /\ NoRepeat(EMPTIES') /\ \A b \in HBM : On(EMPTIES', b)
      BY <2>1, <2>2, SortedOrder, IndexOrder
    <2>4. QED
      BY <2>2, <2>3, ResetConserves
  <1>3. CASE \/ LoadDmac \/ PoisonAll \/ GotEmpties \/ NoEmpty \/ DmaDone \/ ToldToStop
             \/ NextGroup \/ Quit \/ EnableAggregator \/ Release \/ UNCHANGED vars
             \/ \E c \in Chan : Transfer(c)
    <2>1. UNCHANGED lists
      BY <1>3 DEF LoadDmac, PoisonAll, GotEmpties, NoEmpty, DmaDone, ToldToStop, NextGroup, Quit,
                  EnableAggregator, Release, Transfer, vars
    <2>2. QED
      BY <2>1 DEF lists, ListsInv, ListsTypeOK, BuffersConserved
  <1>4. QED
    BY <1>1, <1>2, <1>3 DEF Next, LoopStep, AppStep

\* One of the channels is ahead of the other, or both are as far.
LEMMA Furthest ==
  ASSUME AxiTypeOK
  PROVE  (CHOOSE n \in {sent[c] : c \in Chan} : \A c \in Chan : sent[c] <= n) \in Nat
  <1>1. \E n \in {sent[c] : c \in Chan} : \A c \in Chan : sent[c] <= n
    <2>1. CASE nchan = 1
      BY <2>1 DEF AxiTypeOK, Chan
    <2>2. CASE nchan = 2
      <3>1. Chan = {0, 1} /\ sent[0] \in Nat /\ sent[1] \in Nat
        BY <2>2 DEF AxiTypeOK, Chan
      <3>2. CASE sent[0] <= sent[1]
        BY <3>1, <3>2
      <3>3. CASE sent[1] <= sent[0]
        BY <3>1, <3>3
      <3>4. QED
        BY <3>1, <3>2, <3>3
    <2>3. QED
      BY <2>1, <2>2 DEF AxiTypeOK
  <1>2. {sent[c] : c \in Chan} \subseteq Nat
    BY DEF AxiTypeOK
  <1>3. QED
    BY <1>1, <1>2

\* What a transfer does to the buffers: the one it fills, if it is one, holds
\* its block, words included.
LEMMA TransferFacts ==
  ASSUME AxiTypeOK, StashInv, NEW c \in Chan, Transfer(c)
  PROVE  /\ body' \in [HBM -> Nat] /\ stash' = stash /\ word' \in [HBM -> Nat \cup {POISON}]
         /\ StashInv'
         /\ \A b \in HBM : Poisoned(b)' => Poisoned(b)
         /\ UNCHANGED <<lists, nchan, ring, lpc, hbm, todo, task_active, cpc, should_stop>>
         /\ sent' \in [Chan -> Nat]
  <1> DEFINE blk == nchan * sent[c] + c + 1
             x == Slot(c, c, 0)
  <1>1. nchan \in {1, 2} /\ sent[c] \in Nat /\ c \in Nat
    BY DEF AxiTypeOK, Chan
  <1>2. blk \in Nat /\ blk # POISON
    BY <1>1 DEF POISON
  <1>3. /\ word' = [word EXCEPT ![x] = blk] /\ body' = [body EXCEPT ![x] = blk]
        /\ sent' = [sent EXCEPT ![c] = @ + 1] /\ stash' = stash
        /\ UNCHANGED <<lists, nchan, ring, lpc, hbm, todo, task_active, cpc, should_stop>>
    BY DEF Transfer, loop, app
  <1> HIDE DEF blk, x
  <1>4. sent' \in [Chan -> Nat]
    BY <1>1, <1>3 DEF AxiTypeOK
  <1>5. word' \in [HBM -> Nat \cup {POISON}] /\ body' \in [HBM -> Nat]
    BY <1>2, <1>3 DEF AxiTypeOK
  <1>6. \A b \in HBM : \/ word'[b] = word[b] /\ body'[b] = body[b]
                       \/ word'[b] = body'[b] /\ word'[b] # POISON
    BY <1>2, <1>3 DEF AxiTypeOK
  <1>7. StashInv'
    <2>1. ASSUME NEW b \in HBM
          PROVE  word'[b] = body'[b] \/ (word'[b] = POISON /\ stash[b] = body'[b])
      BY <1>6 DEF StashInv, Poisoned
    <2>2. QED
      BY <1>3, <2>1 DEF StashInv, Poisoned
  <1>8. \A b \in HBM : Poisoned(b)' => Poisoned(b)
    BY <1>6 DEF Poisoned
  <1>9. QED
    BY <1>3, <1>4, <1>5, <1>7, <1>8

\* The steps that write to no buffer.
Elsewhere ==
  \/ LoadDmac \/ GetEmpty \/ GotEmpties \/ NoEmpty \/ DmaDone \/ ToldToStop \/ PutFull
  \/ NextGroup \/ DiscardFull \/ OpenDevice \/ EnableAggregator \/ GetFull \/ Release
  \/ Stopped \/ UNCHANGED vars

LEMMA ElsewhereFacts == Elsewhere => UNCHANGED mem
  BY DEF Elsewhere, LoadDmac, GetEmpty, GotEmpties, NoEmpty, DmaDone, ToldToStop, PutFull,
         NextGroup, DiscardFull, OpenDevice, EnableAggregator, GetFull, Release, Stopped, vars

\* Every step that writes to a buffer, with what it does to the poison.
LEMMA WriterCases ==
  ASSUME [Next]_vars
  PROVE  \/ Elsewhere \/ PoisonAll \/ HoldAgain \/ PutEmpty \/ Quit
         \/ \E c \in Chan : Transfer(c)
  BY DEF Next, LoopStep, AppStep, Elsewhere

\* The buffers keep their data, under the poison too, over every step.
LEMMA StashStep ==
  ASSUME AxiTypeOK, StashInv, [Next]_vars
  PROVE  /\ StashInv'
         /\ body' \in [HBM -> Nat] /\ stash' \in [HBM -> Nat]
         /\ word' \in [HBM -> Nat \cup {POISON}]
  <1> DEFINE Kept == /\ StashInv'
                     /\ body' \in [HBM -> Nat] /\ stash' \in [HBM -> Nat]
                     /\ word' \in [HBM -> Nat \cup {POISON}]
  <1>1. CASE UNCHANGED mem
    BY <1>1 DEF mem, StashInv, Poisoned, AxiTypeOK
  <1>2. ASSUME NEW B, poison(B) PROVE Kept
    BY <1>2, PoisonFacts DEF AxiTypeOK
  <1>3. ASSUME NEW B, clear_poison(B) PROVE Kept
    BY <1>3, ClearFacts DEF AxiTypeOK
  <1>4. CASE PoisonAll \/ HoldAgain \/ PutEmpty
    <2>1. UNCHANGED mem \/ \E B : poison(B)
      BY <1>4 DEF PoisonAll, HoldAgain, PutEmpty
    <2>2. QED
      BY <2>1, <1>1, <1>2
  <1>5. CASE Quit
    BY <1>5, <1>3 DEF Quit
  <1>6. CASE \E c \in Chan : Transfer(c)
    BY <1>6, TransferFacts DEF AxiTypeOK
  <1>7. QED
    BY <1>1, <1>4, <1>5, <1>6, ElsewhereFacts, WriterCases

LEMMA TypeStep ==
  ASSUME AxiTypeOK, ListsInv, StashInv, [Next]_vars
  PROVE  AxiTypeOK'
  <1>1. nchan' = nchan /\ Chan' = Chan
    BY DEF Next, LoopStep, AppStep, vars, Chan, LoadDmac, PoisonAll, GetEmpty, GotEmpties, NoEmpty, DmaDone,
           ToldToStop, PutFull, NextGroup, DiscardFull, HoldAgain, Quit, OpenDevice, EnableAggregator,
           PutEmpty, GetFull, Release, Stopped, Transfer
  <1>2. sent' \in [Chan -> Nat]
    <2>1. CASE LoadDmac
      BY <2>1, Furthest DEF LoadDmac
    <2>2. CASE \E c \in Chan : Transfer(c)
      BY <2>2, TransferFacts
    <2>3. CASE ~LoadDmac /\ ~\E c \in Chan : Transfer(c)
      <3>1. UNCHANGED sent
        BY <2>3 DEF Next, LoopStep, AppStep, vars, dmac, PoisonAll, GetEmpty, GotEmpties, NoEmpty, DmaDone,
               ToldToStop, PutFull, NextGroup, DiscardFull, HoldAgain, Quit, OpenDevice, EnableAggregator,
               PutEmpty, GetFull, Release, Stopped
      <3>2. QED
        BY <3>1 DEF AxiTypeOK
    <2>4. QED
      BY <2>1, <2>2, <2>3
  <1>3. hbm' \in Seq(HBM)
    <2>0. hbm \in Seq(HBM)
      BY DEF AxiTypeOK
    <2>1. CASE GetEmpty \/ HoldAgain
      <3>1. \/ EMPTIES # << >> /\ (hbm' = Append(hbm, Head(EMPTIES)) \/ hbm' = <<Head(EMPTIES)>>)
            \/ hbm' = hbm
        BY <2>1 DEF GetEmpty, HoldAgain, getEmpty
      <3>2. EMPTIES # << >> => Head(EMPTIES) \in HBM
        BY HeadTailFacts DEF ListsInv, ListsTypeOK
      <3>3. CASE EMPTIES # << >> /\ hbm' = Append(hbm, Head(EMPTIES))
        BY <2>0, <3>2, <3>3, AppendFacts
      <3>4. CASE EMPTIES # << >> /\ hbm' = <<Head(EMPTIES)>>
        BY <3>2, <3>4, ShortLists
      <3>5. QED
        BY <2>0, <3>1, <3>3, <3>4
    <2>2. CASE ~(GetEmpty \/ HoldAgain)
      <3>1. hbm' = hbm \/ hbm' = << >>
        BY <2>2 DEF Next, LoopStep, AppStep, vars, loop, LoadDmac, PoisonAll, GotEmpties, NoEmpty, DmaDone,
               ToldToStop, PutFull, NextGroup, DiscardFull, Quit, OpenDevice, EnableAggregator,
               PutEmpty, GetFull, Release, Stopped, Transfer
      <3>2. QED
        BY <2>0, <3>1, ShortLists
    <2>3. QED
      BY <2>1, <2>2
  <1>4. todo' \in 0 .. nchan
    <2>1. todo' = todo \/ todo' = nchan \/ (todo > 0 /\ todo' = todo - 1)
      BY DEF Next, LoopStep, AppStep, vars, loop, LoadDmac, PoisonAll, GetEmpty, GotEmpties, NoEmpty, DmaDone,
             ToldToStop, PutFull, NextGroup, DiscardFull, HoldAgain, Quit, OpenDevice, EnableAggregator,
             PutEmpty, GetFull, Release, Stopped, Transfer
    <2>2. QED
      BY <2>1 DEF AxiTypeOK
  <1>5. QED
    BY <1>1, <1>2, <1>3, <1>4, StashStep DEF AxiTypeOK

LEMMA PhaseStep ==
  ASSUME PhaseInv, [Next]_vars
  PROVE  PhaseInv'
  <1>1. CASE LoopStep
    BY <1>1 DEF PhaseInv, LoopStep, loop, app, At, CheckFifo, LoadDmac, PoisonAll, GetEmpty, GotEmpties, NoEmpty,
               DmaDone, ToldToStop, PutFull, NextGroup, DiscardFull, HoldAgain, Quit
  <1>2. CASE AppStep
    BY <1>2 DEF PhaseInv, AppStep, loop, app, OpenDevice, EnableAggregator, PutEmpty, GetFull, Release, Stopped
  <1>3. CASE (\E c \in Chan : Transfer(c)) \/ UNCHANGED vars
    <2>1. UNCHANGED <<lpc, cpc, task_active, should_stop>>
      BY <1>3 DEF Transfer, vars, loop, app
    <2>2. QED
      BY <2>1, Zenon DEF PhaseInv
  <1>4. QED
    BY <1>1, <1>2, <1>3 DEF Next

\* The descriptors of both channels together reach the buffers of the ring.
LEMMA ChainCovers ==
  ASSUME AxiTypeOK, NEW b \in HBM
  PROVE  InRing(b) <=> \E c \in Chan, i \in 1 .. nbuffers \div nchan : ChainOf(c)[i] = b
  <1> DEFINE k == nbuffers \div nchan
  <1>1. k \in Nat /\ b \in Nat
    BY NBuffersAssumption DEF AxiTypeOK, HBM
  <1>2. \A c \in Chan, i \in 1 .. k : ChainOf(c)[i] = nchan * (i - 1) + c
    BY DEF ChainOf
  <1> HIDE DEF k
  <1>3. CASE nchan = 1
    <2>1. Chan = {0}
      BY <1>3 DEF Chan
    <2>2. \A i \in 1 .. k : ChainOf(0)[i] = i - 1
      BY <1>1, <1>2, <1>3, <2>1
    <2>3. InRing(b) <=> b < k
      BY <1>1, <1>3 DEF InRing, k
    <2>4. InRing(b) => b + 1 \in 1 .. k /\ ChainOf(0)[b + 1] = b
      BY <1>1, <2>2, <2>3
    <2>5. ASSUME NEW i \in 1 .. k, ChainOf(0)[i] = b PROVE InRing(b)
      BY <1>1, <2>2, <2>3, <2>5
    <2>6. QED
      BY <2>1, <2>4, <2>5 DEF k
  <1>4. CASE nchan = 2
    <2>1. Chan = {0, 1}
      BY <1>4 DEF Chan
    <2>2. PICK h \in Nat, c \in Chan : b = 2 * h + c
      <3>1. b \div 2 \in Nat /\ b = 2 * (b \div 2) + (b % 2) /\ (b % 2) \in {0, 1}
        BY <1>1
      <3>2. QED
        BY <2>1, <3>1
    <2>3. InRing(b) <=> b < 2 * k
      BY <1>4 DEF InRing, k
    <2>4. InRing(b) => h + 1 \in 1 .. k /\ ChainOf(c)[h + 1] = b
      <3>1. InRing(b) => h + 1 \in 1 .. k
        BY <1>1, <2>1, <2>2, <2>3
      <3>2. h + 1 \in 1 .. k => ChainOf(c)[h + 1] = 2 * ((h + 1) - 1) + c
        BY <1>2, <1>4
      <3>3. QED
        BY <2>1, <2>2, <3>1, <3>2
    <2>5. ASSUME NEW d \in Chan, NEW i \in 1 .. k, ChainOf(d)[i] = b PROVE InRing(b)
      BY <1>1, <1>2, <1>4, <2>1, <2>3, <2>5
    <2>6. QED
      BY <2>2, <2>4, <2>5 DEF k
  <1>5. QED
    BY <1>3, <1>4 DEF AxiTypeOK

Started == cpc = "open" \/ task_active \/ lpc \in {"get", "wait", "put", "exhausted", "again"}

LEMMA RingStep ==
  ASSUME AxiTypeOK, ListsInv, StashInv, PhaseInv, FlightInv, RingInv, [Next]_vars
  PROVE  RingInv'
  <1> DEFINE Reached(b) == \E c \in Chan, i \in 1 .. nbuffers \div nchan : ring[c][i] = b
             B == {ring[c][i] : c \in Chan, i \in 1 .. nbuffers \div nchan}
  <1>1. nchan' = nchan /\ Chan' = Chan /\ \A b : InRing(b)' <=> InRing(b)
    BY DEF Next, LoopStep, AppStep, vars, Chan, InRing, LoadDmac, PoisonAll, GetEmpty, GotEmpties, NoEmpty, DmaDone,
           ToldToStop, PutFull, NextGroup, DiscardFull, HoldAgain, Quit, OpenDevice, EnableAggregator,
           PutEmpty, GetFull, Release, Stopped, Transfer
  <1>2. \A b : b \in B <=> Reached(b)
    OBVIOUS
  <1>3. lpc \notin {"none", "load"} => \A b \in HBM : InRing(b) <=> b \in B
    BY <1>2 DEF RingInv
  <1> HIDE DEF B
  <1>4. lpc' \notin {"none", "load"} => \A b \in HBM : InRing(b) <=> Reached(b)'
    <2>1. CASE LoadDmac
      <3>1. ring' = [c \in Chan |-> ChainOf(c)]
        BY <2>1 DEF LoadDmac
      <3>2. QED
        BY <1>1, <3>1, ChainCovers
    <2>2. CASE ~LoadDmac
      <3>1. ring' = ring /\ (lpc' \notin {"none", "load"} => lpc \notin {"none", "load"})
        BY <2>2 DEF Next, LoopStep, AppStep, vars, dmac, loop, app, At, PoisonAll, GetEmpty, GotEmpties, NoEmpty, DmaDone,
               ToldToStop, PutFull, NextGroup, DiscardFull, HoldAgain, Quit, OpenDevice, EnableAggregator,
               PutEmpty, GetFull, Release, Stopped, Transfer
      <3>2. QED
        BY <1>1, <3>1 DEF RingInv
    <2>3. QED
      BY <2>1, <2>2
  <1>5. \A b \in HBM : Poisoned(b)' => InRing(b)
    <2>1. CASE PoisonAll
      <3>1. At("poison") /\ poison(B)
        BY <2>1 DEF PoisonAll, B
      <3>2. QED
        BY <1>3, <3>1, PoisonFacts DEF RingInv, At
    <2>2. CASE HoldAgain
      <3>1. At("again") /\ (UNCHANGED mem \/ poison({Head(EMPTIES)}))
        BY <2>2 DEF HoldAgain
      <3>2. QED
        BY <3>1 DEF RingInv, At
    <2>3. CASE PutEmpty
      BY <2>3 DEF PutEmpty, RingInv
    <2>4. CASE Quit
      BY <2>4, ClearFacts DEF Quit, RingInv
    <2>5. CASE \E c \in Chan : Transfer(c)
      BY <2>5, TransferFacts DEF RingInv
    <2>6. CASE UNCHANGED mem
      BY <2>6 DEF mem, Poisoned, RingInv
    <2>7. QED
      BY <2>1, <2>2, <2>3, <2>4, <2>5, <2>6, WriterCases, ElsewhereFacts
  <1>6. Started' => \A b \in HBM : InRing(b)
    <2>1. CASE PoisonAll /\ lpc' = "get"
      <3>1. INFLIGHT = << >> /\ REFILLS = << >> /\ OPENS = << >>
        BY <2>1 DEF PoisonAll, At, FlightInv
      <3>2. \A b \in HBM : On(EMPTIES, b)
        BY <3>1, ShortLists DEF ListsInv, BuffersConserved
      <3>3. \A i \in 1 .. Len(EMPTIES) : word'[EMPTIES[i]] = POISON
        BY <2>1 DEF PoisonAll
      <3>4. \A b \in HBM : Poisoned(b)'
        BY <3>2, <3>3 DEF On, Poisoned
      <3>5. QED
        BY <1>5, <3>4
    <2>2. CASE ~(PoisonAll /\ lpc' = "get")
      <3>1. Started' => Started
        <4>1. CASE LoopStep
          BY <2>2, <4>1 DEF PhaseInv, Started, LoopStep, loop, app, At, CheckFifo, LoadDmac, PoisonAll, GetEmpty,
                GotEmpties, NoEmpty, DmaDone, ToldToStop, PutFull, NextGroup, DiscardFull, HoldAgain, Quit
        <4>2. CASE AppStep
          BY <4>2 DEF PhaseInv, Started, AppStep, loop, app, OpenDevice, EnableAggregator, PutEmpty, GetFull, Release, Stopped
        <4>3. CASE (\E c \in Chan : Transfer(c)) \/ UNCHANGED vars
          BY <4>3 DEF Transfer, vars, loop, app, Started
        <4>4. QED
          BY <4>1, <4>2, <4>3 DEF Next
      <3>2. QED
        BY <3>1 DEF Started, RingInv
    <2>3. QED
      BY <2>1, <2>2
  <1>7. QED
    BY <1>1, <1>4, <1>5, <1>6 DEF RingInv, Started

\* Neither the number of channels nor the delay changes.
LEMMA TimingStands ==
  ASSUME [Next]_vars
  PROVE  UNCHANGED <<nchan, margin, outlasts>>
  BY DEF Next, LoopStep, AppStep, vars, LoadDmac, PoisonAll, GetEmpty, GotEmpties, NoEmpty, DmaDone,
     ToldToStop, PutFull, NextGroup, DiscardFull, HoldAgain, Quit, OpenDevice, EnableAggregator,
     PutEmpty, GetFull, Release, Stopped, Transfer

LEMMA FlightLoop ==
  ASSUME AxiTypeOK, ListsInv, StashInv, FlightInv, LoopStep
  PROVE  FlightInv'
  <1> USE DEF At
  <1>0. outlasts' = outlasts
    BY TimingStands DEF Next
  <1>1. /\ nchan' = nchan /\ nchan \in 1 .. 2 /\ todo \in 0 .. nchan
        /\ hbm \in Seq(HBM) /\ Len(INFLIGHT) \in Nat
    BY MoveLists DEF AxiTypeOK, LoopStep, LoadDmac, PoisonAll, GetEmpty, GotEmpties, NoEmpty, DmaDone,
           ToldToStop, PutFull, NextGroup, DiscardFull, HoldAgain, Quit
  <1>2. CASE LoadDmac \/ ToldToStop \/ Quit
    <2>1. UNCHANGED lists /\ (lpc = "load" \/ lpc' # "poison")
          /\ lpc' \in {"poison", "quit", "exited", "failed"}
      BY <1>2 DEF LoadDmac, ToldToStop, Quit
    <2>2. QED
      BY <2>1 DEF FlightInv, lists
  <1>3. CASE PoisonAll
    <2>1. INFLIGHT' = << >> /\ lpc' \in {"quit", "get"} /\ todo' = nchan
      BY <1>3 DEF PoisonAll, lists, FlightInv
    <2>2. Len(INFLIGHT') = 0 /\ \A b : ~On(INFLIGHT', b)
      BY <2>1, ShortLists
    <2>3. QED
      BY <1>1, <2>1, <2>2 DEF FlightInv
  <1>4. CASE GetEmpty
    <2>1. /\ lpc = "get" /\ lpc' = "get" /\ todo > 0 /\ todo' = todo - 1 /\ getEmpty
          /\ hbm' = Append(hbm, Head(EMPTIES))
      BY <1>4 DEF GetEmpty
    <2>2. /\ Head(EMPTIES) \in HBM /\ Len(INFLIGHT') = Len(INFLIGHT) + 1
          /\ \A b : On(INFLIGHT', b) <=> On(INFLIGHT, b) \/ b = Head(EMPTIES)
      BY <2>1, MoveLists
    <2>3. \A b : On(hbm', b) <=> On(hbm, b) \/ b = Head(EMPTIES)
      BY <1>1, <2>1, <2>2, AppendOn
    <2>4. \A b \in HBM : On(INFLIGHT', b) => On(hbm', b)
      BY <2>1, <2>2, <2>3 DEF FlightInv
    <2>5. Len(INFLIGHT') + todo' <= nchan
      BY <1>1, <2>1, <2>2 DEF FlightInv
    <2>6. QED
      BY <1>1, <2>1, <2>4, <2>5 DEF FlightInv
  <1>5. CASE GotEmpties
    <2>1. /\ lpc = "get" /\ todo = 0 /\ UNCHANGED <<INFLIGHT, hbm, word>>
          /\ \/ lpc' \in {"wait", "fail"}
             \/ /\ lpc' = "put" /\ todo' = nchan
                /\ \A i \in 1 .. Len(hbm) : word[hbm[i]] # POISON
      BY <1>5 DEF GotEmpties, CheckFifo, poison_overwritten, lists, mem
    <2>2. Len(INFLIGHT) <= nchan /\ \A b \in HBM : On(INFLIGHT, b) => On(hbm, b)
      BY <1>1, <2>1 DEF FlightInv
    <2>3. lpc' = "put" => \A b \in HBM : On(INFLIGHT, b) => word[b] # POISON
      BY <2>1, <2>2 DEF On
    <2>4. QED
      BY <1>1, <2>1, <2>2, <2>3 DEF FlightInv, Poisoned
  <1>6. CASE NoEmpty
    <2>1. lpc = "get" /\ todo > 0 /\ nchan = 1 /\ INFLIGHT' = INFLIGHT /\ lpc' \in {"exhausted", "fail"}
      BY <1>6 DEF NoEmpty, CheckFifo, lists
    <2>2. Len(INFLIGHT) = 0
      BY <1>1, <2>1 DEF FlightInv
    <2>3. INFLIGHT' = << >>
      BY <2>1, <2>2, MoveLists
    <2>4. QED
      BY <2>1, <2>3 DEF FlightInv
  <1>7. CASE DmaDone
    <2>1. /\ lpc = "wait" /\ lpc' = "put" /\ todo' = nchan /\ UNCHANGED <<INFLIGHT, word>>
          /\ outlasts => \A i \in 1 .. Len(hbm) : On(INFLIGHT, hbm[i]) => word[hbm[i]] # POISON
      BY <1>7 DEF DmaDone, poison_overwritten, lists, mem
    <2>2. Len(INFLIGHT) <= nchan /\ \A b \in HBM : On(INFLIGHT, b) => On(hbm, b)
      BY <2>1 DEF FlightInv
    <2>3. outlasts => \A b \in HBM : On(INFLIGHT, b) => word[b] # POISON
      BY <2>1, <2>2 DEF On
    <2>4. QED
      BY <1>0, <1>1, <2>1, <2>2, <2>3 DEF FlightInv, Poisoned
  <1>8. CASE PutFull
    <2>1. /\ lpc = "put" /\ lpc' = "put" /\ todo > 0 /\ todo' = todo - 1 /\ word' = word
          /\ putFull \/ (INFLIGHT = << >> /\ INFLIGHT' = INFLIGHT)
      BY <1>8 DEF PutFull, lists, mem
    <2>2. Len(INFLIGHT') <= todo' /\ \A b : On(INFLIGHT', b) => On(INFLIGHT, b)
      BY <1>1, <2>1, MoveLists DEF FlightInv
    <2>3. QED
      BY <1>0, <1>1, <2>1, <2>2 DEF FlightInv, Poisoned
  <1>9. CASE NextGroup
    <2>1. /\ lpc = "put" /\ todo = 0 /\ INFLIGHT' = INFLIGHT
          /\ lpc' \in {"wait", "fail"} \/ (lpc' = "get" /\ todo' = nchan)
      BY <1>9 DEF NextGroup, CheckFifo, lists
    <2>2. Len(INFLIGHT) = 0
      BY <1>1, <2>1 DEF FlightInv
    <2>3. INFLIGHT' = << >> /\ Len(INFLIGHT') = 0
      BY <2>1, <2>2, MoveLists
    <2>4. \A b : ~On(INFLIGHT', b)
      BY <2>3, ShortLists
    <2>5. QED
      BY <1>1, <2>1, <2>3, <2>4 DEF FlightInv
  <1>10. CASE DiscardFull
    <2>1. lpc = "exhausted" /\ INFLIGHT' = INFLIGHT /\ lpc' = "again"
      BY <1>10 DEF DiscardFull, moveRefillsToEmpty
    <2>2. QED
      BY <2>1 DEF FlightInv
  <1>11. CASE HoldAgain
    <2>1. CASE lpc' = "fail"
      BY <2>1 DEF FlightInv
    <2>2. CASE lpc' # "fail"
      <3>1. lpc = "again" /\ lpc' = "wait" /\ getEmpty /\ hbm' = <<Head(EMPTIES)>>
        BY <1>11, <2>2 DEF HoldAgain
      <3>2. /\ Head(EMPTIES) \in HBM /\ Len(INFLIGHT') = 1
            /\ \A b : On(INFLIGHT', b) <=> b = Head(EMPTIES)
        BY <3>1, MoveLists, ShortLists DEF FlightInv
      <3>3. \A b : On(hbm', b) <=> b = Head(EMPTIES)
        BY <3>1, <3>2, ShortLists
      <3>4. QED
        BY <1>1, <3>1, <3>2, <3>3 DEF FlightInv
    <2>3. QED
      BY <2>1, <2>2
  <1>12. QED
    BY <1>2, <1>3, <1>4, <1>5, <1>6, <1>7, <1>8, <1>9, <1>10, <1>11 DEF LoopStep

LEMMA FlightStep ==
  ASSUME AxiTypeOK, ListsInv, StashInv, PhaseInv, FlightInv, [Next]_vars
  PROVE  FlightInv'
  <1>0. outlasts' = outlasts
    BY TimingStands
  <1>1. CASE LoopStep
    BY <1>1, FlightLoop
  <1>2. CASE OpenDevice
    BY <1>2 DEF OpenDevice, FlightInv
  <1>3. CASE EnableAggregator \/ Release \/ UNCHANGED vars
    <2>1. UNCHANGED <<EMPTIES, INFLIGHT, REFILLS, OPENS, word, lpc, hbm, todo, nchan>>
      BY <1>3 DEF EnableAggregator, Release, vars, lists, mem, loop
    <2>2. QED
      BY <1>0, <2>1 DEF FlightInv, Poisoned
  <1>4. CASE PutEmpty
    <2>1. /\ UNCHANGED <<INFLIGHT, REFILLS, lpc, hbm, todo, nchan>> /\ putEmpty /\ poison({Head(OPENS)})
          /\ OPENS # << >>
      BY <1>4 DEF PutEmpty, putEmpty, loop
    <2>2. \A b \in HBM : On(INFLIGHT, b) => b # Head(OPENS)
      BY <2>1, MoveLists, OneList
    <2>3. \A b \in HBM : On(INFLIGHT, b) /\ ~Poisoned(b) => ~Poisoned(b)'
      BY <2>1, <2>2, PoisonFacts
    <2>4. QED
      BY <1>0, <2>1, <2>3 DEF FlightInv
  <1>5. CASE GetFull
    <2>1. UNCHANGED <<INFLIGHT, word, lpc, hbm, todo, nchan>> /\ REFILLS # << >>
      BY <1>5 DEF GetFull, getFull, mem, loop
    <2>2. QED
      BY <1>0, <2>1 DEF FlightInv, Poisoned
  <1>6. CASE Stopped
    <2>1. lpc' \in {"exited", "failed"}
      BY <1>6 DEF Stopped, loop
    <2>2. QED
      BY <1>0, <2>1 DEF FlightInv
  <1>7. CASE \E c \in Chan : Transfer(c)
    <2>1. /\ UNCHANGED <<INFLIGHT, REFILLS, OPENS, lpc, hbm, todo, nchan>>
          /\ \A b \in HBM : Poisoned(b)' => Poisoned(b)
      BY <1>7, TransferFacts DEF lists
    <2>2. QED
      BY <1>0, <2>1 DEF FlightInv
  <1>8. QED
    BY <1>1, <1>2, <1>3, <1>4, <1>5, <1>6, <1>7 DEF Next, AppStep

LEMMA CleanStep ==
  ASSUME AxiTypeOK, ListsInv, StashInv, PhaseInv, FlightInv, RingInv, CleanInv, [Next]_vars
  PROVE  CleanInv'
  <1> USE DEF At
  <1>0. outlasts' = outlasts
    BY TimingStands
  <1>1. CASE PoisonAll
    <2>1. lpc = "poison" /\ REFILLS' = << >> /\ OPENS' = << >> /\ lpc' # "exited"
      BY <1>1 DEF PoisonAll, lists, FlightInv
    <2>2. QED
      BY <1>0, <2>1, ShortLists DEF CleanInv
  <1>2. CASE HoldAgain
    <2>1. CASE lpc' = "fail"
      <3>1. UNCHANGED <<REFILLS, OPENS, word>>
        BY <1>2, <2>1 DEF HoldAgain, lists, mem
      <3>2. QED
        BY <1>0, <2>1, <3>1 DEF CleanInv, Poisoned
    <2>2. CASE lpc' # "fail"
      <3>1. getEmpty /\ poison({Head(EMPTIES)}) /\ lpc' = "wait" /\ UNCHANGED <<REFILLS, OPENS>>
        BY <1>2, <2>2 DEF HoldAgain, getEmpty
      <3>2. \A b \in HBM : On(REFILLS, b) \/ On(OPENS, b) => b # Head(EMPTIES)
        BY <3>1, MoveLists, OneList
      <3>3. outlasts => \A b \in HBM : On(REFILLS, b) \/ On(OPENS, b) => ~Poisoned(b)'
        BY <3>1, <3>2, PoisonFacts DEF CleanInv
      <3>4. QED
        BY <1>0, <3>1, <3>3 DEF CleanInv
    <2>3. QED
      BY <2>1, <2>2
  <1>3. CASE PutEmpty
    <2>1. putEmpty /\ poison({Head(OPENS)}) /\ cpc = "open" /\ UNCHANGED <<REFILLS, lpc>>
      BY <1>3 DEF PutEmpty, putEmpty, loop
    <2>2. \A b \in HBM : On(REFILLS, b) \/ On(OPENS', b) => b # Head(OPENS) /\ (On(REFILLS, b) \/ On(OPENS, b))
      BY <2>1, MoveLists, OneList
    <2>3. outlasts => \A b \in HBM : On(REFILLS, b) \/ On(OPENS', b) => ~Poisoned(b)'
      BY <2>1, <2>2, PoisonFacts DEF CleanInv
    <2>4. lpc # "exited"
      BY <2>1 DEF PhaseInv
    <2>5. QED
      BY <1>0, <2>1, <2>3, <2>4 DEF CleanInv
  <1>4. CASE Quit
    <2> DEFINE B == {ring[c][i] : c \in Chan, i \in 1 .. nbuffers \div nchan}
    <2>1. lpc \in {"quit", "fail"} /\ clear_poison(B) /\ UNCHANGED <<REFILLS, OPENS>>
      BY <1>4 DEF Quit, lists
    <2>2. \A b \in HBM : InRing(b) <=> b \in B
      BY <2>1 DEF RingInv
    <2> HIDE DEF B
    <2>3. \A b \in HBM : ~Poisoned(b)'
      BY <2>1, <2>2, ClearFacts DEF RingInv
    <2>4. QED
      BY <2>3 DEF CleanInv
  <1>5. CASE \E c \in Chan : Transfer(c)
    <2>1. UNCHANGED <<REFILLS, OPENS, lpc>> /\ \A b \in HBM : Poisoned(b)' => Poisoned(b)
      BY <1>5, TransferFacts DEF lists
    <2>2. QED
      BY <1>0, <2>1 DEF CleanInv
  <1>6. CASE PutFull
    <2>1. lpc = "put" /\ lpc' = "put" /\ UNCHANGED <<word, OPENS>> /\ (putFull \/ REFILLS' = REFILLS)
      BY <1>6 DEF PutFull, putFull, lists, mem
    <2>2. \A b \in HBM : On(REFILLS', b) => On(REFILLS, b) \/ On(INFLIGHT, b)
      BY <2>1, MoveLists
    <2>3. QED
      BY <1>0, <2>1, <2>2 DEF CleanInv, FlightInv, Poisoned
  <1>7. CASE GetFull
    <2>1. getFull /\ UNCHANGED <<word, lpc>>
      BY <1>7 DEF GetFull, mem, loop
    <2>2. \A b : On(REFILLS', b) \/ On(OPENS', b) => On(REFILLS, b) \/ On(OPENS, b)
      BY <2>1, MoveLists
    <2>3. QED
      BY <1>0, <2>1, <2>2 DEF CleanInv, Poisoned
  <1>8. CASE DiscardFull
    <2>1. UNCHANGED <<word, OPENS>> /\ REFILLS' = << >> /\ lpc' = "again"
      BY <1>8 DEF DiscardFull, moveRefillsToEmpty, mem
    <2>2. QED
      BY <1>0, <2>1, ShortLists DEF CleanInv, Poisoned
  <1>9. CASE OpenDevice \/ Stopped
    <2>1. UNCHANGED word /\ REFILLS' = << >> /\ OPENS' = << >> /\ (lpc' = "exited" => lpc = "exited")
      BY <1>9 DEF OpenDevice, Stopped, mem, loop
    <2>2. QED
      BY <1>0, <2>1, ShortLists DEF CleanInv, Poisoned
  <1>10. CASE \/ LoadDmac \/ GetEmpty \/ GotEmpties \/ NoEmpty \/ DmaDone \/ ToldToStop
              \/ NextGroup \/ EnableAggregator \/ Release \/ UNCHANGED vars
    <2>1. UNCHANGED <<word, REFILLS, OPENS>> /\ (lpc' = "exited" => lpc = "exited")
      BY <1>10 DEF LoadDmac, GetEmpty, GotEmpties, NoEmpty, DmaDone, ToldToStop, NextGroup,
                   EnableAggregator, Release, vars, getEmpty, lists, mem, loop, CheckFifo
    <2>2. QED
      BY <1>0, <2>1 DEF CleanInv, Poisoned
  <1>11. QED
    BY <1>1, <1>2, <1>3, <1>4, <1>5, <1>6, <1>7, <1>8, <1>9, <1>10 DEF Next, LoopStep, AppStep

LEMMA AxiStart == Init => AxiInv
  <1> SUFFICES ASSUME Init PROVE AxiInv
    OBVIOUS
  <1>1. ListsInv
    BY InitConserves DEF Init
  <1>2. /\ nchan \in 1 .. 2 /\ lpc = "none" /\ cpc = "closed" /\ ~task_active /\ ~should_stop
        /\ sent = [c \in Chan |-> 0] /\ word = [b \in HBM |-> 0] /\ body = word /\ stash = word
        /\ hbm = << >> /\ todo = 0 /\ REFILLS = << >> /\ OPENS = << >>
    BY DEF Init, ListsInit
  <1>3. AxiTypeOK
    BY <1>2, ShortLists DEF AxiTypeOK
  <1>4. StashInv /\ \A b \in HBM : ~Poisoned(b)
    BY <1>2 DEF StashInv, Poisoned, POISON
  <1>5. PhaseInv /\ FlightInv
    BY <1>2 DEF PhaseInv, FlightInv
  <1>6. RingInv /\ CleanInv
    BY <1>2, <1>4 DEF RingInv, CleanInv
  <1>7. QED
    BY <1>1, <1>3, <1>4, <1>5, <1>6 DEF AxiInv

LEMMA AxiInvariant == Spec => []AxiInv
  <1>1. AxiInv /\ [Next]_vars => AxiInv'
    BY TypeStep, ListsStep, StashStep, PhaseStep, FlightStep, RingStep, CleanStep DEF AxiInv
  <1>2. QED
    BY <1>1, AxiStart, PTL DEF Spec

----------------------------------------------------------------------------
(* The results.                                                            *)

\* No buffer of an AXI64 capture is lost or on two lists, whatever the loop,
\* the application and the DMAC do, and in whatever order; acq400_lists.c.
THEOREM AxiConserves == Spec => []BuffersConserved
  <1>1. AxiInv => BuffersConserved
    BY DEF AxiInv, ListsInv
  <1>2. QED
    BY <1>1, AxiInvariant, PTL

\* With any number of buffers and however late the loop is: no poison reaches the
\* application of axi64_data_loop(), nor that of axi64_dual_data_loop() if
\* axi64_dual_poison_udelay outlasts the time one channel is behind the other; and
\* whatever the delay, when the loop has stopped as told,
\* clear_poison_all_buffers() has put all the data back.
THEOREM NoPoisonDelivered == Spec => []BlocksWhole
  <1>1. ASSUME AxiInv PROVE BlocksWhole
    <2>1. \A b \in HBM : ~Poisoned(b) => word[b] = body[b]
      BY <1>1 DEF AxiInv, StashInv
    <2>2. \A q \in Seq(HBM) : \A i \in 1 .. Len(q) : q[i] \in HBM /\ On(q, q[i])
      BY DEF On
    <2>3. REFILLS \in Seq(HBM) /\ OPENS \in Seq(HBM)
      BY <1>1 DEF AxiInv, ListsInv, ListsTypeOK
    <2>4. outlasts => \A i \in 1 .. Len(REFILLS) : word[REFILLS[i]] = body[REFILLS[i]]
      BY <1>1, <2>1, <2>2, <2>3 DEF AxiInv, CleanInv
    <2>5. outlasts => \A i \in 1 .. Len(OPENS) : word[OPENS[i]] = body[OPENS[i]]
      BY <1>1, <2>1, <2>2, <2>3 DEF AxiInv, CleanInv
    <2>6. lpc = "exited" => \A b \in HBM : word[b] = body[b]
      BY <1>1, <2>1 DEF AxiInv, CleanInv
    <2>7. lpc = "exited" => word = body
      <3>1. DOMAIN word = HBM /\ DOMAIN body = HBM /\ word = [b \in HBM |-> word[b]] /\ body = [b \in HBM |-> body[b]]
        BY <1>1 DEF AxiInv, AxiTypeOK
      <3>2. QED
        BY <2>6, <3>1
    <2>8. QED
      BY <2>4, <2>5, <2>7 DEF BlocksWhole
  <1>2. QED
    BY <1>1, AxiInvariant, PTL

----------------------------------------------------------------------------
(* The order of the ring: the loop follows the DMAC.                       *)
(*                                                                         *)
(* The four lists, OPENS first and EMPTIES last, hold the buffers in the   *)
(* order of the ring, and while the loop runs they hold one block after    *)
(* the other: block first + i is, or will be, in the i-th buffer.          *)

opened == Len(OPENS)

\* The i-th buffer of four lists that follow each other.
Item(q, r, s, t, i) ==
  IF i <= Len(q) THEN q[i]
  ELSE IF i <= Len(q) + Len(r) THEN r[i - Len(q)]
  ELSE IF i <= Len(q) + Len(r) + Len(s) THEN s[i - (Len(q) + Len(r))]
  ELSE t[i - (Len(q) + Len(r) + Len(s))]

Nth(i) == Item(OPENS, REFILLS, INFLIGHT, EMPTIES, i)

\* The lists together are as long as there are buffers.
LEMMA ListLengths ==
  ASSUME ListsInv
  PROVE  /\ EMPTIES \in Seq(HBM) /\ INFLIGHT \in Seq(HBM) /\ REFILLS \in Seq(HBM) /\ OPENS \in Seq(HBM)
         /\ opened \in Nat /\ Len(REFILLS) \in Nat /\ Len(INFLIGHT) \in Nat /\ Len(EMPTIES) \in Nat
         /\ opened + Len(REFILLS) + Len(INFLIGHT) + Len(EMPTIES) = nbuffers
         /\ nbuffers \in Nat /\ nbuffers >= 1
  <1> DEFINE q == EMPTIES \o OPENS \o REFILLS \o INFLIGHT
  <1>1. EMPTIES \in Seq(HBM) /\ INFLIGHT \in Seq(HBM) /\ REFILLS \in Seq(HBM) /\ OPENS \in Seq(HBM)
    BY DEF ListsInv, ListsTypeOK
  <1>2. opened \in Nat /\ Len(REFILLS) \in Nat /\ Len(INFLIGHT) \in Nat /\ Len(EMPTIES) \in Nat
    BY <1>1 DEF opened
  <1>3. Len(q) = Len(EMPTIES) + opened + Len(REFILLS) + Len(INFLIGHT)
    <2>1. EMPTIES \o OPENS \in Seq(HBM) /\ Len(EMPTIES \o OPENS) = Len(EMPTIES) + opened
      BY <1>1 DEF opened
    <2>2. /\ EMPTIES \o OPENS \o REFILLS \in Seq(HBM)
          /\ Len(EMPTIES \o OPENS \o REFILLS) = Len(EMPTIES \o OPENS) + Len(REFILLS)
      BY <1>1, <2>1
    <2>3. Len(q) = Len(EMPTIES \o OPENS \o REFILLS) + Len(INFLIGHT)
      BY <1>1, <2>2
    <2>4. QED
      BY <1>2, <2>1, <2>2, <2>3
  <1>4. q \in Seq(HBM) /\ NoRepeat(q) /\ \A b \in HBM : On(q, b)
    BY AllLists
  <1> HIDE DEF q
  <1>5. Len(q) = nbuffers
    BY <1>4, FullList
  <1>6. opened + Len(REFILLS) + Len(INFLIGHT) + Len(EMPTIES) = nbuffers
    <2> DEFINE a == opened
               b == Len(REFILLS)
               c == Len(INFLIGHT)
               d == Len(EMPTIES)
    <2>1. a \in Nat /\ b \in Nat /\ c \in Nat /\ d \in Nat /\ d + a + b + c = nbuffers
      BY <1>2, <1>3, <1>5
    <2> HIDE DEF a, b, c, d
    <2>2. a + b + c + d = nbuffers
      BY <2>1
    <2>3. QED
      BY <2>2 DEF a, b, c, d
  <1>7. QED
    BY <1>1, <1>2, <1>6, NBuffersAssumption

\* Where the lists begin among the buffers.
LEMMA NthOfLists ==
  ASSUME ListsInv
  PROVE  /\ \A i \in 1 .. opened : Nth(i) = OPENS[i]
         /\ \A i \in 1 .. Len(REFILLS) : opened + i \in opened + 1 .. nbuffers /\ Nth(opened + i) = REFILLS[i]
         /\ \A i \in 1 .. Len(INFLIGHT) : Nth(opened + Len(REFILLS) + i) = INFLIGHT[i]
         /\ \A i \in 1 .. Len(EMPTIES) : Nth(opened + Len(REFILLS) + Len(INFLIGHT) + i) = EMPTIES[i]
         /\ \A i \in 1 .. nbuffers : Nth(i) \in HBM
  <1>1. /\ EMPTIES \in Seq(HBM) /\ INFLIGHT \in Seq(HBM) /\ REFILLS \in Seq(HBM) /\ OPENS \in Seq(HBM)
        /\ opened \in Nat /\ Len(REFILLS) \in Nat /\ Len(INFLIGHT) \in Nat /\ Len(EMPTIES) \in Nat
        /\ opened + Len(REFILLS) + Len(INFLIGHT) + Len(EMPTIES) = nbuffers /\ nbuffers \in Nat
    BY ListLengths
  <1> DEFINE a == opened
             b == Len(REFILLS)
             c == Len(INFLIGHT)
             d == Len(EMPTIES)
  <1>2. a \in Nat /\ b \in Nat /\ c \in Nat /\ d \in Nat /\ a + b + c + d = nbuffers
    BY <1>1
  <1>20. \A i \in Int : Nth(i) = IF i <= a THEN OPENS[i] ELSE IF i <= a + b THEN REFILLS[i - a]
                                 ELSE IF i <= a + b + c THEN INFLIGHT[i - (a + b)]
                                 ELSE EMPTIES[i - (a + b + c)]
    BY DEF Nth, Item, opened
  <1>21. /\ \A i \in 1 .. a : OPENS[i] \in HBM
         /\ \A i \in 1 .. b : REFILLS[i] \in HBM
         /\ \A i \in 1 .. c : INFLIGHT[i] \in HBM
         /\ \A i \in 1 .. d : EMPTIES[i] \in HBM
    BY <1>1 DEF opened
  <1> HIDE DEF a, b, c, d
  <1>3. ASSUME NEW i \in 1 .. nbuffers PROVE Nth(i) \in HBM
    <2>1. CASE i <= a
      BY <1>2, <1>20, <1>21, <2>1
    <2>2. CASE i > a /\ i <= a + b
      <3>1. i - a \in 1 .. b /\ Nth(i) = REFILLS[i - a]
        BY <1>2, <1>20, <2>2
      <3>2. QED
        BY <1>21, <3>1
    <2>3. CASE i > a + b /\ i <= a + b + c
      <3>1. i - (a + b) \in 1 .. c /\ Nth(i) = INFLIGHT[i - (a + b)]
        BY <1>2, <1>20, <2>3
      <3>2. QED
        BY <1>21, <3>1
    <2>4. CASE i > a + b + c
      <3>1. i - (a + b + c) \in 1 .. d /\ Nth(i) = EMPTIES[i - (a + b + c)]
        BY <1>2, <1>20, <2>4
      <3>2. QED
        BY <1>21, <3>1
    <2>5. QED
      BY <1>2, <2>1, <2>2, <2>3, <2>4
  <1>4. ASSUME NEW i \in 1 .. a PROVE Nth(i) = OPENS[i]
    BY <1>2, <1>20
  <1>5. ASSUME NEW i \in 1 .. b PROVE a + i \in a + 1 .. nbuffers /\ Nth(a + i) = REFILLS[i]
    <2>1. a + i > a /\ a + i <= a + b /\ (a + i) - a = i /\ a + i \in a + 1 .. nbuffers
      BY <1>2
    <2>2. QED
      BY <1>2, <1>20, <2>1
  <1>6. ASSUME NEW i \in 1 .. c PROVE Nth(a + b + i) = INFLIGHT[i]
    <2>1. a + b + i > a + b /\ a + b + i <= a + b + c /\ (a + b + i) - (a + b) = i
      BY <1>2
    <2>2. QED
      BY <1>2, <1>20, <2>1
  <1>7. ASSUME NEW i \in 1 .. d PROVE Nth(a + b + c + i) = EMPTIES[i]
    <2>1. a + b + c + i > a + b + c /\ (a + b + c + i) - (a + b + c) = i
      BY <1>2
    <2>2. QED
      BY <1>2, <1>20, <2>1
  <1>8. QED
    BY <1>3, <1>4, <1>5, <1>6, <1>7 DEF a, b, c, d

\* A buffer that goes from the head of a list to the tail of the list before it
\* keeps its place ...
LEMMA ItemStays ==
  ASSUME NEW q \in Seq(HBM), NEW r \in Seq(HBM), NEW s \in Seq(HBM), NEW t \in Seq(HBM), NEW i \in Nat, i >= 1,
         i <= Len(q) + Len(r) + Len(s) + Len(t)
  PROVE  /\ t # << >> => Item(q, r, Append(s, Head(t)), Tail(t), i) = Item(q, r, s, t, i)
         /\ s # << >> => Item(q, Append(r, Head(s)), Tail(s), t, i) = Item(q, r, s, t, i)
         /\ r # << >> => Item(Append(q, Head(r)), Tail(r), s, t, i) = Item(q, r, s, t, i)
  <1>1. PICK a \in Nat, b \in Nat, c \in Nat, d \in Nat :
          a = Len(q) /\ b = Len(r) /\ c = Len(s) /\ d = Len(t)
    <2>1. Len(q) \in Nat /\ Len(r) \in Nat /\ Len(s) \in Nat /\ Len(t) \in Nat
      OBVIOUS
    <2>2. QED
      BY <2>1
  <1>2. i <= a + b + c + d
    BY <1>1
  <1> DEFINE j == a + b
             k == a + b + c
             x == Item(q, r, s, t, i)
  <1>3. /\ i <= a => x = q[i]
        /\ i > a /\ i <= j => x = r[i - a]
        /\ i > j /\ i <= k => x = s[i - j]
        /\ i > k => x = t[i - k]
    BY <1>1 DEF Item
  <1>30. j \in Nat /\ k \in Nat /\ j = a + b /\ k = j + c /\ i <= k + d
    BY <1>2
  <1> HIDE DEF j, k, x
  <1>4. ASSUME t # << >>
        PROVE  Item(q, r, Append(s, Head(t)), Tail(t), i) = x
    <2> DEFINE u == Append(s, Head(t))
               v == Tail(t)
               y == Item(q, r, u, v, i)
    <2> SUFFICES y = x
      OBVIOUS
    <2>1. /\ Len(u) = c + 1 /\ Len(v) = d - 1 /\ d >= 1
          /\ (\A n \in 1 .. c : u[n] = s[n]) /\ u[c + 1] = t[1]
          /\ \A n \in 1 .. d - 1 : v[n] = t[n + 1]
      BY <1>1, <1>4, HeadTailFacts, AppendFacts
    <2> HIDE DEF u, v
    <2>11. Len(q) + Len(r) = j /\ Len(q) + Len(r) + Len(u) = k + 1
      BY <1>1, <1>30, <2>1
    <2>2. /\ i <= a => y = q[i]
          /\ i > a /\ i <= j => y = r[i - a]
          /\ i > j /\ i <= k + 1 => y = u[i - j]
          /\ i > k + 1 => y = v[i - (k + 1)]
      BY <1>1, <2>1, <2>11 DEF Item
    <2> HIDE DEF y
    <2>3. CASE i <= j
      BY <1>3, <1>30, <2>2, <2>3
    <2>4. CASE i > j /\ i <= k
      <3>1. i - j \in 1 .. c
        BY <1>30, <2>4
      <3>2. x = s[i - j] /\ y = u[i - j]
        BY <1>3, <1>30, <2>2, <2>4
      <3>3. QED
        BY <2>1, <3>1, <3>2
    <2>5. CASE i = k + 1
      <3>1. i - j = c + 1 /\ i - k = 1 /\ i > j
        BY <1>30, <2>5
      <3>2. x = t[1] /\ y = u[c + 1]
        BY <1>3, <1>30, <2>2, <2>5, <2>11, <3>1
      <3>3. QED
        BY <2>1, <3>2
    <2>6. CASE i > k + 1 /\ i <= k + d
      <3>1. i - (k + 1) \in 1 .. d - 1 /\ (i - (k + 1)) + 1 = i - k
        BY <1>30, <2>6
      <3>2. x = t[i - k] /\ y = v[i - (k + 1)]
        BY <1>3, <1>30, <2>2, <2>6
      <3>3. QED
        BY <2>1, <3>1, <3>2
    <2>7. CASE i > k + d
      BY <1>3, <1>30, <2>2, <2>7
    <2>8. QED
      BY <1>30, <2>3, <2>4, <2>5, <2>6, <2>7
  <1>5. ASSUME s # << >>
        PROVE  Item(q, Append(r, Head(s)), Tail(s), t, i) = x
    <2> DEFINE u == Append(r, Head(s))
               v == Tail(s)
               y == Item(q, u, v, t, i)
    <2> SUFFICES y = x
      OBVIOUS
    <2>1. /\ Len(u) = b + 1 /\ Len(v) = c - 1 /\ c >= 1
          /\ (\A n \in 1 .. b : u[n] = r[n]) /\ u[b + 1] = s[1]
          /\ \A n \in 1 .. c - 1 : v[n] = s[n + 1]
      BY <1>1, <1>5, HeadTailFacts, AppendFacts
    <2> HIDE DEF u, v
    <2>11. Len(q) + Len(u) = j + 1 /\ Len(q) + Len(u) + Len(v) = k /\ c >= 1
      BY <1>1, <1>30, <2>1
    <2>2. /\ i <= a => y = q[i]
          /\ i > a /\ i <= j + 1 => y = u[i - a]
          /\ i > j + 1 /\ i <= k => y = v[i - (j + 1)]
          /\ i > k => y = t[i - k]
      BY <1>1, <2>1, <2>11 DEF Item
    <2> HIDE DEF y
    <2>3. CASE i <= a
      BY <1>3, <1>30, <2>2, <2>3
    <2>4. CASE i > a /\ i <= j
      <3>1. i - a \in 1 .. b
        BY <1>30, <2>4
      <3>2. x = r[i - a] /\ y = u[i - a]
        BY <1>3, <1>30, <2>2, <2>4
      <3>3. QED
        BY <2>1, <3>1, <3>2
    <2>5. CASE i = j + 1
      <3>1. i - a = b + 1 /\ i - j = 1 /\ i > a
        BY <1>30, <2>5
      <3>2. i > j /\ i <= k /\ i <= j + 1
        BY <1>30, <2>5, <2>11
      <3>3. x = s[i - j] /\ y = u[i - a]
        BY <1>3, <2>2, <3>1, <3>2
      <3>4. QED
        BY <2>1, <3>1, <3>3
    <2>6. CASE i > j + 1 /\ i <= j + c
      <3>1. i - (j + 1) \in 1 .. c - 1 /\ (i - (j + 1)) + 1 = i - j
        BY <1>30, <2>6
      <3>2. x = s[i - j] /\ y = v[i - (j + 1)]
        BY <1>3, <1>30, <2>2, <2>6
      <3>3. QED
        BY <2>1, <3>1, <3>2
    <2>7. CASE i > j + c
      BY <1>3, <1>30, <2>2, <2>7
    <2>8. QED
      BY <1>30, <2>3, <2>4, <2>5, <2>6, <2>7
  <1>6. ASSUME r # << >>
        PROVE  Item(Append(q, Head(r)), Tail(r), s, t, i) = x
    <2> DEFINE u == Append(q, Head(r))
               v == Tail(r)
               y == Item(u, v, s, t, i)
    <2> SUFFICES y = x
      OBVIOUS
    <2>1. /\ Len(u) = a + 1 /\ Len(v) = b - 1 /\ b >= 1
          /\ (\A n \in 1 .. a : u[n] = q[n]) /\ u[a + 1] = r[1]
          /\ \A n \in 1 .. b - 1 : v[n] = r[n + 1]
      BY <1>1, <1>6, HeadTailFacts, AppendFacts
    <2> HIDE DEF u, v
    <2>11. Len(u) = a + 1 /\ Len(u) + Len(v) = j /\ Len(u) + Len(v) + Len(s) = k /\ b >= 1
      BY <1>1, <1>30, <2>1
    <2>2. /\ i <= a + 1 => y = u[i]
          /\ i > a + 1 /\ i <= j => y = v[i - (a + 1)]
          /\ i > j /\ i <= k => y = s[i - j]
          /\ i > k => y = t[i - k]
      BY <1>1, <2>11 DEF Item
    <2> HIDE DEF y
    <2>3. CASE i <= 0
      BY <1>3, <1>30, <2>2, <2>3
    <2>4. CASE i > 0 /\ i <= a
      <3>1. i \in 1 .. a
        BY <1>30, <2>4
      <3>2. x = q[i] /\ y = u[i]
        BY <1>3, <1>30, <2>2, <2>4
      <3>3. QED
        BY <2>1, <3>1, <3>2
    <2>5. CASE i = a + 1
      <3>1. i = a + 1 /\ i - a = 1 /\ i > 0
        BY <1>30, <2>5
      <3>2. i > a /\ i <= j /\ i <= a + 1
        BY <1>30, <2>5, <2>11
      <3>3. x = r[i - a] /\ y = u[i]
        BY <1>3, <2>2, <3>1, <3>2
      <3>4. QED
        BY <2>1, <3>1, <3>3
    <2>6. CASE i > a + 1 /\ i <= a + b
      <3>1. i - (a + 1) \in 1 .. b - 1 /\ (i - (a + 1)) + 1 = i - a
        BY <1>30, <2>6
      <3>2. x = r[i - a] /\ y = v[i - (a + 1)]
        BY <1>3, <1>30, <2>2, <2>6
      <3>3. QED
        BY <2>1, <3>1, <3>2
    <2>7. CASE i > a + b
      BY <1>3, <1>30, <2>2, <2>7
    <2>8. QED
      BY <1>30, <2>3, <2>4, <2>5, <2>6, <2>7
  <1>7. QED
    BY <1>4, <1>5, <1>6 DEF x

\* ... and the first of all becomes the last.
LEMMA ItemRotates ==
  ASSUME NEW q \in Seq(HBM), NEW r \in Seq(HBM), NEW s \in Seq(HBM), NEW t \in Seq(HBM), q # << >>,
         NEW n \in Nat, n = Len(q) + Len(r) + Len(s) + Len(t)
  PROVE  /\ \A i \in 1 .. n - 1 : Item(Tail(q), r, s, Append(t, Head(q)), i) = Item(q, r, s, t, i + 1)
         /\ Item(Tail(q), r, s, Append(t, Head(q)), n) = Head(q)
         /\ Item(q, r, s, t, 1) = Head(q)
  <1>1. PICK a \in Nat, b \in Nat, c \in Nat, d \in Nat :
          a = Len(q) /\ b = Len(r) /\ c = Len(s) /\ d = Len(t)
    <2>1. Len(q) \in Nat /\ Len(r) \in Nat /\ Len(s) \in Nat /\ Len(t) \in Nat
      OBVIOUS
    <2>2. QED
      BY <2>1
  <1> DEFINE u == Tail(q)
             v == Append(t, Head(q))
             j == a + b
             k == a + b + c
  <1>2. /\ a >= 1 /\ Head(q) = q[1] /\ Len(u) = a - 1 /\ \A m \in 1 .. a - 1 : u[m] = q[m + 1]
    BY <1>1, HeadTailFacts
  <1>3. (\A m \in 1 .. d : v[m] = t[m]) /\ v[d + 1] = Head(q)
    BY <1>1, HeadTailFacts, AppendFacts
  <1> HIDE DEF u, v
  <1>4. Len(u) = a - 1 /\ Len(u) + Len(r) = j - 1 /\ Len(u) + Len(r) + Len(s) = k - 1
    BY <1>1, <1>2
  <1>5. j \in Nat /\ k \in Nat /\ a <= j /\ j = a + b /\ k = j + c /\ n = k + d
    BY <1>1
  <1> HIDE DEF j, k
  <1>6. ASSUME NEW i \in 1 .. n - 1 PROVE Item(u, r, s, v, i) = Item(q, r, s, t, i + 1)
    <2> DEFINE x == Item(q, r, s, t, i + 1)
               y == Item(u, r, s, v, i)
    <2>1. /\ i + 1 <= a => x = q[i + 1]
          /\ i + 1 > a /\ i + 1 <= j => x = r[(i + 1) - a]
          /\ i + 1 > j /\ i + 1 <= k => x = s[(i + 1) - j]
          /\ i + 1 > k => x = t[(i + 1) - k]
      BY <1>1, <1>5 DEF Item
    <2>2. /\ i <= a - 1 => y = u[i]
          /\ i > a - 1 /\ i <= j - 1 => y = r[i - (a - 1)]
          /\ i > j - 1 /\ i <= k - 1 => y = s[i - (j - 1)]
          /\ i > k - 1 => y = v[i - (k - 1)]
      <3> DEFINE e == a - 1
                 f == j - 1
                 g == k - 1
      <3>1. e \in Int /\ f \in Int /\ g \in Int /\ e <= f /\ f <= g
        BY <1>5
      <3>2. Len(u) = e /\ Len(u) + Len(r) = f /\ Len(u) + Len(r) + Len(s) = g
        BY <1>4
      <3> HIDE DEF e, f, g
      <3>3. /\ i <= e => y = u[i]
            /\ i > e /\ i <= f => y = r[i - e]
            /\ i > f /\ i <= g => y = s[i - f]
            /\ i > g => y = v[i - g]
        <4>1. i <= e => y = u[i]
          BY <3>1, <3>2 DEF Item
        <4>2. i > e /\ i <= f => y = r[i - e]
          BY <3>1, <3>2 DEF Item
        <4>3. i > f /\ i <= g => y = s[i - f]
          BY <3>1, <3>2 DEF Item
        <4>4. i > g => y = v[i - g]
          BY <3>1, <3>2 DEF Item
        <4>5. QED
          BY <4>1, <4>2, <4>3, <4>4
      <3>4. QED
        BY <3>3 DEF e, f, g
    <2> SUFFICES y = x
      OBVIOUS
    <2> HIDE DEF x, y
    <2>3. CASE i + 1 <= a
      <3>1. i \in 1 .. a - 1 /\ i <= a - 1
        BY <1>2, <2>3
      <3>2. QED
        BY <1>2, <2>1, <2>2, <2>3, <3>1
    <2>4. CASE i + 1 > a /\ i + 1 <= j
      <3>1. i > a - 1 /\ i <= j - 1 /\ i - (a - 1) = (i + 1) - a
        BY <1>5, <2>4
      <3>2. QED
        BY <2>1, <2>2, <2>4, <3>1
    <2>5. CASE i + 1 > j /\ i + 1 <= k
      <3>1. i > j - 1 /\ i <= k - 1 /\ i - (j - 1) = (i + 1) - j
        BY <1>5, <2>5
      <3>2. QED
        BY <2>1, <2>2, <2>5, <3>1
    <2>6. CASE i + 1 > k
      <3>1. i > k - 1 /\ i - (k - 1) = (i + 1) - k /\ (i + 1) - k \in 1 .. d
        BY <1>5, <2>6
      <3>2. QED
        BY <1>3, <2>1, <2>2, <2>6, <3>1
    <2>7. QED
      BY <1>5, <2>3, <2>4, <2>5, <2>6
  <1>7. Item(u, r, s, v, n) = Head(q)
    <2>1. n > a - 1 /\ n > j - 1 /\ n > k - 1 /\ n - (k - 1) = d + 1
      BY <1>5
    <2>2. Item(u, r, s, v, n) = v[n - (k - 1)]
      <3>1. ~(n <= a - 1) /\ ~(n <= j - 1) /\ ~(n <= k - 1)
        BY <1>5, <2>1
      <3>2. QED
        BY <1>4, <3>1 DEF Item
    <2>3. QED
      BY <1>3, <2>1, <2>2
  <1>8. Item(q, r, s, t, 1) = Head(q)
    BY <1>1, <1>2 DEF Item
  <1>9. QED
    BY <1>6, <1>7, <1>8 DEF u, v

\* What the moves between the lists do to the order.
LEMMA NthMoves ==
  ASSUME ListsInv
  PROVE  /\ getEmpty \/ putFull => opened' = opened /\ \A i \in 1 .. nbuffers : Nth(i)' = Nth(i)
         /\ getFull => /\ Len(REFILLS) >= 1 /\ Head(REFILLS) = Nth(opened + 1)
                       /\ opened' = opened + 1 /\ \A i \in 1 .. nbuffers : Nth(i)' = Nth(i)
         /\ putEmpty => /\ opened >= 1 /\ opened' = opened - 1 /\ Head(OPENS) = Nth(1)
                        /\ \A i \in 1 .. nbuffers - 1 : Nth(i)' = Nth(i + 1)
                        /\ Nth(nbuffers)' = Nth(1)
  <1>1. /\ EMPTIES \in Seq(HBM) /\ INFLIGHT \in Seq(HBM) /\ REFILLS \in Seq(HBM) /\ OPENS \in Seq(HBM)
        /\ opened \in Nat /\ Len(REFILLS) \in Nat /\ Len(INFLIGHT) \in Nat /\ Len(EMPTIES) \in Nat
        /\ opened + Len(REFILLS) + Len(INFLIGHT) + Len(EMPTIES) = nbuffers
        /\ nbuffers \in Nat /\ nbuffers >= 1
    BY ListLengths
  <1>2. \A i \in 1 .. nbuffers : i \in Nat /\ i >= 1 /\ i <= Len(OPENS) + Len(REFILLS) + Len(INFLIGHT) + Len(EMPTIES)
    BY <1>1 DEF opened
  <1>3. ASSUME getEmpty PROVE opened' = opened /\ \A i \in 1 .. nbuffers : Nth(i)' = Nth(i)
    BY <1>1, <1>2, <1>3, ItemStays DEF getEmpty, Nth, opened
  <1>4. ASSUME putFull PROVE opened' = opened /\ \A i \in 1 .. nbuffers : Nth(i)' = Nth(i)
    BY <1>1, <1>2, <1>4, ItemStays DEF putFull, Nth, opened
  <1>5. ASSUME getFull
        PROVE  /\ Len(REFILLS) >= 1 /\ Head(REFILLS) = Nth(opened + 1)
               /\ opened' = opened + 1 /\ \A i \in 1 .. nbuffers : Nth(i)' = Nth(i)
    <2>1. Len(REFILLS) >= 1 /\ Head(REFILLS) = REFILLS[1] /\ Head(REFILLS) \in HBM
      BY <1>1, <1>5, HeadTailFacts DEF getFull
    <2>2. opened' = opened + 1
      BY <1>1, <1>5, <2>1, AppendFacts DEF getFull, opened
    <2>3. Nth(opened + 1) = REFILLS[1]
      BY <1>1, <2>1, NthOfLists
    <2>4. \A i \in 1 .. nbuffers : Nth(i)' = Nth(i)
      BY <1>1, <1>2, <1>5, ItemStays DEF getFull, Nth
    <2>5. QED
      BY <2>1, <2>2, <2>3, <2>4
  <1>6. ASSUME putEmpty
        PROVE  /\ opened >= 1 /\ opened' = opened - 1 /\ Head(OPENS) = Nth(1)
               /\ \A i \in 1 .. nbuffers - 1 : Nth(i)' = Nth(i + 1)
               /\ Nth(nbuffers)' = Nth(1)
    <2>1. OPENS # << >> /\ nbuffers = Len(OPENS) + Len(REFILLS) + Len(INFLIGHT) + Len(EMPTIES)
      BY <1>1, <1>6 DEF putEmpty, opened
    <2>2. opened >= 1 /\ opened' = opened - 1
      BY <1>1, <1>6, <2>1, HeadTailFacts DEF putEmpty, opened
    <2>3. QED
      BY <1>1, <1>6, <2>1, <2>2, ItemRotates DEF putEmpty, Nth
  <1>7. QED
    BY <1>3, <1>4, <1>5, <1>6

\* Round the ring; x is less than three times round.
Wrap(x) == IF x < nbuffers THEN x ELSE IF x < 2 * nbuffers THEN x - nbuffers ELSE x - 2 * nbuffers

\* The block that a channel transfers next, and those that have been transferred:
\* one channel may be a block ahead.
NextBlock(c) == nchan * sent[c] + c + 1

Filled(n) == (\A c \in Chan : n <= nchan * sent[c]) \/ \E c \in Chan : n = NextBlock(c) - nchan

\* The channels are in step, and no block is in a buffer before its time.
PaceInv ==
  /\ margin \in Margins
  /\ \A c, d \in Chan : sent[c] <= sent[d] + 1
  /\ \A c \in Chan : sent[c] <= MaxBlocks
  /\ \A b \in HBM : \E c \in Chan : body[b] <= nchan * sent[c]
  /\ delivered \in Nat /\ \E c \in Chan : delivered <= nchan * sent[c]
  /\ flow => cpc = "open"

\* How a capture starts: with all the buffers empty and in order.
Walking == lpc \in {"poison", "get", "wait", "put", "exhausted", "again"}

StartInv ==
  /\ lpc \in {"load", "poison"} => cpc = "starting" /\ EMPTIES = [i \in 1 .. nbuffers |-> i - 1]
  /\ Walking => /\ ring = [c \in Chan |-> ChainOf(c)]
                /\ pos \in [Chan -> 1 .. nbuffers \div nchan]
  /\ lpc = "poison" => (\A c \in Chan : pos[c] = 1) /\ \A c, d \in Chan : sent[c] = sent[d]

\* The ring while the loop runs.  Each channel is at the buffer of its next block,
\* past the buffers the application has, and a buffer after those is poisoned or
\* holds its block.
Position(c, first) == NextBlock(c) - first
Target(c) == nchan * (pos[c] - 1) + c

Follows(first) ==
  /\ \A i \in 1 .. nbuffers : Nth(i) = Wrap((Nth(1) + i) - 1)
  /\ \A c \in Chan :
       /\ Position(c, first) > opened /\ Position(c, first) <= nbuffers + nchan
       /\ Target(c) = Wrap((Nth(1) + Position(c, first)) - 1)
       /\ nchan = 1 => Position(c, first) <= nbuffers
  /\ \A i \in opened + 1 .. nbuffers :
       /\ Poisoned(Nth(i)) <=> ~Filled(first + i)
       /\ ~Poisoned(Nth(i)) => body[Nth(i)] = first + i
  /\ delivered <= first + opened

FollowInv ==
  /\ lpc \notin {"exhausted", "again"}
  /\ lpc \in {"get", "wait", "put"} => \E first \in Nat : Follows(first)

\* What waits for the application is in order and new.
RisingInv ==
  /\ \A i \in 1 .. Len(REFILLS) : delivered < body[REFILLS[i]]
  /\ \A i, j \in 1 .. Len(REFILLS) : i < j => body[REFILLS[i]] < body[REFILLS[j]]

StreamInv == PaceInv /\ StartInv /\ (KeepsPlace => FollowInv /\ RisingInv)

----------------------------------------------------------------------------
(* The blocks.                                                             *)

\* One channel or two.
LEMMA Channels ==
  ASSUME AxiTypeOK
  PROVE  \/ nchan = 1 /\ Chan = {0} /\ sent[0] \in Nat
         \/ nchan = 2 /\ Chan = {0, 1} /\ sent[0] \in Nat /\ sent[1] \in Nat
  <1>1. CASE nchan = 1
    BY <1>1 DEF AxiTypeOK, Chan
  <1>2. CASE nchan = 2
    <2>1. Chan = {0, 1}
      BY <1>2 DEF Chan
    <2>2. QED
      BY <1>2, <2>1 DEF AxiTypeOK
  <1>3. QED
    BY <1>1, <1>2 DEF AxiTypeOK

\* What there is to know of the blocks, without the product.
LEMMA Blocks ==
  ASSUME AxiTypeOK
  PROVE  /\ nchan = 1 => /\ Chan = {0} /\ sent[0] \in Nat /\ NextBlock(0) = sent[0] + 1
                         /\ \A n \in Int : Filled(n) <=> n <= sent[0]
         /\ nchan = 2 => /\ Chan = {0, 1} /\ sent[0] \in Nat /\ sent[1] \in Nat
                         /\ NextBlock(0) = 2 * sent[0] + 1 /\ NextBlock(1) = 2 * sent[1] + 2
                         /\ \A n \in Int : Filled(n) <=> \/ n <= 2 * sent[0] /\ n <= 2 * sent[1]
                                                         \/ n = 2 * sent[0] - 1 \/ n = 2 * sent[1]
         /\ \A c \in Chan : NextBlock(c) \in Nat /\ NextBlock(c) >= 1
  <1>1. CASE nchan = 1
    <2>1. Chan = {0} /\ sent[0] \in Nat
      BY <1>1, Channels
    <2>2. NextBlock(0) = sent[0] + 1
      BY <1>1, <2>1 DEF NextBlock
    <2>3. \A n \in Int : Filled(n) <=> n <= sent[0]
      BY <1>1, <2>1, <2>2 DEF Filled
    <2>4. QED
      BY <1>1, <2>1, <2>2, <2>3
  <1>2. CASE nchan = 2
    <2>1. Chan = {0, 1} /\ sent[0] \in Nat /\ sent[1] \in Nat
      BY <1>2, Channels
    <2>2. NextBlock(0) = 2 * sent[0] + 1 /\ NextBlock(1) = 2 * sent[1] + 2
      BY <1>2, <2>1 DEF NextBlock
    <2>3. \A n \in Int : Filled(n) <=> \/ n <= 2 * sent[0] /\ n <= 2 * sent[1]
                                       \/ n = 2 * sent[0] - 1 \/ n = 2 * sent[1]
      BY <1>2, <2>1, <2>2 DEF Filled
    <2>4. QED
      BY <1>2, <2>1, <2>2, <2>3
  <1>3. QED
    BY <1>1, <1>2, Channels

\* The block that is next has not been transferred; the one that comes to the same
\* buffer before it has, and so has any block that came earlier.
LEMMA BlockFacts ==
  ASSUME AxiTypeOK, PaceInv, NEW c \in Chan
  PROVE  /\ ~Filled(NextBlock(c))
         /\ InStep(c) => \A n \in Int : n + nchan = NextBlock(c) \/ n + 2 < NextBlock(c) => Filled(n)
         /\ \A n \in Int : Filled(n) /\ (\A d \in Chan : NextBlock(d) >= n) => NextBlock(c) > n
         /\ nchan = 1 => \A n \in Int : n < NextBlock(c) => Filled(n)
  <1>1. CASE nchan = 1
    BY <1>1, Blocks
  <1>2. CASE nchan = 2
    <2>1. sent[0] <= sent[1] + 1 /\ sent[1] <= sent[0] + 1
      BY <1>2, Blocks DEF PaceInv
    <2>2. InStep(c) => sent[c] <= sent[0] /\ sent[c] <= sent[1]
      BY <1>2, Blocks DEF InStep
    <2>3. PICK x \in Nat, y \in Nat : x = sent[0] /\ y = sent[1]
      BY <1>2, Blocks
    <2>4. /\ x <= y + 1 /\ y <= x + 1
          /\ NextBlock(0) = 2 * x + 1 /\ NextBlock(1) = 2 * y + 2
          /\ \A n \in Int : Filled(n) <=> \/ n <= 2 * x /\ n <= 2 * y
                                          \/ n = 2 * x - 1 \/ n = 2 * y
      BY <1>2, <2>1, <2>3, Blocks
    <2>5. InStep(c) => sent[c] <= x /\ sent[c] <= y
      BY <2>2, <2>3
    <2>6. c = 0 \/ c = 1
      BY <1>2, Blocks
    <2>7. ~Filled(NextBlock(c))
      <3>1. CASE c = 0
        <4>1. Filled(2 * x + 1) => FALSE
          BY <2>4
        <4>2. QED
          BY <2>4, <3>1, <4>1
      <3>2. CASE c = 1
        <4>1. Filled(2 * y + 2) => FALSE
          BY <2>4
        <4>2. QED
          BY <2>4, <3>2, <4>1
      <3>3. QED
        BY <2>6, <3>1, <3>2
    <2>8. ASSUME InStep(c), NEW n \in Int, n + nchan = NextBlock(c) \/ n + 2 < NextBlock(c)
          PROVE  Filled(n)
      <3>1. CASE c = 0
        <4>1. x <= y
          BY <2>3, <2>5, <2>8, <3>1
        <4>2. n + 2 = 2 * x + 1 \/ n + 2 < 2 * x + 1
          BY <1>2, <2>4, <2>8, <3>1
        <4>3. QED
          BY <2>4, <4>1, <4>2
      <3>2. CASE c = 1
        <4>1. y <= x
          BY <2>3, <2>5, <2>8, <3>2
        <4>2. n + 2 = 2 * y + 2 \/ n + 2 < 2 * y + 2
          BY <1>2, <2>4, <2>8, <3>2
        <4>3. QED
          BY <2>4, <4>1, <4>2
      <3>3. QED
        BY <2>6, <3>1, <3>2
    <2>9. ASSUME NEW n \in Int, Filled(n), \A d \in Chan : NextBlock(d) >= n
          PROVE  NextBlock(c) > n
      <3>1. 2 * x + 1 >= n /\ 2 * y + 2 >= n
        BY <1>2, <2>4, <2>9, Blocks
      <3>2. 2 * x + 1 > n /\ 2 * y + 2 > n
        BY <2>4, <2>9, <3>1
      <3>3. QED
        BY <2>4, <2>6, <3>2
    <2>10. QED
      BY <1>2, <2>7, <2>8, <2>9
  <1>3. QED
    BY <1>1, <1>2, Channels

\* Nothing has been transferred yet of what comes after all the next blocks.
LEMMA BlocksBeyond ==
  ASSUME AxiTypeOK, NEW n \in Int, \A c \in Chan : NextBlock(c) < n + nchan
  PROVE  ~Filled(n)
  <1>1. CASE nchan = 1
    BY <1>1, Blocks
  <1>2. CASE nchan = 2
    BY <1>2, Blocks
  <1>3. QED
    BY <1>1, <1>2, Channels

\* The index of a descriptor and of the one after it.
LEMMA Around ==
  ASSUME NEW k \in Nat, k >= 1, NEW p \in 1 .. k
  PROVE  (p - 1) % k = p - 1 /\ p % k = IF p = k THEN 0 ELSE p
  <1>1. (p - 1) % k = p - 1
    OBVIOUS
  <1>2. p % k = IF p = k THEN 0 ELSE p
    OBVIOUS
  <1>3. QED
    BY <1>1, <1>2

\* A transfer fills the next block of its channel, and no other.
LEMMA TransferBlocks ==
  ASSUME AxiTypeOK, PaceInv, NEW c \in Chan, Transfer(c)
  PROVE  /\ NextBlock(c)' = NextBlock(c) + nchan
         /\ \A d \in Chan : d # c => NextBlock(d)' = NextBlock(d)
         /\ \A n \in Int : Filled(n)' <=> Filled(n) \/ n = NextBlock(c)
  <1>1. /\ nchan' = nchan /\ Chan' = Chan /\ InStep(c)
        /\ sent' = [sent EXCEPT ![c] = @ + 1]
    BY DEF Transfer, Chan
  <1>2. CASE nchan = 1
    <2>1. Chan = {0} /\ c = 0 /\ sent[0] \in Nat /\ sent'[0] = sent[0] + 1
      BY <1>1, <1>2, Blocks DEF AxiTypeOK
    <2>2. NextBlock(0)' = sent'[0] + 1 /\ NextBlock(0) = sent[0] + 1
      BY <1>1, <1>2, <2>1, Blocks DEF NextBlock
    <2>3. \A n \in Int : Filled(n)' <=> n <= sent'[0]
      <3> TAKE n \in Int
      <3>1. Filled(n)' <=> (\A d \in {0} : n <= nchan * sent'[d]) \/ \E d \in {0} : n = NextBlock(d)' - nchan
        BY <1>1, <2>1 DEF Filled
      <3>2. QED
        BY <1>2, <2>1, <2>2, <3>1
    <2>4. QED
      BY <1>2, <2>1, <2>2, <2>3, Blocks
  <1>3. CASE nchan = 2
    <2>1. PICK x \in Nat, y \in Nat : x = sent[0] /\ y = sent[1]
      BY <1>3, Blocks
    <2>2. /\ x <= y + 1 /\ y <= x + 1 /\ Chan = {0, 1} /\ c \in {0, 1}
          /\ NextBlock(0) = 2 * x + 1 /\ NextBlock(1) = 2 * y + 2
          /\ \A n \in Int : Filled(n) <=> \/ n <= 2 * x /\ n <= 2 * y
                                          \/ n = 2 * x - 1 \/ n = 2 * y
      BY <1>3, <2>1, Blocks DEF PaceInv
    <2>3. PICK u \in Nat, v \in Nat :
            /\ u = sent'[0] /\ v = sent'[1]
            /\ \/ c = 0 /\ x <= y /\ u = x + 1 /\ v = y
               \/ c = 1 /\ y <= x /\ u = x /\ v = y + 1
      <3>1. sent'[c] = sent[c] + 1 /\ (\A d \in Chan : d # c => sent'[d] = sent[d])
            /\ \A d \in Chan : sent[c] <= sent[d]
        BY <1>1 DEF InStep, AxiTypeOK
      <3>2. CASE c = 0
        <4>1. x <= y /\ sent'[0] = x + 1 /\ sent'[1] = y
          BY <2>1, <2>2, <3>1, <3>2
        <4>2. QED
          BY <3>2, <4>1
      <3>3. CASE c = 1
        <4>1. y <= x /\ sent'[0] = x /\ sent'[1] = y + 1
          BY <2>1, <2>2, <3>1, <3>3
        <4>2. QED
          BY <3>3, <4>1
      <3>4. QED
        BY <2>2, <3>2, <3>3
    <2>4. NextBlock(0)' = 2 * u + 1 /\ NextBlock(1)' = 2 * v + 2
      BY <1>1, <1>3, <2>3 DEF NextBlock
    <2>5. \A n \in Int : Filled(n)' <=> \/ n <= 2 * u /\ n <= 2 * v
                                        \/ n = 2 * u - 1 \/ n = 2 * v
      <3> TAKE n \in Int
      <3>1. Filled(n)' <=> (\A d \in {0, 1} : n <= nchan * sent'[d]) \/ \E d \in {0, 1} : n = NextBlock(d)' - nchan
        BY <1>1, <2>2 DEF Filled
      <3>2. nchan * sent'[0] = 2 * u /\ nchan * sent'[1] = 2 * v
        BY <1>3, <2>3
      <3>3. NextBlock(0)' - nchan = 2 * u - 1 /\ NextBlock(1)' - nchan = 2 * v
        BY <1>3, <2>3, <2>4
      <3>4. QED
        BY <3>1, <3>2, <3>3
    <2>6. NextBlock(c)' = NextBlock(c) + nchan /\ \A d \in Chan : d # c => NextBlock(d)' = NextBlock(d)
      BY <1>3, <2>2, <2>3, <2>4
    <2>7. ASSUME NEW n \in Int PROVE Filled(n)' <=> Filled(n) \/ n = NextBlock(c)
      <3>1. CASE c = 0
        <4>1. x <= y /\ u = x + 1 /\ v = y
          BY <2>3, <3>1
        <4>2. y = x \/ y = x + 1
          BY <2>2, <4>1
        <4>3. QED
          BY <2>2, <2>5, <3>1, <4>1, <4>2
      <3>2. CASE c = 1
        <4>1. y <= x /\ u = x /\ v = y + 1
          BY <2>3, <3>2
        <4>2. x = y \/ x = y + 1
          BY <2>2, <4>1
        <4>3. QED
          BY <2>2, <2>5, <3>2, <4>1, <4>2
      <3>3. QED
        BY <2>2, <3>1, <3>2
    <2>8. QED
      BY <2>6, <2>7
  <1>4. QED
    BY <1>2, <1>3, Channels

\* While the loop runs every buffer is in the ring, and the channels take them in turn.
LEMMA RingOrder ==
  ASSUME AxiTypeOK, RingInv, StartInv, lpc \in {"get", "wait", "put"}, NEW c \in Chan
  PROVE  /\ nbuffers = nchan * (nbuffers \div nchan) /\ nbuffers >= nchan
         /\ nchan = 2 /\ nbuffers # 2 => nbuffers > 3
         /\ pos[c] \in 1 .. nbuffers \div nchan
         /\ Target(c) \in HBM /\ Slot(c, c, 0) = Target(c)
         /\ nchan = 1 => Slot(c, c, 1) = IF Target(c) + 1 = nbuffers THEN 0 ELSE Target(c) + 1
         /\ (pos[c] % Len(ring[c])) + 1 \in 1 .. nbuffers \div nchan
         /\ nchan * (((pos[c] % Len(ring[c])) + 1) - 1) + c =
              IF Target(c) + nchan < nbuffers THEN Target(c) + nchan ELSE (Target(c) + nchan) - nbuffers
  <1> DEFINE K == nbuffers \div nchan
             p == pos[c]
  <1>1. nbuffers \in Nat /\ nbuffers >= 1 /\ nchan \in {1, 2} /\ c \in 0 .. nchan - 1
    BY NBuffersAssumption DEF AxiTypeOK, Chan
  <1>2. K \in Nat /\ nchan * K <= nbuffers
    BY <1>1
  <1>3. p \in 1 .. K /\ ring[c] = ChainOf(c)
    BY DEF StartInv, Walking
  <1>4. nbuffers - 1 \in HBM
    BY <1>1 DEF HBM
  <1>5. nbuffers - 1 < nchan * K
    BY <1>4 DEF RingInv, InRing
  <1>6. ring[c] = [i \in 1 .. K |-> nchan * (i - 1) + c]
    BY <1>3 DEF ChainOf
  <1> HIDE DEF K, p
  <1>7. nbuffers = nchan * K /\ K \in Nat /\ K >= 1
    BY <1>1, <1>2, <1>3, <1>5
  <1>8. Len(ring[c]) = K
    <2>1. ring[c] \in Seq(Int)
      BY <1>1, <1>2, <1>6
    <2>2. QED
      BY <1>2, <1>6, <2>1
  <1>9. (p - 1) % K = p - 1 /\ p % K = IF p = K THEN 0 ELSE p
    BY <1>3, <1>7, Around
  <1>10. Target(c) = nchan * (p - 1) + c
    BY DEF Target, p
  <1>11. Slot(c, c, 0) = ring[c][((p + 0 - 1) % K) + 1] /\ Slot(c, c, 1) = ring[c][((p + 1 - 1) % K) + 1]
    BY <1>8 DEF Slot, p
  <1>12. Slot(c, c, 0) = Target(c)
    <2>1. p + 0 - 1 = p - 1 /\ (p - 1) + 1 = p
      BY <1>3
    <2>2. QED
      BY <1>3, <1>6, <1>9, <1>10, <1>11, <2>1
  <1>13. Slot(c, c, 1) = nchan * (p % K) + c
    <2>1. p + 1 - 1 = p /\ p % K \in 0 .. K - 1
      BY <1>3, <1>7, <1>9
    <2>2. (p % K) + 1 \in 1 .. K /\ ((p % K) + 1) - 1 = p % K
      BY <1>7, <2>1
    <2>3. QED
      BY <1>6, <1>11, <2>1, <2>2
  <1>14. (p % K) + 1 \in 1 .. K /\ ((p % K) + 1) - 1 = p % K
    BY <1>3, <1>7, <1>9
  <1>15. CASE nchan = 1
    <2>1. nbuffers = K /\ c = 0 /\ Target(c) = p - 1 /\ Slot(c, c, 1) = p % K
      BY <1>1, <1>3, <1>7, <1>9, <1>10, <1>13, <1>15
    <2>2. Target(c) \in HBM
      BY <1>3, <1>7, <2>1 DEF HBM
    <2>3. Slot(c, c, 1) = IF Target(c) + 1 = nbuffers THEN 0 ELSE Target(c) + 1
      BY <1>3, <1>7, <1>9, <2>1
    <2>4. 1 * (p % K) + 0 = IF Target(c) + 1 < nbuffers THEN Target(c) + 1 ELSE (Target(c) + 1) - nbuffers
      BY <1>3, <1>7, <1>9, <2>1
    <2>5. QED
      BY <1>1, <1>3, <1>7, <1>8, <1>12, <1>14, <1>15, <2>1, <2>2, <2>3, <2>4 DEF K, p
  <1>16. CASE nchan = 2
    <2>1. nbuffers = 2 * K /\ c \in {0, 1} /\ Target(c) = 2 * (p - 1) + c
      BY <1>1, <1>7, <1>10, <1>16
    <2>2. Target(c) \in HBM
      BY <1>3, <1>7, <2>1 DEF HBM
    <2>3. 2 * (p % K) + c = IF Target(c) + 2 < nbuffers THEN Target(c) + 2 ELSE (Target(c) + 2) - nbuffers
      BY <1>3, <1>7, <1>9, <2>1
    <2>4. nbuffers >= 2 /\ (nbuffers # 2 => nbuffers > 3)
      BY <1>2, <1>7, <2>1
    <2>5. QED
      BY <1>1, <1>3, <1>7, <1>8, <1>12, <1>14, <1>16, <2>1, <2>2, <2>3, <2>4 DEF K, p
  <1>17. QED
    BY <1>1, <1>15, <1>16

\* The arithmetic of the ring; h is where it starts.
LEMMA WrapFacts ==
  ASSUME NEW h \in HBM
  PROVE  /\ Wrap(h) = h
         /\ \A i \in 1 .. nbuffers : Wrap((h + i) - 1) \in HBM
         /\ \A i, j \in 1 .. nbuffers : Wrap((h + i) - 1) = Wrap((h + j) - 1) => i = j
         /\ \A i \in 1 .. nbuffers : Wrap((h + (i + nbuffers)) - 1) = Wrap((h + i) - 1)
         /\ \A x \in 0 .. 2 * nbuffers - 1, k \in 0 .. nbuffers :
              Wrap(x + k) = IF Wrap(x) + k < nbuffers THEN Wrap(x) + k ELSE (Wrap(x) + k) - nbuffers
         /\ \A m \in 0 .. 2 * nbuffers - 1 : Wrap(Wrap(h + 1) + m) = Wrap((h + 1) + m)
  <1>1. nbuffers \in Nat /\ nbuffers >= 1 /\ h \in 0 .. nbuffers - 1
    BY NBuffersAssumption DEF HBM
  <1>2. Wrap(h) = h
    BY <1>1 DEF Wrap
  <1>3. \A i \in 1 .. nbuffers : Wrap((h + i) - 1) \in HBM
    BY <1>1 DEF Wrap, HBM
  <1>4. \A i, j \in 1 .. nbuffers : Wrap((h + i) - 1) = Wrap((h + j) - 1) => i = j
    BY <1>1 DEF Wrap
  <1>5. \A i \in 1 .. nbuffers : Wrap((h + (i + nbuffers)) - 1) = Wrap((h + i) - 1)
    BY <1>1 DEF Wrap
  <1>6. \A x \in 0 .. 2 * nbuffers - 1, k \in 0 .. nbuffers :
          Wrap(x + k) = IF Wrap(x) + k < nbuffers THEN Wrap(x) + k ELSE (Wrap(x) + k) - nbuffers
    BY <1>1 DEF Wrap
  <1>7. \A m \in 0 .. 2 * nbuffers - 1 : Wrap(Wrap(h + 1) + m) = Wrap((h + 1) + m)
    BY <1>1 DEF Wrap
  <1>8. QED
    BY <1>2, <1>3, <1>4, <1>5, <1>6, <1>7

\* What the invariants say of the buffers in their order.
LEMMA InOrder ==
  ASSUME outlasts, AxiInv, NEW first \in Nat, Follows(first)
  PROVE  /\ opened \in Nat /\ nbuffers \in Nat /\ nbuffers >= 1
         /\ \A i \in 1 .. nbuffers : Nth(i) \in HBM
         /\ \A i \in 1 .. nbuffers : i <= opened => ~Poisoned(Nth(i))
         /\ \A i \in 1 .. Len(REFILLS) :
              /\ opened + i \in opened + 1 .. nbuffers /\ Nth(opened + i) = REFILLS[i]
              /\ ~Poisoned(REFILLS[i]) /\ body[REFILLS[i]] = first + (opened + i)
         /\ \A i, j \in 1 .. nbuffers : Nth(i) = Nth(j) => i = j
         /\ \A c \in Chan : Position(c, first) \in Nat /\ NextBlock(c) = first + Position(c, first)
  <1>1. /\ EMPTIES \in Seq(HBM) /\ INFLIGHT \in Seq(HBM) /\ REFILLS \in Seq(HBM) /\ OPENS \in Seq(HBM)
        /\ opened \in Nat /\ Len(REFILLS) \in Nat /\ Len(INFLIGHT) \in Nat /\ Len(EMPTIES) \in Nat
        /\ opened + Len(REFILLS) + Len(INFLIGHT) + Len(EMPTIES) = nbuffers
        /\ nbuffers \in Nat /\ nbuffers >= 1
    BY ListLengths DEF AxiInv
  <1>2. /\ \A i \in 1 .. opened : Nth(i) = OPENS[i]
        /\ \A i \in 1 .. Len(REFILLS) : opened + i \in opened + 1 .. nbuffers /\ Nth(opened + i) = REFILLS[i]
        /\ \A i \in 1 .. nbuffers : Nth(i) \in HBM
    BY NthOfLists DEF AxiInv
  <1>3. ASSUME NEW i \in 1 .. nbuffers, i <= opened PROVE ~Poisoned(Nth(i))
    <2>1. i \in 1 .. opened
      BY <1>1, <1>3
    <2>2. Nth(i) = OPENS[i] /\ On(OPENS, OPENS[i]) /\ OPENS[i] \in HBM
      BY <1>1, <1>2, <2>1 DEF On, opened
    <2>3. QED
      BY <2>2 DEF AxiInv, CleanInv
  <1>4. ASSUME NEW i \in 1 .. Len(REFILLS)
        PROVE  ~Poisoned(REFILLS[i]) /\ body[REFILLS[i]] = first + (opened + i)
    <2>1. On(REFILLS, REFILLS[i]) /\ REFILLS[i] \in HBM
      BY <1>1 DEF On
    <2>2. ~Poisoned(REFILLS[i])
      BY <2>1 DEF AxiInv, CleanInv
    <2>3. QED
      BY <1>2, <2>2 DEF Follows
  <1>5. \A i, j \in 1 .. nbuffers : Nth(i) = Nth(j) => i = j
    <2>1. 1 \in 1 .. nbuffers
      BY <1>1
    <2>2. QED
      BY <1>2, <2>1, WrapFacts DEF Follows
  <1>6. ASSUME NEW c \in Chan
        PROVE  Position(c, first) \in Nat /\ NextBlock(c) = first + Position(c, first)
    <2>1. NextBlock(c) \in Nat
      BY Blocks DEF AxiInv
    <2>2. Position(c, first) > opened
      BY DEF Follows
    <2>3. QED
      BY <1>1, <2>1, <2>2 DEF Position
  <1>7. QED
    BY <1>1, <1>2, <1>3, <1>4, <1>5, <1>6

\* The DMAC is at a buffer that is poisoned, of those after the ones the application
\* has; and with one channel the one after it too is less than a ring ahead.
LEMMA Window ==
  ASSUME outlasts, AxiInv, PaceInv, StartInv, lpc \in {"get", "wait", "put"},
         NEW first \in Nat, Follows(first), NEW c \in Chan, Transfer(c)
  PROVE  /\ Position(c, first) \in opened + 1 .. nbuffers
         /\ Slot(c, c, 0) = Nth(Position(c, first))
         /\ nbuffers > 1 /\ nchan = 1 /\ margin > 1 => Position(c, first) < nbuffers
  <1> DEFINE p == Position(c, first)
             h == Nth(1)
             o == opened
  <1>1. /\ o \in Nat /\ nbuffers \in Nat /\ nbuffers >= 1 /\ h \in HBM
        /\ p \in Nat /\ NextBlock(c) = first + p /\ p > o /\ p <= nbuffers + nchan
        /\ Target(c) = Wrap((h + p) - 1) /\ (nchan = 1 => p <= nbuffers)
        /\ \A i \in 1 .. nbuffers : Nth(i) = Wrap((h + i) - 1)
        /\ \A i \in 1 .. nbuffers : i <= o => ~Poisoned(Nth(i))
        /\ \A i \in o + 1 .. nbuffers : Poisoned(Nth(i)) <=> ~Filled(first + i)
    <2>1. 1 \in 1 .. nbuffers
      BY InOrder
    <2>2. QED
      BY <2>1, InOrder DEF Follows
  <1>2. /\ nchan \in {1, 2} /\ nbuffers >= nchan /\ (nchan = 2 /\ nbuffers # 2 => nbuffers > 3)
        /\ Slot(c, c, 0) = Target(c)
        /\ nchan = 1 => Slot(c, c, 1) = IF Target(c) + 1 = nbuffers THEN 0 ELSE Target(c) + 1
    BY RingOrder DEF AxiInv, AxiTypeOK
  <1>3. /\ InStep(c) /\ Poisoned(Slot(c, c, 0))
        /\ margin > 1 => \A k \in 1 .. margin - 1 : Poisoned(Slot(c, c, k))
    BY DEF Transfer, KeepsUp, poison_overwritten, Poisoned
  <1>4. /\ \A n \in Int : n + nchan = NextBlock(c) \/ n + 2 < NextBlock(c) => Filled(n)
        /\ nchan = 1 => \A n \in Int : n < NextBlock(c) => Filled(n)
    BY <1>3, BlockFacts DEF AxiInv
  <1> HIDE DEF p, h, o
  <1>5. p <= nbuffers
    <2> SUFFICES ASSUME p > nbuffers PROVE FALSE
      BY <1>1
    <2> DEFINE i == p - nbuffers
    <2>1. nchan = 2 /\ i \in 1 .. nbuffers /\ i + nbuffers = p
      BY <1>1, <1>2
    <2>2. first + i \in Int /\ ((first + i) + nchan = first + p \/ (first + i) + 2 < first + p)
      BY <1>1, <1>2, <2>1
    <2> HIDE DEF i
    <2>3. Target(c) = Nth(i)
      BY <1>1, <2>1, WrapFacts
    <2>4. Poisoned(Nth(i))
      BY <1>2, <1>3, <2>3
    <2>5. i > o
      BY <1>1, <2>1, <2>4
    <2>6. i \in o + 1 .. nbuffers
      BY <1>1, <2>1, <2>5
    <2>7. Filled(first + i)
      BY <1>1, <1>4, <2>2
    <2>8. QED
      BY <1>1, <2>4, <2>6, <2>7
  <1>6. p \in o + 1 .. nbuffers /\ p \in 1 .. nbuffers
    BY <1>1, <1>5
  <1>7. Slot(c, c, 0) = Nth(p)
    BY <1>1, <1>2, <1>6
  <1>8. ASSUME nbuffers > 1, nchan = 1, margin > 1, p = nbuffers PROVE FALSE
    <2>1. margin \in Nat
      BY AxiAssumption DEF PaceInv
    <2>2. Poisoned(Slot(c, c, 1))
      BY <1>3, <1>8, <2>1
    <2>3. Slot(c, c, 1) = h
      BY <1>1, <1>2, <1>8 DEF Wrap, HBM
    <2>4. 1 \in 1 .. nbuffers /\ Nth(1) = h
      BY <1>1 DEF h
    <2>5. Poisoned(Nth(1))
      BY <2>2, <2>3, <2>4
    <2>6. 1 \in o + 1 .. nbuffers
      BY <1>1, <2>4, <2>5
    <2>7. first + 1 < first + nbuffers /\ first + 1 \in Int
      BY <1>1, <1>8
    <2>8. Filled(first + 1)
      BY <1>1, <1>4, <1>8, <2>7
    <2>9. QED
      BY <1>1, <2>5, <2>6, <2>8
  <1>9. QED
    BY <1>1, <1>6, <1>7, <1>8 DEF p, o

----------------------------------------------------------------------------
(* The invariant of the order, step by step.                               *)

\* What has been transferred stays transferred.
LEMMA Transferred ==
  ASSUME AxiTypeOK, sent' \in [Chan -> Nat], nchan' = nchan, \A c \in Chan : sent[c] <= sent'[c],
         NEW n \in Int, \E c \in Chan : n <= nchan * sent[c]
  PROVE  \E c \in Chan : n <= nchan * sent'[c]
  <1>1. PICK c \in Chan : n <= nchan * sent[c]
    OBVIOUS
  <1>2. sent[c] \in Nat /\ sent'[c] \in Nat /\ sent[c] <= sent'[c]
    BY DEF AxiTypeOK
  <1>3. CASE nchan = 1
    BY <1>1, <1>2, <1>3
  <1>4. CASE nchan = 2
    BY <1>1, <1>2, <1>4
  <1>5. QED
    BY <1>3, <1>4 DEF AxiTypeOK

\* The steps that leave the DMAC and the data alone.
LEMMA StillFrame ==
  ASSUME [Next]_vars, ~LoadDmac, \A c \in Chan : ~Transfer(c)
  PROVE  /\ UNCHANGED <<nchan, margin, sent, ring, body>>
         /\ pos' = pos \/ Quit
         /\ delivered' = delivered \/ GetFull
  BY DEF Next, LoopStep, AppStep, vars, dmac, mem, app, loop, PoisonAll, GetEmpty, GotEmpties, NoEmpty,
         DmaDone, ToldToStop, PutFull, NextGroup, DiscardFull, HoldAgain, Quit, OpenDevice,
         EnableAggregator, PutEmpty, GetFull, Release, Stopped, poison, clear_poison

\* Data flows only while the device is open.
LEMMA FlowStep ==
  ASSUME flow => cpc = "open", [Next]_vars
  PROVE  flow' => cpc' = "open"
  <1>1. CASE LoopStep \/ (\E c \in Chan : Transfer(c)) \/ UNCHANGED vars
    <2>1. UNCHANGED <<flow, cpc>>
      BY <1>1 DEF LoopStep, vars, app, LoadDmac, PoisonAll, GetEmpty, GotEmpties, NoEmpty, DmaDone,
             ToldToStop, PutFull, NextGroup, DiscardFull, HoldAgain, Quit, Transfer
    <2>2. QED
      BY <2>1, Zenon
  <1>2. CASE PutEmpty \/ GetFull \/ EnableAggregator
    <2>1. cpc' = "open"
      BY <1>2 DEF PutEmpty, GetFull, EnableAggregator, app
    <2>2. QED
      BY <2>1
  <1>3. CASE Release
    BY <1>3 DEF Release
  <1>4. CASE OpenDevice \/ Stopped
    <2>1. cpc # "open" /\ flow' = flow
      BY <1>4 DEF OpenDevice, Stopped
    <2>2. QED
      BY <2>1, Zenon
  <1>5. QED
    BY <1>1, <1>2, <1>3, <1>4 DEF Next, AppStep

\* load_dmac() takes up where the channel that is ahead stopped.
LEMMA LoadFacts ==
  ASSUME AxiTypeOK, LoadDmac
  PROVE  \E m \in Nat : /\ sent' = [c \in Chan |-> m]
                        /\ m \in {sent[c] : c \in Chan} /\ \A c \in Chan : sent[c] <= m
  <1> DEFINE most == CHOOSE n \in {sent[c] : c \in Chan} : \A c \in Chan : sent[c] <= n
  <1>1. sent' = [c \in Chan |-> most]
    BY DEF LoadDmac
  <1>2. \E n \in {sent[c] : c \in Chan} : \A c \in Chan : sent[c] <= n
    <2>1. CASE nchan = 1
      BY <2>1, Channels
    <2>2. CASE nchan = 2
      <3>1. Chan = {0, 1} /\ sent[0] \in Nat /\ sent[1] \in Nat
        BY <2>2, Channels
      <3>2. sent[0] <= sent[1] \/ sent[1] <= sent[0]
        BY <3>1
      <3>3. QED
        BY <3>1, <3>2
    <2>3. QED
      BY <2>1, <2>2, Channels
  <1>3. most \in {sent[c] : c \in Chan} /\ \A c \in Chan : sent[c] <= most
    BY <1>2
  <1> HIDE DEF most
  <1>4. most \in Nat
    BY <1>3 DEF AxiTypeOK
  <1>5. QED
    BY <1>1, <1>3, <1>4

LEMMA PaceStep ==
  ASSUME AxiInv, AxiTypeOK', PaceInv, [Next]_vars
  PROVE  PaceInv'
  <1>1. (flow' => cpc' = "open") /\ AxiTypeOK /\ ListsInv
    BY FlowStep DEF PaceInv, AxiInv
  <1>2. CASE LoadDmac
    <2>1. PICK m \in Nat : /\ sent' = [c \in Chan |-> m]
                           /\ m \in {sent[c] : c \in Chan} /\ \A c \in Chan : sent[c] <= m
      BY <1>1, <1>2, LoadFacts
    <2>2. UNCHANGED <<nchan, margin, body, delivered>> /\ Chan' = Chan
      BY <1>2 DEF LoadDmac, mem, app, Chan
    <2>3. m <= MaxBlocks
      BY <2>1 DEF PaceInv
    <2>4. \A b \in HBM : \E c \in Chan : body[b] <= nchan * sent'[c]
      <3>1. \A b \in HBM : body[b] \in Int
        BY <1>1 DEF AxiTypeOK
      <3>2. QED
        BY <1>1, <2>1, <2>2, <3>1, Transferred DEF PaceInv
    <2>5. delivered \in Nat /\ \E c \in Chan : delivered <= nchan * sent'[c]
      BY <1>1, <2>1, <2>2, Transferred DEF PaceInv
    <2>6. QED
      BY <1>1, <2>1, <2>2, <2>3, <2>4, <2>5 DEF PaceInv
  <1>3. ASSUME NEW c \in Chan, Transfer(c) PROVE PaceInv'
    <2> DEFINE x == Slot(c, c, 0)
               blk == nchan * sent[c] + c + 1
    <2>1. /\ UNCHANGED <<nchan, margin, delivered>> /\ Chan' = Chan /\ InStep(c) /\ sent[c] < MaxBlocks
          /\ sent' = [sent EXCEPT ![c] = @ + 1] /\ body' = [body EXCEPT ![x] = blk]
      BY <1>3 DEF Transfer, Chan, app
    <2> HIDE DEF x
    <2>2. \A d \in Chan : sent[d] \in Nat /\ sent[d] <= sent'[d] /\ sent[c] <= sent[d] /\ sent[d] <= sent[c] + 1
      BY <1>1, <2>1 DEF AxiTypeOK, InStep, PaceInv
    <2>3. sent'[c] = sent[c] + 1 /\ \A d \in Chan : d # c => sent'[d] = sent[d]
      BY <1>1, <2>1 DEF AxiTypeOK
    <2>4. \A d, e \in Chan : sent'[d] <= sent'[e] + 1
      BY <2>2, <2>3 DEF PaceInv
    <2>5. \A d \in Chan : sent'[d] <= MaxBlocks
      BY <2>1, <2>2, <2>3, AxiAssumption DEF PaceInv
    <2>6. blk <= nchan * sent'[c]
      <3>1. CASE nchan = 1
        BY <2>2, <2>3, <3>1, Blocks, <1>1
      <3>2. CASE nchan = 2
        <4>1. c \in {0, 1}
          BY <1>1, <3>2, Blocks
        <4>2. QED
          BY <2>2, <2>3, <3>2, <4>1
      <3>3. QED
        BY <1>1, <3>1, <3>2 DEF AxiTypeOK
    <2>7. ASSUME NEW b \in HBM PROVE \E d \in Chan : body'[b] <= nchan * sent'[d]
      <3>1. body'[b] = body[b] \/ body'[b] = blk
        BY <1>1, <2>1 DEF AxiTypeOK
      <3>2. \E d \in Chan : body[b] <= nchan * sent'[d]
        <4>1. body[b] \in Int
          BY <1>1 DEF AxiTypeOK
        <4>2. sent' \in [Chan -> Nat]
          BY <1>1, <2>1 DEF AxiTypeOK
        <4>3. QED
          BY <1>1, <2>1, <2>2, <4>1, <4>2, Transferred DEF PaceInv
      <3>3. QED
        BY <2>6, <3>1, <3>2
    <2> HIDE DEF blk
    <2>8. delivered \in Nat /\ \E d \in Chan : delivered <= nchan * sent'[d]
      <3>1. sent' \in [Chan -> Nat]
        BY <1>1, <2>1 DEF AxiTypeOK
      <3>2. QED
        BY <1>1, <2>1, <2>2, <3>1, Transferred DEF PaceInv
    <2>9. QED
      BY <1>1, <2>1, <2>4, <2>5, <2>7, <2>8 DEF PaceInv
  <1>4. CASE ~LoadDmac /\ \A c \in Chan : ~Transfer(c)
    <2>1. UNCHANGED <<nchan, margin, sent, body>> /\ Chan' = Chan /\ (delivered' = delivered \/ GetFull)
      BY <1>4, StillFrame DEF Chan
    <2>2. delivered' \in Nat /\ \E c \in Chan : delivered' <= nchan * sent[c]
      <3>1. CASE GetFull
        <4>1. delivered' = body[Head(REFILLS)] /\ REFILLS # << >> /\ REFILLS \in Seq(HBM)
          BY <1>1, <3>1 DEF GetFull, getFull, ListsInv, ListsTypeOK
        <4>2. Head(REFILLS) \in HBM
          BY <4>1, HeadTailFacts
        <4>3. QED
          BY <1>1, <4>1, <4>2 DEF PaceInv, AxiTypeOK
      <3>2. QED
        BY <2>1, <3>1 DEF PaceInv
    <2>3. QED
      BY <1>1, <2>1, <2>2 DEF PaceInv
  <1>5. QED
    BY <1>2, <1>3, <1>4

LEMMA StartStep ==
  ASSUME nbuffers > 1, AxiInv, PaceInv, StartInv, [Next]_vars
  PROVE  StartInv'
  <1> USE DEF At
  <1>0. AxiTypeOK /\ ListsInv /\ PhaseInv /\ nbuffers \in Nat
    BY NBuffersAssumption DEF AxiInv
  <1>1. CASE LoadDmac
    <2>1. PICK m \in Nat : sent' = [c \in Chan |-> m]
      BY <1>0, <1>1, LoadFacts
    <2>2. /\ lpc = "load" /\ lpc' = "poison" /\ UNCHANGED <<cpc, EMPTIES, nchan>> /\ Chan' = Chan
          /\ ring' = [c \in Chan |-> ChainOf(c)]' /\ pos' = [c \in Chan |-> 1]
      BY <1>1 DEF LoadDmac, app, lists, Chan, ChainOf
    <2>3. cpc = "starting" /\ EMPTIES = [i \in 1 .. nbuffers |-> i - 1]
      BY <2>2 DEF StartInv
    <2>4. 1 \in 1 .. nbuffers \div nchan
      BY <1>0 DEF AxiTypeOK
    <2>5. QED
      BY <2>1, <2>2, <2>3, <2>4 DEF StartInv, Walking
  <1>2. CASE PoisonAll
    <2>1. /\ lpc = "poison" /\ lpc' \in {"quit", "get"} /\ UNCHANGED <<ring, pos, nchan>> /\ Chan' = Chan
      BY <1>2 DEF PoisonAll, dmac, Chan
    <2>2. /\ ring = [c \in Chan |-> ChainOf(c)] /\ pos \in [Chan -> 1 .. nbuffers \div nchan]
          /\ [c \in Chan |-> ChainOf(c)]' = [c \in Chan |-> ChainOf(c)]
      BY <2>1 DEF StartInv, Walking, ChainOf
    <2>3. QED
      BY <2>1, <2>2 DEF StartInv, Walking
  <1>3. ASSUME NEW c \in Chan, Transfer(c) PROVE StartInv'
    <2>1. /\ UNCHANGED <<lpc, cpc, EMPTIES, ring, nchan>> /\ Chan' = Chan /\ flow
          /\ pos' = [pos EXCEPT ![c] = (@ % Len(ring[c])) + 1]
      BY <1>3 DEF Transfer, loop, app, lists, Chan
    <2>2. cpc = "open" /\ lpc \notin {"load", "poison"}
      BY <2>1 DEF PaceInv, StartInv
    <2>3. ASSUME lpc \in {"get", "wait", "put", "exhausted", "again"}
          PROVE  (pos[c] % Len(ring[c])) + 1 \in 1 .. nbuffers \div nchan
      <3>1. ring[c] = ChainOf(c) /\ pos[c] \in 1 .. nbuffers \div nchan
        BY <2>3 DEF StartInv, Walking
      <3>2. Len(ring[c]) = nbuffers \div nchan /\ nbuffers \div nchan \in Nat
        <4> DEFINE K == nbuffers \div nchan
        <4>1. K \in Nat /\ c \in Int /\ nchan \in Int
          BY <1>0 DEF AxiTypeOK, Chan
        <4>2. ring[c] = [i \in 1 .. K |-> nchan * (i - 1) + c]
          BY <3>1 DEF ChainOf
        <4> HIDE DEF K
        <4>3. ring[c] \in Seq(Int)
          BY <4>1, <4>2
        <4>4. Len(ring[c]) = K
          BY <4>1, <4>2, <4>3
        <4>5. QED
          BY <4>1, <4>4 DEF K
      <3>3. pos[c] % (nbuffers \div nchan) = IF pos[c] = nbuffers \div nchan THEN 0 ELSE pos[c]
        BY <3>1, <3>2, Around
      <3>4. QED
        BY <3>1, <3>2, <3>3
    <2>4. [d \in Chan |-> ChainOf(d)]' = [d \in Chan |-> ChainOf(d)]
      BY <2>1 DEF ChainOf
    <2>5. QED
      BY <2>1, <2>2, <2>3, <2>4 DEF StartInv, Walking
  <1>4. CASE ~LoadDmac /\ ~PoisonAll /\ \A c \in Chan : ~Transfer(c)
    <2>1. UNCHANGED <<nchan, sent, ring>> /\ Chan' = Chan /\ (pos' = pos \/ Quit)
      BY <1>4, StillFrame DEF Chan
    <2>2. [d \in Chan |-> ChainOf(d)]' = [d \in Chan |-> ChainOf(d)]
      BY <2>1 DEF ChainOf
    <2>3. CASE OpenDevice
      <3>1. lpc' = "load" /\ cpc' = "starting" /\ EMPTIES' = Sorted(EMPTIES \o OPENS \o REFILLS \o INFLIGHT)
        BY <2>3 DEF OpenDevice
      <3>2. EMPTIES' = [i \in 1 .. nbuffers |-> i - 1]
        BY <1>0, <3>1, AllLists, SortedOrder
      <3>3. QED
        BY <3>1, <3>2 DEF StartInv, Walking
    <2>4. CASE Quit
      BY <2>4 DEF Quit, StartInv, Walking
    <2>5. CASE ~OpenDevice /\ ~Quit
      <3>1. CASE lpc \in {"load", "poison"}
        <4>1. /\ lpc' = lpc
              /\ cpc = "starting" /\ ~task_active => UNCHANGED <<cpc, EMPTIES>>
          BY <1>4, <2>5, <3>1 DEF Next, LoopStep, AppStep, vars, dmac, mem, app, loop, lists, GetEmpty, GotEmpties,
             NoEmpty, DmaDone, ToldToStop, PutFull, NextGroup, DiscardFull, HoldAgain,
             EnableAggregator, PutEmpty, GetFull, Release, Stopped
        <4>2. cpc = "starting" /\ ~task_active
          BY <1>0, <3>1 DEF StartInv, PhaseInv
        <4>3. pos' = pos
          BY <2>1, <2>5
        <4>4. QED
          BY <2>1, <2>2, <4>1, <4>2, <4>3 DEF StartInv, Walking
      <3>2. CASE lpc \notin {"load", "poison"}
        <4>1. lpc' \notin {"load", "poison"} /\ (Walking' => Walking)
          BY <1>4, <2>5, <3>2 DEF Next, LoopStep, AppStep, vars, loop, CheckFifo, Walking, GetEmpty, GotEmpties,
             NoEmpty, DmaDone, ToldToStop, PutFull, NextGroup, DiscardFull, HoldAgain,
             EnableAggregator, PutEmpty, GetFull, Release, Stopped
        <4>2. pos' = pos
          BY <2>1, <2>5
        <4>3. QED
          BY <2>1, <2>2, <4>1, <4>2 DEF StartInv
      <3>3. QED
        BY <3>1, <3>2
    <2>6. QED
      BY <2>3, <2>4, <2>5
  <1>5. QED
    BY <1>1, <1>2, <1>3, <1>4

\* A transfer fills the buffer that waits for the block, and the channel moves on.
LEMMA TransferFollows ==
  ASSUME nbuffers > 1, KeepsPlace, AxiInv, PaceInv, StartInv, lpc \in {"get", "wait", "put"},
         NEW first \in Nat, Follows(first), NEW c \in Chan, Transfer(c)
  PROVE  Follows(first)'
  <1>0. outlasts
    BY DEF KeepsPlace
  <1> DEFINE p == Position(c, first)
             h == Nth(1)
             o == opened
             T == Target(c)
  <1>1. /\ o \in Nat /\ nbuffers \in Nat /\ nbuffers >= 1 /\ h \in HBM
        /\ p \in Nat /\ NextBlock(c) = first + p /\ T = Wrap((h + p) - 1)
        /\ \A i \in 1 .. nbuffers : Nth(i) \in HBM
        /\ \A i, j \in 1 .. nbuffers : Nth(i) = Nth(j) => i = j
    <2>1. 1 \in 1 .. nbuffers
      BY <1>0, InOrder
    <2>2. QED
      BY <1>0, <2>1, InOrder DEF Follows
  <1>2. /\ p \in o + 1 .. nbuffers /\ p \in 1 .. nbuffers /\ Slot(c, c, 0) = Nth(p)
        /\ nchan = 1 => p < nbuffers
    <2>1. p \in o + 1 .. nbuffers /\ Slot(c, c, 0) = Nth(p) /\ (nchan = 1 => p < nbuffers)
      <3>1. nchan = 1 => margin > 1
        BY DEF KeepsPlace, NeverExhausted
      <3>2. QED
        BY <1>0, <3>1, Window
    <2>2. QED
      BY <1>1, <2>1
  <1>3. /\ UNCHANGED <<lists, nchan, ring, delivered>> /\ Chan' = Chan
        /\ word' = [word EXCEPT ![Slot(c, c, 0)] = NextBlock(c)]
        /\ body' = [body EXCEPT ![Slot(c, c, 0)] = NextBlock(c)]
        /\ pos' = [pos EXCEPT ![c] = (@ % Len(ring[c])) + 1]
    BY DEF Transfer, NextBlock, app, Chan
  <1>4. opened' = opened /\ \A i : Nth(i)' = Nth(i)
    BY <1>3 DEF lists, Nth, Item, opened
  <1>5. /\ NextBlock(c)' = NextBlock(c) + nchan
        /\ \A d \in Chan : d # c => NextBlock(d)' = NextBlock(d)
        /\ \A n \in Int : Filled(n)' <=> Filled(n) \/ n = NextBlock(c)
    BY TransferBlocks DEF AxiInv
  <1>6. nchan \in {1, 2} /\ nbuffers >= nchan
    BY RingOrder DEF AxiInv, AxiTypeOK
  <1>7. Position(c, first)' = p + nchan
    BY <1>1, <1>3, <1>5, <1>6 DEF Position
  <1>8. Target(c)' = Wrap((h + (p + nchan)) - 1)
    <2>1. pos'[c] = (pos[c] % Len(ring[c])) + 1
      BY <1>3 DEF StartInv, Walking
    <2>2. Target(c)' = IF T + nchan < nbuffers THEN T + nchan ELSE (T + nchan) - nbuffers
      BY <1>3, <2>1, RingOrder DEF Target, AxiInv
    <2>3. (h + p) - 1 \in 0 .. 2 * nbuffers - 1 /\ nchan \in 0 .. nbuffers
          /\ (h + (p + nchan)) - 1 = ((h + p) - 1) + nchan
      BY <1>1, <1>2, <1>6 DEF HBM
    <2> HIDE DEF p, h, T
    <2>4. QED
      BY <1>1, <2>2, <2>3, WrapFacts
  <1>9. ASSUME NEW d \in Chan, d # c
        PROVE  Position(d, first)' = Position(d, first) /\ Target(d)' = Target(d)
    <2>1. pos'[d] = pos[d]
      BY <1>3, <1>9 DEF StartInv, Walking
    <2>2. QED
      BY <1>3, <1>5, <1>9, <2>1 DEF Position, Target
  <1>10. ASSUME NEW d \in Chan
         PROVE  /\ Position(d, first)' > opened /\ Position(d, first)' <= nbuffers + nchan
                /\ Target(d)' = Wrap((h + Position(d, first)') - 1)
                /\ nchan = 1 => Position(d, first)' <= nbuffers
    <2>1. CASE d = c
      <3>1. p + nchan > o /\ p + nchan <= nbuffers + nchan /\ (nchan = 1 => p + nchan <= nbuffers)
        BY <1>1, <1>2, <1>6
      <3>2. QED
        BY <1>7, <1>8, <2>1, <3>1
    <2>2. CASE d # c
      BY <1>9, <2>2 DEF Follows
    <2>3. QED
      BY <2>1, <2>2
  <1>11. ASSUME NEW i \in o + 1 .. nbuffers
         PROVE  /\ Poisoned(Nth(i))' <=> ~Filled(first + i)'
                /\ ~Poisoned(Nth(i))' => body'[Nth(i)] = first + i
    <2>1. i \in 1 .. nbuffers /\ first + i \in Int
      BY <1>1
    <2>2. Poisoned(Nth(i))' <=> word'[Nth(i)] = POISON
      BY <1>4 DEF Poisoned
    <2>3. CASE i = p
      <3>1. word'[Nth(i)] = NextBlock(c) /\ body'[Nth(i)] = NextBlock(c)
        BY <1>1, <1>2, <1>3, <2>3 DEF AxiInv, AxiTypeOK
      <3>2. NextBlock(c) # POISON
        BY <1>1 DEF POISON
      <3>3. Filled(first + i)'
        BY <1>1, <1>5, <2>1, <2>3
      <3>4. QED
        BY <1>1, <2>2, <2>3, <3>1, <3>2, <3>3
    <2>4. CASE i # p
      <3>1. Nth(i) # Nth(p)
        BY <1>1, <1>2, <2>1, <2>4
      <3>2. word'[Nth(i)] = word[Nth(i)] /\ body'[Nth(i)] = body[Nth(i)]
        BY <1>1, <1>2, <1>3, <2>1, <3>1 DEF AxiInv, AxiTypeOK
      <3>3. Filled(first + i)' <=> Filled(first + i)
        <4>1. first + i # NextBlock(c)
          BY <1>1, <2>1, <2>4
        <4>2. QED
          BY <1>5, <2>1, <4>1
      <3>4. /\ Poisoned(Nth(i)) <=> ~Filled(first + i)
            /\ ~Poisoned(Nth(i)) => body[Nth(i)] = first + i
        BY DEF Follows
      <3>5. QED
        BY <2>2, <3>2, <3>3, <3>4 DEF Poisoned
    <2>5. QED
      BY <2>3, <2>4
  <1>12. \A i \in 1 .. nbuffers : Nth(i)' = Wrap((Nth(1)' + i) - 1)
    BY <1>4 DEF Follows
  <1>13. (delivered <= first + opened)'
    BY <1>3, <1>4 DEF Follows
  <1>14. Nth(1)' = h /\ opened' = o
    BY <1>4
  <1>15. \A i : body'[Nth(i)'] = body'[Nth(i)]
    BY <1>4
  <1> HIDE DEF p, h, o, T
  <1>16. \A i \in o + 1 .. nbuffers :
           /\ Poisoned(Nth(i))' <=> ~Filled(first + i)'
           /\ ~Poisoned(Nth(i))' => body'[Nth(i)'] = first + i
    BY <1>11, <1>15
  <1>17. \A d \in Chan' : /\ Position(d, first)' > opened' /\ Position(d, first)' <= nbuffers + nchan'
                          /\ Target(d)' = Wrap((Nth(1)' + Position(d, first)') - 1)
                          /\ nchan' = 1 => Position(d, first)' <= nbuffers
    BY <1>3, <1>4, <1>10, <1>14
  <1>18. QED
    BY <1>12, <1>13, <1>14, <1>16, <1>17 DEF Follows

\* getEmpty() and putFull() change nothing of the order.
LEMMA MoveFollows ==
  ASSUME outlasts, AxiInv, NEW first \in Nat, Follows(first), UNCHANGED <<word, body, nchan, pos, sent, delivered>>,
         getEmpty \/ putFull \/ UNCHANGED lists
  PROVE  Follows(first)'
  <1>1. opened' = opened /\ \A i \in 1 .. nbuffers : Nth(i)' = Nth(i)
    <2>1. CASE UNCHANGED lists
      BY <2>1 DEF lists, Nth, Item, opened
    <2>2. QED
      BY <2>1, NthMoves DEF AxiInv
  <1>2. Chan' = Chan /\ \A c \in Chan : Position(c, first)' = Position(c, first) /\ Target(c)' = Target(c)
    BY DEF Chan, Position, NextBlock, Target
  <1>3. \A n : Filled(n)' <=> Filled(n)
    BY <1>2 DEF Filled, NextBlock
  <1>4. 1 \in 1 .. nbuffers /\ \A i \in opened + 1 .. nbuffers : i \in 1 .. nbuffers
    BY InOrder
  <1>5. \A i \in 1 .. nbuffers : Nth(i)' = Wrap((Nth(1)' + i) - 1)
    BY <1>1, <1>4 DEF Follows
  <1>6. \A c \in Chan' : /\ Position(c, first)' > opened' /\ Position(c, first)' <= nbuffers + nchan'
                         /\ Target(c)' = Wrap((Nth(1)' + Position(c, first)') - 1)
                         /\ nchan' = 1 => Position(c, first)' <= nbuffers
    BY <1>1, <1>2, <1>4 DEF Follows
  <1>7. ASSUME NEW i \in opened + 1 .. nbuffers
        PROVE  /\ Poisoned(Nth(i))' <=> ~Filled(first + i)'
               /\ ~Poisoned(Nth(i))' => body'[Nth(i)'] = first + i
    BY <1>1, <1>3, <1>4 DEF Follows, Poisoned
  <1>8. QED
    BY <1>1, <1>5, <1>6, <1>7 DEF Follows

\* getFull(): the block that is delivered is the next of the ring.
LEMMA GetFullFollows ==
  ASSUME outlasts, AxiInv, PaceInv, NEW first \in Nat, Follows(first), GetFull
  PROVE  Follows(first)'
  <1>1. getFull /\ UNCHANGED <<word, body, nchan, pos, sent>> /\ delivered' = body[Head(REFILLS)]
    BY DEF GetFull, mem, dmac
  <1>2. /\ opened' = opened + 1 /\ \A i \in 1 .. nbuffers : Nth(i)' = Nth(i)
        /\ Len(REFILLS) >= 1 /\ Head(REFILLS) = Nth(opened + 1)
    BY <1>1, NthMoves DEF AxiInv
  <1>3. /\ opened \in Nat /\ nbuffers \in Nat /\ 1 \in 1 .. nbuffers
        /\ \A c \in Chan : Position(c, first) \in Nat /\ NextBlock(c) = first + Position(c, first)
    BY InOrder
  <1>4. opened + 1 \in opened + 1 .. nbuffers /\ ~Poisoned(Nth(opened + 1)) /\ body[Nth(opened + 1)] = first + (opened + 1)
    <2>1. Len(REFILLS) \in Nat
      BY ListLengths DEF AxiInv
    <2>2. 1 \in 1 .. Len(REFILLS)
      BY <1>2, <2>1
    <2>3. QED
      BY <2>2, InOrder
  <1>5. Filled(first + (opened + 1))
    BY <1>4 DEF Follows
  <1>6. Chan' = Chan /\ \A c \in Chan : Position(c, first)' = Position(c, first) /\ Target(c)' = Target(c)
    BY <1>1 DEF Chan, Position, NextBlock, Target
  <1>7. \A n : Filled(n)' <=> Filled(n)
    BY <1>1, <1>6 DEF Filled, NextBlock
  <1>8. ASSUME NEW c \in Chan PROVE Position(c, first) > opened + 1
    <2>1. \A d \in Chan : NextBlock(d) >= first + (opened + 1)
      BY <1>3 DEF Follows
    <2>2. first + (opened + 1) \in Int
      BY <1>3
    <2>3. NextBlock(c) > first + (opened + 1)
      BY <1>5, <2>1, <2>2, BlockFacts DEF AxiInv
    <2>4. QED
      BY <1>3, <2>3
  <1>9. \A i \in 1 .. nbuffers : Nth(i)' = Wrap((Nth(1)' + i) - 1)
    BY <1>2, <1>3 DEF Follows
  <1>10. \A c \in Chan' : /\ Position(c, first)' > opened' /\ Position(c, first)' <= nbuffers + nchan'
                          /\ Target(c)' = Wrap((Nth(1)' + Position(c, first)') - 1)
                          /\ nchan' = 1 => Position(c, first)' <= nbuffers
    BY <1>1, <1>2, <1>3, <1>6, <1>8 DEF Follows
  <1>11. ASSUME NEW i \in opened' + 1 .. nbuffers
         PROVE  /\ Poisoned(Nth(i))' <=> ~Filled(first + i)'
                /\ ~Poisoned(Nth(i))' => body'[Nth(i)'] = first + i
    <2>1. i \in opened + 1 .. nbuffers /\ i \in 1 .. nbuffers
      BY <1>2, <1>3
    <2>2. QED
      BY <1>1, <1>2, <1>7, <2>1 DEF Follows, Poisoned
  <1>12. delivered' <= first + opened'
    BY <1>1, <1>2, <1>3, <1>4
  <1>13. QED
    BY <1>9, <1>10, <1>11, <1>12 DEF Follows

\* putEmpty(): the buffer is poisoned and waits for the block a ring ahead.
LEMMA PutEmptyFollows ==
  ASSUME outlasts, AxiInv, PaceInv, lpc \in {"get", "wait", "put"}, StartInv, NEW first \in Nat, Follows(first), PutEmpty
  PROVE  Follows(first + 1)'
  <1> DEFINE o == opened
             h == Nth(1)
  <1>1. putEmpty /\ poison({Head(OPENS)}) /\ UNCHANGED <<nchan, pos, sent, delivered>>
    BY DEF PutEmpty, dmac, app
  <1>2. /\ o >= 1 /\ opened' = o - 1 /\ Head(OPENS) = h
        /\ \A i \in 1 .. nbuffers - 1 : Nth(i)' = Nth(i + 1)
        /\ Nth(nbuffers)' = h
    BY <1>1, NthMoves DEF AxiInv
  <1>3. /\ o \in Nat /\ nbuffers \in Nat /\ nbuffers >= 1 /\ 1 \in 1 .. nbuffers /\ h \in HBM
        /\ \A i \in 1 .. nbuffers : Nth(i) \in HBM /\ Nth(i) = Wrap((h + i) - 1)
        /\ \A i, j \in 1 .. nbuffers : Nth(i) = Nth(j) => i = j
        /\ \A c \in Chan : Position(c, first) \in Nat /\ NextBlock(c) = first + Position(c, first)
        /\ o <= nbuffers
    <2>1. /\ o \in Nat /\ nbuffers \in Nat /\ nbuffers >= 1
          /\ \A i \in 1 .. nbuffers : Nth(i) \in HBM
          /\ \A i, j \in 1 .. nbuffers : Nth(i) = Nth(j) => i = j
          /\ \A c \in Chan : Position(c, first) \in Nat /\ NextBlock(c) = first + Position(c, first)
      BY InOrder
    <2>2. 1 \in 1 .. nbuffers
      BY <2>1
    <2>3. \A i \in 1 .. nbuffers : Nth(i) = Wrap((h + i) - 1)
      BY DEF Follows
    <2>4. o <= nbuffers
      BY ListLengths DEF AxiInv
    <2>5. QED
      BY <2>1, <2>2, <2>3, <2>4
  <1>4. body' = body /\ \A b \in HBM : Poisoned(b)' <=> b = h \/ Poisoned(b)
    BY <1>1, <1>2, PoisonFacts DEF AxiInv
  <1>5. nchan \in {1, 2} /\ nbuffers >= nchan
    BY RingOrder, Channels DEF AxiInv, AxiTypeOK
  <1>6. /\ Chan' = Chan
        /\ \A c \in Chan : Position(c, first + 1)' = Position(c, first) - 1 /\ Target(c)' = Target(c)
        /\ \A n : Filled(n)' <=> Filled(n)
    <2>1. Chan' = Chan /\ \A c : NextBlock(c)' = NextBlock(c) /\ Target(c)' = Target(c)
      BY <1>1 DEF Chan, NextBlock, Target
    <2>2. \A n : Filled(n)' <=> Filled(n)
      BY <1>1, <2>1 DEF Filled
    <2>3. \A c \in Chan : Position(c, first + 1)' = Position(c, first) - 1
      BY <1>3, <2>1 DEF Position
    <2>4. QED
      BY <2>1, <2>2, <2>3
  <1>7. \A i \in 1 .. nbuffers - 1 : i + 1 \in 1 .. nbuffers /\ Nth(i)' = Wrap((h + (i + 1)) - 1)
    BY <1>2, <1>3
  <1>8. Nth(1)' = Wrap(h + 1)
    <2>1. CASE nbuffers = 1
      BY <1>2, <1>3, <2>1 DEF Wrap, HBM
    <2>2. CASE nbuffers > 1
      <3>1. 1 \in 1 .. nbuffers - 1 /\ (h + (1 + 1)) - 1 = h + 1
        BY <1>3, <2>2 DEF HBM
      <3>2. QED
        BY <1>7, <3>1
    <2>3. QED
      BY <1>3, <2>1, <2>2
  <1> HIDE DEF o, h
  <1>9. \A m \in 0 .. 2 * nbuffers - 1 : Wrap(Nth(1)' + m) = Wrap((h + 1) + m)
    BY <1>3, <1>8, WrapFacts
  <1>90. h \in 0 .. nbuffers - 1
    BY <1>3 DEF HBM
  <1>91. Nth(1)' \in Int
    BY <1>3, <1>8, <1>90 DEF Wrap
  <1>10. ASSUME NEW i \in 1 .. nbuffers PROVE Nth(i)' = Wrap((Nth(1)' + i) - 1)
    <2>1. i - 1 \in 0 .. 2 * nbuffers - 1 /\ (Nth(1)' + i) - 1 = Nth(1)' + (i - 1) /\ (h + 1) + (i - 1) = h + i
      BY <1>3, <1>90, <1>91
    <2>2. Wrap((Nth(1)' + i) - 1) = Wrap(h + i)
      BY <1>9, <2>1
    <2>3. CASE i < nbuffers
      <3>1. i \in 1 .. nbuffers - 1 /\ (h + (i + 1)) - 1 = h + i
        BY <1>3, <1>90, <2>3
      <3>2. QED
        BY <1>7, <2>2, <3>1
    <2>4. CASE i = nbuffers
      <3>1. Wrap(h + nbuffers) = h
        BY <1>3, <1>90 DEF Wrap
      <3>2. QED
        BY <1>2, <2>2, <2>4, <3>1 DEF h
    <2>5. QED
      BY <1>3, <2>3, <2>4
  <1>11. ASSUME NEW c \in Chan
         PROVE  /\ Position(c, first + 1)' > opened' /\ Position(c, first + 1)' <= nbuffers + nchan
                /\ Target(c)' = Wrap((Nth(1)' + Position(c, first + 1)') - 1)
                /\ nchan = 1 => Position(c, first + 1)' <= nbuffers
    <2> DEFINE p == Position(c, first)
    <2>1. /\ p \in Nat /\ p > o /\ p <= nbuffers + nchan /\ (nchan = 1 => p <= nbuffers)
          /\ Target(c) = Wrap((h + p) - 1) /\ Position(c, first + 1)' = p - 1
      BY <1>3, <1>6 DEF Follows, o, h
    <2> HIDE DEF p
    <2>2. p - 2 \in 0 .. 2 * nbuffers - 1 /\ (Nth(1)' + (p - 1)) - 1 = Nth(1)' + (p - 2) /\ (h + 1) + (p - 2) = (h + p) - 1
      BY <1>2, <1>3, <1>5, <1>90, <1>91, <2>1
    <2>3. Wrap((Nth(1)' + (p - 1)) - 1) = Target(c)'
      BY <1>6, <1>9, <2>1, <2>2
    <2>4. p - 1 > o - 1 /\ p - 1 <= nbuffers + nchan /\ (nchan = 1 => p - 1 <= nbuffers)
      BY <1>3, <1>5, <2>1
    <2>5. QED
      BY <1>2, <2>1, <2>3, <2>4
  <1>12. ASSUME NEW i \in opened' + 1 .. nbuffers
         PROVE  /\ Poisoned(Nth(i))' <=> ~Filled((first + 1) + i)'
                /\ ~Poisoned(Nth(i))' => body'[Nth(i)'] = (first + 1) + i
    <2>1. i \in o .. nbuffers /\ i >= 1
      BY <1>2, <1>3
    <2>2. CASE i < nbuffers
      <3>1. /\ i \in 1 .. nbuffers - 1 /\ i + 1 \in o + 1 .. nbuffers /\ i + 1 \in 1 .. nbuffers /\ i + 1 # 1
            /\ first + (i + 1) = (first + 1) + i
        BY <1>3, <2>1, <2>2
      <3>2. Nth(i)' = Nth(i + 1) /\ Nth(i + 1) # h /\ Nth(i + 1) \in HBM
        BY <1>2, <1>3, <3>1 DEF h
      <3>3. Poisoned(Nth(i))' <=> Poisoned(Nth(i + 1))
        <4>1. Poisoned(Nth(i))' <=> word'[Nth(i + 1)] = POISON
          BY <3>2 DEF Poisoned
        <4>2. QED
          BY <1>4, <3>2, <4>1 DEF Poisoned
      <3>4. /\ Poisoned(Nth(i + 1)) <=> ~Filled(first + (i + 1))
            /\ ~Poisoned(Nth(i + 1)) => body[Nth(i + 1)] = first + (i + 1)
        BY <3>1 DEF Follows, o
      <3>5. QED
        BY <1>4, <1>6, <3>1, <3>2, <3>3, <3>4
    <2>3. CASE i = nbuffers
      <3>1. Poisoned(Nth(i))'
        <4>1. Nth(i)' = h
          BY <1>2, <2>3
        <4>2. word'[h] = POISON
          BY <1>3, <1>4 DEF Poisoned
        <4>3. QED
          BY <4>1, <4>2 DEF Poisoned
      <3>2. ~Filled((first + 1) + i)
        <4>1. (first + 1) + i \in Int
          BY <2>1, <1>3
        <4>2. \A c \in Chan : NextBlock(c) < ((first + 1) + i) + nchan
          <5>1. ASSUME NEW c \in Chan PROVE NextBlock(c) < ((first + 1) + i) + nchan
            <6>1. Position(c, first) \in Nat /\ NextBlock(c) = first + Position(c, first) /\ Position(c, first) <= nbuffers + nchan
              BY <1>3 DEF Follows
            <6>2. QED
              BY <1>3, <1>5, <2>3, <6>1
          <5>2. QED
            BY <5>1
        <4>3. QED
          BY <4>1, <4>2, BlocksBeyond DEF AxiInv
      <3>3. QED
        BY <1>6, <3>1, <3>2
    <2>4. QED
      BY <1>3, <2>1, <2>2, <2>3
  <1>13. delivered' <= (first + 1) + opened'
    <2>1. delivered <= first + o /\ delivered \in Nat
      BY DEF Follows, o, PaceInv
    <2>2. first + o = (first + 1) + opened'
      BY <1>2, <1>3
    <2>3. QED
      BY <1>1, <2>1, <2>2
  <1>14. QED
    BY <1>1, <1>6, <1>10, <1>11, <1>12, <1>13 DEF Follows

\* The loop sets out with every buffer poisoned and the channels in step.
LEMMA PoisonAllFollows ==
  ASSUME AxiInv, AxiInv', PaceInv, StartInv, PoisonAll, lpc' = "get"
  PROVE  Follows(nchan * sent[0])'
  <1> DEFINE m == sent[0]
             F == nchan * m
  <1>1. /\ lpc = "poison" /\ UNCHANGED <<lists, nchan, pos, sent, delivered>> /\ body' = body
        /\ poison({ring[c][i] : c \in Chan, i \in 1 .. nbuffers \div nchan})
    BY DEF PoisonAll, At, dmac, app, poison
  <1>2. /\ INFLIGHT = << >> /\ REFILLS = << >> /\ OPENS = << >>
        /\ EMPTIES = [i \in 1 .. nbuffers |-> i - 1]
        /\ (\A c \in Chan : pos[c] = 1) /\ \A c, d \in Chan : sent[c] = sent[d]
    BY <1>1 DEF AxiInv, FlightInv, StartInv
  <1>3. nbuffers \in Nat /\ nbuffers >= 1 /\ nchan \in {1, 2} /\ 0 \in Chan /\ m \in Nat
        /\ \A c \in Chan : sent[c] = m
    BY <1>2, Channels, NBuffersAssumption DEF AxiInv
  <1>4. F \in Nat /\ \A c \in Chan : NextBlock(c) = (F + c) + 1 /\ c \in 0 .. nchan - 1
    BY <1>3 DEF NextBlock, Chan
  <1>5. Chan' = Chan /\ (\A c : NextBlock(c)' = NextBlock(c)) /\ (\A n : Filled(n)' <=> Filled(n))
        /\ \A c : Target(c)' = Target(c)
    BY <1>1 DEF Chan, NextBlock, Filled, Target
  <1>6. opened' = 0 /\ \A i \in 1 .. nbuffers : Nth(i)' = i - 1
    <2>1. Len(OPENS) = 0 /\ Len(REFILLS) = 0 /\ Len(INFLIGHT) = 0
      BY <1>2
    <2>2. \A i \in 1 .. nbuffers : Nth(i) = EMPTIES[i]
      <3>1. \A i \in 1 .. nbuffers : ~(i <= 0) /\ i - 0 = i
        BY <1>3
      <3>2. \A i \in 1 .. nbuffers : Nth(i) = EMPTIES[i - 0]
        BY <1>3, <2>1, <3>1 DEF Nth, Item
      <3>3. QED
        BY <3>1, <3>2
    <2>3. opened' = 0 /\ \A i : Nth(i)' = Nth(i)
      BY <1>1, <2>1 DEF lists, Nth, Item, opened
    <2>4. QED
      BY <1>2, <2>2, <2>3
  <1>7. (\A b \in HBM : Poisoned(b)') /\ nchan <= nbuffers
    <2>1. \A b \in HBM : InRing(b)
      <3>1. \A b \in HBM : InRing(b)'
        BY DEF AxiInv, RingInv
      <3>2. QED
        BY <1>1, <3>1 DEF InRing
    <2>2. \A b \in HBM : b \in {ring[c][i] : c \in Chan, i \in 1 .. nbuffers \div nchan}
      BY <1>1, <2>1 DEF AxiInv, RingInv
    <2>3. 0 \in HBM
      BY <1>3 DEF HBM
    <2>4. nchan <= nbuffers
      BY <1>3, <2>1, <2>3 DEF InRing
    <2>5. QED
      BY <1>1, <2>2, <2>4, PoisonFacts DEF AxiInv
  <1> HIDE DEF m, F
  <1>8. ASSUME NEW i \in 1 .. nbuffers PROVE Nth(i)' = Wrap((Nth(1)' + i) - 1)
    <2>1. 1 \in 1 .. nbuffers /\ Nth(1)' = 0 /\ Nth(i)' = i - 1
      BY <1>3, <1>6
    <2>2. Wrap((0 + i) - 1) = i - 1
      BY <1>3 DEF Wrap
    <2>3. QED
      BY <2>1, <2>2
  <1>9. ASSUME NEW c \in Chan
        PROVE  /\ Position(c, F)' > opened' /\ Position(c, F)' <= nbuffers + nchan
               /\ Target(c)' = Wrap((Nth(1)' + Position(c, F)') - 1)
               /\ nchan = 1 => Position(c, F)' <= nbuffers
    <2>1. c \in 0 .. nchan - 1 /\ NextBlock(c) = (F + c) + 1 /\ F \in Nat
      BY <1>4
    <2>2. Position(c, F)' = NextBlock(c)' - F'
      BY DEF Position
    <2>3. F' = F
      BY <1>1 DEF F, m
    <2>4. Position(c, F)' = c + 1
      BY <1>3, <1>5, <2>1, <2>2, <2>3
    <2>5. Target(c)' = c
      BY <1>2, <1>3, <1>5, <2>1 DEF Target
    <2>6. 1 \in 1 .. nbuffers /\ Nth(1)' = 0
      BY <1>3, <1>6
    <2>7. Wrap((0 + (c + 1)) - 1) = c
      BY <1>3, <1>7, <2>1 DEF Wrap
    <2>8. QED
      BY <1>3, <1>6, <1>7, <2>1, <2>4, <2>5, <2>6, <2>7
  <1>10. ASSUME NEW i \in 1 .. nbuffers
         PROVE  Poisoned(Nth(i))' /\ ~Filled(F + i)'
    <2>1. Nth(i)' \in HBM
      BY <1>3, <1>6 DEF HBM
    <2>2. Poisoned(Nth(i))'
      BY <1>7, <2>1 DEF Poisoned
    <2>3. \A c \in Chan : NextBlock(c) < (F + i) + nchan
      BY <1>3, <1>4
    <2>4. F + i \in Int
      BY <1>4
    <2>5. ~Filled(F + i)
      BY <2>3, <2>4, BlocksBeyond DEF AxiInv
    <2>6. F' = F
      BY <1>1 DEF F, m
    <2>7. Filled(F + i)' <=> Filled(F + i)
      BY <1>1, <1>5, <2>6 DEF Filled
    <2>8. QED
      BY <2>2, <2>5, <2>7
  <1>11. delivered' <= F + opened'
    <2>1. delivered \in Nat /\ \E c \in Chan : delivered <= nchan * sent[c]
      BY DEF PaceInv
    <2>2. delivered <= F
      BY <1>3, <2>1 DEF F
    <2>3. QED
      BY <1>1, <1>4, <1>6, <2>1, <2>2
  <1>12. F' = F
    BY <1>1 DEF F, m
  <1>13. Follows(F)'
    BY <1>1, <1>5, <1>6, <1>8, <1>9, <1>10, <1>11, <1>12 DEF Follows
  <1>14. QED
    BY <1>13 DEF F, m

LEMMA FollowStep ==
  ASSUME nbuffers > 1, KeepsPlace, AxiInv, AxiInv', PaceInv, StartInv, FollowInv, [Next]_vars
  PROVE  FollowInv'
  <1> USE DEF At
  <1>0. outlasts
    BY DEF KeepsPlace
  <1>1. CASE PoisonAll
    <2>1. lpc' \in {"quit", "get"} /\ UNCHANGED <<nchan, sent>>
      BY <1>1 DEF PoisonAll, dmac
    <2>2. CASE lpc' = "get"
      <3>1. Follows(nchan * sent[0])'
        BY <1>1, <2>2, PoisonAllFollows
      <3>2. nchan' * sent'[0] \in Nat
        BY <2>1, Channels DEF AxiInv
      <3>3. QED
        BY <2>2, <3>1, <3>2 DEF FollowInv
    <2>3. QED
      BY <2>1, <2>2 DEF FollowInv
  <1>2. CASE LoadDmac \/ ToldToStop \/ Quit \/ OpenDevice \/ Stopped
    <2>1. lpc' \in {"poison", "quit", "exited", "failed", "load"}
      BY <1>2 DEF LoadDmac, ToldToStop, Quit, OpenDevice, Stopped, loop
    <2>2. QED
      BY <2>1 DEF FollowInv
  <1>3. CASE DiscardFull \/ HoldAgain
    BY <1>3 DEF FollowInv, DiscardFull, HoldAgain
  <1>4. CASE NoEmpty
    <2>1. lpc = "get" /\ todo > 0 /\ nchan = 1 /\ EMPTIES = << >>
      BY <1>4 DEF NoEmpty
    <2>2. PICK first \in Nat : Follows(first)
      BY <2>1 DEF FollowInv
    <2>3. Chan = {0}
      BY <2>1, Channels DEF AxiInv
    <2> DEFINE p == Position(0, first)
    <2>4. p \in Nat /\ p > opened /\ p <= nbuffers /\ NextBlock(0) = first + p
      BY <1>0, <2>1, <2>2, <2>3, InOrder DEF Follows
    <2>5. /\ opened \in Nat /\ Len(REFILLS) \in Nat /\ Len(INFLIGHT) \in Nat
          /\ opened + Len(REFILLS) + Len(INFLIGHT) + 0 = nbuffers
      BY <2>1, ListLengths DEF AxiInv
    <2>6. Len(INFLIGHT) = 0
      BY <2>1, <2>5 DEF AxiInv, FlightInv, AxiTypeOK
    <2> HIDE DEF p
    <2>7. p - opened \in 1 .. Len(REFILLS) /\ opened + (p - opened) = p /\ p \in opened + 1 .. nbuffers
      BY <2>4, <2>5, <2>6, NBuffersAssumption
    <2>8. ~Poisoned(Nth(p))
      BY <1>0, <2>2, <2>7, InOrder
    <2>9. Filled(first + p)
      BY <2>2, <2>7, <2>8 DEF Follows
    <2>10. QED
      BY <2>3, <2>4, <2>9, BlockFacts DEF AxiInv
  <1>5. CASE GetEmpty \/ GotEmpties \/ DmaDone \/ PutFull \/ NextGroup
    <2>1. /\ lpc \in {"get", "wait", "put"} /\ lpc' \in {"get", "wait", "put", "fail"}
          /\ UNCHANGED <<word, body, nchan, pos, sent, delivered>>
          /\ getEmpty \/ putFull \/ UNCHANGED lists
      BY <1>5 DEF GetEmpty, GotEmpties, DmaDone, PutFull, NextGroup, CheckFifo, mem, dmac, app
    <2>2. PICK first \in Nat : Follows(first)
      BY <2>1 DEF FollowInv
    <2>3. Follows(first)'
      BY <1>0, <2>1, <2>2, MoveFollows
    <2>4. QED
      BY <2>1, <2>3 DEF FollowInv
  <1>6. CASE EnableAggregator \/ Release \/ UNCHANGED vars
    <2>1. UNCHANGED <<lpc, lists, word, body, nchan, pos, sent, delivered>>
      BY <1>6 DEF EnableAggregator, Release, vars, mem, dmac, loop, app
    <2>2. lpc \notin {"exhausted", "again"}
      BY DEF FollowInv
    <2>3. CASE lpc \in {"get", "wait", "put"}
      <3>1. PICK first \in Nat : Follows(first)
        BY <2>3 DEF FollowInv
      <3>2. Follows(first)'
        BY <1>0, <2>1, <3>1, MoveFollows
      <3>3. QED
        BY <2>1, <2>3, <3>2 DEF FollowInv
    <2>4. QED
      BY <2>1, <2>2, <2>3 DEF FollowInv
  <1>7. CASE GetFull \/ PutEmpty \/ \E c \in Chan : Transfer(c)
    <2>1. lpc' = lpc
      BY <1>7 DEF GetFull, PutEmpty, Transfer, loop
    <2>2. lpc \notin {"exhausted", "again"}
      BY DEF FollowInv
    <2>3. CASE lpc \in {"get", "wait", "put"}
      <3>1. PICK first \in Nat : Follows(first)
        BY <2>3 DEF FollowInv
      <3>2. first + 1 \in Nat
        OBVIOUS
      <3>3. Follows(first)' \/ Follows(first + 1)'
        BY <1>0, <1>7, <2>3, <3>1, GetFullFollows, PutEmptyFollows, TransferFollows
      <3>4. QED
        BY <2>1, <2>3, <3>2, <3>3 DEF FollowInv
    <2>4. QED
      BY <2>1, <2>2, <2>3 DEF FollowInv
  <1>8. QED
    BY <1>1, <1>2, <1>3, <1>4, <1>5, <1>6, <1>7 DEF Next, LoopStep, AppStep

\* The buffer that putFull() hands on holds the block after those that wait.
LEMMA HandedOn ==
  ASSUME outlasts, AxiInv, PaceInv, FollowInv, PutFull, INFLIGHT # << >>
  PROVE  /\ Head(INFLIGHT) \in HBM /\ delivered < body[Head(INFLIGHT)]
         /\ \A i \in 1 .. Len(REFILLS) : body[REFILLS[i]] < body[Head(INFLIGHT)]
  <1>1. lpc = "put"
    BY DEF PutFull, At
  <1>2. PICK first \in Nat : Follows(first)
    BY <1>1 DEF FollowInv
  <1>3. /\ INFLIGHT \in Seq(HBM)
        /\ opened \in Nat /\ Len(REFILLS) \in Nat /\ Len(INFLIGHT) \in Nat /\ Len(EMPTIES) \in Nat
        /\ opened + Len(REFILLS) + Len(INFLIGHT) + Len(EMPTIES) = nbuffers /\ nbuffers \in Nat
    BY ListLengths DEF AxiInv
  <1>4. Len(INFLIGHT) >= 1 /\ Head(INFLIGHT) = INFLIGHT[1] /\ Head(INFLIGHT) \in HBM
    BY <1>3, HeadTailFacts
  <1>5. On(INFLIGHT, Head(INFLIGHT)) /\ ~Poisoned(Head(INFLIGHT))
    <2>1. On(INFLIGHT, Head(INFLIGHT))
      BY <1>3, <1>4 DEF On
    <2>2. QED
      BY <1>1, <1>4, <2>1 DEF AxiInv, FlightInv
  <1> DEFINE n == opened + Len(REFILLS) + 1
  <1>6. Nth(n) = Head(INFLIGHT)
    BY <1>3, <1>4, NthOfLists DEF AxiInv
  <1>7. n \in opened + 1 .. nbuffers
    BY <1>3, <1>4
  <1>8. body[Head(INFLIGHT)] = first + n
    BY <1>2, <1>5, <1>6, <1>7 DEF Follows
  <1>9. delivered \in Nat /\ delivered <= first + opened
    BY <1>2 DEF Follows, PaceInv
  <1>10. \A i \in 1 .. Len(REFILLS) : body[REFILLS[i]] = first + (opened + i)
    BY <1>2, InOrder
  <1> HIDE DEF n
  <1>11. delivered < first + n
    BY <1>3, <1>9 DEF n
  <1>12. \A i \in 1 .. Len(REFILLS) : first + (opened + i) < first + n
    BY <1>3 DEF n
  <1>13. QED
    BY <1>4, <1>8, <1>10, <1>11, <1>12

\* What a step does to what waits for the application.
LEMMA WaitingMoves ==
  ASSUME outlasts, AxiInv, PaceInv, [Next]_vars
  PROVE  \/ UNCHANGED <<REFILLS, delivered>> /\ \A i \in 1 .. Len(REFILLS) : body'[REFILLS[i]] = body[REFILLS[i]]
         \/ REFILLS' = << >> /\ UNCHANGED <<body, delivered>>
         \/ GetFull
         \/ PutFull /\ INFLIGHT # << >>
  <1>1. ASSUME NEW c \in Chan, Transfer(c)
        PROVE  UNCHANGED <<REFILLS, delivered>> /\ \A i \in 1 .. Len(REFILLS) : body'[REFILLS[i]] = body[REFILLS[i]]
    <2> DEFINE x == Slot(c, c, 0)
               blk == nchan * sent[c] + c + 1
    <2>1. /\ UNCHANGED <<REFILLS, delivered>> /\ word[x] = POISON /\ body' = [body EXCEPT ![x] = blk]
      BY <1>1 DEF Transfer, lists, app, KeepsUp, poison_overwritten
    <2> HIDE DEF x, blk
    <2>2. \A i \in 1 .. Len(REFILLS) : REFILLS[i] \in HBM /\ REFILLS[i] # x
      <3>1. ASSUME NEW i \in 1 .. Len(REFILLS) PROVE REFILLS[i] \in HBM /\ ~Poisoned(REFILLS[i])
        <4>1. REFILLS \in Seq(HBM)
          BY DEF AxiInv, ListsInv, ListsTypeOK
        <4>2. REFILLS[i] \in HBM /\ On(REFILLS, REFILLS[i])
          BY <4>1 DEF On
        <4>3. QED
          BY <4>2 DEF AxiInv, CleanInv
      <3>2. QED
        BY <2>1, <3>1 DEF Poisoned
    <2>3. QED
      BY <2>1, <2>2 DEF AxiInv, AxiTypeOK
  <1>2. CASE LoadDmac
    BY <1>2 DEF LoadDmac, lists, mem, app
  <1>3. CASE ~LoadDmac /\ \A c \in Chan : ~Transfer(c)
    <2>1. body' = body /\ (delivered' = delivered \/ GetFull)
      BY <1>3, StillFrame
    <2>2. REFILLS' = REFILLS \/ REFILLS' = << >> \/ GetFull \/ (PutFull /\ INFLIGHT # << >>)
      <3>1. CASE LoopStep
        <4>1. CASE PoisonAll
          BY <4>1 DEF lists, PoisonAll
        <4>2. CASE GetEmpty
          BY <4>2 DEF GetEmpty, getEmpty
        <4>3. CASE GotEmpties \/ NoEmpty \/ NextGroup
          BY <4>3 DEF lists, GotEmpties, NoEmpty, NextGroup
        <4>4. CASE DmaDone \/ ToldToStop
          BY <4>4 DEF lists, DmaDone, ToldToStop
        <4>5. CASE PutFull
          BY <4>5 DEF PutFull, lists
        <4>6. CASE DiscardFull
          BY <4>6 DEF DiscardFull, moveRefillsToEmpty
        <4>7. CASE HoldAgain
          BY <4>7 DEF lists, HoldAgain, getEmpty
        <4>8. CASE Quit
          BY <4>8 DEF lists, Quit
        <4>9. QED
          BY <1>3, <3>1, <4>1, <4>2, <4>3, <4>4, <4>5, <4>6, <4>7, <4>8 DEF LoopStep
      <3>2. CASE AppStep \/ UNCHANGED vars
        BY <3>2 DEF AppStep, vars, lists, OpenDevice, EnableAggregator, PutEmpty, Release, Stopped, putEmpty
      <3>3. QED
        BY <1>3, <3>1, <3>2 DEF Next
    <2>3. QED
      BY <2>1, <2>2
  <1>4. QED
    BY <1>1, <1>2, <1>3

LEMMA RisingStep ==
  ASSUME outlasts, AxiInv, PaceInv, FollowInv, RisingInv, [Next]_vars
  PROVE  RisingInv'
  <1>1. /\ REFILLS \in Seq(HBM) /\ INFLIGHT \in Seq(HBM) /\ Len(REFILLS) \in Nat
        /\ body \in [HBM -> Nat]
    BY DEF AxiInv, ListsInv, ListsTypeOK, AxiTypeOK
  <1>2. CASE UNCHANGED <<REFILLS, delivered>> /\ \A i \in 1 .. Len(REFILLS) : body'[REFILLS[i]] = body[REFILLS[i]]
    BY <1>2 DEF RisingInv
  <1>3. CASE REFILLS' = << >>
    <2>1. Len(REFILLS') = 0
      BY <1>3
    <2>2. QED
      BY <2>1 DEF RisingInv
  <1>4. CASE GetFull
    <2>1. /\ body' = body /\ delivered' = body[Head(REFILLS)] /\ REFILLS # << >> /\ REFILLS' = Tail(REFILLS)
      BY <1>4 DEF GetFull, getFull, mem
    <2>2. /\ Len(REFILLS) >= 1 /\ Head(REFILLS) = REFILLS[1] /\ Len(REFILLS') = Len(REFILLS) - 1
          /\ \A i \in 1 .. Len(REFILLS) - 1 : REFILLS'[i] = REFILLS[i + 1]
      BY <1>1, <2>1, HeadTailFacts
    <2>3. \A i \in 1 .. Len(REFILLS') : i + 1 \in 1 .. Len(REFILLS) /\ 1 < i + 1 /\ body'[REFILLS'[i]] = body[REFILLS[i + 1]]
      BY <1>1, <2>1, <2>2
    <2>4. 1 \in 1 .. Len(REFILLS)
      BY <1>1, <2>2
    <2>5. \A i \in 1 .. Len(REFILLS') : delivered' < body'[REFILLS'[i]]
      BY <2>1, <2>2, <2>3, <2>4 DEF RisingInv
    <2>6. ASSUME NEW i \in 1 .. Len(REFILLS'), NEW j \in 1 .. Len(REFILLS'), i < j
          PROVE  body'[REFILLS'[i]] < body'[REFILLS'[j]]
      <3>1. i + 1 < j + 1
        BY <1>1, <2>2, <2>6
      <3>2. QED
        BY <2>3, <3>1 DEF RisingInv
    <2>7. QED
      BY <2>5, <2>6 DEF RisingInv
  <1>5. CASE PutFull /\ INFLIGHT # << >>
    <2>1. /\ body' = body /\ delivered' = delivered /\ REFILLS' = Append(REFILLS, Head(INFLIGHT))
      BY <1>5 DEF PutFull, putFull, mem, app
    <2>2. /\ Head(INFLIGHT) \in HBM /\ delivered < body[Head(INFLIGHT)]
          /\ \A i \in 1 .. Len(REFILLS) : body[REFILLS[i]] < body[Head(INFLIGHT)]
      BY <1>5, HandedOn
    <2>3. /\ Len(REFILLS') = Len(REFILLS) + 1
          /\ \A i \in 1 .. Len(REFILLS) : REFILLS'[i] = REFILLS[i]
          /\ REFILLS'[Len(REFILLS) + 1] = Head(INFLIGHT)
      BY <1>1, <2>1, <2>2, AppendFacts
    <2>4. \A i \in 1 .. Len(REFILLS') : delivered < body'[REFILLS'[i]]
      <3> TAKE i \in 1 .. Len(REFILLS')
      <3>1. i \in 1 .. Len(REFILLS) \/ i = Len(REFILLS) + 1
        BY <1>1, <2>3
      <3>2. QED
        BY <2>1, <2>2, <2>3, <3>1 DEF RisingInv
    <2>5. ASSUME NEW i \in 1 .. Len(REFILLS'), NEW j \in 1 .. Len(REFILLS'), i < j
          PROVE  body'[REFILLS'[i]] < body'[REFILLS'[j]]
      <3> DEFINE n == Len(REFILLS)
      <3>0. n \in Nat /\ i \in 1 .. n + 1 /\ j \in 1 .. n + 1 /\ i < j
        BY <1>1, <2>3, <2>5
      <3> HIDE DEF n
      <3>1. i \in 1 .. n /\ (j \in 1 .. n \/ j = n + 1)
        BY <3>0
      <3> USE DEF n
      <3>2. QED
        BY <2>1, <2>2, <2>3, <2>5, <3>1 DEF RisingInv
    <2>6. QED
      BY <2>1, <2>4, <2>5 DEF RisingInv
  <1>6. QED
    BY <1>2, <1>3, <1>4, <1>5, WaitingMoves

LEMMA StreamInvariant ==
  ASSUME nbuffers > 1
  PROVE  Spec => [](AxiInv /\ StreamInv)
  <1>1. Init => StreamInv
    <2> SUFFICES ASSUME Init PROVE StreamInv
      OBVIOUS
    <2>1. /\ nchan \in 1 .. 2 /\ margin \in Margins /\ lpc = "none" /\ cpc = "closed" /\ flow = FALSE
          /\ sent = [c \in Chan |-> 0] /\ word = [b \in HBM |-> 0] /\ body = word /\ delivered = 0
          /\ REFILLS = << >>
      BY DEF Init, ListsInit
    <2>2. 0 \in Chan /\ \A c \in Chan : sent[c] = 0 /\ nchan * 0 = 0
      BY <2>1 DEF Chan
    <2>3. PaceInv
      <3>1. \A b \in HBM : body[b] = 0
        BY <2>1
      <3>2. (\A b \in HBM : \E c \in Chan : body[b] <= nchan * sent[c]) /\ \E c \in Chan : delivered <= nchan * sent[c]
        BY <2>1, <2>2, <3>1
      <3>3. (\A c, d \in Chan : sent[c] <= sent[d] + 1) /\ \A c \in Chan : sent[c] <= MaxBlocks
        BY <2>2, AxiAssumption
      <3>4. QED
        BY <2>1, <3>2, <3>3 DEF PaceInv
    <2>4. StartInv
      BY <2>1 DEF StartInv, Walking
    <2>5. FollowInv
      BY <2>1 DEF FollowInv
    <2>6. RisingInv
      <3>1. Len(REFILLS) = 0
        BY <2>1
      <3>2. QED
        BY <3>1 DEF RisingInv
    <2>7. QED
      BY <2>3, <2>4, <2>5, <2>6 DEF StreamInv
  <1>2. AxiInv /\ AxiInv' /\ StreamInv /\ [Next]_vars => StreamInv'
    <2> SUFFICES ASSUME AxiInv, AxiInv', StreamInv, [Next]_vars PROVE StreamInv'
      OBVIOUS
    <2>1. PaceInv'
      BY PaceStep DEF AxiInv, StreamInv
    <2>2. StartInv'
      BY StartStep DEF StreamInv
    <2>3. KeepsPlace' => KeepsPlace
      BY TimingStands DEF KeepsPlace, NeverExhausted
    <2>4. KeepsPlace => FollowInv' /\ RisingInv'
      BY FollowStep, RisingStep DEF StreamInv, KeepsPlace
    <2>5. QED
      BY <2>1, <2>2, <2>3, <2>4 DEF StreamInv
  <1>3. QED
    BY <1>1, <1>2, AxiInvariant, PTL DEF Spec

\* A step of the capture is a step of the stream of blocks, or changes nothing of it.
LEMMA StreamStep ==
  ASSUME AxiInv, StreamInv, [Next]_vars
  PROVE  [Stream!BSNext]_(Stream!bsvars)
  <1> DEFINE queue == IF KeepsPlace THEN Waiting ELSE << >>
             last == IF KeepsPlace THEN delivered ELSE 0
  <1>0. KeepsPlace' <=> KeepsPlace
    BY TimingStands DEF KeepsPlace, NeverExhausted
  <1>1. CASE ~KeepsPlace
    <2>1. queue' = queue /\ last' = last
      BY <1>0, <1>1
    <2>2. QED
      BY <2>1 DEF Stream!bsvars
  <1>2. CASE KeepsPlace
    <2>0. outlasts
      BY <1>2 DEF KeepsPlace
    <2>1. /\ REFILLS \in Seq(HBM) /\ INFLIGHT \in Seq(HBM) /\ Len(REFILLS) \in Nat /\ body \in [HBM -> Nat]
          /\ PaceInv /\ FollowInv /\ MaxBlocks \in Nat
      BY <1>2, AxiAssumption DEF AxiInv, StreamInv, ListsInv, ListsTypeOK, AxiTypeOK
    <2>2. Waiting = BlocksOf(body, REFILLS) /\ Waiting' = BlocksOf(body', REFILLS')
      BY DEF Waiting, BlocksOf
    <2>3. queue = Waiting /\ queue' = Waiting' /\ last = delivered /\ last' = delivered'
      BY <1>0, <1>2
    <2>4. Len(Waiting) = Len(REFILLS) /\ \A i \in 1 .. Len(REFILLS) : Waiting[i] = body[REFILLS[i]]
      BY <2>1, <2>2, BlocksOfList
    <2> HIDE DEF queue, last
    <2>5. CASE UNCHANGED <<REFILLS, delivered>> /\ \A i \in 1 .. Len(REFILLS) : body'[REFILLS[i]] = body[REFILLS[i]]
      <3>1. Waiting' = Waiting
        BY <2>5 DEF Waiting
      <3>2. queue' = queue /\ last' = last
        BY <2>3, <2>5, <3>1
      <3>3. QED
        BY <3>2 DEF Stream!bsvars, queue, last
    <2>6. CASE REFILLS' = << >> /\ UNCHANGED <<body, delivered>>
      <3>1. Waiting' = << >>
        BY <2>2, <2>6, BlocksOfNone
      <3>2. CASE Len(REFILLS) = 0
        <4>1. REFILLS = << >>
          BY <2>1, <3>2
        <4>2. queue' = queue /\ last' = last
          BY <2>2, <2>3, <2>6, <4>1
        <4>3. QED
          BY <4>2 DEF Stream!bsvars, queue, last
      <3>3. CASE Len(REFILLS) # 0
        <4>1. Len(Waiting) \in 1 .. Len(Waiting)
          BY <2>1, <2>4, <3>3
        <4>2. SubSeq(Waiting, Len(Waiting) + 1, Len(Waiting)) = << >>
          BY <2>1, <2>4
        <4>3. \E n \in 1 .. Len(queue) : queue' = SubSeq(queue, n + 1, Len(queue)) /\ last' = last
          BY <2>3, <2>6, <3>1, <4>1, <4>2
        <4>4. QED
          BY <4>3 DEF Stream!BSNext, Stream!Discard, queue, last
      <3>4. QED
        BY <3>2, <3>3
    <2>7. CASE GetFull
      <3>1. /\ REFILLS # << >> /\ REFILLS' = Tail(REFILLS) /\ body' = body
            /\ delivered' = body[Head(REFILLS)]
        BY <2>7 DEF GetFull, getFull, mem
      <3>2. Waiting # << >> /\ delivered' = Head(Waiting) /\ Waiting' = Tail(Waiting)
        BY <2>1, <2>2, <3>1, BlocksOfTail
      <3>3. queue # << >> /\ last' = Head(queue) /\ queue' = Tail(queue)
        BY <2>3, <3>2
      <3>4. QED
        BY <3>3 DEF Stream!BSNext, Stream!Deliver, queue, last
    <2>8. CASE PutFull /\ INFLIGHT # << >>
      <3> DEFINE b == body[Head(INFLIGHT)]
      <3>1. /\ body' = body /\ delivered' = delivered /\ REFILLS' = Append(REFILLS, Head(INFLIGHT))
        BY <2>8 DEF PutFull, putFull, mem, app
      <3>2. /\ Head(INFLIGHT) \in HBM /\ delivered < b
            /\ \A i \in 1 .. Len(REFILLS) : body[REFILLS[i]] < b
        BY <2>0, <2>1, <2>8, HandedOn
      <3>3. Waiting' = Append(Waiting, b)
        BY <2>1, <2>2, <3>1, <3>2, BlocksOfAppend
      <3>4. b \in Nat /\ b <= 2 * MaxBlocks
        <4>1. PICK c \in Chan : b <= nchan * sent[c]
          BY <2>1, <3>2 DEF PaceInv
        <4>2. sent[c] \in Nat /\ sent[c] <= MaxBlocks /\ nchan \in {1, 2} /\ b \in Nat
          BY <2>1, <3>2 DEF PaceInv, AxiInv, AxiTypeOK
        <4> HIDE DEF b
        <4>3. CASE nchan = 1
          BY <2>1, <4>1, <4>2, <4>3
        <4>4. CASE nchan = 2
          BY <2>1, <4>1, <4>2, <4>4
        <4>5. QED
          BY <4>2, <4>3, <4>4
      <3>5. delivered \in Nat
        BY <2>1 DEF PaceInv
      <3> HIDE DEF b
      <3>6. b \in 1 .. 2 * MaxBlocks
        BY <2>1, <3>2, <3>4, <3>5
      <3>7. b > last /\ \A i \in 1 .. Len(queue) : b > queue[i]
        <4>1. b > delivered
          BY <3>2, <3>4, <3>5
        <4>2. ASSUME NEW i \in 1 .. Len(REFILLS) PROVE b > Waiting[i]
          <5>1. body[REFILLS[i]] \in Nat
            BY <2>1
          <5>2. QED
            BY <2>4, <3>2, <3>4, <5>1
        <4>3. QED
          BY <2>3, <2>4, <4>1, <4>2
      <3>8. queue' = Append(queue, b) /\ last' = last
        BY <2>3, <3>1, <3>3
      <3>9. QED
        BY <3>6, <3>7, <3>8 DEF Stream!BSNext, Stream!Acquire, queue, last
    <2>9. QED
      BY <2>0, <2>1, <2>5, <2>6, <2>7, <2>8, WaitingMoves
  <1>3. QED
    BY <1>1, <1>2

\* The blocks an application of axi64_data_loop() or axi64_dual_data_loop() reads
\* are the stream of BlockStream, with any number of buffers but one, opens and
\* blocks: in order, each once, lost at the head only, across stops and restarts.
\* The two assumptions are those of KeepsPlace: the loop is never out of buffers,
\* and the delay of the dual loop outlasts the skew of its channels.
THEOREM AxiStreamImplemented == nbuffers > 1 => (Spec => AxiImplementsStream)
  <1> SUFFICES ASSUME nbuffers > 1 PROVE Spec => AxiImplementsStream
    OBVIOUS
  <1>1. Init => Stream!BSInit
    <2> SUFFICES ASSUME Init PROVE Stream!BSInit
      OBVIOUS
    <2>1. REFILLS = << >> /\ delivered = 0
      BY DEF Init, ListsInit
    <2>2. Waiting = << >>
      BY <2>1, BlocksOfNone DEF Waiting, BlocksOf
    <2>3. QED
      BY <2>1, <2>2 DEF Stream!BSInit
  <1>2. AxiInv /\ StreamInv /\ [Next]_vars => [Stream!BSNext]_(Stream!bsvars)
    BY StreamStep
  <1>3. Spec => [](AxiInv /\ StreamInv)
    BY StreamInvariant
  <1>4. QED
    BY <1>1, <1>2, <1>3, PTL DEF Spec, AxiImplementsStream, Stream!BSSpec
=============================================================================
