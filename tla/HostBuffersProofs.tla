------------------------- MODULE HostBuffersProofs -------------------------
(***************************************************************************)
(* Every operation of acq400_lists.c preserves BuffersConserved, for any   *)
(* number of buffers.  The lemmas are stated per operation and are used by *)
(* the proofs about the modules that use the lists.                        *)
(***************************************************************************)
EXTENDS HostBuffers, SequenceTheorems, FiniteSetTheorems, TLAPS

\* What the lists guarantee between operations.
ListsInv == ListsTypeOK /\ BuffersConserved

\* The head and the tail of a list, element by element.
LEMMA HeadTailFacts ==
  ASSUME NEW q \in Seq(HBM), q # << >>
  PROVE  /\ Len(q) \in Nat /\ Len(q) >= 1
         /\ Head(q) = q[1] /\ Head(q) \in HBM
         /\ Tail(q) \in Seq(HBM)
         /\ Len(Tail(q)) = Len(q) - 1
         /\ \A i \in 1 .. Len(q) - 1 : Tail(q)[i] = q[i + 1]
  OBVIOUS

\* list_move_tail(), element by element.
LEMMA AppendFacts ==
  ASSUME NEW q \in Seq(HBM), NEW b \in HBM
  PROVE  /\ Append(q, b) \in Seq(HBM)
         /\ Len(Append(q, b)) = Len(q) + 1
         /\ \A i \in 1 .. Len(q) : Append(q, b)[i] = q[i]
         /\ Append(q, b)[Len(q) + 1] = b
  OBVIOUS

\* Unlinking the head of a list without repetitions.
LEMMA TailMembers ==
  ASSUME NEW q \in Seq(HBM), q # << >>, NoRepeat(q)
  PROVE  /\ NoRepeat(Tail(q))
         /\ ~On(Tail(q), Head(q))
         /\ \A b : On(q, b) <=> b = Head(q) \/ On(Tail(q), b)
  <1>1. NoRepeat(Tail(q))
    BY HeadTailFacts DEF NoRepeat
  <1>2. ~On(Tail(q), Head(q))
    BY HeadTailFacts DEF NoRepeat, On
  <1>3. ASSUME NEW b
        PROVE  On(q, b) <=> b = Head(q) \/ On(Tail(q), b)
    <2>1. ASSUME On(q, b), b # Head(q) PROVE On(Tail(q), b)
      <3>1. PICK i \in 1 .. Len(q) : q[i] = b
        BY <2>1 DEF On
      <3>2. i # 1
        BY <2>1, <3>1, HeadTailFacts
      <3>3. i - 1 \in 1 .. Len(Tail(q)) /\ Tail(q)[i - 1] = b
        BY <3>1, <3>2, HeadTailFacts
      <3>4. QED
        BY <3>3 DEF On
    <2>2. ASSUME b = Head(q) PROVE On(q, b)
      BY <2>2, HeadTailFacts DEF On
    <2>3. ASSUME On(Tail(q), b) PROVE On(q, b)
      <3>1. PICK i \in 1 .. Len(Tail(q)) : Tail(q)[i] = b
        BY <2>3 DEF On
      <3>2. i + 1 \in 1 .. Len(q) /\ q[i + 1] = b
        BY <3>1, HeadTailFacts
      <3>3. QED
        BY <3>2 DEF On
    <2>4. QED
      BY <2>1, <2>2, <2>3
  <1>4. QED
    BY <1>1, <1>2, <1>3

\* Linking a buffer that is not on the list at its tail.
LEMMA AppendMembers ==
  ASSUME NEW q \in Seq(HBM), NEW x \in HBM, NoRepeat(q), ~On(q, x)
  PROVE  /\ NoRepeat(Append(q, x))
         /\ \A b : On(Append(q, x), b) <=> b = x \/ On(q, b)
  <1> DEFINE r == Append(q, x)
  <1>1. NoRepeat(r)
    <2> SUFFICES ASSUME NEW i \in 1 .. Len(r), NEW j \in 1 .. Len(r), r[i] = r[j]
                 PROVE  i = j
      BY DEF NoRepeat
    <2>1. CASE i <= Len(q) /\ j <= Len(q)
      BY <2>1, AppendFacts DEF NoRepeat
    <2>2. CASE i = Len(q) + 1 \/ j = Len(q) + 1
      BY <2>2, AppendFacts DEF On
    <2>3. QED
      BY <2>1, <2>2, AppendFacts
  <1>2. ASSUME NEW b PROVE On(r, b) <=> b = x \/ On(q, b)
    <2>1. ASSUME On(r, b), b # x PROVE On(q, b)
      <3>1. PICK i \in 1 .. Len(r) : r[i] = b
        BY <2>1 DEF On
      <3>2. i \in 1 .. Len(q) /\ q[i] = b
        BY <3>1, <2>1, AppendFacts
      <3>3. QED
        BY <3>2 DEF On
    <2>2. ASSUME b = x PROVE On(r, b)
      <3>1. Len(q) + 1 \in 1 .. Len(r) /\ r[Len(q) + 1] = b
        BY <2>2, AppendFacts
      <3>2. QED
        BY <3>1 DEF On
    <2>3. ASSUME On(q, b) PROVE On(r, b)
      <3>1. PICK i \in 1 .. Len(q) : q[i] = b
        BY <2>3 DEF On
      <3>2. i \in 1 .. Len(r) /\ r[i] = b
        BY <3>1, AppendFacts
      <3>3. QED
        BY <3>2 DEF On
    <2>4. QED
      BY <2>1, <2>2, <2>3
  <1>3. QED
    BY <1>1, <1>2

\* Appending a whole list that has no buffer in common with the first.
LEMMA ConcatMembers ==
  ASSUME NEW q \in Seq(HBM), NEW r \in Seq(HBM), NoRepeat(q), NoRepeat(r),
         \A b : ~(On(q, b) /\ On(r, b))
  PROVE  /\ q \o r \in Seq(HBM)
         /\ NoRepeat(q \o r)
         /\ \A b : On(q \o r, b) <=> On(q, b) \/ On(r, b)
  <1> DEFINE s == q \o r
  <1>0. /\ s \in Seq(HBM)
        /\ Len(s) = Len(q) + Len(r)
        /\ Len(q) \in Nat /\ Len(r) \in Nat
        /\ \A i \in 1 .. Len(q) : s[i] = q[i]
        /\ \A i \in 1 .. Len(r) : s[Len(q) + i] = r[i]
    BY ConcatProperties
  <1>1. ASSUME NEW i \in 1 .. Len(s)
        PROVE  \/ i \in 1 .. Len(q) /\ s[i] = q[i]
               \/ i - Len(q) \in 1 .. Len(r) /\ s[i] = r[i - Len(q)]
    <2>1. CASE i <= Len(q)
      BY <1>0, <2>1
    <2>2. CASE i > Len(q)
      <3>1. i - Len(q) \in 1 .. Len(r) /\ Len(q) + (i - Len(q)) = i
        BY <1>0, <2>2
      <3>2. QED
        BY <1>0, <3>1
    <2>3. QED
      BY <1>0, <2>1, <2>2
  <1> HIDE DEF s
  <1>2. NoRepeat(s)
    <2> SUFFICES ASSUME NEW i \in 1 .. Len(s), NEW j \in 1 .. Len(s), s[i] = s[j]
                 PROVE  i = j
      BY DEF NoRepeat
    <2>1. CASE i \in 1 .. Len(q) /\ s[i] = q[i] /\ j \in 1 .. Len(q) /\ s[j] = q[j]
      BY <2>1 DEF NoRepeat
    <2>2. CASE /\ i - Len(q) \in 1 .. Len(r) /\ s[i] = r[i - Len(q)]
               /\ j - Len(q) \in 1 .. Len(r) /\ s[j] = r[j - Len(q)]
      <3>1. i - Len(q) = j - Len(q)
        BY <2>2 DEF NoRepeat
      <3>2. QED
        BY <3>1, <1>0
    <2>3. CASE /\ i \in 1 .. Len(q) /\ s[i] = q[i]
               /\ j - Len(q) \in 1 .. Len(r) /\ s[j] = r[j - Len(q)]
      BY <2>3 DEF On
    <2>4. CASE /\ j \in 1 .. Len(q) /\ s[j] = q[j]
               /\ i - Len(q) \in 1 .. Len(r) /\ s[i] = r[i - Len(q)]
      BY <2>4 DEF On
    <2>5. QED
      BY <1>1, <2>1, <2>2, <2>3, <2>4
  <1>3. ASSUME NEW b PROVE On(s, b) <=> On(q, b) \/ On(r, b)
    <2>1. ASSUME On(s, b) PROVE On(q, b) \/ On(r, b)
      <3>1. PICK i \in 1 .. Len(s) : s[i] = b
        BY <2>1 DEF On
      <3>2. QED
        BY <3>1, <1>1 DEF On
    <2>2. ASSUME On(q, b) PROVE On(s, b)
      <3>1. PICK i \in 1 .. Len(q) : q[i] = b
        BY <2>2 DEF On
      <3>2. i \in 1 .. Len(s) /\ s[i] = b
        BY <3>1, <1>0
      <3>3. QED
        BY <3>2 DEF On
    <2>3. ASSUME On(r, b) PROVE On(s, b)
      <3>1. PICK i \in 1 .. Len(r) : r[i] = b
        BY <2>3 DEF On
      <3>2. Len(q) + i \in 1 .. Len(s) /\ s[Len(q) + i] = b
        BY <3>1, <1>0
      <3>3. QED
        BY <3>2 DEF On
    <2>4. QED
      BY <2>1, <2>2, <2>3
  <1>4. QED
    BY <1>0, <1>2, <1>3 DEF s

\* list_sort() only rearranges: the sorted list has the same members, once.
LEMMA SortMembers ==
  ASSUME NEW q \in Seq(HBM), NEW s \in SortsOf(q), NoRepeat(q)
  PROVE  /\ s \in Seq(HBM)
         /\ NoRepeat(s)
         /\ \A b : On(s, b) <=> On(q, b)
  <1>1. PICK p \in Bijections(Len(q)) : s = [i \in 1 .. Len(q) |-> q[p[i]]]
    BY DEF SortsOf
  <1>2. /\ Len(q) \in Nat
        /\ p \in [1 .. Len(q) -> 1 .. Len(q)]
        /\ \A k \in 1 .. Len(q) : \E i \in 1 .. Len(q) :
              p[i] = k /\ \A j \in 1 .. Len(q) : p[j] = k => j = i
    BY <1>1 DEF Bijections
  <1>3. s \in Seq(HBM) /\ Len(s) = Len(q)
    <2>1. \A i \in 1 .. Len(q) : q[p[i]] \in HBM
      BY <1>2
    <2>2. s \in [1 .. Len(q) -> HBM]
      BY <2>1, <1>1
    <2>3. s \in Seq(HBM)
      BY <2>2, <1>2, SeqDef
    <2>4. DOMAIN s = 1 .. Len(s) /\ Len(s) \in Nat
      BY <2>3, LenProperties
    <2>5. 1 .. Len(s) = 1 .. Len(q)
      BY <2>2, <2>4
    <2>6. Len(s) = Len(q)
      BY <2>4, <2>5, <1>2
    <2>7. QED
      BY <2>3, <2>6
  <1>4. \A i \in 1 .. Len(q) : s[i] = q[p[i]] /\ p[i] \in 1 .. Len(q)
    BY <1>1, <1>2
  <1>5. NoRepeat(s)
    <2> SUFFICES ASSUME NEW i \in 1 .. Len(q), NEW j \in 1 .. Len(q), s[i] = s[j]
                 PROVE  i = j
      BY <1>3 DEF NoRepeat
    <2>1. p[i] = p[j]
      BY <1>4 DEF NoRepeat
    <2>2. QED
      BY <2>1, <1>2, <1>4
  <1>6. ASSUME NEW b PROVE On(s, b) <=> On(q, b)
    <2>1. ASSUME On(s, b) PROVE On(q, b)
      BY <2>1, <1>3, <1>4 DEF On
    <2>2. ASSUME On(q, b) PROVE On(s, b)
      <3>1. PICK k \in 1 .. Len(q) : q[k] = b
        BY <2>2 DEF On
      <3>2. PICK i \in 1 .. Len(q) : p[i] = k
        BY <1>2
      <3>3. QED
        BY <3>1, <3>2, <1>3, <1>4 DEF On
    <2>3. QED
      BY <2>1, <2>2
  <1>7. QED
    BY <1>3, <1>5, <1>6

\* The states of the buffers of a list, by position and by buffer.
LEMMA StatesOn ==
  ASSUME NEW q \in Seq(HBM), NEW f, NEW st
  PROVE  InState(f, q, st) <=> \A b \in HBM : On(q, b) => f[b] = st
  <1>1. ASSUME InState(f, q, st), NEW b \in HBM, On(q, b)
        PROVE  f[b] = st
    BY <1>1 DEF On, InState
  <1>2. ASSUME \A b \in HBM : On(q, b) => f[b] = st, NEW i \in 1 .. Len(q)
        PROVE  f[q[i]] = st
    <2>1. q[i] \in HBM /\ On(q, q[i])
      BY DEF On
    <2>2. QED
      BY <2>1, <1>2
  <1>3. QED
    BY <1>1, <1>2 DEF InState

\* Lists q, r, v, w hold all the buffers, each once, in states s, t, x, y.  f
\* is bstate.
Holds(q, s, f) ==
  /\ q \in Seq(HBM)
  /\ NoRepeat(q)
  /\ s \in BSTATE
  /\ InState(f, q, s)

Shared(q, s, r, t, v, x, w, y, f) ==
  /\ f \in [HBM -> BSTATE]
  /\ s # t /\ s # x /\ s # y /\ t # x /\ t # y /\ x # y
  /\ Holds(q, s, f) /\ Holds(r, t, f) /\ Holds(v, x, f) /\ Holds(w, y, f)
  /\ \A b \in HBM : On(q, b) \/ On(r, b) \/ On(v, b) \/ On(w, b)

LEMMA HoldsOn ==
  ASSUME NEW q, NEW s, NEW f
  PROVE  Holds(q, s, f) <=> /\ q \in Seq(HBM)
                            /\ NoRepeat(q)
                            /\ s \in BSTATE
                            /\ \A b \in HBM : On(q, b) => f[b] = s
  BY StatesOn DEF Holds

\* One buffer moves from the head of a list to the tail of another.
LEMMA MoveOne ==
  ASSUME NEW q, NEW s, NEW r, NEW t, NEW v, NEW x, NEW w, NEW y, NEW f,
         Shared(q, s, r, t, v, x, w, y, f), q # << >>
  PROVE  Shared(Tail(q), s, Append(r, Head(q)), t, v, x, w, y,
                [f EXCEPT ![Head(q)] = t])
  <1> DEFINE h == Head(q)
             g == [f EXCEPT ![h] = t]
  <1>0. /\ q \in Seq(HBM) /\ r \in Seq(HBM) /\ NoRepeat(q) /\ NoRepeat(r)
        /\ s \in BSTATE /\ t \in BSTATE
    BY DEF Shared, Holds
  <1>1. h \in HBM /\ On(q, h)
    BY <1>0, HeadTailFacts DEF On
  <1>2. f[h] = s /\ ~On(r, h) /\ ~On(v, h) /\ ~On(w, h)
    BY <1>1, HoldsOn DEF Shared
  <1>3. /\ Tail(q) \in Seq(HBM)
        /\ NoRepeat(Tail(q))
        /\ ~On(Tail(q), h)
        /\ \A b : On(q, b) <=> b = h \/ On(Tail(q), b)
    BY <1>0, TailMembers, HeadTailFacts
  <1>4. /\ Append(r, h) \in Seq(HBM)
        /\ NoRepeat(Append(r, h))
        /\ \A b : On(Append(r, h), b) <=> b = h \/ On(r, b)
    BY <1>0, <1>1, <1>2, AppendMembers, AppendFacts
  <1>5. g \in [HBM -> BSTATE] /\ g[h] = t /\ \A b \in HBM \ {h} : g[b] = f[b]
    BY <1>0, <1>1 DEF Shared
  <1> HIDE DEF h, g
  <1>6. Holds(Tail(q), s, g)
    BY <1>0, <1>3, <1>5, HoldsOn DEF Shared
  <1>7. Holds(Append(r, h), t, g)
    BY <1>0, <1>4, <1>5, HoldsOn DEF Shared
  <1>8. Holds(v, x, g) /\ Holds(w, y, g)
    BY <1>2, <1>5, HoldsOn DEF Shared
  <1>9. \A b \in HBM : On(Tail(q), b) \/ On(Append(r, h), b) \/ On(v, b) \/ On(w, b)
    BY <1>3, <1>4 DEF Shared
  <1>10. Shared(Tail(q), s, Append(r, h), t, v, x, w, y, g)
    BY <1>5, <1>6, <1>7, <1>8, <1>9 DEF Shared
  <1>11. QED
    BY <1>10 DEF h, g

\* A list is appended to another and left empty.
LEMMA MoveList ==
  ASSUME NEW q, NEW s, NEW r, NEW t, NEW v, NEW x, NEW w, NEW y, NEW f,
         Shared(q, s, r, t, v, x, w, y, f)
  PROVE  Shared(q \o r, s, << >>, t, v, x, w, y,
                [b \in HBM |-> IF On(r, b) THEN s ELSE f[b]])
  <1> DEFINE g == [b \in HBM |-> IF On(r, b) THEN s ELSE f[b]]
  <1>0. /\ q \in Seq(HBM) /\ r \in Seq(HBM) /\ NoRepeat(q) /\ NoRepeat(r)
        /\ s \in BSTATE /\ t \in BSTATE
    BY HoldsOn DEF Shared
  <1>1. \A b : ~(On(q, b) /\ On(r, b))
    <2>1. \A b : On(q, b) => b \in HBM
      BY <1>0 DEF On
    <2>2. QED
      BY <2>1, HoldsOn DEF Shared
  <1>2. /\ q \o r \in Seq(HBM)
        /\ NoRepeat(q \o r)
        /\ \A b : On(q \o r, b) <=> On(q, b) \/ On(r, b)
    BY <1>0, <1>1, ConcatMembers
  <1>3. g \in [HBM -> BSTATE]
    BY <1>0 DEF Shared
  <1>4. \A b \in HBM : g[b] = IF On(r, b) THEN s ELSE f[b]
    OBVIOUS
  <1> HIDE DEF g
  <1>5. Holds(q \o r, s, g)
    BY <1>0, <1>2, <1>4, HoldsOn DEF Shared
  <1>6. /\ << >> \in Seq(HBM) /\ NoRepeat(<< >>)
        /\ \A b : ~On(<< >>, b)
    BY DEF NoRepeat, On
  <1>7. Holds(<< >>, t, g)
    BY <1>0, <1>6, HoldsOn
  <1>8. Holds(v, x, g) /\ Holds(w, y, g)
    BY <1>4, HoldsOn DEF Shared
  <1>9. \A b \in HBM : On(q \o r, b) \/ On(<< >>, b) \/ On(v, b) \/ On(w, b)
    BY <1>2 DEF Shared
  <1>10. Shared(q \o r, s, << >>, t, v, x, w, y, g)
    BY <1>3, <1>5, <1>7, <1>8, <1>9 DEF Shared
  <1>11. QED
    BY <1>10 DEF g

----------------------------------------------------------------------------
(* The operations.                                                         *)

\* All the buffers in index order: each of them, once.
LEMMA IndexOrder ==
  ASSUME NEW e, e = [i \in 1 .. nbuffers |-> i - 1]
  PROVE  e \in Seq(HBM) /\ Len(e) = nbuffers /\ NoRepeat(e) /\ \A b \in HBM : On(e, b)
  <1> USE NBuffersAssumption
  <1>1. e \in Seq(HBM) /\ Len(e) = nbuffers
    <2>1. e \in [1 .. nbuffers -> HBM]
      BY DEF HBM
    <2>2. e \in Seq(HBM)
      BY <2>1, SeqDef
    <2>3. DOMAIN e = 1 .. Len(e) /\ Len(e) \in Nat
      BY <2>2, LenProperties
    <2>4. 1 .. Len(e) = 1 .. nbuffers
      BY <2>1, <2>3
    <2>5. QED
      BY <2>2, <2>3, <2>4
  <1>2. NoRepeat(e)
    BY <1>1 DEF NoRepeat
  <1>3. \A b \in HBM : On(e, b)
    <2> TAKE b \in HBM
    <2>1. b + 1 \in 1 .. Len(e) /\ e[b + 1] = b
      BY <1>1 DEF HBM
    <2>2. QED
      BY <2>1 DEF On
  <1>4. QED
    BY <1>1, <1>2, <1>3

\* hbm_allocate() leaves every buffer on EMPTIES.
LEMMA InitConserves == ListsInit => ListsInv
  <1> SUFFICES ASSUME ListsInit PROVE ListsInv
    OBVIOUS
  <1>1. EMPTIES \in Seq(HBM) /\ NoRepeat(EMPTIES) /\ \A b \in HBM : On(EMPTIES, b)
    BY IndexOrder DEF ListsInit
  <1>2. INFLIGHT = << >> /\ REFILLS = << >> /\ OPENS = << >>
    BY DEF ListsInit
  <1>3. bstate \in [HBM -> BSTATE] /\ \A b \in HBM : bstate[b] = "BS_EMPTY"
    BY DEF ListsInit, BSTATE
  <1>4. ListsTypeOK
    BY <1>1, <1>2, <1>3 DEF ListsTypeOK
  <1>5. InState(bstate, EMPTIES, "BS_EMPTY")
    BY <1>1, <1>3, StatesOn
  <1>6. \A q : q = << >> => Len(q) = 0
    OBVIOUS
  <1>7. \A st : /\ NoRepeat(INFLIGHT) /\ InState(bstate, INFLIGHT, st)
               /\ NoRepeat(REFILLS) /\ InState(bstate, REFILLS, st)
               /\ NoRepeat(OPENS) /\ InState(bstate, OPENS, st)
    BY <1>2, <1>6 DEF NoRepeat, InState
  <1>8. QED
    BY <1>1, <1>4, <1>5, <1>7 DEF ListsInv, BuffersConserved

LEMMA StatesDistinct ==
  /\ "BS_EMPTY" \in BSTATE /\ "BS_FILLING" \in BSTATE
  /\ "BS_FULL" \in BSTATE /\ "BS_FULL_APP" \in BSTATE
  BY DEF BSTATE

\* The invariant in the terms of the lemmas above, before a step ...
LEMMA InvShared ==
  ListsInv <=> Shared(EMPTIES, "BS_EMPTY", INFLIGHT, "BS_FILLING",
                      REFILLS, "BS_FULL", OPENS, "BS_FULL_APP", bstate)
  BY StatesDistinct DEF ListsInv, ListsTypeOK, BuffersConserved, Shared, Holds

\* ... and after it.
LEMMA InvSharedNext ==
  ListsInv' <=> Shared(EMPTIES', "BS_EMPTY", INFLIGHT', "BS_FILLING",
                       REFILLS', "BS_FULL", OPENS', "BS_FULL_APP", bstate')
  BY StatesDistinct DEF ListsInv, ListsTypeOK, BuffersConserved, Shared, Holds

\* _getEmpty()
LEMMA GetEmptyConserves == ListsInv /\ getEmpty => ListsInv'
  <1> SUFFICES ASSUME ListsInv, getEmpty PROVE ListsInv'
    OBVIOUS
  <1>1. Shared(EMPTIES, "BS_EMPTY", INFLIGHT, "BS_FILLING",
               REFILLS, "BS_FULL", OPENS, "BS_FULL_APP", bstate)
    BY InvShared DEF Shared
  <1>2. Shared(Tail(EMPTIES), "BS_EMPTY", Append(INFLIGHT, Head(EMPTIES)), "BS_FILLING",
               REFILLS, "BS_FULL", OPENS, "BS_FULL_APP",
               [bstate EXCEPT ![Head(EMPTIES)] = "BS_FILLING"])
    BY <1>1, MoveOne DEF getEmpty
  <1>3. Shared(EMPTIES', "BS_EMPTY", INFLIGHT', "BS_FILLING", REFILLS', "BS_FULL", OPENS', "BS_FULL_APP", bstate')
    BY <1>2 DEF getEmpty
  <1>4. QED
    BY <1>3, InvSharedNext DEF Shared

\* _putFull()
LEMMA PutFullConserves == ListsInv /\ putFull => ListsInv'
  <1> SUFFICES ASSUME ListsInv, putFull PROVE ListsInv'
    OBVIOUS
  <1>1. Shared(INFLIGHT, "BS_FILLING", REFILLS, "BS_FULL",
               EMPTIES, "BS_EMPTY", OPENS, "BS_FULL_APP", bstate)
    BY InvShared DEF Shared
  <1>2. Shared(Tail(INFLIGHT), "BS_FILLING", Append(REFILLS, Head(INFLIGHT)), "BS_FULL",
               EMPTIES, "BS_EMPTY", OPENS, "BS_FULL_APP",
               [bstate EXCEPT ![Head(INFLIGHT)] = "BS_FULL"])
    BY <1>1, MoveOne DEF putFull
  <1>3. Shared(INFLIGHT', "BS_FILLING", REFILLS', "BS_FULL", EMPTIES', "BS_EMPTY", OPENS', "BS_FULL_APP", bstate')
    BY <1>2 DEF putFull
  <1>4. QED
    BY <1>3, InvSharedNext DEF Shared

\* getEmptyFromRefills()
LEMMA PullConserves == ListsInv /\ getEmptyFromRefills => ListsInv'
  <1> SUFFICES ASSUME ListsInv, getEmptyFromRefills PROVE ListsInv'
    OBVIOUS
  <1>1. Shared(REFILLS, "BS_FULL", INFLIGHT, "BS_FILLING",
               EMPTIES, "BS_EMPTY", OPENS, "BS_FULL_APP", bstate)
    BY InvShared DEF Shared
  <1>2. Shared(Tail(REFILLS), "BS_FULL", Append(INFLIGHT, Head(REFILLS)), "BS_FILLING",
               EMPTIES, "BS_EMPTY", OPENS, "BS_FULL_APP",
               [bstate EXCEPT ![Head(REFILLS)] = "BS_FILLING"])
    BY <1>1, MoveOne DEF getEmptyFromRefills
  <1>3. Shared(REFILLS', "BS_FULL", INFLIGHT', "BS_FILLING", EMPTIES', "BS_EMPTY", OPENS', "BS_FULL_APP", bstate')
    BY <1>2 DEF getEmptyFromRefills
  <1>4. QED
    BY <1>3, InvSharedNext DEF Shared

\* __getFull()
LEMMA GetFullConserves == ListsInv /\ getFull => ListsInv'
  <1> SUFFICES ASSUME ListsInv, getFull PROVE ListsInv'
    OBVIOUS
  <1>1. Shared(REFILLS, "BS_FULL", OPENS, "BS_FULL_APP",
               EMPTIES, "BS_EMPTY", INFLIGHT, "BS_FILLING", bstate)
    BY InvShared DEF Shared
  <1>2. Shared(Tail(REFILLS), "BS_FULL", Append(OPENS, Head(REFILLS)), "BS_FULL_APP",
               EMPTIES, "BS_EMPTY", INFLIGHT, "BS_FILLING",
               [bstate EXCEPT ![Head(REFILLS)] = "BS_FULL_APP"])
    BY <1>1, MoveOne DEF getFull
  <1>3. Shared(REFILLS', "BS_FULL", OPENS', "BS_FULL_APP", EMPTIES', "BS_EMPTY", INFLIGHT', "BS_FILLING", bstate')
    BY <1>2 DEF getFull
  <1>4. QED
    BY <1>3, InvSharedNext DEF Shared

\* putEmpty()
LEMMA PutEmptyConserves == ListsInv /\ putEmpty => ListsInv'
  <1> SUFFICES ASSUME ListsInv, putEmpty PROVE ListsInv'
    OBVIOUS
  <1>1. Shared(OPENS, "BS_FULL_APP", EMPTIES, "BS_EMPTY",
               INFLIGHT, "BS_FILLING", REFILLS, "BS_FULL", bstate)
    BY InvShared DEF Shared
  <1>2. Shared(Tail(OPENS), "BS_FULL_APP", Append(EMPTIES, Head(OPENS)), "BS_EMPTY",
               INFLIGHT, "BS_FILLING", REFILLS, "BS_FULL",
               [bstate EXCEPT ![Head(OPENS)] = "BS_EMPTY"])
    BY <1>1, MoveOne DEF putEmpty
  <1>3. Shared(OPENS', "BS_FULL_APP", EMPTIES', "BS_EMPTY", INFLIGHT', "BS_FILLING", REFILLS', "BS_FULL", bstate')
    BY <1>2 DEF putEmpty
  <1>4. QED
    BY <1>3, InvSharedNext DEF Shared

\* move_list_to_empty(&adev->OPENS)
LEMMA MoveOpensConserves == ListsInv /\ moveOpensToEmpty => ListsInv'
  <1> SUFFICES ASSUME ListsInv, moveOpensToEmpty PROVE ListsInv'
    OBVIOUS
  <1>1. Shared(EMPTIES, "BS_EMPTY", OPENS, "BS_FULL_APP",
               INFLIGHT, "BS_FILLING", REFILLS, "BS_FULL", bstate)
    BY InvShared DEF Shared
  <1>2. Shared(EMPTIES \o OPENS, "BS_EMPTY", << >>, "BS_FULL_APP",
               INFLIGHT, "BS_FILLING", REFILLS, "BS_FULL", Emptied(OPENS))
    BY <1>1, MoveList DEF Emptied
  <1>3. Shared(EMPTIES', "BS_EMPTY", OPENS', "BS_FULL_APP",
               INFLIGHT', "BS_FILLING", REFILLS', "BS_FULL", bstate')
    BY <1>2 DEF moveOpensToEmpty
  <1>4. QED
    BY <1>3, InvSharedNext DEF Shared

\* move_list_to_empty(&adev->REFILLS)
LEMMA MoveRefillsConserves == ListsInv /\ moveRefillsToEmpty => ListsInv'
  <1> SUFFICES ASSUME ListsInv, moveRefillsToEmpty PROVE ListsInv'
    OBVIOUS
  <1>1. Shared(EMPTIES, "BS_EMPTY", REFILLS, "BS_FULL",
               INFLIGHT, "BS_FILLING", OPENS, "BS_FULL_APP", bstate)
    BY InvShared DEF Shared
  <1>2. Shared(EMPTIES \o REFILLS, "BS_EMPTY", << >>, "BS_FULL",
               INFLIGHT, "BS_FILLING", OPENS, "BS_FULL_APP", Emptied(REFILLS))
    BY <1>1, MoveList DEF Emptied
  <1>3. Shared(EMPTIES', "BS_EMPTY", REFILLS', "BS_FULL",
               INFLIGHT', "BS_FILLING", OPENS', "BS_FULL_APP", bstate')
    BY <1>2 DEF moveRefillsToEmpty
  <1>4. QED
    BY <1>3, InvSharedNext DEF Shared

\* move_list_to_empty(&adev->INFLIGHT)
LEMMA MoveInflightConserves == ListsInv /\ moveInflightToEmpty => ListsInv'
  <1> SUFFICES ASSUME ListsInv, moveInflightToEmpty PROVE ListsInv'
    OBVIOUS
  <1>1. Shared(EMPTIES, "BS_EMPTY", INFLIGHT, "BS_FILLING",
               REFILLS, "BS_FULL", OPENS, "BS_FULL_APP", bstate)
    BY InvShared DEF Shared
  <1>2. Shared(EMPTIES \o INFLIGHT, "BS_EMPTY", << >>, "BS_FILLING",
               REFILLS, "BS_FULL", OPENS, "BS_FULL_APP", Emptied(INFLIGHT))
    BY <1>1, MoveList DEF Emptied
  <1>3. Shared(EMPTIES', "BS_EMPTY", INFLIGHT', "BS_FILLING",
               REFILLS', "BS_FULL", OPENS', "BS_FULL_APP", bstate')
    BY <1>2 DEF moveInflightToEmpty
  <1>4. QED
    BY <1>3, InvSharedNext DEF Shared

\* sort_empties()
LEMMA SortConserves == ListsInv /\ sortEmpties => ListsInv'
  <1> SUFFICES ASSUME ListsInv, sortEmpties PROVE ListsInv'
    OBVIOUS
  <1>1. Shared(EMPTIES, "BS_EMPTY", INFLIGHT, "BS_FILLING",
               REFILLS, "BS_FULL", OPENS, "BS_FULL_APP", bstate)
    BY InvShared
  <1>2. EMPTIES \in Seq(HBM) /\ NoRepeat(EMPTIES) /\ EMPTIES' \in SortsOf(EMPTIES)
    BY <1>1, HoldsOn DEF sortEmpties, Shared
  <1>3. /\ EMPTIES' \in Seq(HBM) /\ NoRepeat(EMPTIES')
        /\ \A b : On(EMPTIES', b) <=> On(EMPTIES, b)
    BY <1>2, SortMembers
  <1>4. Holds(EMPTIES', "BS_EMPTY", bstate)
    BY <1>1, <1>3, HoldsOn DEF Shared
  <1>5. Shared(EMPTIES', "BS_EMPTY", INFLIGHT, "BS_FILLING",
               REFILLS, "BS_FULL", OPENS, "BS_FULL_APP", bstate)
    BY <1>1, <1>3, <1>4 DEF Shared
  <1>6. Shared(EMPTIES', "BS_EMPTY", INFLIGHT', "BS_FILLING",
               REFILLS', "BS_FULL", OPENS', "BS_FULL_APP", bstate')
    BY <1>5 DEF sortEmpties
  <1>7. QED
    BY <1>6, InvSharedNext

\* A list that holds every buffer once has nbuffers of them.
LEMMA FullList ==
  ASSUME NEW q \in Seq(HBM), NoRepeat(q), \A b \in HBM : On(q, b)
  PROVE  Len(q) = nbuffers
  <1>1. Len(q) \in Nat /\ q \in [1 .. Len(q) -> HBM]
    BY LenProperties
  <1>2. q \in Bijection(1 .. Len(q), HBM)
    <2>1. q \in Injection(1 .. Len(q), HBM)
      BY <1>1 DEF NoRepeat, Injection, IsInjective
    <2>2. q \in Surjection(1 .. Len(q), HBM)
      BY <1>1 DEF On, Surjection
    <2>3. QED
      BY <2>1, <2>2 DEF Bijection
  <1>3. Cardinality(HBM) = Len(q)
    BY <1>1, <1>2, FS_CountingElements DEF ExistsBijection
  <1>4. Cardinality(HBM) = nbuffers
    <2>1. 0 \in Int /\ nbuffers - 1 \in Int /\ ~(0 > nbuffers - 1) /\ nbuffers - 1 - 0 + 1 = nbuffers
      BY NBuffersAssumption
    <2>2. QED
      BY <2>1, FS_Interval DEF HBM
  <1>5. QED
    BY <1>3, <1>4

\* A buffer is on one list only.
LEMMA OneList ==
  ASSUME ListsInv, NEW b \in HBM
  PROVE  /\ ~(On(EMPTIES, b) /\ On(INFLIGHT, b)) /\ ~(On(EMPTIES, b) /\ On(REFILLS, b))
         /\ ~(On(EMPTIES, b) /\ On(OPENS, b)) /\ ~(On(INFLIGHT, b) /\ On(REFILLS, b))
         /\ ~(On(INFLIGHT, b) /\ On(OPENS, b)) /\ ~(On(REFILLS, b) /\ On(OPENS, b))
  BY StatesOn DEF ListsInv, ListsTypeOK, BuffersConserved

\* A buffer leaves the head of list q for the tail of list r.
LEMMA MoveMembers ==
  ASSUME NEW q \in Seq(HBM), NEW r \in Seq(HBM), q # << >>, NoRepeat(q), NoRepeat(r),
         \A b \in HBM : ~(On(q, b) /\ On(r, b))
  PROVE  /\ Head(q) \in HBM /\ On(q, Head(q)) /\ ~On(r, Head(q))
         /\ \A b : On(Tail(q), b) <=> On(q, b) /\ b # Head(q)
         /\ \A b : On(Append(r, Head(q)), b) <=> On(r, b) \/ b = Head(q)
         /\ Len(q) \in Nat /\ Len(q) >= 1 /\ Len(r) \in Nat
         /\ Len(Tail(q)) = Len(q) - 1 /\ Len(Append(r, Head(q))) = Len(r) + 1
  <1>1. Head(q) \in HBM /\ On(q, Head(q))
    BY HeadTailFacts DEF On
  <1>2. ~On(r, Head(q))
    BY <1>1
  <1>3. \A b : On(Tail(q), b) <=> On(q, b) /\ b # Head(q)
    BY TailMembers
  <1>4. \A b : On(Append(r, Head(q)), b) <=> On(r, b) \/ b = Head(q)
    BY <1>1, <1>2, AppendMembers
  <1>5. /\ Len(q) \in Nat /\ Len(q) >= 1 /\ Len(r) \in Nat
        /\ Len(Tail(q)) = Len(q) - 1 /\ Len(Append(r, Head(q))) = Len(r) + 1
    BY <1>1, HeadTailFacts, AppendFacts
  <1>6. QED
    BY <1>1, <1>2, <1>3, <1>4, <1>5

\* empty_lists(): all the lists are moved to EMPTIES, one after the other.
LEMMA AllLists ==
  ASSUME ListsInv
  PROVE  LET q == EMPTIES \o OPENS \o REFILLS \o INFLIGHT
         IN  q \in Seq(HBM) /\ NoRepeat(q) /\ \A b \in HBM : On(q, b)
  <1>1. /\ EMPTIES \in Seq(HBM) /\ NoRepeat(EMPTIES) /\ OPENS \in Seq(HBM) /\ NoRepeat(OPENS)
        /\ REFILLS \in Seq(HBM) /\ NoRepeat(REFILLS) /\ INFLIGHT \in Seq(HBM) /\ NoRepeat(INFLIGHT)
    BY DEF ListsInv, ListsTypeOK, BuffersConserved
  <1>2. \A q \in Seq(HBM) : \A b : On(q, b) => b \in HBM
    BY DEF On
  <1> DEFINE q1 == EMPTIES \o OPENS
             q2 == q1 \o REFILLS
             q3 == q2 \o INFLIGHT
  <1>3. q1 \in Seq(HBM) /\ NoRepeat(q1) /\ \A b : On(q1, b) <=> On(EMPTIES, b) \/ On(OPENS, b)
    BY <1>1, <1>2, OneList, ConcatMembers
  <1>4. \A b : ~(On(q1, b) /\ On(REFILLS, b))
    BY <1>1, <1>2, <1>3, OneList
  <1>5. q2 \in Seq(HBM) /\ NoRepeat(q2) /\ \A b : On(q2, b) <=> On(q1, b) \/ On(REFILLS, b)
    <2> HIDE DEF q1
    <2>1. QED
      BY <1>1, <1>3, <1>4, ConcatMembers
  <1>6. \A b : ~(On(q2, b) /\ On(INFLIGHT, b))
    BY <1>1, <1>2, <1>3, <1>5, OneList
  <1>7. q3 \in Seq(HBM) /\ NoRepeat(q3) /\ \A b : On(q3, b) <=> On(q2, b) \/ On(INFLIGHT, b)
    <2> HIDE DEF q2
    <2>1. QED
      BY <1>1, <1>5, <1>6, ConcatMembers
  <1>8. \A b \in HBM : On(q3, b)
    BY <1>3, <1>5, <1>7 DEF ListsInv, BuffersConserved
  <1>9. QED
    BY <1>7, <1>8

\* All the buffers are on EMPTIES and marked so, in whatever order.
LEMMA ResetConserves ==
  ASSUME NEW e \in Seq(HBM), NoRepeat(e), \A b \in HBM : On(e, b),
         EMPTIES' = e, INFLIGHT' = << >>, REFILLS' = << >>, OPENS' = << >>,
         bstate' = [b \in HBM |-> "BS_EMPTY"]
  PROVE  ListsInv'
  <1>1. \A s \in BSTATE : Holds(<< >>, s, bstate')
    BY DEF Holds, NoRepeat, InState
  <1>2. bstate' \in [HBM -> BSTATE] /\ \A b \in HBM : bstate'[b] = "BS_EMPTY"
    BY DEF BSTATE
  <1>3. Holds(e, "BS_EMPTY", bstate')
    BY <1>2, StatesDistinct, HoldsOn
  <1>4. Shared(EMPTIES', "BS_EMPTY", INFLIGHT', "BS_FILLING",
               REFILLS', "BS_FULL", OPENS', "BS_FULL_APP", bstate')
    BY <1>1, <1>2, <1>3, StatesDistinct DEF Shared
  <1>5. QED
    BY <1>4, InvSharedNext

\* Lists of no buffer and of one.
LEMMA ShortLists ==
  /\ << >> \in Seq(HBM) /\ Len(<< >>) = 0 /\ \A b : ~On(<< >>, b)
  /\ \A h \in HBM : <<h>> \in Seq(HBM) /\ Len(<<h>>) = 1 /\ \A b : On(<<h>>, b) <=> b = h
  <1>1. << >> \in Seq(HBM) /\ Len(<< >>) = 0
    OBVIOUS
  <1>2. \A b : ~On(<< >>, b)
    BY <1>1 DEF On
  <1>3. ASSUME NEW h \in HBM PROVE <<h>> \in Seq(HBM) /\ Len(<<h>>) = 1 /\ <<h>>[1] = h
    OBVIOUS
  <1>4. \A h \in HBM : \A b : On(<<h>>, b) <=> b = h
    BY <1>3 DEF On
  <1>5. QED
    BY <1>1, <1>2, <1>3, <1>4

\* A list and a buffer more.
LEMMA AppendOn ==
  ASSUME NEW q \in Seq(HBM), NEW x \in HBM
  PROVE  \A b : On(Append(q, x), b) <=> On(q, b) \/ b = x
  <1>1. Len(Append(q, x)) = Len(q) + 1 /\ Len(q) \in Nat
    BY AppendFacts
  <1>2. ASSUME NEW b, On(Append(q, x), b) PROVE On(q, b) \/ b = x
    <2>1. PICK i \in 1 .. Len(q) + 1 : Append(q, x)[i] = b
      BY <1>1, <1>2 DEF On
    <2>2. CASE i \in 1 .. Len(q)
      BY <2>1, <2>2, AppendFacts DEF On
    <2>3. CASE i = Len(q) + 1
      BY <2>1, <2>3, AppendFacts
    <2>4. QED
      BY <1>1, <2>2, <2>3
  <1>3. ASSUME NEW b, On(q, b) PROVE On(Append(q, x), b)
    <2>1. PICK i \in 1 .. Len(q) : q[i] = b
      BY <1>3 DEF On
    <2>2. i \in 1 .. Len(Append(q, x)) /\ Append(q, x)[i] = b
      BY <1>1, <2>1, AppendFacts
    <2>3. QED
      BY <2>2 DEF On
  <1>4. On(Append(q, x), x)
    <2>1. Len(q) + 1 \in 1 .. Len(Append(q, x)) /\ Append(q, x)[Len(q) + 1] = x
      BY <1>1, AppendFacts
    <2>2. QED
      BY <2>1 DEF On
  <1>5. QED
    BY <1>2, <1>3, <1>4

\* What a move of one buffer does to the members and lengths of the lists.
LEMMA MoveLists ==
  ASSUME ListsInv
  PROVE  /\ Len(INFLIGHT) \in Nat
         /\ (Len(INFLIGHT) = 0 <=> INFLIGHT = << >>)
         /\ getEmpty => /\ Head(EMPTIES) \in HBM /\ On(EMPTIES, Head(EMPTIES))
                        /\ Len(INFLIGHT') = Len(INFLIGHT) + 1
                        /\ \A b : On(INFLIGHT', b) <=> On(INFLIGHT, b) \/ b = Head(EMPTIES)
         /\ putFull => /\ Head(INFLIGHT) \in HBM /\ On(INFLIGHT, Head(INFLIGHT))
                       /\ Len(INFLIGHT') = Len(INFLIGHT) - 1
                       /\ \A b : On(INFLIGHT', b) => On(INFLIGHT, b)
                       /\ \A b : On(REFILLS', b) <=> On(REFILLS, b) \/ b = Head(INFLIGHT)
         /\ getFull => /\ \A b : On(REFILLS', b) => On(REFILLS, b)
                       /\ \A b : On(OPENS', b) => On(OPENS, b) \/ On(REFILLS, b)
         /\ putEmpty => /\ Head(OPENS) \in HBM /\ On(OPENS, Head(OPENS))
                        /\ \A b : On(OPENS', b) <=> On(OPENS, b) /\ b # Head(OPENS)
  <1>1. /\ EMPTIES \in Seq(HBM) /\ NoRepeat(EMPTIES) /\ OPENS \in Seq(HBM) /\ NoRepeat(OPENS)
        /\ REFILLS \in Seq(HBM) /\ NoRepeat(REFILLS) /\ INFLIGHT \in Seq(HBM) /\ NoRepeat(INFLIGHT)
    BY DEF ListsInv, ListsTypeOK, BuffersConserved
  <1>2. Len(INFLIGHT) \in Nat /\ (Len(INFLIGHT) = 0 <=> INFLIGHT = << >>)
    BY <1>1, EmptySeq, LenProperties
  <1>3. getEmpty => /\ Head(EMPTIES) \in HBM /\ On(EMPTIES, Head(EMPTIES))
                    /\ Len(INFLIGHT') = Len(INFLIGHT) + 1
                    /\ \A b : On(INFLIGHT', b) <=> On(INFLIGHT, b) \/ b = Head(EMPTIES)
    BY <1>1, OneList, MoveMembers DEF getEmpty
  <1>4. putFull => /\ Head(INFLIGHT) \in HBM /\ On(INFLIGHT, Head(INFLIGHT))
                   /\ Len(INFLIGHT') = Len(INFLIGHT) - 1
                   /\ \A b : On(INFLIGHT', b) => On(INFLIGHT, b)
                   /\ \A b : On(REFILLS', b) <=> On(REFILLS, b) \/ b = Head(INFLIGHT)
    BY <1>1, OneList, MoveMembers DEF putFull
  <1>5. getFull => /\ \A b : On(REFILLS', b) => On(REFILLS, b)
                   /\ \A b : On(OPENS', b) => On(OPENS, b) \/ On(REFILLS, b)
    BY <1>1, OneList, MoveMembers DEF getFull
  <1>6. putEmpty => /\ Head(OPENS) \in HBM /\ On(OPENS, Head(OPENS))
                    /\ \A b : On(OPENS', b) <=> On(OPENS, b) /\ b # Head(OPENS)
    BY <1>1, OneList, MoveMembers DEF putEmpty
  <1>7. QED
    BY <1>2, <1>3, <1>4, <1>5, <1>6

----------------------------------------------------------------------------
(* The data in the buffers of a list.                                      *)

\* The blocks in the buffers of list q; f is the data of every buffer.
BlocksOf(f, q) == [i \in 1 .. Len(q) |-> f[q[i]]]

LEMMA BlocksOfList ==
  ASSUME NEW f \in [HBM -> Nat], NEW q \in Seq(HBM)
  PROVE  /\ BlocksOf(f, q) \in Seq(Nat) /\ Len(BlocksOf(f, q)) = Len(q)
         /\ \A i \in 1 .. Len(q) : BlocksOf(f, q)[i] = f[q[i]]
  <1>1. Len(q) \in Nat /\ \A i \in 1 .. Len(q) : q[i] \in HBM
    OBVIOUS
  <1>2. BlocksOf(f, q) \in [1 .. Len(q) -> Nat]
    BY <1>1 DEF BlocksOf
  <1> DEFINE r == BlocksOf(f, q)
  <1>3. r \in Seq(Nat)
    BY <1>1, <1>2, SeqDef
  <1>4. DOMAIN r = 1 .. Len(r) /\ Len(r) \in Nat
    BY <1>3, LenProperties
  <1>5. 1 .. Len(r) = 1 .. Len(q)
    BY <1>2, <1>4
  <1>6. QED
    BY <1>1, <1>3, <1>4, <1>5 DEF BlocksOf

LEMMA BlocksOfAppend ==
  ASSUME NEW f \in [HBM -> Nat], NEW q \in Seq(HBM), NEW b \in HBM
  PROVE  BlocksOf(f, Append(q, b)) = Append(BlocksOf(f, q), f[b])
  <1> DEFINE s == BlocksOf(f, Append(q, b))
             t == Append(BlocksOf(f, q), f[b])
  <1>1. /\ Append(q, b) \in Seq(HBM) /\ Len(Append(q, b)) = Len(q) + 1 /\ Len(q) \in Nat
        /\ \A i \in 1 .. Len(q) : Append(q, b)[i] = q[i]
        /\ Append(q, b)[Len(q) + 1] = b
    BY AppendFacts
  <1>2. /\ s \in Seq(Nat) /\ Len(s) = Len(q) + 1
        /\ \A i \in 1 .. Len(q) + 1 : s[i] = f[Append(q, b)[i]]
    BY <1>1, BlocksOfList
  <1>3. /\ t \in Seq(Nat) /\ Len(t) = Len(q) + 1 /\ t[Len(q) + 1] = f[b]
        /\ \A i \in 1 .. Len(q) : t[i] = f[q[i]]
    <2> DEFINE r == BlocksOf(f, q)
    <2>1. r \in Seq(Nat) /\ Len(r) = Len(q) /\ \A i \in 1 .. Len(q) : r[i] = f[q[i]]
      BY BlocksOfList
    <2>2. f[b] \in Nat
      OBVIOUS
    <2> HIDE DEF r
    <2>3. /\ Append(r, f[b]) \in Seq(Nat) /\ Len(Append(r, f[b])) = Len(r) + 1
          /\ Append(r, f[b])[Len(r) + 1] = f[b]
          /\ \A i \in 1 .. Len(r) : Append(r, f[b])[i] = r[i]
      BY <2>1, <2>2, AppendProperties
    <2>4. QED
      BY <2>1, <2>3 DEF r
  <1> HIDE DEF s, t
  <1>4. \A i \in 1 .. Len(s) : s[i] = t[i]
    <2> TAKE i \in 1 .. Len(s)
    <2>1. i \in 1 .. Len(q) \/ i = Len(q) + 1
      BY <1>1, <1>2
    <2>2. QED
      BY <1>1, <1>2, <1>3, <2>1
  <1>5. s = t
    BY <1>2, <1>3, <1>4, SeqEqual
  <1>6. QED
    BY <1>5 DEF s, t

LEMMA BlocksOfTail ==
  ASSUME NEW f \in [HBM -> Nat], NEW q \in Seq(HBM), q # << >>
  PROVE  /\ BlocksOf(f, q) # << >> /\ Head(BlocksOf(f, q)) = f[Head(q)]
         /\ BlocksOf(f, Tail(q)) = Tail(BlocksOf(f, q))
         /\ BlocksOf(f, Tail(q)) = SubSeq(BlocksOf(f, q), 2, Len(BlocksOf(f, q)))
  <1> DEFINE r == BlocksOf(f, q)
             s == BlocksOf(f, Tail(q))
             t == Tail(r)
             u == SubSeq(r, 2, Len(r))
  <1>1. /\ Tail(q) \in Seq(HBM) /\ Len(Tail(q)) = Len(q) - 1 /\ Len(q) \in Nat /\ Len(q) >= 1
        /\ \A i \in 1 .. Len(q) - 1 : Tail(q)[i] = q[i + 1]
        /\ Head(q) = q[1]
    BY HeadTailFacts
  <1>2. r \in Seq(Nat) /\ Len(r) = Len(q) /\ \A i \in 1 .. Len(q) : r[i] = f[q[i]]
    BY BlocksOfList
  <1>3. s \in Seq(Nat) /\ Len(s) = Len(q) - 1 /\ \A i \in 1 .. Len(q) - 1 : s[i] = f[q[i + 1]]
    <2>1. /\ s \in Seq(Nat) /\ Len(s) = Len(Tail(q))
          /\ \A i \in 1 .. Len(Tail(q)) : s[i] = f[Tail(q)[i]]
      BY <1>1, BlocksOfList
    <2> HIDE DEF s
    <2>2. QED
      BY <1>1, <2>1
  <1> HIDE DEF r, s
  <1>4. r # << >> /\ Head(r) = r[1]
    BY <1>1, <1>2
  <1>5. t \in Seq(Nat) /\ Len(t) = Len(q) - 1 /\ \A i \in 1 .. Len(q) - 1 : t[i] = r[i + 1]
    BY <1>1, <1>2, <1>4
  <1>6. u \in Seq(Nat) /\ Len(u) = Len(q) - 1 /\ \A i \in 1 .. Len(q) - 1 : u[i] = r[i + 1]
    BY <1>1, <1>2
  <1> HIDE DEF t, u
  <1>7. \A i \in 1 .. Len(s) : s[i] = t[i] /\ s[i] = u[i]
    <2> TAKE i \in 1 .. Len(s)
    <2>1. i \in 1 .. Len(q) - 1 /\ i + 1 \in 1 .. Len(q)
      BY <1>1, <1>3
    <2>2. QED
      BY <1>2, <1>3, <1>5, <1>6, <2>1
  <1>8. s = t /\ s = u
    BY <1>3, <1>5, <1>6, <1>7, SeqEqual
  <1>9. QED
    BY <1>1, <1>2, <1>4, <1>8 DEF r, s, t, u

LEMMA BlocksOfNone ==
  ASSUME NEW f
  PROVE  BlocksOf(f, << >>) = << >>
  BY DEF BlocksOf
=============================================================================
