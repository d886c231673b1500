---------------------------- MODULE HostBuffers ----------------------------
(***************************************************************************)
(* The host buffers (struct HBM) of one device and the lists they move     *)
(* between: acq400_lists.c.  A buffer is its index hbm->ix; a list is the  *)
(* sequence of the buffers on it, head first.  Every operator below is one *)
(* critical section of adev->list_mutex (sort_empties() has none) and is   *)
(* the part of a step that moves buffers: the modules that use the lists   *)
(* conjoin it with what the caller does, and with the test of the list     *)
(* that the caller made before it took the mutex.                          *)
(*                                                                         *)
(* list_first_entry() of an empty list is not an error return in the       *)
(* kernel: it yields the list head itself, cast to an HBM.  The operators  *)
(* that do it are therefore guarded by the list being non-empty, and the   *)
(* caller says what an empty list means.                                   *)
(***************************************************************************)
EXTENDS Integers, Sequences

CONSTANT nbuffers               \* module parameter nbuffers

ASSUME NBuffersAssumption == nbuffers \in Nat \ {0}

VARIABLES EMPTIES, INFLIGHT, REFILLS, OPENS,   \* struct acq400_dev lists
          bstate                               \* hbm->bstate of every buffer

lists == <<EMPTIES, INFLIGHT, REFILLS, OPENS, bstate>>

HBM == 0 .. nbuffers - 1

BSTATE == {"BS_EMPTY", "BS_FILLING", "BS_FULL", "BS_FULL_APP"}

ListsTypeOK ==
  /\ EMPTIES \in Seq(HBM)
  /\ INFLIGHT \in Seq(HBM)
  /\ REFILLS \in Seq(HBM)
  /\ OPENS \in Seq(HBM)
  /\ bstate \in [HBM -> BSTATE]

\* hbm_allocate(): all the buffers on EMPTIES, in index order.
ListsInit ==
  /\ EMPTIES = [i \in 1 .. nbuffers |-> i - 1]
  /\ INFLIGHT = << >>
  /\ REFILLS = << >>
  /\ OPENS = << >>
  /\ bstate = [b \in HBM |-> "BS_EMPTY"]

----------------------------------------------------------------------------
(* Moves of one buffer.                                                    *)


\* Mutated form of getEmpty: list_move() to the head of INFLIGHT.
getEmpty_head ==
  /\ EMPTIES # << >>
  /\ INFLIGHT' = <<Head(EMPTIES)>> \o INFLIGHT
  /\ EMPTIES' = Tail(EMPTIES)
  /\ bstate' = [bstate EXCEPT ![Head(EMPTIES)] = "BS_FILLING"]
  /\ UNCHANGED <<REFILLS, OPENS>>

\* _getEmpty(): head of EMPTIES to the tail of INFLIGHT.
getEmpty ==
  /\ EMPTIES # << >>
  /\ INFLIGHT' = Append(INFLIGHT, Head(EMPTIES))
  /\ EMPTIES' = Tail(EMPTIES)
  /\ bstate' = [bstate EXCEPT ![Head(EMPTIES)] = "BS_FILLING"]
  /\ UNCHANGED <<REFILLS, OPENS>>

\* _putFull(): head of INFLIGHT to the tail of REFILLS.
putFull ==
  /\ INFLIGHT # << >>
  /\ REFILLS' = Append(REFILLS, Head(INFLIGHT))
  /\ INFLIGHT' = Tail(INFLIGHT)
  /\ bstate' = [bstate EXCEPT ![Head(INFLIGHT)] = "BS_FULL"]
  /\ UNCHANGED <<EMPTIES, OPENS>>

\* getEmptyFromRefills(): the oldest full buffer goes back in flight, its
\* data is lost.
getEmptyFromRefills ==
  /\ REFILLS # << >>
  /\ INFLIGHT' = Append(INFLIGHT, Head(REFILLS))
  /\ REFILLS' = Tail(REFILLS)
  /\ bstate' = [bstate EXCEPT ![Head(REFILLS)] = "BS_FILLING"]
  /\ UNCHANGED <<EMPTIES, OPENS>>


\* Mutated form of getFull: linked to OPENS and not unlinked from REFILLS.
getFull_linked ==
  /\ REFILLS # << >>
  /\ OPENS' = Append(OPENS, Head(REFILLS))
  /\ bstate' = [bstate EXCEPT ![Head(REFILLS)] = "BS_FULL_APP"]
  /\ UNCHANGED <<EMPTIES, INFLIGHT, REFILLS>>

\* __getFull(): head of REFILLS to the tail of OPENS.
getFull ==
  /\ REFILLS # << >>
  /\ OPENS' = Append(OPENS, Head(REFILLS))
  /\ REFILLS' = Tail(REFILLS)
  /\ bstate' = [bstate EXCEPT ![Head(REFILLS)] = "BS_FULL_APP"]
  /\ UNCHANGED <<EMPTIES, INFLIGHT>>


\* Mutated form of putEmpty: the state of a reserved buffer, which these
\* lists never hold.
putEmpty_reserved ==
  /\ OPENS # << >>
  /\ EMPTIES' = Append(EMPTIES, Head(OPENS))
  /\ OPENS' = Tail(OPENS)
  /\ bstate' = [bstate EXCEPT ![Head(OPENS)] = "BS_RESERVED"]
  /\ UNCHANGED <<INFLIGHT, REFILLS>>

\* putEmpty(): head of OPENS to the tail of EMPTIES.
putEmpty ==
  /\ OPENS # << >>
  /\ EMPTIES' = Append(EMPTIES, Head(OPENS))
  /\ OPENS' = Tail(OPENS)
  /\ bstate' = [bstate EXCEPT ![Head(OPENS)] = "BS_EMPTY"]
  /\ UNCHANGED <<INFLIGHT, REFILLS>>

----------------------------------------------------------------------------
(* Moves of whole lists.                                                   *)

On(q, b) == \E i \in 1 .. Len(q) : q[i] = b

\* bstate after move_list_to_empty(): every buffer of list q is BS_EMPTY.
Emptied(q) == [b \in HBM |-> IF On(q, b) THEN "BS_EMPTY" ELSE bstate[b]]

\* move_list_to_empty(), one critical section for each list.
moveOpensToEmpty ==
  /\ EMPTIES' = EMPTIES \o OPENS
  /\ OPENS' = << >>
  /\ bstate' = Emptied(OPENS)
  /\ UNCHANGED <<INFLIGHT, REFILLS>>

moveRefillsToEmpty ==
  /\ EMPTIES' = EMPTIES \o REFILLS
  /\ REFILLS' = << >>
  /\ bstate' = Emptied(REFILLS)
  /\ UNCHANGED <<INFLIGHT, OPENS>>

\* Mutated form of moveInflightToEmpty: the list is reset, not moved.
moveInflightToEmpty_reset ==
  /\ INFLIGHT' = << >>
  /\ bstate' = Emptied(INFLIGHT)
  /\ UNCHANGED <<EMPTIES, REFILLS, OPENS>>

moveInflightToEmpty ==
  /\ EMPTIES' = EMPTIES \o INFLIGHT
  /\ INFLIGHT' = << >>
  /\ bstate' = Emptied(INFLIGHT)
  /\ UNCHANGED <<REFILLS, OPENS>>

Bijections(n) ==
  {p \in [1 .. n -> 1 .. n] : \A k \in 1 .. n : \E i \in 1 .. n :
                                /\ p[i] = k
                                /\ \A j \in 1 .. n : p[j] = k => j = i}

Ascending(q) == \A i, j \in 1 .. Len(q) : i < j => q[i] < q[j]

\* list_sort() with hbm_cmp of the list q: a rearrangement of q in index
\* order.
SortsOf(q) ==
  {s \in {[i \in 1 .. Len(q) |-> q[p[i]]] : p \in Bijections(Len(q))} :
     Ascending(s)}

\* sort_empties(), which takes no lock.  The module that uses it says what a
\* sort that races with another access to EMPTIES means.
sortEmpties ==
  /\ EMPTIES' \in SortsOf(EMPTIES)
  /\ UNCHANGED <<INFLIGHT, REFILLS, OPENS, bstate>>

----------------------------------------------------------------------------
(* What every operation preserves.                                         *)

\* Every buffer of list q is in state st; f is bstate.
InState(f, q, st) == \A i \in 1 .. Len(q) : f[q[i]] = st

\* No buffer is twice on list q.
NoRepeat(q) == \A i, j \in 1 .. Len(q) : q[i] = q[j] => i = j

\* Conservation of the host buffers: each one is on exactly one of the four
\* lists, once, and bstate names that list.  No interleaving of the data
\* loop, the reader, a release or a second open loses a buffer or links one
\* into two lists.
BuffersConserved ==
  /\ NoRepeat(EMPTIES) /\ InState(bstate, EMPTIES, "BS_EMPTY")
  /\ NoRepeat(INFLIGHT) /\ InState(bstate, INFLIGHT, "BS_FILLING")
  /\ NoRepeat(REFILLS) /\ InState(bstate, REFILLS, "BS_FULL")
  /\ NoRepeat(OPENS) /\ InState(bstate, OPENS, "BS_FULL_APP")
  /\ \A b \in HBM : \/ On(EMPTIES, b) \/ On(INFLIGHT, b)
                    \/ On(REFILLS, b) \/ On(OPENS, b)
=============================================================================
