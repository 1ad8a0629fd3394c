--------------------------- MODULE CommunicatorIds ---------------------------
(***************************************************************************)
(* How a rank names its communicators (MPICommunicator.cpp): the unique id *)
(* a communicator is given when it is set, and the communicator that is    *)
(* found again under an id.  A communicator is the sequence of its members *)
(* (world ranks) in the order of their ranks in it.                        *)
(*                                                                         *)
(* Different sequences have different hashes, ranks have different         *)
(* processes, and no communicator is freed.                                *)
(***************************************************************************)
EXTENDS Integers, Sequences, FiniteSets, SequencesExt

Members(group) == ToSet(group)

WorldId(size) == <<-1, size>>
SelfId(rank) == <<-2, rank>>
VectorHash(group) == group

\* Mutant of SameGroup: the members have to be in the same order.
SameOrder(g, h) == g = h

\* MPI_Comm_compare does not say MPI_UNEQUAL.
SameGroup(g, h) == Members(g) = Members(h)

\* The communicator has all ranks, or one, or is among those that were set before.
SetId(cached, group, rank, size) ==
  LET similar == SelectSeq(cached, LAMBDA x : SameGroup(x.group, group))
  IN  IF Len(group) = size THEN IF size = 1 THEN SelfId(rank) ELSE WorldId(size)
      ELSE IF Len(group) = 1 THEN SelfId(rank)
      ELSE IF similar # << >> THEN similar[1].id
      ELSE VectorHash(group)

Cache(cached, group, id) ==
  IF id = VectorHash(group) /\ \A i \in DOMAIN cached : ~SameGroup(cached[i].group, group)
  THEN Append(cached, [group |-> group, id |-> id]) ELSE cached

\* The ids rank `rank` gives to communicators it sets one after the other, and what
\* getCommData finds for them: the first one that was stored with the id.
SetAll(groups, rank, size) ==
  LET Next1(s, group) ==
        LET id == SetId(s.cached, group, rank, size)
        IN  [ids |-> Append(s.ids, id), cached |-> Cache(s.cached, group, id),
             store |-> IF id \in DOMAIN s.store THEN s.store ELSE (id :> group) @@ s.store]
  IN  FoldLeft(Next1, [ids |-> << >>, cached |-> << >>, store |-> << >>], groups)

\* custom(get()): communicator i, as the logger and the points find it again.
Custom(groups, rank, size, i) == LET s == SetAll(groups, rank, size) IN s.store[s.ids[i]]

\* MPI_Comm_split: the members with the color of `rank`, in the order of their keys.
Split(group, color, key, rank) ==
  SetToSortSeq({r \in Members(group) : color[r] = color[rank]}, LAMBDA a, b : key[a] < key[b])

Duplicate(group) == group

\* MPI_Comm_create_group with ranks of the communicator.
Create(group, ranks) == [i \in DOMAIN ranks |-> group[ranks[i] + 1]]
=============================================================================
