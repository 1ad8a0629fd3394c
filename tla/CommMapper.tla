------------------------------ MODULE CommMapper ------------------------------
(***************************************************************************)
(* The communicator mapper (CommMapper.h, CommMapper.cpp): every process   *)
(* logs the ids of the communicators it is in, the lists are gathered on   *)
(* the root, and the root builds from them, process by process, the graph  *)
(* in which a communicator is below the communicators that contain it.     *)
(*                                                                         *)
(* A graph g maps a communicator id to its node: the ids of its children   *)
(* and of its parents (std::maps keyed by id, so sets of ids) and the      *)
(* processes known to be in it.  While a process is added the state is     *)
(*   [g, will, ok]                                                         *)
(* with `will` the communicators that still have to take the process.  ok  *)
(* is FALSE once a loop over a std::map has gone on from an entry that was *)
(* erased under it, which has no defined outcome.                          *)
(***************************************************************************)
EXTENDS Integers, Sequences, SequencesExt, FiniteSetsExt

NoComm == -1

Node(procs) == [children |-> {}, parents |-> {}, contents |-> procs]

Unlink(g, parent, child) ==
  [g EXCEPT ![parent].children = @ \ {child}, ![child].parents = @ \ {parent}]

LinkAll(g, parents, children) ==
  [i \in DOMAIN g |->
     [g[i] EXCEPT !.children = IF i \in parents THEN @ \cup children ELSE @,
                  !.parents = IF i \in children THEN @ \cup parents ELSE @]]

UnlinkAll(g, parents, children) ==
  [i \in DOMAIN g |->
     [g[i] EXCEPT !.children = IF i \in parents THEN @ \ children ELSE @,
                  !.parents = IF i \in children THEN @ \ parents ELSE @]]

-----------------------------------------------------------------------------
(* CommWrap: what is asked of a finished graph.                            *)

\* getCommChain: a node is followed only when it has been visited already, so
\* none ever is.
RECURSIVE GetCommChain(_, _, _)
GetCommChain(g, i, result) ==
  IF i \in result
  THEN FoldSet(LAMBDA k, r : GetCommChain(g, k, r), result \cup {i},
               g[i].parents \cup g[i].children)
  ELSE result

\* inCommChain: comm is met on a walk over parents and children from node i.
RECURSIVE InCommChain(_, _, _, _)
InCommChain(g, i, comm, visited) ==
  \/ comm = i
  \/ /\ i \notin visited
     /\ \E k \in g[i].parents \cup g[i].children : InCommChain(g, k, comm, visited \cup {i})

-----------------------------------------------------------------------------
(* Adding a process to the communicators that are in the graph already.    *)

\* swap: node and its only parent have the same processes; the parent will not
\* take this one, so node, which will, moves above it.
RECURSIVE Swap(_, _)
Swap(s, node) ==
  LET g == s.g
      parent == CHOOSE p \in g[node].parents : TRUE
      grand == g[parent].parents
      kids == g[node].children
  IN  IF /\ Cardinality(g[node].parents) = 1
         /\ parent \notin s.will
         /\ Cardinality(g[parent].contents) = Cardinality(g[node].contents)
      THEN LET apart == UnlinkAll(UnlinkAll(UnlinkAll(g, grand, {parent}), {parent}, {node}),
                                  {node}, kids)
               cut == [apart EXCEPT ![parent].children = {}]
           IN  Swap([s EXCEPT !.g = LinkAll(LinkAll(LinkAll(cut, grand, {node}), {node}, {parent}),
                                            {parent}, kids)], node)
      ELSE s

\* Mutant of Detach: the node's children stay with it alone.
DetachLosesChildren(g, node, parent) ==
  LET cut == Unlink(g, parent, node)
  IN  LinkAll(cut, cut[parent].parents, {node})

\* parent will not take the process: node leaves it for the parent's parents, and
\* node's children are the parent's as well.
Detach(g, node, parent) ==
  LET cut == Unlink(g, parent, node)
  IN  LinkAll(LinkAll(cut, cut[parent].parents, {node}), {parent}, cut[node].children)

\* add, for one process: `below` is the first of the process's new communicators.
\* The loop visits node's parents in the order of their ids; `drop` collects those
\* that will not take the process.
RECURSIVE Add(_, _, _, _), AddParents(_, _, _, _, _, _)

AddParents(s, proc, node, below, at, drop) ==
  LET rest == {p \in s.g[node].parents : p > at}
      p == Min(rest)
      Off(t) == IF below = NoComm THEN t ELSE [t EXCEPT !.g = Unlink(t.g, p, below)]
      Further(t) == AddParents(t, proc, node, below, p, drop)
  IN  IF ~s.ok \/ rest = {} THEN [s |-> s, drop |-> drop]
      ELSE IF proc \in s.g[p].contents THEN Further(Off(s))
      ELSE IF p \in s.will
           THEN LET t == Add(s, proc, p, below)
                IN  Further(Off([t EXCEPT !.ok = @ /\ p \in t.g[node].parents]))
           ELSE AddParents(s, proc, node, below, p, Append(drop, p))

Add(s0, proc, node, below) ==
  LET loop == AddParents(Swap(s0, node), proc, node, below, NoComm, << >>)
      s == loop.s
      taken == [s.g EXCEPT ![node].contents = @ \cup {proc}]
  IN  IF ~s.ok THEN s
      ELSE IF loop.drop = << >>
      THEN [s EXCEPT !.g = IF below = NoComm THEN taken ELSE LinkAll(taken, {node}, {below}),
                     !.will = @ \ {node}]
      ELSE Add([s EXCEPT !.g = FoldLeft(LAMBDA g, p : Detach(g, node, p), @, loop.drop)],
               proc, node, below)

RECURSIVE AddAll(_, _, _)
AddAll(s, proc, below) ==
  IF s.ok /\ s.will # {} THEN AddAll(Add(s, proc, Min(s.will), below), proc, below) ELSE s

-----------------------------------------------------------------------------
(* Building the graph.                                                     *)

\* One turn of appendToCommMap: the ids process proc has sent, in their order.  New
\* ids are chained one below the other and hang below the ids that are known.
AppendProc(s, proc, ids) ==
  LET isNew(i) == i \notin DOMAIN s.g
      new == SelectSeq(ids, isNew)
      ext == [i \in DOMAIN s.g \cup ToSet(new) |->
                IF i \in DOMAIN s.g THEN s.g[i] ELSE Node({proc})]
      chain == FoldLeft(LAMBDA g, k : LinkAll(g, {new[k]}, {new[k + 1]}), ext,
                        [k \in 1 .. (Len(new) - 1) |-> k])
  IN  AddAll([s EXCEPT !.g = chain, !.will = ToSet(ids) \ ToSet(new)], proc,
             IF new = << >> THEN NoComm ELSE new[1])

Empty == [g |-> << >>, will |-> {}, ok |-> TRUE]

\* gatherSet and getCommMap: what process p has logged is the set logged[p], sent in
\* the order of a std::set.
GatherCommInformation(logged) ==
  FoldLeft(LAMBDA s, p : AppendProc(s, p, SetToSortSeq(logged[p], <)), Empty,
           SetToSortSeq(DOMAIN logged, <))

\* The root communicators of getCommMap.
RootComms(g) == {i \in DOMAIN g : g[i].parents = {} /\ g[i].contents # {}}

\* listAllComms: every process sends the ids whose communicator it is rank 0 of.
ListAllComms(rootLogged) ==
  FoldLeft(LAMBDA r, p : r \o SetToSortSeq(rootLogged[p], <), << >>,
           SetToSortSeq(DOMAIN rootLogged, <))

\* DynamicCommMap::append: one communicator at a time; no list of processes means
\* all of them.
DynamicAppend(s, comm, procs, worldSize) ==
  FoldLeft(LAMBDA t, p : AppendProc(t, p, <<comm>>), s,
           SetToSortSeq(IF procs = {} THEN 0 .. (worldSize - 1) ELSE procs, <))
=============================================================================
