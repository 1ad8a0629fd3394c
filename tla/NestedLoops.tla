---------------------------- MODULE NestedLoops ----------------------------
(***************************************************************************)
(* The runtime of InjectionPoints under the application the manual asks    *)
(* for: its first point is the initialization loop of Init, its last call  *)
(* the end of that loop in Finalize, and in between it ends the loop it    *)
(* began last and iterates loops that are open ("injection loops cannot be *)
(* inter-woven", docs/usage/injectionpoints.rst:130).  `loops` is what the *)
(* application knows; the runtime never sees it.  Points may be configured *)
(* or not, samplers answer what they like and end handlers may throw.      *)
(***************************************************************************)
EXTENDS InjectionPoints

\* Every configured point is registered; the run time stores a null pointer for one
\* that is not, which is the subject of InjectionPoints.
ASSUME RegisteredAssumption == Configured \subseteq Matched

VARIABLE loops  \* the application's open loops, outermost first

nvars == <<phase, active, commStack, leaked, ran, outcome, proper, loops>>

\* pos: where the loop is on the runtime's stack, 0 if it is not configured.
\* ran: whether the sampler let it begin.
Loop == [key : Keys, comm : Comms, pos : Nat, ran : BOOLEAN]

\* The innermost open loop with key k: what an iteration of k is meant for.
InnermostLoop(k) ==
  CHOOSE i \in 1 .. Len(loops) :
    loops[i].key = k /\ \A j \in (i + 1) .. Len(loops) : loops[j].key # k

NInit == Init /\ loops = << >>

NInitialize(threw) == Initialize(threw) /\ loops' = << >>

NBegin(k, c) ==
  /\ loops = << >> <=> (k = InitKey)
  /\ loops = << >> => c = World
  /\ Len(loops) < MaxDepth
  /\ Begin(k, c)
  /\ loops' = Append(loops, [key |-> k, comm |-> c,
                             pos |-> IF k \in Configured THEN Len(active) + 1 ELSE 0,
                             ran |-> ran'.pos > 0])

NIter(k) ==
  /\ \E i \in 1 .. Len(loops) : loops[i].key = k
  /\ Iter(k)
  /\ UNCHANGED loops

NEnd(threw) ==
  /\ Len(loops) > 1
  /\ End(Top(loops).key, threw)
  /\ loops' = IF outcome' = "ok" THEN Pop(loops) ELSE loops

NFinalize == Len(loops) = 1 /\ Finalize /\ loops' = << >>

NNext ==
  \/ \E threw \in SUBSET Actions : NInitialize(threw)
  \/ \E k \in Keys, c \in Comms : NBegin(k, c)
  \/ \E k \in Keys : NIter(k)
  \/ \E threw \in SUBSET Actions : NEnd(threw)
  \/ NFinalize

NSpec == NInit /\ [][NNext]_nvars

-----------------------------------------------------------------------------
\* The runtime never refuses, and never crashes on, a properly nested application.
NeverRefused == outcome = "ok"

\* The runtime's stack is the application's, without the loops that are not
\* configured: the same loops in the same order, with the communicator and
\* the sampler's verdict each of them began with.
StackIsLoops ==
  /\ \A i \in 1 .. Len(loops) :
       IF loops[i].key \in Configured
       THEN /\ loops[i].pos \in 1 .. Len(active)
            /\ active[loops[i].pos] # Null
            /\ active[loops[i].pos].key = loops[i].key
            /\ active[loops[i].pos].comm = loops[i].comm
            /\ active[loops[i].pos].skipped = ~loops[i].ran
       ELSE loops[i].pos = 0 /\ ~loops[i].ran
  /\ \A p \in 1 .. Len(active) : \E i \in 1 .. Len(loops) : loops[i].pos = p
  /\ \A i, j \in 1 .. Len(loops) :
       i < j /\ loops[i].pos > 0 /\ loops[j].pos > 0 => loops[i].pos < loops[j].pos

\* An action none of whose handlers threw holds the communicators of exactly
\* the application's open loops, configured or not: its iteration and end
\* handlers run on the communicator of the innermost one.  Every handler that
\* threw leaves one more communicator behind.
ActionsFollowLoops ==
  phase = "running" =>
    \A a \in Actions :
      /\ Len(commStack[a]) = Len(loops) + leaked[a]
      /\ leaked[a] = 0 => \A i \in 1 .. Len(loops) : commStack[a][i] = loops[i].comm

\* A loop's end runs its tests exactly when its beginning did.
EndRunsWhatBeginRan ==
  [][Len(loops') < Len(loops) => (ran'.pos > 0 <=> Top(loops).ran)]_nvars

\* When a loop runs its tests, so does every open loop around it on the same
\* communicator that began by running, and no other loop does.
EnclosingLoopsRun ==
  [][ran'.pos > 0 =>
       \A j \in 1 .. Len(loops) :
         loops[j].pos > 0 =>
           (loops[j].pos \in ran'.parents
              <=> loops[j].pos < ran'.pos /\ loops[j].ran /\ loops[j].comm = ran'.comm)]_nvars

\* An iteration runs the innermost open loop with its key, or nothing.
IterationsAreInnermost ==
  [][\A k \in Configured :
       NIter(k) => ran'.pos \in {0, loops[InnermostLoop(k)].pos}]_nvars

\* The inductive invariant behind NeverRefused, StackIsLoops and ActionsFollowLoops.
NestedInv ==
  /\ TypeOK /\ loops \in Seq(Loop)
  /\ NeverRefused /\ StackIsLoops /\ ActionsFollowLoops
  /\ phase # "running" => loops = << >>
  /\ \A i \in 1 .. Len(loops) : loops[i].key = InitKey <=> i = 1
=============================================================================
