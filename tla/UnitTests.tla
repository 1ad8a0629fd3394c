------------------------------ MODULE UnitTests ------------------------------
(***************************************************************************)
(* UnitTestStore::runAll: every rank packs the tests into the ranks of the *)
(* communicator, batch after batch, on its own and without a message; when *)
(* no other test fits, a rank that has been given one creates its group's  *)
(* communicator and runs it.  Ranks are ahead of each other by whole       *)
(* batches, and only meet in their groups and in the last barrier.         *)
(*                                                                         *)
(* An action is one turn of the loop on one rank, or a call in it that     *)
(* waits for other ranks.                                                  *)
(***************************************************************************)
EXTENDS Integers, Sequences, FiniteSets

CONSTANTS
  Size,      \* the size of the communicator
  Tests,     \* the registered tests that the configuration leaves in
  Cores,     \* tester_cores
  MayThrow,  \* tests whose run may throw
  None       \* not a test

ASSUME SizeAssumption == Size \in Nat \ {0}
ASSUME TestsAssumption ==
  /\ IsFiniteSet(Tests) /\ None \notin Tests
  /\ Cores \in [Tests -> Nat]
  /\ MayThrow \subseteq Tests

Ranks == 0 .. (Size - 1)

VARIABLES
  tests,          \* tests[r]: what is left of the list on rank r
  it,             \* the position of the iterator in it
  currentBuffer,  \* how many ranks of the batch are taken
  mine,           \* myName, myStart, myEnd
  pc,
  begun           \* history: tests for which a communicator was created

vars == <<tests, it, currentBuffer, mine, pc, begun>>

NoTest == [test |-> None, start |-> -1, end |-> -1]

Part == [test : Tests, start : Ranks, end : 1 .. Size]

Members(part) == part.start .. (part.end - 1)

\* The tests, largest first.  std::sort may leave equal ones in any order, but in
\* the same one on every rank.
Orders ==
  {s \in [1 .. Cardinality(Tests) -> Tests] :
     /\ \A t \in Tests : \E i \in DOMAIN s : s[i] = t
     /\ \A i, j \in DOMAIN s : i < j => Cores[s[i]] >= Cores[s[j]]}

Without(s, i) == SubSeq(s, 1, i - 1) \o SubSeq(s, i + 1, Len(s))

-----------------------------------------------------------------------------
(* One turn of the loop.                                                   *)

\* The iterator, wrapped around at the end of the list.
At(r) == IF it[r] = Len(tests[r]) + 1 THEN 1 ELSE it[r]

Looking(r, t) == pc[r] = "packing" /\ tests[r] # << >> /\ tests[r][At(r)] = t

\* Mutant of SmallestLeft: an empty list does not fill the batch.
SmallestLeftZero(left) == IF left = << >> THEN 0 ELSE Cores[left[Len(left)]]

SmallestLeft(left) == IF left = << >> THEN Size ELSE Cores[left[Len(left)]]

\* Mutant of EndTurn: a rank without a test keeps the batch.
EndTurnKeepsBuffer(r, left, buffer, part) ==
  LET full == buffer + SmallestLeft(left) > Size
  IN  /\ tests' = [tests EXCEPT ![r] = left]
      /\ mine' = [mine EXCEPT ![r] = part]
      /\ currentBuffer' = [currentBuffer EXCEPT ![r] = IF full /\ part # NoTest THEN 0 ELSE buffer]
      /\ pc' = IF full /\ part # NoTest THEN [pc EXCEPT ![r] = "creating"] ELSE pc

\* When no test that is left fits into the batch, it is run.
EndTurn(r, left, buffer, part) ==
  LET full == buffer + SmallestLeft(left) > Size
  IN  /\ tests' = [tests EXCEPT ![r] = left]
      /\ mine' = [mine EXCEPT ![r] = part]
      /\ currentBuffer' = [currentBuffer EXCEPT ![r] = IF full THEN 0 ELSE buffer]
      /\ pc' = IF full /\ part # NoTest THEN [pc EXCEPT ![r] = "creating"] ELSE pc

\* A test that asks for more ranks than there are is dropped.
Ignore(r) ==
  \E t \in Tests :
    /\ Looking(r, t) /\ Cores[t] > Size
    /\ it' = [it EXCEPT ![r] = At(r)]
    /\ EndTurn(r, Without(tests[r], At(r)), currentBuffer[r], mine[r])
    /\ UNCHANGED begun

\* Mutant of Take: every rank notes the name.
TakeNamesAll(r) ==
  \E t \in Tests :
    LET start == currentBuffer[r]
        end == start + Cores[t]
    IN  /\ Looking(r, t) /\ end <= Size
        /\ it' = [it EXCEPT ![r] = At(r)]
        /\ EndTurn(r, Without(tests[r], At(r)), end,
                   CASE r \in start .. (end - 1) -> [test |-> t, start |-> start, end |-> end]
                     [] mine[r] # NoTest         -> [mine[r] EXCEPT !.test = t]
                     [] OTHER                    -> NoTest)
        /\ UNCHANGED begun

\* The test fits and is given the next ranks; rank r notes whether it is one of them.
Take(r) ==
  \E t \in Tests :
    LET start == currentBuffer[r]
        end == start + Cores[t]
    IN  /\ Looking(r, t) /\ end <= Size
        /\ it' = [it EXCEPT ![r] = At(r)]
        /\ EndTurn(r, Without(tests[r], At(r)), end,
                   IF r \in start .. (end - 1)
                   THEN [test |-> t, start |-> start, end |-> end] ELSE mine[r])
        /\ UNCHANGED begun

PassOver(r) ==
  \E t \in Tests :
    /\ Looking(r, t) /\ Cores[t] <= Size /\ currentBuffer[r] + Cores[t] > Size
    /\ it' = [it EXCEPT ![r] = At(r) + 1]
    /\ EndTurn(r, tests[r], currentBuffer[r], mine[r])
    /\ UNCHANGED begun

-----------------------------------------------------------------------------
(* The test of a batch.                                                    *)

\* MPI_Comm_create_group returns when every rank of the group has called it with
\* the same group.  Each rank then runs the test whose name it has noted.
Create(start, end) ==
  LET group == start .. (end - 1)
  IN  /\ \A r \in group : pc[r] = "creating" /\ mine[r].start = start /\ mine[r].end = end
      /\ pc' = [r \in Ranks |-> IF r \in group THEN "testing" ELSE pc[r]]
      /\ begun' = begun \cup {mine[r].test : r \in group}
      /\ UNCHANGED <<tests, it, currentBuffer, mine>>

\* Mutant of Finish: one test a rank.
FinishForGood(r) ==
  /\ pc[r] = "testing"
  /\ pc' = [pc EXCEPT ![r] = "barrier"]
  /\ mine' = [mine EXCEPT ![r] = NoTest]
  /\ UNCHANGED <<tests, it, currentBuffer, begun>>

Finish(r) ==
  /\ pc[r] = "testing"
  /\ pc' = [pc EXCEPT ![r] = "packing"]
  /\ mine' = [mine EXCEPT ![r] = NoTest]
  /\ UNCHANGED <<tests, it, currentBuffer, begun>>

\* The exception leaves runAll on this rank and ends in RunTime::configure.
Throw(r) ==
  /\ pc[r] = "testing" /\ mine[r].test \in MayThrow
  /\ pc' = [pc EXCEPT ![r] = "threw"]
  /\ UNCHANGED <<tests, it, currentBuffer, mine, begun>>

Arrive(r) ==
  /\ pc[r] = "packing" /\ tests[r] = << >>
  /\ pc' = [pc EXCEPT ![r] = "barrier"]
  /\ UNCHANGED <<tests, it, currentBuffer, mine, begun>>

Barrier ==
  /\ \A r \in Ranks : pc[r] = "barrier"
  /\ pc' = [r \in Ranks |-> "done"]
  /\ UNCHANGED <<tests, it, currentBuffer, mine, begun>>

-----------------------------------------------------------------------------
Init ==
  /\ \E s \in Orders : tests = [r \in Ranks |-> s]
  /\ it = [r \in Ranks |-> 1]
  /\ currentBuffer = [r \in Ranks |-> 0]
  /\ mine = [r \in Ranks |-> NoTest]
  /\ pc = [r \in Ranks |-> "packing"]
  /\ begun = {}

\* What a rank does on its own.
Step(r) == Ignore(r) \/ Take(r) \/ PassOver(r) \/ Finish(r) \/ Throw(r) \/ Arrive(r)

Next ==
  \/ \E r \in Ranks : Step(r)
  \/ \E start \in Ranks, end \in 1 .. Size : start < end /\ Create(start, end)
  \/ Barrier

Spec == Init /\ [][Next]_vars

\* The ranks are processes of their own, a test returns or throws, and an MPI call
\* in which all ranks are returns.
Fairness ==
  /\ \A r \in Ranks : WF_vars(Step(r))
  /\ \A start \in Ranks, end \in 1 .. Size : WF_vars(start < end /\ Create(start, end))
  /\ WF_vars(Barrier)

FairSpec == Spec /\ Fairness

-----------------------------------------------------------------------------
\* When the ranks have left the barrier, every test that asks for at least one
\* rank and for no more than there are has been run.
AllRun ==
  (\A r \in Ranks : pc[r] = "done") => begun = {t \in Tests : Cores[t] \in 1 .. Size}

\* Ranks that pack on their own still agree on the batches: no rank waits for its
\* group to form with a rank that is through with all of its tests.
NobodyIsGone ==
  \A r \in Ranks :
    pc[r] = "creating" => \A s \in Members(mine[r]) : pc[s] \notin {"barrier", "done"}

\* All ranks leave runAll, unless a test threw on one of them.
TestsEnd ==
  <>((\A r \in Ranks : pc[r] = "done") \/ \E r \in Ranks : pc[r] = "threw")

P == INSTANCE Placement WITH
       Idle <- None,
       runs <- [r \in Ranks |-> IF pc[r] \in {"testing", "threw"} THEN mine[r].test ELSE None]

\* The tests are placed on idle ranks, each once, and on as many as it asks for.
ImplementsPlacement == P!PSpec
=============================================================================
