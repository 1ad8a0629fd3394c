--------------------------- MODULE JobManagerProofs ---------------------------
(***************************************************************************)
(* Proofs about JobManager, for every workflow: type correctness, that     *)
(* jobs start after what they need and are given up only for good reasons, *)
(* and that the ranks leave a stage together when its jobs have finished.  *)
(***************************************************************************)
EXTENDS JobManager, TLAPS

-----------------------------------------------------------------------------
(* Type correctness.                                                       *)

\* Asking a list of validators leaves every staging in one of its three states.
LEMMA StagingTypes ==
  ASSUME TypeOK, NEW list, NEW s, NEW c, Stage(list, s, c)
  PROVE  staged' \in [Stagings -> {"no", "copying", "ended"}]
  <1> DEFINE asked == UNION {Leaves(list[i], s, c) : i \in Asked(list, s, c)}
             first == {v.id : v \in {l \in asked : l.type = "FileStaging"}}
  <1>1. staged' = [x \in Stagings |-> IF x \in first /\ staged[x] = "no" THEN "copying" ELSE staged[x]]
    BY DEF Stage
  <1> HIDE DEF first
  <1> QED
    BY <1>1 DEF TypeOK

\* The turn goes on within the pass, or to its end.
LEMMA AdvanceTypes ==
  ASSUME TypeOK, NEW j, NEW s, Turn(j), Advance(j, s)
  PROVE  turn' \in 1 .. (Len(Order) + 1) /\ complete' \in BOOLEAN /\ UNCHANGED control
  <1> DEFINE n == Len(Order)
             break == s = "ERROR" /\ j \in KillOnError
  <1>1. n \in Nat /\ turn \in 1 .. (n + 1) /\ turn <= n
    BY OrderAssumption DEF TypeOK, Turn
  <1>2. turn' = IF break THEN n + 1 ELSE turn + 1
    BY DEF Advance
  <1>3. turn' \in 1 .. (n + 1)
    <2> HIDE DEF n, break
    <2> QED
      BY <1>1, <1>2
  <1>4. complete' = TRUE \/ complete' = (complete /\ s \in Finished)
    BY DEF Advance
  <1>5. complete' \in BOOLEAN
    BY <1>4, Zenon
  <1> QED
    BY <1>3, <1>5 DEF Advance

\* The stages are run through in one direction.
LEMMA AfterType == ASSUME NEW s \in Stages PROVE After(s) \in Stages
  BY DEF Stages, After

\* An exception takes rank 0 to the next stage.
LEMMA EscapeTypes ==
  ASSUME TypeOK, Escape
  PROVE  /\ at' \in [Ranks -> Stages] /\ waiting' = waiting /\ threw' \in BOOLEAN
         /\ turn' \in 1 .. (Len(Order) + 1) /\ complete' \in BOOLEAN
  <1>1. After(at[Root]) \in Stages
    BY AfterType, RanksAssumption DEF TypeOK
  <1>2. at' \in [Ranks -> Stages] /\ waiting' = waiting /\ threw' = TRUE
    BY <1>1 DEF TypeOK, Escape
  <1>3. 1 \in 1 .. (Len(Order) + 1)
    BY OrderAssumption
  <1>4. turn' = 1 /\ complete' = TRUE
    BY DEF Escape
  <1> QED
    BY <1>2, <1>3, <1>4

\* A job whose process has ended has an integer exit code.
LEMMA CodeType ==
  ASSUME TypeOK, NEW j \in Jobs
  PROVE  code[j] \in Int /\ result[j] \in Int
  <1>1. (code[j] \in Codes \/ code[j] = NoCode) /\ result[j] \in Int
    BY DEF TypeOK
  <1>2. \A c \in Codes : c \in Int
    BY JobsAssumption
  <1>3. NoCode \in Int
    BY DEF NoCode
  <1> QED
    BY <1>1, <1>2, <1>3

\* The decision on a job that has ended leaves the types as they are.
LEMMA ConcludeTypes ==
  ASSUME TypeOK, NEW j \in Jobs, NEW c \in Int, Turn(j), Conclude(j, c)
  PROVE  TypeOK'
  <1>1. result' \in [Jobs -> Int]
    BY DEF TypeOK, Conclude
  <1>2. staged' \in [Stagings -> {"no", "copying", "ended"}]
    BY StagingTypes DEF Conclude
  <1>3. state' \in [Jobs -> States]
    BY DEF TypeOK, Conclude, States
  <1>4. /\ at' \in [Ranks -> Stages] /\ waiting' = waiting /\ threw' \in BOOLEAN
        /\ turn' \in 1 .. (Len(Order) + 1) /\ complete' \in BOOLEAN
    <2>1. CASE \E s : Advance(j, s)
      BY <2>1, AdvanceTypes DEF TypeOK, control
    <2>2. CASE Escape
      BY <2>2, EscapeTypes
    <2> QED
      BY <2>1, <2>2 DEF Conclude
  <1>5. UNCHANGED <<proc, code, files>>
    BY DEF Conclude
  <1> QED
    BY <1>1, <1>2, <1>3, <1>4, <1>5 DEF TypeOK


\* The initial state is type correct.
LEMMA InitTypes == Init => TypeOK
  <1> SUFFICES ASSUME Init PROVE TypeOK
    OBVIOUS
  <1>1. 1 \in 1 .. (Len(Order) + 1) /\ NoCode \in Int
    BY OrderAssumption DEF NoCode
  <1>2. turn \in 1 .. (Len(Order) + 1) /\ result \in [Jobs -> Int]
    BY <1>1 DEF Init
  <1>3. complete \in BOOLEAN /\ threw \in BOOLEAN
    BY DEF Init
  <1> QED
    BY <1>2, <1>3 DEF Init, TypeOK, Stages, States

\* Every call of Job::progress preserves the types.
LEMMA ProgressTypes ==
  ASSUME TypeOK, NEW j \in Jobs, Progress(j)
  PROVE  TypeOK'
  <1>1. ASSUME Launch(j) PROVE TypeOK'
    <2>1. staged' \in [Stagings -> {"no", "copying", "ended"}]
      BY <1>1, StagingTypes DEF Launch, DependenciesAre
    <2>2. turn' \in 1 .. (Len(Order) + 1) /\ complete' \in BOOLEAN /\ UNCHANGED control
      BY <1>1, AdvanceTypes DEF Launch
    <2> QED
      BY <1>1, <2>1, <2>2 DEF Launch, TypeOK, States, control
  <1>2. ASSUME Refuse(j) PROVE TypeOK'
    <2>1. staged' \in [Stagings -> {"no", "copying", "ended"}]
      BY <1>2, StagingTypes DEF Refuse, DependenciesAre
    <2>2. turn' \in 1 .. (Len(Order) + 1) /\ complete' \in BOOLEAN /\ UNCHANGED control
      BY <1>2, AdvanceTypes DEF Refuse
    <2> QED
      BY <1>2, <2>1, <2>2 DEF Refuse, TypeOK, States, control
  <1>3. ASSUME Hold(j) PROVE TypeOK'
    <2>1. staged' \in [Stagings -> {"no", "copying", "ended"}]
      BY <1>3, StagingTypes DEF Hold, DependenciesAre
    <2>2. /\ at' \in [Ranks -> Stages] /\ waiting' = waiting /\ threw' \in BOOLEAN
          /\ turn' \in 1 .. (Len(Order) + 1) /\ complete' \in BOOLEAN
      <3>1. CASE Advance(j, "CHECKING_DEPENDENCIES")
        BY <1>3, <3>1, AdvanceTypes DEF Hold, TypeOK, control
      <3>2. CASE Escape
        BY <3>2, EscapeTypes
      <3> QED
        BY <1>3, <3>1, <3>2 DEF Hold
    <2> QED
      BY <1>3, <2>1, <2>2 DEF Hold, TypeOK, States
  <1>4. ASSUME StillRunning(j) PROVE TypeOK'
    <2>1. turn' \in 1 .. (Len(Order) + 1) /\ complete' \in BOOLEAN /\ UNCHANGED control
      BY <1>4, AdvanceTypes DEF StillRunning
    <2> QED
      BY <1>4, <2>1 DEF StillRunning, TypeOK, control, world
  <1>5. ASSUME Collect(j) PROVE TypeOK'
    <2>1. PICK c \in Codes \cup {0} : ReadExit(j, c) /\ Conclude(j, c)
      BY <1>5 DEF Collect
    <2>2. c \in Int
      BY <2>1, CodeType DEF ReadExit, Recorded
    <2> QED
      BY <1>5, <2>1, <2>2, ConcludeTypes DEF Collect
  <1>6. ASSUME Recheck(j) PROVE TypeOK'
    BY <1>6, CodeType, ConcludeTypes DEF Recheck
  <1>7. ASSUME Rest(j) PROVE TypeOK'
    <2>1. turn' \in 1 .. (Len(Order) + 1) /\ complete' \in BOOLEAN /\ UNCHANGED control
      BY <1>7, AdvanceTypes DEF Rest
    <2> QED
      BY <1>7, <2>1 DEF Rest, TypeOK, control, world
  <1> QED
    BY <1>1, <1>2, <1>3, <1>4, <1>5, <1>6, <1>7 DEF Progress

\* So does everything else that happens.
LEMMA NextTypes == TypeOK /\ [Next]_vars => TypeOK'
  <1> SUFFICES ASSUME TypeOK, [Next]_vars PROVE TypeOK'
    OBVIOUS
  <1>1. ASSUME NEW j \in Jobs, Progress(j) PROVE TypeOK'
    BY <1>1, ProgressTypes
  <1>2. ASSUME Skip PROVE TypeOK'
    <2>1. turn' \in 1 .. (Len(Order) + 1)
      BY <1>2, OrderAssumption DEF Skip, TypeOK
    <2> QED
      BY <1>2, <2>1 DEF Skip, TypeOK, control, world
  <1>3. ASSUME EndPass PROVE TypeOK'
    <2>1. 1 \in 1 .. (Len(Order) + 1)
      BY OrderAssumption
    <2>2. waiting' \subseteq Ranks
      BY <1>3, RanksAssumption DEF EndPass, TypeOK
    <2> QED
      BY <1>3, <2>1, <2>2 DEF EndPass, TypeOK, world
  <1>4. ASSUME NEW r \in Ranks, Arrive(r) PROVE TypeOK'
    BY <1>4 DEF Arrive, Still, TypeOK, world
  <1>5. ASSUME NEW r \in Ranks, Finalize(r) PROVE TypeOK'
    BY <1>5 DEF Finalize, Still, TypeOK, world, Stages
  <1>6. ASSUME Meet PROVE TypeOK'
    <2>1. at' \in [Ranks -> Stages]
      BY <1>6, AfterType DEF Meet, TypeOK
    <2> QED
      BY <1>6, <2>1 DEF Meet, Still, TypeOK, world
  <1>7. ASSUME NEW j \in Jobs, OpenExit(j) \/ EndProcess(j) \/ Die(j) PROVE TypeOK'
    BY <1>7 DEF OpenExit, EndProcess, Die, TypeOK, control, pass, world
  <1>8. ASSUME NEW x \in Stagings, EndCopy(x) PROVE TypeOK'
    <2>1. Dest[x] \in Files
      BY JobsAssumption
    <2> QED
      BY <1>8, <2>1 DEF EndCopy, TypeOK, control, pass
  <1>9. ASSUME NEW f \in Files, FileChanges(f) PROVE TypeOK'
    BY <1>9 DEF FileChanges, TypeOK, control, pass
  <1>10. CASE UNCHANGED vars
    BY <1>10 DEF vars, TypeOK
  <1> QED
    BY <1>1, <1>2, <1>3, <1>4, <1>5, <1>6, <1>7, <1>8, <1>9, <1>10 DEF Next, Run

\* The engine's state stays type correct: in particular the turn never leaves
\* the pass, whatever the jobs and their validators do.
THEOREM EngineTypeCorrect == Spec => []TypeOK
  BY InitTypes, NextTypes, PTL DEF Spec


-----------------------------------------------------------------------------
(* What a step may do to a job.                                            *)

Healthy == TypeOK /\ Processes /\ ExitCodesAreReal

\* A job that has finished stays as it is; a process is started by a launch, and
\* a job is given up without a process only by a refusal.
JobMoves ==
  \A k \in Jobs :
    /\ state[k] \in Finished => state'[k] = state[k]
    /\ state[k] = "COMPLETE" => Recorded(k)' = Recorded(k)
    /\ proc[k] # "none" => proc'[k] # "none"
    /\ proc[k] = "none" /\ proc'[k] # "none" => Launch(k)
    /\ state[k] # "ERROR" /\ state'[k] = "ERROR" /\ proc'[k] = "none" => Refuse(k)

Sound == Processes' /\ ExitCodesAreReal' /\ JobMoves

\* The end of a call of progress for a job whose process is gone.
LEMMA ConcludeMoves ==
  ASSUME Healthy, NEW j \in Jobs, NEW c, Conclude(j, c),
         state[j] \in {"RUNNING", "CHECKING_SUCCESS_REQUIREMENTS"},
         proc[j] \in {"ended", "cut"}, c = Recorded(j)
  PROVE  Sound
  <1>1. PICK s \in {"COMPLETE", "ERROR", "CHECKING_SUCCESS_REQUIREMENTS"} :
          state' = [state EXCEPT ![j] = s]
    BY DEF Conclude
  <1>2. result' = [result EXCEPT ![j] = c] /\ proc' = proc /\ code' = code
    BY DEF Conclude
  <1>3. \A k \in Jobs : k # j => state'[k] = state[k] /\ result'[k] = result[k]
    BY <1>1, <1>2 DEF Healthy, TypeOK
  <1>4. state'[j] = s /\ result'[j] = Recorded(j)
    BY <1>1, <1>2 DEF Healthy, TypeOK
  <1>5. Processes' /\ ExitCodesAreReal'
    BY <1>1, <1>2, <1>3, <1>4 DEF Healthy, Processes, ExitCodesAreReal, Launched, Recorded
  <1>6. JobMoves
    BY <1>1, <1>2, <1>3, <1>4 DEF Healthy, JobMoves, Finished, Recorded
  <1> QED
    BY <1>5, <1>6 DEF Sound

\* No call of Job::progress moves a job in any other way.
LEMMA ProgressMoves ==
  ASSUME Healthy, NEW j \in Jobs, Progress(j)
  PROVE  Sound
  <1> USE DEF Sound, Healthy, TypeOK, Processes, ExitCodesAreReal, JobMoves, Launched, Finished,
              Recorded
  <1>1. ASSUME Launch(j) PROVE Sound
    BY <1>1 DEF Launch, DependenciesAre
  <1>2. ASSUME Refuse(j) PROVE Sound
    BY <1>2 DEF Refuse, DependenciesAre
  <1>3. ASSUME Hold(j) PROVE Sound
    BY <1>3 DEF Hold, DependenciesAre
  <1>4. ASSUME StillRunning(j) PROVE Sound
    BY <1>4 DEF StillRunning, world
  <1>5. ASSUME Collect(j) PROVE Sound
    BY <1>5, ConcludeMoves DEF Collect, ReadExit
  <1>6. ASSUME Recheck(j) PROVE Sound
    BY <1>6, ConcludeMoves DEF Recheck
  <1>7. ASSUME Rest(j) PROVE Sound
    BY <1>7 DEF Rest, world
  <1> QED
    BY <1>1, <1>2, <1>3, <1>4, <1>5, <1>6, <1>7 DEF Progress

\* Nor does anything else in the workflow.
LEMMA NextMoves == Healthy /\ [Next]_vars => Sound
  <1> SUFFICES ASSUME Healthy, [Next]_vars PROVE Sound
    OBVIOUS
  <1>1. ASSUME NEW j \in Jobs, Progress(j) PROVE Sound
    BY <1>1, ProgressMoves
  <1> USE DEF Sound, Healthy, TypeOK, Processes, ExitCodesAreReal, JobMoves, Launched, Finished,
              Recorded
  <1>2. ASSUME UNCHANGED <<state, result, proc, code>> PROVE Sound
    BY <1>2
  <1>3. ASSUME Skip PROVE Sound
    BY <1>2, <1>3 DEF Skip, world
  <1>4. ASSUME EndPass PROVE Sound
    BY <1>2, <1>4 DEF EndPass, world
  <1>5. ASSUME NEW r \in Ranks, Arrive(r) \/ Finalize(r) PROVE Sound
    BY <1>2, <1>5 DEF Arrive, Finalize, Still, world
  <1>6. ASSUME Meet PROVE Sound
    BY <1>2, <1>6 DEF Meet, Still, world
  <1>7. ASSUME NEW j \in Jobs, OpenExit(j) PROVE Sound
    BY <1>7 DEF OpenExit
  <1>8. ASSUME NEW j \in Jobs, EndProcess(j) PROVE Sound
    BY <1>8 DEF EndProcess, world
  <1>9. ASSUME NEW j \in Jobs, Die(j) PROVE Sound
    BY <1>9 DEF Die, world
  <1>10. ASSUME NEW x \in Stagings, EndCopy(x) PROVE Sound
    BY <1>2, <1>10 DEF EndCopy
  <1>11. ASSUME NEW f \in Files, FileChanges(f) PROVE Sound
    BY <1>2, <1>11 DEF FileChanges
  <1>12. CASE UNCHANGED vars
    BY <1>2, <1>12 DEF vars
  <1> QED
    BY <1>1, <1>3, <1>4, <1>5, <1>6, <1>7, <1>8, <1>9, <1>10, <1>11, <1>12 DEF Next, Run


-----------------------------------------------------------------------------
(* What the verdict on a dependency says about the jobs it looks at.       *)

\* What ExitCodeVerdict says of another job is true of what its .exit file says.
LEMMA LeafVerdicts ==
  ASSUME Healthy, NEW v \in Leaf, v.type \in {"ExitCode", "Boolean"}, NEW c
  PROVE  /\ LeafVerdict(v, "CHECKING_DEPENDENCIES", c) = "VALID" => LeafMet(v)
         /\ LeafVerdict(v, "CHECKING_DEPENDENCIES", c) = "INVALID" => LeafLost(v)
         /\ LeafVerdict(v, "CHECKING_DEPENDENCIES", c) # "throw"
  <1>1. CASE v.type = "Boolean"
    BY <1>1 DEF LeafVerdict, LeafMet
  <1>2. CASE v.type = "ExitCode" /\ v.job = Self
    BY <1>2 DEF LeafVerdict, LeafLost, ExitCodeVerdict, Judge
  <1>3. CASE v.type = "ExitCode" /\ v.job # Self
    <2>1. v.job \in Jobs
      BY <1>3 DEF Leaf
    <2>2. state[v.job] = "COMPLETE" => result[v.job] = Recorded(v.job)
      BY <2>1 DEF Healthy, ExitCodesAreReal, Recorded
    <2> QED
      BY <1>3, <2>1, <2>2 DEF LeafVerdict, LeafMet, LeafLost, EndedWith, ExitCodeVerdict, Judge
  <1> QED
    BY <1>1, <1>2, <1>3

\* A leaf that looks at jobs gives one of three verdicts.
LEMMA VerdictRange ==
  ASSUME NEW v \in Leaf, v.type \in {"ExitCode", "Boolean"}, NEW s, NEW c
  PROVE  LeafVerdict(v, s, c) \in {"VALID", "INVALID", "WAIT"}
  BY DEF LeafVerdict, ExitCodeVerdict, Judge

\* The same for And and Or validators.
LEMMA DependencyVerdicts ==
  ASSUME Healthy, NEW v \in Validator, OnJobs(v), NEW c
  PROVE  /\ Verdict(v, "CHECKING_DEPENDENCIES", c) = "VALID" => Met(v)
         /\ Verdict(v, "CHECKING_DEPENDENCIES", c) = "INVALID" => Lost(v)
  <1> DEFINE V(l) == LeafVerdict(l, "CHECKING_DEPENDENCIES", c)
  <1>1. CASE v.type \notin {"And", "Or"}
    <2>1. v \in Leaf /\ v.type \in {"ExitCode", "Boolean"}
      BY <1>1 DEF Validator, OnJobs
    <2>2. Verdict(v, "CHECKING_DEPENDENCIES", c) = V(v)
      BY <1>1 DEF Verdict
    <2>3. (Met(v) <=> LeafMet(v)) /\ (Lost(v) <=> LeafLost(v))
      BY <1>1 DEF Met, Lost
    <2> QED
      BY <2>1, <2>2, <2>3, LeafVerdicts
  <1>2. CASE v.type \in {"And", "Or"}
    <2>1. v.first \in Leaf /\ v.second \in Leaf
      BY <1>2 DEF Validator, Leaf
    <2>2. v.first.type \in {"ExitCode", "Boolean"} /\ v.second.type \in {"ExitCode", "Boolean"}
      BY <1>2 DEF OnJobs
    <2>3. /\ V(v.first) = "VALID" => LeafMet(v.first)
          /\ V(v.first) = "INVALID" => LeafLost(v.first)
      BY <2>1, <2>2, LeafVerdicts
    <2>4. /\ V(v.second) = "VALID" => LeafMet(v.second)
          /\ V(v.second) = "INVALID" => LeafLost(v.second)
      BY <2>1, <2>2, LeafVerdicts
    <2>5. CASE v.type = "And"
      <3>1. Verdict(v, "CHECKING_DEPENDENCIES", c) = Both(V(v.first), V(v.second))
        BY <2>5 DEF Verdict
      <3>2. /\ Both(V(v.first), V(v.second)) = "VALID" => LeafMet(v.first) /\ LeafMet(v.second)
            /\ Both(V(v.first), V(v.second)) = "INVALID" => LeafLost(v.first) \/ LeafLost(v.second)
        BY <2>3, <2>4, <2>1, <2>2, VerdictRange DEF Both, Verdicts
      <3> QED
        BY <2>5, <3>1, <3>2 DEF Met, Lost
    <2>6. CASE v.type = "Or"
      <3>1. Verdict(v, "CHECKING_DEPENDENCIES", c) = Either(V(v.first), V(v.second))
        BY <2>6 DEF Verdict
      <3>2. /\ Either(V(v.first), V(v.second)) = "VALID" => LeafMet(v.first) \/ LeafMet(v.second)
            /\ Either(V(v.first), V(v.second)) = "INVALID" => LeafLost(v.first) /\ LeafLost(v.second)
        BY <2>3, <2>4 DEF Either
      <3> QED
        BY <2>6, <3>1, <3>2 DEF Met, Lost
    <2> QED
      BY <1>2, <2>5, <2>6
  <1> QED
    BY <1>1, <1>2

\* A dependency that is met stays met, and one that is lost stays lost.
LEMMA DependenciesLast ==
  ASSUME Healthy, JobMoves, NEW v \in Validator, OnJobs(v)
  PROVE  (Met(v) => Met(v)') /\ (Lost(v) => Lost(v)')
  <1>1. ASSUME NEW l \in Leaf, l.type \in {"ExitCode", "Boolean"}
        PROVE  (LeafMet(l) => LeafMet(l)') /\ (LeafLost(l) => LeafLost(l)')
    <2>1. l.type = "ExitCode" /\ l.job # Self => l.job \in Jobs
      BY DEF Leaf
    <2> QED
      BY <1>1, <2>1 DEF LeafMet, LeafLost, EndedWith, JobMoves, Finished
  <1>2. CASE v.type \notin {"And", "Or"}
    <2>1. v \in Leaf /\ v.type \in {"ExitCode", "Boolean"}
      BY <1>2 DEF Validator, OnJobs
    <2> QED
      BY <1>1, <1>2, <2>1 DEF Met, Lost
  <1>3. CASE v.type \in {"And", "Or"}
    <2>1. v.first \in Leaf /\ v.second \in Leaf
      BY <1>3 DEF Validator, Leaf
    <2>2. v.first.type \in {"ExitCode", "Boolean"} /\ v.second.type \in {"ExitCode", "Boolean"}
      BY <1>3 DEF OnJobs
    <2> QED
      BY <1>1, <1>3, <2>1, <2>2 DEF Met, Lost
  <1> QED
    BY <1>2, <1>3


-----------------------------------------------------------------------------
(* The jobs: JobsInv is inductive.                                         *)

\* A job that is launched has its dependencies met, and what is met stays met.
LEMMA DependenciesAreMet ==
  ASSUME JobsInv, Healthy, JobMoves
  PROVE  DependencyOrder'
  <1> SUFFICES ASSUME NEW j \in Jobs, proc'[j] # "none",
                      NEW i \in 1 .. Len(Depends[j]), OnJobs(Depends[j][i])
               PROVE  Met(Depends[j][i])'
    BY DEF DependencyOrder, OnJobs
  <1>1. Depends[j][i] \in Validator
    BY JobsAssumption
  <1>2. Met(Depends[j][i])
    <2>1. CASE proc[j] # "none"
      BY <2>1 DEF JobsInv, DependencyOrder
    <2>2. CASE proc[j] = "none"
      <3>1. Launch(j)
        BY <2>2 DEF JobMoves
      <3>2. ListIs(Depends[j], "CHECKING_DEPENDENCIES", result[j], "VALID")
        BY <3>1 DEF Launch, DependenciesAre
      <3>3. Verdict(Depends[j][i], "CHECKING_DEPENDENCIES", result[j]) = "VALID"
        BY <3>2 DEF ListIs
      <3> QED
        BY <1>1, <3>3, DependencyVerdicts
    <2> QED
      BY <2>1, <2>2
  <1> QED
    BY <1>1, <1>2, DependenciesLast

\* A job that is refused has lost a dependency, and what is lost stays lost.
LEMMA RefusalsAreSound ==
  ASSUME JobsInv, Healthy, JobMoves
  PROVE  RefusedForGood'
  <1> SUFFICES ASSUME NEW j \in Jobs, state'[j] = "ERROR", proc'[j] = "none",
                      \A i \in 1 .. Len(Depends[j]) : OnJobs(Depends[j][i])
               PROVE  \E i \in 1 .. Len(Depends[j]) : Lost(Depends[j][i])'
    BY DEF RefusedForGood, OnJobs
  <1>1. \A i \in 1 .. Len(Depends[j]) : Depends[j][i] \in Validator
    BY JobsAssumption
  <1>2. \E i \in 1 .. Len(Depends[j]) : Lost(Depends[j][i])
    <2>1. CASE state[j] = "ERROR"
      BY <2>1 DEF JobsInv, RefusedForGood, JobMoves
    <2>2. CASE state[j] # "ERROR"
      <3>1. Refuse(j)
        BY <2>2 DEF JobMoves
      <3>2. ListIs(Depends[j], "CHECKING_DEPENDENCIES", result[j], "INVALID")
        BY <3>1 DEF Refuse, DependenciesAre
      <3>3. \E i \in Asked(Depends[j], "CHECKING_DEPENDENCIES", result[j]) :
              Verdict(Depends[j][i], "CHECKING_DEPENDENCIES", result[j]) = "INVALID"
        BY <3>2 DEF ListIs
      <3>4. PICK i \in 1 .. Len(Depends[j]) :
              Verdict(Depends[j][i], "CHECKING_DEPENDENCIES", result[j]) = "INVALID"
        BY <3>3 DEF Asked
      <3> QED
        BY <1>1, <3>4, DependencyVerdicts
    <2> QED
      BY <2>1, <2>2
  <1> QED
    BY <1>1, <1>2, DependenciesLast

\* JobsInv holds at first and is preserved.
LEMMA JobsInvariance == Spec => []JobsInv
  <1>1. Init => JobsInv
    <2> SUFFICES ASSUME Init PROVE JobsInv
      OBVIOUS
    <2>1. Processes /\ ExitCodesAreReal /\ DependencyOrder /\ RefusedForGood
      BY DEF Init, Processes, ExitCodesAreReal, DependencyOrder, RefusedForGood, Launched
    <2> QED
      BY <2>1, InitTypes DEF JobsInv
  <1>2. JobsInv /\ [Next]_vars => JobsInv'
    <2> SUFFICES ASSUME JobsInv, [Next]_vars PROVE JobsInv'
      OBVIOUS
    <2>1. Healthy
      BY DEF JobsInv, Healthy
    <2>2. Sound
      BY <2>1, NextMoves
    <2>3. DependencyOrder' /\ RefusedForGood'
      BY <2>1, <2>2, DependenciesAreMet, RefusalsAreSound DEF Sound
    <2>4. TypeOK'
      BY <2>1, NextTypes DEF Healthy
    <2> QED
      BY <2>2, <2>3, <2>4 DEF Sound, JobsInv
  <1> QED
    BY <1>1, <1>2, PTL DEF Spec

\* A job's script runs only after its dependencies on other jobs are met by what the
\* .exit files of those jobs say, and they stay met.
THEOREM DependenciesRespected == Spec => []DependencyOrder
  BY JobsInvariance, PTL DEF JobsInv

\* A job is given up without running only if a dependency can no longer be met.
THEOREM RefusalsJustified == Spec => []RefusedForGood
  BY JobsInvariance, PTL DEF JobsInv

\* Success and dependencies are decided on the code the script ended with, or on 0
\* when the wrapper has gone without writing it.
THEOREM ExitCodesTrue == Spec => []ExitCodesAreReal
  BY JobsInvariance, PTL DEF JobsInv

-----------------------------------------------------------------------------
(* The stages: StagesInv is inductive.                                     *)

\* What the stages have to do with the jobs and the barrier.
StagesOnly == FreshPass /\ PassIsHonest /\ BarrierIsHonest /\ StagesAreDone /\ RanksTogether

\* A stage that is done stays done.
LEMMA DoneLasts ==
  ASSUME JobMoves, NEW s
  PROVE  (Killed(s) => Killed(s)') /\ (StageDone(s) => StageDone(s)')
  <1>1. Killed(s) => Killed(s)'
    BY JobsAssumption DEF Killed, StageOf, JobMoves, Finished
  <1> QED
    BY <1>1 DEF StageDone, StageOf, JobMoves

\* A rank has none, one or both barriers behind it.
LEMMA BarriersType ==
  ASSUME TypeOK, NEW r \in Ranks
  PROVE  Barriers(r) \in Int
  <1>1. at[r] \in Stages
    BY DEF TypeOK
  <1> QED
    BY <1>1 DEF Barriers, Stages

\* Where the ranks stand depends on the jobs only through the stages that are done.
LEMMA ControlKept ==
  ASSUME TypeOK, JobMoves, BarrierIsHonest, StagesAreDone, RanksTogether, UNCHANGED control
  PROVE  BarrierIsHonest' /\ StagesAreDone' /\ RanksTogether'
  <1>1. at' = at /\ waiting' = waiting /\ threw' = threw
    BY DEF control
  <1>2. ASSUME NEW s, StageDone(s) PROVE StageDone(s)'
    BY <1>2, DoneLasts
  <1>3. StageDone(at[Root]) => StageDone(at[Root])'
    BY <1>1, <1>2 DEF StageDone, Killed, StageOf
  <1>4. BarrierIsHonest'
    BY <1>1, <1>3 DEF BarrierIsHonest
  <1>5. StagesAreDone'
    BY <1>1, <1>2 DEF StagesAreDone
  <1> QED
    BY <1>1, <1>4, <1>5 DEF RanksTogether, Barriers

\* A call of progress that goes on in the pass keeps the flag honest.
LEMMA AdvanceStages ==
  ASSUME TypeOK, JobMoves, StagesOnly, NEW j \in Jobs, NEW s,
         Turn(j), Advance(j, s), state'[j] = s
  PROVE  StagesOnly'
  <1>1. UNCHANGED control /\ at' = at /\ waiting' = waiting
    BY DEF Advance, control
  <1>2. InLoop /\ StageOf(j) = at[Root] /\ turn \in Nat /\ Order[turn] = j
    BY OrderAssumption DEF Turn, TypeOK
  <1>3. FreshPass'
    BY <1>1, <1>2 DEF FreshPass, InLoop
  <1>4. ASSUME complete' PROVE PassIsHonest'
    <2>1. CASE s = "ERROR" /\ j \in KillOnError
      <3>1. Killed(at[Root])'
        BY <1>1, <1>2, <2>1 DEF Killed, StageOf
      <3> QED
        BY <3>1 DEF PassIsHonest
    <2>2. CASE ~(s = "ERROR" /\ j \in KillOnError)
      <3>1. turn' = turn + 1 /\ complete' = (complete /\ s \in Finished)
        BY <2>2 DEF Advance
      <3>2. complete /\ s \in Finished
        BY <1>4, <3>1
      <3>3. CASE Killed(at[Root])
        <4>1. Killed(at[Root])'
          BY <3>3, <1>1, DoneLasts DEF Killed, StageOf
        <4> QED
          BY <4>1 DEF PassIsHonest
      <3>4. CASE ~Killed(at[Root])
        <4>1. \A i \in 1 .. (turn - 1) : StageOf(Order[i]) = at[Root] => state[Order[i]] \in Finished
          BY <1>2, <3>2, <3>4 DEF StagesOnly, PassIsHonest
        <4>2. ASSUME NEW i \in 1 .. (turn' - 1), StageOf(Order[i]) = at[Root]
              PROVE  state'[Order[i]] \in Finished
          <5>1. CASE i = turn
            BY <5>1, <1>2, <3>2
          <5>2. CASE i # turn
            <6>1. i \in 1 .. (turn - 1) /\ i \in 1 .. Len(Order)
              BY <5>2, <3>1, <1>2, OrderAssumption DEF Turn
            <6>2. Order[i] \in Jobs
              BY <6>1, OrderAssumption
            <6> QED
              BY <6>1, <6>2, <4>1, <4>2 DEF JobMoves
          <5> QED
            BY <5>1, <5>2
        <4> QED
          BY <4>2, <1>1 DEF PassIsHonest, StageOf
      <3> QED
        BY <3>3, <3>4
    <2> QED
      BY <2>1, <2>2
  <1>5. PassIsHonest'
    BY <1>4 DEF PassIsHonest
  <1> QED
    BY <1>1, <1>3, <1>5, ControlKept DEF StagesOnly

\* Rank 0 leaves the loop by an exception: it is ahead of the others from then on.
LEMMA EscapeStages ==
  ASSUME TypeOK, JobMoves, StagesOnly, InLoop, Escape
  PROVE  StagesOnly'
  <1>1. /\ threw' /\ turn' = 1 /\ waiting' = waiting
        /\ at' = [at EXCEPT ![Root] = After(at[Root])]
    BY DEF Escape
  <1>2. at'[Root] \notin {"before", "after"}
    BY <1>1, RanksAssumption DEF InLoop, After, TypeOK
  <1>3. \A r \in waiting : at'[r] = at[r]
    BY <1>1 DEF InLoop, TypeOK
  <1>4. BarrierIsHonest'
    BY <1>1, <1>3 DEF InLoop, StagesOnly, BarrierIsHonest
  <1>5. FreshPass' /\ PassIsHonest'
    BY <1>1, <1>2 DEF FreshPass, PassIsHonest, InLoop
  <1>6. StagesAreDone'
    BY <1>1 DEF StagesAreDone
  <1>7. RanksTogether'
    <2> SUFFICES ASSUME NEW r \in Ranks \ {Root}
                 PROVE  Barriers(r)' < Barriers(Root)'
      BY <1>1 DEF RanksTogether, Barriers
    <2>1. Barriers(Root)' = Barriers(Root) + 1 /\ Barriers(Root) \in Int
      BY <1>1, RanksAssumption DEF InLoop, Barriers, After, TypeOK
    <2>2. Barriers(r)' = Barriers(r) /\ Barriers(r) \in Int
      BY <1>1, BarriersType DEF Barriers, TypeOK
    <2>3. Barriers(r) < Barriers(Root) \/ Barriers(r) = Barriers(Root)
      BY DEF StagesOnly, RanksTogether
    <2> QED
      BY <2>1, <2>2, <2>3
  <1> QED
    BY <1>4, <1>5, <1>6, <1>7 DEF StagesOnly

\* A call of progress for j ends in state s, and the loop goes on or is left.
Moves(j, s) ==
  /\ state' = [state EXCEPT ![j] = s]
  /\ Advance(j, s) \/ (Escape /\ s \notin Finished)

\* Every call of progress is of that form.
LEMMA ProgressSteps ==
  ASSUME TypeOK, NEW j \in Jobs, Progress(j)
  PROVE  \E s \in States : Moves(j, s)
  <1>1. state \in [Jobs -> States]
    BY DEF TypeOK
  <1>2. ASSUME NEW s \in States, state' = [state EXCEPT ![j] = s],
               Advance(j, s) \/ (Escape /\ s \notin Finished)
        PROVE  \E t \in States : Moves(j, t)
    BY <1>2 DEF Moves
  <1>3. state = [state EXCEPT ![j] = state[j]] /\ state[j] \in States
    BY <1>1
  <1>4. CASE Launch(j)
    BY <1>2, <1>4 DEF Launch, States
  <1>5. CASE Refuse(j)
    BY <1>2, <1>5 DEF Refuse, States
  <1>6. CASE Hold(j)
    BY <1>2, <1>6 DEF Hold, States, Finished
  <1>7. CASE StillRunning(j)
    BY <1>2, <1>3, <1>7 DEF StillRunning
  <1>8. ASSUME NEW c, Conclude(j, c) PROVE \E s \in States : Moves(j, s)
    BY <1>2, <1>8 DEF Conclude, States, Finished
  <1>9. CASE Collect(j)
    BY <1>8, <1>9 DEF Collect
  <1>10. CASE Recheck(j)
    BY <1>8, <1>10 DEF Recheck
  <1>11. CASE Rest(j)
    BY <1>2, <1>3, <1>11 DEF Rest
  <1> QED
    BY <1>4, <1>5, <1>6, <1>7, <1>9, <1>10, <1>11 DEF Progress

\* Every call of Job::progress keeps the stages in order.
LEMMA ProgressStages ==
  ASSUME Healthy, JobMoves, StagesOnly, NEW j \in Jobs, Progress(j)
  PROVE  StagesOnly'
  <1>1. TypeOK
    BY DEF Healthy
  <1>2. Turn(j) /\ InLoop
    BY DEF Progress, Launch, Refuse, Hold, StillRunning, Collect, Recheck, Rest, Turn
  <1>3. PICK s \in States : Moves(j, s)
    BY <1>1, ProgressSteps
  <1>4. state'[j] = s
    BY <1>1, <1>3 DEF Moves, TypeOK
  <1> QED
    BY <1>1, <1>2, <1>3, <1>4, AdvanceStages, EscapeStages DEF Moves

\* The end of a pass: rank 0 goes to the barrier when the flag of the pass is set.
LEMMA EndPassStages ==
  ASSUME TypeOK, JobMoves, StagesOnly, EndPass
  PROVE  StagesOnly'
  <1>1. at' = at /\ threw' = threw /\ state' = state /\ turn' = 1
    BY DEF EndPass
  <1>2. FreshPass' /\ PassIsHonest'
    BY <1>1 DEF FreshPass, PassIsHonest
  <1>3. StagesAreDone' /\ RanksTogether'
    BY <1>1 DEF StagesOnly, StagesAreDone, RanksTogether, Barriers, StageDone, Killed
  <1>4. ASSUME complete PROVE StageDone(at[Root])
    <2>1. CASE Killed(at[Root])
      BY <2>1 DEF StageDone
    <2>2. CASE ~Killed(at[Root])
      <3>1. ASSUME NEW j \in Jobs, StageOf(j) = at[Root] PROVE state[j] \in Finished
        <4>1. PICK i \in 1 .. Len(Order) : Order[i] = j
          BY OrderAssumption
        <4>2. i \in 1 .. (turn - 1)
          BY <4>1, OrderAssumption DEF EndPass, TypeOK
        <4> QED
          BY <1>4, <2>2, <3>1, <4>1, <4>2 DEF EndPass, StagesOnly, PassIsHonest
      <3> QED
        BY <3>1 DEF StageDone
    <2> QED
      BY <2>1, <2>2
  <1>5. Root \in waiting' => StageDone(at[Root])
    BY <1>4 DEF EndPass, InLoop
  <1>6. \A r \in waiting' : at[r] \in {"before", "after"}
    BY DEF EndPass, InLoop, StagesOnly, BarrierIsHonest
  <1>7. BarrierIsHonest'
    BY <1>1, <1>5, <1>6 DEF BarrierIsHonest, StageDone, Killed
  <1> QED
    BY <1>2, <1>3, <1>7 DEF StagesOnly

\* A rank that reaches Finalize has left no stage that is not done.
LEMMA FinalizeStages ==
  ASSUME TypeOK, StagesOnly, NEW r \in Ranks, Finalize(r)
  PROVE  StagesOnly'
  <1>1. /\ at[r] = "application" /\ at' = [at EXCEPT ![r] = "after"]
        /\ waiting' = waiting /\ threw' = threw /\ turn' = turn /\ state' = state
    BY DEF Finalize, Still
  <1>2. at'[r] = "after" /\ \A q \in Ranks \ {r} : at'[q] = at[q]
    BY <1>1 DEF TypeOK
  <1>3. r \notin waiting
    BY <1>1 DEF StagesOnly, BarrierIsHonest
  <1>4. BarrierIsHonest'
    <2>1. \A q \in waiting : at'[q] = at[q]
      BY <1>2, <1>3 DEF TypeOK
    <2> QED
      BY <1>1, <2>1 DEF StagesOnly, BarrierIsHonest, StageDone, Killed
  <1>5. FreshPass' /\ PassIsHonest'
    <2>1. CASE r = Root
      <3>1. turn = 1
        BY <1>1, <2>1 DEF StagesOnly, FreshPass, InLoop
      <3> QED
        BY <1>1, <3>1 DEF FreshPass, PassIsHonest
    <2>2. CASE r # Root
      BY <1>1, <1>2, <2>2, RanksAssumption, complete' = complete
      DEF StagesOnly, FreshPass, PassIsHonest, InLoop, Killed, StageOf, Finalize, Still
    <2> QED
      BY <2>1, <2>2
  <1>6. StagesAreDone'
    BY <1>1, <1>2 DEF StagesOnly, StagesAreDone, StageDone, Killed
  <1>7. RanksTogether'
    <2>1. \A q \in Ranks : Barriers(q)' = Barriers(q)
      BY <1>1, <1>2 DEF Barriers
    <2> QED
      BY <1>1, <2>1, RanksAssumption DEF StagesOnly, RanksTogether
  <1> QED
    BY <1>4, <1>5, <1>6, <1>7 DEF StagesOnly

\* The barrier: every rank leaves a stage, which is done.
LEMMA MeetStages ==
  ASSUME TypeOK, StagesOnly, Meet
  PROVE  StagesOnly'
  <1>1. /\ waiting = Ranks /\ waiting' = {} /\ at' = [r \in Ranks |-> After(at[r])]
        /\ threw' = threw /\ turn' = turn /\ state' = state
    BY DEF Meet, Still
  <1>2. \A r \in Ranks : at[r] \in {"before", "after"}
    BY <1>1 DEF StagesOnly, BarrierIsHonest
  <1>3. \A r \in Ranks : at'[r] \in {"application", "end"}
    BY <1>1, <1>2 DEF After
  <1>4. FreshPass' /\ PassIsHonest' /\ BarrierIsHonest'
    BY <1>1, <1>3, RanksAssumption
    DEF StagesOnly, FreshPass, PassIsHonest, BarrierIsHonest, InLoop
  <1>5. StageDone("before") \/ threw
    BY <1>1, <1>2, RanksAssumption DEF StagesOnly, BarrierIsHonest, StagesAreDone
  <1>6. StagesAreDone'
    BY <1>1, <1>5 DEF StagesAreDone, StageDone, Killed
  <1>7. \A r \in Ranks : Barriers(r)' = Barriers(r) + 1
    BY <1>1, <1>2 DEF Barriers, After
  <1>8. RanksTogether'
    BY <1>1, <1>7, BarriersType, RanksAssumption DEF StagesOnly, RanksTogether
  <1> QED
    BY <1>4, <1>6, <1>8 DEF StagesOnly

\* And so does every other step.
LEMMA NextStages ==
  ASSUME Healthy, JobMoves, StagesOnly, [Next]_vars
  PROVE  StagesOnly'
  <1>1. TypeOK
    BY DEF Healthy
  <1>2. ASSUME NEW j \in Jobs, Progress(j) PROVE StagesOnly'
    BY <1>2, ProgressStages
  <1>3. ASSUME Skip PROVE StagesOnly'
    <2>1. /\ turn' = turn + 1 /\ complete' = complete /\ state' = state
          /\ at' = at /\ waiting' = waiting /\ UNCHANGED control
      BY <1>3 DEF Skip, control
    <2>2. InLoop /\ StageOf(Order[turn]) # at[Root] /\ turn \in Nat
      BY <1>1, <1>3, OrderAssumption DEF Skip, TypeOK
    <2>3. FreshPass' /\ PassIsHonest'
      BY <2>1, <2>2 DEF StagesOnly, FreshPass, PassIsHonest, InLoop, Killed, StageOf
    <2> QED
      BY <1>1, <2>1, <2>3, ControlKept DEF StagesOnly
  <1>4. ASSUME EndPass PROVE StagesOnly'
    BY <1>1, <1>4, EndPassStages
  <1>5. ASSUME NEW r \in Ranks, Arrive(r) PROVE StagesOnly'
    <2>1. /\ r # Root /\ at[r] \in {"before", "after"} /\ waiting' = waiting \cup {r}
          /\ at' = at /\ threw' = threw /\ turn' = turn /\ complete' = complete /\ state' = state
      BY <1>5 DEF Arrive, Still
    <2> QED
      BY <2>1
      DEF StagesOnly, FreshPass, PassIsHonest, BarrierIsHonest, StagesAreDone, RanksTogether,
          Barriers, InLoop, StageDone, Killed, StageOf
  <1>6. ASSUME NEW r \in Ranks, Finalize(r) PROVE StagesOnly'
    BY <1>1, <1>6, FinalizeStages
  <1>7. ASSUME Meet PROVE StagesOnly'
    BY <1>1, <1>7, MeetStages
  <1>8. ASSUME UNCHANGED <<control, pass, state>> PROVE StagesOnly'
    <2>1. /\ at' = at /\ waiting' = waiting /\ threw' = threw
          /\ turn' = turn /\ complete' = complete /\ state' = state
      BY <1>8 DEF control, pass
    <2> QED
      BY <2>1
      DEF StagesOnly, FreshPass, PassIsHonest, BarrierIsHonest, StagesAreDone, RanksTogether,
          Barriers, InLoop, StageDone, Killed, StageOf
  <1>9. ASSUME NEW j \in Jobs, OpenExit(j) \/ EndProcess(j) \/ Die(j) PROVE StagesOnly'
    BY <1>8, <1>9 DEF OpenExit, EndProcess, Die
  <1>10. ASSUME NEW x \in Stagings, EndCopy(x) PROVE StagesOnly'
    BY <1>8, <1>10 DEF EndCopy
  <1>11. ASSUME NEW f \in Files, FileChanges(f) PROVE StagesOnly'
    BY <1>8, <1>11 DEF FileChanges
  <1>12. CASE UNCHANGED vars
    BY <1>8, <1>12 DEF vars, control, pass
  <1> QED
    BY <1>2, <1>3, <1>4, <1>5, <1>6, <1>7, <1>9, <1>10, <1>11, <1>12 DEF Next, Run

\* StagesInv holds at first and is preserved.
LEMMA StagesInvariance == Spec => []StagesInv
  <1>1. Init => StagesInv
    <2> SUFFICES ASSUME Init PROVE StagesInv
      OBVIOUS
    <2>1. FreshPass /\ PassIsHonest /\ BarrierIsHonest /\ StagesAreDone /\ RanksTogether
      BY RanksAssumption
      DEF Init, FreshPass, PassIsHonest, BarrierIsHonest, StagesAreDone, RanksTogether, Barriers
    <2> QED
      BY <2>1, InitTypes DEF StagesInv
  <1>2. StagesInv /\ JobsInv /\ [Next]_vars => StagesInv'
    <2> SUFFICES ASSUME StagesInv, JobsInv, [Next]_vars PROVE StagesInv'
      OBVIOUS
    <2>1. Healthy /\ StagesOnly
      BY DEF JobsInv, StagesInv, Healthy, StagesOnly
    <2>2. JobMoves
      BY <2>1, NextMoves DEF Sound
    <2>3. TypeOK'
      BY <2>1, NextTypes DEF Healthy
    <2>4. StagesOnly'
      BY <2>1, <2>2, NextStages
    <2> QED
      BY <2>3, <2>4 DEF StagesInv, StagesOnly
  <1> QED
    BY <1>1, <1>2, JobsInvariance, PTL DEF Spec

\* A rank passes the barrier of the first stage only when the jobs of the stage
\* have finished, a job that kills the workflow failed, or rank 0 threw.
THEOREM BarrierHolds == Spec => []BarrierMeansFinished
  <1>1. StagesInv => BarrierMeansFinished
    BY JobsAssumption
    DEF StagesInv, StagesAreDone, BarrierMeansFinished, StageDone, Killed, StageOf
  <1> QED
    BY <1>1, StagesInvariance, PTL

\* While rank 0 has not thrown every rank has left the same stages, and once it has,
\* rank 0 is ahead of all the others for good.
THEOREM RanksStayTogether == Spec => []RanksTogether
  BY StagesInvariance, PTL DEF StagesInv

-----------------------------------------------------------------------------
(* A failed job that kills the workflow ends the pass of its stage.        *)

KillInv == TypeOK /\ KillEndsStage

\* Only the jobs and the pass matter to KillEndsStage while rank 0 stays where it is.
LEMMA KillKept ==
  ASSUME KillInv, UNCHANGED <<turn, complete, state>>, at'[Root] = at[Root],
         Root \in waiting => Root \in waiting'
  PROVE  KillEndsStage'
  BY DEF KillInv, KillEndsStage, Left, StageOf

\* Rank 0 leaves its stage for the next one.
LEMMA KillLeaves ==
  ASSUME KillInv, at'[Root] = After(at[Root]), at[Root] \in {"before", "after"}
  PROVE  \A k \in KillOnError :
           StageOf(k) = at[Root] \/ Left(StageOf(k)) => Left(StageOf(k))'
  BY DEF Left, After, StageOf

\* The initial states and every step keep the pass of a killed stage over.
LEMMA KillInvariance == Spec => []KillInv
  <1>1. Init => KillInv
    BY InitTypes, JobsAssumption DEF Init, KillInv, KillEndsStage
  <1>2. KillInv /\ [Next]_vars => KillInv'
    <2> SUFFICES ASSUME KillInv, [Next]_vars PROVE KillEndsStage'
      BY NextTypes DEF KillInv
    <2>1. TypeOK /\ turn \in Int /\ Len(Order) \in Nat
      BY OrderAssumption DEF KillInv, TypeOK
    <2>2. ASSUME NEW j \in Jobs, Progress(j) PROVE KillEndsStage'
      <3>1. PICK s \in States : Moves(j, s)
        BY <2>1, <2>2, ProgressSteps
      <3>2. Turn(j)
        BY <2>2 DEF Progress, Launch, Refuse, Hold, StillRunning, Collect, Recheck, Rest
      <3>3. /\ InLoop /\ StageOf(j) = at[Root] /\ turn <= Len(Order)
            /\ at[Root] \in {"before", "after"} /\ Root \notin waiting
        BY <3>2 DEF Turn, InLoop
      <3>4. state'[j] = s /\ \A k \in Jobs \ {j} : state'[k] = state[k]
        BY <2>1, <3>1 DEF Moves, TypeOK
      <3>5. ASSUME NEW k \in KillOnError, state[k] = "ERROR"
            PROVE  Left(StageOf(k)) /\ StageOf(k) # at[Root]
        <4>1. Left(StageOf(k))
          BY <2>1, <3>3, <3>5 DEF KillInv, KillEndsStage
        <4> QED
          BY <4>1, <3>3 DEF Left
      <3>6. CASE Advance(j, s)
        <4>1. at' = at /\ waiting' = waiting
          BY <3>6 DEF Advance, control
        <4>2. ASSUME NEW k \in KillOnError, state'[k] = "ERROR", k # j
              PROVE  Left(StageOf(k))'
          <5>1. Left(StageOf(k))
            BY <4>2, <3>4, <3>5, JobsAssumption
          <5> QED
            BY <4>1, <5>1 DEF Left, StageOf
        <4>3. ASSUME j \in KillOnError, s = "ERROR"
              PROVE  turn' = Len(Order) + 1 /\ complete'
          BY <4>3, <3>6 DEF Advance
        <4> QED
          BY <3>3, <3>4, <4>1, <4>2, <4>3 DEF KillEndsStage, StageOf
      <3>7. CASE Escape /\ s \notin Finished
        <4>1. at'[Root] = After(at[Root])
          BY <2>1, <3>7, RanksAssumption DEF Escape, TypeOK
        <4>2. ASSUME NEW k \in KillOnError, state'[k] = "ERROR" PROVE Left(StageOf(k))'
          <5>1. state[k] = "ERROR"
            BY <3>4, <3>7, <4>2, JobsAssumption DEF Finished
          <5> QED
            BY <3>3, <3>5, <4>1, <5>1, KillLeaves
        <4> QED
          BY <4>2 DEF KillEndsStage
      <3> QED
        BY <3>1, <3>6, <3>7 DEF Moves
    <2>3. ASSUME Skip PROVE KillEndsStage'
      <3>1. at' = at /\ state' = state /\ InLoop /\ turn <= Len(Order)
        BY <2>3 DEF Skip, control
      <3> QED
        BY <2>1, <3>1 DEF KillInv, KillEndsStage, InLoop, Left, StageOf
    <2>4. ASSUME EndPass PROVE KillEndsStage'
      <3>1. at' = at /\ state' = state /\ InLoop /\ (complete => Root \in waiting')
        BY <2>4 DEF EndPass
      <3> QED
        BY <3>1 DEF KillInv, KillEndsStage, InLoop, Left, StageOf
    <2>5. ASSUME NEW r \in Ranks, Arrive(r) PROVE KillEndsStage'
      BY <2>5, KillKept DEF Arrive, Still
    <2>6. ASSUME NEW r \in Ranks, Finalize(r) PROVE KillEndsStage'
      <3>1. /\ state' = state /\ turn' = turn /\ complete' = complete /\ waiting' = waiting
            /\ at'[Root] = at[Root] \/ (at[Root] = "application" /\ at'[Root] = "after")
        BY <2>1, <2>6, RanksAssumption DEF Finalize, Still, TypeOK
      <3> QED
        BY <3>1 DEF KillInv, KillEndsStage, Left, StageOf
    <2>7. ASSUME Meet PROVE KillEndsStage'
      <3>1. state' = state /\ at'[Root] = After(at[Root])
        BY <2>7, RanksAssumption DEF Meet, Still
      <3> QED
        BY <2>1, <3>1, RanksAssumption
        DEF KillInv, KillEndsStage, Left, StageOf, After, TypeOK, Stages
    <2>8. ASSUME UNCHANGED <<control, pass, state>> PROVE KillEndsStage'
      BY <2>8, KillKept DEF control, pass
    <2>9. ASSUME NEW j \in Jobs, OpenExit(j) \/ EndProcess(j) \/ Die(j) PROVE KillEndsStage'
      BY <2>8, <2>9 DEF OpenExit, EndProcess, Die
    <2>10. ASSUME NEW x \in Stagings, EndCopy(x) PROVE KillEndsStage'
      BY <2>8, <2>10 DEF EndCopy
    <2>11. ASSUME NEW f \in Files, FileChanges(f) PROVE KillEndsStage'
      BY <2>8, <2>11 DEF FileChanges
    <2>12. CASE UNCHANGED vars
      BY <2>8, <2>12 DEF vars, control, pass
    <2> QED
      BY <2>2, <2>3, <2>4, <2>5, <2>6, <2>7, <2>9, <2>10, <2>11, <2>12 DEF Next, Run
  <1> QED
    BY <1>1, <1>2, PTL DEF Spec

\* Once a job that kills the workflow has failed, no job of its stage starts.
THEOREM NothingStartsAfterKill == Spec => NoStartAfterKill
  <1> DEFINE Quiet ==
        \A j, k \in Jobs :
          k \in KillOnError /\ state[k] = "ERROR" /\ StageOf(j) = StageOf(k) =>
            (proc[j] = "none" => proc'[j] = "none")
  <1>1. KillInv /\ JobsInv /\ [Next]_vars => Quiet
    <2> SUFFICES ASSUME KillInv, JobsInv, [Next]_vars, NEW j \in Jobs, NEW k \in KillOnError,
                        state[k] = "ERROR", StageOf(j) = StageOf(k), proc[j] = "none",
                        proc'[j] # "none"
                 PROVE  FALSE
      BY JobsAssumption
    <2>1. Launch(j)
      BY NextMoves DEF JobsInv, Healthy, Sound, JobMoves
    <2>2. InLoop /\ turn <= Len(Order) /\ StageOf(k) = at[Root]
      BY <2>1 DEF Launch, Turn
    <2>3. turn \in Int /\ Len(Order) \in Nat
      BY OrderAssumption DEF KillInv, TypeOK
    <2> QED
      BY <2>2, <2>3 DEF KillInv, KillEndsStage, InLoop, Left
  <1>2. KillInv /\ JobsInv /\ [Next]_vars => [Quiet]_vars
    BY <1>1
  <1> QED
    BY <1>2, KillInvariance, JobsInvariance, PTL DEF Spec, NoStartAfterKill

-----------------------------------------------------------------------------
(* The engine implements the abstract workflow as long as rank 0 stays in  *)
(* its loop: an exception takes it out of a stage that is not done.        *)

Status == [j \in Jobs |-> Abstraction(state[j])]

\* What is told apart: a job that is pending, started, succeeded or failed.
LEMMA Abstractions ==
  /\ \A x \in {"WAITING_FOR_LAUNCH", "CHECKING_DEPENDENCIES"} : Abstraction(x) = "pending"
  /\ \A x \in {"RUNNING", "CHECKING_SUCCESS_REQUIREMENTS"} : Abstraction(x) = "started"
  /\ Abstraction("COMPLETE") = "succeeded" /\ Abstraction("ERROR") = "failed"
  BY DEF Abstraction

\* A job is made to wait for jobs only.
LEMMA NeededAreJobs == ASSUME NEW j \in Jobs PROVE NeededBy(j) \subseteq Jobs
  <1> SUFFICES ASSUME NEW k \in NeededBy(j) PROVE k \in Jobs
    OBVIOUS
  <1>1. PICK i \in 1 .. Len(Depends[j]) :
          \E l \in Conjuncts(Depends[j][i]) : l.type = "ExitCode" /\ l.job = k /\ k # Self
    BY DEF NeededBy
  <1>2. Depends[j][i] \in Validator
    BY JobsAssumption
  <1>3. \A l \in Conjuncts(Depends[j][i]) : l.type = "ExitCode" => l.job \in Jobs \cup {Self}
    BY <1>2 DEF Conjuncts, Validator, Leaf
  <1> QED
    BY <1>1, <1>3

\* A leaf on another job is VALID only when that job has succeeded.
LEMMA NeedsMet ==
  ASSUME NEW j \in Jobs, NEW c, NEW k \in NeededBy(j),
         ListIs(Depends[j], "CHECKING_DEPENDENCIES", c, "VALID")
  PROVE  state[k] = "COMPLETE"
  <1> DEFINE V(l) == LeafVerdict(l, "CHECKING_DEPENDENCIES", c)
  <1>1. PICK i \in 1 .. Len(Depends[j]) :
          \E x \in Conjuncts(Depends[j][i]) : x.type = "ExitCode" /\ x.job = k /\ k # Self
    BY DEF NeededBy
  <1>2. PICK l \in Conjuncts(Depends[j][i]) : l.type = "ExitCode" /\ l.job = k /\ k # Self
    BY <1>1
  <1>3. Verdict(Depends[j][i], "CHECKING_DEPENDENCIES", c) = "VALID"
    BY DEF ListIs
  <1>4. V(l) = "VALID"
    <2> DEFINE v == Depends[j][i]
    <2>1. CASE v.type = "And"
      <3>1. Both(V(v.first), V(v.second)) = "VALID" /\ l \in {v.first, v.second}
        BY <1>2, <1>3, <2>1 DEF Verdict, Conjuncts
      <3>2. v \in Validator
        BY JobsAssumption
      <3>3. v.first \in Leaf /\ v.second \in Leaf
        BY <2>1, <3>2 DEF Validator, Leaf
      <3>4. V(v.first) \in Verdicts /\ V(v.second) \in Verdicts
        BY <3>3
        DEF Leaf, Verdicts, LeafVerdict, ExitCodeVerdict, FileVerdict, StagingVerdict, Judge
      <3> QED
        BY <3>1, <3>4 DEF Both, Verdicts
    <2>2. CASE v.type # "And"
      <3>1. l = v /\ v.type = "ExitCode"
        BY <1>2, <2>2 DEF Conjuncts
      <3> QED
        BY <1>3, <3>1 DEF Verdict
    <2> QED
      BY <2>1, <2>2
  <1>5. ExitCodeVerdict(l, "CHECKING_DEPENDENCIES", c) = "VALID"
    BY <1>2, <1>4 DEF LeafVerdict
  <1> QED
    BY <1>2, <1>5 DEF ExitCodeVerdict, Judge

\* A call of progress is a step of the abstract workflow, or no step of it.
LEMMA ProgressRefines ==
  ASSUME TypeOK, Healthy, NEW j \in Jobs, Progress(j), ~threw'
  PROVE  W!WNext \/ UNCHANGED W!wvars
  <1>1. PICK s \in States : Moves(j, s)
    BY ProgressSteps
  <1>2. Advance(j, s) /\ at' = at
    BY <1>1 DEF Moves, Escape, Advance, control
  <1>3. at[Root] = W!StageOf(j)
    BY DEF Progress, Launch, Refuse, Hold, StillRunning, Collect, Recheck, Rest, Turn,
           StageOf, W!StageOf
  <1>4. Status' = [Status EXCEPT ![j] = Abstraction(s)]
    BY <1>1 DEF Status, Moves, TypeOK
  <1>5. Status[j] = Abstraction(state[j]) /\ state'[j] = s
    BY <1>1 DEF Status, Moves, TypeOK
  <1>6. CASE Status[j] = Abstraction(s)
    BY <1>2, <1>4, <1>6 DEF Status, W!wvars
  <1>7. CASE s = "ERROR" /\ Status[j] # "failed"
    <2>1. Status[j] \in {"pending", "started", "succeeded"}
      BY <1>5, <1>7, Abstractions DEF TypeOK, States
    <2>2. state[j] # "COMPLETE"
      BY <1>5, <1>7, NextMoves DEF Sound, JobMoves, Finished, Next, Run
    <2>3. Status[j] \notin W!Ended
      BY <1>5, <2>2, Abstractions, <1>7 DEF TypeOK, States, W!Ended
    <2>4. Status' = [Status EXCEPT ![j] = "failed"]
      BY <1>4, <1>7, Abstractions
    <2>5. W!Fail(j)
      BY <1>2, <1>3, <2>3, <2>4 DEF Status, W!Fail
    <2> QED
      BY <2>5 DEF W!WNext
  <1>8. CASE Launch(j)
    <2>1. s = "RUNNING" /\ state[j] \in {"WAITING_FOR_LAUNCH", "CHECKING_DEPENDENCIES"}
      BY <1>5, <1>8 DEF Launch, DependenciesAre, TypeOK
    <2>2. \A k \in NeededBy(j) : state[k] = "COMPLETE"
      BY <1>8, NeedsMet DEF Launch, DependenciesAre
    <2>3. \A k \in NeededBy(j) : k \in Jobs
      BY NeededAreJobs
    <2>4. \A k \in NeededBy(j) : Status[k] = "succeeded"
      BY <2>2, <2>3, Abstractions DEF Status
    <2>5. Status[j] = "pending" /\ Status' = [Status EXCEPT ![j] = "started"]
      BY <1>4, <1>5, <2>1, Abstractions
    <2>6. W!Start(j)
      BY <1>2, <1>3, <2>4, <2>5 DEF Status, W!Start
    <2> QED
      BY <2>6 DEF W!WNext
  <1>9. ASSUME NEW c, Conclude(j, c), Status[j] = "started"
        PROVE  W!WNext \/ UNCHANGED W!wvars
    <2>1. s \in {"COMPLETE", "ERROR", "CHECKING_SUCCESS_REQUIREMENTS"}
      BY <1>5, <1>9 DEF Conclude, TypeOK
    <2>2. CASE s = "COMPLETE"
      <3>1. Status' = [Status EXCEPT ![j] = "succeeded"]
        BY <1>4, <2>2, Abstractions
      <3>2. W!Succeed(j)
        BY <1>2, <1>3, <1>9, <3>1 DEF Status, W!Succeed
      <3> QED
        BY <3>2 DEF W!WNext
    <2>3. CASE s = "ERROR"
      BY <1>7, <1>9, <2>3
    <2>4. CASE s = "CHECKING_SUCCESS_REQUIREMENTS"
      BY <1>6, <1>9, <2>4, Abstractions
    <2> QED
      BY <2>1, <2>2, <2>3, <2>4
  <1>10. CASE Collect(j)
    BY <1>5, <1>9, <1>10, Abstractions DEF Collect
  <1>11. CASE Recheck(j)
    BY <1>5, <1>9, <1>11, Abstractions DEF Recheck
  <1>12. CASE Refuse(j)
    <2>1. s = "ERROR" /\ Status[j] = "pending"
      BY <1>5, <1>12, Abstractions DEF Refuse, DependenciesAre, TypeOK
    <2> QED
      BY <1>7, <2>1
  <1>13. CASE Hold(j) \/ StillRunning(j) \/ Rest(j)
    <2>1. Status[j] = Abstraction(s)
      BY <1>5, <1>13, Abstractions DEF Hold, DependenciesAre, StillRunning, Rest, TypeOK
    <2> QED
      BY <1>6, <2>1
  <1> QED
    BY <1>8, <1>10, <1>11, <1>12, <1>13 DEF Progress

\* The rest of the workflow's steps leave the jobs alone.
LEMMA NextRefines ==
  ASSUME StagesInv, JobsInv, [Next]_vars, ~threw'
  PROVE  W!WNext \/ UNCHANGED W!wvars
  <1>1. TypeOK /\ Healthy
    BY DEF JobsInv, Healthy
  <1>2. ASSUME NEW j \in Jobs, Progress(j) PROVE W!WNext \/ UNCHANGED W!wvars
    BY <1>1, <1>2, ProgressRefines
  <1>3. ASSUME state' = state, at'[Root] = at[Root] PROVE UNCHANGED W!wvars
    BY <1>3 DEF W!wvars
  <1>4. ASSUME state' = state PROVE Status' = Status
    BY <1>4 DEF Status
  <1>5. CASE Meet
    <2>1. state' = state /\ at'[Root] = After(at[Root]) /\ waiting = Ranks
      BY <1>5, RanksAssumption DEF Meet, Still
    <2>2. at[Root] \in {"before", "after"} /\ StageDone(at[Root])
      BY <2>1, RanksAssumption DEF StagesInv, BarrierIsHonest
    <2>3. W!MayLeave(at[Root])
      <3>1. CASE Killed(at[Root])
        <4>1. PICK k \in KillOnError : StageOf(k) = at[Root] /\ state[k] = "ERROR"
          BY <3>1 DEF Killed
        <4>2. Status[k] = "failed"
          BY <4>1, JobsAssumption, Abstractions DEF Status
        <4> QED
          BY <4>1, <4>2 DEF W!MayLeave, W!StageOf, StageOf, Status
      <3>2. CASE \A j \in Jobs : StageOf(j) = at[Root] => state[j] \in Finished
        <4>1. \A j \in Jobs : StageOf(j) = at[Root] => Status[j] \in W!Ended
          BY <3>2, Abstractions DEF Status, Finished, W!Ended
        <4> QED
          BY <4>1 DEF W!MayLeave, W!StageOf, StageOf, Status
      <3> QED
        BY <2>2, <3>1, <3>2 DEF StageDone
    <2>4. Status' = Status
      BY <1>4, <2>1
    <2>5. W!NextStage
      BY <2>1, <2>2, <2>3, <2>4 DEF W!NextStage, Status, After
    <2> QED
      BY <2>5 DEF W!WNext
  <1>6. ASSUME NEW r \in Ranks, Finalize(r) PROVE W!WNext \/ UNCHANGED W!wvars
    <2>1. state' = state /\ at[r] = "application" /\ at' = [at EXCEPT ![r] = "after"]
      BY <1>6 DEF Finalize, Still
    <2>2. CASE r = Root
      <3>1. at'[Root] = "after" /\ Status' = Status
        BY <1>1, <1>4, <2>1, <2>2 DEF TypeOK
      <3>2. W!NextStage
        BY <2>1, <2>2, <3>1 DEF W!NextStage, Status
      <3> QED
        BY <3>2 DEF W!WNext
    <2>3. CASE r # Root
      BY <1>1, <1>3, <2>1, <2>3, RanksAssumption DEF TypeOK
    <2> QED
      BY <2>2, <2>3
  <1>7. ASSUME NEW r \in Ranks, Arrive(r) PROVE UNCHANGED W!wvars
    BY <1>3, <1>7 DEF Arrive, Still
  <1>8. CASE Skip \/ EndPass
    BY <1>3, <1>8 DEF Skip, EndPass, control
  <1>9. ASSUME NEW j \in Jobs, OpenExit(j) \/ EndProcess(j) \/ Die(j) PROVE UNCHANGED W!wvars
    BY <1>3, <1>9 DEF OpenExit, EndProcess, Die, control
  <1>10. ASSUME NEW x \in Stagings, EndCopy(x) PROVE UNCHANGED W!wvars
    BY <1>3, <1>10 DEF EndCopy, control
  <1>11. ASSUME NEW f \in Files, FileChanges(f) PROVE UNCHANGED W!wvars
    BY <1>3, <1>11 DEF FileChanges, control
  <1>12. CASE UNCHANGED vars
    BY <1>3, <1>12 DEF vars
  <1> QED
    BY <1>2, <1>5, <1>6, <1>7, <1>8, <1>9, <1>10, <1>11, <1>12 DEF Next, Run

\* As long as rank 0 does not throw, the engine does what a workflow promises:
\* a job starts once and after the jobs it needs have succeeded, and a stage ends
\* when its jobs have ended or one that kills the workflow has failed.
THEOREM EngineImplementsWorkflow == Spec /\ []~threw => ImplementsWorkflow
  <1>1. Init => W!WInit
    BY Abstractions, RanksAssumption DEF Init, W!WInit, W!Stages
  <1>2. StagesInv /\ JobsInv /\ [Next]_vars /\ (~threw)' => [W!WNext]_(W!wvars)
    BY NextRefines
  <1> QED
    BY <1>1, <1>2, StagesInvariance, JobsInvariance, PTL DEF Spec, ImplementsWorkflow, W!WSpec
===============================================================================
