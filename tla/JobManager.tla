------------------------------ MODULE JobManager ------------------------------
(***************************************************************************)
(* The workflow engine: JobManager::run on rank 0 drives every job of a    *)
(* stage through Job::progress, in passes over the jobs in name order,     *)
(* while the other ranks wait at the barrier that ends the stage.  Jobs    *)
(* are processes of the Bash scheduler: the wrapper script opens a .exit   *)
(* file when its command ends, then writes the exit code and ends.         *)
(*                                                                         *)
(* An action is one call of Job::progress.  AndOr validators combine two   *)
(* validators that are not AndOr themselves (the bound on nesting).        *)
(***************************************************************************)
EXTENDS Integers, Sequences, FiniteSets

CONSTANTS
  Ranks, Root,  \* the processes of the world, and its rank 0
  Jobs,
  Order,        \* the jobs in name order, as std::map iterates over them
  Before,       \* Job::beforeApplication
  KillOnError,  \* Job::killOnError
  Depends,      \* Depends[j]: Job::dependencies, a sequence of validators
  Requires,     \* Requires[j]: Job::success_requirements
  Codes,        \* exit codes of the jobs' scripts
  Files,
  Stagings,     \* FileStaging validators
  Dest,         \* Dest[x]: the file staging validator x creates
  MayDie,       \* jobs whose wrapper may end without writing its .exit file
  Self          \* the empty job name of an ExitCode validator

Leaf ==
  [type : {"Boolean"}]
  \cup [type : {"ExitCode"}, job : Jobs \cup {Self}, accepts : SUBSET Int]
  \cup [type : {"File"}, file : Files, requirement : {"exists", "notExists", "changed"}, wait : BOOLEAN]
  \cup [type : {"FileStaging"}, id : Stagings]

Validator == Leaf \cup [type : {"And", "Or"}, first : Leaf, second : Leaf]

ASSUME RanksAssumption == Root \in Ranks
ASSUME OrderAssumption ==
  /\ Order \in Seq(Jobs)
  /\ \A j \in Jobs : \E i \in 1 .. Len(Order) : Order[i] = j
  /\ \A i, k \in 1 .. Len(Order) : Order[i] = Order[k] => i = k
ASSUME JobsAssumption ==
  /\ Before \subseteq Jobs /\ KillOnError \subseteq Jobs
  /\ Depends \in [Jobs -> Seq(Validator)]
  /\ Requires \in [Jobs -> Seq(Validator)]
  /\ Self \notin Jobs
  /\ Dest \in [Stagings -> Files]
  /\ Codes \subseteq Int

VARIABLES
  at,       \* at[r]: the stage rank r is in
  waiting,  \* ranks at the barrier that ends JobManager::run
  threw,    \* rank 0 has left JobManager::run by an exception
  turn,     \* the position in the pass of the job rank 0 progresses next
  complete, \* the flag of the pass
  state,    \* JobStatus::state
  result,   \* JobStatus::result.exitCode
  proc,     \* the process of a job
  code,     \* the exit code of its script, once it has ended
  staged,   \* the copy process of a FileStaging validator
  files     \* files that exist

control == <<at, waiting, threw>>
pass == <<turn, complete>>
world == <<code, staged, files>>
vars == <<at, waiting, threw, turn, complete, state, result, proc, code, staged, files>>

States == {"WAITING_FOR_LAUNCH", "CHECKING_DEPENDENCIES", "RUNNING",
           "CHECKING_SUCCESS_REQUIREMENTS", "COMPLETE", "ERROR"}
Launched == {"RUNNING", "CHECKING_SUCCESS_REQUIREMENTS", "COMPLETE"}
Finished == {"COMPLETE", "ERROR"}
Stages == {"before", "application", "after", "end"}
Verdicts == {"VALID", "INVALID", "WAIT", "throw"}

NoCode == -1

StageOf(j) == IF j \in Before THEN "before" ELSE "after"

\* The stage that follows s.
After(s) == CASE s = "before" -> "application" [] s = "application" -> "after" [] OTHER -> "end"

-----------------------------------------------------------------------------
(* Validators.  `s` and `c` are the state and exit code of the job they    *)
(* are attached to, at the moment they are asked.                          *)

Judge(ok) == IF ok THEN "VALID" ELSE "INVALID"

\* Mutant of ExitCodeVerdict: a job that failed is waited for.
ExitCodeVerdictWaits(v, s, c) ==
  IF v.job = Self
  THEN Judge(s = "CHECKING_SUCCESS_REQUIREMENTS" /\ c \in v.accepts)
  ELSE IF state[v.job] = "COMPLETE" THEN Judge(result[v.job] \in v.accepts) ELSE "WAIT"

\* JobFinishedValidator
ExitCodeVerdict(v, s, c) ==
  IF v.job = Self
  THEN Judge(s = "CHECKING_SUCCESS_REQUIREMENTS" /\ c \in v.accepts)
  ELSE CASE state[v.job] = "ERROR"    -> "INVALID"
         [] state[v.job] = "COMPLETE" -> Judge(result[v.job] \in v.accepts)
         [] OTHER                     -> "WAIT"

\* FileValidator: "changed" is in the schema and throws.
FileVerdict(v) ==
  CASE v.requirement = "changed"                        -> "throw"
    [] (v.file \in files) = (v.requirement = "exists")  -> "VALID"
    [] OTHER                                            -> IF v.wait THEN "WAIT" ELSE "INVALID"

\* FileStagingValidator: the first call starts the copy and waits.
StagingVerdict(v) == IF staged[v.id] = "ended" THEN Judge(Dest[v.id] \in files) ELSE "WAIT"

LeafVerdict(v, s, c) ==
  CASE v.type = "Boolean"     -> "VALID"
    [] v.type = "ExitCode"    -> ExitCodeVerdict(v, s, c)
    [] v.type = "File"        -> FileVerdict(v)
    [] v.type = "FileStaging" -> StagingVerdict(v)

\* Mutant of Both: one VALID is enough.
BothAny(a, b) ==
  CASE "throw" \in {a, b} -> "throw"
    [] "VALID" \in {a, b} -> "VALID"
    [] "WAIT" \in {a, b}  -> "WAIT"
    [] OTHER              -> "INVALID"

Both(a, b) ==
  CASE "throw" \in {a, b}   -> "throw"
    [] "WAIT" \in {a, b}    -> "WAIT"
    [] "INVALID" \in {a, b} -> "INVALID"
    [] OTHER                -> "VALID"

\* Mutant of Either: one INVALID is enough to refute it.
EitherEager(a, b) ==
  CASE "throw" \in {a, b}   -> "throw"
    [] "VALID" \in {a, b}   -> "VALID"
    [] "INVALID" \in {a, b} -> "INVALID"
    [] OTHER                -> "WAIT"

Either(a, b) ==
  CASE "throw" \in {a, b}       -> "throw"
    [] "VALID" \in {a, b}       -> "VALID"
    [] a = "INVALID" /\ b = "INVALID" -> "INVALID"
    [] OTHER                    -> "WAIT"

\* AndOrValidator asks both of its parts, whatever the first one says.
Verdict(v, s, c) ==
  CASE v.type = "And" -> Both(LeafVerdict(v.first, s, c), LeafVerdict(v.second, s, c))
    [] v.type = "Or"  -> Either(LeafVerdict(v.first, s, c), LeafVerdict(v.second, s, c))
    [] OTHER          -> LeafVerdict(v, s, c)

\* The validators of a list that are asked: up to the first that is not VALID.
Asked(list, s, c) ==
  {i \in 1 .. Len(list) : \A k \in 1 .. (i - 1) : Verdict(list[k], s, c) = "VALID"}

\* Job::dependenciesMet and Job::wasSuccessful return `verdict`.
ListIs(list, s, c, verdict) ==
  IF verdict = "VALID"
  THEN \A i \in 1 .. Len(list) : Verdict(list[i], s, c) = "VALID"
  ELSE \E i \in Asked(list, s, c) : Verdict(list[i], s, c) = verdict

Leaves(v, s, c) ==
  IF v.type \notin {"And", "Or"} THEN {v}
  ELSE IF LeafVerdict(v.first, s, c) = "throw" THEN {v.first} ELSE {v.first, v.second}

\* Asking a list starts the copies of the staging validators that are asked.
Stage(list, s, c) ==
  LET asked == UNION {Leaves(list[i], s, c) : i \in Asked(list, s, c)}
      first == {v.id : v \in {l \in asked : l.type = "FileStaging"}}
  IN  staged' = [x \in Stagings |-> IF x \in first /\ staged[x] = "no" THEN "copying" ELSE staged[x]]

-----------------------------------------------------------------------------
(* Job::progress, called by rank 0 for the job whose turn it is.           *)

InLoop == at[Root] \in {"before", "after"} /\ Root \notin waiting

Turn(j) == InLoop /\ turn <= Len(Order) /\ Order[turn] = j /\ StageOf(j) = at[Root]

\* Mutant of Advance: the break overshoots the end of the pass.
AdvanceTooFar(j, s) ==
  /\ IF s = "ERROR" /\ j \in KillOnError
     THEN turn' = Len(Order) + 2 /\ complete' = TRUE
     ELSE turn' = turn + 1 /\ complete' = (complete /\ s \in Finished)
  /\ UNCHANGED control

\* Mutant of Advance: a failed job that kills the workflow does not end the pass.
AdvanceNoBreak(j, s) ==
  /\ turn' = turn + 1
  /\ complete' = (complete /\ s \in Finished)
  /\ UNCHANGED control

\* What the loop makes of the state that progress returns.
Advance(j, s) ==
  /\ IF s = "ERROR" /\ j \in KillOnError
     THEN turn' = Len(Order) + 1 /\ complete' = TRUE
     ELSE turn' = turn + 1 /\ complete' = (complete /\ s \in Finished)
  /\ UNCHANGED control

\* An exception leaves JobManager::run on rank 0, which goes on without the barrier.
Escape ==
  /\ threw' = TRUE
  /\ at' = [at EXCEPT ![Root] = After(at[Root])]
  /\ turn' = 1 /\ complete' = TRUE
  /\ UNCHANGED waiting

DependenciesAre(j, verdict) ==
  /\ state[j] \in {"WAITING_FOR_LAUNCH", "CHECKING_DEPENDENCIES"}
  /\ ListIs(Depends[j], "CHECKING_DEPENDENCIES", result[j], verdict)
  /\ Stage(Depends[j], "CHECKING_DEPENDENCIES", result[j])

\* BashScheduler::run returns at once.  The first poll is always delayed.
Launch(j) ==
  /\ Turn(j) /\ DependenciesAre(j, "VALID")
  /\ state' = [state EXCEPT ![j] = "RUNNING"]
  /\ proc' = [proc EXCEPT ![j] = "running"]
  /\ Advance(j, "RUNNING")
  /\ UNCHANGED <<result, code, files>>

Refuse(j) ==
  /\ Turn(j) /\ DependenciesAre(j, "INVALID")
  /\ state' = [state EXCEPT ![j] = "ERROR"]
  /\ Advance(j, "ERROR")
  /\ UNCHANGED <<result, proc, code, files>>

Hold(j) ==
  /\ Turn(j)
  /\ state' = [state EXCEPT ![j] = "CHECKING_DEPENDENCIES"]
  /\ \/ DependenciesAre(j, "WAIT") /\ Advance(j, "CHECKING_DEPENDENCIES")
     \/ DependenciesAre(j, "throw") /\ Escape
  /\ UNCHANGED <<result, proc, code, files>>

\* The poll is delayed, or does not find the .exit file.
StillRunning(j) ==
  /\ Turn(j) /\ state[j] = "RUNNING"
  /\ Advance(j, "RUNNING")
  /\ UNCHANGED <<state, result, proc, world>>

\* Mutant of ReadExit: the .exit file is read when it is found.
ReadExitEarly(j, c) ==
  /\ proc[j] \in {"exiting", "ended", "cut"}
  /\ c = IF proc[j] = "ended" THEN code[j] ELSE 0

\* What the .exit file of a wrapper that is gone says: atoi reads 0 in an empty one.
Recorded(j) == IF proc[j] = "cut" THEN 0 ELSE code[j]

\* The poll that finds the .exit file waits for the wrapper before it reads the code.
ReadExit(j, c) == proc[j] \in {"ended", "cut"} /\ c = Recorded(j)

\* What the success requirements make of a job that ended with code c.
Conclude(j, c) ==
  LET s == "CHECKING_SUCCESS_REQUIREMENTS"
      RequirementsAre(verdict) == ListIs(Requires[j], s, c, verdict)
  IN  /\ result' = [result EXCEPT ![j] = c]
      /\ Stage(Requires[j], s, c)
      /\ \/ /\ RequirementsAre("VALID")
            /\ state' = [state EXCEPT ![j] = "COMPLETE"]
            /\ Advance(j, "COMPLETE")
         \/ /\ RequirementsAre("INVALID")
            /\ state' = [state EXCEPT ![j] = "ERROR"]
            /\ Advance(j, "ERROR")
         \/ /\ RequirementsAre("WAIT")
            /\ state' = [state EXCEPT ![j] = s]
            /\ Advance(j, s)
         \/ /\ RequirementsAre("throw")
            /\ state' = [state EXCEPT ![j] = s]
            /\ Escape
      /\ UNCHANGED <<proc, code, files>>

Collect(j) ==
  /\ Turn(j) /\ state[j] = "RUNNING"
  /\ \E c \in Codes \cup {0} : ReadExit(j, c) /\ Conclude(j, c)

Recheck(j) ==
  /\ Turn(j) /\ state[j] = "CHECKING_SUCCESS_REQUIREMENTS"
  /\ Conclude(j, result[j])

Rest(j) ==
  /\ Turn(j) /\ state[j] \in Finished
  /\ Advance(j, state[j])
  /\ UNCHANGED <<state, result, proc, world>>

Progress(j) ==
  Launch(j) \/ Refuse(j) \/ Hold(j) \/ StillRunning(j) \/ Collect(j) \/ Recheck(j) \/ Rest(j)

\* A job of the other stage.
Skip ==
  /\ InLoop /\ turn <= Len(Order) /\ StageOf(Order[turn]) # at[Root]
  /\ turn' = turn + 1
  /\ UNCHANGED <<complete, state, result, proc>>
  /\ UNCHANGED <<control, world>>

\* Mutant of EndPass: the loop ends after one pass.
EndPassOnce ==
  /\ InLoop /\ turn > Len(Order)
  /\ waiting' = waiting \cup {Root}
  /\ turn' = 1 /\ complete' = TRUE
  /\ UNCHANGED <<at, threw, state, result, proc>> /\ UNCHANGED world

\* while (!complete): another pass, or the barrier.
EndPass ==
  /\ InLoop /\ turn > Len(Order)
  /\ waiting' = IF complete THEN waiting \cup {Root} ELSE waiting
  /\ turn' = 1 /\ complete' = TRUE
  /\ UNCHANGED <<at, threw, state, result, proc>> /\ UNCHANGED world

Run == Skip \/ EndPass \/ \E j \in Jobs : Progress(j)

-----------------------------------------------------------------------------
(* The other ranks, and the application, which ends in Finalize.           *)

Still == UNCHANGED <<threw, turn, complete, state, result, proc>> /\ UNCHANGED world

\* Barrier: the other ranks have nothing else to do in JobManager::run.
Arrive(r) ==
  /\ r # Root /\ at[r] \in {"before", "after"} /\ r \notin waiting
  /\ waiting' = waiting \cup {r}
  /\ UNCHANGED at /\ Still

\* Mutant of Meet: rank 0 does not wait for the others.
MeetAlone ==
  /\ Root \in waiting
  /\ waiting' = waiting \ {Root}
  /\ at' = [at EXCEPT ![Root] = After(at[Root])]
  /\ Still

\* MPI matches the barriers of the ranks by their order, not by the call.
Meet ==
  /\ waiting = Ranks
  /\ waiting' = {}
  /\ at' = [r \in Ranks |-> After(at[r])]
  /\ Still

Finalize(r) ==
  /\ at[r] = "application"
  /\ at' = [at EXCEPT ![r] = "after"]
  /\ UNCHANGED waiting /\ Still

-----------------------------------------------------------------------------
(* Processes and files.                                                    *)

\* The script of a job ends with some code and the shell opens the .exit file.
OpenExit(j) ==
  /\ proc[j] = "running"
  /\ proc' = [proc EXCEPT ![j] = "exiting"]
  /\ \E c \in Codes : code' = [code EXCEPT ![j] = c]
  /\ UNCHANGED <<control, pass, state, result, staged, files>>

\* The exit code is written, the shell ends.
EndProcess(j) ==
  /\ proc[j] = "exiting"
  /\ proc' = [proc EXCEPT ![j] = "ended"]
  /\ UNCHANGED <<control, pass, state, result>> /\ UNCHANGED world

\* The wrapper is killed: before it opens its .exit file, which is then never there,
\* or before it writes it (or the write fails), which leaves it there and empty.
Die(j) ==
  /\ j \in MayDie /\ proc[j] \in {"running", "exiting"}
  /\ proc' = [proc EXCEPT ![j] = IF @ = "running" THEN "killed" ELSE "cut"]
  /\ UNCHANGED <<control, pass, state, result>> /\ UNCHANGED world

\* A copy ends, with or without success.
EndCopy(x) ==
  /\ staged[x] = "copying"
  /\ staged' = [staged EXCEPT ![x] = "ended"]
  /\ files' \in {files, files \cup {Dest[x]}}
  /\ UNCHANGED <<control, pass, state, result, proc, code>>

FileChanges(f) ==
  /\ files' = IF f \in files THEN files \ {f} ELSE files \cup {f}
  /\ UNCHANGED <<control, pass, state, result, proc, code, staged>>

-----------------------------------------------------------------------------
Init ==
  /\ at = [r \in Ranks |-> "before"]
  /\ waiting = {}
  /\ threw = FALSE
  /\ turn = 1 /\ complete = TRUE
  /\ state = [j \in Jobs |-> "WAITING_FOR_LAUNCH"]
  /\ result = [j \in Jobs |-> NoCode]
  /\ proc = [j \in Jobs |-> "none"]
  /\ code = [j \in Jobs |-> NoCode]
  /\ staged = [x \in Stagings |-> "no"]
  /\ files = {}

Next ==
  \/ Run
  \/ \E r \in Ranks : Arrive(r) \/ Finalize(r)
  \/ Meet
  \/ \E j \in Jobs : OpenExit(j) \/ EndProcess(j) \/ Die(j)
  \/ \E x \in Stagings : EndCopy(x)
  \/ \E f \in Files : FileChanges(f)

Spec == Init /\ [][Next]_vars

\* Ranks, scripts and copies go on.  A poll is skipped only when more than
\* min(expectedRunTime, 60) seconds have gone by since the last one that was
\* (Job::delay), while a pass takes about half a second, so that a job that has
\* ended is not overlooked for ever.
Fairness ==
  /\ WF_vars(Run)
  /\ \A j \in Jobs : SF_vars(Collect(j)) /\ WF_vars(OpenExit(j) \/ EndProcess(j))
  /\ \A x \in Stagings : WF_vars(EndCopy(x))
  /\ \A r \in Ranks : WF_vars(Arrive(r) \/ Finalize(r))
  /\ WF_vars(Meet)

FairSpec == Spec /\ Fairness

-----------------------------------------------------------------------------
TypeOK ==
  /\ at \in [Ranks -> Stages]
  /\ waiting \subseteq Ranks
  /\ threw \in BOOLEAN
  /\ turn \in 1 .. (Len(Order) + 1)
  /\ complete \in BOOLEAN
  /\ state \in [Jobs -> States]
  /\ result \in [Jobs -> Int]
  /\ proc \in [Jobs -> {"none", "running", "exiting", "ended", "killed", "cut"}]
  /\ code \in [Jobs -> Codes \cup {NoCode}]
  /\ staged \in [Stagings -> {"no", "copying", "ended"}]
  /\ files \subseteq Files

\* Job k has succeeded and its .exit file says one of the codes a validator accepts.
EndedWith(k, codes) == state[k] = "COMPLETE" /\ Recorded(k) \in codes

LeafMet(v) ==
  CASE v.type = "ExitCode" -> v.job # Self /\ EndedWith(v.job, v.accepts)
    [] OTHER               -> v.type = "Boolean"

LeafLost(v) ==
  /\ v.type = "ExitCode"
  /\ v.job # Self => \/ state[v.job] = "ERROR"
                     \/ state[v.job] = "COMPLETE" /\ Recorded(v.job) \notin v.accepts

\* A validator that looks at other jobs only.
OnJobs(v) ==
  LET jobsOnly(l) == l.type \in {"ExitCode", "Boolean"}
  IN  IF v.type \in {"And", "Or"} THEN jobsOnly(v.first) /\ jobsOnly(v.second) ELSE jobsOnly(v)

Met(v) ==
  CASE v.type = "And" -> LeafMet(v.first) /\ LeafMet(v.second)
    [] v.type = "Or"  -> LeafMet(v.first) \/ LeafMet(v.second)
    [] OTHER          -> LeafMet(v)

Lost(v) ==
  CASE v.type = "And" -> LeafLost(v.first) \/ LeafLost(v.second)
    [] v.type = "Or"  -> LeafLost(v.first) /\ LeafLost(v.second)
    [] OTHER          -> LeafLost(v)

\* A job's script has run only if every dependency of the job on other jobs is
\* met by what their .exit files say, and that stays so.  ExitCodesAreReal says what
\* that has to do with how their scripts ended.
DependencyOrder ==
  \A j \in Jobs :
    proc[j] # "none" =>
      \A i \in 1 .. Len(Depends[j]) : OnJobs(Depends[j][i]) => Met(Depends[j][i])

\* A job whose dependencies are all on other jobs is given up without running
\* only if one of them can no longer be met.
RefusedForGood ==
  \A j \in Jobs :
    /\ state[j] = "ERROR" /\ proc[j] = "none"
    /\ \A i \in 1 .. Len(Depends[j]) : OnJobs(Depends[j][i])
    => \E i \in 1 .. Len(Depends[j]) : Lost(Depends[j][i])

\* Success and dependencies are decided on the code the script ended with, although
\* the .exit file is there before the code is.  One case is excepted because the code
\* does get it wrong: when the wrapper has gone without writing the file it opened,
\* every script counts as one that ended with 0, whatever it did (DistUtils.cpp:149).
ExitCodesAreReal ==
  \A j \in Jobs :
    state[j] \in {"CHECKING_SUCCESS_REQUIREMENTS", "COMPLETE"} =>
      \/ proc[j] = "ended" /\ result[j] = code[j]
      \/ proc[j] = "cut" /\ result[j] = 0

\* A rank passes the barrier of a stage only when every job of the stage has
\* finished, unless a job that kills the workflow failed or rank 0 threw.
BarrierMeansFinished ==
  \A r \in Ranks :
    at[r] # "before" =>
      \/ \A j \in Before : state[j] \in Finished
      \/ \E j \in Before \cap KillOnError : state[j] = "ERROR"
      \/ threw

\* How many of the barriers that end a stage a rank has behind it.
Barriers(r) == CASE at[r] = "before" -> 0 [] at[r] \in {"application", "after"} -> 1 [] at[r] = "end" -> 2

\* The ranks have left the same stages.  An exception of rank 0 breaks that for good:
\* rank 0 is ahead of every other rank from then on, through whatever barriers they
\* still meet at, so that none of the others ever ends its last stage.
RanksTogether ==
  \A r \in Ranks \ {Root} :
    IF threw THEN Barriers(r) < Barriers(Root) ELSE Barriers(r) = Barriers(Root)

\* Once a job that kills the workflow has failed, no other job of its stage starts.
NoStartAfterKill ==
  [][\A j, k \in Jobs :
       k \in KillOnError /\ state[k] = "ERROR" /\ StageOf(j) = StageOf(k) =>
         (proc[j] = "none" => proc'[j] = "none")]_vars

\* The two stages end on every rank.
WorkflowEnds == <>(\A r \in Ranks : at[r] = "end")

\* "Wait for workflow to finish." (WorkflowStore.cpp:174): behind the barrier no
\* job of the stage is still running.
WaitsForWorkflow ==
  \A r \in Ranks \ {Root} :
    at[r] # "before" => \A j \in Before : proc[j] \notin {"running", "exiting"}

-----------------------------------------------------------------------------
(* The inductive invariants behind the properties.                         *)

\* A job has a process from its launch on.
Processes ==
  \A j \in Jobs :
    /\ state[j] \in {"WAITING_FOR_LAUNCH", "CHECKING_DEPENDENCIES"} => proc[j] = "none"
    /\ state[j] \in Launched => proc[j] # "none"

JobsInv == TypeOK /\ Processes /\ ExitCodesAreReal /\ DependencyOrder /\ RefusedForGood

Killed(s) == \E k \in KillOnError : StageOf(k) = s /\ state[k] = "ERROR"

StageDone(s) == Killed(s) \/ \A j \in Jobs : StageOf(j) = s => state[j] \in Finished

\* Outside the loop of JobManager::run a new pass is about to begin.
FreshPass == InLoop \/ turn = 1

\* While the flag of a pass is set, the jobs it has been over have finished.
PassIsHonest ==
  InLoop /\ complete =>
    \/ Killed(at[Root])
    \/ \A i \in 1 .. (turn - 1) : StageOf(Order[i]) = at[Root] => state[Order[i]] \in Finished

\* Ranks wait at the end of a stage, rank 0 only when it is done.
BarrierIsHonest ==
  /\ Root \in waiting => StageDone(at[Root])
  /\ \A r \in waiting : at[r] \in {"before", "after"}

\* A rank is behind the stage before the application only when it is done.
StagesAreDone == \A r \in Ranks : at[r] # "before" => StageDone("before") \/ threw

StagesInv ==
  /\ TypeOK /\ FreshPass /\ PassIsHonest /\ BarrierIsHonest /\ StagesAreDone /\ RanksTogether

\* Rank 0 has left stage s.
Left(s) == at[Root] # "before" /\ (s = "after" => at[Root] = "end")

\* Once a job that kills the workflow has failed, the pass of its stage is over.
KillEndsStage ==
  \A k \in KillOnError :
    state[k] = "ERROR" =>
      \/ Left(StageOf(k))
      \/ at[Root] = StageOf(k) /\ (Root \in waiting \/ (turn = Len(Order) + 1 /\ complete))

-----------------------------------------------------------------------------
\* The abstract workflow.
Conjuncts(v) == IF v.type = "And" THEN {v.first, v.second} ELSE {v}

\* The other jobs that must succeed before j starts.
NeededBy(j) ==
  {v.job : v \in {l \in UNION {Conjuncts(Depends[j][i]) : i \in 1 .. Len(Depends[j])} :
                    l.type = "ExitCode"}} \ {Self}

Abstraction(s) ==
  CASE s \in {"RUNNING", "CHECKING_SUCCESS_REQUIREMENTS"} -> "started"
    [] s = "COMPLETE" -> "succeeded"
    [] s = "ERROR"    -> "failed"
    [] OTHER          -> "pending"

W == INSTANCE Workflow WITH
       Needs  <- [j \in Jobs |-> NeededBy(j)],
       status <- [j \in Jobs |-> Abstraction(state[j])],
       stage  <- at[Root]

\* The engine does what a workflow promises.
ImplementsWorkflow == W!WSpec
=============================================================================
