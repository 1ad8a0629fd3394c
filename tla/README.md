# A verification development for VnV

VnV is a verification and validation toolkit for numerical applications. An
application marks its code with *injection points*; at run time an input file
decides at which of them tests and actions run, what is sampled, where results
go, and which *workflow* of external jobs surrounds the run. VnV runs inside
an MPI application: every rank has its own copy of the run time, and almost
everything it does is a collective.

The TLA+ here models the code under `src/injection`, and the part of
`src/extraction` that reads an application's sources. Line numbers in
`PROJECT.json` ("map") say which code a definition stands for.

## Inventory

| component | state | operations | hard part | what makes it correct |
|---|---|---|---|---|
| injection points (`InjectionPointStore`, `InjectionPoint`) | stack `active` of open points; `type`, `stageId`, `skipped` of each | begin, iterate, end; `getParents` | errors half way through a call; null entries; skipped points; an inner point runs its enclosing loops | the stack is the application's open loops; a refused call changes nothing; an end runs what its beginning ran |
| actions (`ActionStore`, `IAction`) | a communicator stack per action | initialize, start, iterate, end, finalize | handlers throw between push and pop | an action's stack is that of the open loops |
| run time (`RunTime`) | `runTests`, stores, job manager, capture pipes | Init, begin / iter / end, log, Finalize | order of the calls to the stores; Finalize inside errors | stores agree with each other |
| output engine (`StreamManager`) | current communicator, counter `id`, known communicators | setComm, syncId, write, Log, callbacks | ranks in different communicators; callbacks that change the communicator | collectives match; numbers order the streams; each node in its stream |
| engine writers (`json_file`, ...) | one file per communicator; response files | newComm, write, fetch | late answers | no answer is taken for another question's |
| start of the run time (`loadRunInfo`, `FileStream::initialize`, `OptionsParserStore`) | output directory, stores | configure, initialize, options callbacks, node map | every rank looks at the directory for itself; callbacks log and ask; a reader that is late | ranks agree; nobody is left behind |
| logger | queue of saved messages, `locked` | log, flush, setLog | messages before the engine exists; failing engine | each message once, in order |
| workflow engine (`JobManager`, `Job`, validators, Bash scheduler) | state machine per job; processes; pass of rank 0 | run (before, after), progress, stage, status | polling processes and files; failures; barrier with idle ranks | jobs start after what they need; the stage ends when its jobs have; it does end |
| unit tests (`UnitTestStore`) | the sorted list of tests | runAll | batches on sub-communicators, one final barrier | each test once, on as many ranks as it asks for |
| samplers | counters, caches per point | createSampler, sample | ranks may disagree | a configured sampler is used |
| communicators | unique id, cache of ids, store of handles | set, get, custom, split, duplicate, create | ids by process id and by hash, similar communicators | one set of ranks per id, and one id per set on a rank |
| communicator mapper | a graph of communicators | add, swap, queries | links that are added and removed in any order | the graph is the inclusion order |
| typed communication, data types, reductions | buffers | send, receive, collectives, reduce | offsets in bytes, counts that differ, order of reduction | values arrive as sent; one result |
| global arrays (`IOutputEngine::Put_*`, `GatherV`, `PutGlobalArray`) | blocks with sizes and offsets | Put_Rank, Put_Vector, Put_Matrix, Put_ReduceVector... | strides in several dimensions | each element in its place |
| options and JSON parser, stores | configuration | parse, add, validate, configure | scopes, runAll, overrides, refusals | what the file selects runs, and nothing else |
| JSON validator | registry of sub-schemas by location | set_root_schema, validate | references read before their target | accepts what the schema says |
| registration tool (`extraction`) | comments not yet claimed | HandleComment, MacroExpands, lines of Fortran | whose comment is it | documentation next to a macro is the macro's |
| language interfaces | - | forward | - | - |

How they interact. The application calls `injectionPoint_begin`, `_iter` and
`_end` of the run time. It first reads captured output (which writes to the
engine), asks the injection point store for the point (at the beginning: after
the actions; at iterations and ends: before them), and runs it: the point asks
its sampler, announces itself to the engine, runs its tests, which log through
the run time back into the engine, and then runs the open loops around it.
Before the application's code and in Finalize, rank 0 runs the workflow's jobs
while the other ranks wait at a barrier. All state but the files, processes and
pipes is local to a rank; ranks meet in collectives only.

## Modules

| module | models | state and actions against the code |
|---|---|---|
| `InjectionPoints` | one rank's points and actions under an arbitrary application | `active` is `InjectionPointStore::active` (with `Null` for a null `shared_ptr`), `commStack` is `IAction::commStack`. `Begin`, `Iter`, `End` are whole calls of the run time, split by how they end: accepted, refused by an exception, undefined behaviour. `ran` is a history of whose tests ran. |
| `NestedLoops` | the same under the application of the manual | adds `loops`, what the application knows; extends every action of `InjectionPoints` by it |
| `InjectionPointsProofs` | theorems about `InjectionPoints` and `NestedLoops` | |
| `Workflow` | abstract specification of a workflow | jobs pending, started, succeeded, failed; four stages |
| `JobManager` | `JobManager::run` on all ranks, `Job::progress`, validators, processes | an action is one call of `progress` on rank 0, a rank's step at the barrier, or a step of a process, copy or file |
| `JobManagerProofs` | theorems about `JobManager` | |
| `Placement` | abstract specification of running tests in parallel | idle ranks, tests that have begun |
| `UnitTests` | `UnitTestStore::runAll` on all ranks | `tests`, `it`, `currentBuffer` are the variables of the loop on each rank; an action is one turn of the loop on one rank (a test dropped, taken or passed over), the creation of a group's communicator, the end of a test, or the barrier |
| `UnitTestsProofs` | theorems about `UnitTests` | |
| `PointStream` | what injection points of several ranks write | `comm`, `id`, `known` are `StreamManager`'s members on each rank, `stream` the files. A call is unfolded into the sequence of engine operations the code performs (`Operations`); each is a step of one rank, a collective a step of all members of a communicator |
| `PointStreamTypes`, `PointStreamProofs`, `PointStreamOrder` | theorems about `PointStream`: types and lists of operations; streams and collectives; order and messages | |
| `StartUp` | all ranks from their first message to the info node and the first messages after it | extends `PointStream` by the logger (`locked`, `savedLogs`), the output directory and questions to a reader. `loadRunInfo` is unfolded into operations as a call is; the reader is a process that answers when it likes |
| `StartUpProofs`, `StartUpOrder` | theorems about `StartUp`: agreement of the ranks; messages | |
| `CommMapper` | `CommMapper`, `CommWrap` | the graph after `add` of each communicator, as a function of the graph before |
| `CommunicatorIds` | ids and handles of `MPICommunicator` | what a rank's `set` gives for the communicators it has set before |
| `TypedCommunication` | `DataTypeCommunication`, `IRequest::unpack`, the reducers | buffers of words; a collective is a function of what every rank passes |
| `GlobalArrays` | `IOutputEngine`'s Put actions, `GatherV`, `PutGlobalArray` | blocks with sizes and offsets to the array that is written |
| `JsonValidator` | `root_schema`, `schema::make` and the schema classes | reading a schema to a registry, validating an instance with it |
| `Configuration` | `JsonParser`, `loadRunInfo`'s stores, `configure`, `InitFromFile` | input file, arguments and environment to what is turned on |
| `Registration` | `PreprocessCallback`, `processComment`, `runFortranPreprocessor` | a sequence of tokens or lines to what is registered with which comments |
| `MC*` | instances for TLC | `MCLibrary` calls the seven modules before it on every input within its bounds and defines what each is for |

`NestedLoops` composes the application with `InjectionPoints` by extension.
`JobManager` instantiates `Workflow`, and `UnitTests` `Placement`, with a
refinement mapping. `PointStream` (and `StartUp`, which extends it) takes from
`InjectionPoints` what a call runs (the point, then its open parents on the same
communicator), not the module itself: there the interleaving of ranks is the
subject, and each call is one step in the other.

Abstractions that matter:

* `InjectionPoints`: one call is one step and tests do not call back; a
  communicator is its unique id; a point is its package and name. A point is
  configured when the input file names it, and matched when its registration
  has parameters for the calling function. Samplers answer freely but on one
  rank. Handlers of `initialize` and of ends may throw; one that throws at a
  beginning makes no difference, because the communicator was pushed before.
* `JobManager`: AndOr validators do not nest deeper than one level. Time is a
  choice: a poll may be delayed. The Slurm scheduler is left out: what its
  status returns is what `qstat` prints.
* `UnitTests`: the tests are those the configuration leaves in, in any order
  `std::sort` may give, the same on every rank (same binary, same input). What
  a test does is left out; it returns or throws on each rank by itself.
* `StartUp`: messages are logged before the run time is set up, by `loadRunInfo`
  itself and by callbacks; the logger writes to the engine, prints, or is off.
  A question waits for its answer or until its time is over. No other
  application makes directories meanwhile, and only the root's writes fail.
* `CommMapper` to `Registration`: algorithms without interleaving, so that
  one step is one call. A number in a schema is counted in halves, a string is
  one of five with its bytes, a regular expression the strings it is found in.
  Hashes of different rank lists differ, ranks have different process ids, and
  no communicator is freed. A documentation comment is a number; a source is a
  sequence of tokens. Fewer than 1000 newlines follow a comment.
* `PointStream`: every point is configured, has one test besides its callback
  and is not skipped; there is at most one action. Callbacks log, but reach no
  other injection point. A communicator is its set of ranks. Numbers do not
  wrap. A gather is a step of all members, though MPI may let a non-root go on
  earlier; it then waits in the next operation that needs the others.

## Runs

| run | instance | question | result |
|---|---|---|---|
| `ip_any` | 4 points: the initialization, configured and registered, configured but not registered, neither; 2 actions that may throw; depth 2, a leak each | for any application, do points and actions stay in step, and do actions keep the communicators of open points when handlers throw? | `Lockstep`, `OpenCommsKept` and `Defined` hold as long as only configured and registered points were called |
| `ip_unmatched` | a configured point without parameters | "Not nullptr because we checked above" | `NeverNull` is violated: finding |
| `nested` | 3 points (one unconfigured), 2 communicators, depth 4 | is a well nested application served as the manual says? | six properties hold |
| `workflow_fair` | 4 jobs, 2 ranks; staging, And, Or, a job after the application | dependencies, end of both stages, `Workflow` implemented | hold |
| `workflow_kill` | 4 jobs, 2 ranks; a job that kills the workflow, a wrapper that may be killed before it opens or before it writes its `.exit` file, files that change, a validator that throws | what failures may and may not do; where the ranks are after an exception | hold, with the exception `ExitCodesAreReal` names |
| `workflow_barrier` | the same | "Wait for workflow to finish." | `WaitsForWorkflow` is violated: finding |
| `unit_tests` | 5 tests on 4 ranks: for 5, 3, 2, 2 and no ranks; one may throw | do ranks that pack on their own agree, is each test run once, do all get out? | hold; `Placement` is implemented |
| `stream_calls` | 3 ranks, communicators {0,1,2} and {1,2}, 4 calls, an action | do collectives match, do numbers order calls, does every call return? | hold |
| `stream_messages` | the same, 2 calls, callbacks with 2 messages, output captured on rank 1 | is every node in its stream, every message within its call? | hold |
| `stream_log` | a logger that prints on standard output | "Set the old comm" | `InOwnStream` is violated: finding |
| `startup` | 2 ranks and a communicator without rank 0; 3 kinds of logging, 2 application messages and questions in all, up to 2 directories, a write that fails | do ranks agree, is each message written once and in order, does the start end? | hold |
| `library` | inputs listed at each action of `MCLibrary` | does each algorithm do what it is for? | eight properties hold, each with the exceptions its comment and "Known deviations" name |

Bounds and why they are enough. Depth 3 or 4 gives an initialization loop with
two or three loops in it, so that a loop has a parent with the same and one with
another communicator and the same point can be open twice. One leak per action
separates the cases in `Lockstep`. Four jobs give And, Or, staging and both
stages; two ranks give a root and one rank that only waits, and all waiting
ranks are alike. The unit tests give a batch that leaves a rank idle, a next one
in which that rank shares a group with one that was busy, a test too large and
one that no rank takes. Rank 0 is in one of the two communicators of
`PointStream` only, so that roots, counters and streams differ; four calls give
two nested loops opened and closed, and a call after them on the larger
communicator. Two messages are needed for the finding and one for the order. In
`startup` two messages give one before and one after the set-up, or two in the
queue, and two questions let the first one's answer come while the second one
waits; with three calls the properties hold as well (1.05 million states). In
`library` three ranks and blocks of two or three tell orders, strides and counts
apart; ranks give their communicators to the tool kit in different orders;
schemas have one schema in another, with a reference to any place; a source has
a macro, a comment and three tokens, which lets a comment, an argument's comment
and another macro come between a comment and its owner. No symmetry is used:
`Order`, roots and the initialization key break it.

Deadlock checking is off where the system may stop: an application that does
not call any more, undefined behaviour, a workflow that has ended or waits for
a validator for ever.

Fairness. `JobManager`: each rank runs (weak fairness of `Run`, `Arrive`,
`Finalize`, `Meet`), processes and copies end; a poll is delayed by at most
`getDelay` seconds and the pass repeats about twice a second, so that a job
that stays collectable is collected (strong fairness of `Collect`, whose turn
comes and goes). In `workflow_fair` no process is killed and no validator
waits for a file: the code promises no end there. `PointStream`: each rank
goes on, and a collective that all members have reached happens. The
application owes no further call. `UnitTests`: each rank goes on, a test ends
or throws, and a communicator whose group has called for it is created; after a
throw the code owes nothing, since the other ranks stay at the barrier.
`StartUp`: each rank goes on, a collective happens when all are there, and
the time of a question ends (the code counts it down); nothing is assumed of
the reader, nor that a write succeeds: `StartUpEnds` claims nothing after a
refused one.

## Findings

* A configured point that matches no parameter set is stored as null
  (`InjectionPointStore.cpp:140`), and every later walk of the stack
  dereferences it.
* A failing `killOnError` job leaves the other jobs of the stage running
  behind the barrier that claims to wait for them (`WorkflowStore.cpp:141`).
* Captured output leaves the engine on the self communicator
  (`streamtemplate.h:557`). The engine's `Log` restores what it found, so a
  test that logs twice, with the logger printing on the captured output, sends
  the rest of its nodes to the wrong stream.

## Known deviations

What the code does that is probably not meant, seen while it was translated. The
models have it; the properties are stated where it does not matter, and their
comments say where that is.

* Actions: when an end handler throws, `popComm` is skipped (`ActionStore.cpp:90`)
  and the action goes on with the communicator of the loop that has ended; one
  that throws in `initialize` leaves the world's below all others.
  `OpenCommsKept` says that no open loop's communicator is lost by it.
* Points: a mis-nested end of a loop that is not configured is not noticed, and
  the actions pop another loop's communicator; properties that hold for every
  nesting are about configured points.
* Workflow: a wrapper that goes after opening its `.exit` file and before writing
  it leaves an empty file, which is read as exit code 0 (`DistUtils.cpp:149`,
  `171-178`): a script that failed counts as a success. `ExitCodesAreReal`
  excepts exactly this case, and `DependencyOrder` speaks of what the file says.
  An exception on rank 0 skips a barrier: `RanksTogether` says what is left.
* Communicator mapper: `add` erases from sets it walks when communicators
  overlap without being nested; `getCommChain` is always empty; the dynamic map
  never links.
* Typed communication: `IRequest::unpack` steps without the key, so that only
  one element comes back right; `Gather` returns as many elements as bytes;
  `Scatter` tests the wrong way round; `WaitAll` and its relatives hand MPI
  empty requests; `sqrsum` is not associative.
* Global arrays: `MatrixAction` (`IOutputEngine.h:377`) joins its tests with
  `&&`, and its row offset is wrong with several rows and columns of blocks;
  an element type with one parameter of one dimension has its first value
  written only (`streamtemplate.h:337`).
* Communicators: similar communicators share an id, and the first handle is
  found for all of them, whatever the order of its ranks. The id is made from the
  list of the first similar communicator this rank has set
  (`MPICommunicator.cpp:263-288`), so ranks that first saw the same members in
  different orders give them different ids: `IdsIdentify` claims one id across
  ranks only where they first saw the same list. `contains` uses one
  buffer for both sides of its reduction.
* Logger: turning a level off has no effect (`Logger.cpp:104`); with logging
  off, or an engine that was never set, messages are saved for ever; a write
  that fails leaves the root on the message's communicator, prints the message
  again and may never end.
* Start: at a time-out the question is written again where a node of failure
  was built (`streamtemplate.h:246`).
* Configuration: samplers are never created (`SamplerStore.cpp:43` passes the
  text of the schema); overrides of the command line cut their pointer wrongly
  (`JsonParser.cpp:235`); `runAll` brings back points that the scopes left out.
  Against the manual: a file without `runScopes` runs every test
  (`JsonParser.cpp:31-45`, as `JsonParser.h:327` says), where
  `docs/usage/injectionpoints.rst:457`, `484` and `657` say that a test without a
  selected scope does not run; the whole section of options is validated against
  the schema of every package and handed to it (`OptionsParserStore.cpp:50-88`),
  where `injectionpoints.rst:342` and `539` give each package its own options; and
  the section is read under `options` (`JsonParser.cpp:330`), where the manual
  calls it `pluginConfig`. `ConfigurationIsSelected` states the code's rules.
* JSON validator: a float like 1.0 is refused where draft 7 takes it for an
  integer (`json-validator.cpp:360-365`, `450-457`: the type the number was
  parsed as decides); `AcceptsWhatSchemaSays` compares with the standard on every
  instance without such a number, and with the standard less that rule on the
  others. Empty `allOf`, `anyOf` and `oneOf` fail; an exclusive bound
  replaces an inclusive one; bounds are cut to integers without a `type`;
  `{"$ref": "#"}` at the root recurses for ever; `format` always fails.
* Registration: Fortran sub-packages are read and dropped; a lone `!` ends a
  comment; the end of a code block that never started throws.

## Proofs

`InjectionPointsProofs` proves, for every application, every set of points,
communicators and actions, and every bound:

* `TypeCorrect`: `Spec => []TypeOK`;
* `LockstepInvariant`: the inductive invariant `LockstepInv`. `Lockstep` and
  `Defined` are claimed as long as only configured and registered points were
  called, which the history variable `proper` records. They are not inductive:
  that nothing undefined happens rests on there being no null entry, and that
  the stacks agree after the next Init rests on Finalize having emptied the
  points;
* `ActionsInLockstep` and `NeverUndefined`, which follow;
* `ActionsKeepOpenComms`: `OpenCommsKept`, by the lemmas `KeptByStart`,
  `KeptByEnd` and `NoneToKeep`: wherever the open points' communicators are
  among those of a stack, they still are after a push on both, after a pop of
  both, and after a pop of the points only.

It also proves all six properties of the run `nested`, for every nested
application, every depth and every set of points of which the configured ones
are registered (`RegisteredAssumption`, which the theorems before do not cite):

* `NestedInvariant`: the inductive invariant `NestedInv`, and from it
  `NestedNeverRefused`, `NestedStackIsLoops` and `NestedActionsFollow`. The
  three need each other: a call is not refused because the stack is the
  application's loops, no action's stack is empty because it follows them, and
  that Finalize ends the right loop needs the first open loop, and no other, to
  be the initialization loop;
* `NestedEndRuns`, `NestedEnclosing` and `NestedIterations`, the action
  properties, of every step from a state of `NestedInv`.

`JobManagerProofs` proves, for every workflow (any ranks, jobs, validators,
exit codes and files), along three inductive invariants of `JobManager`:

* `JobsInv` gives `DependenciesRespected`, `RefusalsJustified` and
  `ExitCodesTrue` (0 where the wrapper went without writing the file it opened,
  which is what the code reads). `DependencyOrder` alone is not inductive: a VALID
  verdict speaks of the exit codes in `result`, which are those of the files only
  because of `ExitCodesAreReal`, and a dependency that is met stays met only because a
  finished job never moves again (`JobMoves`, proved of every step);
* `StagesInv` gives `BarrierHolds` and `RanksStayTogether`, with and without an
  exception on rank 0. It says what the
  `complete` flag means in the middle of a pass (`PassIsHonest`): without it,
  nothing relates the flag with which rank 0 goes to the barrier to the jobs;
* `KillInv` gives `NothingStartsAfterKill`: after the `break` of a failed
  `killOnError` job rank 0 is at the end of the pass, at the barrier or past it;
* `EngineTypeCorrect`, on which they all rest;
* `EngineImplementsWorkflow`: `Spec /\ []~threw => ImplementsWorkflow`, each
  call of Job::progress mapped to a Start, Succeed or Fail of `Workflow` or to
  a stutter, and each barrier to a NextStage. The condition is needed: a
  validator that throws takes rank 0 out of a stage whose jobs are still going.

`UnitTestsProofs` proves the safety of `UnitTests` for any number of ranks and
any tests:

* `Invariance`: the inductive invariant. The ranks pack the tests without a word
  to each other, so what has to be shown is that they pack alike. The invariant
  says that there is one history of plans, with the groups each of them makes,
  which every rank follows as far as it has come; a step of the rank that is
  furthest may extend it. The obvious way, a plan as a recursive function of the
  number of turns, would have needed induction over data;
* `NobodyIsGoneTheorem`, `AllRunTheorem` and `PlacementTheorem`, the refinement,
  step by step: the creation of a group's communicator is a Begin of
  `Placement`, the end of a test on a rank an End, all else a stutter.

`PointStreamTypes` proves `TypeCorrect` for any ranks, communicators and bounds.
`TypeOK` is not inductive: which communicator a rank is on follows from what it
has still to do. `Typed` adds which operations that may be, and that a rank is
about to gather exactly when it is on a communicator it does not know, which all
its members learn together.

`PointStreamTypes` also holds the lemmas on lists of operations, and
`PointStreamProofs` proves `InOwnStreamTheorem` and `InStepTheorem` from the
invariant of `Invariance`, when the logger does not print on the captured output
(`~LogsToStdout`: with it `InOwnStream` is false, see `stream_log`). For each
rank and communicator there is a number `left` of syncs the rest of its call
holds, and what it has to do leads it, with these syncs, past writes that are
all on the communicator they are about (`Leads`). Two members of a communicator
have the same number left in the same call, and one that is behind has none left
while the other has had none in its call yet (`Pace`): so the two can only meet
in the same one. `OperationsLeads` says it of a whole call, and `LeadsConcat`,
`LeadsTail` and `LeadsTimes` take lists apart. `Leads` is stated with functions
on positions and not by recursion on the list, and the lemmas need no induction.

`PointStreamOrder` proves `CallOrderTheorem` from the invariant of
`OrderInvariance`, under the same hypothesis. In each call of a loop a rank passes
two milestones, the first sync of the call and the one before its last node.
`Stages` says that the count `left` tells which of them it has passed, so that the
members of a communicator pass each together (`TogetherBegun`; both are in
`PointStreamProofs`). `Later(left,
m, v)` says that `v` comes after call `m`: it is the counter of a member that has
passed the last sync, or of a rank that has passed the first one of a call met
later, or the number of a node of such a call. Counters are in it besides numbers
that are written, because the members of a communicator agree on maximums in
between. `First` says that what is written of a call is numbered before all that is
later, `Passed` that its root's counter has gone past it, and `Closing` that the
counter a last node will take is not after what is later. Along a
list of operations the lemmas climb from one position to the next (`Climb`, by the
least counterexample) instead of by induction over the list.

It also proves `CallWindowTheorem` from the invariant of
`WindowInvariance`, under the same hypothesis. `CallWindow` alone is far from
inductive: it only speaks of nodes that are written. Two more milestones of a call
are needed, the syncs that begin and end its point (`Phases`): before the first
nothing is logged, after the second nothing either. The invariant has a function
`base` that no variable of the model holds: the number the members of the n-th
call agreed on when its point began. `Opens` says that since then no member's
counter is below it, that whoever is about to write a message has a greater one,
because the message's name has taken a number just before (`Loggers`), and that the
root still holds exactly it until it has written the started node. `LogIn`,
`StartedIn` and `EndedIn` say the same of what is in the streams. `SyncWindow` is the
heart: when the members begin a point, `base` is extended with the maximum they agree
on, and nothing of the call is written yet; when they end it, the maximum is
greater than the number of every message, whose roots are all among them.

`StartUpProofs` proves `StartAgrees`, that is `RanksAgree`, for every number of
ranks, any communicators and messages, and any answers of the reader, also when
writes are refused. A step replaces the first operation of a rank's list by at most
five others (`Does`, `Brings`), so the invariant `Agreement` speaks of pairs of
elements of these lists: `InTurn` says what may stand before what, `Handling` what
is in hand while a message is delivered, `Telling` that a rank logs in the order of
the program. `OneDir` then says that a rank that has looked for the
directory holds the configured one, or still takes part in the broadcast, until all
have the root's, and that behind the barrier all have the same. `Answers` says that
every rank has the answers of the root of the world or the first of them.

`StartUpOrder` proves `StartLogsOnce`, that is `LoggedOnce`, under the same
conditions. `OnePlace` holds whatever is refused and needs one rank at a time
(`Places`: saved, to be delivered, being written and written exclude each other)
and that a stream has the messages of its own communicator only (`Streams`).
`ProgramOrder` is claimed as long as nothing is refused. On a rank, what is
written comes before the message in hand, that before what is to be delivered,
and what the queue holds before or after that, as the flush is still to come or
not (`Queued`, `Served`). For the numbers this is not enough: two messages on
different communicators that share a rank have roots that may never talk, so
that the members of a communicator must be shown to agree on a number for the
same message. `Course` says which messages a rank logs while the engine cannot
take them yet, `Abreast` that the members of a communicator pass a message
together, and `SyncCases` concludes that ranks that meet in a sync do it for the
message that waits longest on each of them, or all meet before the options node.
From that `Stamps` follows: the ranks of a message with a number have counters
not before it, and a later message that shares a rank has no smaller one. `Flow`
is the order within a stream.

The assumptions are the named `ASSUME`s of the modules: constants of the right
type, nothing about their size, and for nested applications that what is
configured is registered. Those of `PointStream` are that ranks are a finite set
of numbers, communicators sets of them that are not empty, and the bounds
numbers; `StartUp` adds that its bounds are numbers (`StartUpAssumption`).

Only model-checked: the properties of the algorithms in `library` (several are
recursive, and what a recursive definition computes for every input is out of
the prover's reach), and all liveness (`WorkflowEnds`, `TestsEnd`,
`EveryCallReturns`, `StartUpEnds`), which rests on fairness and is out of its
reach, as are ENABLED and induction over data.

## Not modelled

The language interfaces forward. The template engine is vendored. The AST
matcher, the writer and the cache of the registration tool are Clang and file
input and output. What samplers would answer has no effect in this version. The
Slurm scheduler's status is what `qstat` prints. `Job::cancel` has no caller.
Plugins are loaded by the system, and the registration of a report in `~/.vnv`
is shared with other applications (it is listed as a hazard).

## Plan

1. `InjectionPoints`, `NestedLoops`, `Workflow`, `JobManager`, `PointStream`,
   `Placement`, `UnitTests`, `StartUp` and the algorithms of `library`: done.
2. `PointStream`: points reached from a test; an iteration of an outer loop
   inside an inner one; tests that throw.
3. Proofs: the safety of all state machines is done; the algorithms of `library`
   would need recursive functions or folds instead of recursive operators.
