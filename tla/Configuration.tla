---------------------------- MODULE Configuration ----------------------------
(***************************************************************************)
(* From the input file, the command line and the environment to what the   *)
(* run time is going to do: JsonParser, the part of RunTime that fills the *)
(* stores from its result, and the checks of the stores.                   *)
(*                                                                         *)
(* The input file is a record of the sections it has, a section of named   *)
(* things a function of their keys (package:name); the options and the     *)
(* configurations of samplers are JSON values.  A registry `reg` holds     *)
(* what the packages registered: `points`, for `tests` and `actions` a     *)
(* function of the key to the configurations the registered schema         *)
(* accepts, for `options` and `samplers` to the schema.                    *)
(***************************************************************************)
EXTENDS Integers, Sequences, FiniteSets, SequencesExt, FiniteSetsExt, JsonValidator

\* Member k of a JSON object, or what stands for it when it is missing.
Value(json, k, default) == IF k \in DOMAIN json THEN json[k] ELSE default

\* The keys of a JSON object in their order.
Items(json) == SetToSeq(DOMAIN json)

-----------------------------------------------------------------------------
(* JsonParser.                                                             *)

\* Mutant of InScope: every scope has to be selected.
InAllScopes(x, runScopes) == runScopes # {} => Value(x, "runScope", {"none"}) \subseteq runScopes

InScope(x, runScopes) == runScopes # {} => Value(x, "runScope", {}) \cap runScopes # {}

\* The tests of a section, each with its key.
AddTests(tests, runScopes, configs) ==
  LET AddTest(t) == [key |-> t, test |-> tests[t]]
  IN  configs \o SelectSeq([i \in DOMAIN Items(tests) |-> AddTest(Items(tests)[i])],
                           LAMBDA t : InScope(t.test, runScopes))

\* No sampler has an empty name.
NoSampler == [name |-> "", config |-> {}]

PointInfo(ip, runScopes) ==
  [tests |-> AddTests(Value(ip, "tests", << >>), runScopes, << >>),
   sampler |-> Value(ip, "sampler", NoSampler),
   runInternal |-> Value(ip, "runInternal", TRUE)]

\* A point that is there already gets the tests and the sampler only.
AddInjectionPoint(ips, key, ip, runScopes) ==
  LET info == PointInfo(ip, runScopes)
  IN  IF ~InScope(ip, runScopes) THEN ips
      ELSE IF key \in DOMAIN ips
           THEN [ips EXCEPT ![key].tests = AddTests(Value(ip, "tests", << >>), runScopes, @),
                            ![key].sampler = Value(ip, "sampler", @)]
      ELSE IF info.tests # << >> \/ info.runInternal THEN (key :> info) @@ ips
      ELSE ips

Special == {"runAll", "runAll_tests"}

AddInjectionPoints(section, runScopes) ==
  [runAll |-> Value(section, "runAll", FALSE),
   runAll_tests |-> AddTests(Value(section, "runAll_tests", << >>), runScopes, << >>),
   injectionPoints |->
     FoldSet(LAMBDA k, ips : AddInjectionPoint(ips, k, section[k], runScopes), << >>, DOMAIN section \ Special)]

LogTypes == {"stdout", "stderr", "file"}

GetLoggerInfo(logging) ==
  IF ~Value(logging, "on", TRUE) THEN [on |-> FALSE]
  ELSE LET type == Value(logging, "type", "stdout")
       IN  [on |-> TRUE, engine |-> Value(logging, "engine", TRUE), type |-> IF type \in LogTypes THEN type ELSE "none",
            logs |-> Value(logging, "logs", << >>), blackList |-> Value(logging, "blackList", {})]

GetUnitTestInfo(section) ==
  [run |-> Value(section, "runUnitTests", FALSE),
   config |-> IF "runUnitTests" \in DOMAIN section THEN Value(section, "config", << >>) ELSE << >>,
   exitAfter |-> Value(section, "exitAfter", FALSE)]

GetActionInfo(actions) == [i \in DOMAIN Items(actions) |-> [key |-> Items(actions)[i], config |-> actions[Items(actions)[i]]]]

GetWorkflowInfo(section) ==
  [run |-> Value(section, "run", TRUE), quit |-> Value(section, "quit", TRUE),
   workflows |-> [k \in DOMAIN section \ {"run", "quit"} |-> section[k]]]

\* An argument has a text; --vnv-option also the `option` it is, --vnv/pointer=value also
\* `pointer`, `value` and the first five characters `start` of the value.  The pointer the
\* code reads goes past the equals sign.
OverridePointer(arg) == arg.pointer \o "=" \o arg.start

UpdateFileWithCommandLineOverrides(main, args) ==
  FoldLeft(LAMBDA file, arg : IF "pointer" \in DOMAIN arg /\ OverridePointer(arg) \in DOMAIN file
                              THEN [file EXCEPT ![OverridePointer(arg)] = arg.value] ELSE file, main, args)

\* Options are looked for at every place; the next argument is the value, whatever it is.
CommandLineParser(args) ==
  LET options == {i \in DOMAIN args : "option" \in DOMAIN args[i]}
      last(o) == Max({i \in options : args[i].option = o})
  IN  [o \in {args[i].option : i \in options} |-> IF last(o) = Len(args) THEN "" ELSE args[last(o) + 1].text]

\* The plug-ins of the command line are read one after the other: two arguments each.
RECURSIVE AddCommandLinePlugins(_, _, _)
AddCommandLinePlugins(args, i, plugins) ==
  IF i > Len(args) THEN [plugins |-> plugins, thrown |-> FALSE]
  ELSE IF "option" \notin DOMAIN args[i] \/ args[i].option # "plugin" THEN AddCommandLinePlugins(args, i + 1, plugins)
  ELSE IF i + 2 > Len(args) THEN [plugins |-> plugins, thrown |-> TRUE]
  ELSE AddCommandLinePlugins(args, i + 3, (args[i + 1].text :> args[i + 2].text) @@ plugins)

Parse(file, args) ==
  LET main == UpdateFileWithCommandLineOverrides(file, args)
      plugins == AddCommandLinePlugins(args, 1, Value(main, "additionalPlugins", << >>))
      points == AddInjectionPoints(Value(main, "injectionPoints", << >>), Value(main, "runScopes", {}))
  IN  [logInfo |-> GetLoggerInfo(Value(main, "logging", << >>)),
       pluginConfig |-> Value(main, "options", [t |-> "object", v |-> << >>]),
       cmdline |-> CommandLineParser(args),
       runTests |-> Value(main, "runTests", FALSE),
       engineInfo |-> Value(main, "outputEngine", "stdout"),
       unitTestInfo |-> GetUnitTestInfo(Value(main, "unit-testing", << >>)),
       actionInfo |-> GetActionInfo(Value(main, "actions", << >>)),
       additionalPlugins |-> plugins.plugins,
       workflowInfo |-> IF "workflows" \in DOMAIN main THEN GetWorkflowInfo(main["workflows"])
                        ELSE [run |-> FALSE, quit |-> FALSE, workflows |-> << >>],
       points |-> points, thrown |-> plugins.thrown]

-----------------------------------------------------------------------------
(* The stores.                                                             *)

\* A test nobody registered, or with a configuration its schema refuses, is left out.
ValidateTests(configs, reg) ==
  SelectSeq(configs, LAMBDA t : t.key \in DOMAIN reg.tests /\ Value(t.test, "config", "empty") \in reg.tests[t.key])

\* The schema of a sampler is handed to the validator as the text it was registered as,
\* which is no schema: nothing is accepted.
CreateSampler(sampler, reg) ==
  sampler.name \in DOMAIN reg.samplers /\ ValidateSchema(sampler.config, [json |-> reg.samplers[sampler.name]]) = "valid"

\* A point whose sampler could not be made is added all the same, and has none.
LoadPoint(info, reg) ==
  [tests |-> ValidateTests(info.tests, reg), runInternal |-> info.runInternal,
   sampler |-> IF info.sampler.name # "" /\ CreateSampler(info.sampler, reg) THEN info.sampler.name ELSE ""]

RunAll(points, tests, reg) ==
  [k \in DOMAIN points \cup reg.points |->
     IF k \in DOMAIN points THEN points[k] ELSE [tests |-> tests, runInternal |-> TRUE, sampler |-> ""]]

\* Every registered package is given the options section as a whole, not what the section
\* has under its name.
OptionsThrow(options, reg) ==
  \E p \in DOMAIN reg.options :
    LET r == SetRootSchema(reg.options[p])
    IN  ~r.ok \/ ~Validate(r, RootUri, options)

AddActions(actions, reg) == SelectSeq(actions, LAMBDA a : a.key \in DOMAIN reg.actions /\ a.config \in reg.actions[a.key])

NothingLoaded == [points |-> << >>, actions |-> << >>]

\* Every point of the input file is made before the rest is added.
LoadPoints(points, reg) == [k \in DOMAIN points |-> LoadPoint(points[k], reg)]

AllPoints(points, declared, reg) ==
  IF points.runAll THEN RunAll(declared, ValidateTests(points.runAll_tests, reg), reg) ELSE declared

\* What the stores hold after loadRunInfo, as far as it gets.
LoadRunInfo(info, reg) ==
  IF OptionsThrow(info.pluginConfig, reg) THEN NothingLoaded @@ [thrown |-> TRUE]
  ELSE [points |-> AllPoints(info.points, LoadPoints(info.points.injectionPoints, reg), reg),
        actions |-> AddActions(info.actionInfo, reg), thrown |-> FALSE]

RunTests(info, env) == info.runTests \/ "on" \in DOMAIN info.cmdline \/ env = "1"

\* status: 0, or what makes Init stop: 1 after unit tests, 2 when something was thrown.
Loaded(loaded, unitTests) ==
  [runTests |-> TRUE, points |-> loaded.points, actions |-> loaded.actions,
   status |-> IF loaded.thrown THEN 2 ELSE IF unitTests.run /\ unitTests.exitAfter THEN 1 ELSE 0]

\* runTests stays as it is whatever the status.
Configure(info, env, reg) ==
  IF RunTests(info, env) THEN Loaded(LoadRunInfo(info, reg), info.unitTestInfo)
  ELSE [runTests |-> FALSE, points |-> << >>, actions |-> << >>, status |-> 0]

\* The input file the environment names, or one of three words; a file that cannot be
\* read turns everything off.
InitFromFile(name, files) ==
  CASE name = "on" -> [runTests |-> TRUE]
    [] name = "all" -> [runTests |-> TRUE, injectionPoints |-> [runAll |-> TRUE]]
    [] name \notin {"", "off", "on", "all"} /\ name \in DOMAIN files -> files[name]
    [] OTHER -> [runTests |-> FALSE]
=============================================================================
