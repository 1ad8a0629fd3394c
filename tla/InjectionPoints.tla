-------------------------- MODULE InjectionPoints --------------------------
(***************************************************************************)
(* The injection point runtime of one process: the stack of open points    *)
(* (InjectionPointStore::active), the communicator stack each action keeps *)
(* (IAction::commStack) and the calls an application makes on them through *)
(* the INJECTION_LOOP_BEGIN / _ITER / _END macros.  The application is     *)
(* arbitrary: it may end points in the wrong order, iterate points it      *)
(* never began, or use points the input file does not configure.           *)
(*                                                                         *)
(* A call is one step.  The tests of a point run inside the step: `ran`    *)
(* records whose tests ran.  Calls a test makes back into the runtime, and *)
(* the nodes written to the output engine, are the subject of PointStream. *)
(***************************************************************************)
EXTENDS Integers, Sequences, FiniteSets

CONSTANTS
  Keys,        \* injection points, as package:name
  Configured,  \* points the input file names (InjectionPointStore::injectionPoints)
  Matched,     \* points registered with a parameter set for the calling function
  WithSampler, \* points that have a sampler
  Comms,       \* communicators, by unique id
  Actions,     \* actions that implement the injection point hooks
  World,       \* the world communicator
  InitKey,     \* VNV:initialization, the loop from Init to Finalize
  Null,        \* the null shared_ptr<InjectionPoint>
  MaxDepth,    \* bound: points open at once
  MaxLeaks     \* bound: action handlers that throw, per action

Point == [key : Keys, comm : Comms, stage : {"Begin", "Iter"}, skipped : BOOLEAN]

ASSUME KeysAssumption  == InitKey \in Keys /\ Configured \subseteq Keys
ASSUME CommsAssumption == World \in Comms
ASSUME NullAssumption  == Null \notin Point

VARIABLES
  phase,      \* "created", "running" (between Init and Finalize), "finalized"
  active,     \* open configured points, outermost first
  commStack,  \* commStack[a]: the communicators pushed on action a
  leaked,     \* history: how many handlers of a threw and skipped popComm
  ran,        \* history: what the last call ran
  outcome,    \* how the last call ended
  proper      \* history: every call since Init was of a point configured and registered

vars == <<phase, active, commStack, leaked, ran, outcome, proper>>

\* A call of point k.
Calls(k) == proper' = (proper /\ k \in Configured \cap Matched)

-----------------------------------------------------------------------------
Top(s) == s[Len(s)]
Pop(s) == SubSeq(s, 1, Len(s) - 1)

Nothing == [pos |-> 0, comm |-> World, parents |-> {}]

\* An action without a communicator: getComm() and popComm() on an empty stack.
Underflow == \E a \in Actions : commStack[a] = << >>

\* A null entry strictly below position p of the stack.
NullBelow(p) == \E q \in 1 .. (p - 1) : active[q] = Null

\* Mutant of GetParents: the communicators are not compared.
GetParentsAnyComm(p, c) == {q \in 1 .. (p - 1) : ~active[q].skipped}

\* Open points other than the p-th that run a child iteration when the p-th runs.
GetParents(p, c) ==
  {q \in 1 .. (p - 1) : ~active[q].skipped /\ active[q].comm = c}

Matches(k) == {p \in 1 .. Len(active) : active[p] # Null /\ active[p].key = k}

\* Mutant of IsFetched: the stack is scanned from the outermost point.
IsFetchedOutermost(k, p) == p \in Matches(k) /\ \A q \in Matches(k) : p <= q

\* The point an iteration of k fetches: the innermost with that key.
IsFetched(k, p) == p \in Matches(k) /\ \A q \in Matches(k) : q <= p

\* The entries an iteration of k looks at: from the top to the first match.
Scanned(k) == {q \in 1 .. Len(active) : \A p \in Matches(k) : p <= q}

\* Mutant of NewPoint: the point forgets that it was skipped.
NewPointNeverSkipped(k, c, sampled) == [key |-> k, comm |-> c, stage |-> "Begin", skipped |-> FALSE]

\* The object on the stack once its beginning has run, or has been skipped.
NewPoint(k, c, sampled) == [key |-> k, comm |-> c, stage |-> "Begin", skipped |-> ~sampled]

\* Mutant of IterType: an iteration is typed as the end of its point.
IterTypeEnd == "End"

\* The type an iteration leaves on its point.
IterType == "Iter"

\* What a sampler may answer.
Samples(k) == IF k \in WithSampler THEN BOOLEAN ELSE {TRUE}

-----------------------------------------------------------------------------
(* The three hooks of the action store.  A handler that throws at the end  *)
(* of a point is caught before popComm; one that throws at the beginning   *)
(* is caught after setComm, so that it makes no difference here.           *)

\* Mutant of InjectionPointStart: the world is pushed, as ActionStore::initialize does.
InjectionPointStartWorld(c) ==
  /\ commStack' = [a \in Actions |-> Append(commStack[a], World)]
  /\ UNCHANGED leaked

InjectionPointStart(c) ==
  /\ commStack' = [a \in Actions |-> Append(commStack[a], c)]
  /\ UNCHANGED leaked

\* Mutant of InjectionPointEnd: a handler that throws is popped for once more.
InjectionPointEndTwice(threw) ==
  /\ \A a \in threw : leaked[a] < MaxLeaks
  /\ commStack' = [a \in Actions |-> IF a \in threw THEN Pop(Pop(commStack[a])) ELSE Pop(commStack[a])]
  /\ leaked' = [a \in Actions |-> IF a \in threw THEN leaked[a] + 1 ELSE leaked[a]]

InjectionPointEnd(threw) ==
  /\ \A a \in threw : leaked[a] < MaxLeaks
  /\ commStack' = [a \in Actions |-> IF a \in threw THEN commStack[a] ELSE Pop(commStack[a])]
  /\ leaked' = [a \in Actions |-> IF a \in threw THEN leaked[a] + 1 ELSE leaked[a]]

-----------------------------------------------------------------------------
Init ==
  /\ phase = "created"
  /\ active = << >>
  /\ commStack = [a \in Actions |-> << >>]
  /\ leaked = [a \in Actions |-> 0]
  /\ ran = Nothing
  /\ outcome = "ok"
  /\ proper = TRUE

\* ActionStore::initialize: push the world, call the handler, pop; no pop when it throws.
Initialize(threw) ==
  /\ phase # "running"
  /\ phase' = "running"
  /\ threw # {} => MaxLeaks > 0
  /\ commStack' = [a \in Actions |-> IF a \in threw THEN <<World>> ELSE << >>]
  /\ leaked' = [a \in Actions |-> IF a \in threw THEN 1 ELSE 0]
  /\ ran' = Nothing
  /\ outcome' = "ok"
  /\ proper' = TRUE
  /\ UNCHANGED active

Running == phase = "running" /\ outcome # "undefined" /\ UNCHANGED phase

\* A null pointer is dereferenced, or an empty std::stack is read.
Undefined == Running /\ outcome' = "undefined" /\ UNCHANGED <<active, commStack, leaked, ran>>

\* Mutant of Rejected: the actions hear of the call before the store refuses it.
RejectedAfterActions(why) ==
  /\ Running /\ ~Underflow
  /\ outcome' = why
  /\ commStack' = [a \in Actions |-> Pop(commStack[a])]
  /\ ran' = Nothing
  /\ UNCHANGED <<active, leaked>>

\* The call throws before it has changed anything.
Rejected(why) == Running /\ outcome' = why /\ UNCHANGED <<active, commStack, leaked>> /\ ran' = Nothing

Done == Running /\ outcome' = "ok"

Room == Len(active) < MaxDepth /\ \A a \in Actions : Len(commStack[a]) < MaxDepth + MaxLeaks

\* newInjectionPoint finds no parameter set: nullptr goes on the stack.
BeginUnmatched(k, c) ==
  /\ Done /\ Room
  /\ k \in Configured \ Matched
  /\ InjectionPointStart(c)
  /\ active' = Append(active, Null)
  /\ ran' = Nothing

\* Mutant of BeginUnconfigured: the actions do not hear of points that are not configured.
BeginUnconfiguredSilent(k, c) ==
  /\ Done /\ Room
  /\ k \notin Configured
  /\ ran' = Nothing
  /\ UNCHANGED <<active, commStack, leaked>>

BeginUnconfigured(k, c) ==
  /\ Done /\ Room
  /\ k \notin Configured
  /\ InjectionPointStart(c)
  /\ ran' = Nothing
  /\ UNCHANGED active

BeginMatched(k, c, sampled) ==
  /\ Done /\ Room
  /\ k \in Configured \cap Matched
  /\ sampled \in Samples(k)
  /\ sampled => ~NullBelow(Len(active) + 1)
  /\ InjectionPointStart(c)
  /\ active' = Append(active, NewPoint(k, c, sampled))
  /\ ran' = IF sampled
            THEN [pos |-> Len(active) + 1, comm |-> c, parents |-> GetParents(Len(active) + 1, c)]
            ELSE Nothing

BeginUndefined(k) ==
  /\ Undefined /\ Room
  /\ k \in Configured \cap Matched
  /\ NullBelow(Len(active) + 1)

Begin(k, c) ==
  /\ Calls(k)
  /\ \/ BeginUnmatched(k, c)
     \/ BeginUnconfigured(k, c)
     \/ \E sampled \in BOOLEAN : BeginMatched(k, c, sampled)
     \/ BeginUndefined(k)

-----------------------------------------------------------------------------
IterRejected(k) ==
  /\ k \in Configured /\ active = << >>
  /\ Rejected("bug report")

IterUndefined(k) ==
  /\ Undefined
  /\ \/ k \notin Configured /\ Underflow
     \/ /\ k \in Configured /\ active # << >>
        /\ \/ Underflow
           \/ \E q \in Scanned(k) : active[q] = Null
           \/ \E p \in Matches(k) : IsFetched(k, p) /\ ~active[p].skipped /\ NullBelow(p)

\* The actions iterate although no point does.
IterNobody(k) ==
  /\ Done /\ ~Underflow
  /\ \/ k \notin Configured
     \/ /\ active # << >> /\ Matches(k) = {}
        /\ \A q \in Scanned(k) : active[q] # Null
  /\ ran' = Nothing
  /\ UNCHANGED <<active, commStack, leaked>>

IterPoint(k, p, sampled) ==
  /\ Done /\ ~Underflow
  /\ k \in Configured /\ IsFetched(k, p)
  /\ \A q \in Scanned(k) : active[q] # Null
  /\ sampled \in Samples(k)
  /\ LET runIt == sampled /\ ~active[p].skipped
     IN  /\ runIt => ~NullBelow(p)
         /\ ran' = IF runIt
                   THEN [pos |-> p, comm |-> active[p].comm, parents |-> GetParents(p, active[p].comm)]
                   ELSE Nothing
  /\ active' = [active EXCEPT ![p].stage = IterType]
  /\ UNCHANGED <<commStack, leaked>>

Iter(k) ==
  /\ Calls(k)
  /\ \/ IterRejected(k)
     \/ IterUndefined(k)
     \/ IterNobody(k)
     \/ \E p \in Matches(k), sampled \in BOOLEAN : IterPoint(k, p, sampled)

-----------------------------------------------------------------------------
\* The store looks at the innermost point only, and before the actions see the end.
Mismatch(k) == active # << >> /\ Top(active) # Null /\ Top(active).key # k

EndRejected(k) ==
  /\ k \in Configured
  /\ \/ active = << >> /\ Rejected("bug report")
     \/ Mismatch(k) /\ Rejected("nesting error")

EndIsUndefined(k) ==
  \/ k \notin Configured /\ Underflow
  \/ /\ k \in Configured /\ active # << >>
     /\ \/ Top(active) = Null
        \/ /\ ~Mismatch(k)
           /\ Underflow \/ (~Top(active).skipped /\ NullBelow(Len(active)))

EndUndefined(k) == Undefined /\ EndIsUndefined(k)

EndUnconfigured(k, threw) ==
  /\ Done
  /\ k \notin Configured /\ ~EndIsUndefined(k)
  /\ InjectionPointEnd(threw)
  /\ ran' = Nothing
  /\ UNCHANGED active

\* Mutant of EndRan: the end runs whether or not the beginning was skipped.
EndRanAlways ==
  [pos |-> Len(active), comm |-> Top(active).comm,
   parents |-> GetParents(Len(active), Top(active).comm)]

\* An end does not ask the sampler.
EndRan ==
  LET p == Len(active)
  IN  IF Top(active).skipped THEN Nothing
      ELSE [pos |-> p, comm |-> Top(active).comm, parents |-> GetParents(p, Top(active).comm)]

\* Mutant of EndPoint: the point stays on the stack.
EndPointKeeps(k, threw) ==
  /\ Done
  /\ k \in Configured /\ active # << >> /\ ~Mismatch(k) /\ ~EndIsUndefined(k)
  /\ InjectionPointEnd(threw)
  /\ ran' = EndRan
  /\ UNCHANGED active

EndPoint(k, threw) ==
  /\ Done
  /\ k \in Configured /\ active # << >> /\ ~Mismatch(k) /\ ~EndIsUndefined(k)
  /\ InjectionPointEnd(threw)
  /\ active' = Pop(active)
  /\ ran' = EndRan

End(k, threw) ==
  /\ Calls(k)
  /\ \/ EndRejected(k) /\ threw = {}
     \/ EndUndefined(k) /\ threw = {}
     \/ EndUnconfigured(k, threw)
     \/ EndPoint(k, threw)

-----------------------------------------------------------------------------
\* RunTime::Finalize ends the initialization loop, whatever else is open, and
\* clears every store.  An error of that end is logged and ignored.
Finalize ==
  /\ phase = "running" /\ outcome # "undefined"
  /\ ~EndIsUndefined(InitKey)
  /\ phase' = "finalized"
  /\ active' = << >>
  /\ commStack' = [a \in Actions |-> << >>]
  /\ leaked' = [a \in Actions |-> 0]
  /\ UNCHANGED proper
  /\ \/ /\ InitKey \notin Configured
        /\ outcome' = "ok" /\ ran' = Nothing
     \/ /\ InitKey \in Configured /\ active = << >>
        /\ outcome' = "bug report" /\ ran' = Nothing
     \/ /\ InitKey \in Configured /\ Mismatch(InitKey)
        /\ outcome' = "nesting error" /\ ran' = Nothing
     \/ /\ InitKey \in Configured /\ active # << >> /\ ~Mismatch(InitKey)
        /\ outcome' = "ok" /\ ran' = EndRan

Next ==
  \/ \E threw \in SUBSET Actions : Initialize(threw)
  \/ \E k \in Keys, c \in Comms : Begin(k, c)
  \/ \E k \in Keys : Iter(k)
  \/ \E k \in Keys, threw \in SUBSET Actions : End(k, threw)
  \/ Finalize

Spec == Init /\ [][Next]_vars

-----------------------------------------------------------------------------
Outcomes == {"ok", "nesting error", "bug report", "undefined"}

\* Type correctness of the runtime's state.  `leaked` is bounded by MaxLeaks.
TypeOK ==
  /\ phase \in {"created", "running", "finalized"}
  /\ active \in Seq(Point \cup {Null})
  /\ commStack \in [Actions -> Seq(Comms)]
  /\ leaked \in [Actions -> Nat]
  /\ ran \in [pos : Nat, comm : Comms, parents : SUBSET (Nat \ {0})]
  /\ outcome \in Outcomes
  /\ proper \in BOOLEAN

\* As long as the application has called only points that are configured and
\* registered, the communicators an action holds are those of the open points, one
\* for one and in order, unless one of its handlers threw: however badly the
\* application nests its calls, the two stacks move together
\* (RunTime::getExistingInjectionPoint asks the injection point store, which may
\* refuse, before it tells the actions).
Lockstep ==
  proper =>
    \A a \in Actions :
      /\ Len(commStack[a]) = Len(active) + leaked[a]
      /\ leaked[a] = 0 => \A p \in 1 .. Len(active) : commStack[a][p] = active[p].comm

\* Nor can it have reached undefined behaviour: no null entry is ever
\* dereferenced, and no action's empty communicator stack is read or popped.
Defined == proper => outcome # "undefined"

\* A strictly increasing choice of positions of t.
Positions(s, t) ==
  {f \in [1 .. Len(s) -> 1 .. Len(t)] : \A p, q \in 1 .. Len(s) : p < q => f[p] < f[q]}

\* The communicators of the points are among those of the stack, in order.
Kept(points, stack) ==
  \E f \in Positions(points, stack) : \A p \in 1 .. Len(points) : stack[f[p]] = points[p].comm

\* Nor is a communicator lost to handlers that throw.  A handler that throws leaves
\* the communicator of a loop that has ended on its action's stack (popComm is
\* skipped), and later ends pop that one in place of their own; yet as long as only
\* configured and registered points are called, however badly they are nested, each
\* action keeps the communicators of all the open points, in their order, with what
\* was left behind somewhere among them.
OpenCommsKept == proper => \A a \in Actions : Kept(active, commStack[a])

\* What "Not nullptr because we checked above" (InjectionPointStore.cpp:140)
\* says of a point that is pushed on the stack of open points.
NeverNull == \A p \in 1 .. Len(active) : active[p] # Null

\* The inductive invariant behind Lockstep, OpenCommsKept and Defined.
LockstepInv ==
  /\ TypeOK /\ Lockstep /\ OpenCommsKept /\ Defined
  /\ proper => NeverNull
  /\ phase # "running" => active = << >>
=============================================================================
