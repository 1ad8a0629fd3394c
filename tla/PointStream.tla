------------------------------ MODULE PointStream -----------------------------
(***************************************************************************)
(* What the injection points of several ranks write to the output engine   *)
(* (StreamManager of streamtemplate.h): one stream of numbered nodes per   *)
(* communicator, written by the communicator's root.  Every rank numbers   *)
(* its nodes with its own counter `id`; communicators agree on the maximum *)
(* of their members' counters when a point starts and ends.  A reader puts *)
(* the streams together by these numbers.                                  *)
(*                                                                         *)
(* The application is the one the manual asks for: each call is made by    *)
(* all ranks of its communicator, in the same order, and loops nest.  A    *)
(* rank does one operation of the engine at a time; collectives are steps  *)
(* of all members (an MPI gather may let a member go on earlier).  Every   *)
(* point is configured with one test and is not skipped.                   *)
(***************************************************************************)
EXTENDS Integers, Sequences, FiniteSets

CONSTANTS
  Ranks,         \* world ranks, numbers
  Comms,         \* communicators the application uses, as sets of ranks
  MaxCalls,      \* bound: calls of the application before it ends
  MaxLogs,       \* bound: messages a test logs
  WithAction,    \* an action implements the injection point hooks
  LogsToStdout,  \* the logger prints on the captured standard output
  Printers       \* ranks on which the application prints between calls

World == Ranks
AllComms == Comms \cup {World} \cup {{r} : r \in Ranks}

ASSUME RanksAssumption == Ranks \subseteq Nat /\ IsFiniteSet(Ranks) /\ Ranks # {}
ASSUME CommsAssumption == Comms \subseteq (SUBSET Ranks) \ {{}}
ASSUME BoundsAssumption == MaxCalls \in Nat /\ MaxLogs \in Nat

Root(c) == CHOOSE r \in c : \A s \in c : r <= s

VARIABLES
  calls,   \* calls[n]: the n-th call of the application, in program order
  open,    \* open[r]: communicators of rank r's open loops, after all of `calls`
  taken,   \* taken[r]: the last call rank r has entered
  todo,    \* todo[r]: the engine operations rank r has still to do in that call
  comm,    \* comm[r]: the engine's current communicator (StreamManager::comm)
  id,      \* id[r]: the counter (StreamManager::id)
  known,   \* known[r]: StreamManager::commids
  stream,  \* stream[c]: the nodes written for communicator c
  output   \* output[r]: there is captured output to read

app == <<calls, open>>
engine == <<comm, id, known, stream>>
vars == <<calls, open, taken, todo, comm, id, known, stream, output>>

Kinds == {"begin", "iter", "end", "finalize"}
Nodes == {"comminfo", "info", "stdout", "log", "actionStarted", "actionFinished",
          "started", "testStarted", "testFinished", "ended", "final"}

Top(s) == s[Len(s)]
Pop(s) == SubSeq(s, 1, Len(s) - 1)

\* n copies of a sequence, one after the other.
Times(s, n) == [i \in 1 .. (n * Len(s)) |-> s[((i - 1) % Len(s)) + 1]]

-----------------------------------------------------------------------------
(* The operations of the engine a call is made of.                         *)

SetComm(c, sync) == [op |-> "setComm", comm |-> c, sync |-> sync]
Write(node) == [op |-> "write", node |-> node]
LogOn(c) == [op |-> "log", comm |-> c]
Read == [op |-> "read"]
Gather == [op |-> "gather"]
Sync == [op |-> "sync"]
NameLog == [op |-> "name"]
Printed == [op |-> "print"]

\* ActionStore::injectionPointStart, Iter and End.
ActionGroup(c) ==
  IF WithAction
  THEN <<SetComm(c, TRUE), Write("actionStarted"), Write("actionFinished")>>
  ELSE << >>

\* Mutant of PointGroup: the members do not agree on a number at the end.
PointGroupNoSync(c, tests) ==
  <<SetComm(c, TRUE), Write("started")>> \o tests \o <<Write("ended")>>

\* Mutant of PointGroup: they do not agree on one at the start.
PointGroupNoStart(c, tests) ==
  <<SetComm(c, FALSE), Write("started")>> \o tests \o <<Sync, Write("ended")>>

\* injectionPointStartedCallBack, the tests, and injectionPointEndedCallBack,
\* which syncs first: InjectionPoint::run and runChild.
PointGroup(c, tests) ==
  <<SetComm(c, TRUE), Write("started")>> \o tests \o <<Sync, Write("ended")>>

Test(body) == <<Write("testStarted")>> \o body \o <<Write("testFinished")>>

\* What rank r does in the point's callback: it logs on communicator call.logComm.
Body(call, r) ==
  IF r \in call.logComm THEN Times(<<Read, LogOn(call.logComm)>>, call.logs) ELSE << >>

\* The operations of rank r in a call: the hooks of the action, the point with its
\* callback and its test, and the test of every open parent.
Operations(call, r) ==
  <<Read>> \o ActionGroup(call.comm)
    \o PointGroup(call.comm, Test(Body(call, r)) \o Test(<< >>))
    \o Times(PointGroup(call.comm, Test(<< >>)), call.parents)

\* RunTime::configure initializes the action, and opens the initialization loop.
Startup == ActionGroup(World) \o <<Read>> \o ActionGroup(World)

\* RunTime::Finalize: that loop ends, the action is finalized, then the engine.
Shutdown ==
  <<Read>> \o ActionGroup(World) \o ActionGroup(World)
    \o <<Read, SetComm(World, FALSE), Write("final")>>

-----------------------------------------------------------------------------
(* The application.                                                        *)

Idle(r) == todo[r] = << >> /\ \A n \in (taken[r] + 1) .. Len(calls) : r \notin calls[n].comm

\* Open loops of call.comm, other than the one that is called.
Parents(c, others) == Cardinality({i \in 1 .. Len(others) : others[i] = c})

Call(kind, c, d, logs, others) ==
  /\ \E r \in c : Idle(r)
  /\ Len(calls) < MaxCalls
  /\ \A n \in 1 .. Len(calls) : calls[n].kind # "finalize"
  /\ calls' = Append(calls, [kind |-> kind, comm |-> c, logComm |-> d, logs |-> logs,
                             parents |-> Parents(c, others)])
  /\ UNCHANGED <<taken, todo, output>> /\ UNCHANGED engine

\* A loop begins inside the loops its ranks are in.
CallBegin(c, d, logs) ==
  /\ \A r \in c : open[r] # << >> => c \subseteq Top(open[r])
  /\ Call("begin", c, d, logs, open[Root(c)])
  /\ open' = [r \in Ranks |-> IF r \in c THEN Append(open[r], c) ELSE open[r]]

Innermost(c) == \A r \in c : open[r] # << >> /\ Top(open[r]) = c

CallIter(c, d, logs) ==
  /\ Innermost(c)
  /\ Call("iter", c, d, logs, Pop(open[Root(c)]))
  /\ UNCHANGED open

CallEnd(c, d, logs) ==
  /\ Innermost(c)
  /\ Call("end", c, d, logs, Pop(open[Root(c)]))
  /\ open' = [r \in Ranks |-> IF r \in c THEN Pop(open[r]) ELSE open[r]]

CallFinalize ==
  /\ \A r \in Ranks : open[r] = << >>
  /\ Call("finalize", World, {}, 0, << >>)
  /\ UNCHANGED open

Application ==
  \/ \E c \in Comms, d \in Comms, logs \in 0 .. MaxLogs :
       /\ d \subseteq c /\ (logs = 0 => d = c)
       /\ CallBegin(c, d, logs) \/ CallIter(c, d, logs) \/ CallEnd(c, d, logs)
  \/ CallFinalize

\* Rank r enters its next call; the application may have printed before.
Enter(r) ==
  /\ todo[r] = << >>
  /\ \E n \in (taken[r] + 1) .. Len(calls) :
       /\ r \in calls[n].comm
       /\ \A k \in (taken[r] + 1) .. (n - 1) : r \notin calls[k].comm
       /\ taken' = [taken EXCEPT ![r] = n]
       /\ todo' = [todo EXCEPT ![r] = IF calls[n].kind = "finalize" THEN Shutdown
                                      ELSE Operations(calls[n], r)]
  /\ \E printed \in {FALSE, (r \in Printers)} :
       output' = [output EXCEPT ![r] = output[r] \/ printed]
  /\ UNCHANGED app /\ UNCHANGED engine

-----------------------------------------------------------------------------
(* The engine.                                                             *)

Doing(r, op) == todo[r] # << >> /\ todo[r][1].op = op

Head1(r) == todo[r][1]

\* Rank r goes on with `first` instead of the operation it has just done.
Instead(r, first) == todo' = [todo EXCEPT ![r] = first \o Tail(todo[r])]

\* Mutant of Announces: only the root takes part in announcing a communicator.
AnnouncesRoot(r, c) == c \notin known[r] /\ r = Root(c)

\* Mutant of Announces: a communicator is announced only when the ids are synced.
AnnouncesNever(r, c) == FALSE

\* Rank r has not seen communicator c: its members gather their ranks.
Announces(r, c) == c \notin known[r]

DoSetComm(r) ==
  /\ Doing(r, "setComm")
  /\ LET s == Head1(r)
     IN  /\ comm' = [comm EXCEPT ![r] = s.comm]
         /\ Instead(r, (IF Announces(r, s.comm) THEN <<Gather>> ELSE << >>)
                         \o (IF s.sync THEN <<Sync>> ELSE << >>))
  /\ UNCHANGED <<taken, id, known, stream, output>> /\ UNCHANGED app

\* The members of c are all at the collective `op`.
Together(c, op) == \A r \in c : Doing(r, op) /\ comm[r] = c

GoOn(c) == todo' = [r \in Ranks |-> IF r \in c THEN Tail(todo[r]) ELSE todo[r]]

\* getWorldRanks, then newComm on the root.
DoGather(c) ==
  /\ Together(c, "gather")
  /\ GoOn(c)
  /\ known' = [r \in Ranks |-> IF r \in c THEN known[r] \cup {c} ELSE known[r]]
  /\ stream' = [stream EXCEPT ![c] = Append(@, [jid |-> -1, node |-> "comminfo", call |-> taken[Root(c)]])]
  /\ UNCHANGED <<taken, comm, id, output>> /\ UNCHANGED app

\* Mutant of Agreed: the members take the counter of the root.
AgreedRoot(c) == id[Root(c)]

\* AllReduce with MAX.
Agreed(c) == CHOOSE m \in {id[r] : r \in c} : \A r \in c : id[r] <= m

DoSync(c) ==
  /\ Together(c, "sync")
  /\ GoOn(c)
  /\ id' = [r \in Ranks |-> IF r \in c THEN Agreed(c) ELSE id[r]]
  /\ UNCHANGED <<taken, comm, known, stream, output>> /\ UNCHANGED app

\* Only the root of the current communicator writes.
DoWrite(r) ==
  /\ Doing(r, "write")
  /\ Instead(r, << >>)
  /\ IF r = Root(comm[r])
     THEN /\ id' = [id EXCEPT ![r] = id[r] + 1]
          /\ stream' = [stream EXCEPT ![comm[r]] =
                          Append(@, [jid |-> id[r], node |-> Head1(r).node, call |-> taken[r]])]
     ELSE UNCHANGED <<id, stream>>
  /\ UNCHANGED <<taken, comm, known, output>> /\ UNCHANGED app

\* Mutant of LogOperations: the communicator is not put back.
LogOperationsNoRestore(r, c) == <<SetComm(c, TRUE), NameLog, Write("log"), Printed>>

\* StreamManager::Log, and the logger's own line after it.
LogOperations(r, c) ==
  <<SetComm(c, TRUE), NameLog, Write("log"), SetComm(comm[r], FALSE), Printed>>

DoLog(r) ==
  /\ Doing(r, "log")
  /\ Instead(r, LogOperations(r, Head1(r).comm))
  /\ UNCHANGED <<taken, output>> /\ UNCHANGED app /\ UNCHANGED engine

\* The name of a message takes a number of the root's.
DoName(r) ==
  /\ Doing(r, "name")
  /\ Instead(r, << >>)
  /\ id' = IF r = Root(comm[r]) THEN [id EXCEPT ![r] = id[r] + 1] ELSE id
  /\ UNCHANGED <<taken, comm, known, stream, output>> /\ UNCHANGED app

\* Logger::write_to_file prints on rank 0 of the message's communicator.
DoPrint(r) ==
  /\ Doing(r, "print")
  /\ Instead(r, << >>)
  /\ output' = IF LogsToStdout /\ r = Root(calls[taken[r]].logComm)
               THEN [output EXCEPT ![r] = TRUE] ELSE output
  /\ UNCHANGED taken /\ UNCHANGED app /\ UNCHANGED engine

\* RunTime::read_stdout: captured output goes to the stream of the rank itself.
DoRead(r) ==
  /\ Doing(r, "read")
  /\ Instead(r, IF output[r] THEN <<SetComm({r}, FALSE), Write("stdout")>> ELSE << >>)
  /\ output' = [output EXCEPT ![r] = FALSE]
  /\ UNCHANGED taken /\ UNCHANGED app /\ UNCHANGED engine

Step(r) ==
  DoSetComm(r) \/ DoWrite(r) \/ DoLog(r) \/ DoName(r) \/ DoPrint(r) \/ DoRead(r)

Collective(c) == DoGather(c) \/ DoSync(c)

-----------------------------------------------------------------------------
\* After setFromJson and sendInfoNode: the world is known and has its info node;
\* the actions are about to be initialized.
Init ==
  /\ calls = << >>
  /\ open = [r \in Ranks |-> << >>]
  /\ taken = [r \in Ranks |-> 0]
  /\ todo = [r \in Ranks |-> Startup]
  /\ comm = [r \in Ranks |-> World]
  /\ id = [r \in Ranks |-> IF r = Root(World) THEN 1 ELSE 0]
  /\ known = [r \in Ranks |-> {World}]
  /\ stream = [c \in AllComms |->
                 IF c = World
                 THEN <<[jid |-> -1, node |-> "comminfo", call |-> 0], [jid |-> 0, node |-> "info", call |-> 0]>>
                 ELSE << >>]
  /\ output = [r \in Ranks |-> FALSE]

Next ==
  \/ Application
  \/ \E r \in Ranks : Enter(r) \/ Step(r)
  \/ \E c \in AllComms : Collective(c)

Spec == Init /\ [][Next]_vars

\* Every rank goes on, and so does a collective all of its members have reached.
\* The application may stop calling.
Fairness ==
  /\ \A r \in Ranks : WF_vars(Enter(r) \/ Step(r))
  /\ \A c \in AllComms : WF_vars(Collective(c))

FairSpec == Spec /\ Fairness

-----------------------------------------------------------------------------
Node == [jid : Nat \cup {-1}, node : Nodes, call : Nat]

\* Type correctness; a stream that has been written starts with its comminfo node.
TypeOK ==
  /\ \A n \in 1 .. Len(calls) : calls[n].kind \in Kinds /\ calls[n].comm \in AllComms
  /\ open \in [Ranks -> Seq(AllComms)]
  /\ taken \in [Ranks -> 0 .. Len(calls)]
  /\ comm \in [Ranks -> AllComms] /\ \A r \in Ranks : r \in comm[r]
  /\ id \in [Ranks -> Nat]
  /\ known \in [Ranks -> SUBSET AllComms]
  /\ stream \in [AllComms -> Seq(Node)]
  /\ \A c \in AllComms : \A i \in 1 .. Len(stream[c]) : stream[c][i].node = "comminfo" <=> i = 1
  /\ output \in [Ranks -> BOOLEAN]

\* The communicator a node is about.
OwnComm(node, n) ==
  IF n = 0 THEN World ELSE IF node = "log" THEN calls[n].logComm ELSE calls[n].comm

\* Every node of a call is in the stream of the communicator it is about: the
\* test and point nodes follow the communicator of the point across the
\* messages that are logged in between.
InOwnStream ==
  \A c \in AllComms : \A i \in 1 .. Len(stream[c]) :
    stream[c][i].node \notin {"comminfo", "info", "stdout"} =>
      c = OwnComm(stream[c][i].node, stream[c][i].call)

\* Ranks that are together in a collective are in it for the same call.
InStep ==
  \A c \in AllComms : \A r, s \in c :
    /\ Doing(r, "gather") \/ Doing(r, "sync")
    /\ Doing(s, "gather") \/ Doing(s, "sync")
    /\ comm[r] = c /\ comm[s] = c
    => taken[r] = taken[s] /\ Head1(r) = Head1(s)

\* Numbered nodes of a call: all but the comminfo, info and stdout nodes.
Numbered(c) == {i \in 1 .. Len(stream[c]) : stream[c][i].node \notin {"comminfo", "info", "stdout"}}

\* When a rank takes part in two calls, everything the first call wrote, on
\* whatever communicator, has smaller numbers than what the second one writes,
\* except that the last node of a point may share its number.
CallOrder ==
  \A c, d \in AllComms : \A i \in Numbered(c), k \in Numbered(d) :
    LET x == stream[c][i]
        y == stream[d][k]
    IN  /\ 0 < x.call /\ x.call < y.call /\ calls[y.call].kind # "finalize"
        /\ calls[x.call].comm \cap calls[y.call].comm # {}
        => x.jid < y.jid \/ (x.jid = y.jid /\ x.node = "ended")

\* A message is numbered inside the call it was logged in: after the first
\* started node of the call's point, and before any of its ended nodes.
CallWindow ==
  \A c, d \in AllComms : \A i \in Numbered(c), k \in Numbered(d) :
    LET x == stream[c][i]
        y == stream[d][k]
        first == \A h \in Numbered(d) : h < k /\ stream[d][h].call = y.call => stream[d][h].node # "started"
    IN  x.call = y.call /\ x.node = "log"
          => /\ (y.node = "started" /\ first => y.jid < x.jid)
             /\ (y.node = "ended" => x.jid < y.jid)

\* Every call a rank has entered returns, and it enters every call it is part of.
EveryCallReturns == \A r \in Ranks : []<>Idle(r)
=============================================================================
