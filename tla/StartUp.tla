------------------------------- MODULE StartUp -------------------------------
(***************************************************************************)
(* The start of the run time on all ranks, from the first message the      *)
(* application logs to the info node of the report: RunTime::loadRunInfo   *)
(* with the logger, the output directory (FileStream::initialize), the     *)
(* options of a package, and the questions its callback asks the reader    *)
(* (StreamManager::Fetch).  The operations of the engine and their         *)
(* collectives are those of PointStream; `calls` are the messages in the   *)
(* order of the program, and `taken` is the message or question in hand.   *)
(* No other application makes directories while this one starts.           *)
(***************************************************************************)
EXTENDS PointStream

CONSTANTS
  MaxDirs,       \* bound: directories there may be already
  MaxQuestions,  \* bound: questions of the options callback; MaxCalls bounds them and the messages
  MaxRefusals    \* bound: writes of messages that fail

ASSUME StartUpAssumption == MaxDirs \in Nat /\ MaxQuestions \in Nat

VARIABLES
  mode,      \* logging: "engine", "print" (with "engine": false) or "off"
  locked,    \* locked[r]: Logger::locked
  ready,     \* ready[r]: OutputEngineStore::initialized
  saved,     \* saved[r]: Logger::savedLogs
  told,      \* told[r]: the messages rank r has logged (history)
  printed,   \* printed[r]: the messages written by write_to_file
  refused,   \* writes of messages that have failed
  dirs,      \* directories there are: 0 is the configured name, k the name followed by k
  dir,       \* dir[r]: the directory rank r writes to, FileStream::filestub
  answers,   \* response files the reader has written
  answer     \* answer[r]: for every question, the answer it got or -1

logger == <<mode, locked, saved, told, printed, refused>>
files == <<ready, dirs, dir>>
reader == <<answers, answer>>
svars == <<vars, logger, files, reader>>

Op(name) == [op |-> name]
Say(n) == [op |-> "say", msg |-> n]
Deliver(n) == [op |-> "deliver", msg |-> n]

-----------------------------------------------------------------------------
(* The logger.                                                             *)

\* Mutant of LogWithSaved: the new message goes first.
LogWithSavedAfter(n) == <<Deliver(n), Op("flush")>>

LogWithSaved(n) == <<Op("flush"), Deliver(n)>>

\* Logger::log: nothing is written before the logger and, if it is used, the engine are set.
DoSay(r) ==
  /\ Doing(r, "say")
  /\ told' = [told EXCEPT ![r] = @ \cup {Head1(r).msg}]
  /\ IF ~locked[r] \/ (mode = "engine" /\ ~ready[r])
     THEN /\ saved' = [saved EXCEPT ![r] = Append(@, Head1(r).msg)]
          /\ Instead(r, << >>)
     ELSE /\ Instead(r, LogWithSaved(Head1(r).msg))
          /\ UNCHANGED saved
  /\ UNCHANGED <<taken, output, mode, locked, printed, refused>>
  /\ UNCHANGED app /\ UNCHANGED engine /\ UNCHANGED files /\ UNCHANGED reader

\* While there are saved messages the first is logged, and then the first is dropped.
DoFlush(r) ==
  /\ Doing(r, "flush")
  /\ Instead(r, IF saved[r] = << >> THEN << >> ELSE <<Deliver(Head(saved[r])), Op("pop"), Op("flush")>>)
  /\ UNCHANGED <<taken, output>>
  /\ UNCHANGED app /\ UNCHANGED engine /\ UNCHANGED logger /\ UNCHANGED files /\ UNCHANGED reader

DoPop(r) ==
  /\ Doing(r, "pop")
  /\ Instead(r, << >>)
  /\ saved' = [saved EXCEPT ![r] = Tail(@)]
  /\ UNCHANGED <<taken, output, mode, locked, told, printed, refused>>
  /\ UNCHANGED app /\ UNCHANGED engine /\ UNCHANGED files /\ UNCHANGED reader

\* A message of a package on the black list goes nowhere; the others go to the engine
\* (StreamManager::Log) and to the file.
DoDeliver(r) ==
  /\ Doing(r, "deliver")
  /\ LET n == Head1(r).msg
     IN  /\ taken' = [taken EXCEPT ![r] = n]
         /\ Instead(r, IF calls[n].black THEN << >>
                       ELSE IF mode = "engine"
                       THEN <<SetComm(calls[n].comm, TRUE), NameLog, Op("writeLog"), SetComm(comm[r], FALSE), Op("line")>>
                       ELSE <<Op("line")>>)
  /\ UNCHANGED <<output>>
  /\ UNCHANGED app /\ UNCHANGED engine /\ UNCHANGED logger /\ UNCHANGED files /\ UNCHANGED reader

DoWriteLog(r) ==
  /\ Doing(r, "writeLog")
  /\ Instead(r, << >>)
  /\ IF r = Root(comm[r])
     THEN /\ id' = [id EXCEPT ![r] = @ + 1]
          /\ stream' = [stream EXCEPT ![comm[r]] = Append(@, [jid |-> id[r], node |-> "log", call |-> taken[r]])]
     ELSE UNCHANGED <<id, stream>>
  /\ UNCHANGED <<taken, comm, known, output>>
  /\ UNCHANGED app /\ UNCHANGED logger /\ UNCHANGED files /\ UNCHANGED reader

\* The stream cannot be written: the message is saved again, and the engine is left on
\* the message's communicator.
RefuseLog(r) ==
  /\ Doing(r, "writeLog")
  /\ r = Root(comm[r]) /\ refused < MaxRefusals
  /\ refused' = refused + 1
  /\ id' = [id EXCEPT ![r] = @ + 1]
  /\ saved' = [saved EXCEPT ![r] = Append(@, taken[r])]
  /\ todo' = [todo EXCEPT ![r] = Tail(Tail(@))]
  /\ UNCHANGED <<taken, comm, known, stream, output, mode, locked, told, printed>>
  /\ UNCHANGED app /\ UNCHANGED files /\ UNCHANGED reader

DoLine(r) ==
  /\ Doing(r, "line")
  /\ Instead(r, << >>)
  /\ printed' = IF r = Root(calls[taken[r]].comm) THEN [printed EXCEPT ![r] = Append(@, taken[r])] ELSE printed
  /\ UNCHANGED <<taken, output, mode, locked, saved, told, refused>>
  /\ UNCHANGED app /\ UNCHANGED engine /\ UNCHANGED files /\ UNCHANGED reader

\* Logger::setLog, unless logging is off; and the end of OutputEngineManager::set.
DoSet(r) ==
  /\ Doing(r, "setLog") \/ Doing(r, "ready")
  /\ Instead(r, << >>)
  /\ locked' = IF Doing(r, "setLog") /\ mode # "off" THEN [locked EXCEPT ![r] = TRUE] ELSE locked
  /\ ready' = IF Doing(r, "ready") THEN [ready EXCEPT ![r] = TRUE] ELSE ready
  /\ UNCHANGED <<taken, output, mode, saved, told, printed, refused, dirs, dir>>
  /\ UNCHANGED app /\ UNCHANGED engine /\ UNCHANGED reader

-----------------------------------------------------------------------------
(* The output directory.                                                   *)

\* Mutant of Initialize: nobody waits before writing.
InitializeNoBarrier(warning) == <<[op |-> "look", warning |-> warning], Op("makeDir")>>

Initialize(warning) == <<[op |-> "look", warning |-> warning], Op("barrier"), Op("makeDir")>>

FreeDir == CHOOSE k \in 1 .. (MaxDirs + 1) : k \notin dirs /\ \A j \in 1 .. (k - 1) : j \in dirs

\* A rank that sees the directory takes part in finding another one, and warns.
DoLook(r) ==
  /\ Doing(r, "look")
  /\ Instead(r, IF 0 \in dirs THEN <<Op("castDir"), Say(Head1(r).warning)>> ELSE << >>)
  /\ dir' = [dir EXCEPT ![r] = IF 0 \in dirs /\ r = Root(World) THEN FreeDir ELSE 0]
  /\ UNCHANGED <<taken, output, ready, dirs>>
  /\ UNCHANGED app /\ UNCHANGED engine /\ UNCHANGED logger /\ UNCHANGED reader

AllDoing(op) == \A r \in World : Doing(r, op)

CastDir ==
  /\ AllDoing("castDir")
  /\ GoOn(World)
  /\ dir' = [r \in Ranks |-> dir[Root(World)]]
  /\ UNCHANGED <<taken, output, ready, dirs>>
  /\ UNCHANGED app /\ UNCHANGED engine /\ UNCHANGED logger /\ UNCHANGED reader

\* The barrier of initialize, and the gather of the node map.
Meet ==
  /\ AllDoing("barrier") \/ AllDoing("nodeMap")
  /\ GoOn(World)
  /\ UNCHANGED <<taken, output>>
  /\ UNCHANGED app /\ UNCHANGED engine /\ UNCHANGED logger /\ UNCHANGED files /\ UNCHANGED reader

DoMakeDir(r) ==
  /\ Doing(r, "makeDir")
  /\ Instead(r, << >>)
  /\ dirs' = dirs \cup {dir[r]}
  /\ UNCHANGED <<taken, output, ready, dir>>
  /\ UNCHANGED app /\ UNCHANGED engine /\ UNCHANGED logger /\ UNCHANGED reader

-----------------------------------------------------------------------------
(* Questions.                                                              *)

\* Fetch: the root asks and waits, and everybody gets what it has got.
Fetch == <<Op("ask"), Op("poll"), Op("castAnswer")>>

\* Mutant of ResponseFile: one file for the communicator.
ResponseFileOfComm(jid) == 0

ResponseFile(jid) == jid

\* The question takes a number and is written with it.
DoAsk(r) ==
  /\ Doing(r, "ask")
  /\ IF r = Root(comm[r])
     THEN /\ taken' = [taken EXCEPT ![r] = id[r]]
          /\ id' = [id EXCEPT ![r] = @ + 1]
          /\ Instead(r, <<Write("fetch")>>)
     ELSE Instead(r, << >>) /\ UNCHANGED <<taken, id>>
  /\ UNCHANGED <<comm, known, stream, output>>
  /\ UNCHANGED app /\ UNCHANGED logger /\ UNCHANGED files /\ UNCHANGED reader

\* The response file is there.
DoPoll(r) ==
  /\ Doing(r, "poll")
  /\ IF r = Root(comm[r])
     THEN \E a \in answers :
            /\ a.file = ResponseFile(taken[r])
            /\ answer' = [answer EXCEPT ![r] = Append(@, [asked |-> taken[r], got |-> a.to])]
            /\ Instead(r, <<Write("fetchSuccess")>>)
     ELSE Instead(r, << >>) /\ UNCHANGED answer
  /\ UNCHANGED <<taken, output, answers>>
  /\ UNCHANGED app /\ UNCHANGED engine /\ UNCHANGED logger /\ UNCHANGED files

\* The time is over: the question is written once more.
DoTimeout(r) ==
  /\ Doing(r, "poll") /\ r = Root(comm[r])
  /\ answer' = [answer EXCEPT ![r] = Append(@, [asked |-> taken[r], got |-> -1])]
  /\ Instead(r, <<Write("fetch")>>)
  /\ UNCHANGED <<taken, output, answers>>
  /\ UNCHANGED app /\ UNCHANGED engine /\ UNCHANGED logger /\ UNCHANGED files

CastAnswer ==
  /\ AllDoing("castAnswer")
  /\ GoOn(World)
  /\ answer' = [r \in Ranks |-> answer[Root(World)]]
  /\ UNCHANGED <<taken, output, answers>>
  /\ UNCHANGED app /\ UNCHANGED engine /\ UNCHANGED logger /\ UNCHANGED files

\* The reader answers a question it finds in the stream, soon, late or never.
ReaderAnswers ==
  /\ \E i \in DOMAIN stream[World] :
       LET question == stream[World][i]
       IN  /\ question.node = "fetch"
           /\ \A a \in answers : a.to # question.call
           /\ answers' = answers \cup {[file |-> ResponseFile(question.call), to |-> question.call]}
  /\ UNCHANGED <<vars, answer>>
  /\ UNCHANGED logger /\ UNCHANGED files

-----------------------------------------------------------------------------
\* The i-th of a finite set of numbers.
Ith(ns, i) == CHOOSE n \in ns : Cardinality({k \in ns : k <= n}) = i

\* Rank r logs its messages among those from number `first` to number `last`.
Says(r, first, last, messages) ==
  LET mine == {n \in first .. last : r \in messages[n].comm}
  IN  [i \in 1 .. Cardinality(mine) |-> Say(Ith(mine, i))]

\* loadRunInfo on rank r, after the first `early` messages, which are the application's;
\* three are its own, one of them the warning; the others are logged by init callbacks.
LoadRunInfo(r, early, messages, questions) ==
  Says(r, 1, early, messages) \o <<Op("setLog"), Say(early + 1)>>
    \o Initialize(early + 2) \o <<SetComm(World, FALSE), Op("ready"), Say(early + 3)>>
    \o <<SetComm(World, TRUE), Write("packageOptionsStarted")>> \o Times(Fetch, questions)
    \o <<Write("packageOptionsFinished"), SetComm(World, FALSE), Op("nodeMap"), Write("info")>>
    \o Says(r, early + 4, Len(messages), messages)

Messages == [comm : Comms, black : BOOLEAN]
OwnMessage == [comm |-> World, black |-> FALSE]

SInit ==
  /\ calls = << >> /\ todo = [r \in Ranks |-> <<Op("start")>>]
  /\ open = [r \in Ranks |-> << >>] /\ output = [r \in Ranks |-> FALSE]
  /\ taken = [r \in Ranks |-> 0]
  /\ comm = [r \in Ranks |-> {}] /\ id = [r \in Ranks |-> 0] /\ known = [r \in Ranks |-> {}]
  /\ stream = [c \in AllComms |-> << >>]
  /\ mode \in {"engine", "print", "off"}
  /\ locked = [r \in Ranks |-> FALSE] /\ ready = [r \in Ranks |-> FALSE]
  /\ saved = [r \in Ranks |-> << >>] /\ told = [r \in Ranks |-> {}]
  /\ printed = [r \in Ranks |-> << >>] /\ refused = 0
  /\ dirs \in {0 .. (k - 1) : k \in 0 .. MaxDirs} /\ dir = [r \in Ranks |-> 0]
  /\ answers = {} /\ answer = [r \in Ranks |-> << >>]

\* The program is chosen once.
Start ==
  /\ calls = << >>
  /\ \E early, late \in 0 .. MaxLogs, questions \in 0 .. MaxQuestions :
       /\ early + late + questions <= MaxCalls
       /\ \E said \in [1 .. early -> Messages], after \in [1 .. late -> Messages] :
           /\ calls' = said \o <<OwnMessage, OwnMessage, OwnMessage>> \o after
           /\ todo' = [r \in Ranks |-> LoadRunInfo(r, early, calls', questions)]
  /\ UNCHANGED <<open, output, taken>>
  /\ UNCHANGED engine /\ UNCHANGED logger /\ UNCHANGED files /\ UNCHANGED reader

EngineStep(r) == DoSetComm(r) \/ DoName(r) \/ DoWrite(r)

LoggerStep(r) == DoSay(r) \/ DoFlush(r) \/ DoPop(r) \/ DoDeliver(r) \/ DoWriteLog(r) \/ DoLine(r) \/ DoSet(r)

RankStep(r) ==
  \/ EngineStep(r) /\ UNCHANGED <<logger, files, reader>>
  \/ LoggerStep(r) \/ DoLook(r) \/ DoMakeDir(r) \/ DoAsk(r) \/ DoPoll(r) \/ DoTimeout(r)

Meetings ==
  \/ \E c \in AllComms : Collective(c) /\ UNCHANGED <<logger, files, reader>>
  \/ CastDir \/ Meet \/ CastAnswer

SNext == Start \/ (\E r \in Ranks : RankStep(r) \/ RefuseLog(r)) \/ Meetings \/ ReaderAnswers

\* Every rank goes on, a collective completes when all its members are there, and the
\* time of a question ends.  The reader may never answer.
SFairness == WF_svars(Start) /\ WF_svars(Meetings) /\ \A r \in Ranks : WF_svars(RankStep(r))

SSpec == SInit /\ [][SNext]_svars /\ SFairness

-----------------------------------------------------------------------------
Past(r, op) == calls # << >> /\ \A i \in DOMAIN todo[r] : todo[r][i].op # op

\* Ranks that have made the output directory write to the same one.  What two ranks
\* got for a question is the same, and it is the answer to that question, not one to
\* an earlier question that came late.
RanksAgree ==
  \A r, s \in Ranks :
    /\ Past(r, "makeDir") /\ Past(s, "makeDir") => dir[r] = dir[s]
    /\ \A i \in DOMAIN answer[r] :
         /\ answer[r][i].got \in {-1, answer[r][i].asked}
         /\ i \in DOMAIN answer[s] => answer[r][i] = answer[s][i]

Occurrences(n, s) == Cardinality({i \in DOMAIN s : s[i] = n})

\* The saved messages, without one that is being logged and is still to be dropped.
Held(r) == IF Past(r, "pop") THEN saved[r] ELSE Tail(saved[r])

\* Where the messages are in stream c, and how often message n is.
Logs(c) == {i \in DOMAIN stream[c] : stream[c][i].node = "log"}
Logged(n, c) == Cardinality({i \in Logs(c) : stream[c][i].call = n})

\* Message n is on its way on rank r.
InHand(r, n) ==
  \/ \E i \in DOMAIN todo[r] : todo[r][i] = Deliver(n)
  \/ taken[r] = n /\ ~Past(r, IF mode = "engine" THEN "writeLog" ELSE "line")

InOrder(s) == \A i, k \in DOMAIN s : i < k => s[i] < s[k]

\* A message is in one place as soon as the root of its communicator has logged it:
\* saved, on its way, or written to the stream of its communicator, or to the file
\* when there is no engine, however often it is refused; one of a black-listed package
\* is not written.
OnePlace ==
  \A n \in DOMAIN calls :
    LET c == calls[n].comm
        r == Root(c)
        written == IF mode = "engine" THEN Logged(n, c) ELSE Occurrences(n, printed[r])
        places == Occurrences(n, Held(r)) + written + IF InHand(r, n) THEN 1 ELSE 0
    IN  /\ places <= 1
        /\ places = 1 => n \in told[r]
        /\ n \in told[r] /\ ~calls[n].black => places = 1
        /\ calls[n].black => written = 0
        /\ \A d \in AllComms \ {c} : Logged(n, d) = 0

\* As long as nothing is refused, streams and files have their messages in the order of
\* the program, and of two messages that share a rank the later one has no smaller number.
ProgramOrder ==
  refused = 0 =>
    /\ \A r \in Ranks : InOrder(printed[r])
    /\ \A c, d \in AllComms : \A i \in Logs(c), k \in Logs(d) :
         LET x == stream[c][i]
             y == stream[d][k]
         IN  /\ c \cap d # {} /\ x.call < y.call => x.jid <= y.jid
             /\ c = d /\ i < k => x.call < y.call

\* Every message that the program logs is written once, on the stream of its communicator
\* or in the file of its root, or is on its way there; and what is written is in order.
LoggedOnce == OnePlace /\ ProgramOrder

\* The start ends on every rank, whether there are directories already and whether the
\* reader answers or not, unless a message is refused.
StartUpEnds == <>(refused > 0 \/ (calls # << >> /\ \A r \in Ranks : todo[r] = << >>))
=============================================================================
