--------------------------- MODULE PointStreamProofs --------------------------
(***************************************************************************)
(* Two safety properties of PointStream, proved for every number of ranks, *)
(* every choice of communicators and every bound, when the logger does not *)
(* print on the captured standard output (with it the first one fails, see *)
(* run stream_log): every node is in the stream of the communicator it is  *)
(* about, and ranks that meet in a collective are in it for the same call. *)
(* The invariant counts the syncs a rank has left on each communicator in  *)
(* the rest of its call (left).                                            *)
(*                                                                         *)
(* From the counts follows how far a rank is in the call of a loop: it     *)
(* passes the sync of the first change to the loop's communicator, before  *)
(* it writes anything, the syncs that begin and end its point, and the     *)
(* sync before its last node.  Because the members of a communicator have  *)
(* equally many syncs left, they pass these milestones together.           *)
(***************************************************************************)
EXTENDS PointStreamTypes

-----------------------------------------------------------------------------
(* The ranks in step.                                                      *)

\* The communicators that the point and the messages of rank r's call are about.
Here(r) == IF taken[r] = 0 THEN World ELSE calls[taken[r]].comm
Messages(r) == IF taken[r] = 0 THEN World ELSE calls[taken[r]].logComm

\* From communicator d, rank r writes every node where it belongs and syncs k times
\* on c in the rest of its call.
Goes(r, d, c, k) == \E e \in AllComms : Leads(todo[r], d, e, Here(r), Messages(r), c, k)

\* Two members of c are in the same call with as many syncs on c to come; or one is
\* behind: then it has none to come before the call of the other, which has had none.
Pace(left, r, s, c) ==
  /\ taken[r] = taken[s] => left[r][c] = left[s][c]
  /\ taken[r] < taken[s] =>
       /\ left[r][c] = 0
       /\ left[s][c] = Total(calls[taken[s]], c)
       /\ \A k \in (taken[r] + 1) .. (taken[s] - 1) : Total(calls[k], c) = 0

\* A rank with captured output is about to read it, and goes on from anywhere.
Steady(left) ==
  /\ \A r \in Ranks : \A c \in Own(r) : Goes(r, comm[r], c, left[r][c])
  /\ \A r \in Ranks : output[r] =>
       Doing(r, "read") /\ \A d \in AllComms, c \in Own(r) : Goes(r, d, c, left[r][c])
  /\ \A c \in AllComms : \A r, s \in c : Pace(left, r, s, c)

Lefts == [Ranks -> [AllComms -> Nat]]

\* The nodes of the streams are of calls.
OfCalls == \A c \in AllComms : \A i \in 1 .. Len(stream[c]) : stream[c][i].call \in 0 .. Len(calls)

IInv ==
  /\ Typed
  /\ \E left \in Lefts : Steady(left)
  /\ OfCalls
  /\ InOwnStream

\* Rank r has done its operation, or has begun it and will be where it leads to.
LEMMA GoesOn ==
  ASSUME Typed, NEW r \in Ranks, NEW op, Doing(r, op), op # "gather",
         NEW d, NEW c, NEW k, Goes(r, d, c, k),
         NEW p \in Seq(Ops(r, known[r])), NEW b,
         Leads(p, b, After(Head1(r), d), Here(r), Messages(r), c, Syncs(Head1(r), d, c))
  PROVE  /\ Placed(Head1(r), d, Here(r), Messages(r))
         /\ \E e \in AllComms : Leads(p \o Tail(todo[r]), b, e, Here(r), Messages(r), c, k)
<1> DEFINE S == Ops(r, known[r])
           o == Head1(r)
           t == Tail(todo[r])
<1>1. o \in S /\ t \in Seq(S) /\ todo[r] = <<o>> \o t
  BY DoingFacts
<1> HIDE DEF S, o, t
<1>2. PICK e \in AllComms : Leads(<<o>> \o t, d, e, Here(r), Messages(r), c, k)
  BY <1>1 DEF Goes
<1>3. /\ Placed(o, d, Here(r), Messages(r))
      /\ \E j \in Nat : k = Syncs(o, d, c) + j /\ Leads(t, After(o, d), e, Here(r), Messages(r), c, j)
  BY <1>1, <1>2, LeadsTail
<1>4. PICK j \in Nat : k = Syncs(o, d, c) + j /\ Leads(t, After(o, d), e, Here(r), Messages(r), c, j)
  BY <1>3
<1>5. Syncs(o, d, c) \in Nat /\ p \in Seq(S)
  BY DEF Syncs, S
<1>6. Leads(p \o t, b, e, Here(r), Messages(r), c, Syncs(o, d, c) + j)
  BY <1>1, <1>4, <1>5, LeadsConcat DEF o
<1>7. QED
  BY <1>3, <1>4, <1>6 DEF o, t

\* Only rank r has gone on in its call.
LEMMA SteadyStep ==
  ASSUME NEW left \in Lefts, Steady(left), NEW r \in Ranks,
         UNCHANGED <<calls, taken>>,
         \A s \in Ranks \ {r} : todo'[s] = todo[s] /\ comm'[s] = comm[s],
         \A c \in Own(r) : \E e \in AllComms :
           Leads(todo'[r], comm'[r], e, Here(r), Messages(r), c, left[r][c]),
         \A s \in Ranks : output'[s] => s # r /\ output[s]
  PROVE  Steady(left)'
<1>1. \A s \in Ranks : Here(s)' = Here(s) /\ Messages(s)' = Messages(s)
  BY DEF Here, Messages
<1>2. ASSUME NEW s \in Ranks, NEW c \in Own(s)
      PROVE  Goes(s, comm[s], c, left[s][c])'
  <2>1. CASE s = r
    BY <1>1, <2>1 DEF Goes
  <2>2. CASE s # r
    BY <1>1, <2>2 DEF Goes, Steady
  <2>3. QED
    BY <2>1, <2>2
<1>3. ASSUME NEW s \in Ranks, output'[s]
      PROVE  Doing(s, "read")' /\ \A d \in AllComms, c \in Own(s) : Goes(s, d, c, left[s][c])'
  <2>1. output[s] /\ todo'[s] = todo[s]
    BY <1>3
  <2>2. Doing(s, "read") /\ \A d \in AllComms, c \in Own(s) : Goes(s, d, c, left[s][c])
    BY <2>1 DEF Steady
  <2>3. QED
    BY <1>1, <2>1, <2>2 DEF Doing, Goes
<1>4. \A c \in AllComms : \A q, s \in c : Pace(left, q, s, c)'
  BY DEF Steady, Pace
<1>5. QED
  BY <1>2, <1>3, <1>4 DEF Steady

\* Captured output is read before anything else is done.
LEMMA NoOutput ==
  ASSUME NEW left \in Lefts, Steady(left), NEW r \in Ranks, NEW op, Doing(r, op), op # "read"
  PROVE  ~output[r]
BY DEF Steady, Doing

\* The operations that change neither the communicator nor the syncs to come.
LEMMA PlainSteady ==
  ASSUME Typed, NEW left \in Lefts, Steady(left), NEW r \in Ranks,
         NEW op \in {"write", "name", "print", "read"}, Doing(r, op), Instead(r, << >>),
         UNCHANGED <<calls, taken, comm>>,
         \A s \in Ranks : output'[s] => s # r /\ output[s]
  PROVE  /\ Steady(left)'
         /\ Placed(Head1(r), comm[r], Here(r), Messages(r))
<1>1. << >> \in Seq(Ops(r, known[r])) /\ comm[r] \in AllComms /\ op # "gather"
      /\ Head1(r).op = op
  BY EmptySeq, DoingFacts
<1>2. \A c : After(Head1(r), comm[r]) = comm[r] /\ Syncs(Head1(r), comm[r], c) = 0
  BY <1>1 DEF After, Syncs
<1>3. /\ todo'[r] = << >> \o Tail(todo[r])
      /\ \A s \in Ranks \ {r} : todo'[s] = todo[s]
  BY <1>1, InsteadTyped
<1>4. ASSUME NEW c \in Own(r)
      PROVE  /\ Placed(Head1(r), comm[r], Here(r), Messages(r))
             /\ \E e \in AllComms : Leads(todo'[r], comm'[r], e, Here(r), Messages(r), c, left[r][c])
  <2>1. Goes(r, comm[r], c, left[r][c])
    BY DEF Steady
  <2>2. Leads(<< >>, comm[r], comm[r], Here(r), Messages(r), c, 0)
    BY <1>1, LeadsEmpty
  <2>3. Leads(<< >>, comm[r], After(Head1(r), comm[r]), Here(r), Messages(r), c, Syncs(Head1(r), comm[r], c))
    BY <1>2, <2>2
  <2>4. /\ Placed(Head1(r), comm[r], Here(r), Messages(r))
        /\ \E e \in AllComms : Leads(<< >> \o Tail(todo[r]), comm[r], e, Here(r), Messages(r), c, left[r][c])
    BY <1>1, <2>1, <2>3, GoesOn
  <2>5. QED
    BY <1>3, <2>4
<1>5. World \in Own(r)
  BY CommFacts
<1>6. Steady(left)'
  BY <1>3, <1>4, SteadyStep
<1>7. QED
  BY <1>4, <1>5, <1>6

\* A node is appended to a stream.
LEMMA Appended ==
  ASSUME stream \in [AllComms -> Seq(Node)], NEW c \in AllComms, NEW x \in Node,
         stream' = [stream EXCEPT ![c] = Append(@, x)]
  PROVE  /\ Len(stream[c]) \in Nat /\ Len(stream'[c]) = Len(stream[c]) + 1
         /\ stream'[c][Len(stream[c]) + 1] = x
         /\ \A d \in AllComms : \A i \in 1 .. Len(stream[d]) :
              i \in 1 .. Len(stream'[d]) /\ stream'[d][i] = stream[d][i]
         /\ \A d \in AllComms : \A i \in 1 .. Len(stream'[d]) :
              \/ i \in 1 .. Len(stream[d]) /\ stream'[d][i] = stream[d][i]
              \/ d = c /\ i = Len(stream[c]) + 1 /\ stream'[d][i] = x
<1>1. stream[c] \in Seq(Node) /\ Len(stream[c]) \in Nat
  BY LenProperties
<1>2. /\ Len(Append(stream[c], x)) = Len(stream[c]) + 1
      /\ \A i \in 1 .. Len(stream[c]) : Append(stream[c], x)[i] = stream[c][i]
      /\ Append(stream[c], x)[Len(stream[c]) + 1] = x
  BY <1>1, AppendProperties
<1>3. /\ stream'[c] = Append(stream[c], x)
      /\ \A d \in AllComms \ {c} : stream'[d] = stream[d]
  OBVIOUS
<1>4. ASSUME NEW d \in AllComms, NEW i \in 1 .. Len(stream[d])
      PROVE  i \in 1 .. Len(stream'[d]) /\ stream'[d][i] = stream[d][i]
  BY <1>1, <1>2, <1>3
<1>5. ASSUME NEW d \in AllComms, NEW i \in 1 .. Len(stream'[d])
      PROVE  \/ i \in 1 .. Len(stream[d]) /\ stream'[d][i] = stream[d][i]
             \/ d = c /\ i = Len(stream[c]) + 1 /\ stream'[d][i] = x
  BY <1>1, <1>2, <1>3
<1>6. QED
  BY <1>1, <1>2, <1>3, <1>4, <1>5

\* What a rank writes.
LEMMA WriteFacts ==
  ASSUME Typed, NEW r \in Ranks, DoWrite(r)
  PROVE  LET x == [jid |-> id[r], node |-> Head1(r).node, call |-> taken[r]]
         IN  /\ Doing(r, "write") /\ Instead(r, << >>)
             /\ UNCHANGED <<calls, taken, comm, output>>
             /\ comm[r] \in AllComms /\ x \in Node /\ stream \in [AllComms -> Seq(Node)]
             /\ r = Root(comm[r]) => stream' = [stream EXCEPT ![comm[r]] = Append(@, x)]
             /\ r # Root(comm[r]) => stream' = stream
<1>1. /\ Doing(r, "write") /\ Instead(r, << >>)
      /\ UNCHANGED <<calls, taken, comm, output>>
  BY DEF DoWrite, app
<1>2. /\ TypeOK /\ stream \in [AllComms -> Seq(Node)]
      /\ id[r] \in Nat /\ taken[r] \in Nat
  BY LenProperties DEF Typed, TypeOK
<1>3. comm[r] \in AllComms /\ Head1(r).op = "write" /\ Head1(r).node \in Nodes
  BY <1>1, DoingFacts, OpsCases
<1> DEFINE x == [jid |-> id[r], node |-> Head1(r).node, call |-> taken[r]]
<1>4. x \in Node
  BY <1>2, <1>3 DEF Node
<1>5. r = Root(comm[r]) => stream' = [stream EXCEPT ![comm[r]] = Append(@, x)]
  BY DEF DoWrite
<1>6. r # Root(comm[r]) => stream' = stream
  BY DEF DoWrite
<1> HIDE DEF x
<1>7. QED
  BY <1>1, <1>2, <1>3, <1>4, <1>5, <1>6 DEF x

\* A node is written where it belongs.
LEMMA WriteStreams ==
  ASSUME Typed, NEW left \in Lefts, Steady(left), OfCalls, InOwnStream, NEW r \in Ranks, DoWrite(r)
  PROVE  OfCalls' /\ InOwnStream'
<1> DEFINE c == comm[r]
           x == [jid |-> id[r], node |-> Head1(r).node, call |-> taken[r]]
<1>1. /\ Doing(r, "write") /\ Instead(r, << >>)
      /\ UNCHANGED <<calls, taken, comm, output>>
      /\ c \in AllComms /\ x \in Node /\ stream \in [AllComms -> Seq(Node)]
      /\ r = Root(c) => stream' = [stream EXCEPT ![c] = Append(@, x)]
      /\ r # Root(c) => stream' = stream
  BY WriteFacts
<1>2. Placed(Head1(r), c, Here(r), Messages(r)) /\ ~output[r]
  BY <1>1, NoOutput, PlainSteady
<1>3. Head1(r).op = "write"
  BY <1>1, DoingFacts
<1>4. CASE r # Root(c)
  BY <1>1, <1>4 DEF OfCalls, InOwnStream, OwnComm
<1>5. CASE r = Root(c)
  <2>1. x.node # "stdout" => c = OwnComm(x.node, x.call)
    <3>1. x.node # "stdout" => c = IF x.node = "log" THEN Messages(r) ELSE Here(r)
      BY <1>2, <1>3 DEF Placed
    <3>2. QED
      BY <3>1 DEF OwnComm, Here, Messages
  <2>2. x.call \in 0 .. Len(calls)
    BY DEF Typed, TypeOK
  <2> HIDE DEF x, c
  <2>3. ASSUME NEW d \in AllComms, NEW i \in 1 .. Len(stream'[d])
        PROVE  /\ stream'[d][i].call \in 0 .. Len(calls)
               /\ stream'[d][i].node \notin {"comminfo", "info", "stdout"} =>
                    d = OwnComm(stream'[d][i].node, stream'[d][i].call)
    <3>1. \/ i \in 1 .. Len(stream[d]) /\ stream'[d][i] = stream[d][i]
          \/ d = c /\ stream'[d][i] = x
      BY <1>1, <1>5, Appended
    <3>2. QED
      BY <2>1, <2>2, <3>1 DEF OfCalls, InOwnStream
  <2>4. QED
    BY <1>1, <2>3 DEF OfCalls, InOwnStream, OwnComm
<1>6. QED
  BY <1>4, <1>5

\* A name is taken or a line is printed.
LEMMA NameSteady ==
  ASSUME Typed, NEW left \in Lefts, Steady(left), ~LogsToStdout, NEW r \in Ranks, DoName(r) \/ DoPrint(r)
  PROVE  Steady(left)'
<1>1. left \in Lefts /\ Steady(left)
  OBVIOUS
<1>2. PICK op \in {"name", "print"} : Doing(r, op)
  BY DEF DoName, DoPrint
<1>3. /\ Instead(r, << >>) /\ output' = output
      /\ UNCHANGED <<calls, taken, comm, stream>>
  BY DEF DoName, DoPrint, app, engine
<1>4. Typed /\ ~output[r]
  BY <1>1, <1>2, NoOutput
<1>5. op \in {"write", "name", "print", "read"}
  OBVIOUS
<1>6. QED
  BY <1>1, <1>2, <1>3, <1>4, <1>5, PlainSteady

\* Captured output is read: rank r writes it on its own communicator, and goes on
\* from there as it would have from any other.
LEMMA ReadSteady ==
  ASSUME Typed, NEW left \in Lefts, Steady(left), NEW r \in Ranks, DoRead(r)
  PROVE  Steady(left)'
<1>1. left \in Lefts /\ Steady(left)
  OBVIOUS
<1>2. /\ Doing(r, "read") /\ UNCHANGED <<calls, taken, comm, known, stream>>
      /\ Instead(r, IF output[r] THEN <<SetComm({r}, FALSE), Write("stdout")>> ELSE << >>)
      /\ output' = [output EXCEPT ![r] = FALSE]
  BY DEF DoRead, app, engine
<1>3. Typed /\ output \in [Ranks -> BOOLEAN]
  BY DEF Typed, TypeOK
<1>4. \A s \in Ranks : output'[s] => s # r /\ output[s]
  BY <1>2, <1>3
<1>6. CASE ~output[r]
  <2>1. Instead(r, << >>)
    BY <1>2, <1>6
  <2>2. QED
    BY <1>1, <1>2, <1>3, <1>4, <2>1, PlainSteady
<1>7. CASE output[r]
  <2> DEFINE a == SetComm({r}, FALSE)
             b == Write("stdout")
             p == <<a, b>>
             me == {r}
  <2>1. me \in Own(r) /\ me \in AllComms /\ comm[r] \in AllComms
    BY <1>3, CommFacts DEF Own, Typed, TypeOK
  <2>2. a \in Ops(r, known[r]) /\ b \in Ops(r, known[r])
    BY <2>1, OpsFacts DEF Nodes
  <2>3. Head1(r) = Read
    BY <1>2, <1>3, DoingFacts, OpsCases, ZenonT(40)
  <2>4. ASSUME NEW c
        PROVE  Leads(p, comm[r], me, Here(r), Messages(r), c, 0)
    <3>1. After(a, comm[r]) = me /\ Placed(a, comm[r], Here(r), Messages(r)) /\ Syncs(a, comm[r], c) = 0
      BY DEF SetComm, After, Placed, Syncs
    <3>2. After(b, me) = me /\ Placed(b, me, Here(r), Messages(r)) /\ Syncs(b, me, c) = 0
      BY WriteEffect
    <3> HIDE DEF a, b, me
    <3>3. QED
      BY <2>1, <3>1, <3>2, LeadsTwo, 0 + 0 = 0
  <2> HIDE DEF a, b
  <2>5. p \in Seq(Ops(r, known[r])) /\ Instead(r, p)
    <3>1. p \in Seq(Ops(r, known[r]))
      BY <2>2, Tuples
    <3>2. QED
      BY <1>2, <1>7, <3>1 DEF a, b
  <2> HIDE DEF p, me
  <2>6. /\ todo'[r] = p \o Tail(todo[r])
        /\ \A s \in Ranks \ {r} : todo'[s] = todo[s]
    BY <1>2, <1>3, <2>5, InsteadTyped
  <2>7. ASSUME NEW c \in Own(r)
        PROVE  \E e \in AllComms : Leads(todo'[r], comm'[r], e, Here(r), Messages(r), c, left[r][c])
    <3>1. Goes(r, me, c, left[r][c])
      BY <1>1, <1>7, <2>1 DEF Steady
    <3>2. After(Head1(r), me) = me /\ Syncs(Head1(r), me, c) = 0
      BY <2>3, OtherEffect
    <3>3. Leads(p, comm[r], After(Head1(r), me), Here(r), Messages(r), c, Syncs(Head1(r), me, c))
      BY <2>4, <3>2
    <3>4. \E e \in AllComms : Leads(p \o Tail(todo[r]), comm[r], e, Here(r), Messages(r), c, left[r][c])
      BY <1>2, <1>3, <2>5, <3>1, <3>3, GoesOn
    <3>5. QED
      BY <1>2, <2>6, <3>4
  <2>8. QED
    BY <1>1, <1>2, <1>4, <2>6, <2>7, SteadyStep
<1>8. QED
  BY <1>6, <1>7

\* Rank r changes its communicator: it has the sync of the change to do, after the
\* gather when it does not know the communicator.
LEMMA SetCommSteady ==
  ASSUME Typed, NEW left \in Lefts, Steady(left), NEW r \in Ranks, DoSetComm(r)
  PROVE  Steady(left)'
<1> DEFINE s == Head1(r)
           K == known[r]
           gathering == IF Announces(r, s.comm) THEN <<Gather>> ELSE << >>
           syncing == IF s.sync THEN <<Sync>> ELSE << >>
           t == syncing \o Tail(todo[r])
<1>1. left \in Lefts /\ Steady(left)
  OBVIOUS
<1>2. /\ Doing(r, "setComm") /\ comm' = [comm EXCEPT ![r] = s.comm]
      /\ todo' = [todo EXCEPT ![r] = (gathering \o syncing) \o Tail(todo[r])]
      /\ UNCHANGED <<calls, open, taken, id, known, stream, output>>
  BY DEF DoSetComm, Instead, app
<1>3. Typed /\ TypeOK /\ ~output[r]
  BY <1>1, <1>2, NoOutput DEF Typed
<1>4. /\ s \in Ops(r, K) /\ s.op = "setComm" /\ Tail(todo[r]) \in Seq(Ops(r, K))
      /\ K \in SUBSET AllComms
  BY <1>2, <1>3, DoingFacts
<1>5. s.comm \in AllComms /\ r \in s.comm /\ s.sync \in BOOLEAN
  BY <1>4, OpsCases DEF Own
<1>6. << >> \in Seq(Ops(r, K)) /\ Sync \in Ops(r, K)
  BY EmptySeq, OpsFacts
<1>7. syncing \in Seq(Ops(r, K))
  BY <1>6, Tuples
<1>8. t \in Seq(Ops(r, K))
  BY <1>4, <1>7, ConcatProperties
<1>9. ASSUME NEW c
      PROVE  /\ Leads(syncing, s.comm, s.comm, Here(r), Messages(r), c, Syncs(s, comm[r], c))
             /\ After(s, comm[r]) = s.comm
  <2>1. Syncs(s, comm[r], c) = IF s.sync /\ s.comm = c THEN 1 ELSE 0
    BY <1>4 DEF Syncs
  <2>2. CASE s.sync
    <3>1. /\ After(Sync, s.comm) = s.comm /\ Placed(Sync, s.comm, Here(r), Messages(r))
          /\ Syncs(Sync, s.comm, c) = IF s.comm = c THEN 1 ELSE 0
      BY SyncEffect
    <3>2. Leads(<<Sync>>, s.comm, s.comm, Here(r), Messages(r), c, IF s.comm = c THEN 1 ELSE 0)
      BY <1>5, <3>1, LeadsOne
    <3>3. QED
      BY <1>4, <2>1, <2>2, <3>2 DEF After
  <2>3. CASE ~s.sync
    BY <1>4, <1>5, <2>1, <2>3, LeadsEmpty DEF After
  <2>4. QED
    BY <2>2, <2>3
<1> HIDE DEF s, syncing
<1>10. ASSUME NEW c \in Own(r)
       PROVE  \E e \in AllComms : Leads(t, s.comm, e, Here(r), Messages(r), c, left[r][c])
  <2>1. Goes(r, comm[r], c, left[r][c])
    BY <1>1 DEF Steady
  <2>2. Leads(syncing, s.comm, After(s, comm[r]), Here(r), Messages(r), c, Syncs(s, comm[r], c))
    BY <1>9
  <2>3. QED
    BY <1>2, <1>3, <1>7, <2>1, <2>2, GoesOn DEF s
<1> HIDE DEF t
<1>11. /\ todo \in [Ranks -> Seq(AnyOp)] /\ comm \in [Ranks -> AllComms]
  BY <1>3 DEF TypeOK, Typed
<1>12. /\ comm'[r] = s.comm /\ todo'[r] = (gathering \o syncing) \o Tail(todo[r])
       /\ \A u \in Ranks \ {r} : todo'[u] = todo[u] /\ comm'[u] = comm[u]
  BY <1>2, <1>11
<1>13. ASSUME NEW c \in Own(r)
       PROVE  \E e \in AllComms : Leads(todo'[r], comm'[r], e, Here(r), Messages(r), c, left[r][c])
  <2>1. PICK e \in AllComms : Leads(t, s.comm, e, Here(r), Messages(r), c, left[r][c])
    BY <1>10
  <2>2. CASE s.comm \in K
    <3>1. gathering = << >>
      BY <2>2 DEF Announces
    <3>2. gathering \o syncing = syncing
      BY <1>7, <3>1, ConcatEmptySeq
    <3>3. QED
      BY <1>12, <2>1, <3>2 DEF t
  <2>3. CASE s.comm \notin K
    <3> DEFINE G == Ops(r, K) \cup {Gather}
    <3>1. gathering = <<Gather>>
      BY <2>3 DEF Announces
    <3>2. Tail(todo[r]) \in Seq(G) /\ syncing \in Seq(G) /\ t \in Seq(G) /\ Gather \in G
      <4> DEFINE T == Ops(r, K)
                 v == Tail(todo[r])
      <4>1. T \subseteq G /\ Gather \in G /\ v \in Seq(T) /\ syncing \in Seq(T) /\ t \in Seq(T)
        BY <1>4, <1>7, <1>8
      <4> HIDE DEF T, v, G
      <4>2. QED
        BY <4>1, SeqMonotonic DEF v
    <3> HIDE DEF G
    <3>3. (gathering \o syncing) \o Tail(todo[r]) = <<Gather>> \o t
      <4>1. <<Gather>> \in Seq(G)
        BY <3>2, Tuples
      <4> DEFINE g == <<Gather>>
                 v == Tail(todo[r])
      <4>2. g \in Seq(G) /\ v \in Seq(G) /\ syncing \in Seq(G)
        BY <3>2, <4>1
      <4> HIDE DEF g, v
      <4>3. (g \o syncing) \o v = g \o (syncing \o v)
        BY ONLY <4>2, ConcatAssociative
      <4>4. QED
        BY <3>1, <4>3 DEF g, v, t
    <3>4. /\ After(Gather, s.comm) = s.comm /\ Placed(Gather, s.comm, Here(r), Messages(r))
          /\ Syncs(Gather, s.comm, c) = 0
      BY OtherEffect
    <3>5. left[r][c] \in Nat /\ 0 + left[r][c] = left[r][c]
      BY <1>1 DEF Lefts, Own
    <3>6. Leads(<<Gather>> \o t, s.comm, e, Here(r), Messages(r), c, 0 + left[r][c])
      BY <1>5, <2>1, <3>2, <3>4, <3>5, LeadsCons
    <3>7. QED
      BY <1>12, <3>3, <3>5, <3>6
  <2>4. QED
    BY <2>2, <2>3
<1>14. \A u \in Ranks : output'[u] => u # r /\ output[u]
  BY <1>2, <1>3
<1>15. QED
  BY <1>1, <1>2, <1>12, <1>13, <1>14, SteadyStep

\* Five operations, in two pieces.
LEMMA FiveOps ==
  ASSUME NEW S, NEW a \in S, NEW n \in S, NEW w \in S, NEW q \in S, NEW z \in S
  PROVE  <<a, n, w, q, z>> = <<a, n, w>> \o <<q, z>>
<1> DEFINE u == <<a, n, w>>
           v == <<q, z>>
           x == <<a, n, w, q, z>>
<1>1. u \in Seq(S) /\ v \in Seq(S) /\ Len(u) = 3 /\ Len(v) = 2 /\ v[1] = q /\ v[2] = z
      /\ u[1] = a /\ u[2] = n /\ u[3] = w
  BY Tuples
<1>2. x \in Seq(S) /\ Len(x) = 5 /\ x[1] = a /\ x[2] = n /\ x[3] = w /\ x[4] = q /\ x[5] = z
  OBVIOUS
<1> HIDE DEF u, v, x
<1>3. /\ u \o v \in Seq(S) /\ Len(u \o v) = Len(u) + Len(v)
      /\ \A i \in 1 .. (Len(u) + Len(v)) : (u \o v)[i] = IF i <= Len(u) THEN u[i] ELSE v[i - Len(u)]
  <2>1. u \in Seq(S) /\ v \in Seq(S)
    BY <1>1
  <2>2. QED
    BY ONLY <2>1, ConcatProperties
<1> DEFINE y == u \o v
<1> HIDE DEF y
<1>4. y \in Seq(S) /\ Len(y) = 5 /\ \A i \in 1 .. 5 : y[i] = x[i]
  <2>1. /\ y \in Seq(S) /\ Len(y) = 5
        /\ \A i \in 1 .. 5 : y[i] = IF i <= 3 THEN u[i] ELSE v[i - 3]
    BY <1>1, <1>3 DEF y
  <2>2. y[1] = a /\ y[2] = n /\ y[3] = w
    BY <1>1, <2>1
  <2>3. y[4] = v[4 - 3] /\ y[5] = v[5 - 3]
    BY <2>1
  <2>4. y[4] = q /\ y[5] = z
    BY <1>1, <2>3
  <2>5. \A i \in 1 .. 5 : i = 1 \/ i = 2 \/ i = 3 \/ i = 4 \/ i = 5
    OBVIOUS
  <2>6. QED
    BY <1>2, <2>1, <2>2, <2>4, <2>5
<1>5. x = y
  BY <1>2, <1>4, SeqEqual
<1>6. QED
  BY <1>5 DEF u, v, x, y

\* A message is logged: rank r goes to its communicator and comes back.
LEMMA LogSteady ==
  ASSUME Typed, NEW left \in Lefts, Steady(left), NEW r \in Ranks, DoLog(r)
  PROVE  Steady(left)'
<1> DEFINE v == Head1(r).comm
           d == comm[r]
           K == known[r]
           p == LogOperations(r, v)
           here == Here(r)
           logs == Messages(r)
<1>1. left \in Lefts /\ Steady(left)
  OBVIOUS
<1>2. /\ Doing(r, "log") /\ Instead(r, p)
      /\ UNCHANGED <<calls, taken, comm, known, stream, output>>
  BY DEF DoLog, app, engine
<1>3. Typed /\ ~output[r]
  BY <1>1, <1>2, NoOutput
<1>4. Head1(r) \in Ops(r, K) /\ Head1(r).op = "log" /\ d \in Own(r) /\ d \in K
      /\ todo[r] = <<Head1(r)>> \o Tail(todo[r]) /\ Tail(todo[r]) \in Seq(Ops(r, K))
  BY <1>2, <1>3, DoingFacts DEF Own
<1>5. v \in Own(r) /\ v \in AllComms /\ d \in AllComms
  BY <1>4, OpsCases DEF Own
<1>6. p \in Seq(Ops(r, K))
  BY <1>4, <1>5, LogOperationsType
<1>7. v = logs
  <2>1. World \in Own(r)
    BY CommFacts
  <2>2. Goes(r, d, World, left[r][World])
    BY <1>1, <2>1 DEF Steady
  <2>3. PICK e \in AllComms : Leads(todo[r], d, e, here, logs, World, left[r][World])
    BY <2>2 DEF Goes
  <2> DEFINE S == Ops(r, K)
             o == Head1(r)
             u == Tail(todo[r])
             n == left[r][World]
  <2>4. o \in S /\ u \in Seq(S) /\ Leads(<<o>> \o u, d, e, here, logs, World, n)
    BY <1>4, <2>3
  <2> HIDE DEF S, o, u, n, d, here, logs
  <2>5. Placed(o, d, here, logs)
    BY <2>4, LeadsTail
  <2>6. QED
    BY <1>4, <2>5 DEF Placed, o
<1>8. ASSUME NEW c
      PROVE  /\ Leads(p, d, d, here, logs, c, Syncs(Head1(r), d, c))
             /\ After(Head1(r), d) = d
  <2> DEFINE a == SetComm(v, TRUE)
             w == Write("log")
             q == SetComm(d, FALSE)
             one == IF v = c THEN 1 ELSE 0
  <2>1. /\ After(a, d) = v /\ Placed(a, d, here, logs) /\ Syncs(a, d, c) = one
        /\ After(q, v) = d /\ Placed(q, v, here, logs) /\ Syncs(q, v, c) = 0
    BY DEF SetComm, After, Placed, Syncs
  <2>2. /\ After(NameLog, v) = v /\ Placed(NameLog, v, here, logs) /\ Syncs(NameLog, v, c) = 0
        /\ After(Printed, d) = d /\ Placed(Printed, d, here, logs) /\ Syncs(Printed, d, c) = 0
    BY OtherEffect
  <2>3. After(w, v) = v /\ Placed(w, v, here, logs) /\ Syncs(w, v, c) = 0
    BY <1>7, WriteEffect
  <2>4. /\ a \in SomeOp /\ q \in SomeOp /\ w \in SomeOp /\ NameLog \in SomeOp /\ Printed \in SomeOp
    BY <1>5, SomeOpFacts DEF Nodes
  <2>5. p = <<a, NameLog, w, q, Printed>>
    BY DEF LogOperations
  <2>6. Syncs(Head1(r), d, c) = one /\ After(Head1(r), d) = d
    BY <1>4 DEF Syncs, After
  <2>7. one \in Nat /\ one + 0 = one
    OBVIOUS
  <2> HIDE DEF a, w, q, one, d, v, here, logs, p
  <2>8. Leads(<<q, Printed>>, v, d, here, logs, c, 0)
    BY <1>5, <2>1, <2>2, LeadsTwo, 0 + 0 = 0
  <2>9. Leads(<<NameLog, w>>, v, v, here, logs, c, 0)
    BY <1>5, <2>2, <2>3, LeadsTwo, 0 + 0 = 0
  <2>10. <<NameLog, w>> \in Seq(SomeOp) /\ <<q, Printed>> \in Seq(SomeOp) /\ <<a, NameLog, w>> \in Seq(SomeOp)
    BY <2>4, Tuples
  <2>11. <<a, NameLog, w>> = <<a>> \o <<NameLog, w>> /\ p = <<a, NameLog, w>> \o <<q, Printed>>
    <3>1. <<a, NameLog, w>> = <<a>> \o <<NameLog, w>>
      BY <2>4, TuplesAreCons
    <3>2. <<a, NameLog, w, q, Printed>> = <<a, NameLog, w>> \o <<q, Printed>>
      BY <2>4, FiveOps, SMTT(30)
    <3>3. QED
      BY <2>5, <3>1, <3>2
  <2> DEFINE x == <<NameLog, w>>
             y == <<a, NameLog, w>>
             z == <<q, Printed>>
             k == 0
  <2>12. k \in Nat /\ one + k = one
    BY <2>7
  <2> HIDE DEF x, y, z, k
  <2>13. Leads(<<a>> \o x, d, v, here, logs, c, Syncs(a, d, c) + k)
    BY <1>5, <2>1, <2>4, <2>9, <2>10, <2>12, LeadsCons DEF x, k
  <2>14. Leads(y, d, v, here, logs, c, one)
    BY <2>1, <2>11, <2>12, <2>13 DEF x, y
  <2>15. Leads(y \o z, d, d, here, logs, c, one + k)
    BY <1>5, <2>7, <2>8, <2>10, <2>12, <2>14, LeadsConcat DEF y, z, k
  <2>16. QED
    BY <2>6, <2>11, <2>12, <2>15 DEF y, z
<1> HIDE DEF p, v
<1>9. /\ todo'[r] = p \o Tail(todo[r])
      /\ \A s \in Ranks \ {r} : todo'[s] = todo[s]
  BY <1>2, <1>3, <1>6, InsteadTyped
<1>10. ASSUME NEW c \in Own(r)
       PROVE  \E e \in AllComms : Leads(todo'[r], comm'[r], e, here, logs, c, left[r][c])
  <2>1. Goes(r, d, c, left[r][c])
    BY <1>1 DEF Steady
  <2>2. Leads(p, d, After(Head1(r), d), here, logs, c, Syncs(Head1(r), d, c))
    BY <1>8
  <2>3. \E e \in AllComms : Leads(p \o Tail(todo[r]), d, e, here, logs, c, left[r][c])
    BY <1>2, <1>3, <1>6, <2>1, <2>2, GoesOn
  <2>4. QED
    BY <1>2, <1>9, <2>3
<1>11. \A s \in Ranks : output'[s] => s # r /\ output[s]
  BY <1>2, <1>3
<1>12. QED
  BY <1>1, <1>2, <1>9, <1>10, <1>11, SteadyStep

\* A rank that is at a collective.
LEMMA AtCollective ==
  ASSUME Typed, NEW r \in Ranks, NEW op \in {"gather", "sync"}, Doing(r, op)
  PROVE  /\ todo[r] \in Seq(AnyOp) /\ todo[r] # << >>
         /\ Head1(r) \in AnyOp /\ Tail(todo[r]) \in Seq(AnyOp)
         /\ todo[r] = <<Head1(r)>> \o Tail(todo[r])
         /\ op = "gather" => Head1(r) = Gather
         /\ op = "sync" => Head1(r) = Sync
<1>1. todo[r] \in Seq(AnyOp) /\ todo[r] # << >> /\ Head1(r).op = op
  BY DEF Typed, Doing, Head1
<1>2. /\ Head1(r) \in AnyOp /\ Tail(todo[r]) \in Seq(AnyOp)
      /\ todo[r] = <<Head1(r)>> \o Tail(todo[r])
  BY <1>1, HeadTail DEF Head1
<1>3. Head1(r) = Gather \/ \E s \in Ranks : Head1(r) \in Ops(s, AllComms)
  BY <1>2 DEF AnyOp
<1>4. Gather.op = "gather"
  BY DEF Gather
<1>5. \A s \in Ranks : Head1(r) \in Ops(s, AllComms) =>
         Head1(r).op # "gather" /\ (Head1(r).op = "sync" => Head1(r) = Sync)
  BY OpsCases
<1>6. QED
  BY <1>1, <1>2, <1>3, <1>4, <1>5

\* The members of c have done a collective on it: a sync is one less to come, which
\* they had, so none of them is in another call.
LEMMA CollectiveSteady ==
  ASSUME Typed, NEW left \in Lefts, Steady(left), NEW c \in AllComms,
         NEW op \in {"gather", "sync"}, Together(c, op), GoOn(c),
         UNCHANGED <<calls, taken, comm, output>>
  PROVE  /\ \E less \in Lefts :
              /\ Steady(less)'
              /\ \A r \in Ranks, x \in AllComms :
                   less[r][x] = IF op = "sync" /\ r \in c /\ x = c THEN left[r][x] - 1 ELSE left[r][x]
         /\ op = "sync" => \A r \in c : left[r][c] # 0
<1> DEFINE one(r, x) == IF op = "sync" /\ r \in c /\ x = c THEN 1 ELSE 0
           less == [r \in Ranks |-> [x \in AllComms |-> left[r][x] - one(r, x)]]
<1>1. \A r \in c : r \in Ranks /\ Doing(r, op) /\ comm[r] = c /\ c \in Own(r)
  BY TogetherFacts DEF Own
<1>2. /\ \A r \in c : todo'[r] = Tail(todo[r])
      /\ \A r \in Ranks \ c : todo'[r] = todo[r]
  BY <1>1, GoOnTyped DEF Doing
<1>3. \A s \in Ranks : Here(s)' = Here(s) /\ Messages(s)' = Messages(s)
  BY DEF Here, Messages
<1>4. ASSUME NEW r \in Ranks, NEW x \in AllComms
      PROVE  left[r][x] \in Nat
  BY DEF Lefts
<1>5. ASSUME NEW r \in c, NEW x \in Own(r)
      PROVE  \E j \in Nat : left[r][x] = one(r, x) + j /\ Goes(r, comm[r], x, j)'
  <2> DEFINE o == Head1(r)
             t == Tail(todo[r])
             n == left[r][x]
             here == Here(r)
             logs == Messages(r)
  <2>1. Doing(r, op) /\ r \in Ranks /\ comm[r] = c
    BY <1>1
  <2>2. /\ o \in AnyOp /\ t \in Seq(AnyOp) /\ todo[r] = <<o>> \o t
        /\ o = IF op = "gather" THEN Gather ELSE Sync
    BY <2>1, AtCollective
  <2>3. After(o, c) = c /\ Syncs(o, c, x) = one(r, x)
    BY <2>2, OtherEffect, SyncEffect
  <2>4. PICK e \in AllComms : Leads(todo[r], c, e, here, logs, x, n)
    BY <2>1 DEF Steady, Goes
  <2> HIDE DEF o, t, n, here, logs, one
  <2>5. Leads(<<o>> \o t, c, e, here, logs, x, n)
    BY <2>2, <2>4
  <2>6. \E j \in Nat : n = Syncs(o, c, x) + j /\ Leads(t, After(o, c), e, here, logs, x, j)
    BY <2>2, <2>5, LeadsTail
  <2>7. PICK j \in Nat : n = one(r, x) + j /\ Leads(t, c, e, here, logs, x, j)
    BY <2>3, <2>6
  <2>8. Leads(todo'[r], comm'[r], e, Here(r)', Messages(r)', x, j)
    BY <1>2, <1>3, <2>1, <2>7 DEF here, logs, t
  <2>9. QED
    BY <2>7, <2>8 DEF Goes, n
<1>6. op = "sync" => \A r \in c : left[r][c] # 0
  <2>1. SUFFICES ASSUME op = "sync", NEW r \in c
                 PROVE  left[r][c] # 0
    OBVIOUS
  <2>2. PICK j \in Nat : left[r][c] = 1 + j
    BY <1>1, <1>5, <2>1
  <2>3. QED
    BY <2>2
<1>7. ASSUME NEW r \in Ranks, NEW x \in AllComms
      PROVE  less[r][x] \in Nat /\ less[r][x] = left[r][x] - one(r, x)
  <2>1. one(r, x) = 1 => left[r][x] # 0
    BY <1>6
  <2>2. one(r, x) \in {0, 1}
    OBVIOUS
  <2>3. left[r][x] - one(r, x) \in Nat
    BY <1>4, <2>1, <2>2
  <2>4. QED
    BY <2>3
<1>8. less \in Lefts
  BY <1>7 DEF Lefts
<1>9. ASSUME NEW r \in Ranks, NEW x \in Own(r)
      PROVE  Goes(r, comm[r], x, less[r][x])'
  <2>1. x \in AllComms /\ less[r][x] = left[r][x] - one(r, x)
    BY <1>7 DEF Own
  <2>2. CASE r \in c
    <3>1. PICK j \in Nat : left[r][x] = one(r, x) + j /\ Goes(r, comm[r], x, j)'
      BY <1>5, <2>2
    <3>2. one(r, x) \in Nat
      OBVIOUS
    <3>3. less[r][x] = j
      BY <2>1, <3>1, <3>2
    <3>4. QED
      BY <3>1, <3>3
  <2>3. CASE r \notin c
    <3>1. less[r][x] = left[r][x]
      BY <1>4, <2>1, <2>3
    <3>2. Goes(r, comm[r], x, left[r][x])
      BY DEF Steady
    <3> HIDE DEF less
    <3>3. Goes(r, comm[r], x, left[r][x])'
      BY <1>2, <1>3, <2>3, <3>2 DEF Goes
    <3>4. QED
      BY <3>1, <3>3
  <2>4. QED
    BY <2>2, <2>3
<1>10. ASSUME NEW r \in Ranks, output'[r]
       PROVE  Doing(r, "read")' /\ \A d \in AllComms, x \in Own(r) : Goes(r, d, x, less[r][x])'
  <2>1. Doing(r, "read") /\ \A d \in AllComms, x \in Own(r) : Goes(r, d, x, left[r][x])
    BY <1>10 DEF Steady
  <2>2. r \notin c
    BY <1>1, <2>1 DEF Doing
  <2>3. todo'[r] = todo[r]
    BY <1>2, <2>2
  <2>4. ASSUME NEW d \in AllComms, NEW x \in Own(r)
        PROVE  Goes(r, d, x, less[r][x])'
    <3>1. less[r][x] = left[r][x]
      BY <1>4, <1>7, <2>2 DEF Own
    <3> HIDE DEF less
    <3>2. Goes(r, d, x, left[r][x])'
      BY <1>3, <2>1, <2>3 DEF Goes
    <3>3. QED
      BY <3>1, <3>2
  <2>5. QED
    BY <2>1, <2>3, <2>4 DEF Doing
<1>11. ASSUME NEW x \in AllComms, NEW r \in x, NEW s \in x
       PROVE  Pace(less, r, s, x)'
  <2>1. r \in Ranks /\ s \in Ranks /\ taken[r] \in Nat /\ taken[s] \in Nat
    BY CommFacts DEF Typed, TypeOK
  <2>2. Pace(left, r, s, x) /\ Pace(left, s, r, x)
    BY DEF Steady
  <2>3. CASE op = "sync" /\ x = c
    <3>1. left[r][c] # 0 /\ left[s][c] # 0
      BY <1>6, <2>3
    <3>2. taken[r] = taken[s]
      BY <2>1, <2>2, <2>3, <3>1 DEF Pace
    <3>3. left[r][c] = left[s][c]
      BY <2>2, <2>3, <3>2 DEF Pace
    <3>4. less[r][x] = less[s][x]
      BY <1>7, <2>1, <2>3, <3>3
    <3> HIDE DEF less
    <3>5. QED
      BY <2>1, <3>2, <3>4 DEF Pace
  <2>4. CASE ~(op = "sync" /\ x = c)
    <3>1. less[r][x] = left[r][x] /\ less[s][x] = left[s][x]
      BY <1>4, <1>7, <2>1, <2>4
    <3> HIDE DEF less
    <3>2. QED
      BY <2>2, <3>1 DEF Pace
  <2>5. QED
    BY <2>3, <2>4
<1>12. \A r \in Ranks, x \in AllComms :
         less[r][x] = IF op = "sync" /\ r \in c /\ x = c THEN left[r][x] - 1 ELSE left[r][x]
  BY <1>4, <1>7
<1> HIDE DEF less
<1>13. Steady(less)'
  BY <1>9, <1>10, <1>11 DEF Steady
<1>14. QED
  BY <1>6, <1>8, <1>12, <1>13

\* The members of a communicator announce it.
LEMMA GatherStreams ==
  ASSUME Typed, OfCalls, InOwnStream, NEW c \in AllComms, DoGather(c)
  PROVE  OfCalls' /\ InOwnStream'
<1> DEFINE x == [jid |-> -1, node |-> "comminfo", call |-> taken[Root(c)]]
<1>1. UNCHANGED calls /\ stream' = [stream EXCEPT ![c] = Append(@, x)]
  BY DEF DoGather, app
<1>2. x \in Node /\ x.node = "comminfo" /\ x.call \in 0 .. Len(calls)
  <2>1. taken[Root(c)] \in Nat /\ taken[Root(c)] \in 0 .. Len(calls)
    BY RootFacts DEF Typed, TypeOK
  <2>2. QED
    BY <2>1 DEF Node, Nodes
<1> HIDE DEF x
<1>3. stream \in [AllComms -> Seq(Node)]
  BY DEF Typed, TypeOK
<1>4. ASSUME NEW d \in AllComms, NEW i \in 1 .. Len(stream'[d])
      PROVE  /\ stream'[d][i].call \in 0 .. Len(calls)
             /\ stream'[d][i].node \notin {"comminfo", "info", "stdout"} =>
                  d = OwnComm(stream'[d][i].node, stream'[d][i].call)
  <2>1. \/ i \in 1 .. Len(stream[d]) /\ stream'[d][i] = stream[d][i]
        \/ stream'[d][i] = x
    BY <1>1, <1>2, <1>3, Appended
  <2>2. QED
    BY <1>2, <2>1 DEF OfCalls, InOwnStream
<1>5. QED
  BY <1>1, <1>4 DEF OfCalls, InOwnStream, OwnComm

\* The application makes another call, which no rank has entered.
LEMMA CallsGrow ==
  ASSUME Typed, Application
  PROVE  /\ Len(calls) \in Nat /\ Len(calls') = Len(calls) + 1
         /\ \A k \in 1 .. Len(calls) : calls'[k] = calls[k] /\ calls[k].kind # "finalize"
         /\ UNCHANGED <<taken, todo, comm, id, known, stream, output>>
<1>1. PICK call : calls' = Append(calls, call)
  BY ZenonT(40) DEF Application, CallBegin, CallIter, CallEnd, CallFinalize, Call
<1>2. UNCHANGED <<taken, todo, comm, id, known, stream, output>>
  BY ZenonT(40) DEF Application, CallBegin, CallIter, CallEnd, CallFinalize, Call, engine
<1>3. calls \in Seq(ACall) /\ Len(calls) \in Nat
  BY LenProperties DEF Typed
<1>4. calls' \in Seq(ACall)
  BY ApplicationTyped DEF Typed
<1>5. Len(calls') = Len(calls) + 1 /\ \A k \in 1 .. Len(calls) : calls'[k] = calls[k]
  BY <1>1, <1>3
<1>6. \A k \in 1 .. Len(calls) : calls[k].kind # "finalize"
  BY DEF Application, CallBegin, CallIter, CallEnd, CallFinalize, Call
<1>7. QED
  BY <1>2, <1>3, <1>5, <1>6

\* It changes nothing for the ranks.
LEMMA ApplicationSteady ==
  ASSUME Typed, NEW left \in Lefts, Steady(left), OfCalls, InOwnStream, Application
  PROVE  Steady(left)' /\ OfCalls' /\ InOwnStream'
<1>1. left \in Lefts /\ Steady(left)
  OBVIOUS
<1>2. Typed /\ OfCalls /\ InOwnStream /\ TypeOK
  BY DEF Typed
<1>3. UNCHANGED <<taken, todo, comm, stream, output>>
  BY CallsGrow
<1>4. /\ Len(calls) \in Nat /\ Len(calls') = Len(calls) + 1
      /\ \A k \in 1 .. Len(calls) : calls'[k] = calls[k]
  BY CallsGrow
<1>5. \A r \in Ranks : taken[r] \in 0 .. Len(calls)
  BY <1>2 DEF TypeOK
<1>6. \A r \in Ranks : Here(r)' = Here(r) /\ Messages(r)' = Messages(r)
  BY <1>3, <1>4, <1>5 DEF Here, Messages
<1>7. ASSUME NEW c \in AllComms, NEW r \in c, NEW s \in c
      PROVE  Pace(left, r, s, c)'
  <2>1. Pace(left, r, s, c) /\ taken[r] \in 0 .. Len(calls) /\ taken[s] \in 0 .. Len(calls)
    BY <1>1, <1>5, CommFacts DEF Steady
  <2>2. CASE taken[r] < taken[s]
    <3>1. taken[s] \in 1 .. Len(calls)
          /\ \A k \in (taken[r] + 1) .. (taken[s] - 1) : k \in 1 .. Len(calls)
      BY <1>4, <2>1, <2>2
    <3>2. calls'[taken[s]] = calls[taken[s]]
          /\ \A k \in (taken[r] + 1) .. (taken[s] - 1) : calls'[k] = calls[k]
      BY <1>4, <3>1
    <3>3. QED
      BY <1>3, <2>1, <2>2, <3>2 DEF Pace, Total
  <2>3. CASE ~(taken[r] < taken[s])
    BY <1>3, <2>1, <2>3 DEF Pace
  <2>4. QED
    BY <2>2, <2>3
<1>8. \A r \in Ranks : \A c \in Own(r) : Goes(r, comm[r], c, left[r][c])'
  BY <1>1, <1>3, <1>6 DEF Steady, Goes
<1>9. \A r \in Ranks : output'[r] =>
         Doing(r, "read")' /\ \A d \in AllComms, c \in Own(r) : Goes(r, d, c, left[r][c])'
  BY <1>1, <1>3, <1>6 DEF Steady, Goes, Doing
<1>10. Steady(left)'
  BY <1>7, <1>8, <1>9 DEF Steady
<1>11. ASSUME NEW c \in AllComms, NEW i \in 1 .. Len(stream[c])
       PROVE  /\ stream[c][i].call \in 0 .. Len(calls')
              /\ stream[c][i].node \notin {"comminfo", "info", "stdout"} =>
                   c = OwnComm(stream[c][i].node, stream[c][i].call)'
  <2>1. stream[c][i].call \in 0 .. Len(calls)
    BY <1>2 DEF OfCalls
  <2>2. OwnComm(stream[c][i].node, stream[c][i].call)' = OwnComm(stream[c][i].node, stream[c][i].call)
    BY <1>3, <1>4, <2>1 DEF OwnComm
  <2>3. QED
    BY <1>2, <1>4, <2>1, <2>2 DEF InOwnStream
<1>12. OfCalls' /\ InOwnStream'
  BY <1>3, <1>11 DEF OfCalls, InOwnStream, OwnComm
<1>13. QED
  BY <1>10, <1>12

\* The syncs of a call: none on a communicator of a rank that is not part of it.
LEMMA TotalFacts ==
  ASSUME NEW call \in ACall, NEW c \in AllComms
  PROVE  /\ Total(call, c) \in Nat
         /\ \A r \in c : r \notin call.comm => Total(call, c) = 0
<1>1. CASE call.kind = "finalize"
  <2>1. Total(call, c) = IF c = World THEN Hooked + Hooked ELSE 0
    BY <1>1 DEF Total
  <2>2. call.comm = World
    BY <1>1, CallFacts
  <2>3. \A r \in c : r \in World
    BY CommFacts
  <2>4. QED
    BY <2>1, <2>2, <2>3 DEF Hooked
<1>2. CASE call.kind # "finalize"
  <2>1. call \in LoopCall /\ call.logComm \subseteq call.comm
    BY <1>2, CallFacts
  <2>2. call.parents \in Nat /\ call.logs \in Nat
    BY <2>1 DEF LoopCall
  <2>3. Total(call, c) = (IF c = call.comm THEN Hooked + 2 + (call.parents * 2) ELSE 0)
                           + (IF c = call.logComm THEN call.logs ELSE 0)
    BY <1>2 DEF Total
  <2>4. Total(call, c) \in Nat
    BY <2>2, <2>3 DEF Hooked
  <2>5. ASSUME NEW r \in c, r \notin call.comm
        PROVE  Total(call, c) = 0
    <3>1. c # call.comm /\ c # call.logComm
      BY <2>1, <2>5
    <3>2. QED
      BY <2>3, <3>1
  <2>6. QED
    BY <2>4, <2>5
<1>3. QED
  BY <1>1, <1>2

\* Rank r enters its next call: the calls in between are not on its communicators.
LEMMA EnterSteady ==
  ASSUME Typed, NEW left \in Lefts, Steady(left), NEW r \in Ranks, Enter(r)
  PROVE  \E less \in Lefts :
           /\ Steady(less)'
           /\ \A s \in Ranks \ {r} : less[s] = left[s]
           /\ \A c \in AllComms : less[r][c] = Total(calls[taken'[r]], c)
           /\ \A c \in Own(r) : left[r][c] = 0
<1>1. left \in Lefts /\ Steady(left)
  OBVIOUS
<1>2. Typed /\ Typed' /\ TypeOK /\ calls \in Seq(ACall)
  BY EnterTyped DEF Typed
<1>3. PICK n \in (taken[r] + 1) .. Len(calls) :
        /\ r \in calls[n].comm
        /\ \A k \in (taken[r] + 1) .. (n - 1) : r \notin calls[k].comm
        /\ taken' = [taken EXCEPT ![r] = n]
        /\ todo' = [todo EXCEPT ![r] = IF calls[n].kind = "finalize" THEN Shutdown
                                       ELSE Operations(calls[n], r)]
  BY DEF Enter
<1>4. UNCHANGED <<calls, comm, stream>> /\ todo[r] = << >>
  BY DEF Enter, app, engine
<1>5. \A s \in Ranks : taken[s] \in Nat /\ taken[s] <= Len(calls)
  BY <1>2, LenProperties DEF TypeOK
<1>6. Len(calls) \in Nat /\ n \in Nat /\ n \in 1 .. Len(calls) /\ taken[r] < n
  BY <1>2, <1>3, <1>5, LenProperties
<1>7. \A k \in 1 .. Len(calls) : calls[k] \in ACall
  BY <1>2, ElementOfSeq
<1> DEFINE call == calls[n]
           t == IF call.kind = "finalize" THEN Shutdown ELSE Operations(call, r)
<1>8. call \in ACall
  BY <1>6, <1>7
<1>9. /\ todo'[r] = t /\ \A s \in Ranks \ {r} : todo'[s] = todo[s]
      /\ taken'[r] = n /\ \A s \in Ranks \ {r} : taken'[s] = taken[s]
  BY <1>2, <1>3 DEF Typed, TypeOK
<1>10. ASSUME NEW c \in Own(r)
       PROVE  left[r][c] = 0
  <2>1. PICK e \in AllComms : Leads(<< >>, comm[r], e, Here(r), Messages(r), c, left[r][c])
    BY <1>1, <1>4 DEF Steady, Goes
  <2>2. QED
    BY <2>1, LeadsEmpty
<1>11. \E less \in Lefts : /\ \A c \in AllComms : less[r][c] = Total(call, c)
                          /\ \A s \in Ranks \ {r} : less[s] = left[s]
  <2> DEFINE totals == [c \in AllComms |-> Total(call, c)]
  <2>1. \A c \in AllComms : Total(call, c) \in Nat
    BY <1>8, TotalFacts
  <2>2. totals \in [AllComms -> Nat] /\ \A c \in AllComms : totals[c] = Total(call, c)
    BY <2>1
  <2> HIDE DEF call, totals
  <2>3. [left EXCEPT ![r] = totals] \in Lefts
    BY <2>2 DEF Lefts
  <2>4. [left EXCEPT ![r] = totals][r] = totals /\ \A s \in Ranks \ {r} : [left EXCEPT ![r] = totals][s] = left[s]
    BY DEF Lefts
  <2>5. QED
    BY <2>2, <2>3, <2>4
<1>12. PICK less \in Lefts : /\ \A c \in AllComms : less[r][c] = Total(call, c)
                           /\ \A s \in Ranks \ {r} : less[s] = left[s]
  BY <1>11
<1>13. t # << >> /\ t[1] = Read
  <2>1. World \in known[r]
    BY <1>2 DEF Typed
  <2>2. call.kind # "finalize" => call \in LoopCall
    BY <1>8, CallFacts
  <2>3. QED
    BY <1>3, <2>1, <2>2, EdgesType, OperationsType
<1>14. ASSUME NEW d \in AllComms, NEW c \in Own(r)
       PROVE  Goes(r, d, c, less[r][c])'
  <2>1. c \in AllComms /\ less[r][c] = Total(call, c)
    BY <1>12 DEF Own
  <2>2. Here(r)' = call.comm /\ Messages(r)' = call.logComm
    BY <1>4, <1>6, <1>9 DEF Here, Messages
  <2>3. call.comm \in AllComms
    BY <1>8, CallFacts
  <2>4. CASE call.kind = "finalize"
    <3>1. call.comm = World /\ t = Shutdown /\ Total(call, c) = IF c = World THEN Hooked + Hooked ELSE 0
      BY <1>8, <2>4, CallFacts DEF Total
    <3>2. Leads(Shutdown, d, World, World, call.logComm, c, IF c = World THEN Hooked + Hooked ELSE 0)
      BY EdgesLead
    <3> HIDE DEF call, t
    <3>3. Leads(todo'[r], d, World, Here(r)', Messages(r)', c, less[r][c])
      BY <1>9, <2>1, <2>2, <3>1, <3>2
    <3>4. QED
      BY <2>3, <3>1, <3>3 DEF Goes
  <2>5. CASE call.kind # "finalize"
    <3>1. call \in LoopCall /\ r \in call.comm /\ t = Operations(call, r)
      BY <1>3, <1>8, <2>5, CallFacts
    <3>2. Leads(Operations(call, r), d, call.comm, call.comm, call.logComm, c, Total(call, c))
      BY <3>1, OperationsLeads
    <3> HIDE DEF call, t
    <3>3. Leads(todo'[r], d, call.comm, Here(r)', Messages(r)', c, less[r][c])
      BY <1>9, <2>1, <2>2, <3>1, <3>2
    <3>4. QED
      BY <2>3, <3>3 DEF Goes
  <2>6. QED
    BY <2>4, <2>5
<1> HIDE DEF t
<1>15. \A s \in Ranks \ {r} : Here(s)' = Here(s) /\ Messages(s)' = Messages(s)
  BY <1>4, <1>9 DEF Here, Messages
<1>16. ASSUME NEW s \in Ranks, NEW c \in Own(s)
       PROVE  Goes(s, comm[s], c, less[s][c])'
  <2>1. CASE s = r
    <3>1. comm'[r] \in AllComms
      BY <1>2, <1>4 DEF TypeOK
    <3>2. QED
      BY <1>14, <2>1, <3>1 DEF Goes
  <2>2. CASE s # r
    <3>1. Goes(s, comm[s], c, left[s][c]) /\ less[s][c] = left[s][c]
      BY <1>1, <1>12, <2>2 DEF Steady
    <3>2. QED
      BY <1>4, <1>9, <1>15, <2>2, <3>1 DEF Goes
  <2>3. QED
    BY <2>1, <2>2
<1>17. ASSUME NEW s \in Ranks, output'[s]
       PROVE  Doing(s, "read")' /\ \A d \in AllComms, c \in Own(s) : Goes(s, d, c, less[s][c])'
  <2>1. CASE s = r
    <3>1. Doing(r, "read")'
      BY <1>9, <1>13 DEF Doing, Read
    <3>2. QED
      BY <1>14, <2>1, <3>1
  <2>2. CASE s # r
    <3>1. output[s]
      BY <1>2, <1>17, <2>2 DEF Enter, TypeOK
    <3>2. Doing(s, "read") /\ \A d \in AllComms, c \in Own(s) : Goes(s, d, c, left[s][c])
      BY <1>1, <3>1 DEF Steady
    <3>3. todo'[s] = todo[s] /\ less[s] = left[s]
      BY <1>9, <1>12, <2>2
    <3>4. QED
      BY <1>15, <2>2, <3>2, <3>3 DEF Doing, Goes
  <2>3. QED
    BY <2>1, <2>2
<1>18. ASSUME NEW c \in AllComms, NEW s \in c, r \in c, s # r
       PROVE  Pace(less, r, s, c)' /\ Pace(less, s, r, c)'
  <2>1. /\ s \in Ranks /\ taken[s] \in Nat /\ taken[r] \in Nat /\ taken[s] <= Len(calls)
        /\ taken'[s] = taken[s] /\ less[s][c] = left[s][c] /\ less[r][c] = Total(calls[n], c)
        /\ left[r][c] = 0
    BY <1>5, <1>9, <1>10, <1>12, <1>18, CommFacts DEF Own
  <2>2. Pace(left, r, s, c) /\ Pace(left, s, r, c)
    BY <1>1, <1>18 DEF Steady
  <2>3. \A k \in (taken[r] + 1) .. (n - 1) : Total(calls[k], c) = 0
    <3>1. \A k \in (taken[r] + 1) .. (n - 1) : k \in 1 .. Len(calls)
      BY <1>6, <2>1
    <3>2. QED
      BY <1>3, <1>7, <1>18, <3>1, TotalFacts
  <2> HIDE DEF call
  <2>4. CASE n = taken[s]
    <3>1. less[s][c] = less[r][c]
      BY <1>6, <2>1, <2>2, <2>4 DEF Pace
    <3>2. QED
      BY <1>9, <2>1, <2>4, <3>1 DEF Pace
  <2>5. CASE n < taken[s]
    <3>1. /\ left[s][c] = Total(calls[taken[s]], c)
          /\ \A k \in (taken[r] + 1) .. (taken[s] - 1) : Total(calls[k], c) = 0
      BY <1>6, <2>1, <2>2, <2>5 DEF Pace
    <3>2. n \in (taken[r] + 1) .. (taken[s] - 1)
      BY <1>6, <2>1, <2>5
    <3>3. less[r][c] = 0
      BY <2>1, <3>1, <3>2
    <3>4. \A k \in (n + 1) .. (taken[s] - 1) : k \in (taken[r] + 1) .. (taken[s] - 1)
      BY <1>6, <2>1
    <3>5. \A k \in (n + 1) .. (taken[s] - 1) : Total(calls[k], c) = 0
      BY <3>1, <3>4
    <3>6. Pace(less, r, s, c)'
      BY <1>4, <1>6, <1>9, <2>1, <2>5, <3>1, <3>3, <3>5 DEF Pace, Total
    <3>7. Pace(less, s, r, c)'
      BY <1>6, <1>9, <2>1, <2>5 DEF Pace
    <3>8. QED
      BY <3>6, <3>7
  <2>6. CASE taken[s] < n
    <3>1. left[s][c] = 0 /\ \A k \in (taken[s] + 1) .. (n - 1) : Total(calls[k], c) = 0
      <4>1. CASE taken[s] = taken[r]
        BY <2>1, <2>2, <2>3, <4>1 DEF Pace
      <4>2. CASE taken[r] < taken[s]
        <5>1. left[s][c] = Total(calls[taken[s]], c)
          BY <2>2, <4>2 DEF Pace
        <5>2. taken[s] \in (taken[r] + 1) .. (n - 1)
          BY <1>6, <2>1, <2>6, <4>2
        <5>3. \A k \in (taken[s] + 1) .. (n - 1) : k \in (taken[r] + 1) .. (n - 1)
          BY <1>6, <2>1, <4>2
        <5>4. QED
          BY <2>3, <5>1, <5>2, <5>3
      <4>3. CASE taken[s] < taken[r]
        <5>1. /\ left[s][c] = 0 /\ Total(calls[taken[r]], c) = 0
              /\ \A k \in (taken[s] + 1) .. (taken[r] - 1) : Total(calls[k], c) = 0
          BY <2>1, <2>2, <4>3 DEF Pace
        <5>2. \A k \in (taken[s] + 1) .. (n - 1) :
                \/ k \in (taken[s] + 1) .. (taken[r] - 1)
                \/ k = taken[r]
                \/ k \in (taken[r] + 1) .. (n - 1)
          BY <1>6, <2>1
        <5>3. QED
          BY <2>3, <5>1, <5>2
      <4>4. QED
        BY <2>1, <4>1, <4>2, <4>3
    <3>2. Pace(less, s, r, c)'
      BY <1>4, <1>6, <1>9, <2>1, <2>6, <3>1 DEF Pace, Total
    <3>3. Pace(less, r, s, c)'
      BY <1>6, <1>9, <2>1, <2>6 DEF Pace
    <3>4. QED
      BY <3>2, <3>3
  <2>7. QED
    BY <1>6, <2>1, <2>4, <2>5, <2>6
<1>19. ASSUME NEW c \in AllComms, NEW q \in c, NEW s \in c
       PROVE  Pace(less, q, s, c)'
  <2>1. q \in Ranks /\ s \in Ranks
    BY CommFacts
  <2>2. CASE q = r /\ s = r
    <3>1. ~(taken'[q] < taken'[s])
      BY <1>6, <1>9, <2>2
    <3>2. QED
      BY <2>2, <3>1 DEF Pace
  <2>3. CASE q = r /\ s # r
    BY <1>18, <2>3
  <2>4. CASE q # r /\ s = r
    BY <1>18, <2>4
  <2>5. CASE q # r /\ s # r
    <3>1. Pace(left, q, s, c)
      BY <1>1 DEF Steady
    <3>2. taken'[q] = taken[q] /\ taken'[s] = taken[s] /\ less[q] = left[q] /\ less[s] = left[s]
      BY <1>9, <1>12, <2>1, <2>5
    <3>3. QED
      BY <1>4, <3>1, <3>2 DEF Pace, Total
  <2>6. QED
    BY <2>2, <2>3, <2>4, <2>5
<1>20. Steady(less)'
  BY <1>16, <1>17, <1>19 DEF Steady
<1>21. QED
  BY <1>9, <1>10, <1>12, <1>20

\* At the start every rank has the hooks of the action to do, on the world.
LEMMA InitSteady == Init => IInv
<1> SUFFICES ASSUME Init
             PROVE  IInv
  OBVIOUS
<1>1. Typed
  BY InitTyped
<1> DEFINE left == [r \in Ranks |-> [c \in AllComms |-> IF c = World THEN Hooked + Hooked ELSE 0]]
<1>2. left \in Lefts
  BY DEF Lefts, Hooked
<1>3. \A r \in Ranks : taken[r] = 0 /\ todo[r] = Startup /\ comm[r] = World /\ ~output[r]
  BY DEF Init
<1>4. \A r \in Ranks : Here(r) = World /\ Messages(r) = World
  BY <1>3 DEF Here, Messages
<1>5. ASSUME NEW r \in Ranks, NEW c \in Own(r)
      PROVE  Goes(r, comm[r], c, left[r][c])
  <2>1. c \in AllComms /\ World \in AllComms
    BY CommFacts DEF Own
  <2>2. left[r][c] = IF c = World THEN Hooked + Hooked ELSE 0
    BY <2>1
  <2>3. \E e \in AllComms : Leads(Startup, World, e, World, World, c, IF c = World THEN Hooked + Hooked ELSE 0)
    BY <2>1, EdgesLead
  <2> HIDE DEF left
  <2>4. QED
    BY <1>3, <1>4, <2>2, <2>3 DEF Goes
<1>6. ASSUME NEW c \in AllComms, NEW r \in c, NEW s \in c
      PROVE  Pace(left, r, s, c)
  <2>1. r \in Ranks /\ s \in Ranks
    BY CommFacts
  <2>2. taken[r] = 0 /\ taken[s] = 0 /\ left[r][c] = left[s][c]
    BY <1>3, <2>1
  <2>3. QED
    BY <2>2 DEF Pace
<1>7. Steady(left)
  BY <1>3, <1>5, <1>6 DEF Steady
<1>8. OfCalls /\ InOwnStream
  <2> DEFINE first == <<[jid |-> -1, node |-> "comminfo", call |-> 0], [jid |-> 0, node |-> "info", call |-> 0]>>
  <2>1. /\ stream[World] = first /\ \A c \in AllComms \ {World} : stream[c] = << >>
        /\ Len(calls) = 0
    BY CommFacts DEF Init
  <2>2. Len(first) = 2 /\ first[1].call = 0 /\ first[2].call = 0
        /\ first[1].node = "comminfo" /\ first[2].node = "info"
    OBVIOUS
  <2> HIDE DEF first
  <2>3. ASSUME NEW c \in AllComms, NEW i \in 1 .. Len(stream[c])
        PROVE  stream[c][i].call = 0 /\ stream[c][i].node \in {"comminfo", "info"}
    <3>1. c = World
      BY <2>1, EmptySeq
    <3>2. i \in 1 .. 2
      BY <2>1, <2>2, <3>1
    <3>3. QED
      <4>1. i = 1 \/ i = 2
        BY <3>2
      <4>2. QED
        BY <2>1, <2>2, <3>1, <4>1
  <2>4. QED
    BY <2>1, <2>3 DEF OfCalls, InOwnStream
<1>9. QED
  BY <1>1, <1>2, <1>7, <1>8 DEF IInv

\* An operation of one rank changes no number of syncs to come.
LEMMA StepSteady ==
  ASSUME Typed, NEW left \in Lefts, Steady(left), ~LogsToStdout, NEW r \in Ranks, Step(r)
  PROVE  Steady(left)'
<1>1. CASE DoSetComm(r)
  BY <1>1, SetCommSteady
<1>2. CASE DoWrite(r)
  <2>1. Doing(r, "write") /\ Instead(r, << >>) /\ UNCHANGED <<calls, taken, comm, output>>
    BY <1>2, WriteFacts
  <2>2. ~output[r]
    BY <2>1, NoOutput
  <2>3. QED
    BY <2>1, <2>2, PlainSteady
<1>3. CASE DoLog(r)
  BY <1>3, LogSteady
<1>4. CASE DoName(r) \/ DoPrint(r)
  BY <1>4, NameSteady
<1>5. CASE DoRead(r)
  BY <1>5, ReadSteady
<1>6. QED
  BY <1>1, <1>2, <1>3, <1>4, <1>5 DEF Step

\* Every step keeps the invariant.
LEMMA NextSteady ==
  ASSUME IInv, ~LogsToStdout, [Next]_vars
  PROVE  IInv'
<1>1. PICK left \in Lefts : Steady(left)
  BY DEF IInv
<1>2. Typed /\ OfCalls /\ InOwnStream
  BY DEF IInv
<1>3. (\E less \in Lefts : Steady(less)') /\ OfCalls' /\ InOwnStream'
  <2>1. CASE UNCHANGED vars
    <3>1. UNCHANGED <<calls, taken, todo, comm, stream, output>>
      BY <2>1 DEF vars
    <3>2. Steady(left)'
      BY <1>1, <3>1 DEF Steady, Goes, Here, Messages, Pace, Total, Doing
    <3>3. QED
      BY <1>2, <3>1, <3>2 DEF OfCalls, InOwnStream, OwnComm
  <2>2. CASE Application
    BY <1>1, <1>2, <2>2, ApplicationSteady
  <2>3. ASSUME NEW r \in Ranks, Enter(r)
        PROVE  (\E less \in Lefts : Steady(less)') /\ OfCalls' /\ InOwnStream'
    <3>1. UNCHANGED <<calls, stream>>
      BY <2>3 DEF Enter, app, engine
    <3>2. \E less \in Lefts : Steady(less)'
      BY <1>1, <1>2, <2>3, EnterSteady
    <3>3. QED
      BY <1>2, <3>1, <3>2 DEF OfCalls, InOwnStream, OwnComm
  <2>4. ASSUME NEW r \in Ranks, Step(r)
        PROVE  (\E less \in Lefts : Steady(less)') /\ OfCalls' /\ InOwnStream'
    <3>1. Steady(left)'
      BY <1>1, <1>2, <2>4, StepSteady
    <3>2. CASE DoWrite(r)
      BY <1>1, <1>2, <3>1, <3>2, WriteStreams
    <3>3. CASE DoSetComm(r) \/ DoLog(r) \/ DoName(r) \/ DoPrint(r) \/ DoRead(r)
      <4>1. UNCHANGED <<calls, stream>>
        BY <3>3 DEF DoSetComm, DoLog, DoName, DoPrint, DoRead, app, engine
      <4>2. QED
        BY <1>2, <3>1, <4>1 DEF OfCalls, InOwnStream, OwnComm
    <3>4. QED
      BY <2>4, <3>2, <3>3 DEF Step
  <2>5. ASSUME NEW c \in AllComms, Collective(c)
        PROVE  (\E less \in Lefts : Steady(less)') /\ OfCalls' /\ InOwnStream'
    <3>1. CASE DoGather(c)
      <4>1. Together(c, "gather") /\ GoOn(c) /\ UNCHANGED <<calls, taken, comm, output>>
        BY <3>1 DEF DoGather, app
      <4>2. \E less \in Lefts : Steady(less)'
        BY <1>1, <1>2, <4>1, CollectiveSteady
      <4>3. QED
        BY <1>2, <3>1, <4>2, GatherStreams
    <3>2. CASE DoSync(c)
      <4>1. Together(c, "sync") /\ GoOn(c) /\ UNCHANGED <<calls, taken, comm, output, stream>>
        BY <3>2 DEF DoSync, app
      <4>2. \E less \in Lefts : Steady(less)'
        BY <1>1, <1>2, <4>1, CollectiveSteady
      <4>3. QED
        BY <1>2, <4>1, <4>2 DEF OfCalls, InOwnStream, OwnComm
    <3>3. QED
      BY <2>5, <3>1, <3>2 DEF Collective
  <2>6. QED
    BY <2>1, <2>2, <2>3, <2>4, <2>5 DEF Next
<1>4. Typed'
  BY <1>2, NextTyped
<1>5. QED
  BY <1>3, <1>4 DEF IInv

\* A rank at a collective has a sync on its communicator to come, if others are in it.
LEMMA CollectiveCounts ==
  ASSUME Typed, NEW left \in Lefts, Steady(left), NEW r \in Ranks,
         Doing(r, "gather") \/ Doing(r, "sync")
  PROVE  /\ Head1(r) = IF comm[r] \in known[r] THEN Sync ELSE Gather
         /\ comm[r] # {r} => left[r][comm[r]] # 0
<1> DEFINE c == comm[r]
           n == left[r][c]
           here == Here(r)
           logs == Messages(r)
           K == known[r]
<1>1. c \in AllComms /\ r \in c /\ c \in Own(r) /\ TodoOK(r) /\ todo[r] # << >>
  BY DEF Typed, TypeOK, Own, Doing
<1>2. PICK e \in AllComms : Leads(todo[r], c, e, here, logs, c, n)
  BY <1>1 DEF Steady, Goes
<1>3. /\ After(Gather, c) = c /\ Syncs(Gather, c, c) = 0
      /\ After(Sync, c) = c /\ Syncs(Sync, c, c) = 1
  BY OtherEffect, SyncEffect
<1>4. CASE c \in K
  <2>1. todo[r] \in Seq(Ops(r, K))
    BY <1>1, <1>4 DEF TodoOK
  <2>2. /\ Head1(r) \in Ops(r, K) /\ Tail(todo[r]) \in Seq(Ops(r, K))
        /\ todo[r] = <<Head1(r)>> \o Tail(todo[r])
    BY <1>1, <2>1, HeadTail DEF Head1
  <2>3. Head1(r) = Sync
    BY <2>2, OpsCases DEF Doing, Head1
  <2> DEFINE S == Ops(r, K)
             t == Tail(todo[r])
  <2>4. Sync \in S /\ t \in Seq(S) /\ Leads(<<Sync>> \o t, c, e, here, logs, c, n)
    BY <1>2, <2>2, <2>3
  <2> HIDE DEF S, t, c, n, here, logs
  <2>5. PICK j \in Nat : n = Syncs(Sync, c, c) + j
    BY <2>4, LeadsTail
  <2>6. n # 0
    BY <1>3, <2>5
  <2>7. QED
    BY <1>4, <2>3, <2>6 DEF c, n
<1>5. CASE c \notin K
  <2>1. PICK t \in Seq(Ops(r, K)) : todo[r] = <<Gather>> \o t /\ (c # {r} => t # << >> /\ t[1] = Sync)
    BY <1>1, <1>5 DEF TodoOK
  <2> DEFINE S == Ops(r, K) \cup {Gather}
  <2>2. t \in Seq(S) /\ Gather \in S
    BY SeqMonotonic
  <2> HIDE DEF S
  <2>3. Head1(r) = Gather
    BY <2>1, <2>2, ConsFacts DEF Head1
  <2>4. Leads(<<Gather>> \o t, c, e, here, logs, c, n)
    BY <1>2, <2>1
  <2> HIDE DEF c, n, here, logs
  <2>5. PICK j \in Nat : n = 0 + j /\ Leads(t, c, e, here, logs, c, j)
    BY <1>3, <2>2, <2>4, LeadsTail
  <2>6. ASSUME c # {r}
        PROVE  n # 0
    <3>1. t = <<Sync>> \o Tail(t) /\ Tail(t) \in Seq(S) /\ Sync \in S
      BY <2>1, <2>2, <2>6, HeadTail
    <3> DEFINE u == Tail(t)
    <3>2. u \in Seq(S) /\ Leads(<<Sync>> \o u, c, e, here, logs, c, j)
      BY <2>5, <3>1
    <3> HIDE DEF u
    <3>3. PICK i \in Nat : j = Syncs(Sync, c, c) + i
      BY <3>1, <3>2, LeadsTail
    <3>4. QED
      BY <1>3, <2>5, <3>3
  <2>7. QED
    BY <1>5, <2>3, <2>6 DEF c, n
<1>6. QED
  BY <1>4, <1>5

\* So ranks that are at a collective on the same communicator are in the same call.
LEMMA SteadyInStep ==
  ASSUME IInv
  PROVE  InStep
<1>1. PICK left \in Lefts : Steady(left)
  BY DEF IInv
<1>2. Typed
  BY DEF IInv
<1>3. SUFFICES ASSUME NEW c \in AllComms, NEW r \in c, NEW s \in c, r # s,
                      Doing(r, "gather") \/ Doing(r, "sync"),
                      Doing(s, "gather") \/ Doing(s, "sync"),
                      comm[r] = c, comm[s] = c
               PROVE  taken[r] = taken[s] /\ Head1(r) = Head1(s)
  BY DEF InStep
<1>4. r \in Ranks /\ s \in Ranks /\ c # {r} /\ c # {s} /\ taken[r] \in Nat /\ taken[s] \in Nat
  <2>1. r \in Ranks /\ s \in Ranks
    BY <1>3, CommFacts
  <2>2. taken \in [Ranks -> 0 .. Len(calls)]
    BY <1>2 DEF Typed, TypeOK
  <2>3. QED
    BY <1>3, <2>1, <2>2
<1>5. c \in known[r] <=> c \in known[s]
  BY <1>2 DEF Typed, KnownOK
<1>6. /\ Head1(r) = IF c \in known[r] THEN Sync ELSE Gather
      /\ Head1(s) = IF c \in known[s] THEN Sync ELSE Gather
      /\ left[r][c] # 0 /\ left[s][c] # 0
  BY <1>1, <1>2, <1>3, <1>4, CollectiveCounts
<1>7. Pace(left, r, s, c) /\ Pace(left, s, r, c)
  BY <1>1 DEF Steady
<1>8. taken[r] = taken[s]
  BY <1>4, <1>6, <1>7 DEF Pace
<1>9. QED
  BY <1>5, <1>6, <1>8

-----------------------------------------------------------------------------
(* The two properties.                                                     *)

\* When the logger does not print on the captured standard output, the invariant
\* holds in every state.
THEOREM Invariance ==
  ASSUME ~LogsToStdout
  PROVE  Spec => []IInv
<1>1. Init => IInv
  BY InitSteady
<1>2. IInv /\ [Next]_vars => IInv'
  BY NextSteady
<1>3. QED
  BY <1>1, <1>2, PTL DEF Spec

\* Then every node of a call is in the stream of the communicator it is about,
\* whatever messages and captured output were written in between.
THEOREM InOwnStreamTheorem ==
  ASSUME ~LogsToStdout
  PROVE  Spec => []InOwnStream
<1>1. IInv => InOwnStream
  BY DEF IInv
<1>2. QED
  BY <1>1, Invariance, PTL

\* And ranks that meet in a collective of the engine are in it for the same call:
\* no rank gathers what another one counts, and none takes the number of a later call.
THEOREM InStepTheorem ==
  ASSUME ~LogsToStdout
  PROVE  Spec => []InStep
<1>1. IInv => InStep
  BY SteadyInStep
<1>2. QED
  BY <1>1, Invariance, PTL

-----------------------------------------------------------------------------
(* The same for a collective, and for sets of operations.                  *)

\* What a rank at a collective has to do.
LEMMA CollectiveTodo ==
  ASSUME Typed, NEW r \in Ranks, NEW op \in {"gather", "sync"}, Doing(r, op)
  PROVE  LET h == IF op = "sync" THEN Sync ELSE Gather
         IN  /\ Head1(r) = h /\ todo[r][1] = h /\ h \in SomeOp
             /\ Tail(todo[r]) \in Seq(SomeOp) /\ todo[r] = <<h>> \o Tail(todo[r]) /\ todo[r] # << >>
<1>1. AnyOp \subseteq SomeOp
  <2>1. \A q \in Ranks : Ops(q, AllComms) \subseteq SomeOp
    BY DEF Ops, SomeOp, Own
  <2>2. Gather \in SomeOp
    BY SomeOpFacts
  <2>3. QED
    BY <2>1, <2>2 DEF AnyOp
<1>2. /\ Tail(todo[r]) \in Seq(AnyOp) /\ todo[r] = <<Head1(r)>> \o Tail(todo[r]) /\ todo[r] # << >>
      /\ Head1(r) = IF op = "sync" THEN Sync ELSE Gather
  BY AtCollective
<1>3. Tail(todo[r]) \in Seq(SomeOp)
  BY <1>1, <1>2, SeqMonotonic
<1>4. Sync \in SomeOp /\ Gather \in SomeOp
  BY SomeOpFacts
<1>5. QED
  BY <1>2, <1>3, <1>4 DEF Head1

\* So does a collective; the one that o makes it do is the last sync before the others.
LEMMA PassesCollective ==
  ASSUME Typed, NEW r \in Ranks, NEW op \in {"gather", "sync"}, Doing(r, op),
         todo'[r] = Tail(todo[r]), comm'[r] = comm[r],
         NEW here, NEW logs, NEW S, NEW o, NEW rest, NEW n, NEW Q, Milestone(here, logs, S, o, rest, n, Q),
         NEW k \in Nat, Passes(todo[r], comm[r], k, here, S, o, rest, n, Q),
         NEW e, Leads(todo[r], comm[r], e, here, logs, here, k),
         todo[r] \in Q => todo'[r] \in Q
  PROVE  Passes(todo'[r], comm'[r], IF op = "sync" /\ comm[r] = here THEN k - 1 ELSE k, here, S, o, rest, n, Q)
<1> DEFINE h == IF op = "sync" THEN Sync ELSE Gather
           t == Tail(todo[r])
           j == IF op = "sync" /\ comm[r] = here THEN k - 1 ELSE k
<1>1. h \in SomeOp /\ t \in Seq(SomeOp) /\ todo[r] = <<h>> \o t /\ todo[r][1] = h
  BY CollectiveTodo
<1>2. rest \in Seq(SomeOp) /\ Closed(S) /\ S \subseteq SomeOp /\ rest \in Q /\ n \in Nat
  BY DEF Milestone, Closed
<1>3. Gather \in SomeOp /\ Sync \in SomeOp /\ o \in SomeOp
  BY SomeOpFacts DEF Milestone
<1>4. /\ j <= k /\ j \in Int /\ (op = "sync" /\ comm[r] = here => j = k - 1)
      /\ todo'[r] = t /\ comm'[r] = comm[r]
  OBVIOUS
<1> SUFFICES Passes(todo'[r], comm'[r], j, here, S, o, rest, n, Q)
  OBVIOUS
<1> HIDE DEF h, t, j
<1> DEFINE z == <<o>> \o rest
<1>5. z \in Seq(SomeOp) /\ z[1] = o /\ Tail(z) = rest
  BY <1>2, <1>3, ConsFacts
<1>6. /\ \A a \in SomeOp, u \in Seq(SomeOp) : (<<a>> \o u)[1] = a /\ Tail(<<a>> \o u) = u
      /\ todo[r][1] = h /\ Tail(todo[r]) = t
  <2>1. \A a \in SomeOp, u \in Seq(SomeOp) : (<<a>> \o u)[1] = a /\ Tail(<<a>> \o u) = u
    BY ConsFacts
  <2>2. QED
    BY <1>1, <2>1
<1>7. CASE \E a \in Seq(S) : todo[r] = a \o z
  <2>1. PICK a \in Seq(S) : todo[r] = a \o z
    BY <1>7
  <2>2. a \in Seq(SomeOp)
    BY <1>2, SeqMonotonic
  <2>3. CASE a = << >>
    <3>1. todo[r] = z
      BY <1>5, <2>1, <2>3, ConcatEmptySeq
    <3>2. h = o /\ t = rest
      BY <1>5, <1>6, <3>1
    <3>3. k = n + 1 /\ After(o, comm[r]) = here
      BY <3>1, MilestoneCount
    <3>4. o = Sync /\ op = "sync"
      <4>1. \A v : Gather # SetComm(v, TRUE) /\ Sync # SetComm(v, TRUE) /\ Gather # Sync
        <5>1. \A v : Gather.op = "gather" /\ Sync.op = "sync" /\ SetComm(v, TRUE).op = "setComm"
          BY DEF Gather, Sync, SetComm
        <5>2. QED
          BY <5>1
      <4>2. QED
        BY <3>2, <4>1 DEF Milestone, h
    <3>5. comm[r] = here
      BY <3>3, <3>4, SyncEffect
    <3>6. j = n
      BY <1>2, <1>4, <3>3, <3>4, <3>5
    <3>7. todo'[r] \in Q /\ j <= n
      BY <1>2, <1>4, <3>2, <3>6
    <3>8. QED
      BY ONLY <3>7 DEF Passes
  <2>4. CASE a # << >>
    <3>1. Tail(a) \in Seq(S) /\ a[1] \in S /\ a = <<a[1]>> \o Tail(a)
      BY <2>4, HeadTail
    <3> DEFINE x == a[1]
               b == Tail(a)
               y == <<x>>
    <3>2. x \in SomeOp /\ b \in Seq(S) /\ a = y \o b /\ b \in Seq(SomeOp) /\ y \in Seq(SomeOp)
      BY <1>2, <3>1, SeqMonotonic, Tuples
    <3> HIDE DEF x, b, y, z
    <3>3. todo[r] = y \o (b \o z) /\ b \o z \in Seq(SomeOp)
      <4>1. (y \o b) \o z = y \o (b \o z)
        <5>1. y \in Seq(SomeOp) /\ b \in Seq(SomeOp) /\ z \in Seq(SomeOp)
          BY <1>5, <3>2
        <5>2. QED
          BY ONLY <5>1, ConcatAssociative
      <4>2. b \o z \in Seq(SomeOp)
        BY <1>5, <3>2, ConcatProperties
      <4>3. QED
        BY <2>1, <3>2, <4>1, <4>2
    <3>4. t = b \o z
      <4> DEFINE u == b \o z
      <4> HIDE DEF u
      <4>1. u \in Seq(SomeOp) /\ todo[r] = <<x>> \o u
        BY <3>3 DEF u, y
      <4>2. Tail(<<x>> \o u) = u
        BY <1>6, <3>2, <4>1
      <4>3. QED
        BY <1>6, <4>1, <4>2 DEF u
    <3>5. QED
      BY <1>4, <3>2, <3>4 DEF Passes, z
  <2>5. QED
    BY <2>3, <2>4
<1>8. CASE o = SetComm(here, TRUE) /\ comm[r] = here /\ todo[r] = <<Gather>> \o (<<Sync>> \o rest)
  <2> DEFINE u == <<Sync>> \o rest
  <2>1. u \in Seq(SomeOp) /\ todo[r] = <<Gather>> \o u
    BY <1>2, <1>3, <1>8, ConsFacts
  <2> HIDE DEF u
  <2>2. t = u
    <3>1. Tail(<<Gather>> \o u) = u
      BY <1>3, <1>6, <2>1
    <3>2. QED
      BY <1>6, <2>1, <3>1
  <2>3. QED
    BY <1>4, <1>8, <2>2 DEF Passes, u
<1>9. CASE o = SetComm(here, TRUE) /\ comm[r] = here /\ todo[r] = <<Sync>> \o rest
  <2>1. t = rest /\ h = Sync
    <3>1. (<<Sync>> \o rest)[1] = Sync /\ Tail(<<Sync>> \o rest) = rest
      BY <1>2, <1>3, <1>6
    <3>2. QED
      BY <1>6, <1>9, <3>1
  <2>2. op = "sync"
    <3>1. Gather # Sync
      <4>1. Gather.op = "gather" /\ Sync.op = "sync"
        BY DEF Gather, Sync
      <4>2. QED
        BY <4>1
    <3>2. QED
      BY <2>1, <3>1 DEF h
  <2>3. k = n + 1
    <3>1. PICK i \in Nat : k = Syncs(Sync, here, here) + i /\ Leads(rest, After(Sync, here), e, here, logs, here, i)
      BY <1>2, <1>3, <1>9, LeadsTail
    <3>2. Syncs(Sync, here, here) = 1 /\ After(Sync, here) = here
      BY SyncEffect
    <3>3. PICK d \in AllComms : Leads(rest, here, d, here, logs, here, n)
      BY DEF Milestone
    <3>4. Leads(rest, here, e, here, logs, here, i)
      BY <3>1, <3>2
    <3>5. i = n
      BY <1>2, <3>3, <3>4, LeadsUnique
    <3>6. QED
      BY <3>1, <3>2, <3>5
  <2>4. j = n
    BY <1>2, <1>4, <1>9, <2>2, <2>3
  <2>5. todo'[r] \in Q /\ j <= n
    BY <1>2, <1>4, <2>1, <2>4
  <2>6. QED
    BY ONLY <2>5 DEF Passes
<1>10. CASE todo[r] \in Q /\ k <= n
  <2>1. j <= n
    BY <1>2, <1>4, <1>10
  <2>2. QED
    BY <1>10, <2>1 DEF Passes
<1>11. QED
  BY <1>7, <1>8, <1>9, <1>10 DEF Passes, z

\* A list of operations of a closed set stays one.
LEMMA ClosedKept ==
  ASSUME Typed, NEW r \in Ranks, NEW S, Closed(S), todo[r] \in Seq(S)
  PROVE  /\ Step(r) => todo'[r] \in Seq(S)
         /\ todo[r] # << >> => Tail(todo[r]) \in Seq(S) /\ todo[r][1] \in S
<1>1. todo[r] # << >> => Tail(todo[r]) \in Seq(S) /\ todo[r][1] \in S
  BY HeadTail
<1>2. ASSUME Step(r)
      PROVE  todo'[r] \in Seq(S)
  <2>1. todo[r] # << >> /\ \A P : Closed(P) /\ Head1(r) \in P => \E p \in Seq(P) : todo'[r] = p \o Tail(todo[r])
    BY <1>2, StepTodo
  <2>2. Head1(r) \in S /\ Tail(todo[r]) \in Seq(S)
    BY <1>1, <2>1 DEF Head1
  <2>3. PICK p \in Seq(S) : todo'[r] = p \o Tail(todo[r])
    BY <2>1, <2>2
  <2>4. QED
    BY <2>2, <2>3, ConcatProperties
<1>3. QED
  BY <1>1, <1>2

-----------------------------------------------------------------------------
(* The milestones of a call: the syncs that start the call, start and end its *)
(* point, and end the call.                                                *)

\* What comes after each of them; the last one is followed by a single ended node.
Ending(call) == <<Write("ended")>> \o Times(PointGroup(call.comm, Test(<< >>)), call.parents)
Tests(call, r) == Test(Body(call, r)) \o Test(<< >>)
Starting(call, r) == <<Write("started")>> \o (Tests(call, r) \o (<<Sync>> \o Ending(call)))
Opening(call, r) ==
  IF WithAction
  THEN <<Write("actionStarted"), Write("actionFinished")>> \o (<<SetComm(call.comm, TRUE)>> \o Starting(call, r))
  ELSE Starting(call, r)

\* What may come before the first, and the operations of a message.
Front == {Read, Gather, Write("stdout")} \cup {SetComm(v, FALSE) : v \in AllComms}
Messaging == {Write("log"), NameLog} \cup {LogOn(v) : v \in AllComms}
Unstarted == SomeOp \ (Messaging \cup {Write("started")})
Unended == SomeOp \ {Write("ended")}
Unlogged == SomeOp \ Messaging

\* One sequence after another, as an operator of its own; brackets do not matter.
Cat(s, t) == s \o t

\* The operations of a call in a row.
LEMMA OperationsRow ==
  ASSUME NEW call \in LoopCall, NEW r \in call.comm
  PROVE  /\ Ending(call) \in Seq(SomeOp) /\ Starting(call, r) \in Seq(SomeOp)
         /\ Tests(call, r) \in Seq(SomeOp) /\ Opening(call, r) \in Seq(SomeOp)
         /\ Operations(call, r) = <<Read>> \o (<<SetComm(call.comm, TRUE)>> \o Opening(call, r))
<1> DEFINE here == call.comm
           s == SetComm(here, TRUE)
           a == Write("actionStarted")
           b == Write("actionFinished")
           u == Write("started")
           v == Write("ended")
           e == << >>
           tests == Tests(call, r)
           group == PointGroup(here, Test(e))
           parents == Times(group, call.parents)
           ending == <<v>> \o parents
           starting == <<u>> \o (tests \o (<<Sync>> \o ending))
<1>1. here \in AllComms /\ call.parents \in Nat /\ here \in Own(r)
  BY DEF LoopCall, Own
<1>2. /\ s \in SomeOp /\ a \in SomeOp /\ b \in SomeOp /\ u \in SomeOp /\ v \in SomeOp
      /\ Read \in SomeOp /\ Sync \in SomeOp
  BY <1>1, SomeOpFacts DEF Nodes
<1>3. e \in Seq(SomeOp) /\ Leads(e, here, here, here, here, here, 0)
  BY <1>1, EmptySeq, LeadsEmpty
<1>4. Body(call, r) \in Seq(SomeOp) /\ \E k \in Nat : Leads(Body(call, r), here, here, here, call.logComm, here, k)
  BY <1>1, BodyLeads DEF LoopCall
<1> HIDE DEF e
<1>5. Test(e) \in Seq(SomeOp) /\ Leads(Test(e), here, here, here, here, here, 0)
  BY <1>1, <1>3, TestLeads
<1>6. Test(Body(call, r)) \in Seq(SomeOp)
  BY <1>1, <1>4, TestLeads
<1>7. tests \in Seq(SomeOp)
  BY <1>5, <1>6, ConcatProperties DEF Tests, e
<1>8. group \in Seq(SomeOp) /\ group # << >>
  <2>1. group \in Seq(SomeOp)
    BY <1>1, <1>5, PointGroupLeads
  <2>2. group # << >>
    BY DEF PointGroup, Test, e
  <2>3. QED
    BY <2>1, <2>2
<1> HIDE DEF group
<1>9. parents \in Seq(SomeOp)
  BY <1>1, <1>8, TimesFacts
<1> DEFINE R == <<Read>>
           A == <<a, b>>
           C == <<s>>
           U == <<u>>
           Y == <<Sync>>
           V == <<v>>
           P == parents
           T == tests
<1>10. /\ R \in Seq(SomeOp) /\ A \in Seq(SomeOp) /\ C \in Seq(SomeOp) /\ U \in Seq(SomeOp)
       /\ Y \in Seq(SomeOp) /\ V \in Seq(SomeOp) /\ P \in Seq(SomeOp) /\ T \in Seq(SomeOp)
  BY <1>2, <1>7, <1>9, Tuples
<1>11. <<s, u>> = C \o U /\ <<Sync, v>> = Y \o V /\ <<s, a, b>> = C \o A
  <2> HIDE DEF s, a, b, u, v
  <2>1. <<s, u>> = <<s>> \o <<u>>
    BY <1>2, TuplesAreCons
  <2>2. <<Sync, v>> = <<Sync>> \o <<v>>
    BY <1>2, TuplesAreCons
  <2>3. <<s, a, b>> = <<s>> \o <<a, b>>
    BY <1>2, TuplesAreCons
  <2>4. QED
    BY <2>1, <2>2, <2>3
<1>12. Operations(call, r) =
         Cat(Cat(Cat(R, IF WithAction THEN Cat(C, A) ELSE e), Cat(Cat(Cat(C, U), T), Cat(Y, V))), P)
  <2>1. Operations(call, r) =
          ((R \o (IF WithAction THEN <<s, a, b>> ELSE e)) \o ((<<s, u>> \o T) \o <<Sync, v>>)) \o P
    BY DEF Operations, ActionGroup, PointGroup, Tests, group, e
  <2> HIDE DEF R, A, C, U, Y, V, P, T, e
  <2>2. QED
    BY <1>11, <2>1 DEF Cat
<1> DEFINE start == Cat(U, Cat(T, Cat(Y, Cat(V, P))))
<1>13. Ending(call) = Cat(V, P) /\ Starting(call, r) = start
  BY DEF Ending, Starting, Cat, group, e
<1>14. Opening(call, r) = IF WithAction THEN Cat(A, Cat(C, start)) ELSE start
  <2>1. Opening(call, r) = IF WithAction THEN A \o (C \o Starting(call, r)) ELSE Starting(call, r)
    BY DEF Opening
  <2> HIDE DEF A, C, start
  <2>2. QED
    BY <1>13, <2>1 DEF Cat
<1>15. R \o (C \o Opening(call, r)) = Cat(R, Cat(C, Opening(call, r)))
  BY DEF Cat
<1> HIDE DEF R, A, C, U, Y, V, P, T, start, e
<1>16. R \o e = R /\ Cat(R, e) = R
  <2>1. R \o e = R
    BY <1>10, ConcatEmptySeq DEF e
  <2>2. QED
    BY <2>1 DEF Cat
<1>17. /\ \A x, y \in Seq(SomeOp) : Cat(x, y) \in Seq(SomeOp)
       /\ \A x, y, z \in Seq(SomeOp) : Cat(Cat(x, y), z) = Cat(x, Cat(y, z))
  <2>1. ASSUME NEW x \in Seq(SomeOp), NEW y \in Seq(SomeOp)
        PROVE  Cat(x, y) \in Seq(SomeOp)
    BY ConcatProperties DEF Cat
  <2>2. ASSUME NEW x \in Seq(SomeOp), NEW y \in Seq(SomeOp), NEW z \in Seq(SomeOp)
        PROVE  Cat(Cat(x, y), z) = Cat(x, Cat(y, z))
    BY ConcatAssociative DEF Cat
  <2>3. QED
    BY <2>1, <2>2
<1> DEFINE point == Cat(Cat(Cat(C, U), T), Cat(Y, V))
<1>18. /\ start \in Seq(SomeOp) /\ point \in Seq(SomeOp) /\ Cat(V, P) \in Seq(SomeOp)
       /\ Cat(point, P) = Cat(C, start)
  <2>1. /\ Cat(Y, V) \in Seq(SomeOp) /\ Cat(V, P) \in Seq(SomeOp) /\ Cat(C, U) \in Seq(SomeOp)
        /\ Cat(Cat(C, U), T) \in Seq(SomeOp)
    BY <1>10, <1>17
  <2>2. Cat(Y, Cat(V, P)) \in Seq(SomeOp) /\ Cat(Cat(Y, V), P) = Cat(Y, Cat(V, P))
    BY <1>10, <1>17, <2>1
  <2>3. Cat(T, Cat(Y, Cat(V, P))) \in Seq(SomeOp)
    BY <1>10, <1>17, <2>2
  <2>4. start \in Seq(SomeOp)
    BY <1>10, <1>17, <2>3 DEF start
  <2>5. point \in Seq(SomeOp) /\ Cat(point, P) = Cat(Cat(Cat(C, U), T), Cat(Y, Cat(V, P)))
    BY <1>10, <1>17, <2>1, <2>2
  <2>6. Cat(Cat(Cat(C, U), T), Cat(Y, Cat(V, P))) = Cat(Cat(C, U), Cat(T, Cat(Y, Cat(V, P))))
    BY <1>10, <1>17, <2>1, <2>2
  <2>7. Cat(Cat(C, U), Cat(T, Cat(Y, Cat(V, P)))) = Cat(C, start)
    BY <1>10, <1>17, <2>3 DEF start
  <2>8. QED
    BY <2>1, <2>4, <2>5, <2>6, <2>7
<1>19. Operations(call, r) = Cat(R, Cat(C, IF WithAction THEN Cat(A, Cat(C, start)) ELSE start))
  <2> HIDE DEF point
  <2>1. Operations(call, r) = Cat(Cat(Cat(R, IF WithAction THEN Cat(C, A) ELSE e), point), P)
    BY <1>12 DEF point
  <2>2. CASE WithAction
    <3>1. Cat(C, A) \in Seq(SomeOp) /\ Cat(R, Cat(C, A)) \in Seq(SomeOp) /\ Cat(C, start) \in Seq(SomeOp)
      BY <1>10, <1>17, <1>18
    <3>2. Cat(Cat(Cat(R, Cat(C, A)), point), P) = Cat(Cat(R, Cat(C, A)), Cat(point, P))
      BY <1>10, <1>17, <1>18, <3>1
    <3>3. Cat(Cat(R, Cat(C, A)), Cat(C, start)) = Cat(R, Cat(Cat(C, A), Cat(C, start)))
      BY <1>10, <1>17, <3>1
    <3>4. Cat(Cat(C, A), Cat(C, start)) = Cat(C, Cat(A, Cat(C, start)))
      BY <1>10, <1>17, <3>1
    <3>5. QED
      BY <1>18, <2>1, <2>2, <3>2, <3>3, <3>4
  <2>3. CASE ~WithAction
    <3>1. Cat(Cat(R, point), P) = Cat(R, Cat(point, P))
      BY <1>10, <1>17, <1>18
    <3>2. QED
      BY <1>16, <1>18, <2>1, <2>3, <3>1
  <2>4. QED
    BY <2>2, <2>3
<1>20. Opening(call, r) \in Seq(SomeOp)
  BY <1>10, <1>14, <1>17, <1>18
<1>21. Operations(call, r) = R \o (C \o Opening(call, r))
  BY <1>14, <1>15, <1>19
<1>22. QED
  BY <1>7, <1>13, <1>18, <1>20, <1>21 DEF R, C

\* What is done instead of an operation is an operation; and before the first sync
\* nothing is done but reading what the application printed.
LEMMA FrontClosed == Closed(SomeOp) /\ Closed(Front)
<1>0. Closed(SomeOp)
  BY SomeOpFacts DEF Closed, Nodes
<1>1. Front \subseteq SomeOp
  BY SomeOpFacts DEF Front, Nodes
<1>2. ASSUME NEW v \in AllComms
      PROVE  SetComm(v, TRUE) \notin Front /\ LogOn(v) \notin Front
  <2>1. SetComm(v, TRUE).op = "setComm" /\ SetComm(v, TRUE).sync /\ LogOn(v).op = "log"
    BY DEF SetComm, LogOn
  <2>2. \A w : SetComm(w, FALSE).op = "setComm" /\ ~SetComm(w, FALSE).sync
    BY DEF SetComm
  <2>3. Read.op = "read" /\ Gather.op = "gather" /\ Write("stdout").op = "write"
    BY DEF Read, Gather, Write
  <2>4. QED
    BY <2>1, <2>2, <2>3 DEF Front
<1>3. Gather \in Front /\ Write("stdout") \in Front /\ \A v \in AllComms : SetComm(v, FALSE) \in Front
  BY DEF Front
<1>4. QED
  BY <1>0, <1>1, <1>2, <1>3 DEF Closed

\* The first milestone of a call is the sync of the first change to its communicator.
LEMMA FirstMilestone ==
  ASSUME NEW call \in LoopCall, NEW r \in call.comm
  PROVE  LET here == call.comm
             n == Total(call, here) - 1
             o == SetComm(here, TRUE)
             rest == Opening(call, r)
         IN  /\ Milestone(here, call.logComm, Front, o, rest, n, Seq(SomeOp))
             /\ \A d, k : Passes(Operations(call, r), d, k, here, Front, o, rest, n, Seq(SomeOp))
<1> DEFINE here == call.comm
           logs == call.logComm
           total == Total(call, here)
           o == SetComm(here, TRUE)
           rest == Opening(call, r)
           z == <<o>> \o rest
<1>1. here \in AllComms /\ here \in Own(r)
  BY DEF LoopCall, Own
<1>2. o \in SomeOp /\ Read \in SomeOp /\ rest \in Seq(SomeOp) /\ Operations(call, r) = <<Read>> \o z
  BY <1>1, SomeOpFacts, OperationsRow
<1>3. z \in Seq(SomeOp)
  BY <1>2, ConsFacts
<1>4. Leads(Operations(call, r), here, here, here, logs, here, total)
  BY <1>1, OperationsLeads
<1> HIDE DEF here, logs, total, rest, z
<1>5. PICK j \in Nat : total = Syncs(Read, here, here) + j /\ Leads(z, After(Read, here), here, here, logs, here, j)
  BY <1>2, <1>3, <1>4, LeadsTail
<1>6. Syncs(Read, here, here) = 0 /\ After(Read, here) = here
  BY OtherEffect
<1>7. total = j /\ Leads(z, here, here, here, logs, here, j)
  BY <1>5, <1>6
<1>8. Syncs(o, here, here) = 1 /\ After(o, here) = here
  BY DEF SetComm, Syncs, After
<1> HIDE DEF o
<1>9. PICK i \in Nat : j = Syncs(o, here, here) + i /\ Leads(rest, After(o, here), here, here, logs, here, i)
  BY <1>2, <1>7, LeadsTail DEF z
<1>10. i = total - 1 /\ Leads(rest, here, here, here, logs, here, i) /\ i \in Nat
  BY <1>5, <1>7, <1>8, <1>9
<1>11. Milestone(here, logs, Front, o, rest, total - 1, Seq(SomeOp))
  BY <1>1, <1>2, <1>10, FrontClosed DEF Milestone, o
<1>12. <<Read>> \in Seq(Front)
  <2>1. Read \in Front
    BY DEF Front
  <2>2. QED
    BY <2>1, Tuples
<1>13. \A d, k : Passes(Operations(call, r), d, k, here, Front, o, rest, total - 1, Seq(SomeOp))
  BY <1>2, <1>12 DEF Passes, z
<1>14. QED
  BY <1>11, <1>13 DEF here, logs, total, o, rest

\* A sequence is what comes before its last two elements, and these.
LEMMA LastTwo ==
  ASSUME NEW S, NEW s \in Seq(S), Len(s) >= 2
  PROVE  \E a \in Seq(S) : s = a \o (<<s[Len(s) - 1]>> \o <<s[Len(s)]>>)
<1> DEFINE n == Len(s)
           x == s[n - 1]
           y == s[n]
           a == SubSeq(s, 1, n - 2)
           t == <<x>> \o <<y>>
<1>1. n \in Nat /\ n - 2 \in 0 .. n /\ n - 1 \in 1 .. n /\ n \in 1 .. n
  BY LenProperties
<1>2. x \in S /\ y \in S
  BY <1>1, ElementOfSeq
<1>3. a \in Seq(S) /\ Len(a) = n - 2 /\ \A i \in 1 .. (n - 2) : a[i] = s[i]
  <2>1. /\ 1 \in 1 .. (Len(s) + 1) /\ n - 2 \in 1 - 1 .. Len(s)
    BY <1>1
  <2>2. /\ SubSeq(s, 1, n - 2) \in Seq(S)
        /\ Len(SubSeq(s, 1, n - 2)) = IF 1 <= n - 2 THEN (n - 2) - 1 + 1 ELSE 0
        /\ \A i \in 1 .. ((n - 2) - 1 + 1) : SubSeq(s, 1, n - 2)[i] = s[1 + i - 1]
    BY <2>1, SubSeqProperties
  <2>3. \A i \in 1 .. (n - 2) : (1 + i) - 1 = i
    OBVIOUS
  <2>4. ((n - 2) - 1) + 1 = n - 2
    BY <1>1
  <2>5. QED
    BY <1>1, <2>2, <2>3, <2>4
<1>4. t \in Seq(S) /\ Len(t) = 2 /\ t[1] = x /\ t[2] = y
  <2>1. <<y>> \in Seq(S) /\ Len(<<y>>) = 1 /\ <<y>>[1] = y
    BY <1>2, Tuples
  <2> HIDE DEF x, y
  <2> DEFINE u == <<y>>
  <2> HIDE DEF u
  <2>2. u \in Seq(S) /\ Len(u) = 1 /\ u[1] = y
    BY <2>1 DEF u
  <2>3. /\ <<x>> \o u \in Seq(S) /\ (<<x>> \o u)[1] = x /\ Len(<<x>> \o u) = Len(u) + 1
        /\ \A i \in 1 .. Len(u) : (<<x>> \o u)[i + 1] = u[i]
    <3>1. x \in S /\ u \in Seq(S)
      BY <1>2, <2>2
    <3>2. QED
      BY ONLY <3>1, ConsFacts
  <2>4. 1 \in 1 .. Len(u) /\ 1 + 1 = 2 /\ Len(u) + 1 = 2
    BY <2>2
  <2>5. QED
    BY <2>2, <2>3, <2>4 DEF u
<1> HIDE DEF a, t, x, y
<1>5. a \o t \in Seq(S) /\ Len(a \o t) = n /\ \A i \in 1 .. n : (a \o t)[i] = IF i <= n - 2 THEN a[i] ELSE t[i - (n - 2)]
  <2>1. /\ a \o t \in Seq(S) /\ Len(a \o t) = Len(a) + Len(t)
        /\ \A i \in 1 .. (Len(a) + Len(t)) : (a \o t)[i] = IF i <= Len(a) THEN a[i] ELSE t[i - Len(a)]
    BY <1>3, <1>4, ConcatProperties
  <2>2. Len(a) + Len(t) = n
    BY <1>1, <1>3, <1>4
  <2>3. QED
    BY <1>3, <2>1, <2>2
<1>6. \A i \in 1 .. n : s[i] = (a \o t)[i]
  <2>1. SUFFICES ASSUME NEW i \in 1 .. n
                 PROVE  s[i] = (a \o t)[i]
    OBVIOUS
  <2>2. CASE i <= n - 2
    BY <1>1, <1>3, <1>5, <2>2
  <2>3. CASE i = n - 1
    <3>1. ~(i <= n - 2) /\ i - (n - 2) = 1
      BY <1>1, <2>3
    <3>2. QED
      BY <1>4, <1>5, <2>3, <3>1 DEF x
  <2>4. CASE i = n
    <3>1. ~(i <= n - 2) /\ i - (n - 2) = 2
      BY <1>1, <2>4
    <3>2. QED
      BY <1>4, <1>5, <2>4, <3>1 DEF y
  <2>5. i <= n - 2 \/ i = n - 1 \/ i = n
    BY <1>1
  <2>6. QED
    BY <2>2, <2>3, <2>4, <2>5
<1>7. s = a \o t
  BY <1>5, <1>6, SeqEqual
<1>8. QED
  BY <1>3, <1>7 DEF t, x, y, n

\* The last sync is followed by the last node alone.
Ends(s) == \E a \in Seq(SomeOp) : s = a \o (<<Sync>> \o <<Write("ended")>>)

\* Whatever is put before it.
LEMMA EndsBehind ==
  ASSUME NEW t \in Seq(SomeOp), NEW s \in Seq(SomeOp), Ends(s)
  PROVE  Ends(t \o s) /\ t \o s \in Seq(SomeOp)
<1> DEFINE z == <<Sync>> \o <<Write("ended")>>
<1>1. PICK a \in Seq(SomeOp) : s = a \o z
  BY DEF Ends
<1>2. Sync \in SomeOp /\ <<Write("ended")>> \in Seq(SomeOp)
  BY SomeOpFacts, Tuples DEF Nodes
<1>3. z \in Seq(SomeOp)
  BY <1>2, ConsFacts
<1> HIDE DEF z
<1>4. t \o (a \o z) = (t \o a) \o z
  BY <1>3, ConcatAssociative, SMTT(30)
<1>5. t \o a \in Seq(SomeOp) /\ t \o s \in Seq(SomeOp)
  BY ConcatProperties
<1>6. QED
  BY <1>1, <1>4, <1>5 DEF Ends, z

\* The points of the open parents end like this, if there are any.
LEMMA ParentsEnd ==
  ASSUME NEW here \in AllComms, NEW n \in Nat \ {0}
  PROVE  /\ Times(PointGroup(here, Test(<< >>)), n) \in Seq(SomeOp)
         /\ Ends(Times(PointGroup(here, Test(<< >>)), n))
<1> DEFINE group == PointGroup(here, Test(<< >>))
           parents == Times(group, n)
           l == n * 6
<1>1. /\ Len(group) = 6 /\ group # << >> /\ group[5] = Sync /\ group[6] = Write("ended")
  BY DEF PointGroup, Test
<1>2. group \in Seq(SomeOp)
  <2>1. << >> \in Seq(SomeOp) /\ Leads(<< >>, here, here, here, here, here, 0)
    BY EmptySeq, LeadsEmpty
  <2>2. Test(<< >>) \in Seq(SomeOp) /\ Leads(Test(<< >>), here, here, here, here, here, 0)
    BY <2>1, TestLeads
  <2>3. QED
    BY <2>2, PointGroupLeads
<1> HIDE DEF group
<1>3. /\ parents \in Seq(SomeOp) /\ Len(parents) = n * Len(group)
      /\ \A i \in 1 .. (n * Len(group)) : parents[i] = group[((i - 1) % Len(group)) + 1]
  BY <1>1, <1>2, TimesFacts
<1> HIDE DEF parents
<1>4. l \in Nat /\ l >= 2 /\ l - 1 \in 1 .. l /\ l \in 1 .. l
      /\ (((l - 1) - 1) % 6) + 1 = 5 /\ ((l - 1) % 6) + 1 = 6
  OBVIOUS
<1> HIDE DEF l
<1>5. Len(parents) = l /\ \A i \in 1 .. l : parents[i] = group[((i - 1) % 6) + 1]
  BY <1>1, <1>3 DEF l
<1>6. parents[l - 1] = Sync /\ parents[l] = Write("ended")
  <2>1. parents[l - 1] = group[(((l - 1) - 1) % 6) + 1] /\ parents[l] = group[((l - 1) % 6) + 1]
    BY <1>4, <1>5
  <2>2. QED
    BY <1>1, <1>4, <2>1
<1>7. \E a \in Seq(SomeOp) : parents = a \o (<<parents[l - 1]>> \o <<parents[l]>>)
  BY <1>3, <1>4, <1>5, LastTwo
<1>8. QED
  BY <1>3, <1>6, <1>7 DEF Ends, parents, group

\* So does every call of a loop.
LEMMA OperationsEnd ==
  ASSUME NEW call \in LoopCall, NEW r \in call.comm
  PROVE  Ends(Operations(call, r))
<1> DEFINE here == call.comm
           parents == Times(PointGroup(here, Test(<< >>)), call.parents)
           v == Write("ended")
           u == Write("started")
           s == SetComm(here, TRUE)
<1>1. here \in AllComms /\ call.parents \in Nat
  BY DEF LoopCall
<1>2. v \in SomeOp /\ u \in SomeOp /\ s \in SomeOp /\ Sync \in SomeOp /\ Read \in SomeOp
      /\ Write("actionStarted") \in SomeOp /\ Write("actionFinished") \in SomeOp
  BY <1>1, SomeOpFacts DEF Nodes
<1>3. /\ Ending(call) \in Seq(SomeOp) /\ Starting(call, r) \in Seq(SomeOp)
      /\ Tests(call, r) \in Seq(SomeOp) /\ Opening(call, r) \in Seq(SomeOp)
      /\ Operations(call, r) = <<Read>> \o (<<s>> \o Opening(call, r))
  BY OperationsRow
<1>4. Ends(<<Sync>> \o Ending(call)) /\ <<Sync>> \o Ending(call) \in Seq(SomeOp)
  <2>1. Ending(call) = <<v>> \o parents
    BY DEF Ending
  <2> HIDE DEF v
  <2>2. CASE call.parents = 0
    <3>1. parents = << >>
      BY <2>2 DEF Times
    <3>2. <<v>> \in Seq(SomeOp)
      BY <1>2, Tuples
    <3>3. <<v>> \o << >> = <<v>>
      BY <3>2, ConcatEmptySeq
    <3>4. Ending(call) = <<v>>
      BY <2>1, <3>1, <3>3
    <3> DEFINE z == <<Sync>> \o <<v>>
    <3>5. z \in Seq(SomeOp) /\ << >> \in Seq(SomeOp)
      BY <1>2, <3>2, ConsFacts, EmptySeq
    <3> HIDE DEF z
    <3>6. << >> \o z = z
      BY <3>5, ConcatEmptySeq
    <3>7. Ends(z)
      BY <3>5, <3>6 DEF Ends, z, v
    <3>8. QED
      BY <3>4, <3>5, <3>7 DEF z
  <2>3. CASE call.parents # 0
    <3>1. parents \in Seq(SomeOp) /\ Ends(parents)
      BY <1>1, <2>3, ParentsEnd
    <3> HIDE DEF parents
    <3>2. <<v>> \in Seq(SomeOp) /\ <<Sync>> \in Seq(SomeOp)
      BY <1>2, Tuples
    <3>3. Ends(Ending(call)) /\ Ending(call) \in Seq(SomeOp)
      BY <2>1, <3>1, <3>2, EndsBehind
    <3>4. QED
      BY <3>2, <3>3, EndsBehind
  <2>4. QED
    BY <2>2, <2>3
<1>5. <<Write("actionStarted"), Write("actionFinished")>> \in Seq(SomeOp) /\ <<Read>> \in Seq(SomeOp)
      /\ <<s>> \in Seq(SomeOp) /\ <<u>> \in Seq(SomeOp)
  BY <1>2, Tuples
<1>6. Starting(call, r) = <<u>> \o (Tests(call, r) \o (<<Sync>> \o Ending(call)))
  BY DEF Starting
<1>7. Ends(Starting(call, r))
  BY <1>3, <1>4, <1>5, <1>6, EndsBehind
<1>8. Opening(call, r) =
        IF WithAction
        THEN <<Write("actionStarted"), Write("actionFinished")>> \o (<<s>> \o Starting(call, r))
        ELSE Starting(call, r)
  BY DEF Opening
<1>9. Ends(Opening(call, r))
  <2>1. CASE WithAction
    BY <1>3, <1>5, <1>7, <1>8, <2>1, EndsBehind
  <2>2. CASE ~WithAction
    BY <1>7, <1>8, <2>2
  <2>3. QED
    BY <2>1, <2>2
<1>10. QED
  BY <1>3, <1>5, <1>9, EndsBehind

\* What is left to do after the last sync of a call.
Done == {<<Write("ended")>>, << >>}

\* The last milestone of a call is the sync before its last node.
LEMMA LastMilestone ==
  ASSUME NEW call \in LoopCall, NEW r \in call.comm
  PROVE  LET here == call.comm
             rest == <<Write("ended")>>
         IN  /\ Milestone(here, call.logComm, SomeOp, Sync, rest, 0, Done)
             /\ \A d, k : Passes(Operations(call, r), d, k, here, SomeOp, Sync, rest, 0, Done)
<1> DEFINE here == call.comm
           logs == call.logComm
           w == Write("ended")
           rest == <<w>>
<1>1. here \in AllComms
  BY DEF LoopCall
<1>2. w \in SomeOp /\ rest \in Seq(SomeOp) /\ rest \in Done
  BY SomeOpFacts, Tuples DEF Nodes, Done
<1>3. rest = <<w>> \o << >> /\ << >> \in Seq(SomeOp)
  BY <1>2, ConcatEmptySeq, EmptySeq
<1>4. Leads(rest, here, here, here, logs, here, 0)
  <2>1. After(w, here) = here /\ Syncs(w, here, here) = 0 /\ Placed(w, here, here, logs)
    BY WriteEffect
  <2>2. QED
    BY <1>1, <2>1, LeadsOne
<1>5. Milestone(here, logs, SomeOp, Sync, rest, 0, Done)
  BY <1>1, <1>2, <1>3, <1>4, FrontClosed DEF Milestone
<1>6. \A d, k : Passes(Operations(call, r), d, k, here, SomeOp, Sync, rest, 0, Done)
  BY OperationsEnd DEF Passes, Ends
<1>7. QED
  BY <1>5, <1>6

-----------------------------------------------------------------------------
(* Which operations there are around a point.                              *)

\* What kinds of operations there are is seen from their names.
LEMMA OpNames ==
  /\ \A v, b : SetComm(v, b).op = "setComm"
  /\ \A v : LogOn(v).op = "log"
  /\ \A node : Write(node).op = "write" /\ Write(node).node = node
  /\ Read.op = "read" /\ Gather.op = "gather" /\ Sync.op = "sync"
  /\ NameLog.op = "name" /\ Printed.op = "print"
BY DEF SetComm, LogOn, Write, Read, Gather, Sync, NameLog, Printed

\* The messages of an operation are those of its kind.
LEMMA MessagingNames ==
  ASSUME NEW o
  PROVE  /\ o \in Messaging => o.op \in {"log", "name", "write"} /\ (o.op = "write" => o.node = "log")
         /\ o = Write("log") \/ o = NameLog => o \in Messaging
<1>1. o \in Messaging => o = Write("log") \/ o = NameLog \/ \E v \in AllComms : o = LogOn(v)
  BY DEF Messaging
<1>2. o = Write("log") \/ o = NameLog => o \in Messaging
  BY DEF Messaging
<1>3. QED
  BY <1>1, <1>2, OpNames

\* What is not a message, not a started node, or not an ended node.
LEMMA SetFacts ==
  /\ \A v \in AllComms, b \in BOOLEAN :
       SetComm(v, b) \in Unstarted /\ SetComm(v, b) \in Unended /\ SetComm(v, b) \in Unlogged
  /\ \A o \in {Read, Gather, Sync, Printed} : o \in Unstarted /\ o \in Unended /\ o \in Unlogged
  /\ \A node \in Nodes :
       /\ node \notin {"log", "started"} => Write(node) \in Unstarted
       /\ node # "ended" => Write(node) \in Unended
       /\ node # "log" => Write(node) \in Unlogged
  /\ \A v \in AllComms : LogOn(v) \in Unended /\ LogOn(v) \notin Unstarted /\ LogOn(v) \notin Unlogged
  /\ NameLog \in Unended
  /\ Unstarted \subseteq SomeOp /\ Unended \subseteq SomeOp /\ Unlogged \subseteq SomeOp
<1>1. ASSUME NEW v \in AllComms, NEW b \in BOOLEAN
      PROVE  SetComm(v, b) \in Unstarted /\ SetComm(v, b) \in Unended /\ SetComm(v, b) \in Unlogged
  <2>1. SetComm(v, b) \in SomeOp
    <3>1. b = TRUE \/ b = FALSE
      OBVIOUS
    <3>2. QED
      BY <3>1, SomeOpFacts
  <2>2. SetComm(v, b).op = "setComm" /\ Write("started").op = "write" /\ Write("ended").op = "write"
    BY OpNames
  <2>3. SetComm(v, b) \notin Messaging
    BY <2>2, MessagingNames
  <2>4. QED
    BY <2>1, <2>2, <2>3 DEF Unstarted, Unended, Unlogged
<1>2. ASSUME NEW o \in {Read, Gather, Sync, Printed}
      PROVE  o \in Unstarted /\ o \in Unended /\ o \in Unlogged
  <2>1. o \in SomeOp
    BY SomeOpFacts
  <2>2. o.op \in {"read", "gather", "sync", "print"} /\ Write("started").op = "write" /\ Write("ended").op = "write"
    BY OpNames
  <2>3. o \notin Messaging
    BY <2>2, MessagingNames
  <2>4. QED
    BY <2>1, <2>2, <2>3 DEF Unstarted, Unended, Unlogged
<1>3. ASSUME NEW node \in Nodes
      PROVE  /\ node \notin {"log", "started"} => Write(node) \in Unstarted
             /\ node # "ended" => Write(node) \in Unended
             /\ node # "log" => Write(node) \in Unlogged
  <2>1. Write(node) \in SomeOp
    BY SomeOpFacts
  <2>2. Write(node).op = "write" /\ Write(node).node = node
        /\ Write("started").node = "started" /\ Write("ended").node = "ended"
    BY OpNames
  <2>3. node # "log" => Write(node) \notin Messaging
    BY <2>2, MessagingNames
  <2>4. QED
    BY <2>1, <2>2, <2>3 DEF Unstarted, Unended, Unlogged
<1>4. ASSUME NEW v \in AllComms
      PROVE  LogOn(v) \in Unended /\ LogOn(v) \notin Unstarted /\ LogOn(v) \notin Unlogged
  <2>1. LogOn(v) \in SomeOp /\ LogOn(v).op = "log" /\ Write("ended").op = "write"
    BY SomeOpFacts, OpNames
  <2>2. LogOn(v) \in Messaging
    BY DEF Messaging
  <2>3. QED
    BY <2>1, <2>2 DEF Unstarted, Unended, Unlogged
<1>5. NameLog \in Unended
  <2>1. NameLog \in SomeOp /\ NameLog.op = "name" /\ Write("ended").op = "write"
    BY SomeOpFacts, OpNames
  <2>2. QED
    BY <2>1 DEF Unended
<1>6. Unstarted \subseteq SomeOp /\ Unended \subseteq SomeOp /\ Unlogged \subseteq SomeOp
  BY DEF Unstarted, Unended, Unlogged
<1>7. QED
  BY <1>1, <1>2, <1>3, <1>4, <1>5, <1>6

\* What an operation goes on with is of its kind.
LEMMA SetsClosed == Closed(Unstarted) /\ Closed(Unended) /\ Closed(Unlogged)
<1>1. "stdout" \in Nodes /\ "log" \in Nodes
  BY DEF Nodes
<1>2. Write("stdout") \in Unstarted /\ Write("stdout") \in Unended /\ Write("stdout") \in Unlogged
  BY <1>1, SetFacts
<1>3. Write("log") \in Unended /\ NameLog \in Unended /\ Printed \in Unended
  BY <1>1, SetFacts
<1>4. \A v \in AllComms :
        /\ SetComm(v, FALSE) \in Unstarted /\ SetComm(v, FALSE) \in Unended /\ SetComm(v, FALSE) \in Unlogged
        /\ SetComm(v, TRUE) \in Unended
        /\ LogOn(v) \notin Unstarted /\ LogOn(v) \notin Unlogged
  BY SetFacts
<1>5. \A o \in {Gather, Sync} : o \in Unstarted /\ o \in Unended /\ o \in Unlogged
  BY SetFacts
<1>6. Unstarted \subseteq SomeOp /\ Unended \subseteq SomeOp /\ Unlogged \subseteq SomeOp
  BY SetFacts
<1>7. Closed(Unstarted) /\ Closed(Unlogged)
  BY <1>2, <1>4, <1>5, <1>6 DEF Closed
<1>8. Closed(Unended)
  BY <1>2, <1>3, <1>4, <1>5, <1>6 DEF Closed
<1>9. QED
  BY <1>7, <1>8

-----------------------------------------------------------------------------
(* The milestones of a point.                                              *)

\* How many syncs a call has left at most when its point has begun, and when it ends.
Inner(call) == Total(call, call.comm) - Hooked - 1
Outer(call) == call.parents * 2

\* Before the change to the point's communicator there is only the action.
LEMMA BeforeStart ==
  ASSUME NEW call \in LoopCall, NEW r \in call.comm
  PROVE  \E p \in Seq(Unstarted) :
           /\ p \in Seq(Unended)
           /\ Operations(call, r) = p \o (<<SetComm(call.comm, TRUE)>> \o Starting(call, r))
<1> DEFINE here == call.comm
           o == SetComm(here, TRUE)
           rest == Starting(call, r)
           a == Write("actionStarted")
           b == Write("actionFinished")
           z == <<o>> \o rest
           R == <<Read>>
           O == <<o>>
           A == <<a, b>>
<1>1. here \in AllComms
  BY DEF LoopCall
<1>2. /\ o \in SomeOp /\ rest \in Seq(SomeOp)
      /\ Operations(call, r) = R \o (O \o Opening(call, r))
      /\ Opening(call, r) = IF WithAction THEN A \o z ELSE rest
  BY <1>1, SomeOpFacts, OperationsRow DEF Opening
<1>3. z \in Seq(SomeOp)
  BY <1>2, ConsFacts
<1>4. \A S \in {Unstarted, Unended, SomeOp} : Read \in S /\ o \in S /\ a \in S /\ b \in S
  BY <1>1, SetFacts, SomeOpFacts DEF Nodes
<1> HIDE DEF here, rest, o, a, b
<1>5. \A S \in {Unstarted, Unended, SomeOp} : R \in Seq(S) /\ O \in Seq(S) /\ A \in Seq(S)
  BY <1>4, Tuples
<1>6. CASE ~WithAction
  BY <1>2, <1>5, <1>6 DEF z, here, o, rest
<1>7. CASE WithAction
  <2> DEFINE p == R \o (O \o A)
  <2> HIDE DEF R, O, A, z
  <2>1. R \in Seq(SomeOp) /\ O \in Seq(SomeOp) /\ A \in Seq(SomeOp)
    BY <1>5
  <2>2. ASSUME NEW S \in {Unstarted, Unended, SomeOp}
        PROVE  p \in Seq(S) /\ O \o A \in Seq(S)
    <3>1. R \in Seq(S) /\ O \in Seq(S) /\ A \in Seq(S)
      BY <1>5, <2>2
    <3>2. QED
      BY ONLY <3>1, ConcatProperties
  <2>3. (O \o A) \o z = O \o (A \o z)
    BY ONLY <1>3, <2>1, ConcatAssociative, SMTT(30)
  <2>4. (R \o (O \o A)) \o z = R \o ((O \o A) \o z)
    <3>1. O \o A \in Seq(SomeOp)
      BY <2>2
    <3>2. QED
      BY ONLY <1>3, <2>1, <3>1, ConcatAssociative, SMTT(30)
  <2>5. Operations(call, r) = p \o z /\ p \in Seq(Unstarted) /\ p \in Seq(Unended)
    BY <1>2, <1>7, <2>2, <2>3, <2>4
  <2>6. QED
    BY <2>5 DEF z, here, o, rest, O
<1>8. QED
  BY <1>6, <1>7

\* A point has begun with the sync of the change to its communicator.
LEMMA StartMilestone ==
  ASSUME NEW call \in LoopCall, NEW r \in call.comm
  PROVE  LET here == call.comm
             o == SetComm(here, TRUE)
             rest == Starting(call, r)
         IN  /\ Inner(call) \in Nat
             /\ \A Q : rest \in Q => Milestone(here, call.logComm, Unstarted, o, rest, Inner(call), Q)
             /\ \A d, k : Passes(Operations(call, r), d, k, here, Unstarted, o, rest, Inner(call), Seq(SomeOp))
<1> DEFINE here == call.comm
           logs == call.logComm
           total == Total(call, here)
           o == SetComm(here, TRUE)
           rest == Starting(call, r)
           a == Write("actionStarted")
           b == Write("actionFinished")
           z == <<o>> \o rest
<1>1. here \in AllComms /\ here \in Own(r)
  BY DEF LoopCall, Own
<1>2. o \in SomeOp /\ Read \in SomeOp /\ a \in SomeOp /\ b \in SomeOp
  BY <1>1, SomeOpFacts DEF Nodes
<1>3. /\ rest \in Seq(SomeOp) /\ Opening(call, r) \in Seq(SomeOp)
      /\ Operations(call, r) = <<Read>> \o (<<o>> \o Opening(call, r))
  BY OperationsRow
<1>4. Opening(call, r) = IF WithAction THEN <<a, b>> \o z ELSE rest
  BY DEF Opening
<1>5. z \in Seq(SomeOp)
  BY <1>2, <1>3, ConsFacts
<1>6. Leads(Operations(call, r), here, here, here, logs, here, total)
  BY <1>1, OperationsLeads
<1>7. /\ Syncs(Read, here, here) = 0 /\ After(Read, here) = here
      /\ Syncs(o, here, here) = 1 /\ After(o, here) = here
      /\ Syncs(a, here, here) = 0 /\ After(a, here) = here
      /\ Syncs(b, here, here) = 0 /\ After(b, here) = here
  BY OtherEffect, WriteEffect DEF SetComm, Syncs, After
<1>8. /\ Read \in Unstarted /\ o \in Unstarted /\ a \in Unstarted /\ b \in Unstarted
      /\ Unstarted \subseteq SomeOp
  BY <1>1, SetFacts DEF Nodes
<1> HIDE DEF here, logs, total, rest, o, a, b
<1>9. <<o>> \o Opening(call, r) \in Seq(SomeOp)
  BY <1>2, <1>3, ConsFacts
<1>10. \E j \in Nat : total = j + 1 /\ Leads(Opening(call, r), here, here, here, logs, here, j)
  <2> DEFINE u == Opening(call, r)
             x == <<o>> \o u
  <2>1. Leads(<<Read>> \o x, here, here, here, logs, here, total) /\ x \in Seq(SomeOp) /\ u \in Seq(SomeOp)
    BY <1>3, <1>6, <1>9
  <2> HIDE DEF x, u
  <2>2. PICK j \in Nat : total = Syncs(Read, here, here) + j /\ Leads(x, After(Read, here), here, here, logs, here, j)
    BY <1>2, <2>1, LeadsTail
  <2>3. total = j /\ Leads(<<o>> \o u, here, here, here, logs, here, j)
    BY <1>7, <2>2 DEF x
  <2>4. PICK i \in Nat : j = Syncs(o, here, here) + i /\ Leads(u, After(o, here), here, here, logs, here, i)
    BY <1>2, <2>1, <2>3, LeadsTail
  <2>5. j = i + 1 /\ Leads(u, here, here, here, logs, here, i)
    BY <1>7, <2>4
  <2>6. QED
    BY <2>3, <2>5 DEF u
<1>11. /\ total - Hooked - 1 \in Nat
       /\ Leads(rest, here, here, here, logs, here, total - Hooked - 1)
  <2>1. PICK j \in Nat : total = j + 1 /\ Leads(Opening(call, r), here, here, here, logs, here, j)
    BY <1>10
  <2>2. CASE WithAction
    <3>1. <<a, b>> \o z = <<a>> \o (<<b>> \o z) /\ <<b>> \o z \in Seq(SomeOp)
      <4>1. <<a, b>> = <<a>> \o <<b>>
        BY <1>2, TuplesAreCons
      <4>2. <<a>> \in Seq(SomeOp) /\ <<b>> \in Seq(SomeOp)
        BY <1>2, Tuples
      <4> HIDE DEF z
      <4>3. QED
        BY <1>5, <4>1, <4>2, ConcatAssociative, ConcatProperties
    <3>2. Leads(<<a>> \o (<<b>> \o z), here, here, here, logs, here, j)
      BY <1>4, <2>1, <2>2, <3>1
    <3> DEFINE y == <<b>> \o z
    <3> HIDE DEF y, z
    <3>3. y \in Seq(SomeOp) /\ Leads(<<a>> \o y, here, here, here, logs, here, j)
      BY <3>1, <3>2 DEF y
    <3>4. PICK i \in Nat : j = Syncs(a, here, here) + i /\ Leads(y, After(a, here), here, here, logs, here, i)
      BY <1>2, <3>3, LeadsTail
    <3>5. j = i /\ Leads(<<b>> \o z, here, here, here, logs, here, i)
      BY <1>7, <3>4 DEF y
    <3>6. PICK h \in Nat : i = Syncs(b, here, here) + h /\ Leads(z, After(b, here), here, here, logs, here, h)
      BY <1>2, <1>5, <3>5, LeadsTail
    <3>7. i = h /\ Leads(<<o>> \o rest, here, here, here, logs, here, h)
      BY <1>7, <3>6 DEF z
    <3>8. PICK m \in Nat : h = Syncs(o, here, here) + m /\ Leads(rest, After(o, here), here, here, logs, here, m)
      BY <1>2, <1>3, <3>7, LeadsTail
    <3>9. h = 1 + m /\ Leads(rest, here, here, here, logs, here, m)
      BY <1>7, <3>8
    <3>10. m = total - Hooked - 1
      BY <2>1, <2>2, <3>5, <3>7, <3>9 DEF Hooked
    <3>11. QED
      BY <3>9, <3>10
  <2>3. CASE ~WithAction
    <3>1. j = total - Hooked - 1
      BY <2>1, <2>3 DEF Hooked
    <3>2. QED
      BY <1>4, <2>1, <2>3, <3>1
  <2>4. QED
    BY <2>2, <2>3
<1>12. Inner(call) = total - Hooked - 1
  BY DEF Inner, total, here
<1>13. \A Q : rest \in Q => Milestone(here, logs, Unstarted, o, rest, Inner(call), Q)
  BY <1>1, <1>3, <1>11, <1>12, SetsClosed DEF Milestone, o
<1>14. \E p \in Seq(Unstarted) : Operations(call, r) = p \o z
  BY BeforeStart DEF z, o, rest, here
<1>15. \A d, k : Passes(Operations(call, r), d, k, here, Unstarted, o, rest, Inner(call), Seq(SomeOp))
  BY <1>14 DEF Passes, z
<1>16. QED
  BY <1>11, <1>12, <1>13, <1>15 DEF here, logs, o, rest

\* The parents' points come after the sync that ends the point of a call.
LEMMA EndMilestone ==
  ASSUME NEW call \in LoopCall, NEW r \in call.comm
  PROVE  LET here == call.comm
             rest == Ending(call)
         IN  /\ Outer(call) \in Nat
             /\ Milestone(here, call.logComm, Unended, Sync, rest, Outer(call), Seq(Unlogged))
             /\ \A d, k : Passes(Operations(call, r), d, k, here, Unended, Sync, rest, Outer(call), Seq(Unlogged))
<1> DEFINE here == call.comm
           logs == call.logComm
           rest == Ending(call)
           e == << >>
           group == PointGroup(here, Test(e))
           P == Times(group, call.parents)
           v == Write("ended")
           u == Write("started")
           o == SetComm(here, TRUE)
           ts == Write("testStarted")
           tf == Write("testFinished")
<1>1. here \in AllComms /\ logs \in AllComms /\ call.parents \in Nat /\ call.logs \in Nat /\ Outer(call) \in Nat
  BY DEF LoopCall, Outer
<1>2. /\ v \in SomeOp /\ v \in Unlogged /\ u \in Unended /\ o \in Unended /\ o \in Unlogged /\ u \in Unlogged
      /\ ts \in Unended /\ tf \in Unended /\ ts \in Unlogged /\ tf \in Unlogged
      /\ Sync \in Unlogged /\ Sync \in SomeOp
      /\ Read \in Unended /\ LogOn(logs) \in Unended
  <2>1. {"ended", "started", "testStarted", "testFinished"} \subseteq Nodes
    BY DEF Nodes
  <2>2. /\ v \in Unlogged /\ u \in Unended /\ u \in Unlogged
        /\ ts \in Unended /\ tf \in Unended /\ ts \in Unlogged /\ tf \in Unlogged
    BY <2>1, SetFacts
  <2>3. o \in Unended /\ o \in Unlogged /\ LogOn(logs) \in Unended
    BY <1>1, SetFacts
  <2>4. Sync \in Unlogged /\ Read \in Unended
    BY SetFacts
  <2>5. v \in SomeOp /\ Sync \in SomeOp
    BY <2>1, SomeOpFacts
  <2>6. QED
    BY <2>2, <2>3, <2>4, <2>5
<1>3. /\ rest \in Seq(SomeOp) /\ Starting(call, r) \in Seq(SomeOp) /\ Tests(call, r) \in Seq(SomeOp)
  BY OperationsRow
<1>4. rest = <<v>> \o P
  BY DEF Ending
<1>5. /\ group \in Seq(SomeOp) /\ Leads(group, here, here, here, logs, here, 2)
      /\ Len(group) = 6 /\ group # << >> /\ group \in Seq(Unlogged)
  <2>1. e \in Seq(SomeOp) /\ e \in Seq(Unlogged) /\ Leads(e, here, here, here, logs, here, 0)
    BY <1>1, EmptySeq, LeadsEmpty
  <2>2. Len(group) = 6 /\ group # << >>
    BY DEF PointGroup, Test
  <2>3. group \in Seq(Unlogged)
    <3>1. <<o, u>> \in Seq(Unlogged) /\ <<Sync, v>> \in Seq(Unlogged)
      BY <1>2, Tuples
    <3>2. <<ts>> \in Seq(Unlogged) /\ <<tf>> \in Seq(Unlogged)
      BY <1>2, Tuples
    <3>3. Test(e) \in Seq(Unlogged)
      <4>1. Test(e) = (<<ts>> \o e) \o <<tf>>
        BY DEF Test
      <4> HIDE DEF e, ts, tf
      <4>2. QED
        BY <2>1, <3>2, <4>1, ConcatProperties
    <3> DEFINE test == Test(e)
    <3>4. group = (<<o, u>> \o test) \o <<Sync, v>>
      BY DEF PointGroup
    <3> HIDE DEF test, o, u, v, group
    <3>5. test \in Seq(Unlogged)
      BY <3>3 DEF test
    <3>6. QED
      BY <3>1, <3>4, <3>5, ConcatProperties
  <2> HIDE DEF e
  <2>4. Test(e) \in Seq(SomeOp) /\ Leads(Test(e), here, here, here, logs, here, 0)
    BY <1>1, <2>1, TestLeads
  <2>5. group \in Seq(SomeOp) /\ Leads(group, here, here, here, logs, here, 0 + (IF here = here THEN 2 ELSE 0))
    BY <1>1, <2>4, PointGroupLeads
  <2>6. 0 + (IF here = here THEN 2 ELSE 0) = 2
    OBVIOUS
  <2> HIDE DEF group, here
  <2>7. Leads(group, here, here, here, logs, here, 2)
    BY <2>5, <2>6
  <2>8. QED
    BY <2>2, <2>3, <2>5, <2>7
<1> HIDE DEF group, here, logs, rest, v, e
<1>6. /\ P \in Seq(SomeOp) /\ P \in Seq(Unlogged)
      /\ Leads(P, here, here, here, logs, here, Outer(call))
  <2>1. P \in Seq(SomeOp) /\ P \in Seq(Unlogged)
    BY <1>1, <1>5, TimesFacts
  <2>2. Leads(P, here, here, here, logs, here, call.parents * 2)
    BY <1>1, <1>5, LeadsTimes
  <2>3. QED
    BY <2>1, <2>2 DEF Outer
<1> HIDE DEF P
<1>7. rest \in Seq(Unlogged) /\ Leads(rest, here, here, here, logs, here, Outer(call))
  <2>1. After(v, here) = here /\ Syncs(v, here, here) = 0 /\ Placed(v, here, here, logs)
    BY WriteEffect DEF v
  <2>2. Leads(<<v>> \o P, here, here, here, logs, here, 0 + Outer(call))
    BY <1>1, <1>2, <1>6, <2>1, LeadsCons
  <2>3. 0 + Outer(call) = Outer(call)
    BY <1>1
  <2>4. <<v>> \o P \in Seq(Unlogged)
    BY <1>2, <1>6, ConsFacts
  <2>5. QED
    BY <1>4, <2>2, <2>3, <2>4
<1>8. Milestone(here, logs, Unended, Sync, rest, Outer(call), Seq(Unlogged))
  <2>1. rest = <<Write("ended")>> \o P
    BY <1>4 DEF v
  <2>2. QED
    BY <1>1, <1>3, <1>6, <1>7, <2>1, SetsClosed DEF Milestone
<1>9. Tests(call, r) \in Seq(Unended)
  <2>1. Body(call, r) \in Seq(Unended)
    <3>1. << >> \in Seq(Unended)
      BY EmptySeq
    <3>2. <<Read, LogOn(logs)>> \in Seq(Unended) /\ <<Read, LogOn(logs)>> # << >>
      BY <1>2, Tuples
    <3>3. Times(<<Read, LogOn(logs)>>, call.logs) \in Seq(Unended)
      BY <1>1, <3>2, TimesFacts
    <3>4. QED
      BY <3>1, <3>3 DEF Body, logs
  <2>2. \A b \in Seq(Unended) : Test(b) \in Seq(Unended)
    <3>1. SUFFICES ASSUME NEW b \in Seq(Unended)
                   PROVE  Test(b) \in Seq(Unended)
      OBVIOUS
    <3>2. <<ts>> \in Seq(Unended) /\ <<tf>> \in Seq(Unended)
      BY <1>2, Tuples
    <3>3. Test(b) = (<<ts>> \o b) \o <<tf>>
      BY DEF Test
    <3> HIDE DEF ts, tf
    <3>4. QED
      BY <3>2, <3>3, ConcatProperties
  <2>3. << >> \in Seq(Unended)
    BY EmptySeq
  <2>4. Test(Body(call, r)) \in Seq(Unended) /\ Test(<< >>) \in Seq(Unended)
    BY <2>1, <2>2, <2>3
  <2>5. QED
    BY <2>4, ConcatProperties DEF Tests
<1>10. \E a \in Seq(Unended) : Starting(call, r) = a \o (<<Sync>> \o rest) /\ a # << >>
  <2> DEFINE U == <<u>>
             T == Tests(call, r)
             z == <<Sync>> \o rest
  <2>1. Starting(call, r) = U \o (T \o z)
    BY DEF Starting, rest
  <2>2. z \in Seq(SomeOp) /\ U \in Seq(Unended) /\ U \in Seq(SomeOp) /\ T \in Seq(SomeOp) /\ T \in Seq(Unended)
    BY <1>2, <1>3, <1>9, SetFacts, ConsFacts, Tuples DEF Nodes
  <2> HIDE DEF U, T, z
  <2>3. U \o (T \o z) = (U \o T) \o z
    BY ONLY <2>2, ConcatAssociative
  <2>4. U \o T \in Seq(Unended)
    BY <2>2, ConcatProperties
  <2>5. U \o T # << >>
    <3>1. Len(U \o T) = Len(U) + Len(T) /\ Len(T) \in Nat
      BY <2>2, ConcatProperties, LenProperties
    <3>2. Len(U) = 1
      BY DEF U
    <3>3. QED
      BY <3>1, <3>2, EmptySeq
  <2>6. QED
    BY <2>1, <2>3, <2>4, <2>5 DEF z
<1>11. \E p \in Seq(Unended) : Operations(call, r) = p \o (<<Sync>> \o rest)
  <2> DEFINE z == <<Sync>> \o rest
             st == Starting(call, r)
             C == <<o>>
  <2>1. PICK a \in Seq(Unended) : st = a \o z
    BY <1>10
  <2>2. z \in Seq(SomeOp) /\ C \in Seq(SomeOp) /\ C \in Seq(Unended) /\ a \in Seq(SomeOp)
    BY <1>2, <1>3, SetFacts, ConsFacts, Tuples, SeqMonotonic
  <2>3. PICK q \in Seq(Unended) : Operations(call, r) = q \o (C \o st)
    BY BeforeStart DEF here
  <2>4. q \in Seq(SomeOp)
    BY <2>3, SetFacts, SeqMonotonic
  <2> HIDE DEF C, st, z
  <2>5. (C \o a) \o z = C \o (a \o z) /\ C \o a \in Seq(SomeOp)
    BY ONLY <2>2, ConcatAssociative, ConcatProperties, SMTT(30)
  <2>6. (q \o (C \o a)) \o z = q \o ((C \o a) \o z)
    <3>1. q \in Seq(SomeOp) /\ C \o a \in Seq(SomeOp) /\ z \in Seq(SomeOp)
      BY <2>2, <2>4, <2>5
    <3>2. QED
      BY ONLY <3>1, ConcatAssociative, SMTT(30)
  <2>7. q \o (C \o a) \in Seq(Unended)
    BY ONLY <2>1, <2>2, <2>3, ConcatProperties
  <2>8. QED
    BY <2>1, <2>3, <2>5, <2>6, <2>7 DEF z
<1>12. QED
  BY <1>1, <1>8, <1>11 DEF here, logs, rest, Passes

-----------------------------------------------------------------------------
(* The ranks at the milestones of their calls.                             *)

\* Rank r is in the call of a loop.
Loop(r) == taken[r] # 0 /\ calls[taken[r]].kind # "finalize"

\* With s to do, from d and with k syncs to come, rank r is on its way through the
\* first and the last milestone of a call.
At(call, r, s, d, k) ==
  /\ Passes(s, d, k, call.comm, Front, SetComm(call.comm, TRUE), Opening(call, r),
            Total(call, call.comm) - 1, Seq(SomeOp))
  /\ Passes(s, d, k, call.comm, SomeOp, Sync, <<Write("ended")>>, 0, Done)

Stage(left, r) == Loop(r) => At(calls[taken[r]], r, todo[r], comm[r], left[r][calls[taken[r]].comm])
Stages(left) == \A r \in Ranks : Stage(left, r)

\* The call of a rank in a loop.
LEMMA LoopFacts ==
  ASSUME Typed, NEW r \in Ranks, Loop(r)
  PROVE  /\ taken[r] \in 1 .. Len(calls) /\ calls[taken[r]] \in LoopCall
         /\ r \in calls[taken[r]].comm /\ calls[taken[r]].comm \in AllComms
         /\ calls[taken[r]].comm \in Own(r)
         /\ Here(r) = calls[taken[r]].comm /\ Messages(r) = calls[taken[r]].logComm
<1>1. taken[r] \in 0 .. Len(calls) /\ taken[r] # 0 /\ calls \in Seq(ACall) /\ r \in calls[taken[r]].comm
  BY DEF Typed, TypeOK, InCall, Loop
<1>2. taken[r] \in 1 .. Len(calls)
  BY <1>1, LenProperties
<1>3. calls[taken[r]] \in ACall
  BY <1>1, <1>2, ElementOfSeq
<1>4. calls[taken[r]] \in LoopCall /\ calls[taken[r]].comm \in AllComms
  BY <1>3, CallFacts DEF Loop
<1>5. QED
  BY <1>1, <1>2, <1>4 DEF Own, Here, Messages

\* What it has to do leads on from where it is.
LEMMA LoopLeads ==
  ASSUME Typed, NEW left \in Lefts, Steady(left), NEW r \in Ranks, Loop(r)
  PROVE  LET here == calls[taken[r]].comm
             logs == calls[taken[r]].logComm
         IN  /\ left[r][here] \in Nat
             /\ \E e \in AllComms : Leads(todo[r], comm[r], e, here, logs, here, left[r][here])
<1> DEFINE here == calls[taken[r]].comm
<1>1. here \in Own(r) /\ here \in AllComms /\ Here(r) = here /\ Messages(r) = calls[taken[r]].logComm
  BY LoopFacts
<1>2. left[r][here] \in Nat
  BY <1>1 DEF Lefts
<1>3. Goes(r, comm[r], here, left[r][here])
  BY <1>1 DEF Steady
<1>4. QED
  BY <1>1, <1>2, <1>3 DEF Goes

\* A rank that writes a node of a call has done the first milestone, and when no syncs
\* are to come, it has the last node to write or nothing.
LEMMA StageFacts ==
  ASSUME Typed, NEW left \in Lefts, Steady(left), NEW r \in Ranks, Loop(r), Stage(left, r)
  PROVE  LET here == calls[taken[r]].comm
         IN  /\ left[r][here] = 0 => todo[r] \in Done
             /\ Doing(r, "write") /\ Head1(r).node # "stdout" =>
                  left[r][here] < Total(calls[taken[r]], here)
<1> DEFINE call == calls[taken[r]]
           here == call.comm
           k == left[r][here]
           total == Total(call, here)
<1>1. call \in LoopCall /\ r \in call.comm /\ here \in AllComms
  BY LoopFacts
<1>2. k \in Nat /\ \E e \in AllComms : Leads(todo[r], comm[r], e, here, call.logComm, here, k)
  BY LoopLeads
<1>3. At(call, r, todo[r], comm[r], k)
  BY DEF Stage
<1> HIDE DEF call, here, k, total
<1>4. ASSUME k = 0
      PROVE  todo[r] \in Done
  <2>1. Milestone(here, call.logComm, SomeOp, Sync, <<Write("ended")>>, 0, Done)
    BY <1>1, LastMilestone DEF here
  <2>2. Passes(todo[r], comm[r], k, here, SomeOp, Sync, <<Write("ended")>>, 0, Done)
    BY <1>3 DEF At, here
  <2>3. k <= 0
    BY <1>4
  <2> DEFINE w == <<Write("ended")>>
  <2> HIDE DEF w
  <2>4. QED
    BY <1>2, <2>1, <2>2, <2>3, PassesCount DEF w
<1>5. ASSUME Doing(r, "write"), Head1(r).node # "stdout"
      PROVE  k < total
  <2> DEFINE o == SetComm(here, TRUE)
             rest == Opening(call, r)
             z == <<o>> \o rest
  <2>1. Passes(todo[r], comm[r], k, here, Front, o, rest, total - 1, Seq(SomeOp))
    BY <1>3 DEF At, here, total
  <2>2. rest \in Seq(SomeOp) /\ o \in SomeOp /\ Sync \in SomeOp /\ Gather \in SomeOp /\ Front \subseteq SomeOp
    BY <1>1, OperationsRow, SomeOpFacts, FrontClosed DEF Closed
  <2>3. total \in Int
    <3>1. call \in ACall
      <4>1. calls \in Seq(ACall) /\ taken[r] \in 1 .. Len(calls)
        BY LoopFacts DEF Typed
      <4>2. QED
        BY <4>1, ElementOfSeq DEF call
    <3>2. QED
      BY <1>1, <3>1, TotalFacts DEF total
  <2>4. todo[r][1].op = "write" /\ todo[r][1].node # "stdout"
    BY <1>5 DEF Doing, Head1
  <2>5. o.op = "setComm" /\ Sync.op = "sync" /\ Gather.op = "gather" /\ Read.op = "read"
        /\ Write("stdout").node = "stdout" /\ \A v : SetComm(v, FALSE).op = "setComm"
    BY DEF SetComm, Sync, Gather, Read, Write
  <2> HIDE DEF o, rest
  <2>6. z \in Seq(SomeOp) /\ z[1] = o /\ (<<Sync>> \o rest)[1] = Sync /\ <<Sync>> \o rest \in Seq(SomeOp)
    BY <2>2, ConsFacts
  <2>7. ASSUME NEW a \in Seq(Front), todo[r] = a \o z
        PROVE  FALSE
    <3>1. CASE a = << >>
      <4>1. todo[r] = z
        BY <2>6, <2>7, <3>1, ConcatEmptySeq
      <4>2. QED
        BY <2>4, <2>5, <2>6, <4>1
    <3>2. CASE a # << >>
      <4> HIDE DEF z
      <4>1. a \in Seq(SomeOp)
        BY <2>2, SeqMonotonic
      <4>2. todo[r][1] = a[1]
        BY <2>6, <2>7, <3>2, <4>1, HeadKept
      <4>3. a[1] \in Front
        BY <3>2, HeadTail
      <4>4. QED
        BY <2>4, <2>5, <4>2, <4>3 DEF Front
    <3>3. QED
      BY <3>1, <3>2
  <2>8. todo[r] # <<Sync>> \o rest
    BY <2>4, <2>5, <2>6
  <2>9. todo[r] # <<Gather>> \o (<<Sync>> \o rest)
    <3>1. (<<Gather>> \o (<<Sync>> \o rest))[1] = Gather
      <4> DEFINE y == <<Sync>> \o rest
      <4>1. y \in Seq(SomeOp)
        BY <2>6
      <4> HIDE DEF y
      <4>2. (<<Gather>> \o y)[1] = Gather
        BY <2>2, <4>1, ConsFacts
      <4>3. QED
        BY <4>2 DEF y
    <3>2. QED
      BY <2>4, <2>5, <3>1
  <2>10. k <= total - 1
    BY <2>1, <2>7, <2>8, <2>9 DEF Passes, z
  <2>11. QED
    BY <1>2, <2>3, <2>10
<1>6. QED
  BY <1>4, <1>5 DEF call, here, k, total

\* The last node is written and nothing else.
LEMMA DoneFacts ==
  ASSUME Typed, NEW r \in Ranks, todo[r] \in Done, todo[r] # << >>
  PROVE  todo[r] = <<Write("ended")>> /\ Tail(todo[r]) = << >> /\ Head1(r) = Write("ended")
<1> DEFINE w == Write("ended")
<1>1. todo[r] = <<w>>
  BY DEF Done
<1> HIDE DEF w
<1>2. Tail(<<w>>) = << >> /\ <<w>>[1] = w
  OBVIOUS
<1>3. QED
  BY <1>1, <1>2 DEF Head1, w

\* A rank's own operation changes neither its call nor the others'.
LEMMA StepKeeps ==
  ASSUME NEW r \in Ranks, Step(r)
  PROVE  UNCHANGED <<calls, open, taken>>
BY DEF Step, DoSetComm, DoWrite, DoLog, DoName, DoPrint, DoRead, app

\* An operation of one rank leaves every rank in the stage its count says.
LEMMA StepStages ==
  ASSUME Typed, NEW left, Stages(left), NEW r \in Ranks, Step(r)
  PROVE  Stages(left)'
<1>1. UNCHANGED <<calls, taken>>
  BY StepKeeps
<1>2. \A s \in Ranks \ {r} : todo'[s] = todo[s] /\ comm'[s] = comm[s]
  BY StepTodo
<1>3. ASSUME NEW s \in Ranks \ {r}
      PROVE  Stage(left, s)'
  BY <1>1, <1>2 DEF Stages, Stage, Loop
<1>4. Stage(left, r)'
  <2>1. SUFFICES ASSUME Loop(r)
                 PROVE  At(calls[taken[r]], r, todo'[r], comm'[r], left[r][calls[taken[r]].comm])
    BY <1>1 DEF Stage, Loop
  <2> DEFINE call == calls[taken[r]]
             here == call.comm
             k == left[r][here]
  <2>2. call \in LoopCall /\ r \in call.comm
    BY <2>1, LoopFacts
  <2>3. At(call, r, todo[r], comm[r], k)
    BY <2>1 DEF Stages, Stage
  <2> HIDE DEF call, k, here
  <2>4. todo[r] \in Seq(SomeOp) => todo'[r] \in Seq(SomeOp)
    BY FrontClosed, ClosedKept
  <2>5. todo[r] \in Done => todo'[r] \in Done
    <3>1. SUFFICES ASSUME todo[r] \in Done
                   PROVE  todo'[r] \in Done
      OBVIOUS
    <3>2. todo[r] # << >> /\ \A node : Head1(r) = Write(node) => todo'[r] = Tail(todo[r])
      BY StepTodo
    <3>3. Head1(r) = Write("ended") /\ Tail(todo[r]) = << >>
      BY <3>1, <3>2, DoneFacts
    <3>4. QED
      BY <3>2, <3>3 DEF Done
  <2>6. Passes(todo'[r], comm'[r], k, here, Front, SetComm(here, TRUE), Opening(call, r),
               Total(call, here) - 1, Seq(SomeOp))
    <3> DEFINE o == SetComm(here, TRUE)
               rest == Opening(call, r)
               n == Total(call, here) - 1
    <3>1. Milestone(here, call.logComm, Front, o, rest, n, Seq(SomeOp))
      BY <2>2, FirstMilestone DEF here
    <3>2. Passes(todo[r], comm[r], k, here, Front, o, rest, n, Seq(SomeOp))
      BY <2>3 DEF At, here
    <3> HIDE DEF o, rest, n
    <3>3. Passes(todo'[r], comm'[r], k, here, Front, o, rest, n, Seq(SomeOp))
      BY <2>4, <3>1, <3>2, PassesStep
    <3>4. QED
      BY <3>3 DEF o, rest, n
  <2>7. Passes(todo'[r], comm'[r], k, here, SomeOp, Sync, <<Write("ended")>>, 0, Done)
    <3> DEFINE rest == <<Write("ended")>>
    <3>1. Milestone(here, call.logComm, SomeOp, Sync, rest, 0, Done)
      BY <2>2, LastMilestone DEF here
    <3>2. Passes(todo[r], comm[r], k, here, SomeOp, Sync, rest, 0, Done)
      BY <2>3 DEF At, here
    <3> HIDE DEF rest
    <3>3. Passes(todo'[r], comm'[r], k, here, SomeOp, Sync, rest, 0, Done)
      BY <2>5, <3>1, <3>2, PassesStep
    <3>4. QED
      BY <3>3 DEF rest
  <2>8. QED
    BY <2>6, <2>7 DEF At, call, here, k
<1>5. QED
  BY <1>3, <1>4 DEF Stages

\* So it is with a collective, for all of its members.
LEMMA CollectiveStages ==
  ASSUME Typed, NEW left \in Lefts, Steady(left), Stages(left), NEW c \in AllComms,
         NEW op \in {"gather", "sync"}, Together(c, op), GoOn(c),
         UNCHANGED <<calls, taken, comm>>, NEW less \in Lefts,
         \A r \in Ranks, x \in AllComms :
           less[r][x] = IF op = "sync" /\ r \in c /\ x = c THEN left[r][x] - 1 ELSE left[r][x]
  PROVE  Stages(less)'
<1>1. \A r \in c : r \in Ranks /\ Doing(r, op) /\ comm[r] = c
  BY TogetherFacts
<1>2. /\ \A r \in c : todo'[r] = Tail(todo[r])
      /\ \A r \in Ranks \ c : todo'[r] = todo[r]
  BY <1>1, GoOnTyped DEF Doing
<1>3. \A r \in Ranks : Loop(r) => calls[taken[r]].comm \in AllComms
  BY LoopFacts
<1>4. ASSUME NEW r \in Ranks \ c
      PROVE  Stage(less, r)'
  <2>1. Loop(r) => less[r][calls[taken[r]].comm] = left[r][calls[taken[r]].comm]
    BY <1>3, <1>4
  <2>2. QED
    BY <1>2, <2>1 DEF Stages, Stage, Loop
<1>5. ASSUME NEW r \in c
      PROVE  Stage(less, r)'
  <2>1. r \in Ranks /\ Doing(r, op) /\ comm[r] = c /\ todo'[r] = Tail(todo[r]) /\ comm'[r] = comm[r]
    BY <1>1, <1>2
  <2>2. SUFFICES ASSUME Loop(r)
                 PROVE  At(calls[taken[r]], r, todo'[r], comm'[r], less[r][calls[taken[r]].comm])
    BY DEF Stage, Loop
  <2> DEFINE call == calls[taken[r]]
             here == call.comm
             k == left[r][here]
             j == less[r][here]
  <2>3. call \in LoopCall /\ r \in call.comm /\ here \in AllComms
    BY <2>1, <2>2, LoopFacts
  <2>4. At(call, r, todo[r], comm[r], k)
    BY <2>1, <2>2 DEF Stages, Stage
  <2>5. k \in Nat /\ \E e \in AllComms : Leads(todo[r], comm[r], e, here, call.logComm, here, k)
    BY <2>1, <2>2, LoopLeads
  <2>6. j = IF op = "sync" /\ comm[r] = here THEN k - 1 ELSE k
    BY <2>1, <2>3
  <2> HIDE DEF call, k, here, j
  <2>7. PICK e \in AllComms : Leads(todo[r], comm[r], e, here, call.logComm, here, k)
    BY <2>5
  <2>8. Tail(todo[r]) \in Seq(SomeOp) /\ (todo[r] \in Done => FALSE)
    <3>1. /\ Head1(r) = IF op = "sync" THEN Sync ELSE Gather
          /\ Tail(todo[r]) \in Seq(SomeOp) /\ todo[r] # << >>
      BY <2>1, CollectiveTodo
    <3>2. Sync.op = "sync" /\ Gather.op = "gather" /\ Write("ended").op = "write"
      BY DEF Sync, Gather, Write
    <3>3. QED
      BY <2>1, <3>1, <3>2, DoneFacts
  <2>9. Passes(todo'[r], comm'[r], j, here, Front, SetComm(here, TRUE), Opening(call, r),
               Total(call, here) - 1, Seq(SomeOp))
    <3> DEFINE o == SetComm(here, TRUE)
               rest == Opening(call, r)
               n == Total(call, here) - 1
    <3>1. Milestone(here, call.logComm, Front, o, rest, n, Seq(SomeOp))
      BY <2>3, FirstMilestone DEF here
    <3>2. Passes(todo[r], comm[r], k, here, Front, o, rest, n, Seq(SomeOp))
      BY <2>4 DEF At, here
    <3>3. todo[r] \in Seq(SomeOp) => todo'[r] \in Seq(SomeOp)
      BY <2>1, <2>8
    <3> HIDE DEF o, rest, n
    <3>4. Passes(todo'[r], comm'[r], IF op = "sync" /\ comm[r] = here THEN k - 1 ELSE k,
                 here, Front, o, rest, n, Seq(SomeOp))
      BY <2>1, <2>5, <2>7, <3>1, <3>2, <3>3, PassesCollective
    <3>5. QED
      BY <2>6, <3>4 DEF o, rest, n
  <2>10. Passes(todo'[r], comm'[r], j, here, SomeOp, Sync, <<Write("ended")>>, 0, Done)
    <3> DEFINE rest == <<Write("ended")>>
    <3>1. Milestone(here, call.logComm, SomeOp, Sync, rest, 0, Done)
      BY <2>3, LastMilestone DEF here
    <3>2. Passes(todo[r], comm[r], k, here, SomeOp, Sync, rest, 0, Done)
      BY <2>4 DEF At, here
    <3>3. todo[r] \in Done => todo'[r] \in Done
      BY <2>8
    <3> HIDE DEF rest
    <3>4. Passes(todo'[r], comm'[r], IF op = "sync" /\ comm[r] = here THEN k - 1 ELSE k,
                 here, SomeOp, Sync, rest, 0, Done)
      BY <2>1, <2>5, <2>7, <3>1, <3>2, <3>3, PassesCollective
    <3>5. QED
      BY <2>6, <3>4 DEF rest
  <2>11. QED
    BY <2>9, <2>10 DEF At, call, here, j
<1>6. QED
  BY <1>4, <1>5 DEF Stages

\* A rank that enters the call of a loop is before both milestones.
LEMMA EnterStages ==
  ASSUME Typed, NEW left, Stages(left), NEW less, NEW r \in Ranks, Enter(r),
         \A s \in Ranks \ {r} : less[s] = left[s]
  PROVE  Stages(less)'
<1>1. PICK n \in (taken[r] + 1) .. Len(calls) :
        /\ r \in calls[n].comm
        /\ taken' = [taken EXCEPT ![r] = n]
        /\ todo' = [todo EXCEPT ![r] = IF calls[n].kind = "finalize" THEN Shutdown
                                       ELSE Operations(calls[n], r)]
  BY DEF Enter
<1>2. UNCHANGED <<calls, comm>>
  BY DEF Enter, app, engine
<1>3. calls \in Seq(ACall) /\ taken \in [Ranks -> 0 .. Len(calls)] /\ todo \in [Ranks -> Seq(AnyOp)]
  BY DEF Typed, TypeOK
<1>4. n \in 1 .. Len(calls)
  <2>1. taken[r] \in 0 .. Len(calls) /\ Len(calls) \in Nat
    BY <1>3, LenProperties
  <2>2. QED
    BY <2>1
<1>5. calls[n] \in ACall
  BY <1>3, <1>4, ElementOfSeq
<1>6. ASSUME NEW s \in Ranks \ {r}
      PROVE  Stage(less, s)'
  <2>1. taken'[s] = taken[s] /\ todo'[s] = todo[s]
    BY <1>1, <1>3
  <2>2. QED
    BY <1>2, <2>1 DEF Stages, Stage, Loop
<1>7. Stage(less, r)'
  <2>1. taken'[r] = n /\ todo'[r] = IF calls[n].kind = "finalize" THEN Shutdown ELSE Operations(calls[n], r)
    BY <1>1, <1>3
  <2>2. SUFFICES ASSUME calls[n].kind # "finalize"
                 PROVE  At(calls[n], r, Operations(calls[n], r), comm[r], less[r][calls[n].comm])
    BY <1>2, <2>1 DEF Stage, Loop
  <2>3. calls[n] \in LoopCall /\ r \in calls[n].comm
    BY <1>1, <1>5, <2>2, CallFacts
  <2>4. QED
    BY <2>3, FirstMilestone, LastMilestone DEF At
<1>8. QED
  BY <1>6, <1>7 DEF Stages

-----------------------------------------------------------------------------
(* The ranks at these milestones.                                          *)

\* With s to do, from d and with k syncs to come, rank r is on its way through the
\* milestones of a call's point.
In(call, r, s, d, k) ==
  /\ Passes(s, d, k, call.comm, Unstarted, SetComm(call.comm, TRUE), Starting(call, r),
            Inner(call), Seq(SomeOp))
  /\ Passes(s, d, k, call.comm, Unended, Sync, Ending(call), Outer(call), Seq(Unlogged))

Phase(left, r) == Loop(r) => In(calls[taken[r]], r, todo[r], comm[r], left[r][calls[taken[r]].comm])
Phases(left) == \A r \in Ranks : Phase(left, r)

\* An operation of one rank leaves every rank in its phase.
LEMMA StepPhases ==
  ASSUME Typed, NEW left, Phases(left), NEW r \in Ranks, Step(r)
  PROVE  Phases(left)'
<1>1. UNCHANGED <<calls, taken>>
  BY StepKeeps
<1>2. \A s \in Ranks \ {r} : todo'[s] = todo[s] /\ comm'[s] = comm[s]
  BY StepTodo
<1>3. ASSUME NEW s \in Ranks \ {r}
      PROVE  Phase(left, s)'
  BY <1>1, <1>2 DEF Phases, Phase, Loop
<1>4. Phase(left, r)'
  <2>1. SUFFICES ASSUME Loop(r)
                 PROVE  In(calls[taken[r]], r, todo'[r], comm'[r], left[r][calls[taken[r]].comm])
    BY <1>1 DEF Phase, Loop
  <2> DEFINE call == calls[taken[r]]
             here == call.comm
             k == left[r][here]
             o == SetComm(here, TRUE)
             n == Inner(call)
             m == Outer(call)
             begin == Starting(call, r)
             end == Ending(call)
  <2>2. call \in LoopCall /\ r \in call.comm
    BY <2>1, LoopFacts
  <2>3. /\ Passes(todo[r], comm[r], k, here, Unstarted, o, begin, n, Seq(SomeOp))
        /\ Passes(todo[r], comm[r], k, here, Unended, Sync, end, m, Seq(Unlogged))
    BY <2>1 DEF Phases, Phase, In
  <2>4. /\ todo[r] \in Seq(SomeOp) => todo'[r] \in Seq(SomeOp)
        /\ todo[r] \in Seq(Unlogged) => todo'[r] \in Seq(Unlogged)
    BY FrontClosed, SetsClosed, ClosedKept
  <2>5. begin \in Seq(SomeOp)
    BY <2>2, OperationsRow
  <2>6. Milestone(here, call.logComm, Unstarted, o, begin, n, Seq(SomeOp))
    BY <2>2, <2>5, StartMilestone
  <2>7. Milestone(here, call.logComm, Unended, Sync, end, m, Seq(Unlogged))
    BY <2>2, EndMilestone
  <2>8. SUFFICES /\ Passes(todo'[r], comm'[r], k, here, Unstarted, o, begin, n, Seq(SomeOp))
                 /\ Passes(todo'[r], comm'[r], k, here, Unended, Sync, end, m, Seq(Unlogged))
    BY DEF In
  <2> HIDE DEF call, here, k, o, n, m, begin, end
  <2>9. Passes(todo'[r], comm'[r], k, here, Unstarted, o, begin, n, Seq(SomeOp))
    BY <2>3, <2>4, <2>6, PassesStep
  <2>10. Passes(todo'[r], comm'[r], k, here, Unended, Sync, end, m, Seq(Unlogged))
    BY <2>3, <2>4, <2>7, PassesStep
  <2>11. QED
    BY <2>9, <2>10
<1>5. QED
  BY <1>3, <1>4 DEF Phases

\* So it is with a collective.  Those who pass the first of the milestones go on with
\* the started node.
LEMMA CollectivePhases ==
  ASSUME Typed, NEW left \in Lefts, Steady(left), Phases(left), NEW c \in AllComms,
         NEW op \in {"gather", "sync"}, Together(c, op), GoOn(c),
         UNCHANGED <<calls, taken, comm>>, NEW less \in Lefts,
         \A r \in Ranks, x \in AllComms :
           less[r][x] = IF op = "sync" /\ r \in c /\ x = c THEN left[r][x] - 1 ELSE left[r][x]
  PROVE  /\ Phases(less)'
         /\ \A r \in c : op = "sync" /\ Loop(r) /\ calls[taken[r]].comm = c
                           /\ left[r][c] = Inner(calls[taken[r]]) + 1
              => todo'[r] = Starting(calls[taken[r]], r)
<1>1. \A r \in c : r \in Ranks /\ Doing(r, op) /\ comm[r] = c
  BY TogetherFacts
<1>2. /\ \A r \in c : todo'[r] = Tail(todo[r])
      /\ \A r \in Ranks \ c : todo'[r] = todo[r]
  BY <1>1, GoOnTyped DEF Doing
<1>3. \A r \in Ranks : Loop(r) => calls[taken[r]].comm \in AllComms
  BY LoopFacts
<1>4. ASSUME NEW r \in Ranks \ c
      PROVE  Phase(less, r)'
  <2>1. Loop(r) => less[r][calls[taken[r]].comm] = left[r][calls[taken[r]].comm]
    BY <1>3, <1>4
  <2>2. QED
    BY <1>2, <2>1 DEF Phases, Phase, Loop
<1>5. ASSUME NEW r \in c
      PROVE  /\ Phase(less, r)'
             /\ op = "sync" /\ Loop(r) /\ calls[taken[r]].comm = c
                  /\ left[r][c] = Inner(calls[taken[r]]) + 1
                => todo'[r] = Starting(calls[taken[r]], r)
  <2>1. r \in Ranks /\ Doing(r, op) /\ comm[r] = c /\ todo'[r] = Tail(todo[r]) /\ comm'[r] = comm[r]
    BY <1>1, <1>2
  <2> DEFINE call == calls[taken[r]]
             here == call.comm
             k == left[r][here]
             j == less[r][here]
             o == SetComm(here, TRUE)
             n == Inner(call)
             m == Outer(call)
             begin == Starting(call, r)
             end == Ending(call)
  <2>2. SUFFICES ASSUME Loop(r)
                 PROVE  /\ Passes(todo'[r], comm'[r], j, here, Unstarted, o, begin, n, Seq(SomeOp))
                        /\ Passes(todo'[r], comm'[r], j, here, Unended, Sync, end, m, Seq(Unlogged))
                        /\ op = "sync" /\ here = c /\ k = n + 1 => todo'[r] = begin
    BY DEF Phase, Loop, In
  <2>3. call \in LoopCall /\ r \in call.comm /\ here \in AllComms
    BY <2>1, <2>2, LoopFacts
  <2>4. /\ Passes(todo[r], comm[r], k, here, Unstarted, o, begin, n, Seq(SomeOp))
        /\ Passes(todo[r], comm[r], k, here, Unended, Sync, end, m, Seq(Unlogged))
    BY <2>1, <2>2 DEF Phases, Phase, In
  <2>5. k \in Nat /\ \E e \in AllComms : Leads(todo[r], comm[r], e, here, call.logComm, here, k)
    BY <2>1, <2>2, LoopLeads
  <2>6. j = IF op = "sync" /\ comm[r] = here THEN k - 1 ELSE k
    BY <2>1, <2>3
  <2>7. begin \in Seq(SomeOp) /\ n \in Nat
    BY <2>3, OperationsRow, StartMilestone
  <2>8. \A Q : begin \in Q => Milestone(here, call.logComm, Unstarted, o, begin, n, Q)
    BY <2>3, StartMilestone
  <2>9. Milestone(here, call.logComm, Unended, Sync, end, m, Seq(Unlogged))
    BY <2>3, EndMilestone
  <2>10. begin # << >> /\ begin[1] = Write("started")
    <3> DEFINE w == Write("started")
               t == Tests(call, r) \o (<<Sync>> \o end)
    <3>1. begin = <<w>> \o t
      BY DEF Starting
    <3>2. t \in Seq(SomeOp)
      <4>1. <<Sync>> \o end \in Seq(SomeOp) /\ Tests(call, r) \in Seq(SomeOp)
        BY <2>3, OperationsRow, SomeOpFacts, ConsFacts
      <4>2. QED
        BY <4>1, ConcatProperties
    <3>3. w \in SomeOp
      BY SomeOpFacts DEF Nodes
    <3> HIDE DEF w, t, begin
    <3>4. <<w>> \o t # << >> /\ (<<w>> \o t)[1] = w
      BY <3>2, <3>3, ConsFacts
    <3>5. QED
      BY <3>1, <3>4 DEF w
  <2> HIDE DEF call, here, k, j, o, n, m, begin, end
  <2>11. PICK e \in AllComms : Leads(todo[r], comm[r], e, here, call.logComm, here, k)
    BY <2>5
  <2>12. /\ todo[r] \in Seq(SomeOp) => todo'[r] \in Seq(SomeOp)
         /\ todo[r] \in Seq(Unlogged) => todo'[r] \in Seq(Unlogged)
    <3>1. todo[r] # << >>
      BY <2>1, CollectiveTodo
    <3>2. QED
      BY <2>1, <3>1, FrontClosed, SetsClosed, ClosedKept
  <2>13. Passes(todo'[r], comm'[r], j, here, Unstarted, o, begin, n, Seq(SomeOp))
    <3>1. Milestone(here, call.logComm, Unstarted, o, begin, n, Seq(SomeOp))
      BY <2>7, <2>8
    <3>2. Passes(todo'[r], comm'[r], IF op = "sync" /\ comm[r] = here THEN k - 1 ELSE k,
                 here, Unstarted, o, begin, n, Seq(SomeOp))
      BY <2>1, <2>4, <2>5, <2>11, <2>12, <3>1, PassesCollective
    <3>3. QED
      BY <2>6, <3>2
  <2>14. Passes(todo'[r], comm'[r], j, here, Unended, Sync, end, m, Seq(Unlogged))
    <3>1. Passes(todo'[r], comm'[r], IF op = "sync" /\ comm[r] = here THEN k - 1 ELSE k,
                 here, Unended, Sync, end, m, Seq(Unlogged))
      BY <2>1, <2>4, <2>5, <2>9, <2>11, <2>12, PassesCollective
    <3>2. QED
      BY <2>6, <3>1
  <2>15. ASSUME op = "sync", here = c, k = n + 1
         PROVE  todo'[r] = begin
    <3> DEFINE Q == {begin}
    <3>1. Milestone(here, call.logComm, Unstarted, o, begin, n, Q)
      BY <2>8
    <3>2. todo[r] \in Q => FALSE
      <4>1. todo[r][1] = Sync
        BY <2>1, <2>15, CollectiveTodo
      <4>2. Sync # Write("started")
        <5>1. Sync.op = "sync" /\ Write("started").op = "write"
          BY OpNames
        <5>2. QED
          BY <5>1
      <4>3. QED
        BY <2>10, <4>1, <4>2
    <3>3. Passes(todo[r], comm[r], k, here, Unstarted, o, begin, n, Q)
      <4>1. ~(k <= n)
        BY <2>7, <2>15
      <4>2. QED
        BY <2>4, <4>1 DEF Passes
    <3> HIDE DEF Q
    <3>4. Passes(todo'[r], comm'[r], IF op = "sync" /\ comm[r] = here THEN k - 1 ELSE k,
                 here, Unstarted, o, begin, n, Q)
      BY <2>1, <2>5, <2>11, <3>1, <3>2, <3>3, PassesCollective
    <3>5. Passes(todo'[r], comm'[r], n, here, Unstarted, o, begin, n, Q)
      <4>1. (IF op = "sync" /\ comm[r] = here THEN k - 1 ELSE k) = n
        BY <2>1, <2>7, <2>15
      <4>2. QED
        BY <3>4, <4>1
    <3>6. \E f \in AllComms : Leads(todo'[r], comm'[r], f, here, call.logComm, here, n)
      <4>1. todo[r] = <<Sync>> \o Tail(todo[r]) /\ Tail(todo[r]) \in Seq(SomeOp) /\ Sync \in SomeOp
        BY <2>1, <2>15, CollectiveTodo, SomeOpFacts
      <4> DEFINE t == Tail(todo[r])
      <4>2. Leads(<<Sync>> \o t, comm[r], e, here, call.logComm, here, k)
        BY <2>11, <4>1
      <4> HIDE DEF t
      <4>3. PICK i \in Nat : k = Syncs(Sync, comm[r], here) + i
                             /\ Leads(t, After(Sync, comm[r]), e, here, call.logComm, here, i)
        <5>1. t \in Seq(SomeOp)
          BY <4>1 DEF t
        <5>2. QED
          BY <4>1, <4>2, <5>1, LeadsTail
      <4>4. Syncs(Sync, comm[r], here) = 1 /\ After(Sync, comm[r]) = comm[r]
        BY <2>1, <2>15, SyncEffect
      <4>5. i = n
        BY <2>7, <2>15, <4>3, <4>4
      <4>6. QED
        BY <2>1, <4>3, <4>4, <4>5 DEF t
    <3>7. todo'[r] \in Q
      <4>1. n <= n
        BY <2>7
      <4>2. QED
        BY <2>7, <3>1, <3>5, <3>6, <4>1, PassesCount
    <3>8. QED
      BY <3>7 DEF Q
  <2>16. QED
    BY <2>13, <2>14, <2>15
<1>6. QED
  BY <1>4, <1>5 DEF Phases

\* A rank that enters the call of a loop is before the milestones.
LEMMA EnterPhases ==
  ASSUME Typed, NEW left, Phases(left), NEW less, NEW r \in Ranks, Enter(r),
         \A s \in Ranks \ {r} : less[s] = left[s]
  PROVE  Phases(less)'
<1>1. PICK n \in (taken[r] + 1) .. Len(calls) :
        /\ r \in calls[n].comm
        /\ taken' = [taken EXCEPT ![r] = n]
        /\ todo' = [todo EXCEPT ![r] = IF calls[n].kind = "finalize" THEN Shutdown
                                       ELSE Operations(calls[n], r)]
  BY DEF Enter
<1>2. UNCHANGED <<calls, comm>>
  BY DEF Enter, app, engine
<1>3. calls \in Seq(ACall) /\ taken \in [Ranks -> 0 .. Len(calls)] /\ todo \in [Ranks -> Seq(AnyOp)]
  BY DEF Typed, TypeOK
<1>4. n \in 1 .. Len(calls)
  <2>1. taken[r] \in 0 .. Len(calls) /\ Len(calls) \in Nat
    BY <1>3, LenProperties
  <2>2. QED
    BY <2>1
<1>5. calls[n] \in ACall
  BY <1>3, <1>4, ElementOfSeq
<1>6. ASSUME NEW s \in Ranks \ {r}
      PROVE  Phase(less, s)'
  <2>1. taken'[s] = taken[s] /\ todo'[s] = todo[s]
    BY <1>1, <1>3
  <2>2. QED
    BY <1>2, <2>1 DEF Phases, Phase, Loop
<1>7. Phase(less, r)'
  <2>1. taken'[r] = n /\ todo'[r] = IF calls[n].kind = "finalize" THEN Shutdown ELSE Operations(calls[n], r)
    BY <1>1, <1>3
  <2>2. SUFFICES ASSUME calls[n].kind # "finalize"
                 PROVE  In(calls[n], r, Operations(calls[n], r), comm[r], less[r][calls[n].comm])
    BY <1>2, <2>1 DEF Phase, Loop
  <2>3. calls[n] \in LoopCall /\ r \in calls[n].comm
    BY <1>1, <1>5, <2>2, CallFacts
  <2>4. QED
    BY <2>3, StartMilestone, EndMilestone DEF In
<1>8. QED
  BY <1>6, <1>7 DEF Phases

\* Before a milestone there is something to do, of the operations before it.
LEMMA PassesHead ==
  ASSUME NEW S, S \subseteq SomeOp, NEW o \in SomeOp, NEW rest \in Seq(SomeOp),
         NEW s, NEW d, NEW k, NEW here, NEW n, NEW Q, Passes(s, d, k, here, S, o, rest, n, Q), ~(k <= n)
  PROVE  s # << >> /\ s[1] \in S \cup {o, Gather, Sync}
<1> DEFINE z == <<o>> \o rest
           y == <<Sync>> \o rest
<1>1. z \in Seq(SomeOp) /\ z # << >> /\ z[1] = o
  BY ConsFacts
<1>2. Sync \in SomeOp /\ Gather \in SomeOp
  BY SomeOpFacts
<1>3. y \in Seq(SomeOp) /\ y # << >> /\ y[1] = Sync
  BY <1>2, ConsFacts
<1> HIDE DEF z, y
<1>4. <<Gather>> \o y # << >> /\ (<<Gather>> \o y)[1] = Gather
  BY <1>2, <1>3, ConsFacts
<1>5. CASE \E a \in Seq(S) : s = a \o z
  <2>1. PICK a \in Seq(S) : s = a \o z
    BY <1>5
  <2>2. a \in Seq(SomeOp)
    BY <2>1, SeqMonotonic
  <2>3. CASE a = << >>
    BY <1>1, <2>1, <2>3, ConcatEmptySeq
  <2>4. CASE a # << >>
    <3>1. a[1] \in S
      BY <2>4, HeadTail
    <3>2. a \o z # << >> /\ (a \o z)[1] = a[1]
      BY <1>1, <2>2, <2>4, HeadKept
    <3>3. QED
      BY <2>1, <3>1, <3>2
  <2>5. QED
    BY <2>3, <2>4
<1>6. CASE s = <<Gather>> \o y \/ s = y
  BY <1>3, <1>4, <1>6
<1>7. QED
  BY <1>5, <1>6 DEF Passes, z, y

\* What a rank writes is a node.
LEMMA WriteHead ==
  ASSUME Typed, NEW r \in Ranks, Doing(r, "write")
  PROVE  /\ todo[r] # << >> /\ todo[r][1] = Write(Head1(r).node) /\ Head1(r) = Write(Head1(r).node)
         /\ Head1(r).node \in Nodes
<1>1. Head1(r) \in Ops(r, known[r]) /\ Head1(r).op = "write" /\ todo[r] # << >>
  BY DoingFacts
<1>2. Head1(r).node \in Nodes
  BY <1>1, OpsCases
<1>3. \E node : Head1(r) = Write(node)
  <2> DEFINE o == Head1(r)
  <2>1. o \in Ops(r, known[r]) /\ o.op = "write"
    BY <1>1
  <2> HIDE DEF o
  <2>2. \A v, b : o # SetComm(v, b)
    BY <2>1, OpNames
  <2>3. \A v : o # LogOn(v)
    BY <2>1, OpNames
  <2>4. o \notin {Read, Sync, NameLog, Printed}
    BY <2>1, OpNames
  <2>5. o \in {Write(node) : node \in Nodes \ {"comminfo"}}
    BY <2>1, <2>2, <2>3, <2>4 DEF Ops
  <2>6. QED
    BY <2>5 DEF o
<1>4. PICK node : Head1(r) = Write(node)
  BY <1>3
<1>5. Head1(r).node = node
  BY <1>4, OpNames
<1>6. QED
  BY <1>1, <1>2, <1>4, <1>5 DEF Head1

\* Only inside its point does a rank log, and no ended node comes before its end.
LEMMA PhaseFacts ==
  ASSUME Typed, NEW left \in Lefts, Steady(left), NEW r \in Ranks, Loop(r), Phase(left, r)
  PROVE  LET call == calls[taken[r]]
             k == left[r][call.comm]
         IN  /\ Inner(call) \in Nat /\ Outer(call) \in Nat
             /\ Inner(call) < Total(call, call.comm) /\ Outer(call) < Total(call, call.comm)
             /\ Doing(r, "write") /\ Head1(r).node \in {"log", "started"} => k <= Inner(call)
             /\ Doing(r, "write") /\ Head1(r).node = "ended" => k <= Outer(call)
             /\ k <= Outer(call) => todo[r] \in Seq(Unlogged)
<1> DEFINE call == calls[taken[r]]
           here == call.comm
           k == left[r][here]
           o == SetComm(here, TRUE)
           n == Inner(call)
           m == Outer(call)
           begin == Starting(call, r)
           end == Ending(call)
           total == Total(call, here)
<1>1. call \in LoopCall /\ r \in call.comm /\ here \in AllComms
  BY LoopFacts
<1>2. /\ Passes(todo[r], comm[r], k, here, Unstarted, o, begin, n, Seq(SomeOp))
      /\ Passes(todo[r], comm[r], k, here, Unended, Sync, end, m, Seq(Unlogged))
  BY DEF Phase, In
<1>3. begin \in Seq(SomeOp) /\ end \in Seq(SomeOp) /\ o \in SomeOp /\ Sync \in SomeOp
  BY <1>1, OperationsRow, SomeOpFacts
<1>4. n \in Nat /\ m \in Nat
  BY <1>1, StartMilestone, EndMilestone
<1>5. k \in Nat /\ \E e \in AllComms : Leads(todo[r], comm[r], e, here, call.logComm, here, k)
  BY LoopLeads
<1>6. n < total /\ m < total
  <2>1. call.parents \in Nat /\ call.logs \in Nat /\ call.kind # "finalize"
    BY <1>1 DEF LoopCall
  <2>2. Total(call, here) = (Hooked + 2 + (call.parents * 2)) + (IF here = call.logComm THEN call.logs ELSE 0)
    BY <2>1 DEF Total
  <2> HIDE DEF call, here
  <2>3. QED
    BY <2>1, <2>2 DEF Inner, Outer, Hooked, here
<1>7. Milestone(here, call.logComm, Unended, Sync, end, m, Seq(Unlogged))
  BY <1>1, EndMilestone
<1> HIDE DEF call, here, k, o, n, m, begin, end, total
<1>8. k <= m => todo[r] \in Seq(Unlogged)
  BY <1>2, <1>5, <1>7, PassesCount
<1>9. ASSUME Doing(r, "write"), Head1(r).node \in {"log", "started"}, ~(k <= n)
      PROVE  FALSE
  <2>1. todo[r][1] \in Unstarted \cup {o, Gather, Sync}
    BY <1>2, <1>3, <1>9, PassesHead, SetFacts
  <2>2. todo[r][1] = Write("log") \/ todo[r][1] = Write("started")
    BY <1>9, WriteHead
  <2>3. Write("log") \notin Unstarted /\ Write("started") \notin Unstarted
    BY DEF Unstarted, Messaging
  <2>4. \A w \in {o, Gather, Sync} : w.op # "write"
    BY OpNames DEF o
  <2>5. QED
    BY <2>1, <2>2, <2>3, <2>4, OpNames
<1>10. ASSUME Doing(r, "write"), Head1(r).node = "ended", ~(k <= m)
       PROVE  FALSE
  <2>1. todo[r][1] \in Unended \cup {Sync, Gather}
    BY <1>2, <1>3, <1>10, PassesHead, SetFacts
  <2>2. todo[r][1] = Write("ended")
    BY <1>10, WriteHead
  <2>3. Write("ended") \notin Unended
    BY DEF Unended
  <2>4. \A w \in {Gather, Sync} : w.op # "write"
    BY OpNames
  <2>5. QED
    BY <2>1, <2>2, <2>3, <2>4, OpNames
<1>11. QED
  BY <1>4, <1>6, <1>8, <1>9, <1>10 DEF call, here, k, n, m, total
===============================================================================
