--------------------------- MODULE PointStreamTypes ---------------------------
(***************************************************************************)
(* Type correctness of PointStream for every number of ranks, every choice *)
(* of communicators and every bound, and where a list of operations leads. *)
(* TypeOK is not inductive: what a rank has still to do (`todo`) decides   *)
(* which communicator it is on, so Typed adds which operations may be in   *)
(* it, and that a rank is about to gather exactly when it is on a          *)
(* communicator it does not know, which all of its members learn together. *)
(*                                                                         *)
(* The proofs about streams count the syncs that a list of operations has  *)
(* left on each communicator without recursion: it Leads from one          *)
(* communicator to another with a number of syncs when there are functions *)
(* that say where it is and what is left after each of them; what is left  *)
(* tells which milestones of the list have been passed.                    *)
(***************************************************************************)
EXTENDS PointStream, FiniteSetTheorems, SequenceTheorems, TLAPS

\* The communicators rank r is in.
Own(r) == {c \in AllComms : r \in c}

\* What rank r may have to do, when it knows the communicators of K.  It changes to
\* a communicator without a sync only when it knows it or is alone in it.
Ops(r, K) ==
  {SetComm(c, TRUE) : c \in Own(r)} \cup {SetComm(c, FALSE) : c \in Own(r) \cap (K \cup {{r}})}
    \cup {Write(node) : node \in Nodes \ {"comminfo"}} \cup {LogOn(c) : c \in Own(r)}
    \cup {Read, Sync, NameLog, Printed}

AnyOp == (UNION {Ops(r, AllComms) : r \in Ranks}) \cup {Gather}

LoopCall == [kind : {"begin", "iter", "end"}, comm : AllComms, logComm : AllComms, logs : Nat, parents : Nat]
LastCall == [kind : {"finalize"}, comm : {World}, logComm : {{}}, logs : {0}, parents : Nat]
ACall == {k \in LoopCall : k.logComm \subseteq k.comm} \cup LastCall

\* A rank gathers exactly when it has changed to a communicator it does not know,
\* and goes on with the sync of that change.
TodoOK(r) ==
  IF comm[r] \in known[r]
  THEN todo[r] \in Seq(Ops(r, known[r]))
  ELSE \E t \in Seq(Ops(r, known[r])) :
         todo[r] = <<Gather>> \o t /\ (comm[r] # {r} => t # << >> /\ t[1] = Sync)

\* A rank is in a call of its own, if it is in one.
InCall(r) == taken[r] # 0 => r \in calls[taken[r]].comm

\* The members of a communicator know it when it has a stream.
KnownOK == \A c \in AllComms : \A r \in c : c \in known[r] <=> stream[c] # << >>

Typed ==
  /\ calls \in Seq(ACall)
  /\ todo \in [Ranks -> Seq(AnyOp)]
  /\ TypeOK
  /\ \A r \in Ranks : TodoOK(r) /\ InCall(r) /\ World \in known[r]
  /\ KnownOK

-----------------------------------------------------------------------------
(* Communicators.                                                          *)

\* Some member of a finite set has the greatest value.
LEMMA Greatest ==
  ASSUME NEW c, IsFiniteSet(c), c # {}, NEW f \in [c -> Int]
  PROVE  \E r \in c : \A s \in c : f[s] <= f[r]
<1> DEFINE Covers(d) == \A s \in c : \E r \in d : f[s] <= f[r]
           T == {d \in SUBSET c : Covers(d)}
<1>1. IsWellFoundedOn(StrictSubsetOrdering(c), SUBSET c)
  BY FS_StrictSubsetOrderingWellFounded, FS_FiniteSubsetsOfFinite
<1>2. T \subseteq SUBSET c /\ c \in T
  OBVIOUS
<1>3. PICK d \in T : \A e \in T : ~ (<<e, d>> \in StrictSubsetOrdering(c))
  <2> HIDE DEF T
  <2>1. QED
    BY <1>1, <1>2, WFMin
<1>4. d \subseteq c /\ Covers(d)
  OBVIOUS
<1>5. PICK r \in d : TRUE
  BY <1>4
<1>6. ASSUME NEW s \in c
      PROVE  f[s] <= f[r]
  <2>1. SUFFICES ASSUME ~(f[s] <= f[r])
                 PROVE  FALSE
    OBVIOUS
  <2>2. Covers(d \ {r})
    <3>1. SUFFICES ASSUME NEW u \in c
                   PROVE  \E v \in d \ {r} : f[u] <= f[v]
      OBVIOUS
    <3>2. PICK v \in d : f[u] <= f[v]
      BY <1>4
    <3>3. PICK w \in d : f[s] <= f[w]
      BY <1>4
    <3>4. w # r
      BY <2>1, <3>3
    <3>5. v = r => f[u] <= f[w]
      <4>1. f[u] \in Int /\ f[s] \in Int /\ f[w] \in Int /\ f[r] \in Int
        BY <1>4
      <4>2. QED
        BY <2>1, <3>2, <3>3, <4>1
    <3>6. QED
      BY <3>2, <3>4, <3>5
  <2>3. d \ {r} \in T
    BY <1>4, <2>2
  <2>4. <<d \ {r}, d>> \in StrictSubsetOrdering(c)
    BY <1>4, <1>5 DEF StrictSubsetOrdering
  <2>5. QED
    BY <1>3, <2>3, <2>4
<1>7. QED
  BY <1>4, <1>6

\* A communicator is a finite set of ranks that is not empty.
LEMMA CommFacts ==
  /\ \A c \in AllComms : c \subseteq Ranks /\ c # {} /\ IsFiniteSet(c)
  /\ World \in AllComms
  /\ \A r \in Ranks : r \in World /\ World \in Own(r) /\ {r} \in Own(r)
<1>1. \A c \in AllComms : c \subseteq Ranks /\ c # {}
  BY RanksAssumption, CommsAssumption DEF AllComms, World
<1>2. \A c \in AllComms : IsFiniteSet(c)
  BY <1>1, RanksAssumption, FS_Subset
<1>3. QED
  BY <1>1, <1>2 DEF AllComms, World, Own

\* A communicator has a root.
LEMMA RootFacts ==
  ASSUME NEW c \in AllComms
  PROVE  Root(c) \in c /\ Root(c) \in Ranks
<1>1. c \subseteq Ranks /\ c # {} /\ IsFiniteSet(c) /\ c \subseteq Nat
  BY CommFacts, RanksAssumption
<1>2. [s \in c |-> 0 - s] \in [c -> Int]
  BY <1>1
<1>3. PICK r \in c : \A s \in c : [t \in c |-> 0 - t][s] <= [t \in c |-> 0 - t][r]
  BY <1>1, <1>2, Greatest
<1>4. \A s \in c : r <= s
  BY <1>1, <1>3
<1>5. QED
  BY <1>1, <1>4 DEF Root

\* The number the members of a communicator agree on is the greatest of theirs.
LEMMA AgreedFacts ==
  ASSUME NEW c \in AllComms, id \in [Ranks -> Nat]
  PROVE  Agreed(c) \in Nat /\ \A r \in c : id[r] <= Agreed(c)
<1>1. c \subseteq Ranks /\ c # {} /\ IsFiniteSet(c)
  BY CommFacts
<1>2. [s \in c |-> id[s]] \in [c -> Int]
  BY <1>1
<1>3. PICK r \in c : \A s \in c : [t \in c |-> id[t]][s] <= [t \in c |-> id[t]][r]
  BY <1>1, <1>2, Greatest
<1>4. \A s \in c : id[s] <= id[r]
  BY <1>3
<1>5. \E m \in {id[s] : s \in c} : \A s \in c : id[s] <= m
  BY <1>4
<1>6. Agreed(c) \in {id[s] : s \in c} /\ \A s \in c : id[s] <= Agreed(c)
  BY <1>5 DEF Agreed
<1>7. QED
  BY <1>1, <1>6

-----------------------------------------------------------------------------
(* Sequences of operations.                                                *)

\* An operation in front of a sequence.
LEMMA ConsFacts ==
  ASSUME NEW S, NEW e \in S, NEW t \in Seq(S)
  PROVE  /\ <<e>> \in Seq(S)
         /\ <<e>> \o t \in Seq(S)
         /\ <<e>> \o t # << >>
         /\ (<<e>> \o t)[1] = e
         /\ Len(<<e>> \o t) = Len(t) + 1
         /\ \A i \in 1 .. Len(t) : (<<e>> \o t)[i + 1] = t[i]
         /\ Tail(<<e>> \o t) = t
<1>1. <<e>> \in Seq(S) /\ Len(<<e>>) = 1 /\ <<e>>[1] = e
  OBVIOUS
<1>2. Len(t) \in Nat
  BY LenProperties
<1>3. /\ <<e>> \o t \in Seq(S)
      /\ Len(<<e>> \o t) = Len(<<e>>) + Len(t)
      /\ \A i \in 1 .. (Len(<<e>>) + Len(t)) : (<<e>> \o t)[i] =
           IF i <= Len(<<e>>) THEN <<e>>[i] ELSE t[i - Len(<<e>>)]
  BY <1>1, ConcatProperties
<1> DEFINE s == <<e>> \o t
<1>4. s \in Seq(S) /\ Len(s) = Len(t) + 1 /\ s[1] = e /\ \A i \in 1 .. Len(t) : s[i + 1] = t[i]
  BY <1>1, <1>2, <1>3
<1> HIDE DEF s
<1>5. s # << >>
  BY <1>2, <1>4, EmptySeq
<1>6. /\ Tail(s) \in Seq(S)
      /\ Len(Tail(s)) = Len(s) - 1
      /\ \A i \in 1 .. Len(Tail(s)) : Tail(s)[i] = s[i + 1]
  BY <1>4, <1>5, HeadTailProperties
<1>7. Tail(s) = t
  <2>1. Len(Tail(s)) = Len(t) /\ \A i \in 1 .. Len(t) : Tail(s)[i] = t[i]
    BY <1>2, <1>4, <1>6
  <2>2. QED
    BY <1>6, <2>1, SeqEqual
<1>8. QED
  BY <1>1, <1>4, <1>5, <1>7 DEF s

\* A sequence that is not empty is its first element in front of its tail.
LEMMA HeadTail ==
  ASSUME NEW S, NEW s \in Seq(S), s # << >>
  PROVE  /\ s[1] \in S
         /\ Tail(s) \in Seq(S)
         /\ s = <<s[1]>> \o Tail(s)
<1>1. Len(s) \in Nat /\ Len(s) > 0
  BY EmptySeq, LenProperties
<1>2. s[1] \in S
  BY <1>1, ElementOfSeq
<1>3. /\ Tail(s) \in Seq(S)
      /\ Len(Tail(s)) = Len(s) - 1
      /\ \A i \in 1 .. Len(Tail(s)) : Tail(s)[i] = s[i + 1]
  BY HeadTailProperties
<1> DEFINE t == Tail(s)
           u == <<s[1]>> \o t
<1>4. u \in Seq(S) /\ u[1] = s[1] /\ Len(u) = Len(t) + 1 /\ \A i \in 1 .. Len(t) : u[i + 1] = t[i]
  BY <1>2, <1>3, ConsFacts
<1> HIDE DEF u
<1>5. Len(u) = Len(s)
  BY <1>1, <1>3, <1>4
<1>6. ASSUME NEW i \in 1 .. Len(s)
      PROVE  u[i] = s[i]
  <2>1. CASE i = 1
    BY <1>4, <2>1
  <2>2. CASE i # 1
    <3>1. i - 1 \in 1 .. Len(t) /\ i - 1 + 1 = i
      BY <1>1, <1>3, <2>2
    <3>2. QED
      BY <1>3, <1>4, <3>1
  <2>3. QED
    BY <2>1, <2>2
<1>7. u = s
  BY <1>4, <1>5, <1>6, SeqEqual
<1>8. QED
  BY <1>2, <1>3, <1>7 DEF u

\* What comes after a sequence leaves its first element.
LEMMA HeadKept ==
  ASSUME NEW S, NEW s \in Seq(S), s # << >>, NEW t \in Seq(S)
  PROVE  s \o t \in Seq(S) /\ s \o t # << >> /\ (s \o t)[1] = s[1]
<1>1. Len(s) \in Nat /\ Len(t) \in Nat /\ Len(s) # 0
  BY LenProperties, EmptySeq
<1>2. /\ s \o t \in Seq(S) /\ Len(s \o t) = Len(s) + Len(t)
      /\ \A i \in 1 .. (Len(s) + Len(t)) : (s \o t)[i] = IF i <= Len(s) THEN s[i] ELSE t[i - Len(s)]
  BY ConcatProperties
<1> DEFINE u == s \o t
<1> HIDE DEF u
<1>3. u \in Seq(S) /\ Len(u) # 0 /\ u[1] = s[1]
  BY <1>1, <1>2 DEF u
<1>4. u # << >>
  BY <1>3, EmptySeq
<1>5. QED
  BY <1>3, <1>4 DEF u

\* Copies of a sequence hold its elements.
LEMMA TimesFacts ==
  ASSUME NEW S, NEW s \in Seq(S), s # << >>, NEW n \in Nat
  PROVE  /\ Times(s, n) \in Seq(S)
         /\ Len(Times(s, n)) = n * Len(s)
         /\ \A i \in 1 .. (n * Len(s)) : Times(s, n)[i] = s[((i - 1) % Len(s)) + 1]
<1>1. Len(s) \in Nat /\ Len(s) > 0
  BY EmptySeq, LenProperties
<1> DEFINE l == Len(s)
           w == n * l
<1>2. w \in Nat
  BY <1>1
<1>3. ASSUME NEW i \in 1 .. w
      PROVE  s[((i - 1) % l) + 1] \in S
  <2>1. i - 1 \in Int
    OBVIOUS
  <2> HIDE DEF l
  <2>2. (i - 1) % l \in 0 .. (l - 1)
    BY <1>1, <2>1 DEF l
  <2>3. ((i - 1) % l) + 1 \in 1 .. l
    BY <1>1, <2>2 DEF l
  <2>4. QED
    BY <2>3, ElementOfSeq DEF l
<1> HIDE DEF l, w
<1>4. [i \in 1 .. w |-> s[((i - 1) % l) + 1]] \in [1 .. w -> S]
  BY <1>3
<1>5. [i \in 1 .. w |-> s[((i - 1) % l) + 1]] \in Seq(S)
  BY <1>2, <1>4, SeqDef
<1>6. Times(s, n) = [i \in 1 .. w |-> s[((i - 1) % l) + 1]]
  BY DEF Times, w, l
<1>7. Len(Times(s, n)) = w
  BY <1>2, <1>5, <1>6, LenProperties
<1>8. QED
  BY <1>5, <1>6, <1>7 DEF w, l

\* Short sequences.
LEMMA Tuples ==
  ASSUME NEW S
  PROVE  /\ \A a \in S : <<a>> \in Seq(S)
         /\ \A a, b \in S : <<a, b>> \in Seq(S) /\ <<a, b>> # << >>
         /\ \A a, b, c \in S : <<a, b, c>> \in Seq(S)
OBVIOUS

\* What a rank may have to do.
LEMMA OpsFacts ==
  ASSUME NEW r \in Ranks, NEW K
  PROVE  /\ \A c \in Own(r) : SetComm(c, TRUE) \in Ops(r, K) /\ LogOn(c) \in Ops(r, K)
         /\ \A c \in Own(r) : c \in K \/ c = {r} => SetComm(c, FALSE) \in Ops(r, K)
         /\ \A node \in Nodes \ {"comminfo"} : Write(node) \in Ops(r, K)
         /\ {Read, Sync, NameLog, Printed} \subseteq Ops(r, K)
BY DEF Ops

\* What a rank has to do is made of operations.
LEMMA OpsAreOps ==
  ASSUME NEW r \in Ranks, NEW K \in SUBSET AllComms, NEW t \in Seq(Ops(r, K))
  PROVE  t \in Seq(AnyOp)
<1>1. Ops(r, K) \subseteq Ops(r, AllComms)
  BY DEF Ops
<1>2. Ops(r, AllComms) \subseteq AnyOp
  BY DEF AnyOp
<1>3. QED
  BY <1>1, <1>2, SeqMonotonic

\* The kinds of operation there are, and what each of them carries.
LEMMA OpsCases ==
  ASSUME NEW r \in Ranks, NEW K, NEW o \in Ops(r, K)
  PROVE  /\ o.op \in {"setComm", "write", "log", "read", "sync", "name", "print"}
         /\ o.op = "setComm" => /\ o.comm \in Own(r) /\ o.sync \in BOOLEAN
                                /\ o = SetComm(o.comm, o.sync)
                                /\ o.sync \/ o.comm \in K \/ o.comm = {r}
         /\ o.op = "write" => o.node \in Nodes \ {"comminfo"}
         /\ o.op = "log" => o.comm \in Own(r)
         /\ o.op = "sync" => o = Sync
         /\ o.op = "read" => o = Read
         /\ o.op # "gather"
<1>1. CASE o \in {SetComm(c, TRUE) : c \in Own(r)}
  <2>1. PICK c \in Own(r) : o = SetComm(c, TRUE)
    BY <1>1
  <2>2. o.op = "setComm" /\ o.comm = c /\ o.sync = TRUE
    BY <2>1 DEF SetComm
  <2>3. QED
    BY <2>1, <2>2
<1>2. CASE o \in {SetComm(c, FALSE) : c \in Own(r) \cap (K \cup {{r}})}
  <2>1. PICK c \in Own(r) \cap (K \cup {{r}}) : o = SetComm(c, FALSE)
    BY <1>2
  <2>2. o.op = "setComm" /\ o.comm = c /\ o.sync = FALSE
    BY <2>1 DEF SetComm
  <2>3. QED
    BY <2>1, <2>2
<1>3. CASE o \in {Write(node) : node \in Nodes \ {"comminfo"}}
  BY <1>3 DEF Write
<1>4. CASE o \in {LogOn(c) : c \in Own(r)}
  BY <1>4 DEF LogOn
<1>5. CASE o \in {Read, Sync, NameLog, Printed}
  BY <1>5 DEF Read, Sync, NameLog, Printed
<1>6. QED
  BY <1>1, <1>2, <1>3, <1>4, <1>5 DEF Ops

\* The action's hooks, and a point with its tests.
LEMMA GroupTypes ==
  ASSUME NEW r \in Ranks, NEW K, NEW c \in Own(r), NEW tests \in Seq(Ops(r, K))
  PROVE  /\ ActionGroup(c) \in Seq(Ops(r, K))
         /\ Test(tests) \in Seq(Ops(r, K))
         /\ PointGroup(c, tests) \in Seq(Ops(r, K))
<1> DEFINE S == Ops(r, K)
<1>1. /\ SetComm(c, TRUE) \in S /\ Sync \in S
      /\ \A node \in Nodes \ {"comminfo"} : Write(node) \in S
  BY OpsFacts
<1>2. /\ Write("actionStarted") \in S /\ Write("actionFinished") \in S
      /\ Write("started") \in S /\ Write("ended") \in S
      /\ Write("testStarted") \in S /\ Write("testFinished") \in S
  BY <1>1 DEF Nodes
<1> HIDE DEF S
<1>3. << >> \in Seq(S)
  BY EmptySeq
<1>4. ActionGroup(c) \in Seq(S)
  BY <1>1, <1>2, <1>3, Tuples DEF ActionGroup
<1>5. /\ <<Write("testStarted")>> \in Seq(S) /\ <<Write("testFinished")>> \in Seq(S)
      /\ <<SetComm(c, TRUE), Write("started")>> \in Seq(S)
      /\ <<Sync, Write("ended")>> \in Seq(S)
  BY <1>1, <1>2, Tuples
<1>6. tests \in Seq(S)
  BY DEF S
<1>7. Test(tests) \in Seq(S)
  BY <1>5, <1>6, ConcatProperties DEF Test
<1>8. PointGroup(c, tests) \in Seq(S)
  BY <1>5, <1>6, ConcatProperties DEF PointGroup
<1>9. QED
  BY <1>4, <1>7, <1>8 DEF S

\* The operations of a call of rank r are operations of rank r, and a read is first.
LEMMA OperationsType ==
  ASSUME NEW r \in Ranks, NEW K, NEW call \in LoopCall, r \in call.comm
  PROVE  /\ Operations(call, r) \in Seq(Ops(r, K))
         /\ Operations(call, r) # << >> /\ Operations(call, r)[1] = Read
<1> DEFINE S == Ops(r, K)
           group == PointGroup(call.comm, Test(<< >>))
           point == PointGroup(call.comm, Test(Body(call, r)) \o Test(<< >>))
           c == call.comm
<1>1. c \in Own(r) /\ call.logs \in Nat /\ call.parents \in Nat /\ call.logComm \in AllComms
  BY DEF Own, LoopCall
<1>2. << >> \in Seq(S) /\ Read \in S /\ <<Read>> \in Seq(S)
  BY OpsFacts, EmptySeq, Tuples
<1>3. Body(call, r) \in Seq(S)
  <2>1. CASE r \in call.logComm
    <3>1. Read \in S /\ LogOn(call.logComm) \in S
      BY <1>1, <2>1, OpsFacts DEF Own
    <3> DEFINE pair == <<Read, LogOn(call.logComm)>>
    <3>2. pair \in Seq(S) /\ pair # << >>
      BY <3>1, Tuples
    <3>3. Times(pair, call.logs) \in Seq(S)
      <4> HIDE DEF pair
      <4>1. QED
        BY <1>1, <3>2, TimesFacts
    <3>4. QED
      BY <2>1, <3>3 DEF Body
  <2>2. CASE r \notin call.logComm
    BY <1>2, <2>2 DEF Body
  <2>3. QED
    BY <2>1, <2>2
<1>4. Test(<< >>) \in Seq(S) /\ Test(Body(call, r)) \in Seq(S)
  BY <1>1, <1>2, <1>3, GroupTypes
<1>5. Test(Body(call, r)) \o Test(<< >>) \in Seq(S)
  BY <1>4, ConcatProperties
<1>6. ActionGroup(c) \in Seq(S) /\ point \in Seq(S) /\ group \in Seq(S)
  BY <1>1, <1>4, <1>5, GroupTypes
<1>7. group # << >>
  BY DEF PointGroup, Test
<1>8. Times(group, call.parents) \in Seq(S)
  BY <1>1, <1>6, <1>7, TimesFacts
<1> HIDE DEF S, group, point
<1> DEFINE u == <<Read>> \o ActionGroup(c)
           v == u \o point
           w == v \o Times(group, call.parents)
<1>9. u \in Seq(S) /\ u # << >> /\ u[1] = Read
  BY <1>2, <1>6, ConsFacts
<1> HIDE DEF u
<1>10. v \in Seq(S) /\ v # << >> /\ v[1] = Read
  BY <1>6, <1>9, HeadKept
<1> HIDE DEF v
<1>11. w \in Seq(S) /\ w # << >> /\ w[1] = Read
  BY <1>8, <1>10, HeadKept
<1>12. QED
  BY <1>11 DEF Operations, S, group, point, u, v, w

\* So are those of the start and of the end.
LEMMA EdgesType ==
  ASSUME NEW r \in Ranks, NEW K, World \in K
  PROVE  /\ Startup \in Seq(Ops(r, K)) /\ Shutdown \in Seq(Ops(r, K))
         /\ Shutdown # << >> /\ Shutdown[1] = Read
<1> DEFINE S == Ops(r, K)
<1>1. World \in Own(r) /\ << >> \in Seq(S)
  BY CommFacts, EmptySeq
<1>2. ActionGroup(World) \in Seq(S)
  BY <1>1, GroupTypes
<1>3. Read \in S /\ SetComm(World, FALSE) \in S /\ Write("final") \in S
  BY <1>1, OpsFacts DEF Nodes
<1> HIDE DEF S
<1>4. <<Read>> \in Seq(S) /\ <<Read, SetComm(World, FALSE), Write("final")>> \in Seq(S)
  BY <1>3, Tuples
<1>5. ActionGroup(World) \o <<Read>> \in Seq(S)
  BY <1>2, <1>4, ConcatProperties
<1>6. Startup \in Seq(S)
  BY <1>2, <1>5, ConcatProperties DEF Startup
<1> DEFINE u == <<Read>> \o ActionGroup(World)
           v == u \o ActionGroup(World)
           w == v \o <<Read, SetComm(World, FALSE), Write("final")>>
<1>7. u \in Seq(S) /\ u # << >> /\ u[1] = Read
  BY <1>2, <1>3, ConsFacts
<1> HIDE DEF u
<1>8. v \in Seq(S) /\ v # << >> /\ v[1] = Read
  BY <1>2, <1>7, HeadKept
<1> HIDE DEF v
<1>9. w \in Seq(S) /\ w # << >> /\ w[1] = Read
  BY <1>4, <1>8, HeadKept
<1>10. QED
  BY <1>6, <1>9 DEF S, Shutdown, u, v, w

-----------------------------------------------------------------------------
(* The types.                                                              *)

\* A call has a kind and a communicator, and logs on a part of it.
LEMMA CallFacts ==
  ASSUME NEW k \in ACall
  PROVE  /\ k.kind \in Kinds /\ k.comm \in AllComms
         /\ k.kind # "finalize" => k \in LoopCall /\ k.logComm \subseteq k.comm
         /\ k.kind = "finalize" => k.comm = World /\ k.logComm = {}
BY CommFacts DEF ACall, LoopCall, LastCall, Kinds

\* The types hold at the start.
LEMMA InitTyped == Init => Typed
<1> SUFFICES ASSUME Init
             PROVE  Typed
  OBVIOUS
<1> USE DEF Init
<1>1. /\ World \in AllComms
      /\ \A r \in Ranks : Root(World) \in Ranks /\ r \in World
  BY CommFacts, RootFacts
<1>2. calls \in Seq(ACall) /\ Len(calls) = 0
  BY EmptySeq
<1>3. \A r \in Ranks : Startup \in Seq(Ops(r, {World}))
  BY EdgesType
<1>4. \A r \in Ranks : TodoOK(r)
  BY <1>3 DEF TodoOK
<1>5. \A r \in Ranks : Startup \in Seq(AnyOp)
  BY <1>1, <1>3, OpsAreOps
<1>6. todo \in [Ranks -> Seq(AnyOp)]
  BY <1>5
<1>7. \A r \in Ranks : InCall(r) /\ World \in known[r]
  BY DEF InCall
<1>8. KnownOK
  BY CommFacts DEF KnownOK
<1>9. TypeOK
  <2> DEFINE a == [jid |-> -1, node |-> "comminfo", call |-> 0]
             b == [jid |-> 0, node |-> "info", call |-> 0]
  <2>1. a \in Node /\ b \in Node /\ a.node = "comminfo" /\ b.node = "info"
    BY DEF Node, Nodes
  <2> HIDE DEF a, b
  <2>2. <<a, b>> \in Seq(Node) /\ Len(<<a, b>>) = 2 /\ <<a, b>>[1] = a /\ <<a, b>>[2] = b
    BY <2>1, Tuples
  <2>3. << >> \in Seq(Node) /\ Len(<< >>) = 0
    BY EmptySeq
  <2>4. stream = [c \in AllComms |-> IF c = World THEN <<a, b>> ELSE << >>]
    BY DEF a, b
  <2>5. stream \in [AllComms -> Seq(Node)]
    BY <2>2, <2>3, <2>4
  <2>6. \A c \in AllComms : \A i \in 1 .. Len(stream[c]) : stream[c][i].node = "comminfo" <=> i = 1
    <3>1. SUFFICES ASSUME NEW c \in AllComms, NEW i \in 1 .. Len(stream[c])
                   PROVE  stream[c][i].node = "comminfo" <=> i = 1
      OBVIOUS
    <3>2. stream[c] = <<a, b>> /\ i \in 1 .. 2
      BY <2>2, <2>3, <2>4
    <3>3. QED
      BY <2>1, <2>2, <3>2
  <2>7. open \in [Ranks -> Seq(AllComms)]
    BY EmptySeq
  <2>8. taken \in [Ranks -> 0 .. Len(calls)]
    BY <1>2
  <2>9. id \in [Ranks -> Nat]
    OBVIOUS
  <2>10. comm \in [Ranks -> AllComms] /\ \A r \in Ranks : r \in comm[r]
    BY <1>1
  <2>11. known \in [Ranks -> SUBSET AllComms] /\ output \in [Ranks -> BOOLEAN]
    BY <1>1
  <2>12. QED
    BY <1>2, <2>5, <2>6, <2>7, <2>8, <2>9, <2>10, <2>11 DEF TypeOK
<1>10. QED
  BY <1>2, <1>4, <1>6, <1>7, <1>8, <1>9 DEF Typed

\* A new call of the application disturbs nothing.
LEMMA CallTyped ==
  ASSUME Typed, NEW kind, NEW c, NEW d, NEW logs, NEW others,
         Call(kind, c, d, logs, others),
         [kind |-> kind, comm |-> c, logComm |-> d, logs |-> logs,
            parents |-> Parents(c, others)] \in ACall,
         open' \in [Ranks -> Seq(AllComms)]
  PROVE  Typed'
<1> DEFINE k == [kind |-> kind, comm |-> c, logComm |-> d, logs |-> logs,
                   parents |-> Parents(c, others)]
<1>1. calls' = Append(calls, k) /\ k \in ACall
  BY DEF Call
<1>2. UNCHANGED <<taken, todo, output, comm, id, known, stream>>
  BY DEF Call, engine
<1> HIDE DEF k
<1>3. calls \in Seq(ACall) /\ TypeOK
  BY DEF Typed
<1>4. /\ calls' \in Seq(ACall) /\ Len(calls') = Len(calls) + 1 /\ Len(calls) \in Nat
      /\ \A n \in 1 .. Len(calls) : calls'[n] = calls[n]
  BY <1>1, <1>3, AppendProperties, LenProperties
<1>5. \A n \in 1 .. Len(calls') : calls'[n].kind \in Kinds /\ calls'[n].comm \in AllComms
  BY <1>4, ElementOfSeq, CallFacts
<1>6. taken' \in [Ranks -> 0 .. Len(calls')]
  <2>1. taken \in [Ranks -> 0 .. Len(calls)]
    BY <1>3 DEF TypeOK
  <2>2. 0 .. Len(calls) \subseteq 0 .. Len(calls')
    BY <1>4
  <2>3. QED
    BY <1>2, <2>1, <2>2
<1>7. TypeOK'
  BY <1>2, <1>3, <1>5, <1>6 DEF TypeOK
<1>8. ASSUME NEW r \in Ranks
      PROVE  InCall(r)'
  <2>1. SUFFICES ASSUME taken[r] # 0
                 PROVE  r \in calls'[taken[r]].comm
    BY <1>2 DEF InCall
  <2>2. taken[r] \in 1 .. Len(calls)
    BY <1>3, <1>4, <2>1 DEF TypeOK
  <2>3. InCall(r)
    BY DEF Typed
  <2>4. QED
    BY <1>4, <2>1, <2>2, <2>3 DEF InCall
<1>9. QED
  BY <1>2, <1>4, <1>7, <1>8 DEF Typed, TodoOK, KnownOK

\* A call of the manual's application.
LEMMA ApplicationTyped ==
  ASSUME Typed, Application
  PROVE  Typed'
<1>0. ASSUME NEW c, NEW others, Len(others) \in Nat
      PROVE  Parents(c, others) \in Nat
  <2>1. IsFiniteSet(1 .. Len(others))
    BY <1>0, FS_Interval
  <2>2. {i \in 1 .. Len(others) : others[i] = c} \in SUBSET (1 .. Len(others))
    OBVIOUS
  <2>3. QED
    BY <2>1, <2>2, FS_Subset, FS_CardinalityType DEF Parents
<1>1. TypeOK /\ open \in [Ranks -> Seq(AllComms)]
  BY DEF Typed, TypeOK
<1>2. ASSUME NEW s \in Seq(AllComms), s # << >>
      PROVE  Pop(s) \in Seq(AllComms) /\ Len(Pop(s)) \in Nat
  <2>1. Len(s) \in Nat /\ Len(s) > 0
    BY <1>2, EmptySeq, LenProperties
  <2>2. \A i \in 1 .. (Len(s) - 1) : s[i] \in AllComms
    BY <2>1, ElementOfSeq
  <2>3. SubSeq(s, 1, Len(s) - 1) \in Seq(AllComms)
    BY <2>1, <2>2, SubSeqProperties
  <2>4. QED
    BY <2>3, LenProperties DEF Pop
<1>3. CASE CallFinalize
  <2>1. Parents(World, << >>) \in Nat
    BY <1>0, EmptySeq
  <2>2. [kind |-> "finalize", comm |-> World, logComm |-> {}, logs |-> 0,
           parents |-> Parents(World, << >>)] \in ACall
    BY <2>1 DEF ACall, LastCall
  <2>3. Call("finalize", World, {}, 0, << >>) /\ open' = open
    BY <1>3 DEF CallFinalize
  <2>4. QED
    BY <1>1, <2>2, <2>3, CallTyped
<1>4. ASSUME NEW c \in Comms, NEW d \in Comms, NEW logs \in 0 .. MaxLogs, d \subseteq c,
             CallBegin(c, d, logs) \/ CallIter(c, d, logs) \/ CallEnd(c, d, logs)
      PROVE  Typed'
  <2>1. c \in AllComms /\ d \in AllComms /\ logs \in Nat
    BY BoundsAssumption DEF AllComms
  <2>2. Root(c) \in c /\ Root(c) \in Ranks /\ c \subseteq Ranks
    BY <2>1, RootFacts, CommFacts
  <2>3. open[Root(c)] \in Seq(AllComms) /\ Len(open[Root(c)]) \in Nat
    BY <1>1, <2>2, LenProperties
  <2>4. ASSUME NEW kind \in {"begin", "iter", "end"}, NEW others, Len(others) \in Nat
        PROVE  [kind |-> kind, comm |-> c, logComm |-> d, logs |-> logs,
                  parents |-> Parents(c, others)] \in ACall
    <3>1. Parents(c, others) \in Nat
      BY <1>0, <2>4
    <3>2. QED
      BY <1>4, <2>1, <3>1 DEF ACall, LoopCall
  <2>5. CASE CallBegin(c, d, logs)
    <3>1. Call("begin", c, d, logs, open[Root(c)])
      BY <2>5 DEF CallBegin
    <3>2. open' = [r \in Ranks |-> IF r \in c THEN Append(open[r], c) ELSE open[r]]
      BY <2>5 DEF CallBegin
    <3>3. \A r \in Ranks : Append(open[r], c) \in Seq(AllComms)
      BY <1>1, <2>1, AppendProperties
    <3>4. open' \in [Ranks -> Seq(AllComms)]
      BY <1>1, <3>2, <3>3
    <3>5. QED
      BY <2>3, <2>4, <3>1, <3>4, CallTyped
  <2>6. ASSUME Innermost(c)
        PROVE  \A r \in c : open[r] \in Seq(AllComms) /\ open[r] # << >>
    BY <1>1, <2>2, <2>6 DEF Innermost
  <2>7. CASE CallIter(c, d, logs)
    <3>1. Call("iter", c, d, logs, Pop(open[Root(c)])) /\ open' = open /\ Innermost(c)
      BY <2>7 DEF CallIter
    <3>2. Len(Pop(open[Root(c)])) \in Nat
      BY <1>2, <2>2, <2>6, <3>1
    <3>3. QED
      BY <1>1, <2>4, <3>1, <3>2, CallTyped
  <2>8. CASE CallEnd(c, d, logs)
    <3>1. Call("end", c, d, logs, Pop(open[Root(c)])) /\ Innermost(c)
      BY <2>8 DEF CallEnd
    <3>2. open' = [r \in Ranks |-> IF r \in c THEN Pop(open[r]) ELSE open[r]]
      BY <2>8 DEF CallEnd
    <3>3. Len(Pop(open[Root(c)])) \in Nat
      BY <1>2, <2>2, <2>6, <3>1
    <3>4. \A r \in c : Pop(open[r]) \in Seq(AllComms)
      BY <1>2, <2>6, <3>1
    <3>5. open' \in [Ranks -> Seq(AllComms)]
      BY <1>1, <3>2, <3>4
    <3>6. QED
      BY <2>4, <3>1, <3>3, <3>5, CallTyped
  <2>9. QED
    BY <1>4, <2>5, <2>7, <2>8
<1>5. QED
  BY <1>3, <1>4 DEF Application

\* A rank that is not gathering knows its communicator.
LEMMA NotGathering ==
  ASSUME Typed, NEW r \in Ranks, ~Doing(r, "gather")
  PROVE  /\ comm[r] \in known[r] /\ comm[r] \in AllComms /\ r \in comm[r]
         /\ known[r] \in SUBSET AllComms
         /\ todo[r] \in Seq(Ops(r, known[r]))
<1>1. ASSUME NEW t \in Seq(Ops(r, known[r])), todo[r] = <<Gather>> \o t
      PROVE  Doing(r, "gather")
  <2> DEFINE S == Ops(r, known[r]) \cup {Gather}
  <2>1. t \in Seq(S) /\ Gather \in S
    BY SeqMonotonic
  <2> HIDE DEF S
  <2>2. todo[r] # << >> /\ todo[r][1] = Gather
    BY <1>1, <2>1, ConsFacts
  <2>3. QED
    BY <2>2 DEF Doing, Gather
<1>2. TodoOK(r) /\ TypeOK
  BY DEF Typed
<1>3. QED
  BY <1>1, <1>2 DEF TodoOK, TypeOK

\* What a rank that is doing an operation has in front of it.
LEMMA DoingFacts ==
  ASSUME Typed, NEW r \in Ranks, NEW op, Doing(r, op), op # "gather"
  PROVE  /\ comm[r] \in known[r] /\ comm[r] \in AllComms /\ r \in comm[r]
         /\ known[r] \in SUBSET AllComms
         /\ todo[r] \in Seq(Ops(r, known[r])) /\ todo[r] # << >>
         /\ Head1(r) \in Ops(r, known[r]) /\ Head1(r).op = op
         /\ Tail(todo[r]) \in Seq(Ops(r, known[r]))
         /\ todo[r] = <<Head1(r)>> \o Tail(todo[r])
<1>1. ~Doing(r, "gather") /\ todo[r] # << >> /\ Head1(r).op = op
  BY DEF Doing, Head1
<1>2. QED
  BY <1>1, NotGathering, HeadTail DEF Head1

\* A rank goes on with operations of its own.
LEMMA InsteadTyped ==
  ASSUME Typed, NEW r \in Ranks, NEW op, Doing(r, op), op # "gather",
         NEW p \in Seq(Ops(r, known[r])), Instead(r, p)
  PROVE  /\ todo' \in [Ranks -> Seq(AnyOp)]
         /\ todo'[r] = p \o Tail(todo[r])
         /\ todo'[r] \in Seq(Ops(r, known[r]))
         /\ \A s \in Ranks \ {r} : todo'[s] = todo[s]
<1>1. Tail(todo[r]) \in Seq(Ops(r, known[r])) /\ known[r] \in SUBSET AllComms
  BY DoingFacts
<1>2. p \o Tail(todo[r]) \in Seq(Ops(r, known[r]))
  BY <1>1, ConcatProperties
<1>3. p \o Tail(todo[r]) \in Seq(AnyOp)
  BY <1>1, <1>2, OpsAreOps
<1>4. todo \in [Ranks -> Seq(AnyOp)]
  BY DEF Typed
<1>5. todo' = [todo EXCEPT ![r] = p \o Tail(todo[r])]
  BY DEF Instead
<1>6. QED
  BY <1>2, <1>3, <1>4, <1>5

\* Rank r has changed what it has to do, and keeps its communicators.
LEMMA KeptTodo ==
  ASSUME Typed, NEW r \in Ranks,
         UNCHANGED <<comm, known>>, comm[r] \in known[r],
         todo'[r] \in Seq(Ops(r, known[r])),
         \A s \in Ranks \ {r} : todo'[s] = todo[s]
  PROVE  \A s \in Ranks : TodoOK(s)' /\ (World \in known[s])'
<1>1. TodoOK(r)'
  BY DEF TodoOK
<1>2. ASSUME NEW s \in Ranks \ {r}
      PROVE  TodoOK(s)'
  <2>1. TodoOK(s)
    BY DEF Typed
  <2>2. QED
    BY <2>1 DEF TodoOK
<1>3. QED
  BY <1>1, <1>2 DEF Typed

\* Rank r enters a call.
LEMMA EnterTyped ==
  ASSUME Typed, NEW r \in Ranks, Enter(r)
  PROVE  Typed'
<1>1. PICK n \in (taken[r] + 1) .. Len(calls) :
        /\ r \in calls[n].comm
        /\ taken' = [taken EXCEPT ![r] = n]
        /\ todo' = [todo EXCEPT ![r] = IF calls[n].kind = "finalize" THEN Shutdown
                                       ELSE Operations(calls[n], r)]
  BY DEF Enter
<1>2. UNCHANGED <<calls, open, comm, id, known, stream>> /\ todo[r] = << >>
  BY DEF Enter, app, engine
<1>3. TypeOK /\ calls \in Seq(ACall) /\ Len(calls) \in Nat
  BY LenProperties DEF Typed
<1>4. n \in 1 .. Len(calls) /\ calls[n] \in ACall
  <2>1. taken[r] \in Nat
    BY <1>3 DEF TypeOK
  <2>2. n \in 1 .. Len(calls)
    BY <1>3, <2>1
  <2>3. QED
    BY <1>3, <2>2, ElementOfSeq
<1>5. /\ comm[r] \in known[r] /\ World \in known[r]
      /\ known[r] \in SUBSET AllComms
  BY <1>2, NotGathering DEF Doing, Typed
<1> DEFINE t == IF calls[n].kind = "finalize" THEN Shutdown ELSE Operations(calls[n], r)
<1>6. t \in Seq(Ops(r, known[r]))
  BY <1>1, <1>4, <1>5, CallFacts, EdgesType, OperationsType
<1>7. t \in Seq(AnyOp)
  BY <1>5, <1>6, OpsAreOps
<1> HIDE DEF t
<1>8. todo' = [todo EXCEPT ![r] = t] /\ todo \in [Ranks -> Seq(AnyOp)]
  BY <1>1 DEF t, Typed
<1>9. /\ todo' \in [Ranks -> Seq(AnyOp)] /\ todo'[r] = t
      /\ \A s \in Ranks \ {r} : todo'[s] = todo[s]
  BY <1>7, <1>8
<1>10. \A s \in Ranks : TodoOK(s)' /\ (World \in known[s])'
  BY <1>2, <1>5, <1>6, <1>9, KeptTodo
<1>11. output' \in [Ranks -> BOOLEAN]
  <2>1. output \in [Ranks -> BOOLEAN]
    BY <1>3 DEF TypeOK
  <2>2. PICK printed \in {FALSE, (r \in Printers)} :
          output' = [output EXCEPT ![r] = output[r] \/ printed]
    BY DEF Enter
  <2>3. (output[r] \/ printed) \in BOOLEAN
    OBVIOUS
  <2>4. QED
    BY <2>1, <2>2, <2>3
<1>12. taken' \in [Ranks -> 0 .. Len(calls)]
  BY <1>1, <1>3, <1>4 DEF TypeOK
<1>13. TypeOK'
  BY <1>2, <1>3, <1>11, <1>12 DEF TypeOK
<1>14. \A s \in Ranks : InCall(s)'
  <2>1. \A s \in Ranks : InCall(s)
    BY DEF Typed
  <2>2. taken \in [Ranks -> 0 .. Len(calls)]
    BY <1>3 DEF TypeOK
  <2>3. QED
    BY <1>1, <1>2, <2>1, <2>2 DEF InCall
<1>15. KnownOK'
  BY <1>2 DEF Typed, KnownOK
<1>16. QED
  BY <1>2, <1>3, <1>9, <1>10, <1>13, <1>14, <1>15 DEF Typed

\* A step that changes neither the communicators nor the streams.
LEMMA QuietTyped ==
  ASSUME Typed, NEW r \in Ranks, NEW op, Doing(r, op), op # "gather",
         NEW p \in Seq(Ops(r, known[r])), Instead(r, p),
         UNCHANGED <<calls, open, taken, comm, known, stream>>,
         id' \in [Ranks -> Nat], output' \in [Ranks -> BOOLEAN]
  PROVE  Typed'
<1>1. /\ todo' \in [Ranks -> Seq(AnyOp)]
      /\ todo'[r] \in Seq(Ops(r, known[r]))
      /\ \A s \in Ranks \ {r} : todo'[s] = todo[s]
  BY InsteadTyped
<1>2. comm[r] \in known[r]
  BY DoingFacts
<1>3. \A s \in Ranks : TodoOK(s)' /\ (World \in known[s])'
  BY <1>1, <1>2, KeptTodo
<1>4. TypeOK'
  BY DEF Typed, TypeOK
<1>5. KnownOK' /\ \A s \in Ranks : InCall(s)'
  BY DEF Typed, KnownOK, InCall
<1>6. QED
  BY <1>1, <1>3, <1>4, <1>5 DEF Typed

\* Logging a message takes operations of the rank that logs.
LEMMA LogOperationsType ==
  ASSUME NEW r \in Ranks, NEW K, NEW c \in Own(r), comm[r] \in Own(r), comm[r] \in K
  PROVE  LogOperations(r, c) \in Seq(Ops(r, K))
<1> DEFINE S == Ops(r, K)
           a == SetComm(c, TRUE)
           b == SetComm(comm[r], FALSE)
           w == Write("log")
<1>1. a \in S /\ b \in S /\ w \in S /\ NameLog \in S /\ Printed \in S
  BY OpsFacts DEF Nodes
<1>2. LogOperations(r, c) = <<a, NameLog, w, b, Printed>>
  BY DEF LogOperations
<1> HIDE DEF S, a, b, w
<1>3. <<a, NameLog, w, b, Printed>> \in Seq(S)
  BY <1>1
<1>4. QED
  BY <1>2, <1>3 DEF S

\* The steps that write nothing and stay on the communicator.
LEMMA QuietStepsTyped ==
  ASSUME Typed, NEW r \in Ranks, DoLog(r) \/ DoName(r) \/ DoPrint(r) \/ DoRead(r)
  PROVE  Typed'
<1>1. TypeOK /\ id \in [Ranks -> Nat] /\ output \in [Ranks -> BOOLEAN]
  BY DEF Typed, TypeOK
<1>2. << >> \in Seq(Ops(r, known[r]))
  BY EmptySeq
<1>3. CASE DoLog(r)
  <2>1. Doing(r, "log") /\ Instead(r, LogOperations(r, Head1(r).comm))
    BY <1>3 DEF DoLog
  <2>2. Head1(r).comm \in Own(r) /\ comm[r] \in Own(r) /\ comm[r] \in known[r]
    BY <2>1, DoingFacts, OpsCases, ZenonT(40) DEF Own
  <2>3. LogOperations(r, Head1(r).comm) \in Seq(Ops(r, known[r]))
    BY <2>2, LogOperationsType
  <2>4. UNCHANGED <<calls, open, taken, comm, id, known, stream, output>>
    BY <1>3 DEF DoLog, app, engine
  <2>5. QED
    BY <1>1, <2>1, <2>3, <2>4, QuietTyped
<1>4. CASE DoName(r)
  <2>1. Doing(r, "name") /\ Instead(r, << >>)
    BY <1>4 DEF DoName
  <2>2. id' \in [Ranks -> Nat]
    BY <1>1, <1>4 DEF DoName
  <2>3. UNCHANGED <<calls, open, taken, comm, known, stream, output>>
    BY <1>4 DEF DoName, app
  <2>4. QED
    BY <1>1, <1>2, <2>1, <2>2, <2>3, QuietTyped
<1>5. CASE DoPrint(r)
  <2>1. Doing(r, "print") /\ Instead(r, << >>)
    BY <1>5 DEF DoPrint
  <2>2. output' \in [Ranks -> BOOLEAN]
    BY <1>1, <1>5 DEF DoPrint
  <2>3. UNCHANGED <<calls, open, taken, comm, id, known, stream>>
    BY <1>5 DEF DoPrint, app, engine
  <2>4. QED
    BY <1>1, <1>2, <2>1, <2>2, <2>3, QuietTyped
<1>6. CASE DoRead(r)
  <2> DEFINE p == IF output[r] THEN <<SetComm({r}, FALSE), Write("stdout")>> ELSE << >>
  <2>1. Doing(r, "read") /\ Instead(r, p)
    BY <1>6 DEF DoRead
  <2>2. output' \in [Ranks -> BOOLEAN]
    BY <1>1, <1>6 DEF DoRead
  <2>3. UNCHANGED <<calls, open, taken, comm, id, known, stream>>
    BY <1>6 DEF DoRead, app, engine
  <2>4. SetComm({r}, FALSE) \in Ops(r, known[r]) /\ Write("stdout") \in Ops(r, known[r])
    BY CommFacts, OpsFacts DEF Nodes
  <2>5. p \in Seq(Ops(r, known[r]))
    BY <1>2, <2>4, Tuples
  <2> HIDE DEF p
  <2>6. QED
    BY <1>1, <2>1, <2>2, <2>3, <2>5, QuietTyped
<1>7. QED
  BY <1>3, <1>4, <1>5, <1>6

\* A rank changes to another communicator.
LEMMA SetCommTyped ==
  ASSUME Typed, NEW r \in Ranks, DoSetComm(r)
  PROVE  Typed'
<1> DEFINE s == Head1(r)
           K == known[r]
           gathering == IF Announces(r, s.comm) THEN <<Gather>> ELSE << >>
           syncing == IF s.sync THEN <<Sync>> ELSE << >>
           t == syncing \o Tail(todo[r])
<1>1. /\ Doing(r, "setComm") /\ comm' = [comm EXCEPT ![r] = s.comm]
      /\ todo' = [todo EXCEPT ![r] = (gathering \o syncing) \o Tail(todo[r])]
      /\ UNCHANGED <<calls, open, taken, id, known, stream, output>>
  BY DEF DoSetComm, Instead, app
<1>2. /\ s \in Ops(r, K) /\ s.op = "setComm" /\ Tail(todo[r]) \in Seq(Ops(r, K))
      /\ K \in SUBSET AllComms
  BY <1>1, DoingFacts
<1>3. s.comm \in AllComms /\ r \in s.comm /\ s.sync \in BOOLEAN
      /\ (s.sync \/ s.comm \in K \/ s.comm = {r})
  BY <1>2, OpsCases DEF Own
<1>4. << >> \in Seq(Ops(r, K)) /\ Sync \in Ops(r, K)
  BY EmptySeq, OpsFacts
<1>5. syncing \in Seq(Ops(r, K))
  BY <1>4, Tuples
<1>6. t \in Seq(Ops(r, K))
  BY <1>2, <1>5, ConcatProperties
<1>7. TypeOK
  BY DEF Typed
<1> HIDE DEF s, K
<1>8. s.sync => t # << >> /\ t[1] = Sync
  <2>1. ASSUME s.sync
        PROVE  t = <<Sync>> \o Tail(todo[r])
    BY <2>1
  <2>2. QED
    BY <1>2, <1>4, <2>1, ConsFacts
<1>9. CASE s.comm \in K
  <2>1. gathering = << >>
    BY <1>9 DEF Announces, K
  <2> HIDE DEF syncing
  <2>2. gathering \o syncing = syncing
    BY <1>5, <2>1, ConcatEmptySeq
  <2>3. todo' = [todo EXCEPT ![r] = t]
    BY <1>1, <2>2
  <2> HIDE DEF t
  <2>4. t \in Seq(AnyOp)
    BY <1>2, <1>6, OpsAreOps
  <2>5. /\ todo \in [Ranks -> Seq(AnyOp)] /\ comm \in [Ranks -> AllComms]
    BY <1>7 DEF TypeOK, Typed
  <2>6. /\ todo' \in [Ranks -> Seq(AnyOp)] /\ todo'[r] = t /\ comm'[r] = s.comm
        /\ \A u \in Ranks \ {r} : todo'[u] = todo[u] /\ comm'[u] = comm[u]
    BY <1>1, <2>3, <2>4, <2>5
  <2>7. TodoOK(r)'
    BY <1>1, <1>6, <1>9, <2>6 DEF TodoOK, K
  <2>8. ASSUME NEW u \in Ranks \ {r}
        PROVE  TodoOK(u)'
    <3>1. TodoOK(u)
      BY DEF Typed
    <3>2. QED
      BY <1>1, <2>6, <3>1 DEF TodoOK
  <2>9. comm' \in [Ranks -> AllComms] /\ \A u \in Ranks : u \in comm'[u]
    <3>1. \A u \in Ranks : u \in comm[u]
      BY <1>7 DEF TypeOK
    <3>2. QED
      BY <1>1, <1>3, <2>5, <2>6, <3>1
  <2>10. TypeOK'
    BY <1>1, <1>7, <2>9 DEF TypeOK
  <2>11. QED
    BY <1>1, <2>6, <2>7, <2>8, <2>10 DEF Typed, KnownOK, InCall
<1>10. CASE s.comm \notin K
  <2> DEFINE G == Ops(r, K) \cup {Gather}
  <2>1. gathering = <<Gather>>
    BY <1>10 DEF Announces, K
  <2>2. Tail(todo[r]) \in Seq(G) /\ syncing \in Seq(G) /\ t \in Seq(G) /\ Gather \in G
    BY <1>2, <1>5, <1>6, SeqMonotonic
  <2> HIDE DEF G, syncing
  <2>3. (gathering \o syncing) \o Tail(todo[r]) = <<Gather>> \o t
    <3>1. <<Gather>> \in Seq(G)
      BY <2>2, Tuples
    <3> DEFINE e == <<Gather>>
               v == Tail(todo[r])
    <3>2. e \in Seq(G) /\ v \in Seq(G)
      BY <2>2, <3>1
    <3> HIDE DEF e, v
    <3>3. (e \o syncing) \o v = e \o (syncing \o v)
      BY <2>2, <3>2, ConcatAssociative
    <3>4. QED
      BY <2>1, <3>3 DEF e, v
  <2> HIDE DEF t, gathering
  <2>4. Gather \in AnyOp
    BY DEF AnyOp
  <2>5. <<Gather>> \o t \in Seq(AnyOp)
    BY <1>2, <1>6, <2>4, OpsAreOps, ConsFacts
  <2>6. /\ todo \in [Ranks -> Seq(AnyOp)] /\ comm \in [Ranks -> AllComms]
    BY <1>7 DEF TypeOK, Typed
  <2>7. /\ todo' \in [Ranks -> Seq(AnyOp)] /\ todo'[r] = <<Gather>> \o t /\ comm'[r] = s.comm
        /\ \A u \in Ranks \ {r} : todo'[u] = todo[u] /\ comm'[u] = comm[u]
    BY <1>1, <2>3, <2>5, <2>6
  <2>8. TodoOK(r)'
    <3>1. s.comm # {r} => t # << >> /\ t[1] = Sync
      BY <1>3, <1>8, <1>10
    <3>2. t \in Seq(Ops(r, known'[r])) /\ comm'[r] \notin known'[r]
      BY <1>1, <1>6, <1>10, <2>7 DEF K
    <3>3. QED
      BY <2>7, <3>1, <3>2 DEF TodoOK
  <2>9. ASSUME NEW u \in Ranks \ {r}
        PROVE  TodoOK(u)'
    <3>1. TodoOK(u)
      BY DEF Typed
    <3>2. QED
      BY <1>1, <2>7, <3>1 DEF TodoOK
  <2>10. comm' \in [Ranks -> AllComms] /\ \A u \in Ranks : u \in comm'[u]
    <3>1. \A u \in Ranks : u \in comm[u]
      BY <1>7 DEF TypeOK
    <3>2. QED
      BY <1>1, <1>3, <2>6, <2>7, <3>1
  <2>11. TypeOK'
    BY <1>1, <1>7, <2>10 DEF TypeOK
  <2>12. QED
    BY <1>1, <2>7, <2>8, <2>9, <2>11 DEF Typed, KnownOK, InCall
<1>11. QED
  BY <1>9, <1>10

\* Rank r writes a node; the stream of its communicator has been announced.
LEMMA WriteTyped ==
  ASSUME Typed, NEW r \in Ranks, DoWrite(r)
  PROVE  Typed'
<1>1. Doing(r, "write") /\ Instead(r, << >>) /\ UNCHANGED <<calls, open, taken, comm, known, output>>
  BY DEF DoWrite, app
<1>2. /\ comm[r] \in known[r] /\ comm[r] \in AllComms /\ r \in comm[r]
      /\ Head1(r) \in Ops(r, known[r]) /\ Head1(r).op = "write"
  BY <1>1, DoingFacts
<1>3. Head1(r).node \in Nodes \ {"comminfo"}
  BY <1>2, OpsCases
<1>4. TypeOK /\ KnownOK /\ Len(calls) \in Nat
  BY LenProperties DEF Typed
<1>5. << >> \in Seq(Ops(r, known[r]))
  BY EmptySeq
<1>6. CASE r # Root(comm[r])
  <2>1. UNCHANGED <<id, stream>>
    BY <1>6 DEF DoWrite
  <2>2. QED
    BY <1>1, <1>4, <1>5, <2>1, QuietTyped DEF TypeOK
<1>7. CASE r = Root(comm[r])
  <2> DEFINE c == comm[r]
             x == [jid |-> id[r], node |-> Head1(r).node, call |-> taken[r]]
  <2>1. id' = [id EXCEPT ![r] = id[r] + 1] /\ stream' = [stream EXCEPT ![c] = Append(@, x)]
    BY <1>7 DEF DoWrite
  <2>2. x \in Node /\ x.node # "comminfo"
    <3>1. id[r] \in Nat /\ taken[r] \in Nat
      BY <1>4 DEF TypeOK
    <3>2. QED
      BY <1>3, <3>1 DEF Node
  <2> HIDE DEF x
  <2>3. stream \in [AllComms -> Seq(Node)] /\ stream[c] # << >>
    BY <1>2, <1>4 DEF TypeOK, KnownOK
  <2>4. stream[c] \in Seq(Node) /\ Len(stream[c]) \in Nat /\ Len(stream[c]) > 0
    BY <1>2, <2>3, EmptySeq
  <2>5. /\ Append(stream[c], x) \in Seq(Node)
        /\ Append(stream[c], x) # << >>
        /\ Len(Append(stream[c], x)) = Len(stream[c]) + 1
        /\ \A i \in 1 .. Len(stream[c]) : Append(stream[c], x)[i] = stream[c][i]
        /\ Append(stream[c], x)[Len(stream[c]) + 1] = x
    BY <2>2, <2>4, AppendProperties
  <2>6. /\ stream'[c] = Append(stream[c], x)
        /\ \A d \in AllComms \ {c} : stream'[d] = stream[d]
    BY <1>2, <2>1, <2>3
  <2>7. stream' \in [AllComms -> Seq(Node)]
    BY <1>2, <2>1, <2>3, <2>5
  <2>8. \A d \in AllComms : \A i \in 1 .. Len(stream'[d]) : stream'[d][i].node = "comminfo" <=> i = 1
    <3>1. SUFFICES ASSUME NEW d \in AllComms, NEW i \in 1 .. Len(stream'[d])
                   PROVE  stream'[d][i].node = "comminfo" <=> i = 1
      OBVIOUS
    <3>2. \A j \in 1 .. Len(stream[d]) : stream[d][j].node = "comminfo" <=> j = 1
      BY <1>4 DEF TypeOK
    <3>3. CASE d # c
      BY <2>6, <3>2, <3>3
    <3>4. CASE d = c /\ i = Len(stream[c]) + 1
      BY <2>2, <2>4, <2>5, <2>6, <3>4
    <3>5. CASE d = c /\ i # Len(stream[c]) + 1
      <4>1. i \in 1 .. Len(stream[c])
        BY <2>4, <2>5, <2>6, <3>5
      <4>2. stream'[d][i] = stream[d][i]
        BY <2>5, <2>6, <3>5, <4>1
      <4>3. QED
        BY <3>2, <3>5, <4>1, <4>2
    <3>6. QED
      BY <3>3, <3>4, <3>5
  <2>9. id' \in [Ranks -> Nat]
    BY <1>4, <2>1 DEF TypeOK
  <2>10. TypeOK'
    BY <1>1, <1>4, <2>7, <2>8, <2>9 DEF TypeOK
  <2>11. KnownOK'
    <3>1. SUFFICES ASSUME NEW d \in AllComms, NEW s \in d
                   PROVE  d \in known'[s] <=> stream'[d] # << >>
      BY DEF KnownOK
    <3>2. d \in known[s] <=> stream[d] # << >>
      BY <1>4 DEF KnownOK
    <3>3. QED
      BY <1>1, <2>3, <2>5, <2>6, <3>2
  <2>12. /\ todo' \in [Ranks -> Seq(AnyOp)]
         /\ todo'[r] \in Seq(Ops(r, known[r]))
         /\ \A s \in Ranks \ {r} : todo'[s] = todo[s]
    BY <1>1, <1>5, InsteadTyped
  <2>13. \A s \in Ranks : TodoOK(s)' /\ (World \in known[s])'
    BY <1>1, <1>2, <2>12, KeptTodo
  <2>14. QED
    BY <1>1, <2>10, <2>11, <2>12, <2>13 DEF Typed, InCall
<1>8. QED
  BY <1>6, <1>7

\* The members of c are together in a collective.
LEMMA TogetherFacts ==
  ASSUME Typed, NEW c \in AllComms, NEW op, Together(c, op)
  PROVE  \A r \in c : r \in Ranks /\ Doing(r, op) /\ comm[r] = c
BY CommFacts DEF Together

\* What a collective leaves to do is typed as before.
LEMMA GoOnTyped ==
  ASSUME Typed, NEW c \in AllComms, GoOn(c), \A r \in c : todo[r] # << >>
  PROVE  /\ todo' \in [Ranks -> Seq(AnyOp)]
         /\ \A r \in c : todo'[r] = Tail(todo[r])
         /\ \A r \in Ranks \ c : todo'[r] = todo[r]
<1>1. todo \in [Ranks -> Seq(AnyOp)] /\ c \subseteq Ranks
  BY CommFacts DEF Typed
<1>2. \A r \in c : Tail(todo[r]) \in Seq(AnyOp)
  BY <1>1, HeadTail
<1>3. todo' = [r \in Ranks |-> IF r \in c THEN Tail(todo[r]) ELSE todo[r]]
  BY DEF GoOn
<1>4. QED
  BY <1>1, <1>2, <1>3

\* The members of a communicator agree on a number.
LEMMA SyncTyped ==
  ASSUME Typed, NEW c \in AllComms, DoSync(c)
  PROVE  Typed'
<1>1. /\ Together(c, "sync") /\ GoOn(c)
      /\ UNCHANGED <<calls, open, taken, comm, known, stream, output>>
      /\ id' = [r \in Ranks |-> IF r \in c THEN Agreed(c) ELSE id[r]]
  BY DEF DoSync, app
<1>2. \A r \in c : r \in Ranks /\ Doing(r, "sync") /\ todo[r] # << >>
  BY <1>1, TogetherFacts DEF Doing
<1>3. /\ todo' \in [Ranks -> Seq(AnyOp)]
      /\ \A r \in c : todo'[r] = Tail(todo[r])
      /\ \A r \in Ranks \ c : todo'[r] = todo[r]
  BY <1>1, <1>2, GoOnTyped
<1>4. ASSUME NEW r \in Ranks
      PROVE  TodoOK(r)'
  <2>1. CASE r \in c
    <3>1. comm[r] \in known[r] /\ Tail(todo[r]) \in Seq(Ops(r, known[r]))
      BY <1>2, <2>1, DoingFacts
    <3>2. QED
      BY <1>1, <1>3, <2>1, <3>1 DEF TodoOK
  <2>2. CASE r \notin c
    <3>1. TodoOK(r)
      BY DEF Typed
    <3>2. QED
      BY <1>1, <1>3, <2>2, <3>1 DEF TodoOK
  <2>3. QED
    BY <2>1, <2>2
<1>5. TypeOK'
  <2>1. TypeOK /\ id \in [Ranks -> Nat]
    BY DEF Typed, TypeOK
  <2>2. Agreed(c) \in Nat
    BY <2>1, AgreedFacts
  <2>3. id' \in [Ranks -> Nat]
    BY <1>1, <2>1, <2>2
  <2>4. QED
    BY <1>1, <2>1, <2>3 DEF TypeOK
<1>6. QED
  BY <1>1, <1>3, <1>4, <1>5 DEF Typed, KnownOK, InCall

\* A communicator is announced once, by the first node of its stream.
LEMMA GatherTyped ==
  ASSUME Typed, NEW c \in AllComms, DoGather(c)
  PROVE  Typed'
<1> DEFINE x == [jid |-> -1, node |-> "comminfo", call |-> taken[Root(c)]]
<1>1. /\ Together(c, "gather") /\ GoOn(c)
      /\ UNCHANGED <<calls, open, taken, comm, id, output>>
      /\ known' = [r \in Ranks |-> IF r \in c THEN known[r] \cup {c} ELSE known[r]]
      /\ stream' = [stream EXCEPT ![c] = Append(@, x)]
  BY DEF DoGather, app
<1>2. \A r \in c : r \in Ranks /\ Doing(r, "gather") /\ todo[r] # << >> /\ comm[r] = c
  BY <1>1, TogetherFacts DEF Doing
<1>3. /\ todo' \in [Ranks -> Seq(AnyOp)]
      /\ \A r \in c : todo'[r] = Tail(todo[r])
      /\ \A r \in Ranks \ c : todo'[r] = todo[r]
  BY <1>1, <1>2, GoOnTyped
<1>4. TypeOK /\ KnownOK
  BY DEF Typed
<1>5. ASSUME NEW r \in c
      PROVE  c \notin known[r] /\ Tail(todo[r]) \in Seq(Ops(r, known[r]))
  <2>1. r \in Ranks /\ comm[r] = c /\ TodoOK(r) /\ Doing(r, "gather")
    BY <1>2 DEF Typed
  <2>2. ASSUME c \in known[r]
        PROVE  FALSE
    <3>1. todo[r] \in Seq(Ops(r, known[r])) /\ todo[r] # << >>
      BY <1>2, <2>1, <2>2 DEF TodoOK
    <3>2. todo[r][1] \in Ops(r, known[r])
      BY <3>1, HeadTail
    <3>3. todo[r][1].op # "gather"
      BY <2>1, <3>2, OpsCases
    <3>4. QED
      BY <2>1, <3>3 DEF Doing
  <2>3. PICK t \in Seq(Ops(r, known[r])) : todo[r] = <<Gather>> \o t
    BY <2>1, <2>2 DEF TodoOK
  <2> DEFINE S == Ops(r, known[r]) \cup {Gather}
  <2>4. t \in Seq(S) /\ Gather \in S
    BY SeqMonotonic
  <2> HIDE DEF S
  <2>5. Tail(todo[r]) = t
    BY <2>3, <2>4, ConsFacts
  <2>6. QED
    BY <2>2, <2>5
<1>6. ASSUME NEW r \in Ranks
      PROVE  TodoOK(r)' /\ (World \in known[r])'
  <2>1. CASE r \in c
    <3>1. known'[r] = known[r] \cup {c} /\ comm'[r] = c
      BY <1>1, <1>2, <2>1
    <3>2. todo'[r] \in Seq(Ops(r, known'[r]))
      <4>1. Ops(r, known[r]) \subseteq Ops(r, known'[r])
        BY <3>1 DEF Ops
      <4>2. QED
        BY <1>3, <1>5, <2>1, <4>1, SeqMonotonic
    <3>3. QED
      BY <3>1, <3>2 DEF TodoOK, Typed
  <2>2. CASE r \notin c
    <3>1. TodoOK(r) /\ World \in known[r]
      BY DEF Typed
    <3>2. QED
      BY <1>1, <1>3, <2>2, <3>1 DEF TodoOK
  <2>3. QED
    BY <2>1, <2>2
<1>7. stream[c] = << >> /\ c \subseteq Ranks /\ c # {} /\ stream \in [AllComms -> Seq(Node)]
  BY <1>4, <1>5, CommFacts, SMTT(30) DEF KnownOK, TypeOK
<1>8. x \in Node /\ x.node = "comminfo"
  <2>1. taken[Root(c)] \in Nat
    BY <1>4, RootFacts DEF TypeOK
  <2>2. QED
    BY <2>1 DEF Node, Nodes
<1> HIDE DEF x
<1>9. /\ Append(stream[c], x) \in Seq(Node) /\ Append(stream[c], x) # << >>
      /\ Len(Append(stream[c], x)) = 1 /\ Append(stream[c], x)[1] = x
  BY <1>7, <1>8, AppendProperties, EmptySeq
<1>10. /\ stream' \in [AllComms -> Seq(Node)]
       /\ stream'[c] = Append(stream[c], x)
       /\ \A d \in AllComms \ {c} : stream'[d] = stream[d]
  BY <1>1, <1>7, <1>9
<1>11. ASSUME NEW d \in AllComms, NEW i \in 1 .. Len(stream'[d])
       PROVE  stream'[d][i].node = "comminfo" <=> i = 1
  <2>1. CASE d = c
    BY <1>8, <1>9, <1>10, <2>1
  <2>2. CASE d # c
    BY <1>4, <1>10, <2>2 DEF TypeOK
  <2>3. QED
    BY <2>1, <2>2
<1>12. known' \in [Ranks -> SUBSET AllComms]
  BY <1>1, <1>4 DEF TypeOK
<1>13. TypeOK'
  BY <1>1, <1>4, <1>10, <1>11, <1>12 DEF TypeOK
<1>14. KnownOK'
  <2>1. SUFFICES ASSUME NEW d \in AllComms, NEW r \in d
                 PROVE  d \in known'[r] <=> stream'[d] # << >>
    BY DEF KnownOK
  <2>2. r \in Ranks /\ (d \in known[r] <=> stream[d] # << >>)
    BY <1>4, CommFacts DEF KnownOK
  <2>3. CASE d = c
    BY <1>1, <1>9, <1>10, <2>2, <2>3
  <2>4. CASE d # c
    BY <1>1, <1>10, <2>2, <2>4
  <2>5. QED
    BY <2>3, <2>4
<1>15. QED
  BY <1>1, <1>3, <1>6, <1>13, <1>14 DEF Typed, InCall

\* Every step keeps the types.
LEMMA NextTyped ==
  ASSUME Typed, [Next]_vars
  PROVE  Typed'
<1>1. CASE Application
  BY <1>1, ApplicationTyped
<1>2. ASSUME NEW r \in Ranks, Enter(r)
      PROVE  Typed'
  BY <1>2, EnterTyped
<1>3. ASSUME NEW r \in Ranks, Step(r)
      PROVE  Typed'
  BY <1>3, SetCommTyped, WriteTyped, QuietStepsTyped DEF Step
<1>4. ASSUME NEW c \in AllComms, Collective(c)
      PROVE  Typed'
  BY <1>4, GatherTyped, SyncTyped DEF Collective
<1>5. CASE UNCHANGED vars
  BY <1>5 DEF vars, Typed, TypeOK, TodoOK, InCall, KnownOK
<1>6. QED
  BY <1>1, <1>2, <1>3, <1>4, <1>5 DEF Next

\* The engine's variables keep their types, and what is written to a stream comes
\* after the one node that announces its communicator (StreamManager::setComm).
THEOREM TypeCorrect == Spec => []TypeOK
<1>1. Init => Typed
  BY InitTyped
<1>2. Typed /\ [Next]_vars => Typed'
  BY NextTyped
<1>3. Typed => TypeOK
  BY DEF Typed
<1>4. QED
  BY <1>1, <1>2, <1>3, PTL DEF Spec

-----------------------------------------------------------------------------
(* Where the operations of a rank lead it, and how often it syncs.         *)

\* The communicator after an operation; a message puts it back.
After(o, d) == IF o.op = "setComm" THEN o.comm ELSE d

\* How often an operation makes its rank sync on communicator c.
Syncs(o, d, c) ==
  IF \/ o.op = "setComm" /\ o.sync /\ o.comm = c
     \/ o.op = "sync" /\ d = c
     \/ o.op = "log" /\ o.comm = c
  THEN 1 ELSE 0

\* A node is written on the communicator it is about: `here`, or `logs` for messages.
Placed(o, d, here, logs) ==
  /\ o.op = "write" /\ o.node # "stdout" => d = IF o.node = "log" THEN logs ELSE here
  /\ o.op = "log" => o.comm = logs

\* Doing s leads from d to e, by the communicators f, and g syncs on c are left.
Traces(s, f, g, d, e, here, logs, c, k) ==
  /\ f[1] = d /\ f[Len(s) + 1] = e
  /\ g[1] = k /\ g[Len(s) + 1] = 0
  /\ \A i \in 1 .. Len(s) :
       /\ f[i + 1] = After(s[i], f[i])
       /\ g[i] = Syncs(s[i], f[i], c) + g[i + 1]
       /\ Placed(s[i], f[i], here, logs)

\* Doing s leads from communicator d to e with k syncs on c.
Leads(s, d, e, here, logs, c, k) ==
  \E f \in [1 .. (Len(s) + 1) -> AllComms], g \in [1 .. (Len(s) + 1) -> Nat] :
    Traces(s, f, g, d, e, here, logs, c, k)

\* Nothing to do leads nowhere.
LEMMA LeadsEmpty ==
  ASSUME NEW d, NEW here, NEW logs, NEW c
  PROVE  /\ d \in AllComms => Leads(<< >>, d, d, here, logs, c, 0)
         /\ \A e, k : Leads(<< >>, d, e, here, logs, c, k) => e = d /\ k = 0
<1>1. Len(<< >>) = 0
  BY EmptySeq
<1>2. ASSUME d \in AllComms
      PROVE  Leads(<< >>, d, d, here, logs, c, 0)
  <2>1. [i \in 1 .. 1 |-> d] \in [1 .. 1 -> AllComms] /\ [i \in 1 .. 1 |-> 0] \in [1 .. 1 -> Nat]
    BY <1>2
  <2>2. Traces(<< >>, [i \in 1 .. 1 |-> d], [i \in 1 .. 1 |-> 0], d, d, here, logs, c, 0)
    BY <1>1 DEF Traces
  <2>3. QED
    BY <1>1, <2>1, <2>2 DEF Leads
<1>3. ASSUME NEW e, NEW k, Leads(<< >>, d, e, here, logs, c, k)
      PROVE  e = d /\ k = 0
  BY <1>1, <1>3 DEF Leads, Traces
<1>4. QED
  BY <1>2, <1>3

\* One sequence after the other.
LEMMA LeadsConcat ==
  ASSUME NEW S, NEW s \in Seq(S), NEW t \in Seq(S), NEW d, NEW e, NEW h,
         NEW here, NEW logs, NEW c, NEW j \in Nat, NEW k \in Nat,
         Leads(s, d, e, here, logs, c, j), Leads(t, e, h, here, logs, c, k)
  PROVE  Leads(s \o t, d, h, here, logs, c, j + k)
<1> DEFINE m == Len(s)
           n == Len(t)
           u == s \o t
<1>1. m \in Nat /\ n \in Nat
  BY LenProperties
<1>2. /\ Len(u) = m + n
      /\ \A i \in 1 .. m : u[i] = s[i]
      /\ \A i \in 1 .. n : u[m + i] = t[i]
  <2>1. /\ Len(u) = m + n
        /\ \A i \in 1 .. (m + n) : u[i] = IF i <= m THEN s[i] ELSE t[i - m]
    BY ConcatProperties
  <2>2. \A i \in 1 .. m : i \in 1 .. (m + n) /\ i <= m
    BY <1>1
  <2>3. \A i \in 1 .. n : m + i \in 1 .. (m + n) /\ ~(m + i <= m) /\ (m + i) - m = i
    BY <1>1
  <2> HIDE DEF m, n, u
  <2>4. QED
    BY <2>1, <2>2, <2>3
<1>3. PICK f1 \in [1 .. (m + 1) -> AllComms], g1 \in [1 .. (m + 1) -> Nat] :
        Traces(s, f1, g1, d, e, here, logs, c, j)
  BY DEF Leads
<1>4. PICK f2 \in [1 .. (n + 1) -> AllComms], g2 \in [1 .. (n + 1) -> Nat] :
        Traces(t, f2, g2, e, h, here, logs, c, k)
  BY DEF Leads
<1> DEFINE f == [i \in 1 .. (m + n + 1) |-> IF i <= m THEN f1[i] ELSE f2[i - m]]
           g == [i \in 1 .. (m + n + 1) |-> IF i <= m THEN g1[i] + k ELSE g2[i - m]]
<1>5. /\ f1[1] = d /\ f1[m + 1] = e /\ g1[1] = j /\ g1[m + 1] = 0
      /\ \A i \in 1 .. m : /\ f1[i + 1] = After(s[i], f1[i])
                           /\ g1[i] = Syncs(s[i], f1[i], c) + g1[i + 1]
                           /\ Placed(s[i], f1[i], here, logs)
  BY <1>3 DEF Traces
<1>6. /\ f2[1] = e /\ f2[n + 1] = h /\ g2[1] = k /\ g2[n + 1] = 0
      /\ \A i \in 1 .. n : /\ f2[i + 1] = After(t[i], f2[i])
                           /\ g2[i] = Syncs(t[i], f2[i], c) + g2[i + 1]
                           /\ Placed(t[i], f2[i], here, logs)
  BY <1>4 DEF Traces
<1> HIDE DEF m, n, u
<1>7. ASSUME NEW i \in 1 .. (m + n + 1)
      PROVE  /\ i <= m => i \in 1 .. (m + 1)
             /\ ~(i <= m) => i - m \in 1 .. (n + 1)
  BY <1>1
<1>8. \A i \in 1 .. (m + 1) : f[i] = f1[i] /\ g[i] = g1[i] + k
  <2>1. SUFFICES ASSUME NEW i \in 1 .. (m + 1)
                 PROVE  f[i] = f1[i] /\ g[i] = g1[i] + k
    OBVIOUS
  <2>2. i \in 1 .. (m + n + 1)
    BY <1>1
  <2>3. CASE i <= m
    BY <2>2, <2>3
  <2>4. CASE ~(i <= m)
    <3>1. i = m + 1 /\ i - m = 1
      BY <1>1, <2>4
    <3>2. QED
      BY <1>5, <1>6, <2>2, <2>4, <3>1
  <2>5. QED
    BY <2>3, <2>4
<1>9. \A i \in 1 .. (n + 1) : f[m + i] = f2[i] /\ g[m + i] = g2[i]
  <2>1. SUFFICES ASSUME NEW i \in 1 .. (n + 1)
                 PROVE  f[m + i] = f2[i] /\ g[m + i] = g2[i]
    OBVIOUS
  <2>2. m + i \in 1 .. (m + n + 1) /\ ~(m + i <= m) /\ (m + i) - m = i
    BY <1>1
  <2>3. QED
    BY <2>2
<1>10. f \in [1 .. (m + n + 1) -> AllComms] /\ g \in [1 .. (m + n + 1) -> Nat]
  <2>1. \A i \in 1 .. (m + n + 1) : (IF i <= m THEN f1[i] ELSE f2[i - m]) \in AllComms
    BY <1>3, <1>4, <1>7
  <2>2. \A i \in 1 .. (m + n + 1) : (IF i <= m THEN g1[i] + k ELSE g2[i - m]) \in Nat
    BY <1>3, <1>4, <1>7
  <2>3. QED
    BY <2>1, <2>2
<1> HIDE DEF f, g
<1>11. ASSUME NEW i \in 1 .. (m + n)
       PROVE  /\ f[i + 1] = After(u[i], f[i])
              /\ g[i] = Syncs(u[i], f[i], c) + g[i + 1]
              /\ Placed(u[i], f[i], here, logs)
  <2>1. CASE i <= m
    <3>1. i \in 1 .. m /\ i \in 1 .. (m + 1) /\ i + 1 \in 1 .. (m + 1)
      BY <1>1, <2>1
    <3>2. u[i] = s[i] /\ f[i] = f1[i] /\ g[i] = g1[i] + k
          /\ f[i + 1] = f1[i + 1] /\ g[i + 1] = g1[i + 1] + k
      BY <1>2, <1>8, <3>1
    <3>3. g1[i] = Syncs(s[i], f1[i], c) + g1[i + 1]
      BY <1>5, <3>1
    <3>4. Syncs(s[i], f1[i], c) \in Nat /\ g1[i + 1] \in Nat
      BY <1>3, <3>1 DEF Syncs
    <3>5. g[i] = Syncs(u[i], f[i], c) + g[i + 1]
      BY <3>2, <3>3, <3>4
    <3>6. QED
      BY <1>5, <3>1, <3>2, <3>5
  <2>2. CASE ~(i <= m)
    <3> DEFINE l == i - m
    <3>1. l \in 1 .. n /\ l \in 1 .. (n + 1) /\ l + 1 \in 1 .. (n + 1) /\ m + l = i /\ m + (l + 1) = i + 1
      BY <1>1, <2>2
    <3> HIDE DEF l
    <3>2. u[i] = t[l] /\ f[i] = f2[l] /\ g[i] = g2[l] /\ f[i + 1] = f2[l + 1] /\ g[i + 1] = g2[l + 1]
      BY <1>2, <1>9, <3>1
    <3>3. QED
      BY <1>6, <3>1, <3>2
  <2>3. QED
    BY <2>1, <2>2
<1>12. f[1] = d /\ g[1] = j + k /\ f[m + n + 1] = h /\ g[m + n + 1] = 0
  <2>1. 1 \in 1 .. (m + 1) /\ n + 1 \in 1 .. (n + 1) /\ m + (n + 1) = m + n + 1
    BY <1>1
  <2>2. QED
    BY <1>5, <1>6, <1>8, <1>9, <2>1
<1>13. Traces(u, f, g, d, h, here, logs, c, j + k)
  BY <1>2, <1>11, <1>12 DEF Traces
<1>14. f \in [1 .. (Len(u) + 1) -> AllComms] /\ g \in [1 .. (Len(u) + 1) -> Nat]
  BY <1>2, <1>10
<1>15. QED
  BY <1>13, <1>14 DEF Leads, u

\* One operation.
LEMMA LeadsOne ==
  ASSUME NEW o, NEW d \in AllComms, After(o, d) \in AllComms,
         NEW here, NEW logs, NEW c, Placed(o, d, here, logs)
  PROVE  Leads(<<o>>, d, After(o, d), here, logs, c, Syncs(o, d, c))
<1> DEFINE a == After(o, d)
           w == Syncs(o, d, c)
           f == [i \in 1 .. 2 |-> IF i = 1 THEN d ELSE a]
           g == [i \in 1 .. 2 |-> IF i = 1 THEN w ELSE 0]
<1>1. w \in Nat
  BY DEF Syncs
<1>2. Len(<<o>>) = 1 /\ <<o>>[1] = o
  OBVIOUS
<1> HIDE DEF w, a
<1>3. f \in [1 .. 2 -> AllComms] /\ g \in [1 .. 2 -> Nat]
  BY <1>1 DEF a
<1>4. f[1] = d /\ f[2] = a /\ g[1] = w /\ g[2] = 0 /\ w + 0 = w
  BY <1>1
<1> HIDE DEF f, g
<1>5. Traces(<<o>>, f, g, d, a, here, logs, c, w)
  <2>1. \A i \in 1 .. 1 : /\ f[i + 1] = After(<<o>>[i], f[i])
                          /\ g[i] = Syncs(<<o>>[i], f[i], c) + g[i + 1]
                          /\ Placed(<<o>>[i], f[i], here, logs)
    BY <1>2, <1>4 DEF a, w
  <2>2. QED
    BY <1>2, <1>4, <2>1 DEF Traces
<1>6. QED
  BY <1>2, <1>3, <1>5 DEF Leads, a, w

\* An operation in front.
LEMMA LeadsCons ==
  ASSUME NEW S, NEW o \in S, NEW t \in Seq(S), NEW d \in AllComms, After(o, d) \in AllComms,
         NEW e, NEW here, NEW logs, NEW c, NEW k \in Nat, Placed(o, d, here, logs),
         Leads(t, After(o, d), e, here, logs, c, k)
  PROVE  Leads(<<o>> \o t, d, e, here, logs, c, Syncs(o, d, c) + k)
<1>1. <<o>> \in Seq(S) /\ Syncs(o, d, c) \in Nat
  BY Tuples DEF Syncs
<1>2. Leads(<<o>>, d, After(o, d), here, logs, c, Syncs(o, d, c))
  BY LeadsOne
<1>3. QED
  BY <1>1, <1>2, LeadsConcat

\* The operation in front has been done.
LEMMA LeadsTail ==
  ASSUME NEW S, NEW o \in S, NEW t \in Seq(S), NEW d,
         NEW e, NEW here, NEW logs, NEW c, NEW k,
         Leads(<<o>> \o t, d, e, here, logs, c, k)
  PROVE  /\ Placed(o, d, here, logs)
         /\ \E j \in Nat : k = Syncs(o, d, c) + j /\ Leads(t, After(o, d), e, here, logs, c, j)
<1> DEFINE s == <<o>> \o t
           n == Len(t)
<1>1. /\ s[1] = o /\ Len(s) = n + 1 /\ n \in Nat
      /\ \A i \in 1 .. n : s[i + 1] = t[i]
  BY ConsFacts, LenProperties
<1>2. PICK f1 \in [1 .. (Len(s) + 1) -> AllComms], g1 \in [1 .. (Len(s) + 1) -> Nat] :
        Traces(s, f1, g1, d, e, here, logs, c, k)
  BY DEF Leads
<1> HIDE DEF s, n
<1>3. /\ f1 \in [1 .. (n + 2) -> AllComms] /\ g1 \in [1 .. (n + 2) -> Nat]
      /\ f1[1] = d /\ f1[n + 2] = e /\ g1[1] = k /\ g1[n + 2] = 0
      /\ \A i \in 1 .. (n + 1) : /\ f1[i + 1] = After(s[i], f1[i])
                                 /\ g1[i] = Syncs(s[i], f1[i], c) + g1[i + 1]
                                 /\ Placed(s[i], f1[i], here, logs)
  <2>1. Len(s) + 1 = n + 2
    BY <1>1
  <2>2. /\ f1[1] = d /\ f1[Len(s) + 1] = e /\ g1[1] = k /\ g1[Len(s) + 1] = 0
        /\ \A i \in 1 .. Len(s) : /\ f1[i + 1] = After(s[i], f1[i])
                                 /\ g1[i] = Syncs(s[i], f1[i], c) + g1[i + 1]
                                 /\ Placed(s[i], f1[i], here, logs)
    BY <1>2 DEF Traces
  <2>3. QED
    BY <1>1, <1>2, <2>1, <2>2
<1> DEFINE f == [i \in 1 .. (n + 1) |-> f1[i + 1]]
           g == [i \in 1 .. (n + 1) |-> g1[i + 1]]
<1>4. \A i \in 1 .. (n + 1) : i + 1 \in 1 .. (n + 2)
  BY <1>1
<1>5. f \in [1 .. (n + 1) -> AllComms] /\ g \in [1 .. (n + 1) -> Nat]
  BY <1>3, <1>4
<1>6. \A i \in 1 .. (n + 1) : f[i] = f1[i + 1] /\ g[i] = g1[i + 1]
  OBVIOUS
<1> HIDE DEF f, g
<1>7. 1 \in 1 .. (n + 1) /\ n + 1 \in 1 .. (n + 1) /\ 1 + 1 = 2 /\ (n + 1) + 1 = n + 2
  BY <1>1
<1>8. /\ Placed(o, d, here, logs) /\ f[1] = After(o, d)
      /\ k = Syncs(o, d, c) + g[1] /\ g[1] \in Nat
      /\ f[n + 1] = e /\ g[n + 1] = 0
  BY <1>1, <1>3, <1>5, <1>6, <1>7
<1>9. ASSUME NEW i \in 1 .. n
      PROVE  /\ f[i + 1] = After(t[i], f[i])
             /\ g[i] = Syncs(t[i], f[i], c) + g[i + 1]
             /\ Placed(t[i], f[i], here, logs)
  <2>1. i \in 1 .. (n + 1) /\ i + 1 \in 1 .. (n + 1)
    BY <1>1
  <2>2. t[i] = s[i + 1]
    BY <1>1
  <2>3. f[i] = f1[i + 1] /\ f[i + 1] = f1[(i + 1) + 1] /\ g[i] = g1[i + 1] /\ g[i + 1] = g1[(i + 1) + 1]
    BY <1>6, <2>1
  <2>4. QED
    BY <1>3, <2>1, <2>2, <2>3
<1>10. Traces(t, f, g, After(o, d), e, here, logs, c, g[1])
  BY <1>8, <1>9 DEF Traces, n
<1>11. Leads(t, After(o, d), e, here, logs, c, g[1])
  BY <1>5, <1>10 DEF Leads, n
<1>12. QED
  BY <1>8, <1>11

\* Copies of a point's tests, or of a message, that return to their communicator.
LEMMA LeadsTimes ==
  ASSUME NEW S, NEW s \in Seq(S), Len(s) \in {2, 6}, NEW n \in Nat, NEW d \in AllComms,
         NEW here, NEW logs, NEW c, NEW k \in {0, 1, 2},
         Leads(s, d, d, here, logs, c, k)
  PROVE  Leads(Times(s, n), d, d, here, logs, c, n * k)
<1> DEFINE l == Len(s)
           t == Times(s, n)
           w == n * l
<1>1. PICK f1 \in [1 .. (l + 1) -> AllComms], g1 \in [1 .. (l + 1) -> Nat] :
        Traces(s, f1, g1, d, d, here, logs, c, k)
  BY DEF Leads
<1>2. s # << >>
  BY EmptySeq
<1>3. Len(t) = w /\ \A i \in 1 .. w : t[i] = s[((i - 1) % l) + 1]
  BY <1>2, TimesFacts
<1>4. /\ f1[1] = d /\ f1[l + 1] = d /\ g1[1] = k /\ g1[l + 1] = 0
      /\ \A i \in 1 .. l : /\ f1[i + 1] = After(s[i], f1[i])
                           /\ g1[i] = Syncs(s[i], f1[i], c) + g1[i + 1]
                           /\ Placed(s[i], f1[i], here, logs)
  BY <1>1 DEF Traces
<1> DEFINE q(i) == (i - 1) \div l
           m(i) == ((i - 1) % l) + 1
           f == [i \in 1 .. (w + 1) |-> IF i = w + 1 THEN d ELSE f1[m(i)]]
           g == [i \in 1 .. (w + 1) |-> IF i = w + 1 THEN 0 ELSE ((n - 1) - q(i)) * k + g1[m(i)]]
<1>5. l \in {2, 6} /\ w \in Nat
  OBVIOUS
<1> HIDE DEF t, l
<1>6. ASSUME NEW i \in 1 .. w
      PROVE  /\ m(i) \in 1 .. l /\ q(i) \in 0 .. (n - 1) /\ i = (q(i) * l) + m(i)
             /\ m(i) # l => i + 1 # w + 1 /\ m(i + 1) = m(i) + 1 /\ q(i + 1) = q(i)
             /\ m(i) = l /\ i # w => m(i + 1) = 1 /\ q(i + 1) = q(i) + 1
             /\ m(i) = l /\ i = w => q(i) = n - 1
  <2> DEFINE a == i - 1
             x == a \div l
             y == a % l
  <2>1. a \in Nat /\ a + 1 = i /\ (i + 1) - 1 = a + 1 /\ a < w
    BY <1>5
  <2>2. q(i) = x /\ m(i) = y + 1
    OBVIOUS
  <2>3. q(i + 1) = (a + 1) \div l /\ m(i + 1) = ((a + 1) % l) + 1
    BY <2>1
  <2> HIDE DEF a, q, m
  <2>4. /\ x \in Nat /\ y \in 0 .. (l - 1) /\ a = (x * l) + y
        /\ y # l - 1 => (a + 1) % l = y + 1 /\ (a + 1) \div l = x
        /\ y = l - 1 => (a + 1) % l = 0 /\ (a + 1) \div l = x + 1
    <3>1. CASE l = 2
      BY <1>5, <2>1, <3>1
    <3>2. CASE l = 6
      BY <1>5, <2>1, <3>2, SMTT(30)
    <3>3. QED
      BY <1>5, <3>1, <3>2
  <2> HIDE DEF x, y
  <2>5. (x * l) + y < n * l
    BY <2>1, <2>4
  <2>6. /\ x \in 0 .. (n - 1)
        /\ y # l - 1 => (x * l) + y + 1 < n * l
        /\ y = l - 1 /\ (x * l) + y + 1 = n * l => x = n - 1
    <3>1. CASE l = 2
      BY <1>5, <2>4, <2>5, <3>1
    <3>2. CASE l = 6
      BY <1>5, <2>4, <2>5, <3>2
    <3>3. QED
      BY <1>5, <3>1, <3>2
  <2>7. l \in Nat /\ y \in Nat
    BY <1>5, <2>4
  <2>8. m(i) \in 1 .. l /\ (m(i) = l <=> y = l - 1)
    BY <2>2, <2>4, <2>7
  <2>9. x * l \in Nat
    BY <1>5, <2>4
  <2>10. i = (x * l) + (y + 1)
    BY <2>1, <2>4, <2>7, <2>9
  <2>11. /\ y # l - 1 => i + 1 # w + 1
         /\ y = l - 1 /\ i = w => x = n - 1
    BY <1>5, <2>6, <2>7, <2>9, <2>10
  <2>12. QED
    BY <2>2, <2>3, <2>4, <2>6, <2>8, <2>10, <2>11
<1>7. \A i \in 1 .. w : ((n - 1) - q(i)) * k \in Nat
  <2>1. SUFFICES ASSUME NEW i \in 1 .. w
                 PROVE  ((n - 1) - q(i)) * k \in Nat
    OBVIOUS
  <2>2. q(i) \in 0 .. (n - 1)
    BY <1>6
  <2> HIDE DEF q
  <2>3. CASE k = 0
    BY <2>2, <2>3
  <2>4. CASE k = 1
    BY <2>2, <2>4
  <2>5. CASE k = 2
    BY <2>2, <2>5
  <2>6. QED
    BY <2>3, <2>4, <2>5
<1>8. f \in [1 .. (w + 1) -> AllComms] /\ g \in [1 .. (w + 1) -> Nat]
  <2>1. \A i \in 1 .. (w + 1) : i # w + 1 => i \in 1 .. w
    BY <1>5
  <2>2. \A i \in 1 .. w : m(i) \in 1 .. l /\ m(i) \in 1 .. (l + 1)
    BY <1>5, <1>6
  <2>3. \A i \in 1 .. w : f1[m(i)] \in AllComms /\ g1[m(i)] \in Nat
    BY <1>1, <2>2
  <2> HIDE DEF q, m
  <2>4. \A i \in 1 .. w : ((n - 1) - q(i)) * k + g1[m(i)] \in Nat
    BY <1>7, <2>3
  <2>5. QED
    BY <2>1, <2>3, <2>4
<1>9. f[w + 1] = d /\ g[w + 1] = 0
  BY <1>5
<1>10. \A i \in 1 .. w : f[i] = f1[m(i)] /\ g[i] = ((n - 1) - q(i)) * k + g1[m(i)]
  <2>1. \A i \in 1 .. w : i \in 1 .. (w + 1) /\ i # w + 1
    BY <1>5
  <2> HIDE DEF w, q, m
  <2>2. QED
    BY <2>1
<1>11. f[1] = d /\ g[1] = n * k
  <2>1. CASE n = 0
    <3>1. w = 0 /\ n * k = 0
      BY <1>5, <2>1
    <3>2. QED
      BY <1>9, <3>1
  <2>2. CASE n # 0
    <3>1. 1 \in 1 .. w
      BY <1>5, <2>2
    <3>2. m(1) = 1 /\ q(1) = 0
      BY <1>5
    <3>3. ((n - 1) - 0) * k + k = n * k
      OBVIOUS
    <3> HIDE DEF m, q, f, g, w
    <3>4. f[1] = f1[m(1)] /\ g[1] = ((n - 1) - q(1)) * k + g1[m(1)]
      BY <1>10, <3>1
    <3>5. QED
      BY <1>4, <3>2, <3>3, <3>4
  <2>3. QED
    BY <2>1, <2>2
<1>12. ASSUME NEW i \in 1 .. w
       PROVE  /\ f[i + 1] = After(t[i], f[i])
              /\ g[i] = Syncs(t[i], f[i], c) + g[i + 1]
              /\ Placed(t[i], f[i], here, logs)
  <2>1. m(i) \in 1 .. l /\ q(i) \in 0 .. (n - 1) /\ t[i] = s[m(i)]
    BY <1>3, <1>6 DEF l
  <2>2. f[i] = f1[m(i)] /\ g[i] = ((n - 1) - q(i)) * k + g1[m(i)]
    BY <1>10
  <2>3. /\ f1[m(i) + 1] = After(s[m(i)], f1[m(i)])
        /\ g1[m(i)] = Syncs(s[m(i)], f1[m(i)], c) + g1[m(i) + 1]
        /\ Placed(s[m(i)], f1[m(i)], here, logs)
    <3> HIDE DEF m
    <3>1. QED
      BY <1>4, <2>1
  <2>4. ((n - 1) - q(i)) * k \in Nat /\ Syncs(s[m(i)], f1[m(i)], c) \in Nat
    BY <1>7 DEF Syncs
  <2>5. CASE m(i) # l
    <3> HIDE DEF m, q, w
    <3>1. i + 1 # w + 1 /\ m(i + 1) = m(i) + 1 /\ q(i + 1) = q(i) /\ i + 1 \in 1 .. w
      BY <1>5, <1>6, <2>5
    <3>2. f[i + 1] = f1[m(i + 1)] /\ g[i + 1] = ((n - 1) - q(i + 1)) * k + g1[m(i + 1)]
      BY <1>10, <3>1
    <3>3. m(i) + 1 \in 1 .. (l + 1)
      BY <1>5, <2>1, SMTT(30)
    <3> HIDE DEF f, g
    <3>4. g1[m(i) + 1] \in Nat
      BY <1>1, <3>3
    <3> DEFINE z == ((n - 1) - q(i)) * k
    <3> HIDE DEF z
    <3>5. g[i] = z + g1[m(i)] /\ g[i + 1] = z + g1[m(i) + 1] /\ z \in Nat
      BY <2>2, <2>4, <3>1, <3>2 DEF z
    <3>6. g[i] = Syncs(s[m(i)], f1[m(i)], c) + g[i + 1]
      BY <2>3, <2>4, <3>4, <3>5
    <3>7. QED
      BY <2>1, <2>2, <2>3, <3>1, <3>2, <3>6
  <2>6. CASE m(i) = l /\ i # w
    <3> HIDE DEF m, q, w
    <3>1. m(i + 1) = 1 /\ q(i + 1) = q(i) + 1 /\ i + 1 \in 1 .. w
      BY <1>5, <1>6, <2>6
    <3>2. f[i + 1] = f1[m(i + 1)] /\ g[i + 1] = ((n - 1) - q(i + 1)) * k + g1[m(i + 1)]
      BY <1>10, <3>1
    <3> HIDE DEF f, g
    <3>3. f[i + 1] = d /\ g[i + 1] = ((n - 1) - (q(i) + 1)) * k + k
      BY <1>4, <3>1, <3>2
    <3>4. ((n - 1) - (q(i) + 1)) * k + k = ((n - 1) - q(i)) * k
      <4>1. q(i) \in Int
        BY <2>1
      <4>2. CASE k = 0
        BY <4>1, <4>2
      <4>3. CASE k = 1
        BY <4>1, <4>3
      <4>4. CASE k = 2
        BY <4>1, <4>4
      <4>5. QED
        BY <4>2, <4>3, <4>4
    <3>5. g1[m(i)] = Syncs(s[m(i)], f1[m(i)], c) + 0 /\ f1[m(i) + 1] = d
      BY <1>4, <2>3, <2>6
    <3> DEFINE z == ((n - 1) - q(i)) * k
    <3>6. z \in Nat /\ g[i] = z + g1[m(i)] /\ g[i + 1] = z
      BY <2>2, <2>4, <3>3, <3>4
    <3> HIDE DEF z
    <3>7. g[i] = Syncs(s[m(i)], f1[m(i)], c) + g[i + 1]
      BY <2>4, <3>5, <3>6
    <3>8. QED
      BY <2>1, <2>2, <2>3, <3>3, <3>5, <3>7
  <2>7. CASE m(i) = l /\ i = w
    <3>1. q(i) = n - 1
      BY <1>6, <2>7
    <3> HIDE DEF m, q, f, g, w
    <3>2. ((n - 1) - q(i)) * k = 0
      <4>1. (n - 1) - q(i) = 0
        BY <3>1
      <4>2. QED
        BY <4>1
    <3>3. g1[m(i)] = Syncs(s[m(i)], f1[m(i)], c) + 0 /\ f1[m(i) + 1] = d
      BY <1>4, <2>3, <2>7
    <3>4. f[i + 1] = d /\ g[i + 1] = 0
      BY <1>9, <2>7
    <3>5. g[i] = Syncs(s[m(i)], f1[m(i)], c) + g[i + 1]
      BY <2>2, <2>4, <3>2, <3>3, <3>4
    <3>6. QED
      BY <2>1, <2>2, <2>3, <3>3, <3>4, <3>5
  <2>8. QED
    BY <2>5, <2>6, <2>7
<1>13. Traces(t, f, g, d, d, here, logs, c, n * k)
  <2> HIDE DEF f, g, w
  <2>1. QED
    BY <1>3, <1>9, <1>11, <1>12 DEF Traces, t, w
<1>14. f \in [1 .. (Len(t) + 1) -> AllComms] /\ g \in [1 .. (Len(t) + 1) -> Nat]
  BY <1>3, <1>8
<1>15. QED
  <2> HIDE DEF f, g, w
  <2>1. QED
    BY <1>13, <1>14 DEF Leads, t

\* A tuple is its first element in front of the others.
LEMMA TuplesAreCons ==
  ASSUME NEW S, NEW a \in S, NEW b \in S, NEW v \in S
  PROVE  <<a, b>> = <<a>> \o <<b>> /\ <<a, b, v>> = <<a>> \o <<b, v>>
<1>1. <<b>> \in Seq(S) /\ <<b, v>> \in Seq(S) /\ <<a, b>> \in Seq(S) /\ <<a, b, v>> \in Seq(S)
  BY Tuples
<1> DEFINE p == <<a>> \o <<b>>
           q == <<a>> \o <<b, v>>
<1>2. p \in Seq(S) /\ Len(p) = 2 /\ p[1] = a /\ p[2] = b
  <2>1. /\ p \in Seq(S) /\ p[1] = a /\ Len(p) = Len(<<b>>) + 1
        /\ \A i \in 1 .. Len(<<b>>) : p[i + 1] = <<b>>[i]
    BY <1>1, ConsFacts
  <2> HIDE DEF p
  <2>2. Len(<<b>>) = 1 /\ <<b>>[1] = b
    OBVIOUS
  <2>3. p[1 + 1] = b
    BY <2>1, <2>2
  <2>4. QED
    BY <2>1, <2>2, <2>3
<1>3. q \in Seq(S) /\ Len(q) = 3 /\ q[1] = a /\ q[2] = b /\ q[3] = v
  <2>1. /\ q \in Seq(S) /\ q[1] = a /\ Len(q) = Len(<<b, v>>) + 1
        /\ \A i \in 1 .. Len(<<b, v>>) : q[i + 1] = <<b, v>>[i]
    BY <1>1, ConsFacts
  <2> HIDE DEF q
  <2>2. Len(<<b, v>>) = 2 /\ <<b, v>>[1] = b /\ <<b, v>>[2] = v
    OBVIOUS
  <2>3. q[1 + 1] = b /\ q[2 + 1] = v
    BY <2>1, <2>2
  <2>4. QED
    BY <2>1, <2>2, <2>3
<1> HIDE DEF p, q
<1>4. Len(<<a, b>>) = 2 /\ <<a, b>>[1] = a /\ <<a, b>>[2] = b
  OBVIOUS
<1>5. Len(<<a, b, v>>) = 3 /\ <<a, b, v>>[1] = a /\ <<a, b, v>>[2] = b /\ <<a, b, v>>[3] = v
  OBVIOUS
<1>6. p = <<a, b>>
  <2>1. \A i \in 1 .. 2 : p[i] = <<a, b>>[i]
    BY <1>2, <1>4
  <2>2. QED
    BY <1>1, <1>2, <1>4, <2>1, SeqEqual
<1>7. q = <<a, b, v>>
  <2>1. \A i \in 1 .. 3 : q[i] = <<a, b, v>>[i]
    BY <1>3, <1>5
  <2>2. QED
    BY <1>1, <1>3, <1>5, <2>1, SeqEqual
<1>8. QED
  BY <1>6, <1>7 DEF p, q

\* Two operations.
LEMMA LeadsTwo ==
  ASSUME NEW o, NEW p, NEW d \in AllComms, NEW a \in AllComms, NEW b \in AllComms,
         NEW here, NEW logs, NEW c,
         a = After(o, d), b = After(p, a),
         Placed(o, d, here, logs), Placed(p, a, here, logs)
  PROVE  Leads(<<o, p>>, d, b, here, logs, c, Syncs(o, d, c) + Syncs(p, a, c))
<1> DEFINE S == {o, p}
<1>1. Leads(<<p>>, a, b, here, logs, c, Syncs(p, a, c)) /\ Syncs(p, a, c) \in Nat
  BY LeadsOne DEF Syncs
<1>2. o \in S /\ p \in S /\ <<p>> \in Seq(S)
  BY Tuples
<1> HIDE DEF S
<1>3. Leads(<<o>> \o <<p>>, d, b, here, logs, c, Syncs(o, d, c) + Syncs(p, a, c))
  BY <1>1, <1>2, LeadsCons
<1>4. QED
  BY <1>2, <1>3, TuplesAreCons

\* What the operations of the engine do to the communicator and the syncs.
LEMMA WriteEffect ==
  ASSUME NEW node, NEW d, NEW here, NEW logs, NEW c
  PROVE  /\ After(Write(node), d) = d
         /\ Syncs(Write(node), d, c) = 0
         /\ node = "stdout" => Placed(Write(node), d, here, logs)
         /\ node = "log" /\ d = logs => Placed(Write(node), d, here, logs)
         /\ node # "log" /\ d = here => Placed(Write(node), d, here, logs)
BY DEF Write, After, Placed, Syncs

\* A sync is one on the current communicator.
LEMMA SyncEffect ==
  ASSUME NEW d, NEW here, NEW logs, NEW c
  PROVE  /\ After(Sync, d) = d /\ Placed(Sync, d, here, logs)
         /\ Syncs(Sync, d, c) = IF d = c THEN 1 ELSE 0
BY DEF Sync, After, Placed, Syncs

\* The others change neither.
LEMMA OtherEffect ==
  ASSUME NEW o \in {Read, Gather, NameLog, Printed}, NEW d, NEW here, NEW logs, NEW c
  PROVE  After(o, d) = d /\ Placed(o, d, here, logs) /\ Syncs(o, d, c) = 0
BY DEF Read, Gather, NameLog, Printed, After, Placed, Syncs

\* The number of syncs of an action's hooks.
Hooked == IF WithAction THEN 1 ELSE 0

\* The action's hooks sync once, on the communicator they are called on.
LEMMA ActionGroupLeads ==
  ASSUME NEW here \in AllComms, NEW d \in AllComms, NEW logs, NEW c
  PROVE  /\ Leads(ActionGroup(here), d, IF WithAction THEN here ELSE d, here, logs, c,
                  IF c = here THEN Hooked ELSE 0)
         /\ \A S : SetComm(here, TRUE) \in S /\ Write("actionStarted") \in S
                     /\ Write("actionFinished") \in S => ActionGroup(here) \in Seq(S)
<1> DEFINE a == SetComm(here, TRUE)
           b == Write("actionStarted")
           v == Write("actionFinished")
<1>1. /\ After(a, d) = here /\ Placed(a, d, here, logs) /\ Syncs(a, d, c) = IF here = c THEN 1 ELSE 0
      /\ After(b, here) = here /\ Placed(b, here, here, logs) /\ Syncs(b, here, c) = 0
      /\ After(v, here) = here /\ Placed(v, here, here, logs) /\ Syncs(v, here, c) = 0
  <2>1. /\ After(a, d) = here /\ Placed(a, d, here, logs) /\ Syncs(a, d, c) = IF here = c THEN 1 ELSE 0
    BY DEF SetComm, After, Placed, Syncs
  <2>2. /\ After(b, here) = here /\ Placed(b, here, here, logs) /\ Syncs(b, here, c) = 0
    BY WriteEffect
  <2>3. /\ After(v, here) = here /\ Placed(v, here, here, logs) /\ Syncs(v, here, c) = 0
    BY WriteEffect
  <2>4. QED
    BY <2>1, <2>2, <2>3
<1>2. ActionGroup(here) = IF WithAction THEN <<a, b, v>> ELSE << >>
  BY DEF ActionGroup
<1> HIDE DEF a, b, v
<1>3. Leads(<<b, v>>, here, here, here, logs, c, 0 + 0)
  BY <1>1, LeadsTwo
<1>4. Leads(<<a, b, v>>, d, here, here, logs, c, IF here = c THEN 1 ELSE 0)
  <2> DEFINE S == {a, b, v}
  <2>1. a \in S /\ b \in S /\ v \in S /\ <<b, v>> \in Seq(S) /\ <<a, b, v>> = <<a>> \o <<b, v>>
    <3>1. a \in S /\ b \in S /\ v \in S
      OBVIOUS
    <3> HIDE DEF S
    <3>2. QED
      BY <3>1, Tuples, TuplesAreCons
  <2> HIDE DEF S
  <2>2. Leads(<<a>> \o <<b, v>>, d, here, here, logs, c, Syncs(a, d, c) + 0)
    BY <1>1, <1>3, <2>1, LeadsCons, 0 + 0 = 0
  <2>3. Syncs(a, d, c) + 0 = IF here = c THEN 1 ELSE 0
    BY <1>1
  <2>4. QED
    BY <2>1, <2>2, <2>3
<1>5. Leads(<< >>, d, d, here, logs, c, 0)
  BY LeadsEmpty
<1>6. ASSUME NEW S, a \in S, b \in S, v \in S
      PROVE  ActionGroup(here) \in Seq(S)
  BY <1>2, <1>6, Tuples, EmptySeq
<1>7. Leads(ActionGroup(here), d, IF WithAction THEN here ELSE d, here, logs, c,
            IF c = here THEN Hooked ELSE 0)
  <2>1. CASE WithAction
    BY <1>2, <1>4, <2>1 DEF Hooked
  <2>2. CASE ~WithAction
    BY <1>2, <1>5, <2>2 DEF Hooked
  <2>3. QED
    BY <2>1, <2>2
<1>8. QED
  BY <1>6, <1>7 DEF a, b, v

\* Any operation at all.
SomeOp == {SetComm(v, TRUE) : v \in AllComms} \cup {SetComm(v, FALSE) : v \in AllComms} \cup {Write(node) : node \in Nodes}
            \cup {LogOn(v) : v \in AllComms} \cup {Read, Gather, Sync, NameLog, Printed}

\* What operations there are.
LEMMA SomeOpFacts ==
  /\ \A v \in AllComms : SetComm(v, TRUE) \in SomeOp /\ SetComm(v, FALSE) \in SomeOp /\ LogOn(v) \in SomeOp
  /\ \A node \in Nodes : Write(node) \in SomeOp
  /\ {Read, Gather, Sync, NameLog, Printed} \subseteq SomeOp
<1>1. ASSUME NEW v \in AllComms
      PROVE  SetComm(v, TRUE) \in SomeOp /\ SetComm(v, FALSE) \in SomeOp /\ LogOn(v) \in SomeOp
  BY DEF SomeOp
<1>2. ASSUME NEW node \in Nodes
      PROVE  Write(node) \in SomeOp
  BY DEF SomeOp
<1>3. {Read, Gather, Sync, NameLog, Printed} \subseteq SomeOp
  BY DEF SomeOp
<1>4. QED
  BY <1>1, <1>2, <1>3

\* A test stays on the communicator of its point.
LEMMA TestLeads ==
  ASSUME NEW here \in AllComms, NEW logs, NEW c, NEW body \in Seq(SomeOp), NEW k \in Nat,
         Leads(body, here, here, here, logs, c, k)
  PROVE  Test(body) \in Seq(SomeOp) /\ Leads(Test(body), here, here, here, logs, c, k)
<1> DEFINE a == Write("testStarted")
           b == Write("testFinished")
<1>1. /\ After(a, here) = here /\ Placed(a, here, here, logs) /\ Syncs(a, here, c) = 0
      /\ After(b, here) = here /\ Placed(b, here, here, logs) /\ Syncs(b, here, c) = 0
  <2>1. /\ After(a, here) = here /\ Placed(a, here, here, logs) /\ Syncs(a, here, c) = 0
    BY WriteEffect
  <2>2. /\ After(b, here) = here /\ Placed(b, here, here, logs) /\ Syncs(b, here, c) = 0
    BY WriteEffect
  <2>3. QED
    BY <2>1, <2>2
<1>2. a \in SomeOp /\ b \in SomeOp
  BY SomeOpFacts DEF Nodes
<1>3. Test(body) = <<a>> \o body \o <<b>>
  BY DEF Test
<1> HIDE DEF a, b
<1>4. <<a>> \in Seq(SomeOp) /\ <<b>> \in Seq(SomeOp) /\ <<a>> \o body \in Seq(SomeOp)
  BY <1>2, Tuples, ConcatProperties
<1>5. Leads(<<a>> \o body, here, here, here, logs, c, 0 + k)
  BY <1>1, <1>2, LeadsCons
<1>6. Leads(<<b>>, here, here, here, logs, c, 0)
  BY <1>1, LeadsOne
<1>7. 0 + k \in Nat /\ (0 + k) + 0 = k
  OBVIOUS
<1>8. Leads((<<a>> \o body) \o <<b>>, here, here, here, logs, c, (0 + k) + 0)
  <2> DEFINE j == 0 + k
  <2> HIDE DEF j
  <2>1. Leads((<<a>> \o body) \o <<b>>, here, here, here, logs, c, j + 0)
    BY <1>4, <1>5, <1>6, <1>7, LeadsConcat DEF j
  <2>2. QED
    BY <2>1 DEF j
<1>9. QED
  BY <1>3, <1>4, <1>7, <1>8, ConcatProperties

\* A point syncs twice on its communicator.
LEMMA PointGroupLeads ==
  ASSUME NEW here \in AllComms, NEW d \in AllComms, NEW logs, NEW c, NEW tests \in Seq(SomeOp), NEW k \in Nat,
         Leads(tests, here, here, here, logs, c, k)
  PROVE  /\ PointGroup(here, tests) \in Seq(SomeOp)
         /\ Leads(PointGroup(here, tests), d, here, here, logs, c, k + (IF c = here THEN 2 ELSE 0))
<1> DEFINE a == SetComm(here, TRUE)
           b == Write("started")
           v == Write("ended")
           w == IF here = c THEN 1 ELSE 0
<1>1. /\ After(a, d) = here /\ Placed(a, d, here, logs) /\ Syncs(a, d, c) = w
      /\ After(b, here) = here /\ Placed(b, here, here, logs) /\ Syncs(b, here, c) = 0
      /\ After(Sync, here) = here /\ Placed(Sync, here, here, logs) /\ Syncs(Sync, here, c) = w
      /\ After(v, here) = here /\ Placed(v, here, here, logs) /\ Syncs(v, here, c) = 0
  <2>1. /\ After(a, d) = here /\ Placed(a, d, here, logs) /\ Syncs(a, d, c) = w
    BY DEF SetComm, After, Placed, Syncs
  <2>2. /\ After(b, here) = here /\ Placed(b, here, here, logs) /\ Syncs(b, here, c) = 0
    BY WriteEffect
  <2>3. /\ After(Sync, here) = here /\ Placed(Sync, here, here, logs) /\ Syncs(Sync, here, c) = w
    BY SyncEffect
  <2>4. /\ After(v, here) = here /\ Placed(v, here, here, logs) /\ Syncs(v, here, c) = 0
    BY WriteEffect
  <2>5. QED
    BY <2>1, <2>2, <2>3, <2>4
<1>2. a \in SomeOp /\ b \in SomeOp /\ v \in SomeOp /\ Sync \in SomeOp
  BY SomeOpFacts DEF Nodes
<1>3. PointGroup(here, tests) = <<a, b>> \o tests \o <<Sync, v>>
  BY DEF PointGroup
<1> HIDE DEF a, b, v
<1>4. w \in Nat /\ w + 0 = w /\ w + k \in Nat /\ (w + k) + w = k + (IF c = here THEN 2 ELSE 0)
  OBVIOUS
<1> HIDE DEF w
<1>5. <<a, b>> \in Seq(SomeOp) /\ <<Sync, v>> \in Seq(SomeOp) /\ <<a, b>> \o tests \in Seq(SomeOp)
  BY <1>2, Tuples, ConcatProperties
<1>6. Leads(<<a, b>>, d, here, here, logs, c, w)
  BY <1>1, <1>4, LeadsTwo
<1>7. Leads(<<Sync, v>>, here, here, here, logs, c, w)
  BY <1>1, <1>4, LeadsTwo
<1>8. Leads(<<a, b>> \o tests, d, here, here, logs, c, w + k)
  BY <1>4, <1>5, <1>6, LeadsConcat
<1>9. Leads((<<a, b>> \o tests) \o <<Sync, v>>, d, here, here, logs, c, (w + k) + w)
  <2> DEFINE j == w + k
  <2> HIDE DEF j
  <2>1. Leads((<<a, b>> \o tests) \o <<Sync, v>>, d, here, here, logs, c, j + w)
    BY <1>4, <1>5, <1>7, <1>8, LeadsConcat DEF j
  <2>2. QED
    BY <2>1 DEF j
<1>10. QED
  BY <1>3, <1>4, <1>5, <1>9, ConcatProperties

\* How often the ranks of communicator c sync on it in a call.
Total(call, c) ==
  IF call.kind = "finalize"
  THEN IF c = World THEN Hooked + Hooked ELSE 0
  ELSE (IF c = call.comm THEN Hooked + 2 + (call.parents * 2) ELSE 0)
         + (IF c = call.logComm THEN call.logs ELSE 0)

\* The messages of a point's callback.
LEMMA BodyLeads ==
  ASSUME NEW call \in LoopCall, NEW r \in call.comm, NEW c \in Own(r)
  PROVE  /\ Body(call, r) \in Seq(SomeOp)
         /\ Leads(Body(call, r), call.comm, call.comm, call.comm, call.logComm, c,
                  IF c = call.logComm THEN call.logs ELSE 0)
<1> DEFINE here == call.comm
           logs == call.logComm
           a == LogOn(logs)
           pair == <<Read, a>>
           w == IF logs = c THEN 1 ELSE 0
<1>1. here \in AllComms /\ logs \in AllComms /\ call.logs \in Nat
  BY DEF LoopCall
<1>2. CASE r \in logs
  <2>1. Read \in SomeOp /\ a \in SomeOp
    BY <1>1, SomeOpFacts
  <2>2. /\ After(Read, here) = here /\ Placed(Read, here, here, logs) /\ Syncs(Read, here, c) = 0
    BY OtherEffect
  <2>3. /\ After(a, here) = here /\ Placed(a, here, here, logs) /\ Syncs(a, here, c) = w
    BY DEF LogOn, After, Placed, Syncs
  <2>4. Body(call, r) = Times(pair, call.logs)
    BY <1>2 DEF Body
  <2> HIDE DEF a
  <2>5. 0 + w = w /\ w \in {0, 1, 2} /\ call.logs * w = IF c = logs THEN call.logs ELSE 0
    BY <1>1
  <2> HIDE DEF w, here, logs
  <2>6. Leads(pair, here, here, here, logs, c, w)
    BY <1>1, <2>2, <2>3, <2>5, LeadsTwo
  <2>7. pair \in Seq(SomeOp) /\ Len(pair) \in {2, 6} /\ pair # << >>
    BY <2>1, Tuples
  <2> HIDE DEF pair
  <2>8. Leads(Times(pair, call.logs), here, here, here, logs, c, call.logs * w)
    BY <1>1, <2>5, <2>6, <2>7, LeadsTimes
  <2>9. Times(pair, call.logs) \in Seq(SomeOp)
    BY <1>1, <2>7, TimesFacts
  <2>10. Leads(Body(call, r), here, here, here, logs, c, IF c = logs THEN call.logs ELSE 0)
    BY <2>4, <2>5, <2>8
  <2>11. QED
    BY <2>4, <2>9, <2>10 DEF here, logs
<1>3. CASE r \notin logs
  <2>1. Body(call, r) = << >> /\ c # logs
    BY <1>3 DEF Body, Own
  <2>2. QED
    BY <1>1, <2>1, LeadsEmpty, EmptySeq
<1>4. QED
  BY <1>2, <1>3

\* Doing all of a call, its members sync equally often on a communicator they share.
LEMMA OperationsLeads ==
  ASSUME NEW call \in LoopCall, NEW r \in call.comm, NEW c \in Own(r), NEW d \in AllComms
  PROVE  Leads(Operations(call, r), d, call.comm, call.comm, call.logComm, c, Total(call, c))
<1> DEFINE here == call.comm
           logs == call.logComm
           two == IF c = here THEN 2 ELSE 0
           hooks == IF c = here THEN Hooked ELSE 0
           messages == IF c = logs THEN call.logs ELSE 0
           between == IF WithAction THEN here ELSE d
           action == ActionGroup(here)
           tests == Test(Body(call, r)) \o Test(<< >>)
           point == PointGroup(here, tests)
           group == PointGroup(here, Test(<< >>))
           parents == Times(group, call.parents)
<1>1. here \in AllComms /\ logs \in AllComms /\ call.logs \in Nat /\ call.parents \in Nat
  BY DEF LoopCall
<1>2. between \in AllComms /\ two \in {0, 1, 2} /\ two \in Nat /\ hooks \in Nat /\ messages \in Nat
  BY <1>1 DEF Hooked
<1>3. Operations(call, r) = ((<<Read>> \o action) \o point) \o parents
  BY DEF Operations
<1>4. Body(call, r) \in Seq(SomeOp) /\ Leads(Body(call, r), here, here, here, logs, c, messages)
  BY BodyLeads
<1>5. Total(call, c) = ((hooks + (messages + two)) + (call.parents * two))
  BY <1>1 DEF Total, LoopCall, Hooked
<1>6. SetComm(here, TRUE) \in SomeOp /\ Write("actionStarted") \in SomeOp /\ Write("actionFinished") \in SomeOp
      /\ Read \in SomeOp /\ << >> \in Seq(SomeOp)
  BY <1>1, SomeOpFacts, EmptySeq DEF Nodes
<1>7. action \in Seq(SomeOp) /\ Leads(action, d, between, here, logs, c, hooks)
  BY <1>1, <1>6, ActionGroupLeads
<1>8. After(Read, d) = d /\ Placed(Read, d, here, logs) /\ Syncs(Read, d, c) = 0
  BY OtherEffect
<1>9. Leads(<< >>, here, here, here, logs, c, 0)
  BY <1>1, LeadsEmpty
<1> HIDE DEF here, logs, hooks, messages, between, action
<1>10. Test(<< >>) \in Seq(SomeOp) /\ Leads(Test(<< >>), here, here, here, logs, c, 0)
  BY <1>1, <1>6, <1>9, TestLeads
<1>11. Test(Body(call, r)) \in Seq(SomeOp) /\ Leads(Test(Body(call, r)), here, here, here, logs, c, messages)
  BY <1>1, <1>2, <1>4, TestLeads
<1>12. tests \in Seq(SomeOp) /\ Leads(tests, here, here, here, logs, c, messages)
  <2>1. Leads(tests, here, here, here, logs, c, messages + 0)
    BY <1>2, <1>10, <1>11, LeadsConcat
  <2>2. messages + 0 = messages
    BY <1>2
  <2>3. QED
    BY <1>10, <1>11, <2>1, <2>2, ConcatProperties
<1>13. /\ group \in Seq(SomeOp) /\ Leads(group, here, here, here, logs, c, two)
       /\ Len(group) = 6 /\ group # << >>
  <2>1. /\ group \in Seq(SomeOp)
        /\ Leads(group, here, here, here, logs, c, 0 + (IF c = here THEN 2 ELSE 0))
    BY <1>1, <1>10, PointGroupLeads
  <2>2. 0 + (IF c = here THEN 2 ELSE 0) = two
    OBVIOUS
  <2>3. Len(group) = 6 /\ group # << >>
    BY DEF PointGroup, Test
  <2> HIDE DEF group, two
  <2>4. QED
    BY <2>1, <2>2, <2>3
<1> HIDE DEF tests
<1>14. point \in Seq(SomeOp) /\ Leads(point, between, here, here, logs, c, messages + two)
  BY <1>1, <1>2, <1>12, PointGroupLeads
<1> HIDE DEF point, group, two
<1>15. parents \in Seq(SomeOp) /\ Leads(parents, here, here, here, logs, c, call.parents * two)
  <2>1. Leads(parents, here, here, here, logs, c, call.parents * two)
    BY <1>1, <1>2, <1>13, LeadsTimes
  <2>2. QED
    BY <1>1, <1>13, <2>1, TimesFacts
<1> HIDE DEF parents
<1>16. <<Read>> \o action \in Seq(SomeOp) /\ Leads(<<Read>> \o action, d, between, here, logs, c, hooks)
  <2>1. Leads(<<Read>> \o action, d, between, here, logs, c, 0 + hooks)
    BY <1>2, <1>6, <1>7, <1>8, LeadsCons
  <2>2. 0 + hooks = hooks
    BY <1>2
  <2>3. QED
    BY <1>6, <1>7, <2>1, <2>2, ConsFacts
<1>17. messages + two \in Nat /\ hooks + (messages + two) \in Nat /\ call.parents * two \in Nat
  <2>1. CASE two = 0
    BY <1>1, <1>2, <2>1
  <2>2. CASE two = 1
    BY <1>1, <1>2, <2>2
  <2>3. CASE two = 2
    BY <1>1, <1>2, <2>3
  <2>4. QED
    BY <1>2, <2>1, <2>2, <2>3
<1> DEFINE x == messages + two
           y == hooks + x
           z == call.parents * two
           u == (<<Read>> \o action) \o point
<1> HIDE DEF x
<1>18. u \in Seq(SomeOp) /\ Leads(u, d, here, here, logs, c, hooks + x)
  BY <1>2, <1>14, <1>16, <1>17, LeadsConcat, ConcatProperties DEF x
<1> HIDE DEF y, z, u
<1>19. Leads(u \o parents, d, here, here, logs, c, y + z)
  BY <1>15, <1>17, <1>18, LeadsConcat DEF x, y, z
<1>20. QED
  BY <1>3, <1>5, <1>19 DEF x, y, z, u, here, logs

\* The action's hooks when the run starts and ends, on the world's communicator.
LEMMA EdgesLead ==
  ASSUME NEW c, NEW d \in AllComms, NEW logs
  PROVE  /\ \E e \in AllComms : Leads(Startup, d, e, World, logs, c, IF c = World THEN Hooked + Hooked ELSE 0)
         /\ Leads(Shutdown, d, World, World, logs, c, IF c = World THEN Hooked + Hooked ELSE 0)
<1> DEFINE hooks == IF c = World THEN Hooked ELSE 0
           next(e) == IF WithAction THEN World ELSE e
           action == ActionGroup(World)
           total == IF c = World THEN Hooked + Hooked ELSE 0
           set == SetComm(World, FALSE)
           final == Write("final")
           last == <<Read, set, final>>
<1>1. World \in AllComms /\ next(d) \in AllComms /\ next(next(d)) \in AllComms
  BY CommFacts
<1>2. hooks \in Nat /\ hooks + hooks = total /\ hooks + 0 = hooks /\ 0 + hooks = hooks
  BY DEF Hooked
<1>3. /\ SetComm(World, TRUE) \in SomeOp /\ Write("actionStarted") \in SomeOp
      /\ Write("actionFinished") \in SomeOp /\ Read \in SomeOp
      /\ set \in SomeOp /\ final \in SomeOp
  BY <1>1, SomeOpFacts DEF Nodes
<1>4. ASSUME NEW e \in AllComms
      PROVE  action \in Seq(SomeOp) /\ Leads(action, e, next(e), World, logs, c, hooks)
  BY <1>1, <1>3, ActionGroupLeads
<1>5. ASSUME NEW e \in AllComms
      PROVE  Leads(<<Read>>, e, e, World, logs, c, 0)
  <2>1. After(Read, e) = e /\ Placed(Read, e, World, logs) /\ Syncs(Read, e, c) = 0
    BY OtherEffect
  <2>2. QED
    BY <2>1, LeadsOne
<1>6. ASSUME NEW e \in AllComms
      PROVE  Leads(last, e, World, World, logs, c, 0)
  <2>1. After(Read, e) = e /\ Placed(Read, e, World, logs) /\ Syncs(Read, e, c) = 0
    BY OtherEffect
  <2>2. After(set, e) = World /\ Placed(set, e, World, logs) /\ Syncs(set, e, c) = 0
    BY DEF SetComm, After, Placed, Syncs
  <2>3. After(final, World) = World /\ Placed(final, World, World, logs) /\ Syncs(final, World, c) = 0
    BY WriteEffect
  <2> HIDE DEF set, final
  <2>4. Leads(<<set, final>>, e, World, World, logs, c, 0)
    BY <1>1, <2>2, <2>3, LeadsTwo, 0 + 0 = 0
  <2>5. <<set, final>> \in Seq(SomeOp) /\ last = <<Read>> \o <<set, final>>
    BY <1>3, Tuples, TuplesAreCons
  <2> DEFINE t == <<set, final>>
             z == 0
  <2>6. z \in Nat /\ 0 + z = 0
    OBVIOUS
  <2> HIDE DEF t, z
  <2>7. Leads(<<Read>> \o t, e, World, World, logs, c, Syncs(Read, e, c) + z)
    BY <1>3, <2>1, <2>4, <2>5, <2>6, LeadsCons DEF t, z
  <2>8. QED
    BY <2>1, <2>5, <2>6, <2>7 DEF t
<1>7. <<Read>> \in Seq(SomeOp) /\ last \in Seq(SomeOp)
  <2> HIDE DEF set, final
  <2>1. QED
    BY <1>3, Tuples
<1>8. Startup = (action \o <<Read>>) \o action /\ Shutdown = ((<<Read>> \o action) \o action) \o last
  BY DEF Startup, Shutdown
<1> HIDE DEF hooks, next, action, last, total
<1>9. action \in Seq(SomeOp) /\ action \o <<Read>> \in Seq(SomeOp)
      /\ <<Read>> \o action \in Seq(SomeOp) /\ (<<Read>> \o action) \o action \in Seq(SomeOp)
  BY <1>1, <1>4, <1>7, ConcatProperties
<1>10. Leads(Startup, d, next(next(d)), World, logs, c, total)
  <2>1. Leads(action \o <<Read>>, d, next(d), World, logs, c, hooks)
    <3>1. Leads(action \o <<Read>>, d, next(d), World, logs, c, hooks + 0)
      BY <1>1, <1>2, <1>4, <1>5, <1>7, <1>9, LeadsConcat
    <3>2. QED
      BY <1>2, <3>1
  <2>2. Leads((action \o <<Read>>) \o action, d, next(next(d)), World, logs, c, hooks + hooks)
    BY <1>1, <1>2, <1>4, <1>9, <2>1, LeadsConcat
  <2>3. QED
    BY <1>2, <1>8, <2>2
<1>11. Leads(Shutdown, d, World, World, logs, c, total)
  <2>1. Leads(<<Read>> \o action, d, next(d), World, logs, c, hooks)
    <3>1. Leads(<<Read>> \o action, d, next(d), World, logs, c, 0 + hooks)
      BY <1>1, <1>2, <1>4, <1>5, <1>7, <1>9, LeadsConcat
    <3>2. QED
      BY <1>2, <3>1
  <2>2. Leads((<<Read>> \o action) \o action, d, next(next(d)), World, logs, c, hooks + hooks)
    BY <1>1, <1>2, <1>4, <1>9, <2>1, LeadsConcat
  <2>3. total \in Nat /\ total + 0 = total
    BY <1>2
  <2>4. Leads((<<Read>> \o action) \o action, d, next(next(d)), World, logs, c, total)
    BY <1>2, <2>2
  <2>5. Leads(((<<Read>> \o action) \o action) \o last, d, World, World, logs, c, total + 0)
    BY <1>1, <1>6, <1>7, <1>9, <2>3, <2>4, LeadsConcat
  <2>6. QED
    BY <1>8, <2>3, <2>5
<1>12. QED
  BY <1>1, <1>10, <1>11 DEF total

-----------------------------------------------------------------------------
(* Counting syncs.                                                         *)

\* Induction on the places of a sequence, upwards and downwards.
LEMMA Climb ==
  ASSUME NEW n \in Nat, NEW P,
         \/ 1 \in P /\ \A i \in 1 .. n : i \in P => i + 1 \in P
         \/ n + 1 \in P /\ \A i \in 1 .. n : i + 1 \in P => i \in P
  PROVE  \A i \in 1 .. (n + 1) : i \in P
<1> DEFINE bad == {i \in 1 .. (n + 1) : i \notin P}
<1>1. SUFFICES ASSUME bad # {}
               PROVE  FALSE
  OBVIOUS
<1>2. IsFiniteSet(bad)
  BY FS_Interval, FS_Subset, SMTT(30)
<1>3. CASE 1 \in P /\ \A i \in 1 .. n : i \in P => i + 1 \in P
  <2> DEFINE f == [i \in bad |-> -i]
  <2>1. f \in [bad -> Int]
    OBVIOUS
  <2> HIDE DEF f
  <2>2. PICK x \in bad : \A y \in bad : f[y] <= f[x]
    BY <1>1, <1>2, <2>1, Greatest, ZenonT(40)
  <2>3. \A y \in bad : x <= y
    BY <2>2 DEF f
  <2>4. x # 1 /\ x - 1 \in 1 .. n /\ (x - 1) + 1 = x
    BY <1>3
  <2>5. x - 1 \notin P
    BY <1>3, <2>4
  <2>6. x - 1 \in bad
    BY <2>4, <2>5
  <2>7. QED
    BY <2>3, <2>6
<1>4. CASE n + 1 \in P /\ \A i \in 1 .. n : i + 1 \in P => i \in P
  <2> DEFINE f == [i \in bad |-> i]
  <2>1. f \in [bad -> Int]
    OBVIOUS
  <2> HIDE DEF f
  <2>2. PICK x \in bad : \A y \in bad : f[y] <= f[x]
    BY <1>1, <1>2, <2>1, Greatest, ZenonT(40)
  <2>3. \A y \in bad : y <= x
    BY <2>2 DEF f
  <2>4. x # n + 1 /\ x \in 1 .. n
    BY <1>4
  <2>5. x + 1 \notin P
    BY <1>4, <2>4
  <2>6. x + 1 \in bad
    BY <2>4, <2>5
  <2>7. QED
    BY <2>3, <2>6
<1>5. QED
  BY <1>3, <1>4

\* The syncs of the second part of a sequence are among those of the whole.
LEMMA LeadsSuffix ==
  ASSUME NEW S, NEW s \in Seq(S), NEW t \in Seq(S), NEW d, NEW h,
         NEW here, NEW logs, NEW c, NEW k, Leads(s \o t, d, h, here, logs, c, k)
  PROVE  \E e \in AllComms, j \in Nat : k \in Nat /\ j <= k /\ Leads(t, e, h, here, logs, c, j)
<1> DEFINE m == Len(s)
           n == Len(t)
           u == s \o t
<1>1. m \in Nat /\ n \in Nat
  BY LenProperties
<1>2. /\ Len(u) = m + n
      /\ \A i \in 1 .. n : u[m + i] = t[i]
  <2>1. /\ Len(u) = m + n
        /\ \A i \in 1 .. (m + n) : u[i] = IF i <= m THEN s[i] ELSE t[i - m]
    BY ConcatProperties
  <2>2. \A i \in 1 .. n : m + i \in 1 .. (m + n) /\ ~(m + i <= m) /\ (m + i) - m = i
    BY <1>1
  <2> HIDE DEF m, n, u
  <2>3. QED
    BY <2>1, <2>2
<1>3. PICK f \in [1 .. (Len(u) + 1) -> AllComms], g \in [1 .. (Len(u) + 1) -> Nat] :
        Traces(u, f, g, d, h, here, logs, c, k)
  BY DEF Leads
<1> HIDE DEF m, n, u
<1>4. /\ f \in [1 .. (m + n + 1) -> AllComms] /\ g \in [1 .. (m + n + 1) -> Nat]
      /\ f[m + n + 1] = h /\ g[1] = k /\ g[m + n + 1] = 0
      /\ \A i \in 1 .. (m + n) : /\ f[i + 1] = After(u[i], f[i])
                                 /\ g[i] = Syncs(u[i], f[i], c) + g[i + 1]
                                 /\ Placed(u[i], f[i], here, logs)
  <2>1. Len(u) + 1 = m + n + 1
    BY <1>1, <1>2
  <2>2. QED
    BY <1>2, <1>3, <2>1 DEF Traces
<1> DEFINE f2 == [i \in 1 .. (n + 1) |-> f[m + i]]
           g2 == [i \in 1 .. (n + 1) |-> g[m + i]]
<1>5. \A i \in 1 .. (n + 1) : m + i \in 1 .. (m + n + 1)
  BY <1>1
<1>6. f2 \in [1 .. (n + 1) -> AllComms] /\ g2 \in [1 .. (n + 1) -> Nat]
  BY <1>4, <1>5
<1>7. \A i \in 1 .. (n + 1) : f2[i] = f[m + i] /\ g2[i] = g[m + i]
  OBVIOUS
<1> HIDE DEF f2, g2
<1>8. 1 \in 1 .. (n + 1) /\ n + 1 \in 1 .. (n + 1) /\ m + (n + 1) = m + n + 1
  BY <1>1
<1>9. f2[n + 1] = h /\ g2[n + 1] = 0 /\ g2[1] = g[m + 1] /\ f2[1] \in AllComms /\ g2[1] \in Nat
  <2>1. f2[n + 1] = f[m + n + 1] /\ g2[n + 1] = g[m + n + 1]
    BY <1>7, <1>8
  <2>2. f2[1] \in AllComms /\ g2[1] \in Nat /\ g2[1] = g[m + 1]
    BY <1>6, <1>7, <1>8
  <2>3. QED
    BY <1>4, <2>1, <2>2
<1>10. ASSUME NEW i \in 1 .. n
       PROVE  /\ f2[i + 1] = After(t[i], f2[i])
              /\ g2[i] = Syncs(t[i], f2[i], c) + g2[i + 1]
              /\ Placed(t[i], f2[i], here, logs)
  <2>1. i \in 1 .. (n + 1) /\ i + 1 \in 1 .. (n + 1) /\ m + i \in 1 .. (m + n) /\ (m + i) + 1 = m + (i + 1)
    BY <1>1
  <2>2. t[i] = u[m + i] /\ f2[i] = f[m + i] /\ f2[i + 1] = f[(m + i) + 1]
        /\ g2[i] = g[m + i] /\ g2[i + 1] = g[(m + i) + 1]
    BY <1>2, <1>7, <2>1
  <2>3. QED
    BY <1>4, <2>1, <2>2
<1>11. Traces(t, f2, g2, f2[1], h, here, logs, c, g2[1])
  BY <1>9, <1>10 DEF Traces, n
<1>12. Leads(t, f2[1], h, here, logs, c, g2[1])
  BY <1>6, <1>11 DEF Leads, n
<1>13. g[m + 1] <= k /\ k \in Nat
  <2> DEFINE P == {i \in 1 .. (m + n + 1) : g[i] <= k}
  <2>1. 1 \in P /\ k \in Nat
    BY <1>1, <1>4
  <2>2. ASSUME NEW i \in 1 .. (m + n), i \in P
        PROVE  i + 1 \in P
    <3>1. i + 1 \in 1 .. (m + n + 1) /\ i \in 1 .. (m + n + 1)
      BY <1>1
    <3>2. g[i] \in Nat /\ g[i + 1] \in Nat /\ Syncs(u[i], f[i], c) \in Nat
      BY <1>4, <3>1 DEF Syncs
    <3>3. g[i + 1] <= g[i]
      BY <1>4, <3>2
    <3>4. g[i + 1] <= k
      BY <2>1, <2>2, <3>2, <3>3
    <3>5. QED
      BY <3>1, <3>4
  <2>3. m + n \in Nat
    BY <1>1
  <2> HIDE DEF P
  <2>4. \A i \in 1 .. ((m + n) + 1) : i \in P
    BY <2>1, <2>2, <2>3, Climb
  <2>5. m + 1 \in 1 .. ((m + n) + 1)
    BY <1>1
  <2>6. QED
    BY <2>1, <2>4, <2>5 DEF P
<1>14. QED
  BY <1>9, <1>12, <1>13

\* From the same communicator there is one number of syncs.
LEMMA LeadsUnique ==
  ASSUME NEW S, NEW s \in Seq(S), NEW d, NEW e, NEW h,
         NEW here, NEW logs, NEW c, NEW j, NEW k,
         Leads(s, d, e, here, logs, c, j), Leads(s, d, h, here, logs, c, k)
  PROVE  j = k
<1> DEFINE n == Len(s)
<1>1. n \in Nat
  BY LenProperties
<1>2. PICK f1 \in [1 .. (n + 1) -> AllComms], g1 \in [1 .. (n + 1) -> Nat] :
        Traces(s, f1, g1, d, e, here, logs, c, j)
  BY DEF Leads
<1>3. PICK f2 \in [1 .. (n + 1) -> AllComms], g2 \in [1 .. (n + 1) -> Nat] :
        Traces(s, f2, g2, d, h, here, logs, c, k)
  BY DEF Leads
<1>4. /\ f1[1] = d /\ f2[1] = d /\ g1[1] = j /\ g2[1] = k /\ g1[n + 1] = 0 /\ g2[n + 1] = 0
      /\ \A i \in 1 .. n : /\ f1[i + 1] = After(s[i], f1[i]) /\ f2[i + 1] = After(s[i], f2[i])
                           /\ g1[i] = Syncs(s[i], f1[i], c) + g1[i + 1]
                           /\ g2[i] = Syncs(s[i], f2[i], c) + g2[i + 1]
  BY <1>2, <1>3 DEF Traces
<1> HIDE DEF n
<1>5. \A i \in 1 .. (n + 1) : f1[i] = f2[i]
  <2> DEFINE P == {i \in 1 .. (n + 1) : f1[i] = f2[i]}
  <2>1. 1 \in P
    BY <1>1, <1>4
  <2>2. ASSUME NEW i \in 1 .. n, i \in P
        PROVE  i + 1 \in P
    <3>1. i + 1 \in 1 .. (n + 1)
      BY <1>1
    <3>2. QED
      BY <1>4, <2>2, <3>1
  <2> HIDE DEF P
  <2>3. \A i \in 1 .. (n + 1) : i \in P
    BY <1>1, <2>1, <2>2, Climb
  <2>4. QED
    BY <2>3 DEF P
<1>6. \A i \in 1 .. (n + 1) : g1[i] = g2[i]
  <2> DEFINE P == {i \in 1 .. (n + 1) : g1[i] = g2[i]}
  <2>1. n + 1 \in P
    BY <1>1, <1>4
  <2>2. ASSUME NEW i \in 1 .. n, i + 1 \in P
        PROVE  i \in P
    <3>1. i \in 1 .. (n + 1)
      BY <1>1
    <3>2. QED
      BY <1>4, <1>5, <2>2, <3>1
  <2> HIDE DEF P
  <2>3. \A i \in 1 .. (n + 1) : i \in P
    BY <1>1, <2>1, <2>2, Climb
  <2>4. QED
    BY <2>3 DEF P
<1>7. 1 \in 1 .. (n + 1)
  BY <1>1
<1>8. QED
  BY <1>4, <1>6, <1>7

-----------------------------------------------------------------------------
(* The milestones of a list of operations.                                 *)

\* A set of operations that has, with an operation, what its rank does instead of it.
Closed(S) ==
  /\ S \subseteq SomeOp /\ Gather \in S
  /\ \A v \in AllComms :
       /\ SetComm(v, TRUE) \in S => Sync \in S
       /\ Read \in S => SetComm(v, FALSE) \in S
       /\ LogOn(v) \in S => /\ {NameLog, Write("log"), Printed} \subseteq S
                            /\ \A w \in AllComms : SetComm(w, TRUE) \in S /\ SetComm(w, FALSE) \in S
  /\ Read \in S => Write("stdout") \in S

\* On its way through s, from communicator d and with k syncs to come on `here`, a rank
\* has the operation o before it, with only operations of S on the way; or it has begun
\* o, a change to `here`; or it has done it, has s of Q to do and at most n syncs to come.
Passes(s, d, k, here, S, o, rest, n, Q) ==
  \/ \E a \in Seq(S) : s = a \o (<<o>> \o rest)
  \/ /\ o = SetComm(here, TRUE) /\ d = here
     /\ s = <<Gather>> \o (<<Sync>> \o rest) \/ s = <<Sync>> \o rest
  \/ s \in Q /\ k <= n

\* What the rank that does an operation goes on with.
LEMMA StepTodo ==
  ASSUME Typed, NEW r \in Ranks, Step(r)
  PROVE  /\ todo[r] # << >> /\ Head1(r) \in SomeOp /\ Tail(todo[r]) \in Seq(SomeOp)
         /\ todo[r] = <<Head1(r)>> \o Tail(todo[r])
         /\ Head1(r) # Sync /\ Head1(r) # Gather
         /\ \A s \in Ranks \ {r} : todo'[s] = todo[s] /\ comm'[s] = comm[s]
         /\ \A S : Closed(S) /\ Head1(r) \in S => \E p \in Seq(S) : todo'[r] = p \o Tail(todo[r])
         /\ \A v : Head1(r) = SetComm(v, TRUE) =>
              /\ comm'[r] = v
              /\ \/ todo'[r] = <<Gather>> \o (<<Sync>> \o Tail(todo[r]))
                 \/ todo'[r] = <<Sync>> \o Tail(todo[r])
         /\ \A node : Head1(r) = Write(node) => todo'[r] = Tail(todo[r])
<1> DEFINE o == Head1(r)
           t == Tail(todo[r])
           K == known[r]
<1>1. PICK op \in {"setComm", "write", "log", "name", "print", "read"} : Doing(r, op)
  BY DEF Step, DoSetComm, DoWrite, DoLog, DoName, DoPrint, DoRead
<1>2. /\ todo[r] # << >> /\ o \in Ops(r, K) /\ o.op = op /\ K \in SUBSET AllComms
      /\ t \in Seq(Ops(r, K)) /\ todo[r] = <<o>> \o t /\ comm[r] \in AllComms
  BY <1>1, DoingFacts
<1>3. Ops(r, K) \subseteq SomeOp
  BY DEF Ops, SomeOp, Own
<1>4. o \in SomeOp /\ t \in Seq(SomeOp)
  BY <1>2, <1>3, SeqMonotonic
<1>5. o # Sync /\ o # Gather
  BY <1>1, <1>2 DEF Sync, Gather
<1>6. todo \in [Ranks -> Seq(AnyOp)] /\ comm \in [Ranks -> AllComms]
  BY DEF Typed, TypeOK
<1>7. \A S : Closed(S) => << >> \in Seq(S)
  BY EmptySeq
<1>8. << >> \o t = t
  BY <1>4, ConcatEmptySeq
<1> HIDE DEF K, t
<1>9. CASE DoSetComm(r)
  <2> DEFINE a == IF Announces(r, o.comm) THEN <<Gather>> ELSE << >>
             b == IF o.sync THEN <<Sync>> ELSE << >>
  <2>1. /\ o.op = "setComm" /\ comm' = [comm EXCEPT ![r] = o.comm]
        /\ todo' = [todo EXCEPT ![r] = (a \o b) \o t]
    BY <1>1, <1>2, <1>9 DEF DoSetComm, Instead, Doing, Head1, t
  <2>2. o.comm \in Own(r) /\ o.sync \in BOOLEAN /\ o = SetComm(o.comm, o.sync) /\ o.comm \in AllComms
    BY <1>2, <2>1, OpsCases DEF Own
  <2> HIDE DEF o
  <2>3. todo'[r] = (a \o b) \o t /\ comm'[r] = o.comm
        /\ \A s \in Ranks \ {r} : todo'[s] = todo[s] /\ comm'[s] = comm[s]
    BY <1>6, <2>1
  <2>4. ASSUME NEW S, Closed(S), o \in S
        PROVE  \E p \in Seq(S) : todo'[r] = p \o t
    <3>1. Gather \in S /\ (o.sync => Sync \in S)
      BY <2>2, <2>4 DEF Closed
    <3>2. a \in Seq(S) /\ b \in Seq(S)
      BY <3>1, Tuples, EmptySeq
    <3>3. a \o b \in Seq(S)
      BY <3>2, ConcatProperties
    <3>4. QED
      BY <2>3, <3>3
  <2>5. ASSUME NEW v, o = SetComm(v, TRUE)
        PROVE  comm'[r] = v /\ (todo'[r] = <<Gather>> \o (<<Sync>> \o t) \/ todo'[r] = <<Sync>> \o t)
    <3>1. o.comm = v /\ o.sync
      BY <2>5 DEF SetComm
    <3>2. b = <<Sync>> /\ <<Sync>> \in Seq(SomeOp) /\ <<Gather>> \in Seq(SomeOp) /\ << >> \in Seq(SomeOp)
      BY <3>1, Tuples, SomeOpFacts, EmptySeq
    <3>3. CASE a = <<Gather>>
      <4>1. (<<Gather>> \o <<Sync>>) \o t = <<Gather>> \o (<<Sync>> \o t)
        <5> DEFINE x == <<Gather>>
                   y == <<Sync>>
        <5>1. x \in Seq(SomeOp) /\ y \in Seq(SomeOp) /\ t \in Seq(SomeOp)
          BY <1>4, <3>2
        <5> HIDE DEF x, y
        <5>2. (x \o y) \o t = x \o (y \o t)
          BY ONLY <5>1, ConcatAssociative
        <5>3. QED
          BY <5>2 DEF x, y
      <4>2. QED
        BY <2>3, <3>1, <3>2, <3>3, <4>1
    <3>4. CASE a = << >>
      <4>1. << >> \o <<Sync>> = <<Sync>>
        BY <3>2, ConcatEmptySeq
      <4>2. QED
        BY <2>3, <3>1, <3>2, <3>4, <4>1
    <3>5. QED
      BY <3>3, <3>4
  <2>6. \A node : o # Write(node)
    BY <2>1 DEF Write
  <2>7. QED
    BY <1>2, <1>4, <1>5, <2>3, <2>4, <2>5, <2>6 DEF o, t
<1>10. CASE DoLog(r)
  <2> DEFINE p == LogOperations(r, o.comm)
  <2>1. o.op = "log" /\ todo' = [todo EXCEPT ![r] = p \o t] /\ comm' = comm
    BY <1>1, <1>2, <1>10 DEF DoLog, Instead, Doing, Head1, t, engine
  <2>2. o = LogOn(o.comm) /\ o.comm \in AllComms
    <3>1. o.comm \in AllComms
      BY <1>2, <2>1, OpsCases DEF Own
    <3>2. \E v \in Own(r) : o = LogOn(v)
      <4>1. \A v, b : SetComm(v, b).op = "setComm"
        BY DEF SetComm
      <4>2. \A node : Write(node).op = "write"
        BY DEF Write
      <4>3. Read.op = "read" /\ Sync.op = "sync" /\ NameLog.op = "name" /\ Printed.op = "print"
        BY DEF Read, Sync, NameLog, Printed
      <4>4. QED
        BY <1>2, <2>1, <4>1, <4>2, <4>3 DEF Ops
    <3>3. QED
      BY <3>1, <3>2 DEF LogOn
  <2>3. \A v, b : o # SetComm(v, b)
    BY <2>1 DEF SetComm
  <2>4. \A node : o # Write(node)
    BY <2>1 DEF Write
  <2> HIDE DEF o
  <2>5. todo'[r] = p \o t /\ \A s \in Ranks \ {r} : todo'[s] = todo[s] /\ comm'[s] = comm[s]
    BY <1>6, <2>1
  <2>6. ASSUME NEW S, Closed(S), o \in S
        PROVE  \E q \in Seq(S) : todo'[r] = q \o t
    <3> DEFINE x == SetComm(o.comm, TRUE)
               y == SetComm(comm[r], FALSE)
               w == Write("log")
    <3>1. x \in S /\ y \in S /\ w \in S /\ NameLog \in S /\ Printed \in S
      BY <1>2, <2>2, <2>6 DEF Closed
    <3>2. p = <<x, NameLog, w, y, Printed>>
      BY DEF LogOperations
    <3> HIDE DEF x, y, w, p
    <3>3. p \in Seq(S)
      BY <3>1, <3>2
    <3>4. QED
      BY <2>5, <3>3
  <2>7. QED
    BY <1>2, <1>4, <1>5, <2>3, <2>4, <2>5, <2>6 DEF o, t
<1>11. CASE DoRead(r)
  <2> DEFINE x == SetComm({r}, FALSE)
             w == Write("stdout")
  <2>1. /\ o.op = "read" /\ comm' = comm
        /\ todo' = [todo EXCEPT ![r] = (IF output[r] THEN <<x, w>> ELSE << >>) \o t]
    BY <1>1, <1>2, <1>11 DEF DoRead, Instead, Doing, Head1, t, engine
  <2>2. o = Read /\ {r} \in AllComms
    BY <1>2, <2>1, OpsCases DEF AllComms
  <2>3. \A v, b : o # SetComm(v, b)
    BY <2>1 DEF SetComm
  <2>4. \A node : o # Write(node)
    BY <2>1 DEF Write
  <2> HIDE DEF o
  <2>5. todo'[r] = (IF output[r] THEN <<x, w>> ELSE << >>) \o t
        /\ \A s \in Ranks \ {r} : todo'[s] = todo[s] /\ comm'[s] = comm[s]
    BY <1>6, <2>1
  <2>6. ASSUME NEW S, Closed(S), o \in S
        PROVE  \E q \in Seq(S) : todo'[r] = q \o t
    <3>1. x \in S /\ w \in S
      BY <2>2, <2>6 DEF Closed
    <3> HIDE DEF x, w
    <3>2. <<x, w>> \in Seq(S) /\ << >> \in Seq(S)
      BY <3>1, Tuples, EmptySeq
    <3>3. QED
      BY <2>5, <3>2
  <2>7. QED
    BY <1>2, <1>4, <1>5, <2>3, <2>4, <2>5, <2>6 DEF o, t
<1>12. CASE DoWrite(r) \/ DoName(r) \/ DoPrint(r)
  <2>1. /\ Instead(r, << >>) /\ o.op # "setComm" /\ comm' = comm
    BY <1>1, <1>2, <1>12 DEF DoWrite, DoName, DoPrint, Doing, Head1, engine
  <2>2. \A v, b : o # SetComm(v, b)
    BY <2>1 DEF SetComm
  <2>3. todo'[r] = t /\ \A s \in Ranks \ {r} : todo'[s] = todo[s] /\ comm'[s] = comm[s]
    BY <1>6, <1>8, <2>1 DEF Instead, t
  <2> HIDE DEF o
  <2>4. ASSUME NEW S, Closed(S), o \in S
        PROVE  \E q \in Seq(S) : todo'[r] = q \o t
    BY <1>7, <1>8, <2>3, <2>4
  <2>5. QED
    BY <1>2, <1>4, <1>5, <2>2, <2>3, <2>4 DEF o, t
<1>13. QED
  BY <1>9, <1>10, <1>11, <1>12 DEF Step

\* The operation o is the one that makes the last of the syncs before the n of rest.
Milestone(here, logs, S, o, rest, n, Q) ==
  /\ here \in AllComms /\ Closed(S) /\ rest \in Seq(SomeOp) /\ rest \in Q
  /\ \/ o = SetComm(here, TRUE)
     \/ o = Sync /\ \E t \in Seq(SomeOp) : rest = <<Write("ended")>> \o t
  /\ n \in Nat /\ \E h \in AllComms : Leads(rest, here, h, here, logs, here, n)

\* From o on there are n + 1 syncs to come, and it is o, on `here`, that is the first.
LEMMA MilestoneCount ==
  ASSUME NEW here, NEW logs, NEW S, NEW o, NEW rest, NEW n, NEW Q, Milestone(here, logs, S, o, rest, n, Q),
         NEW d, NEW e, NEW k, Leads(<<o>> \o rest, d, e, here, logs, here, k)
  PROVE  k = n + 1 /\ After(o, d) = here
<1>1. /\ rest \in Seq(SomeOp) /\ n \in Nat /\ here \in AllComms
      /\ o = SetComm(here, TRUE) \/ (o = Sync /\ \E t \in Seq(SomeOp) : rest = <<Write("ended")>> \o t)
  BY DEF Milestone
<1>2. o \in SomeOp
  BY <1>1, SomeOpFacts
<1>3. PICK j \in Nat : k = Syncs(o, d, here) + j /\ Leads(rest, After(o, d), e, here, logs, here, j)
  BY <1>1, <1>2, LeadsTail
<1>4. After(o, d) = here /\ Syncs(o, d, here) = 1
  <2>1. CASE o = SetComm(here, TRUE)
    BY <2>1 DEF SetComm, After, Syncs
  <2>2. CASE o = Sync
    <3>1. PICK t \in Seq(SomeOp) : rest = <<Write("ended")>> \o t
      <4>1. Sync # SetComm(here, TRUE)
        <5>1. Sync.op = "sync" /\ SetComm(here, TRUE).op = "setComm"
          BY DEF Sync, SetComm
        <5>2. QED
          BY <5>1
      <4>2. QED
        BY <1>1, <2>2, <4>1
    <3>2. After(o, d) = d
      BY <2>2, SyncEffect
    <3> DEFINE w == Write("ended")
    <3>3. w \in SomeOp /\ w.op = "write" /\ w.node = "ended"
      BY SomeOpFacts DEF Nodes, Write
    <3>4. Leads(<<w>> \o t, d, e, here, logs, here, j)
      BY <1>3, <3>1, <3>2
    <3> HIDE DEF w
    <3>5. Placed(w, d, here, logs)
      BY <3>3, <3>4, LeadsTail
    <3>6. d = here
      BY <3>3, <3>5 DEF Placed
    <3>7. QED
      BY <2>2, <3>2, <3>6, SyncEffect
  <2>3. QED
    BY <1>1, <2>1, <2>2
<1>5. PICK h \in AllComms : Leads(rest, here, h, here, logs, here, n)
  BY DEF Milestone
<1>6. Leads(rest, here, e, here, logs, here, j)
  BY <1>3, <1>4
<1>7. j = n
  BY <1>1, <1>5, <1>6, LeadsUnique
<1>8. QED
  BY <1>1, <1>3, <1>4, <1>7

\* With n syncs to come or less, o has been done.
LEMMA PassesCount ==
  ASSUME NEW here, NEW logs, NEW S, NEW o, NEW rest, NEW n, NEW Q, Milestone(here, logs, S, o, rest, n, Q),
         NEW s, NEW d, NEW e, NEW k \in Nat, Leads(s, d, e, here, logs, here, k),
         Passes(s, d, k, here, S, o, rest, n, Q), k <= n
  PROVE  s \in Q
<1>1. rest \in Seq(SomeOp) /\ n \in Nat /\ Closed(S) /\ S \subseteq SomeOp
  BY DEF Milestone, Closed
<1>2. Gather \in SomeOp /\ Sync \in SomeOp /\ o \in SomeOp
  BY SomeOpFacts DEF Milestone
<1>3. <<o>> \o rest \in Seq(SomeOp) /\ <<Sync>> \o rest \in Seq(SomeOp)
  BY <1>1, <1>2, ConsFacts
<1>4. CASE \E a \in Seq(S) : s = a \o (<<o>> \o rest)
  <2>1. PICK a \in Seq(S) : s = a \o (<<o>> \o rest)
    BY <1>4
  <2> DEFINE t == <<o>> \o rest
  <2>2. a \in Seq(SomeOp) /\ t \in Seq(SomeOp) /\ Leads(a \o t, d, e, here, logs, here, k)
    BY <1>1, <1>3, <2>1, SeqMonotonic
  <2> HIDE DEF t
  <2>3. PICK x \in AllComms, j \in Nat : j <= k /\ Leads(t, x, e, here, logs, here, j)
    BY <2>2, LeadsSuffix
  <2>4. j = n + 1
    BY <2>3, MilestoneCount DEF t
  <2>5. QED
    BY <1>1, <2>3, <2>4
<1>5. CASE o = SetComm(here, TRUE) /\ d = here /\ s = <<Sync>> \o rest
  <2>1. k = n + 1
    <3>1. PICK j \in Nat : k = Syncs(Sync, d, here) + j /\ Leads(rest, After(Sync, d), e, here, logs, here, j)
      BY <1>1, <1>2, <1>5, LeadsTail
    <3>2. Syncs(Sync, d, here) = 1 /\ After(Sync, d) = here
      BY <1>5, SyncEffect
    <3>3. PICK h \in AllComms : Leads(rest, here, h, here, logs, here, n)
      BY DEF Milestone
    <3>4. Leads(rest, here, e, here, logs, here, j)
      BY <3>1, <3>2
    <3>5. j = n
      BY <1>1, <3>3, <3>4, LeadsUnique
    <3>6. QED
      BY <3>1, <3>2, <3>5
  <2>2. QED
    BY <1>1, <2>1
<1>6. CASE o = SetComm(here, TRUE) /\ d = here /\ s = <<Gather>> \o (<<Sync>> \o rest)
  <2> DEFINE t == <<Sync>> \o rest
  <2>1. t \in Seq(SomeOp) /\ Leads(<<Gather>> \o t, d, e, here, logs, here, k)
    BY <1>3, <1>6
  <2> HIDE DEF t
  <2>2. PICK i \in Nat : k = Syncs(Gather, d, here) + i /\ Leads(t, After(Gather, d), e, here, logs, here, i)
    BY <1>2, <2>1, LeadsTail
  <2>3. Syncs(Gather, d, here) = 0 /\ After(Gather, d) = here
    BY <1>6, OtherEffect
  <2>4. k = i /\ Leads(t, here, e, here, logs, here, i)
    BY <2>2, <2>3
  <2>5. PICK j \in Nat : i = Syncs(Sync, here, here) + j /\ Leads(rest, After(Sync, here), e, here, logs, here, j)
    BY <1>1, <1>2, <2>4, LeadsTail DEF t
  <2>6. Syncs(Sync, here, here) = 1 /\ After(Sync, here) = here
    BY SyncEffect
  <2>7. PICK h \in AllComms : Leads(rest, here, h, here, logs, here, n)
    BY DEF Milestone
  <2>8. Leads(rest, here, e, here, logs, here, j)
    BY <2>5, <2>6
  <2>9. j = n
    BY <1>1, <2>7, <2>8, LeadsUnique
  <2>10. QED
    BY <1>1, <2>4, <2>5, <2>6, <2>9
<1>7. CASE s \in Q
  BY <1>7
<1>8. QED
  BY <1>4, <1>5, <1>6, <1>7 DEF Passes

\* A rank's own operation leaves it before or after o, or begins it.
LEMMA PassesStep ==
  ASSUME Typed, NEW r \in Ranks, Step(r),
         NEW here, NEW logs, NEW S, NEW o, NEW rest, NEW n, NEW Q, Milestone(here, logs, S, o, rest, n, Q),
         NEW k, Passes(todo[r], comm[r], k, here, S, o, rest, n, Q),
         todo[r] \in Q => todo'[r] \in Q
  PROVE  Passes(todo'[r], comm'[r], k, here, S, o, rest, n, Q)
<1> DEFINE h == Head1(r)
           t == Tail(todo[r])
<1>1. /\ h \in SomeOp /\ t \in Seq(SomeOp) /\ todo[r] = <<h>> \o t
      /\ h # Sync /\ h # Gather
      /\ \A P : Closed(P) /\ h \in P => \E p \in Seq(P) : todo'[r] = p \o t
      /\ \A v : h = SetComm(v, TRUE) =>
           /\ comm'[r] = v
           /\ \/ todo'[r] = <<Gather>> \o (<<Sync>> \o t)
              \/ todo'[r] = <<Sync>> \o t
  BY StepTodo
<1> HIDE DEF h, t
<1>2. rest \in Seq(SomeOp) /\ Closed(S) /\ S \subseteq SomeOp
  BY DEF Milestone, Closed
<1>3. Gather \in SomeOp /\ Sync \in SomeOp /\ o \in SomeOp
  BY SomeOpFacts DEF Milestone
<1> DEFINE z == <<o>> \o rest
<1>4. z \in Seq(SomeOp) /\ z[1] = o /\ Tail(z) = rest
  BY <1>2, <1>3, ConsFacts
<1>5. /\ \A a \in SomeOp, u \in Seq(SomeOp) : (<<a>> \o u)[1] = a /\ Tail(<<a>> \o u) = u
      /\ todo[r][1] = h /\ Tail(todo[r]) = t
  <2>1. \A a \in SomeOp, u \in Seq(SomeOp) : (<<a>> \o u)[1] = a /\ Tail(<<a>> \o u) = u
    BY ConsFacts
  <2>2. QED
    BY <1>1, <2>1
<1>6. CASE \E a \in Seq(S) : todo[r] = a \o z
  <2>1. PICK a \in Seq(S) : todo[r] = a \o z
    BY <1>6
  <2>2. a \in Seq(SomeOp)
    BY <1>2, SeqMonotonic
  <2>3. CASE a = << >>
    <3>1. todo[r] = z
      BY <1>4, <2>1, <2>3, ConcatEmptySeq
    <3>2. h = o /\ t = rest
      BY <1>4, <1>5, <3>1
    <3>3. o = SetComm(here, TRUE)
      BY <1>1, <3>2 DEF Milestone
    <3>4. comm'[r] = here /\ (todo'[r] = <<Gather>> \o (<<Sync>> \o rest) \/ todo'[r] = <<Sync>> \o rest)
      BY <1>1, <3>2, <3>3
    <3>5. QED
      BY <3>3, <3>4 DEF Passes
  <2>4. CASE a # << >>
    <3>1. a[1] \in S /\ Tail(a) \in Seq(S) /\ a = <<a[1]>> \o Tail(a)
      BY <2>4, HeadTail
    <3> DEFINE x == a[1]
               b == Tail(a)
               y == <<x>>
    <3>2. x \in S /\ b \in Seq(S) /\ a = y \o b /\ x \in SomeOp /\ b \in Seq(SomeOp) /\ y \in Seq(SomeOp)
      BY <1>2, <3>1, SeqMonotonic, Tuples
    <3> HIDE DEF x, b, y, z
    <3>3. todo[r] = y \o (b \o z) /\ b \o z \in Seq(SomeOp)
      <4>1. (y \o b) \o z = y \o (b \o z)
        <5>1. y \in Seq(SomeOp) /\ b \in Seq(SomeOp) /\ z \in Seq(SomeOp)
          BY <1>4, <3>2
        <5>2. QED
          BY ONLY <5>1, ConcatAssociative
      <4>2. b \o z \in Seq(SomeOp)
        BY <1>4, <3>2, ConcatProperties
      <4>3. QED
        BY <2>1, <3>2, <4>1, <4>2
    <3>4. h = x /\ t = b \o z
      <4> DEFINE u == b \o z
      <4> HIDE DEF u
      <4>1. u \in Seq(SomeOp) /\ todo[r] = <<x>> \o u
        BY <3>3 DEF u, y
      <4>2. (<<x>> \o u)[1] = x /\ Tail(<<x>> \o u) = u
        BY <1>5, <3>2, <4>1
      <4>3. QED
        BY <1>5, <4>1, <4>2 DEF u
    <3>5. PICK p \in Seq(S) : todo'[r] = p \o t
      BY <1>1, <1>2, <3>2, <3>4
    <3>6. p \o b \in Seq(S) /\ p \in Seq(SomeOp)
      BY <1>2, <3>2, <3>5, ConcatProperties, SeqMonotonic
    <3>7. todo'[r] = (p \o b) \o z
      <4>1. p \in Seq(SomeOp) /\ b \in Seq(SomeOp) /\ z \in Seq(SomeOp)
        BY <1>4, <3>2, <3>6
      <4>2. (p \o b) \o z = p \o (b \o z)
        BY ONLY <4>1, ConcatAssociative
      <4>3. QED
        BY <3>4, <3>5, <4>2
    <3>8. QED
      BY <3>6, <3>7 DEF Passes, z
  <2>5. QED
    BY <2>3, <2>4
<1>7. CASE todo[r] = <<Gather>> \o (<<Sync>> \o rest) \/ todo[r] = <<Sync>> \o rest
  <2>1. <<Sync>> \o rest \in Seq(SomeOp)
    BY <1>2, <1>3, ConsFacts
  <2>2. h = Gather \/ h = Sync
    BY <1>1, <1>2, <1>3, <1>5, <1>7, <2>1
  <2>3. QED
    BY <1>1, <2>2
<1>8. CASE todo[r] \in Q /\ k <= n
  BY <1>8 DEF Passes
<1>9. QED
  BY <1>6, <1>7, <1>8 DEF Passes, z
===============================================================================
