----------------------------- MODULE StartUpProofs -----------------------------
(***************************************************************************)
(* Proofs about StartUp for every number of ranks, every list of messages  *)
(* and every number of directories and questions: what each step does to   *)
(* what a rank has to do (`todo`), and that the ranks agree on the         *)
(* directory and on the answers they get.                                  *)
(*                                                                         *)
(* A step replaces the first operation of a rank by at most five others,   *)
(* so nearly all that is to be known of `todo` is said of pairs of its     *)
(* elements: what may come before what (InTurn), and what is in hand when  *)
(* a message is being delivered (Handling).  The last two sections prepare *)
(* StartUpOrder: the places of a message and the streams.                  *)
(***************************************************************************)
EXTENDS StartUp, PointStreamTypes

\* The nodes that the start writes itself.
WrittenNodes == {"packageOptionsStarted", "packageOptionsFinished", "info", "fetch", "fetchSuccess"}

\* What a rank may have to do, but for the operations of the logger ...
ProgramOps ==
  {"setLog", "ready", "look", "castDir", "barrier", "makeDir", "nodeMap", "ask", "poll", "castAnswer",
   "say", "setComm", "gather", "sync", "write"}

\* ... and all it may have to do.
AnyStep ==
  {Op(name) : name \in {"start", "setLog", "ready", "castDir", "barrier", "makeDir", "nodeMap", "ask", "poll",
                        "castAnswer", "flush", "pop", "writeLog", "line"}}
    \cup {Say(n) : n \in Nat} \cup {Deliver(n) : n \in Nat}
    \cup {[op |-> "look", warning |-> n] : n \in Nat}
    \cup {SetComm(c, sync) : c \in AllComms \cup {{}}, sync \in BOOLEAN}
    \cup {Write(node) : node \in WrittenNodes} \cup {Gather, Sync, NameLog}

\* t is s with `first` instead of its first operation.
Replaces(s, first, t) ==
  /\ Len(s) > 0 /\ Len(t) = Len(first) + Len(s) - 1
  /\ \A i \in 1 .. Len(first) : t[i] = first[i]
  /\ \A i \in 2 .. Len(s) : t[Len(first) + i - 1] = s[i]
  /\ \A i \in Len(first) + 1 .. Len(t) : i + 1 - Len(first) \in 2 .. Len(s) /\ t[i] = s[i + 1 - Len(first)]

-----------------------------------------------------------------------------
(* Operations and what is left of them.                                    *)

\* The operations are ones a rank may have to do.
LEMMA StepFacts ==
  /\ \A name \in {"start", "setLog", "ready", "castDir", "barrier", "makeDir", "nodeMap", "ask", "poll",
                  "castAnswer", "flush", "pop", "writeLog", "line"} : Op(name) \in AnyStep
  /\ \A n \in Nat : Say(n) \in AnyStep /\ Deliver(n) \in AnyStep /\ [op |-> "look", warning |-> n] \in AnyStep
  /\ \A c \in AllComms \cup {{}}, sync \in BOOLEAN : SetComm(c, sync) \in AnyStep
  /\ \A node \in WrittenNodes : Write(node) \in AnyStep
  /\ {Gather, Sync, NameLog} \subseteq AnyStep
BY DEF AnyStep

\* What a rank may have to do is one of the operations, and its name says which.
LEMMA StepCases ==
  ASSUME NEW o \in AnyStep
  PROVE  /\ \/ o.op \in {"say", "deliver", "look", "setComm", "write", "gather", "sync", "name"}
            \/ /\ o = Op(o.op)
               /\ o.op \in {"start", "setLog", "ready", "castDir", "barrier", "makeDir", "nodeMap", "ask", "poll",
                            "castAnswer", "flush", "pop", "writeLog", "line"}
         /\ o.op = "say" => o.msg \in Nat /\ o = Say(o.msg)
         /\ o.op = "deliver" => o.msg \in Nat /\ o = Deliver(o.msg)
         /\ o.op = "look" => o.warning \in Nat /\ o = [op |-> "look", warning |-> o.warning]
         /\ o.op = "setComm" => o.comm \in AllComms \cup {{}} /\ o.sync \in BOOLEAN /\ o = SetComm(o.comm, o.sync)
         /\ o.op = "write" => o.node \in WrittenNodes
         /\ o.op = "gather" => o = Gather
         /\ o.op = "sync" => o = Sync
         /\ o.op = "name" => o = NameLog
<1>1. CASE \E name \in {"start", "setLog", "ready", "castDir", "barrier", "makeDir", "nodeMap", "ask", "poll",
                        "castAnswer", "flush", "pop", "writeLog", "line"} : o = Op(name)
  BY <1>1 DEF Op
<1>2. CASE \E n \in Nat : o = Say(n)
  BY <1>2 DEF Say
<1>3. CASE \E n \in Nat : o = Deliver(n)
  BY <1>3 DEF Deliver
<1>4. CASE \E n \in Nat : o = [op |-> "look", warning |-> n]
  BY <1>4
<1>5. CASE \E c \in AllComms \cup {{}}, sync \in BOOLEAN : o = SetComm(c, sync)
  BY <1>5 DEF SetComm
<1>6. CASE \E node \in WrittenNodes : o = Write(node)
  BY <1>6 DEF Write
<1>7. CASE o \in {Gather, Sync, NameLog}
  BY <1>7 DEF Gather, Sync, NameLog
<1>8. QED
  BY <1>1, <1>2, <1>3, <1>4, <1>5, <1>6, <1>7 DEF AnyStep

\* Operations in front of what is left.
LEMMA ReplacesFacts ==
  ASSUME NEW S, NEW s \in Seq(S), s # << >>, NEW first \in Seq(S)
  PROVE  first \o Tail(s) \in Seq(S) /\ Replaces(s, first, first \o Tail(s))
<1> DEFINE t == first \o Tail(s)
<1>1. Len(s) \in Nat /\ Len(s) > 0 /\ Len(first) \in Nat
  BY EmptySeq, LenProperties
<1>2. /\ Tail(s) \in Seq(S) /\ Len(Tail(s)) = Len(s) - 1
      /\ \A i \in 1 .. Len(Tail(s)) : Tail(s)[i] = s[i + 1]
  BY HeadTailProperties
<1>3. /\ t \in Seq(S) /\ Len(t) = Len(first) + Len(Tail(s))
      /\ \A i \in 1 .. (Len(first) + Len(Tail(s))) : t[i] =
           IF i <= Len(first) THEN first[i] ELSE Tail(s)[i - Len(first)]
  BY <1>2, ConcatProperties
<1> HIDE DEF t
<1>4. \A i \in 2 .. Len(s) : t[Len(first) + i - 1] = s[i]
  <2> TAKE i \in 2 .. Len(s)
  <2>1. /\ Len(first) + i - 1 \in 1 .. (Len(first) + Len(Tail(s)))
        /\ ~(Len(first) + i - 1 <= Len(first))
        /\ (Len(first) + i - 1) - Len(first) = i - 1
        /\ i - 1 \in 1 .. Len(Tail(s)) /\ i - 1 + 1 = i
    BY <1>1, <1>2
  <2>2. t[Len(first) + i - 1] = Tail(s)[(Len(first) + i - 1) - Len(first)]
    BY <1>3, <2>1
  <2>3. QED
    BY <1>2, <2>1, <2>2
<1>5. \A i \in Len(first) + 1 .. Len(t) : i + 1 - Len(first) \in 2 .. Len(s) /\ t[i] = s[i + 1 - Len(first)]
  <2> TAKE i \in Len(first) + 1 .. Len(t)
  <2>1. /\ i \in 1 .. (Len(first) + Len(Tail(s))) /\ ~(i <= Len(first))
        /\ i - Len(first) \in 1 .. Len(Tail(s)) /\ (i - Len(first)) + 1 = i + 1 - Len(first)
        /\ i + 1 - Len(first) \in 2 .. Len(s)
    BY <1>1, <1>2, <1>3
  <2>2. t[i] = Tail(s)[i - Len(first)]
    BY <1>3, <2>1
  <2>3. QED
    BY <1>2, <2>1, <2>2
<1>6. QED
  BY <1>1, <1>2, <1>3, <1>4, <1>5 DEF Replaces, t

\* The i-th of a finite set of numbers.
LEMMA IthFacts ==
  ASSUME NEW ns \in SUBSET Nat, IsFiniteSet(ns)
  PROVE  /\ Cardinality(ns) \in Nat
         /\ \A i \in 1 .. Cardinality(ns) : Ith(ns, i) \in ns
         /\ \A i, k \in 1 .. Cardinality(ns) : i < k => Ith(ns, i) < Ith(ns, k)
         /\ \A n \in ns : \E i \in 1 .. Cardinality(ns) : Ith(ns, i) = n
<1> DEFINE upTo(n) == {k \in ns : k <= n}
           place(n) == Cardinality(upTo(n))
<1>1. Cardinality(ns) \in Nat
  BY FS_CardinalityType
<1>2. \A n \in ns : upTo(n) \subseteq ns /\ n \in upTo(n) /\ IsFiniteSet(upTo(n)) /\ place(n) \in 1 .. Cardinality(ns)
  <2> TAKE n \in ns
  <2>1. upTo(n) \subseteq ns /\ n \in upTo(n)
    OBVIOUS
  <2>2. IsFiniteSet(upTo(n)) /\ place(n) <= Cardinality(ns)
    BY <2>1, FS_Subset
  <2>3. place(n) \in Nat /\ place(n) # 0
    BY <2>1, <2>2, FS_CardinalityType, FS_EmptySet
  <2> HIDE DEF place, upTo
  <2>4. QED
    BY <1>1, <2>1, <2>2, <2>3
<1>3. ASSUME NEW n \in ns, NEW p \in ns, n < p
      PROVE  place(n) < place(p)
  <2>1. upTo(n) \subseteq upTo(p) /\ p \notin upTo(n) /\ p \in upTo(p)
    <3>1. n \in Nat /\ p \in Nat /\ \A k \in ns : k \in Nat
      OBVIOUS
    <3>2. \A k \in ns : k <= n => k <= p
      BY <1>3, <3>1
    <3>3. ~(p <= n) /\ p <= p
      BY <1>3, <3>1
    <3>4. QED
      BY <3>2, <3>3
  <2>2. upTo(n) # upTo(p) /\ IsFiniteSet(upTo(p))
    BY <1>2, <2>1
  <2> HIDE DEF upTo
  <2>3. QED
    BY <2>1, <2>2, FS_Subset, <1>2, FS_CardinalityType
<1>4. ASSUME NEW n \in ns, NEW p \in ns, place(n) = place(p)
      PROVE  n = p
  BY <1>2, <1>3, <1>4
<1>5. ASSUME NEW i \in 1 .. Cardinality(ns)
      PROVE  \E n \in ns : place(n) = i
  <2> DEFINE f == [n \in ns |-> place(n)]
             T == 1 .. Cardinality(ns)
  <2>1. IsFiniteSet(T) /\ Cardinality(T) = Cardinality(ns)
    BY <1>1, FS_Interval
  <2>2. f \in [ns -> T] /\ \A n, p \in ns : f[n] = f[p] => n = p
    BY <1>2, <1>4
  <2> HIDE DEF f, T
  <2>3. f \in Injection(ns, T)
    BY <2>2 DEF Injection, IsInjective
  <2>4. f \in Surjection(ns, T)
    BY <2>1, <2>3, FS_Injection
  <2>5. \E n \in ns : f[n] = i
    BY <2>4 DEF Surjection, T
  <2>6. QED
    BY <2>5 DEF f
<1>6. \A i \in 1 .. Cardinality(ns) : Ith(ns, i) \in ns /\ place(Ith(ns, i)) = i
  BY <1>5 DEF Ith
<1> HIDE DEF place, upTo
<1>7. \A i, k \in 1 .. Cardinality(ns) : i < k => Ith(ns, i) < Ith(ns, k)
  <2> SUFFICES ASSUME NEW i \in 1 .. Cardinality(ns), NEW k \in 1 .. Cardinality(ns), i < k
               PROVE  Ith(ns, i) < Ith(ns, k)
    OBVIOUS
  <2> DEFINE n == Ith(ns, i)
             p == Ith(ns, k)
  <2>1. n \in ns /\ p \in ns /\ place(n) = i /\ place(p) = k
    BY <1>6
  <2> HIDE DEF n, p
  <2>2. ~(p < n) /\ n # p
    BY <1>1, <1>3, <2>1
  <2>3. n < p
    BY <2>1, <2>2
  <2>4. QED
    BY <2>3 DEF n, p
<1>8. \A n \in ns : \E i \in 1 .. Cardinality(ns) : Ith(ns, i) = n
  BY <1>2, <1>4, <1>6
<1>9. QED
  BY <1>1, <1>6, <1>7, <1>8

\* The messages of a rank, in their order and all of them.
Spoken(s, r, first, last, messages) ==
  /\ s \in Seq(AnyStep)
  /\ \A i \in 1 .. Len(s) : /\ s[i].op = "say" /\ s[i].msg \in first .. last /\ s[i] = Say(s[i].msg)
                            /\ r \in messages[s[i].msg].comm
  /\ \A i, k \in 1 .. Len(s) : i < k => s[i].msg < s[k].msg
  /\ \A n \in first .. last : r \in messages[n].comm => \E i \in 1 .. Len(s) : s[i] = Say(n)

\* What a rank says of a part of the messages.
LEMMA SaysFacts ==
  ASSUME NEW r, NEW first \in Nat, NEW last \in Nat, NEW messages
  PROVE  Spoken(Says(r, first, last, messages), r, first, last, messages)
<1> DEFINE mine == {n \in first .. last : r \in messages[n].comm}
           s == Says(r, first, last, messages)
           size == Cardinality(mine)
<1>1. mine \in SUBSET Nat /\ IsFiniteSet(mine)
  <2>1. IsFiniteSet(first .. last) /\ mine \subseteq first .. last /\ first .. last \subseteq Nat
    BY FS_Interval
  <2>2. QED
    BY <2>1, FS_Subset
<1>2. s = [i \in 1 .. size |-> Say(Ith(mine, i))]
  BY DEF Says
<1>3. \A n \in mine : n \in first .. last /\ n \in Nat /\ r \in messages[n].comm
  OBVIOUS
<1>4. \A n \in first .. last : r \in messages[n].comm => n \in mine
  OBVIOUS
<1> HIDE DEF mine
<1>5. /\ size \in Nat
      /\ \A i \in 1 .. size : Ith(mine, i) \in mine
      /\ \A i, k \in 1 .. size : i < k => Ith(mine, i) < Ith(mine, k)
      /\ \A n \in mine : \E i \in 1 .. size : Ith(mine, i) = n
  BY <1>1, IthFacts
<1> HIDE DEF s, size
<1>6. \A i \in 1 .. size : Say(Ith(mine, i)) \in AnyStep
  BY <1>3, <1>5, StepFacts
<1>7. s \in Seq(AnyStep) /\ Len(s) = size
  BY <1>2, <1>5, <1>6
<1>8. \A i \in 1 .. size : s[i] = Say(Ith(mine, i)) /\ s[i].op = "say" /\ s[i].msg = Ith(mine, i)
  BY <1>2 DEF Say
<1>9. QED
  BY <1>3, <1>4, <1>5, <1>7, <1>8 DEF s, Spoken

\* The questions.
LEMMA FetchFacts ==
  ASSUME NEW n \in Nat
  PROVE  LET s == Times(Fetch, n)
         IN  s \in Seq(AnyStep) /\ \A i \in 1 .. Len(s) : s[i].op \in {"ask", "poll", "castAnswer"}
<1> DEFINE f == Fetch
<1>1. f \in Seq(AnyStep) /\ f # << >> /\ Len(f) = 3
  BY StepFacts DEF Fetch
<1>2. \A i \in 1 .. 3 : f[i].op \in {"ask", "poll", "castAnswer"}
  BY DEF Fetch, Op
<1> HIDE DEF f
<1>3. /\ Times(f, n) \in Seq(AnyStep)
      /\ Len(Times(f, n)) = n * Len(f)
      /\ \A i \in 1 .. (n * Len(f)) : Times(f, n)[i] = f[((i - 1) % Len(f)) + 1]
  BY <1>1, TimesFacts
<1>4. \A i \in 1 .. (n * Len(f)) : ((i - 1) % Len(f)) + 1 \in 1 .. 3
  BY <1>1
<1>5. QED
  BY <1>1, <1>2, <1>3, <1>4 DEF f

\* The operations p of rank r, when a messages are its own before loadRunInfo, of the
\* e there are, and the questions end with operation k.
Program(p, r, messages, e, a, k) ==
  /\ a \in Nat /\ k \in Nat /\ a + 10 <= k /\ k + 4 <= Len(p)
  /\ \A i \in 1 .. a : /\ p[i].op = "say" /\ p[i].msg \in 1 .. e /\ p[i] = Say(p[i].msg)
                       /\ r \in messages[p[i].msg].comm
  /\ \A i, j \in 1 .. a : i < j => p[i].msg < p[j].msg
  /\ \A n \in 1 .. e : r \in messages[n].comm => \E i \in 1 .. a : p[i] = Say(n)
  /\ p[a + 1] = Op("setLog") /\ p[a + 2] = Say(e + 1)
  /\ p[a + 3] = [op |-> "look", warning |-> e + 2] /\ p[a + 4] = Op("barrier") /\ p[a + 5] = Op("makeDir")
  /\ p[a + 6] = SetComm(World, FALSE) /\ p[a + 7] = Op("ready") /\ p[a + 8] = Say(e + 3)
  /\ p[a + 9] = SetComm(World, TRUE) /\ p[a + 10] = Write("packageOptionsStarted")
  /\ \A i \in a + 11 .. k : p[i].op \in {"ask", "poll", "castAnswer"}
  /\ p[k + 1] = Write("packageOptionsFinished") /\ p[k + 2] = SetComm(World, FALSE)
  /\ p[k + 3] = Op("nodeMap") /\ p[k + 4] = Write("info")
  /\ \A i \in k + 5 .. Len(p) : /\ p[i].op = "say" /\ p[i].msg \in e + 4 .. Len(messages)
                                /\ p[i] = Say(p[i].msg) /\ r \in messages[p[i].msg].comm
  /\ \A i, j \in k + 5 .. Len(p) : i < j => p[i].msg < p[j].msg
  /\ \A n \in e + 4 .. Len(messages) : r \in messages[n].comm => \E i \in k + 5 .. Len(p) : p[i] = Say(n)

\* u is t placed behind s.
Joined(s, t, u) ==
  /\ u \in Seq(AnyStep) /\ Len(s) \in Nat /\ Len(t) \in Nat /\ Len(u) = Len(s) + Len(t)
  /\ \A i \in 1 .. Len(s) : u[i] = s[i]
  /\ \A i \in 1 .. Len(t) : u[Len(s) + i] = t[i]

\* One list of operations behind another.
LEMMA Behind ==
  ASSUME NEW s \in Seq(AnyStep), NEW t \in Seq(AnyStep)
  PROVE  Joined(s, t, s \o t)
<1>1. Len(s) \in Nat /\ Len(t) \in Nat
  BY LenProperties
<1>2. /\ s \o t \in Seq(AnyStep) /\ Len(s \o t) = Len(s) + Len(t)
      /\ \A i \in 1 .. (Len(s) + Len(t)) : (s \o t)[i] = IF i <= Len(s) THEN s[i] ELSE t[i - Len(s)]
  BY ConcatProperties
<1>3. \A i \in 1 .. Len(t) : Len(s) + i \in 1 .. (Len(s) + Len(t)) /\ ~(Len(s) + i <= Len(s)) /\ (Len(s) + i) - Len(s) = i
  BY <1>1
<1>4. \A i \in 1 .. Len(t) : (s \o t)[Len(s) + i] = t[i]
  BY <1>2, <1>3
<1>5. \A i \in 1 .. Len(s) : (s \o t)[i] = s[i]
  BY <1>1, <1>2
<1>6. QED
  BY <1>1, <1>2, <1>4, <1>5 DEF Joined

\* Short sequences.
LEMMA TupleFacts ==
  ASSUME NEW S
  PROVE  /\ \A a \in S : <<a>> \in Seq(S) /\ Len(<<a>>) = 1 /\ <<a>>[1] = a
         /\ \A a, b \in S : <<a, b>> \in Seq(S) /\ Len(<<a, b>>) = 2 /\ <<a, b>>[1] = a /\ <<a, b>>[2] = b
         /\ \A a, b, c \in S : /\ <<a, b, c>> \in Seq(S) /\ Len(<<a, b, c>>) = 3
                               /\ <<a, b, c>>[1] = a /\ <<a, b, c>>[2] = b /\ <<a, b, c>>[3] = c
         /\ \A a, b, c, d \in S : /\ <<a, b, c, d>> \in Seq(S) /\ Len(<<a, b, c, d>>) = 4
                                  /\ <<a, b, c, d>>[1] = a /\ <<a, b, c, d>>[2] = b
                                  /\ <<a, b, c, d>>[3] = c /\ <<a, b, c, d>>[4] = d
         /\ \A a, b, c, d, e \in S : /\ <<a, b, c, d, e>> \in Seq(S) /\ Len(<<a, b, c, d, e>>) = 5
                                     /\ <<a, b, c, d, e>>[1] = a /\ <<a, b, c, d, e>>[2] = b
                                     /\ <<a, b, c, d, e>>[3] = c /\ <<a, b, c, d, e>>[4] = d
                                     /\ <<a, b, c, d, e>>[5] = e
OBVIOUS

\* A rank's program, from Init to the end of loadRunInfo.
LEMMA ProgramFacts ==
  ASSUME NEW r, NEW e \in Nat, NEW messages, Len(messages) \in Nat, e + 3 <= Len(messages), NEW q \in Nat
  PROVE  LET p == LoadRunInfo(r, e, messages, q)
         IN  p \in Seq(AnyStep) /\ \E a, k \in Nat : Program(p, r, messages, e, a, k)
<1> DEFINE early == Says(r, 1, e, messages)
           late == Says(r, e + 4, Len(messages), messages)
           asks == Times(Fetch, q)
           x1 == <<Op("setLog"), Say(e + 1)>>
           x2 == <<[op |-> "look", warning |-> e + 2], Op("barrier"), Op("makeDir")>>
           x3 == <<SetComm(World, FALSE), Op("ready"), Say(e + 3)>>
           x4 == <<SetComm(World, TRUE), Write("packageOptionsStarted")>>
           x5 == <<Write("packageOptionsFinished"), SetComm(World, FALSE), Op("nodeMap"), Write("info")>>
           t1 == early \o x1
           t2 == t1 \o x2
           t3 == t2 \o x3
           t4 == t3 \o x4
           t5 == t4 \o asks
           t6 == t5 \o x5
           p == t6 \o late
<1>0. /\ e + 1 \in Nat /\ e + 2 \in Nat /\ e + 3 \in Nat /\ e + 4 \in Nat /\ 1 \in Nat /\ World \in AllComms
      /\ TRUE \in BOOLEAN /\ FALSE \in BOOLEAN
  BY CommFacts
<1>a. Op("setLog") \in AnyStep /\ Op("barrier") \in AnyStep /\ Op("makeDir") \in AnyStep /\ Op("ready") \in AnyStep
      /\ Op("nodeMap") \in AnyStep
  BY StepFacts
<1>b. Say(e + 1) \in AnyStep /\ Say(e + 3) \in AnyStep /\ [op |-> "look", warning |-> e + 2] \in AnyStep
  BY StepFacts, <1>0
<1>c. SetComm(World, FALSE) \in AnyStep /\ SetComm(World, TRUE) \in AnyStep
  BY StepFacts, <1>0
<1>d. Write("packageOptionsStarted") \in AnyStep /\ Write("packageOptionsFinished") \in AnyStep /\ Write("info") \in AnyStep
  BY StepFacts DEF WrittenNodes
<1>1. /\ x1 \in Seq(AnyStep) /\ Len(x1) = 2 /\ x1[1] = Op("setLog") /\ x1[2] = Say(e + 1)
      /\ x2 \in Seq(AnyStep) /\ Len(x2) = 3 /\ x2[1] = [op |-> "look", warning |-> e + 2]
      /\ x2[2] = Op("barrier") /\ x2[3] = Op("makeDir")
  BY <1>a, <1>b, TupleFacts
<1>2. x3 \in Seq(AnyStep) /\ Len(x3) = 3 /\ x3[1] = SetComm(World, FALSE) /\ x3[2] = Op("ready") /\ x3[3] = Say(e + 3)
  <2>1. Op("ready") \in AnyStep /\ Say(e + 3) \in AnyStep /\ SetComm(World, FALSE) \in AnyStep
    BY <1>a, <1>b, <1>c
  <2> DEFINE o == SetComm(World, FALSE)
             o2 == Say(e + 3)
  <2>2. o \in AnyStep /\ o2 \in AnyStep
    BY <2>1
  <2> HIDE DEF o, o2
  <2>3. /\ <<o, Op("ready"), o2>> \in Seq(AnyStep) /\ Len(<<o, Op("ready"), o2>>) = 3
        /\ <<o, Op("ready"), o2>>[1] = o /\ <<o, Op("ready"), o2>>[2] = Op("ready") /\ <<o, Op("ready"), o2>>[3] = o2
    BY <2>1, <2>2, TupleFacts
  <2>4. QED
    BY <2>3 DEF o, o2
<1>8. x4 \in Seq(AnyStep) /\ Len(x4) = 2 /\ x4[1] = SetComm(World, TRUE) /\ x4[2] = Write("packageOptionsStarted")
  BY <1>c, <1>d, TupleFacts
<1>3. /\ x5 \in Seq(AnyStep) /\ Len(x5) = 4
      /\ x5[1] = Write("packageOptionsFinished") /\ x5[2] = SetComm(World, FALSE)
      /\ x5[3] = Op("nodeMap") /\ x5[4] = Write("info")
  BY <1>a, <1>c, <1>d, TupleFacts
<1>4. Spoken(early, r, 1, e, messages)
  BY SaysFacts, <1>0
<1>5. Spoken(late, r, e + 4, Len(messages), messages)
  BY SaysFacts, <1>0
<1>6. asks \in Seq(AnyStep) /\ \A i \in 1 .. Len(asks) : asks[i].op \in {"ask", "poll", "castAnswer"}
  BY FetchFacts
<1>7. LoadRunInfo(r, e, messages, q) = p
  BY DEF LoadRunInfo, Initialize
<1> HIDE DEF early, late, asks, x1, x2, x3, x4, x5
<1>11. /\ t1 \in Seq(AnyStep) /\ Len(t1) = Len(early) + 2 /\ Len(early) \in Nat
       /\ \A i \in 1 .. Len(early) : t1[i] = early[i]
       /\ t1[Len(early) + 1] = x1[1] /\ t1[Len(early) + 2] = x1[2]
  <2>1. Joined(early, x1, t1)
    BY <1>1, <1>4, Behind DEF Spoken
  <2>2. 1 \in 1 .. Len(x1) /\ 2 \in 1 .. Len(x1)
    BY <1>1, <1>4
  <2> HIDE DEF t1
  <2>3. QED
    BY <1>1, <1>4, <2>1, <2>2 DEF Joined
<1> HIDE DEF t1
<1>12. /\ t2 \in Seq(AnyStep) /\ Len(t2) = Len(t1) + 3 /\ Len(t1) \in Nat
       /\ \A i \in 1 .. Len(t1) : t2[i] = t1[i]
       /\ t2[Len(t1) + 1] = x2[1] /\ t2[Len(t1) + 2] = x2[2] /\ t2[Len(t1) + 3] = x2[3]
  <2>1. Joined(t1, x2, t2)
    BY <1>1, <1>11, Behind
  <2>2. 1 \in 1 .. Len(x2) /\ 2 \in 1 .. Len(x2) /\ 3 \in 1 .. Len(x2)
    BY <1>1, <1>11
  <2> HIDE DEF t2
  <2>3. QED
    BY <1>1, <1>11, <2>1, <2>2 DEF Joined
<1> HIDE DEF t2
<1>13. /\ t3 \in Seq(AnyStep) /\ Len(t3) = Len(t2) + 3 /\ Len(t2) \in Nat
       /\ \A i \in 1 .. Len(t2) : t3[i] = t2[i]
       /\ t3[Len(t2) + 1] = x3[1] /\ t3[Len(t2) + 2] = x3[2] /\ t3[Len(t2) + 3] = x3[3]
  <2>1. Joined(t2, x3, t3)
    BY <1>2, <1>12, Behind
  <2>2. 1 \in 1 .. Len(x3) /\ 2 \in 1 .. Len(x3) /\ 3 \in 1 .. Len(x3)
    BY <1>2, <1>12
  <2> HIDE DEF t3
  <2>3. QED
    BY <1>2, <1>12, <2>1, <2>2 DEF Joined
<1> HIDE DEF t3
<1>14. /\ t4 \in Seq(AnyStep) /\ Len(t4) = Len(t3) + 2 /\ Len(t3) \in Nat
       /\ \A i \in 1 .. Len(t3) : t4[i] = t3[i]
       /\ t4[Len(t3) + 1] = x4[1] /\ t4[Len(t3) + 2] = x4[2]
  <2>1. Joined(t3, x4, t4)
    BY <1>8, <1>13, Behind
  <2>2. 1 \in 1 .. Len(x4) /\ 2 \in 1 .. Len(x4)
    BY <1>8, <1>13
  <2> HIDE DEF t4
  <2>3. QED
    BY <1>8, <1>13, <2>1, <2>2 DEF Joined
<1> HIDE DEF t4
<1>15. /\ t5 \in Seq(AnyStep) /\ Len(t5) = Len(t4) + Len(asks) /\ Len(asks) \in Nat
       /\ \A i \in 1 .. Len(t4) : t5[i] = t4[i]
       /\ \A i \in 1 .. Len(asks) : t5[Len(t4) + i] = asks[i]
  <2>1. Joined(t4, asks, t5)
    BY <1>6, <1>14, Behind
  <2> HIDE DEF t5
  <2>2. QED
    BY <2>1 DEF Joined
<1> HIDE DEF t5
<1>16. /\ t6 \in Seq(AnyStep) /\ Len(t6) = Len(t5) + 4 /\ Len(t5) \in Nat
       /\ \A i \in 1 .. Len(t5) : t6[i] = t5[i]
       /\ t6[Len(t5) + 1] = x5[1] /\ t6[Len(t5) + 2] = x5[2] /\ t6[Len(t5) + 3] = x5[3] /\ t6[Len(t5) + 4] = x5[4]
  <2>1. Joined(t5, x5, t6)
    BY <1>3, <1>15, Behind
  <2>2. 1 \in 1 .. Len(x5) /\ 2 \in 1 .. Len(x5) /\ 3 \in 1 .. Len(x5) /\ 4 \in 1 .. Len(x5)
    BY <1>3, <1>15
  <2> HIDE DEF t6
  <2>3. QED
    BY <1>3, <1>15, <2>1, <2>2 DEF Joined
<1> HIDE DEF t6
<1>17. /\ p \in Seq(AnyStep) /\ Len(p) = Len(t6) + Len(late) /\ Len(late) \in Nat
       /\ \A i \in 1 .. Len(t6) : p[i] = t6[i]
       /\ \A i \in 1 .. Len(late) : p[Len(t6) + i] = late[i]
  <2>1. Joined(t6, late, p)
    BY <1>5, <1>16, Behind DEF Spoken
  <2> HIDE DEF p
  <2>2. QED
    BY <2>1 DEF Joined
<1> HIDE DEF p
<1> DEFINE a == Len(early)
           k == a + 10 + Len(asks)
<1>20. a \in Nat /\ k \in Nat /\ Len(t1) = a + 2 /\ Len(t2) = a + 5 /\ Len(t3) = a + 8 /\ Len(t4) = a + 10 /\ Len(t5) = k
       /\ Len(t6) = k + 4 /\ Len(p) = k + 4 + Len(late) /\ a + 10 <= k
  BY <1>11, <1>12, <1>13, <1>14, <1>15, <1>16, <1>17
<1>21. \A i \in 1 .. a + 10 : p[i] = t4[i]
  <2> TAKE i \in 1 .. a + 10
  <2>1. i \in 1 .. Len(t4) /\ i \in 1 .. Len(t5) /\ i \in 1 .. Len(t6)
    BY <1>20
  <2>2. p[i] = t6[i] /\ t6[i] = t5[i] /\ t5[i] = t4[i]
    BY <2>1, <1>15, <1>16, <1>17
  <2>3. QED
    BY <2>2
<1>22. \A i \in 1 .. a + 5 : p[i] = t2[i]
  BY <1>13, <1>14, <1>20, <1>21, SMTT(30)
<1>23. \A i \in 1 .. a : p[i] = early[i]
  BY <1>11, <1>12, <1>20, <1>22, SMTT(30)
<1>24. p[a + 1] = x1[1] /\ p[a + 2] = x1[2]
  BY <1>11, <1>12, <1>20, <1>22, SMTT(30)
<1>25. p[a + 3] = x2[1] /\ p[a + 4] = x2[2] /\ p[a + 5] = x2[3]
  BY <1>12, <1>20, <1>22
<1>26. p[a + 6] = x3[1] /\ p[a + 7] = x3[2] /\ p[a + 8] = x3[3] /\ p[a + 9] = x4[1] /\ p[a + 10] = x4[2]
  <2>1. \A i \in 1 .. Len(t3) : p[i] = t3[i]
    BY <1>14, <1>20, <1>21
  <2>2. p[a + 6] = x3[1] /\ p[a + 7] = x3[2] /\ p[a + 8] = x3[3]
    BY <1>13, <1>20, <2>1
  <2>3. p[a + 9] = x4[1] /\ p[a + 10] = x4[2]
    BY <1>14, <1>20, <1>21
  <2>4. QED
    BY <2>2, <2>3
<1>27. \A i \in a + 11 .. k : p[i].op \in {"ask", "poll", "castAnswer"}
  <2> TAKE i \in a + 11 .. k
  <2>1. i - (a + 10) \in 1 .. Len(asks) /\ (a + 10) + (i - (a + 10)) = i /\ i \in 1 .. k /\ i \in 1 .. k + 4
    BY <1>15, <1>20
  <2>2. i \in 1 .. Len(t5) /\ i \in 1 .. Len(t6) /\ Len(t4) + (i - (a + 10)) = i
    BY <1>20, <2>1
  <2>3. p[i] = t6[i] /\ t6[i] = t5[i] /\ t5[i] = asks[i - (a + 10)]
    BY <2>1, <2>2, <1>15, <1>16, <1>17
  <2>4. QED
    BY <1>6, <2>1, <2>3
<1>28. p[k + 1] = x5[1] /\ p[k + 2] = x5[2] /\ p[k + 3] = x5[3] /\ p[k + 4] = x5[4]
  BY <1>16, <1>17, <1>20
<1>29. \A i \in k + 5 .. Len(p) : i - (k + 4) \in 1 .. Len(late) /\ p[i] = late[i - (k + 4)]
  <2> TAKE i \in k + 5 .. Len(p)
  <2>1. i - (k + 4) \in 1 .. Len(late) /\ (k + 4) + (i - (k + 4)) = i
    BY <1>17, <1>20
  <2>2. QED
    BY <2>1, <1>17, <1>20, ZenonT(40)
<1>30. \A i \in 1 .. Len(late) : k + 4 + i \in k + 5 .. Len(p) /\ p[k + 4 + i] = late[i]
  BY <1>17, <1>20
<1> HIDE DEF a, k
<1>31. /\ \A i \in 1 .. a : /\ p[i].op = "say" /\ p[i].msg \in 1 .. e /\ p[i] = Say(p[i].msg)
                            /\ r \in messages[p[i].msg].comm
       /\ \A i, j \in 1 .. a : i < j => p[i].msg < p[j].msg
       /\ \A n \in 1 .. e : r \in messages[n].comm => \E i \in 1 .. a : p[i] = Say(n)
  BY <1>4, <1>23 DEF a, Spoken
<1>32. /\ \A i \in k + 5 .. Len(p) : /\ p[i].op = "say" /\ p[i].msg \in e + 4 .. Len(messages)
                                     /\ p[i] = Say(p[i].msg) /\ r \in messages[p[i].msg].comm
       /\ \A n \in e + 4 .. Len(messages) : r \in messages[n].comm => \E i \in k + 5 .. Len(p) : p[i] = Say(n)
  <2>1. \A i \in k + 5 .. Len(p) : /\ p[i].op = "say" /\ p[i].msg \in e + 4 .. Len(messages)
                                   /\ p[i] = Say(p[i].msg) /\ r \in messages[p[i].msg].comm
    BY <1>5, <1>29 DEF Spoken
  <2>2. ASSUME NEW n \in e + 4 .. Len(messages), r \in messages[n].comm
        PROVE  \E i \in k + 5 .. Len(p) : p[i] = Say(n)
    <3>1. PICK i \in 1 .. Len(late) : late[i] = Say(n)
      BY <1>5, <2>2 DEF Spoken
    <3>2. k + 4 + i \in k + 5 .. Len(p) /\ p[k + 4 + i] = Say(n)
      BY <1>30, <3>1
    <3>3. QED
      BY <3>2
  <2>3. QED
    BY <2>1, <2>2
<1>33. \A i, j \in k + 5 .. Len(p) : i < j => p[i].msg < p[j].msg
  <2> SUFFICES ASSUME NEW i \in k + 5 .. Len(p), NEW j \in k + 5 .. Len(p), i < j
               PROVE  p[i].msg < p[j].msg
    OBVIOUS
  <2>1. i - (k + 4) < j - (k + 4)
    BY <1>20
  <2>2. QED
    BY <2>1, <1>5, <1>29 DEF Spoken
<1>34. k + 4 <= Len(p)
  BY <1>17, <1>20
<1>35. Program(p, r, messages, e, a, k)
  BY <1>1, <1>2, <1>3, <1>8, <1>20, <1>24, <1>25, <1>26, <1>27, <1>28, <1>31, <1>32, <1>33, <1>34 DEF Program
<1>36. QED
  BY <1>7, <1>17, <1>20, <1>35

-----------------------------------------------------------------------------
(* How what a rank has to do changes.                                      *)

\* An operation with that name is among s.
HasOp(s, op) == \E i \in 1 .. Len(s) : s[i].op = op

\* Operations that do not change the engine's communicator, nor bring others that do.
Steady == {"write", "gather", "sync", "ask", "poll", "castAnswer", "name"}

\* The first operation of s is done and `first` is to be done instead.
Moves(s, first) ==
  LET o == s[1]
  IN  \/ o.op # "start" /\ first = << >>
      \/ o.op = "say" /\ first = <<Op("flush"), Deliver(o.msg)>>
      \/ o.op = "flush" /\ \E n \in Nat : first = <<Deliver(n), Op("pop"), Op("flush")>>
      \/ o.op = "deliver" /\ first = <<Op("line")>>
      \/ o.op = "deliver" /\ \E c, d \in AllComms \cup {{}} :
           first = <<SetComm(c, TRUE), NameLog, Op("writeLog"), SetComm(d, FALSE), Op("line")>>
      \/ o.op = "look" /\ first = <<Op("castDir"), Say(o.warning)>>
      \/ o.op \in {"ask", "poll"} /\ \E node \in {"fetch", "fetchSuccess"} : first = <<Write(node)>>
      \/ o.op = "setComm" /\ first \in {<<Gather>>, <<Sync>>, <<Gather, Sync>>}

\* The operations that come in for operation o.
Brings(o, first) ==
  \/ o.op = "say" /\ Len(first) = 2 /\ first[1].op = "flush" /\ first[2] = Deliver(o.msg)
  \/ o.op = "flush" /\ Len(first) = 3 /\ first[1].op = "deliver" /\ first[2].op = "pop" /\ first[3].op = "flush"
  \/ o.op = "deliver" /\ Len(first) = 1 /\ first[1].op = "line"
  \/ /\ o.op = "deliver" /\ Len(first) = 5 /\ first[1].op = "setComm" /\ first[2].op = "name"
     /\ first[3].op = "writeLog" /\ first[4].op = "setComm" /\ first[5].op = "line"
  \/ o.op = "look" /\ Len(first) = 2 /\ first[1].op = "castDir" /\ first[2] = Say(o.warning)
  \/ o.op \in {"ask", "poll"} /\ Len(first) = 1 /\ first[1].op = "write"
  \/ o.op = "setComm" /\ Len(first) \in 1 .. 2 /\ \A i \in 1 .. Len(first) : first[i].op \in {"gather", "sync"}

\* What comes instead of an operation is at most five others.
LEMMA MovesFacts ==
  ASSUME NEW s \in Seq(AnyStep), s # << >>, NEW first, Moves(s, first)
  PROVE  first \in Seq(AnyStep) /\ Len(first) \in 0 .. 5 /\ (first # << >> => Brings(s[1], first))
<1> DEFINE o == s[1]
<1>0. o \in AnyStep
  BY HeadTail
<1>1. CASE first = << >>
  BY <1>1
<1>2. CASE o.op = "say" /\ first = <<Op("flush"), Deliver(o.msg)>>
  <2>1. o.msg \in Nat /\ Op("flush") \in AnyStep
    BY <1>0, <1>2, StepCases, StepFacts
  <2>2. Deliver(o.msg) \in AnyStep
    BY <2>1, StepFacts
  <2>3. QED
    BY <1>2, <2>1, <2>2, TupleFacts DEF Op, Brings
<1>3. CASE o.op = "flush" /\ \E n \in Nat : first = <<Deliver(n), Op("pop"), Op("flush")>>
  <2>1. PICK n \in Nat : first = <<Deliver(n), Op("pop"), Op("flush")>>
    BY <1>3
  <2>2. Deliver(n) \in AnyStep /\ Op("pop") \in AnyStep /\ Op("flush") \in AnyStep
    BY StepFacts
  <2>3. first \in Seq(AnyStep) /\ Len(first) = 3
    BY <2>1, <2>2, TupleFacts
  <2>4. first[1].op = "deliver" /\ first[2].op = "pop" /\ first[3].op = "flush"
    BY <2>1 DEF Op, Deliver
  <2>5. o.op = "flush"
    BY <1>3
  <2>6. QED
    BY <2>3, <2>4, <2>5 DEF Brings
<1>4. CASE o.op = "deliver" /\ first = <<Op("line")>>
  <2>1. Op("line") \in AnyStep
    BY StepFacts
  <2>2. QED
    BY <1>4, <2>1, TupleFacts DEF Op, Brings
<1>5. CASE o.op = "deliver" /\ \E c, d \in AllComms \cup {{}} :
             first = <<SetComm(c, TRUE), NameLog, Op("writeLog"), SetComm(d, FALSE), Op("line")>>
  <2>1. PICK c \in AllComms \cup {{}}, d \in AllComms \cup {{}} :
          first = <<SetComm(c, TRUE), NameLog, Op("writeLog"), SetComm(d, FALSE), Op("line")>>
    BY <1>5
  <2>2. /\ SetComm(c, TRUE) \in AnyStep /\ NameLog \in AnyStep /\ Op("writeLog") \in AnyStep
        /\ SetComm(d, FALSE) \in AnyStep /\ Op("line") \in AnyStep
    BY StepFacts
  <2>3. first \in Seq(AnyStep) /\ Len(first) = 5
    BY <2>1, <2>2, TupleFacts, Zenon
  <2>4. /\ first[1].op = "setComm" /\ first[2].op = "name" /\ first[3].op = "writeLog"
        /\ first[4].op = "setComm" /\ first[5].op = "line"
    BY <2>1 DEF SetComm, NameLog, Op
  <2>5. o.op = "deliver"
    BY <1>5
  <2>6. QED
    BY <2>3, <2>4, <2>5 DEF Brings
<1>6. CASE o.op = "look" /\ first = <<Op("castDir"), Say(o.warning)>>
  <2>1. o.warning \in Nat /\ Op("castDir") \in AnyStep
    BY <1>0, <1>6, StepCases, StepFacts
  <2>2. Say(o.warning) \in AnyStep
    BY <2>1, StepFacts
  <2>3. QED
    BY <1>6, <2>1, <2>2, TupleFacts DEF Op, Brings
<1>7. CASE o.op \in {"ask", "poll"} /\ \E node \in {"fetch", "fetchSuccess"} : first = <<Write(node)>>
  <2>1. PICK node \in {"fetch", "fetchSuccess"} : first = <<Write(node)>> /\ node \in WrittenNodes
    BY <1>7 DEF WrittenNodes
  <2>2. Write(node) \in AnyStep
    BY <2>1, StepFacts
  <2>3. QED
    BY <1>7, <2>1, <2>2, TupleFacts DEF Write, Brings
<1>8. CASE o.op = "setComm" /\ first \in {<<Gather>>, <<Sync>>, <<Gather, Sync>>}
  <2>1. Gather \in AnyStep /\ Sync \in AnyStep
    BY StepFacts
  <2>2. first \in Seq(AnyStep) /\ Len(first) \in 1 .. 2
    <3>1. <<Gather>> \in Seq(AnyStep) /\ Len(<<Gather>>) \in 1 .. 2 /\ <<Sync>> \in Seq(AnyStep) /\ Len(<<Sync>>) \in 1 .. 2
      BY <2>1, TupleFacts
    <3>2. <<Gather, Sync>> \in Seq(AnyStep) /\ Len(<<Gather, Sync>>) \in 1 .. 2
      BY <2>1, TupleFacts
    <3>3. first = <<Gather>> \/ first = <<Sync>> \/ first = <<Gather, Sync>>
      BY <1>8
    <3>4. QED
      BY <3>1, <3>2, <3>3, Zenon
  <2>3. \A i \in 1 .. Len(first) : first[i].op \in {"gather", "sync"}
    BY <1>8 DEF Gather, Sync
  <2>4. QED
    BY <1>8, <2>2, <2>3 DEF Brings
<1>9. QED
  BY <1>1, <1>2, <1>3, <1>4, <1>5, <1>6, <1>7, <1>8 DEF Moves

\* Where new operations come from.
LEMMA BringsFacts ==
  ASSUME NEW o, NEW first, Brings(o, first), Len(first) \in 0 .. 5, NEW i \in 1 .. Len(first)
  PROVE  /\ i \in 1 .. 5
         /\ first[i].op = "deliver" => o.op \in {"say", "flush"}
         /\ first[i].op \in {"line", "name", "writeLog"} => o.op = "deliver"
         /\ first[i].op = "pop" => o.op = "flush"
         /\ first[i].op = "flush" => o.op \in {"say", "flush"}
         /\ first[i].op = "castDir" => o.op = "look"
         /\ first[i].op = "say" => o.op = "look" /\ first[i] = Say(o.warning)
         /\ first[i].op \notin {"ask", "poll", "castAnswer", "look", "barrier", "makeDir", "ready", "setLog"}
         /\ first[i].op = "setComm" => o.op = "deliver"
<1>1. i \in 1 .. 5
  <2>1. PICK n \in 0 .. 5 : Len(first) = n
    OBVIOUS
  <2>2. i \in 1 .. n
    BY <2>1, Zenon
  <2>3. QED
    BY <2>2
<1>2. CASE o.op = "say" /\ Len(first) = 2 /\ first[1].op = "flush" /\ first[2] = Deliver(o.msg)
  BY <1>2 DEF Deliver
<1>3. CASE o.op = "flush" /\ Len(first) = 3 /\ first[1].op = "deliver" /\ first[2].op = "pop" /\ first[3].op = "flush"
  BY <1>3
<1>4. CASE o.op = "deliver" /\ Len(first) = 1 /\ first[1].op = "line"
  BY <1>4
<1>5. CASE /\ o.op = "deliver" /\ Len(first) = 5 /\ first[1].op = "setComm" /\ first[2].op = "name"
           /\ first[3].op = "writeLog" /\ first[4].op = "setComm" /\ first[5].op = "line"
  BY <1>5
<1>6. CASE o.op = "look" /\ Len(first) = 2 /\ first[1].op = "castDir" /\ first[2] = Say(o.warning)
  BY <1>6 DEF Say
<1>7. CASE o.op \in {"ask", "poll"} /\ Len(first) = 1 /\ first[1].op = "write"
  BY <1>7
<1>8. CASE o.op = "setComm" /\ Len(first) \in 1 .. 2 /\ \A k \in 1 .. Len(first) : first[k].op \in {"gather", "sync"}
  BY <1>8
<1>9. QED
  BY <1>1, <1>2, <1>3, <1>4, <1>5, <1>6, <1>7, <1>8 DEF Brings

\* Two places of t: both new, one new and one old, or both old.
LEMMA Pairs ==
  ASSUME NEW s \in Seq(AnyStep), NEW first \in Seq(AnyStep), NEW t \in Seq(AnyStep), Replaces(s, first, t),
         NEW i \in 1 .. Len(t), NEW k \in 1 .. Len(t), i < k
  PROVE  \/ i \in 1 .. Len(first) /\ k \in 1 .. Len(first) /\ t[i] = first[i] /\ t[k] = first[k]
         \/ i \in 1 .. Len(first) /\ t[i] = first[i] /\ \E m \in 2 .. Len(s) : t[k] = s[m]
         \/ \E h \in 2 .. Len(s), m \in 2 .. Len(s) : h < m /\ t[i] = s[h] /\ t[k] = s[m]
<1>1. Len(first) \in Nat /\ Len(s) \in Nat /\ Len(t) \in Nat
  BY LenProperties
<1>2. CASE k <= Len(first)
  BY <1>1, <1>2 DEF Replaces
<1>3. CASE ~(k <= Len(first)) /\ i <= Len(first)
  <2>1. k \in Len(first) + 1 .. Len(t)
    BY <1>1, <1>3
  <2>2. i \in 1 .. Len(first) /\ t[i] = first[i]
    BY <1>1, <1>3 DEF Replaces
  <2>3. k + 1 - Len(first) \in 2 .. Len(s) /\ t[k] = s[k + 1 - Len(first)]
    BY <2>1 DEF Replaces
  <2>4. QED
    BY <2>2, <2>3
<1>4. CASE ~(k <= Len(first)) /\ ~(i <= Len(first))
  <2>1. i \in Len(first) + 1 .. Len(t) /\ k \in Len(first) + 1 .. Len(t)
    BY <1>1, <1>4
  <2>2. i + 1 - Len(first) < k + 1 - Len(first)
    BY <1>1
  <2>3. QED
    BY <1>1, <2>1, <2>2 DEF Replaces
<1>5. QED
  BY <1>2, <1>3, <1>4

\* An operation of t is new or was there.
LEMMA HasFacts ==
  ASSUME NEW s \in Seq(AnyStep), NEW first \in Seq(AnyStep), NEW t \in Seq(AnyStep), Replaces(s, first, t)
  PROVE  /\ \A i \in 1 .. Len(t) : \/ i \in 1 .. Len(first) /\ t[i] = first[i]
                                   \/ \E m \in 2 .. Len(s) : t[i] = s[m]
         /\ \A m \in 2 .. Len(s) : \E i \in 1 .. Len(t) : t[i] = s[m]
         /\ \A i \in 1 .. Len(first) : i \in 1 .. Len(t) /\ t[i] = first[i]
         /\ \A op : HasOp(t, op) <=> HasOp(first, op) \/ \E m \in 2 .. Len(s) : s[m].op = op
<1>1. Len(first) \in Nat /\ Len(s) \in Nat /\ Len(t) \in Nat
  BY LenProperties
<1>2. \A i \in 1 .. Len(t) : i \in 1 .. Len(first) \/ i \in Len(first) + 1 .. Len(t)
  BY <1>1
<1>3. \A m \in 2 .. Len(s) : Len(first) + m - 1 \in 1 .. Len(t)
  BY <1>1 DEF Replaces
<1>4. \A i \in 1 .. Len(first) : i \in 1 .. Len(t)
  BY <1>1 DEF Replaces
<1>5. QED
  BY <1>2, <1>3, <1>4, ZenonT(40) DEF Replaces, HasOp

-----------------------------------------------------------------------------
(* The order of what a rank has to do.                                     *)

\* The operations that are done for messages too.
Wild == {"gather", "sync", "setComm"}

\* Operation a may come before operation b.
MayPrecede(a, b) ==
  /\ b = "name" => a \in Wild
  /\ b = "writeLog" => a \in Wild \cup {"name"}
  /\ b = "line" => a \in Wild \cup {"name", "writeLog"}
  /\ b = "pop" => a \in Wild \cup {"name", "writeLog", "line", "deliver"}
  /\ b = "flush" => a \in Wild \cup {"name", "writeLog", "line", "deliver", "pop"}
  /\ b = "deliver" => a \in Wild \cup {"name", "writeLog", "line", "deliver", "pop", "flush"}
  /\ b \in {"look", "castDir"} => a \notin {"look", "castDir", "barrier", "makeDir"}
  /\ b = "barrier" => a \notin {"barrier", "makeDir"}
  /\ b = "makeDir" => a # "makeDir"

\* Message and directory operations are in their order, a directory that is looked for
\* will be agreed on and made, and the communicator is put back after a message.
InTurn(s) ==
  /\ \A i, k \in 1 .. Len(s) : i < k => MayPrecede(s[i].op, s[k].op)
  /\ \A i \in 1 .. Len(s) : s[i].op \in {"look", "castDir", "barrier"} => HasOp(s, "makeDir")
  /\ \A i \in 1 .. Len(s) : s[i].op \in {"look", "castDir"} => HasOp(s, "barrier")
  /\ \A i \in 1 .. Len(s) : s[i].op = "writeLog" => i + 2 <= Len(s) /\ s[i + 1].op = "setComm" /\ s[i + 2].op = "line"

\* When the operations `ops` of s are done the engine, which has communicator current
\* now, has communicator c.
OnlyOn(s, current, c, ops) ==
  \A i \in 1 .. Len(s) : s[i].op \in ops =>
    \/ current = c /\ \A k \in 1 .. i - 1 : s[k].op \in Steady
    \/ \E h \in 1 .. i - 1 : s[h].op = "setComm" /\ s[h].comm = c /\ \A k \in h + 1 .. i - 1 : s[k].op \in Steady

\* What comes instead of an operation may come before what the operation may come before.
LEMMA MovesInTurn ==
  ASSUME NEW s \in Seq(AnyStep), s # << >>, NEW first, Moves(s, first)
  PROVE  /\ \A i \in 1 .. Len(first) : \A b : MayPrecede(s[1].op, b) => MayPrecede(first[i].op, b)
         /\ \A i, k \in 1 .. Len(first) : i < k => MayPrecede(first[i].op, first[k].op)
         /\ \A i \in 1 .. Len(first) : /\ first[i].op \notin {"look", "barrier", "makeDir"}
                                       /\ first[i].op = "castDir" => s[1].op = "look"
                                       /\ first[i].op = "writeLog" => i + 2 <= Len(first) /\ first[i + 1].op = "setComm"
                                                                      /\ first[i + 2].op = "line"
<1>1. CASE first = << >>
  BY <1>1
<1>2. CASE s[1].op = "say" /\ Len(first) = 2 /\ first[1].op = "flush" /\ first[2] = Deliver(s[1].msg)
  BY <1>2 DEF MayPrecede, Wild, Deliver
<1>3. CASE s[1].op = "flush" /\ Len(first) = 3 /\ first[1].op = "deliver" /\ first[2].op = "pop" /\ first[3].op = "flush"
  BY <1>3 DEF MayPrecede, Wild
<1>4. CASE s[1].op = "deliver" /\ Len(first) = 1 /\ first[1].op = "line"
  BY <1>4 DEF MayPrecede, Wild
<1>5. CASE /\ s[1].op = "deliver" /\ Len(first) = 5 /\ first[1].op = "setComm" /\ first[2].op = "name"
           /\ first[3].op = "writeLog" /\ first[4].op = "setComm" /\ first[5].op = "line"
  BY <1>5 DEF MayPrecede, Wild
<1>6. CASE s[1].op = "look" /\ Len(first) = 2 /\ first[1].op = "castDir" /\ first[2] = Say(s[1].warning)
  BY <1>6 DEF MayPrecede, Wild, Say
<1>7. CASE s[1].op \in {"ask", "poll"} /\ Len(first) = 1 /\ first[1].op = "write"
  BY <1>7 DEF MayPrecede, Wild
<1>8. CASE s[1].op = "setComm" /\ Len(first) \in 1 .. 2 /\ \A i \in 1 .. Len(first) : first[i].op \in {"gather", "sync"}
  BY <1>8 DEF MayPrecede, Wild
<1>9. QED
  BY <1>1, <1>2, <1>3, <1>4, <1>5, <1>6, <1>7, <1>8, MovesFacts DEF Brings

\* What a rank has to do stays in turn.
LEMMA InTurnKept ==
  ASSUME NEW s \in Seq(AnyStep), s # << >>, NEW first, Moves(s, first), NEW t \in Seq(AnyStep), Replaces(s, first, t),
         InTurn(s)
  PROVE  InTurn(t)
<1>1. first \in Seq(AnyStep) /\ Len(s) \in Nat /\ Len(s) > 0 /\ Len(first) \in Nat /\ Len(t) \in Nat
  BY MovesFacts, LenProperties, EmptySeq
<1>2. \A m \in 2 .. Len(s) : m \in 1 .. Len(s) /\ 1 \in 1 .. Len(s) /\ 1 < m
  BY <1>1
<1>3. \A m \in 2 .. Len(s) : MayPrecede(s[1].op, s[m].op)
  BY <1>2 DEF InTurn
<1>a. /\ \A i \in 1 .. Len(first) : \A b : MayPrecede(s[1].op, b) => MayPrecede(first[i].op, b)
      /\ \A i, k \in 1 .. Len(first) : i < k => MayPrecede(first[i].op, first[k].op)
  BY MovesInTurn
<1>b. \A i \in 1 .. Len(first) : first[i].op \notin {"look", "barrier", "makeDir"} /\ (first[i].op = "castDir" => s[1].op = "look")
  BY MovesInTurn
<1>4. ASSUME NEW i \in 1 .. Len(t), NEW k \in 1 .. Len(t), i < k
      PROVE  MayPrecede(t[i].op, t[k].op)
  <2>1. CASE i \in 1 .. Len(first) /\ k \in 1 .. Len(first) /\ t[i] = first[i] /\ t[k] = first[k]
    BY <1>4, <1>a, <2>1
  <2>2. CASE i \in 1 .. Len(first) /\ t[i] = first[i] /\ \E m \in 2 .. Len(s) : t[k] = s[m]
    <3>1. PICK m \in 2 .. Len(s) : t[k] = s[m]
      BY <2>2
    <3>2. MayPrecede(first[i].op, s[m].op)
      BY <1>3, <1>a, <2>2
    <3>3. QED
      BY <2>2, <3>1, <3>2
  <2>3. CASE \E h \in 2 .. Len(s), m \in 2 .. Len(s) : h < m /\ t[i] = s[h] /\ t[k] = s[m]
    BY <2>3, <1>2 DEF InTurn
  <2>4. QED
    <3>1. \/ i \in 1 .. Len(first) /\ k \in 1 .. Len(first) /\ t[i] = first[i] /\ t[k] = first[k]
          \/ i \in 1 .. Len(first) /\ t[i] = first[i] /\ \E m \in 2 .. Len(s) : t[k] = s[m]
          \/ \E h \in 2 .. Len(s), m \in 2 .. Len(s) : h < m /\ t[i] = s[h] /\ t[k] = s[m]
      BY <1>1, <1>4, Pairs, SMTT(30)
    <3>2. QED
      BY <2>1, <2>2, <2>3, <3>1
<1>5. \A i \in 1 .. Len(t) : t[i].op \in {"look", "barrier", "castDir"} =>
        s[1].op = "look" \/ \E m \in 2 .. Len(s) : t[i].op = s[m].op
  <2> SUFFICES ASSUME NEW i \in 1 .. Len(t), t[i].op \in {"look", "barrier", "castDir"},
                      ~ \E m \in 2 .. Len(s) : t[i].op = s[m].op
               PROVE  s[1].op = "look"
    OBVIOUS
  <2>1. i \in 1 .. Len(first) /\ t[i] = first[i]
    <3>1. \/ i \in 1 .. Len(first) /\ t[i] = first[i]
          \/ \E m \in 2 .. Len(s) : t[i] = s[m]
      BY <1>1, HasFacts
    <3>2. QED
      BY <3>1
  <2>2. QED
    BY <1>b, <2>1
<1>6. \A i \in 1 .. Len(t) : t[i].op \in {"look", "castDir", "barrier"} => HasOp(t, "makeDir")
  <2> SUFFICES ASSUME NEW i \in 1 .. Len(t), t[i].op \in {"look", "castDir", "barrier"}
               PROVE  HasOp(t, "makeDir")
    OBVIOUS
  <2>1. HasOp(s, "makeDir") /\ s[1].op # "makeDir"
    BY <1>1, <1>2, <1>3, <1>5 DEF InTurn, MayPrecede
  <2>2. \E m \in 2 .. Len(s) : s[m].op = "makeDir"
    BY <1>1, <2>1 DEF HasOp
  <2>3. QED
    BY <1>1, <2>2, HasFacts
<1>7. \A i \in 1 .. Len(t) : t[i].op \in {"look", "castDir"} => HasOp(t, "barrier")
  <2> SUFFICES ASSUME NEW i \in 1 .. Len(t), t[i].op \in {"look", "castDir"}
               PROVE  HasOp(t, "barrier")
    OBVIOUS
  <2>1. HasOp(s, "barrier") /\ s[1].op # "barrier"
    BY <1>1, <1>2, <1>3, <1>5 DEF InTurn, MayPrecede
  <2>2. \E m \in 2 .. Len(s) : s[m].op = "barrier"
    BY <1>1, <2>1 DEF HasOp
  <2>3. QED
    BY <1>1, <2>2, HasFacts
<1>8. ASSUME NEW i \in 1 .. Len(t), t[i].op = "writeLog"
      PROVE  i + 2 <= Len(t) /\ t[i + 1].op = "setComm" /\ t[i + 2].op = "line"
  <2>1. CASE i <= Len(first)
    <3>1. i \in 1 .. Len(first) /\ first[i].op = "writeLog"
      BY <1>1, <1>8, <2>1 DEF Replaces
    <3>2. i + 2 <= Len(first) /\ first[i + 1].op = "setComm" /\ first[i + 2].op = "line"
      BY <3>1, MovesInTurn
    <3>3. QED
      BY <1>1, <3>1, <3>2 DEF Replaces
  <2>2. CASE ~(i <= Len(first))
    <3> DEFINE m == i + 1 - Len(first)
    <3>1. i \in Len(first) + 1 .. Len(t)
      BY <1>1, <2>2
    <3>2. m \in 2 .. Len(s) /\ s[m].op = "writeLog"
      BY <1>8, <3>1 DEF Replaces
    <3>3. m + 2 <= Len(s) /\ s[m + 1].op = "setComm" /\ s[m + 2].op = "line"
      BY <1>2, <3>2 DEF InTurn
    <3>4. m + 1 \in 2 .. Len(s) /\ m + 2 \in 2 .. Len(s) /\ Len(first) + (m + 1) - 1 = i + 1 /\ Len(first) + (m + 2) - 1 = i + 2
      BY <1>1, <3>2, <3>3
    <3>5. t[i + 1] = s[m + 1] /\ t[i + 2] = s[m + 2] /\ i + 2 <= Len(t)
      BY <1>1, <3>3, <3>4 DEF Replaces
    <3>6. QED
      BY <3>3, <3>5
  <2>3. QED
    BY <2>1, <2>2
<1>9. QED
  BY <1>4, <1>6, <1>7, <1>8 DEF InTurn

\* A rank stays placed.
LEMMA PlacedKept ==
  ASSUME NEW s \in Seq(AnyStep), s # << >>, NEW first, Moves(s, first), NEW t \in Seq(AnyStep), Replaces(s, first, t),
         NEW current, NEW next, NEW c, NEW ops, OnlyOn(s, current, c, ops),
         next = IF s[1].op = "setComm" THEN s[1].comm ELSE current,
         \A i \in 1 .. Len(first) : first[i].op \notin ops
  PROVE  OnlyOn(t, next, c, ops)
<1>1. first \in Seq(AnyStep) /\ Len(s) \in Nat /\ Len(s) > 0 /\ Len(first) \in Nat /\ Len(t) \in Nat
  BY MovesFacts, LenProperties, EmptySeq
<1>2. s[1].op \in Steady \cup {"setComm"} => \A i \in 1 .. Len(first) : first[i].op \in Steady
  BY <1>1, MovesFacts DEF Steady, Brings
<1>3. SUFFICES ASSUME NEW i \in 1 .. Len(t), t[i].op \in ops
               PROVE  \/ next = c /\ \A k \in 1 .. i - 1 : t[k].op \in Steady
                      \/ \E h \in 1 .. i - 1 : /\ t[h].op = "setComm" /\ t[h].comm = c
                                               /\ \A k \in h + 1 .. i - 1 : t[k].op \in Steady
  BY DEF OnlyOn
<1> DEFINE m == i + 1 - Len(first)
<1>4. i \in Len(first) + 1 .. Len(t)
  BY <1>1, <1>3 DEF Replaces
<1>5. m \in 2 .. Len(s) /\ m \in 1 .. Len(s) /\ s[m].op \in ops
  BY <1>1, <1>3, <1>4 DEF Replaces
<1>6. \A k \in 1 .. i - 1 : \/ k \in 1 .. Len(first) /\ t[k] = first[k]
                            \/ /\ k \in Len(first) + 1 .. Len(t) /\ k + 1 - Len(first) \in 2 .. m - 1
                               /\ t[k] = s[k + 1 - Len(first)]
  <2> TAKE k \in 1 .. i - 1
  <2>1. CASE k <= Len(first)
    BY <1>1, <2>1 DEF Replaces
  <2>2. CASE ~(k <= Len(first))
    <3>1. k \in Len(first) + 1 .. Len(t) /\ k + 1 - Len(first) \in 2 .. m - 1
      BY <1>1, <1>4, <2>2
    <3>2. QED
      BY <3>1 DEF Replaces
  <2>3. QED
    BY <2>1, <2>2
<1>7. CASE current = c /\ \A k \in 1 .. m - 1 : s[k].op \in Steady
  <2>1. s[1].op \in Steady
    BY <1>1, <1>5, <1>7
  <2>2. next = c /\ \A k \in 1 .. Len(first) : first[k].op \in Steady
    BY <1>2, <1>7, <2>1 DEF Steady
  <2>3. \A k \in 1 .. i - 1 : t[k].op \in Steady
    <3> TAKE k \in 1 .. i - 1
    <3>1. CASE k \in 1 .. Len(first) /\ t[k] = first[k]
      BY <2>2, <3>1
    <3>2. CASE k + 1 - Len(first) \in 2 .. m - 1 /\ t[k] = s[k + 1 - Len(first)]
      <4>1. k + 1 - Len(first) \in 1 .. m - 1
        BY <3>2
      <4>2. QED
        BY <1>7, <3>2, <4>1
    <3>3. QED
      BY <1>6, <3>1, <3>2
  <2>4. QED
    BY <2>2, <2>3
<1>8. CASE \E h \in 1 .. m - 1 : s[h].op = "setComm" /\ s[h].comm = c /\ \A k \in h + 1 .. m - 1 : s[k].op \in Steady
  <2>1. PICK h \in 1 .. m - 1 : s[h].op = "setComm" /\ s[h].comm = c /\ \A k \in h + 1 .. m - 1 : s[k].op \in Steady
    BY <1>8
  <2>2. CASE h = 1
    <3>1. next = c /\ \A k \in 1 .. Len(first) : first[k].op \in Steady
      BY <1>2, <2>1, <2>2
    <3>2. \A k \in 1 .. i - 1 : t[k].op \in Steady
      <4> TAKE k \in 1 .. i - 1
      <4>1. CASE k \in 1 .. Len(first) /\ t[k] = first[k]
        BY <3>1, <4>1
      <4>2. CASE k + 1 - Len(first) \in 2 .. m - 1 /\ t[k] = s[k + 1 - Len(first)]
        <5>1. k + 1 - Len(first) \in h + 1 .. m - 1
          BY <2>2, <4>2
        <5>2. QED
          BY <2>1, <4>2, <5>1
      <4>3. QED
        BY <1>6, <4>1, <4>2
    <3>3. QED
      BY <3>1, <3>2
  <2>3. CASE h # 1
    <3> DEFINE g == Len(first) + h - 1
    <3>1. h \in 2 .. Len(s) /\ g \in 1 .. i - 1 /\ t[g] = s[h]
      BY <1>1, <1>4, <1>5, <2>3 DEF Replaces
    <3>2. \A k \in g + 1 .. i - 1 : t[k].op \in Steady
      <4> TAKE k \in g + 1 .. i - 1
      <4>1. k \in 1 .. i - 1 /\ k \notin 1 .. Len(first) /\ k + 1 - Len(first) >= h + 1
        BY <1>1, <2>3, <3>1
      <4>2. k + 1 - Len(first) \in h + 1 .. m - 1 /\ t[k] = s[k + 1 - Len(first)]
        BY <1>1, <1>6, <4>1
      <4>3. QED
        BY <2>1, <4>2
    <3>3. QED
      BY <2>1, <3>1, <3>2
  <2>4. QED
    BY <2>2, <2>3
<1>9. QED
  BY <1>5, <1>7, <1>8 DEF OnlyOn

-----------------------------------------------------------------------------
(* What a step does to one rank.                                           *)

\* What a stream may have.
Entry == [jid : Int, node : WrittenNodes \cup {"log", "comminfo"}, call : Nat]

\* Types of the state.
StartTyped ==
  /\ calls \in Seq([comm : AllComms, black : BOOLEAN])
  /\ todo \in [Ranks -> Seq(AnyStep)] /\ taken \in [Ranks -> Nat]
  /\ comm \in [Ranks -> AllComms \cup {{}}] /\ id \in [Ranks -> Nat]
  /\ stream \in [AllComms -> Seq(Entry)]
  /\ locked \in [Ranks -> BOOLEAN] /\ ready \in [Ranks -> BOOLEAN]
  /\ saved \in [Ranks -> Seq(Nat)] /\ told \in [Ranks -> SUBSET Nat] /\ printed \in [Ranks -> Seq(Nat)]
  /\ refused \in Nat
  /\ dir = [r \in Ranks |-> dir[r]]
  /\ answer \in [Ranks -> Seq([asked : Nat, got : Int])]
  /\ \A a \in answers : a.file \in Nat /\ a.to = a.file

\* The messages that are to be delivered are messages, and one that is to be dropped is there.
CanGoOn(q) ==
  /\ \A i \in 1 .. Len(todo[q]) : todo[q][i].op = "deliver" => todo[q][i].msg \in 1 .. Len(calls)
  /\ HasOp(todo[q], "pop") => saved[q] # << >>

\* Nothing happens to rank q.
Same(q) ==
  /\ todo'[q] = todo[q] /\ taken'[q] = taken[q] /\ comm'[q] = comm[q] /\ id'[q] = id[q]
  /\ saved'[q] = saved[q] /\ told'[q] = told[q] /\ printed'[q] = printed[q]
  /\ locked'[q] = locked[q] /\ ready'[q] = ready[q]

\* Rank q does its first operation, and has `first` to do instead.
Does(q, first) ==
  LET s == todo[q]
      o == todo[q][1]
      root == q = Root(comm[q])
  IN  /\ s # << >> /\ Moves(s, first) /\ todo'[q] \in Seq(AnyStep) /\ Replaces(s, first, todo'[q])
      /\ told'[q] = IF o.op = "say" THEN told[q] \cup {o.msg} ELSE told[q]
      /\ comm'[q] = IF o.op = "setComm" THEN o.comm ELSE comm[q]
      /\ o.op = "deliver" => taken'[q] = o.msg
      /\ o.op \notin {"deliver", "ask"} => taken'[q] = taken[q]
      /\ saved'[q] = IF o.op = "say" /\ first = << >> THEN Append(saved[q], o.msg)
                     ELSE IF o.op = "pop" THEN Tail(saved[q]) ELSE saved[q]
      /\ printed'[q] = IF o.op = "line" /\ q = Root(calls[taken[q]].comm) THEN Append(printed[q], taken[q]) ELSE printed[q]
      /\ locked'[q] = (locked[q] \/ (o.op = "setLog" /\ mode # "off"))
      /\ ready'[q] = (ready[q] \/ o.op = "ready")
      /\ o.op = "say" => (first = << >> <=> ~locked[q] \/ (mode = "engine" /\ ~ready[q]))
      /\ o.op = "flush" => IF saved[q] = << >> THEN first = << >>
                           ELSE first = <<Deliver(Head(saved[q])), Op("pop"), Op("flush")>>
      /\ o.op = "deliver" =>
           first = IF calls[o.msg].black THEN << >>
                   ELSE IF mode = "engine"
                   THEN <<SetComm(calls[o.msg].comm, TRUE), NameLog, Op("writeLog"), SetComm(comm[q], FALSE), Op("line")>>
                   ELSE <<Op("line")>>
      /\ o.op = "setComm" => (o.sync <=> first # << >> /\ first[Len(first)] = Sync)
      /\ o.op = "writeLog" /\ root =>
           stream' = [stream EXCEPT ![comm[q]] = Append(@, [jid |-> id[q], node |-> "log", call |-> taken[q]])]
      /\ o.op \notin {"sync", "ask", "write"} => id'[q] = IF o.op \in {"name", "writeLog"} /\ root THEN id[q] + 1 ELSE id[q]
      /\ o.op \in {"ask", "write"} => id'[q] >= id[q]

\* The message of rank q is refused.
Refuses(q) ==
  /\ Doing(q, "writeLog") /\ q = Root(comm[q])
  /\ todo' = [todo EXCEPT ![q] = Tail(Tail(@))]
  /\ saved' = [saved EXCEPT ![q] = Append(@, taken[q])]
  /\ id' = [id EXCEPT ![q] = @ + 1] /\ refused' = refused + 1
  /\ UNCHANGED <<taken, comm, told, printed, locked, ready, stream>>

\* Rank r does something, and no other.
Alone(r) == (\E first : Does(r, first)) /\ \A q \in Ranks \ {r} : Same(q)

\* A rank that replaces its first operation.
LEMMA InsteadMoves ==
  ASSUME todo \in [Ranks -> Seq(AnyStep)], NEW r \in Ranks, todo[r] # << >>, NEW first, Moves(todo[r], first),
         Instead(r, first)
  PROVE  /\ todo' \in [Ranks -> Seq(AnyStep)] /\ todo'[r] \in Seq(AnyStep) /\ Replaces(todo[r], first, todo'[r])
         /\ \A q \in Ranks \ {r} : todo'[q] = todo[q]
<1>1. todo[r] \in Seq(AnyStep)
  OBVIOUS
<1>2. first \in Seq(AnyStep)
  BY <1>1, MovesFacts
<1> DEFINE t == first \o Tail(todo[r])
<1>3. t \in Seq(AnyStep) /\ Replaces(todo[r], first, t)
  BY <1>1, <1>2, ReplacesFacts
<1>4. todo' = [todo EXCEPT ![r] = t]
  BY DEF Instead
<1> HIDE DEF t
<1>5. QED
  BY <1>3, <1>4

\* Ranks that go on together.
LEMMA GoOnMoves ==
  ASSUME todo \in [Ranks -> Seq(AnyStep)], NEW c \in SUBSET Ranks, \A r \in c : todo[r] # << >> /\ todo[r][1].op # "start",
         GoOn(c)
  PROVE  /\ todo' \in [Ranks -> Seq(AnyStep)]
         /\ \A r \in c : /\ Moves(todo[r], << >>) /\ todo'[r] \in Seq(AnyStep) /\ Replaces(todo[r], << >>, todo'[r])
         /\ \A r \in Ranks \ c : todo'[r] = todo[r]
<1>1. ASSUME NEW r \in c
      PROVE  /\ todo'[r] = Tail(todo[r]) /\ Moves(todo[r], << >>) /\ Tail(todo[r]) \in Seq(AnyStep)
             /\ Replaces(todo[r], << >>, Tail(todo[r]))
  <2>1. todo'[r] = Tail(todo[r]) /\ todo[r] \in Seq(AnyStep) /\ todo[r] # << >>
    BY DEF GoOn
  <2>2. << >> \in Seq(AnyStep)
    OBVIOUS
  <2>3. << >> \o Tail(todo[r]) \in Seq(AnyStep) /\ Replaces(todo[r], << >>, << >> \o Tail(todo[r]))
    BY <2>1, <2>2, ReplacesFacts
  <2>4. Tail(todo[r]) \in Seq(AnyStep)
    BY <2>1, HeadTail
  <2>5. << >> \o Tail(todo[r]) = Tail(todo[r])
    BY <2>4
  <2>6. QED
    BY <2>1, <2>3, <2>4, <2>5 DEF Moves
<1>2. \A r \in Ranks \ c : todo'[r] = todo[r]
  BY DEF GoOn
<1>3. todo' \in [Ranks -> Seq(AnyStep)]
  BY <1>1, <1>2 DEF GoOn
<1>4. QED
  BY <1>1, <1>2, <1>3

\* The operation a rank does.
LEMMA DoingStep ==
  ASSUME todo \in [Ranks -> Seq(AnyStep)], NEW r \in Ranks, NEW op, Doing(r, op)
  PROVE  /\ todo[r] # << >> /\ todo[r][1].op = op /\ todo[r][1] \in AnyStep /\ Head1(r) = todo[r][1]
         /\ 1 \in 1 .. Len(todo[r]) /\ HasOp(todo[r], op)
<1>1. todo[r] \in Seq(AnyStep) /\ todo[r] # << >> /\ todo[r][1].op = op
  BY DEF Doing
<1>2. Len(todo[r]) \in Nat /\ Len(todo[r]) # 0
  BY <1>1, LenProperties, EmptySeq
<1>3. 1 \in 1 .. Len(todo[r])
  BY <1>2
<1>4. QED
  BY <1>1, <1>3, HeadTail DEF Head1, HasOp

\* A node is written.
LEMMA AppendTyped ==
  ASSUME stream \in [AllComms -> Seq(Entry)], NEW c, NEW e \in Entry, stream' = [stream EXCEPT ![c] = Append(@, e)]
  PROVE  /\ stream' \in [AllComms -> Seq(Entry)]
         /\ \A d \in AllComms : stream'[d] = IF d = c THEN Append(stream[d], e) ELSE stream[d]
<1>1. \A d \in AllComms : Append(stream[d], e) \in Seq(Entry)
  BY AppendProperties
<1>2. \A d \in AllComms : stream'[d] = IF d = c THEN Append(stream[d], e) ELSE stream[d]
  OBVIOUS
<1>3. stream' = [d \in AllComms |-> IF d = c THEN Append(stream[d], e) ELSE stream[d]]
  BY <1>2
<1>4. QED
  BY <1>1, <1>2, <1>3

\* The operations after which nothing else comes in.
LEMMA PlainDoes ==
  ASSUME StartTyped, NEW r \in Ranks, DoName(r) \/ DoWrite(r), UNCHANGED <<logger, files, reader>>
  PROVE  StartTyped' /\ Alone(r)
<1>1. todo[r] # << >> /\ todo[r][1].op \in {"name", "write"} /\ todo[r][1] \in AnyStep /\ Head1(r) = todo[r][1]
  BY DoingStep DEF DoName, DoWrite, StartTyped
<1>2. Instead(r, << >>) /\ Moves(todo[r], << >>)
  BY <1>1 DEF DoName, DoWrite, Moves
<1>3. /\ todo' \in [Ranks -> Seq(AnyStep)] /\ todo'[r] \in Seq(AnyStep) /\ Replaces(todo[r], << >>, todo'[r])
      /\ \A q \in Ranks \ {r} : todo'[q] = todo[q]
  BY <1>1, <1>2, InsteadMoves DEF StartTyped
<1>4. /\ id' \in [Ranks -> Nat] /\ \A q \in Ranks \ {r} : id'[q] = id[q]
      /\ id'[r] >= id[r]
      /\ todo[r][1].op = "name" => id'[r] = IF r = Root(comm[r]) THEN id[r] + 1 ELSE id[r]
  <2>1. id \in [Ranks -> Nat] /\ (id' = id \/ id' = [id EXCEPT ![r] = id[r] + 1])
    BY DEF DoName, DoWrite, StartTyped
  <2>2. todo[r][1].op = "name" => id' = IF r = Root(comm[r]) THEN [id EXCEPT ![r] = id[r] + 1] ELSE id
    BY <1>1 DEF DoName, DoWrite, Doing
  <2>3. QED
    BY <2>1, <2>2
<1>5. stream' \in [AllComms -> Seq(Entry)]
  <2>1. CASE DoWrite(r)
    <3>1. todo[r][1].op = "write" => todo[r][1].node \in WrittenNodes
      BY <1>1, StepCases
    <3>2. [jid |-> id[r], node |-> Head1(r).node, call |-> taken[r]] \in Entry
      BY <1>1, <2>1, <3>1 DEF DoWrite, Doing, Entry, StartTyped
    <3> DEFINE e == [jid |-> id[r], node |-> Head1(r).node, call |-> taken[r]]
    <3> HIDE DEF e
    <3>3. stream' = stream \/ stream' = [stream EXCEPT ![comm[r]] = Append(@, e)]
      BY <2>1 DEF DoWrite, e
    <3>4. QED
      BY <3>2, <3>3, AppendTyped DEF StartTyped, e
  <2>2. CASE DoName(r)
    BY <2>2 DEF DoName, StartTyped
  <2>3. QED
    BY <2>1, <2>2
<1>6. /\ UNCHANGED <<calls, taken, comm>> /\ UNCHANGED <<logger, files, reader>>
  BY DEF DoName, DoWrite, app
<1>7. StartTyped'
  BY <1>3, <1>4, <1>5, <1>6 DEF StartTyped, logger, files, reader
<1>8. Does(r, << >>)
  BY <1>1, <1>2, <1>3, <1>4, <1>6, SMTT(30) DEF Does, logger, files, StartTyped
<1>9. \A q \in Ranks \ {r} : Same(q)
  BY <1>3, <1>4, <1>6 DEF Same, logger, files
<1>10. QED
  BY <1>7, <1>8, <1>9 DEF Alone

\* One lemma for each step: it keeps the types, and says what it does to its rank or ranks.
\* First the steps of one rank.
LEMMA WriteLogDoes ==
  ASSUME StartTyped, NEW r \in Ranks, DoWriteLog(r)
  PROVE  StartTyped' /\ Alone(r)
<1>1. todo[r] # << >> /\ todo[r][1].op = "writeLog"
  BY DoingStep DEF DoWriteLog, StartTyped
<1>2. Instead(r, << >>) /\ Moves(todo[r], << >>)
  BY <1>1 DEF DoWriteLog, Moves
<1>3. /\ todo' \in [Ranks -> Seq(AnyStep)] /\ todo'[r] \in Seq(AnyStep) /\ Replaces(todo[r], << >>, todo'[r])
      /\ \A q \in Ranks \ {r} : todo'[q] = todo[q]
  BY <1>1, <1>2, InsteadMoves DEF StartTyped
<1> DEFINE e == [jid |-> id[r], node |-> "log", call |-> taken[r]]
<1>4. IF r = Root(comm[r])
      THEN id' = [id EXCEPT ![r] = @ + 1] /\ stream' = [stream EXCEPT ![comm[r]] = Append(@, e)]
      ELSE id' = id /\ stream' = stream
  BY DEF DoWriteLog
<1>5. e \in Entry
  BY DEF StartTyped, Entry
<1> HIDE DEF e
<1>6. stream' \in [AllComms -> Seq(Entry)]
  BY <1>4, <1>5, AppendTyped DEF StartTyped
<1>7. /\ id' \in [Ranks -> Nat] /\ \A q \in Ranks \ {r} : id'[q] = id[q]
      /\ id'[r] = IF r = Root(comm[r]) THEN id[r] + 1 ELSE id[r]
  <2>1. CASE r = Root(comm[r])
    <3>1. id' = [id EXCEPT ![r] = id[r] + 1] /\ id \in [Ranks -> Nat]
      BY <1>4, <2>1 DEF StartTyped
    <3>2. QED
      BY <2>1, <3>1
  <2>2. CASE r # Root(comm[r])
    BY <1>4, <2>2 DEF StartTyped
  <2>3. QED
    BY <2>1, <2>2
<1>8. UNCHANGED <<calls, taken, comm, logger, files, reader>>
  BY DEF DoWriteLog, app
<1>9. StartTyped'
  BY <1>3, <1>6, <1>7, <1>8 DEF StartTyped, logger, files, reader
<1>10. Does(r, << >>)
  BY <1>1, <1>2, <1>3, <1>4, <1>7, <1>8 DEF Does, logger, files, StartTyped, e
<1>11. \A q \in Ranks \ {r} : Same(q)
  BY <1>3, <1>7, <1>8 DEF Same, logger, files
<1>12. QED
  BY <1>9, <1>10, <1>11 DEF Alone

\* The step that changes the communicator.
LEMMA SetCommDoes ==
  ASSUME StartTyped, NEW r \in Ranks, DoSetComm(r), UNCHANGED <<logger, files, reader>>
  PROVE  StartTyped' /\ Alone(r)
<1>1. todo[r] # << >> /\ todo[r][1].op = "setComm" /\ todo[r][1] \in AnyStep /\ Head1(r) = todo[r][1]
  BY DoingStep DEF DoSetComm, StartTyped
<1> DEFINE o == todo[r][1]
           news == IF Announces(r, o.comm) THEN <<Gather>> ELSE << >>
           syncs == IF o.sync THEN <<Sync>> ELSE << >>
           first == news \o syncs
<1>2. Instead(r, first) /\ comm' = [comm EXCEPT ![r] = o.comm]
  BY <1>1 DEF DoSetComm
<1>a. o.comm \in AllComms \cup {{}} /\ o.sync \in BOOLEAN
  BY <1>1, StepCases
<1>3. /\ first \in {<< >>, <<Gather>>, <<Sync>>, <<Gather, Sync>>}
      /\ o.sync <=> first # << >> /\ first[Len(first)] = Sync
  <2>1. CASE Announces(r, o.comm) /\ o.sync
    <3>1. first = <<Gather, Sync>>
      <4>1. news = <<Gather>> /\ syncs = <<Sync>>
        BY <2>1
      <4>2. <<Gather>> \o <<Sync>> = <<Gather, Sync>>
        <5> DEFINE u == <<Gather>> \o <<Sync>>
                   v == <<Gather, Sync>>
        <5>1. /\ <<Gather>> \in Seq({Gather, Sync}) /\ Len(<<Gather>>) = 1 /\ <<Gather>>[1] = Gather
              /\ <<Sync>> \in Seq({Gather, Sync}) /\ Len(<<Sync>>) = 1 /\ <<Sync>>[1] = Sync
          BY TupleFacts
        <5>2. u \in Seq({Gather, Sync}) /\ Len(u) = 2 /\ u[1] = Gather /\ u[2] = Sync
          BY <5>1
        <5>3. v \in Seq({Gather, Sync}) /\ Len(v) = 2 /\ v[1] = Gather /\ v[2] = Sync
          BY TupleFacts
        <5> HIDE DEF u, v
        <5>4. \A i \in 1 .. Len(u) : u[i] = v[i]
          BY <5>2, <5>3
        <5>5. u = v
          BY <5>2, <5>3, <5>4, SeqEqual
        <5>6. QED
          BY <5>5 DEF u, v
      <4>3. QED
        BY <4>1, <4>2
    <3>2. QED
      BY <2>1, <3>1
  <2>2. CASE Announces(r, o.comm) /\ ~o.sync
    <3>1. first = <<Gather>> /\ Gather # Sync
      BY <2>2 DEF Gather, Sync
    <3>2. QED
      BY <2>2, <3>1
  <2>3. CASE ~Announces(r, o.comm) /\ o.sync
    <3>1. first = <<Sync>>
      BY <2>3
    <3>2. QED
      BY <2>3, <3>1
  <2>4. CASE ~Announces(r, o.comm) /\ ~o.sync
    <3>1. first = << >>
      BY <2>4
    <3>2. QED
      BY <2>4, <3>1
  <2>5. QED
    BY <2>1, <2>2, <2>3, <2>4
<1> HIDE DEF first
<1>4. Moves(todo[r], first)
  BY <1>1, <1>3 DEF Moves
<1>5. /\ todo' \in [Ranks -> Seq(AnyStep)] /\ todo'[r] \in Seq(AnyStep) /\ Replaces(todo[r], first, todo'[r])
      /\ \A q \in Ranks \ {r} : todo'[q] = todo[q]
  BY <1>1, <1>2, <1>4, InsteadMoves DEF StartTyped
<1>6. UNCHANGED <<calls, taken, id, stream, logger, files, reader>>
  BY DEF DoSetComm, app
<1>7. comm' \in [Ranks -> AllComms \cup {{}}] /\ comm'[r] = o.comm /\ \A q \in Ranks \ {r} : comm'[q] = comm[q]
  BY <1>2, <1>a DEF StartTyped
<1>8. StartTyped'
  BY <1>5, <1>6, <1>7 DEF StartTyped, logger, files, reader
<1>9. Does(r, first)
  BY <1>1, <1>3, <1>4, <1>5, <1>6, <1>7 DEF Does, logger, files, StartTyped
<1>10. \A q \in Ranks \ {r} : Same(q)
  BY <1>5, <1>6, <1>7 DEF Same, logger, files
<1>11. QED
  BY <1>8, <1>9, <1>10 DEF Alone

\* A message is logged.
LEMMA SayDoes ==
  ASSUME StartTyped, NEW r \in Ranks, DoSay(r)
  PROVE  StartTyped' /\ Alone(r)
<1>1. todo[r] # << >> /\ todo[r][1].op = "say" /\ todo[r][1] \in AnyStep /\ Head1(r) = todo[r][1]
  BY DoingStep DEF DoSay, StartTyped
<1> DEFINE n == todo[r][1].msg
           hold == ~locked[r] \/ (mode = "engine" /\ ~ready[r])
           first == IF hold THEN << >> ELSE <<Op("flush"), Deliver(n)>>
<1>2. n \in Nat
  BY <1>1, StepCases
<1>3. /\ Instead(r, first) /\ told' = [told EXCEPT ![r] = @ \cup {n}]
      /\ IF hold THEN saved' = [saved EXCEPT ![r] = Append(@, n)] ELSE saved' = saved
  BY <1>1 DEF DoSay, LogWithSaved
<1>4. Moves(todo[r], first)
  BY <1>1 DEF Moves
<1>5. /\ todo' \in [Ranks -> Seq(AnyStep)] /\ todo'[r] \in Seq(AnyStep) /\ Replaces(todo[r], first, todo'[r])
      /\ \A q \in Ranks \ {r} : todo'[q] = todo[q]
  BY <1>1, <1>3, <1>4, InsteadMoves DEF StartTyped
<1>6. first = << >> <=> hold
  <2>1. <<Op("flush"), Deliver(n)>> # << >>
    OBVIOUS
  <2>2. QED
    BY <2>1
<1> HIDE DEF first
<1>7. UNCHANGED <<calls, taken, mode, locked, printed, refused>> /\ UNCHANGED engine /\ UNCHANGED files /\ UNCHANGED reader
  BY DEF DoSay, app
<1>8. /\ told' \in [Ranks -> SUBSET Nat] /\ told'[r] = told[r] \cup {n} /\ \A q \in Ranks \ {r} : told'[q] = told[q]
  BY <1>2, <1>3 DEF StartTyped
<1>9. /\ saved' \in [Ranks -> Seq(Nat)] /\ \A q \in Ranks \ {r} : saved'[q] = saved[q]
      /\ saved'[r] = IF hold THEN Append(saved[r], n) ELSE saved[r]
  <2>1. Append(saved[r], n) \in Seq(Nat)
    BY <1>2, AppendProperties DEF StartTyped
  <2>2. QED
    BY <1>3, <2>1 DEF StartTyped
<1>10. StartTyped'
  BY <1>5, <1>7, <1>8, <1>9 DEF StartTyped, engine, files, reader
<1>11. Does(r, first)
  BY <1>1, <1>4, <1>5, <1>6, <1>7, <1>8, <1>9 DEF Does, engine, files, StartTyped
<1>12. \A q \in Ranks \ {r} : Same(q)
  BY <1>5, <1>7, <1>8, <1>9 DEF Same, engine, files
<1>13. QED
  BY <1>10, <1>11, <1>12 DEF Alone

\* The saved messages are taken from the list one by one.
LEMMA FlushDoes ==
  ASSUME StartTyped, NEW r \in Ranks, CanGoOn(r), DoFlush(r) \/ DoPop(r)
  PROVE  StartTyped' /\ Alone(r)
<1>1. todo[r] # << >> /\ todo[r][1].op \in {"flush", "pop"}
  BY DoingStep DEF DoFlush, DoPop, StartTyped
<1>2. PICK first : /\ Instead(r, first) /\ Moves(todo[r], first)
                   /\ todo[r][1].op = "pop" => first = << >>
                   /\ todo[r][1].op = "flush" => IF saved[r] = << >> THEN first = << >>
                                                 ELSE first = <<Deliver(Head(saved[r])), Op("pop"), Op("flush")>>
  <2>1. CASE DoFlush(r)
    <3>1. todo[r][1].op = "flush"
      BY <2>1, DoingStep DEF DoFlush, StartTyped
    <3> DEFINE first == IF saved[r] = << >> THEN << >> ELSE <<Deliver(Head(saved[r])), Op("pop"), Op("flush")>>
    <3>2. saved[r] # << >> => Head(saved[r]) \in Nat
      BY HeadTailProperties DEF StartTyped
    <3>3. Instead(r, first) /\ Moves(todo[r], first)
      BY <2>1, <3>1, <3>2 DEF DoFlush, Moves
    <3>4. QED
      BY <3>1, <3>3
  <2>2. CASE DoPop(r)
    BY <1>1, <2>2, DoingStep DEF DoPop, Moves, Doing
  <2>3. QED
    BY <2>1, <2>2
<1>3. /\ todo' \in [Ranks -> Seq(AnyStep)] /\ todo'[r] \in Seq(AnyStep) /\ Replaces(todo[r], first, todo'[r])
      /\ \A q \in Ranks \ {r} : todo'[q] = todo[q]
  BY <1>1, <1>2, InsteadMoves DEF StartTyped
<1>4. IF todo[r][1].op = "pop" THEN saved' = [saved EXCEPT ![r] = Tail(@)] ELSE saved' = saved
  BY <1>1 DEF DoFlush, DoPop, Doing, logger
<1>5. UNCHANGED <<calls, taken, mode, locked, told, printed, refused>> /\ UNCHANGED engine /\ UNCHANGED files /\ UNCHANGED reader
  BY DEF DoFlush, DoPop, app, logger
<1>6. /\ saved' \in [Ranks -> Seq(Nat)] /\ \A q \in Ranks \ {r} : saved'[q] = saved[q]
      /\ saved'[r] = IF todo[r][1].op = "pop" THEN Tail(saved[r]) ELSE saved[r]
  <2>1. CASE todo[r][1].op = "pop"
    <3>1. Tail(saved[r]) \in Seq(Nat)
      <4>1. HasOp(todo[r], "pop")
        BY <1>1, <2>1, DoingStep DEF Doing, StartTyped
      <4>2. QED
        BY <4>1, HeadTailProperties DEF StartTyped, CanGoOn
    <3>2. QED
      BY <1>4, <2>1, <3>1 DEF StartTyped
  <2>2. QED
    BY <1>4, <2>1 DEF StartTyped
<1>7. StartTyped'
  BY <1>3, <1>5, <1>6 DEF StartTyped, engine, files, reader
<1>8. Does(r, first)
  BY <1>1, <1>2, <1>3, <1>5, <1>6 DEF Does, engine, files, StartTyped
<1>9. \A q \in Ranks \ {r} : Same(q)
  BY <1>3, <1>5, <1>6 DEF Same, engine, files
<1>10. QED
  BY <1>7, <1>8, <1>9 DEF Alone

\* A message is delivered.
LEMMA DeliverDoes ==
  ASSUME StartTyped, NEW r \in Ranks, CanGoOn(r), DoDeliver(r)
  PROVE  StartTyped' /\ Alone(r)
<1> DEFINE n == todo[r][1].msg
           first == IF calls[n].black THEN << >>
                    ELSE IF mode = "engine"
                    THEN <<SetComm(calls[n].comm, TRUE), NameLog, Op("writeLog"), SetComm(comm[r], FALSE), Op("line")>>
                    ELSE <<Op("line")>>
<1>1. todo[r] # << >> /\ todo[r][1].op = "deliver" /\ todo[r][1] \in AnyStep /\ Head1(r) = todo[r][1]
  BY DoingStep DEF DoDeliver, StartTyped
<1>2. n \in 1 .. Len(calls) /\ n \in Nat
  <2>1. 1 \in 1 .. Len(todo[r])
    BY <1>1, LenProperties, EmptySeq DEF StartTyped
  <2>2. QED
    BY <1>1, <2>1, StepCases DEF CanGoOn
<1>3. calls[n] \in [comm : AllComms, black : BOOLEAN] /\ comm[r] \in AllComms \cup {{}}
  BY <1>2, ElementOfSeq DEF StartTyped
<1>4. Instead(r, first) /\ taken' = [taken EXCEPT ![r] = n]
  BY <1>1 DEF DoDeliver
<1>5. Moves(todo[r], first)
  <2>1. calls[n].comm \in AllComms \cup {{}}
    BY <1>3
  <2>2. QED
    BY <1>1, <1>3, <2>1 DEF Moves
<1>6. first = IF calls[n].black THEN << >>
              ELSE IF mode = "engine"
              THEN <<SetComm(calls[n].comm, TRUE), NameLog, Op("writeLog"), SetComm(comm[r], FALSE), Op("line")>>
              ELSE <<Op("line")>>
  OBVIOUS
<1> HIDE DEF first
<1>7. /\ todo' \in [Ranks -> Seq(AnyStep)] /\ todo'[r] \in Seq(AnyStep) /\ Replaces(todo[r], first, todo'[r])
      /\ \A q \in Ranks \ {r} : todo'[q] = todo[q]
  BY <1>1, <1>4, <1>5, InsteadMoves DEF StartTyped
<1>8. taken' \in [Ranks -> Nat] /\ taken'[r] = n /\ \A q \in Ranks \ {r} : taken'[q] = taken[q]
  BY <1>2, <1>4 DEF StartTyped
<1>9. UNCHANGED calls /\ UNCHANGED engine /\ UNCHANGED logger /\ UNCHANGED files /\ UNCHANGED reader
  BY DEF DoDeliver, app
<1>10. StartTyped'
  BY <1>7, <1>8, <1>9 DEF StartTyped, engine, logger, files, reader
<1>11. Does(r, first)
  BY <1>1, <1>5, <1>6, <1>7, <1>8, <1>9 DEF Does, engine, logger, files, StartTyped
<1>12. \A q \in Ranks \ {r} : Same(q)
  BY <1>7, <1>8, <1>9 DEF Same, engine, logger, files
<1>13. QED
  BY <1>10, <1>11, <1>12 DEF Alone

\* A message is put into a file or stream.
LEMMA LineDoes ==
  ASSUME StartTyped, NEW r \in Ranks, DoLine(r)
  PROVE  StartTyped' /\ Alone(r)
<1>1. todo[r] # << >> /\ todo[r][1].op = "line"
  BY DoingStep DEF DoLine, StartTyped
<1>2. Instead(r, << >>) /\ Moves(todo[r], << >>)
  BY <1>1 DEF DoLine, Moves
<1>3. /\ todo' \in [Ranks -> Seq(AnyStep)] /\ todo'[r] \in Seq(AnyStep) /\ Replaces(todo[r], << >>, todo'[r])
      /\ \A q \in Ranks \ {r} : todo'[q] = todo[q]
  BY <1>1, <1>2, InsteadMoves DEF StartTyped
<1>4. UNCHANGED <<calls, taken, mode, locked, saved, told, refused>> /\ UNCHANGED engine /\ UNCHANGED files /\ UNCHANGED reader
  BY DEF DoLine, app
<1>5. /\ printed' \in [Ranks -> Seq(Nat)] /\ \A q \in Ranks \ {r} : printed'[q] = printed[q]
      /\ printed'[r] = IF r = Root(calls[taken[r]].comm) THEN Append(printed[r], taken[r]) ELSE printed[r]
  <2>1. Append(printed[r], taken[r]) \in Seq(Nat)
    BY AppendProperties DEF StartTyped
  <2>2. CASE r = Root(calls[taken[r]].comm)
    BY <2>1, <2>2 DEF DoLine, StartTyped
  <2>3. CASE r # Root(calls[taken[r]].comm)
    BY <2>3 DEF DoLine, StartTyped
  <2>4. QED
    BY <2>2, <2>3
<1>6. StartTyped'
  BY <1>3, <1>4, <1>5 DEF StartTyped, engine, files, reader
<1>7. Does(r, << >>)
  BY <1>1, <1>2, <1>3, <1>4, <1>5 DEF Does, engine, files, StartTyped
<1>8. \A q \in Ranks \ {r} : Same(q)
  BY <1>3, <1>4, <1>5 DEF Same, engine, files
<1>9. QED
  BY <1>6, <1>7, <1>8 DEF Alone

\* The logger is set and ready.
LEMMA SetDoes ==
  ASSUME StartTyped, NEW r \in Ranks, DoSet(r)
  PROVE  StartTyped' /\ Alone(r)
<1>1. todo[r] # << >> /\ todo[r][1].op \in {"setLog", "ready"}
  BY DoingStep DEF DoSet, StartTyped
<1>2. Instead(r, << >>) /\ Moves(todo[r], << >>)
  BY <1>1 DEF DoSet, Moves
<1>3. /\ todo' \in [Ranks -> Seq(AnyStep)] /\ todo'[r] \in Seq(AnyStep) /\ Replaces(todo[r], << >>, todo'[r])
      /\ \A q \in Ranks \ {r} : todo'[q] = todo[q]
  BY <1>1, <1>2, InsteadMoves DEF StartTyped
<1>4. UNCHANGED <<calls, taken, mode, saved, told, printed, refused, dirs, dir>> /\ UNCHANGED engine /\ UNCHANGED reader
  BY DEF DoSet, app
<1>5. /\ locked' \in [Ranks -> BOOLEAN] /\ \A q \in Ranks \ {r} : locked'[q] = locked[q]
      /\ locked'[r] = (locked[r] \/ (todo[r][1].op = "setLog" /\ mode # "off"))
  <2>1. locked' = IF todo[r][1].op = "setLog" /\ mode # "off" THEN [locked EXCEPT ![r] = TRUE] ELSE locked
    BY <1>1 DEF DoSet, Doing
  <2>2. locked \in [Ranks -> BOOLEAN]
    BY DEF StartTyped
  <2>3. QED
    BY <2>1, <2>2
<1>6. /\ ready' \in [Ranks -> BOOLEAN] /\ \A q \in Ranks \ {r} : ready'[q] = ready[q]
      /\ ready'[r] = (ready[r] \/ todo[r][1].op = "ready")
  <2>1. ready' = IF todo[r][1].op = "ready" THEN [ready EXCEPT ![r] = TRUE] ELSE ready
    BY <1>1 DEF DoSet, Doing
  <2>2. ready \in [Ranks -> BOOLEAN]
    BY DEF StartTyped
  <2>3. QED
    BY <2>1, <2>2
<1>7. StartTyped'
  BY <1>3, <1>4, <1>5, <1>6 DEF StartTyped, engine, reader
<1>8. Does(r, << >>)
  BY <1>1, <1>2, <1>3, <1>4, <1>5, <1>6 DEF Does, engine, StartTyped
<1>9. \A q \in Ranks \ {r} : Same(q)
  BY <1>3, <1>4, <1>5, <1>6 DEF Same, engine
<1>10. QED
  BY <1>7, <1>8, <1>9 DEF Alone

\* The directory is looked at and made.
LEMMA DirectoryDoes ==
  ASSUME StartTyped, NEW r \in Ranks, DoLook(r) \/ DoMakeDir(r)
  PROVE  StartTyped' /\ Alone(r)
<1>1. todo[r] # << >> /\ todo[r][1].op \in {"look", "makeDir"} /\ Head1(r) = todo[r][1]
  BY DoingStep DEF DoLook, DoMakeDir, StartTyped
<1>2. PICK first : Instead(r, first) /\ Moves(todo[r], first)
  <2>1. CASE DoLook(r)
    <3>1. todo[r][1].op = "look"
      BY <2>1, DoingStep DEF DoLook, StartTyped
    <3>2. Instead(r, IF 0 \in dirs THEN <<Op("castDir"), Say(todo[r][1].warning)>> ELSE << >>)
      BY <1>1, <2>1 DEF DoLook
    <3>3. Moves(todo[r], IF 0 \in dirs THEN <<Op("castDir"), Say(todo[r][1].warning)>> ELSE << >>)
      BY <3>1 DEF Moves
    <3>4. QED
      BY <3>2, <3>3
  <2>2. CASE DoMakeDir(r)
    BY <1>1, <2>2 DEF DoMakeDir, Moves
  <2>3. QED
    BY <2>1, <2>2
<1>3. /\ todo' \in [Ranks -> Seq(AnyStep)] /\ todo'[r] \in Seq(AnyStep) /\ Replaces(todo[r], first, todo'[r])
      /\ \A q \in Ranks \ {r} : todo'[q] = todo[q]
  BY <1>1, <1>2, InsteadMoves DEF StartTyped
<1>4. UNCHANGED <<calls, taken, ready>> /\ UNCHANGED engine /\ UNCHANGED logger /\ UNCHANGED reader
  BY DEF DoLook, DoMakeDir, app
<1>5. dir' = [q \in Ranks |-> dir'[q]]
  BY DEF DoLook, DoMakeDir, StartTyped
<1>6. StartTyped'
  BY <1>3, <1>4, <1>5 DEF StartTyped, engine, logger, reader
<1>7. Does(r, first)
  BY <1>1, <1>2, <1>3, <1>4 DEF Does, engine, logger, StartTyped
<1>8. \A q \in Ranks \ {r} : Same(q)
  BY <1>3, <1>4 DEF Same, engine, logger
<1>9. QED
  BY <1>6, <1>7, <1>8 DEF Alone

\* A question is asked and polled.
LEMMA QuestionDoes ==
  ASSUME StartTyped, NEW r \in Ranks, DoAsk(r) \/ DoPoll(r) \/ DoTimeout(r)
  PROVE  StartTyped' /\ Alone(r)
<1>1. todo[r] # << >> /\ todo[r][1].op \in {"ask", "poll"}
  BY DoingStep DEF DoAsk, DoPoll, DoTimeout, StartTyped
<1>2. PICK first : Instead(r, first) /\ Moves(todo[r], first)
  BY <1>1 DEF DoAsk, DoPoll, DoTimeout, Moves, WrittenNodes
<1>3. /\ todo' \in [Ranks -> Seq(AnyStep)] /\ todo'[r] \in Seq(AnyStep) /\ Replaces(todo[r], first, todo'[r])
      /\ \A q \in Ranks \ {r} : todo'[q] = todo[q]
  BY <1>1, <1>2, InsteadMoves DEF StartTyped
<1>4. UNCHANGED <<calls, comm, stream>> /\ UNCHANGED logger /\ UNCHANGED files /\ UNCHANGED answers
  BY DEF DoAsk, DoPoll, DoTimeout, app, engine, reader
<1>5. todo[r][1].op = "poll" => taken' = taken /\ id' = id
  BY DEF DoAsk, DoPoll, DoTimeout, engine, Doing
<1>6. (taken' = taken \/ taken' = [taken EXCEPT ![r] = id[r]]) /\ (id' = id \/ id' = [id EXCEPT ![r] = id[r] + 1])
  BY DEF DoAsk, DoPoll, DoTimeout, engine
<1>7. /\ taken' \in [Ranks -> Nat] /\ id' \in [Ranks -> Nat] /\ id'[r] >= id[r]
      /\ \A q \in Ranks \ {r} : taken'[q] = taken[q] /\ id'[q] = id[q]
  <2>1. taken \in [Ranks -> Nat] /\ id \in [Ranks -> Nat]
    BY DEF StartTyped
  <2>2. QED
    BY <1>6, <2>1
<1>8. answer' \in [Ranks -> Seq([asked : Nat, got : Int])]
  <2>1. \/ answer' = answer
        \/ \E got \in Int : answer' = [answer EXCEPT ![r] = Append(@, [asked |-> taken[r], got |-> got])]
    <3>1. CASE DoPoll(r)
      <4>1. \A a \in answers : a.file \in Nat /\ a.to = a.file
        BY DEF StartTyped
      <4>2. \A a \in answers : a.to \in Int
        BY <4>1
      <4>3. QED
        BY <3>1, <4>2 DEF DoPoll
    <3>2. CASE DoTimeout(r)
      <4>1. answer' = [answer EXCEPT ![r] = Append(@, [asked |-> taken[r], got |-> -1])] /\ -1 \in Int
        BY <3>2 DEF DoTimeout
      <4>2. QED
        BY <4>1
    <3>3. CASE DoAsk(r)
      BY <3>3 DEF DoAsk, reader
    <3>4. QED
      BY <3>1, <3>2, <3>3
  <2>2. \A got \in Int : Append(answer[r], [asked |-> taken[r], got |-> got]) \in Seq([asked : Nat, got : Int])
    <3>1. \A got \in Int : [asked |-> taken[r], got |-> got] \in [asked : Nat, got : Int]
      BY DEF StartTyped
    <3>2. answer[r] \in Seq([asked : Nat, got : Int])
      BY DEF StartTyped
    <3>3. QED
      BY <3>1, <3>2, AppendProperties
  <2>3. QED
    BY <2>1, <2>2 DEF StartTyped
<1>9. StartTyped'
  BY <1>3, <1>4, <1>7, <1>8 DEF StartTyped, logger, files
<1>10. Does(r, first)
  BY <1>1, <1>2, <1>3, <1>4, <1>5, <1>7 DEF Does, logger, files, StartTyped
<1>11. \A q \in Ranks \ {r} : Same(q)
  BY <1>3, <1>4, <1>7 DEF Same, logger, files
<1>12. QED
  BY <1>9, <1>10, <1>11 DEF Alone

\* The message that is refused and the operation after it are done.
LEMMA RefuseDoes ==
  ASSUME StartTyped, NEW r \in Ranks, InTurn(todo[r]), RefuseLog(r)
  PROVE  /\ StartTyped' /\ Refuses(r) /\ \A q \in Ranks \ {r} : Same(q)
         /\ todo'[r] \in Seq(AnyStep) /\ Len(todo[r]) \in Nat /\ Len(todo'[r]) = Len(todo[r]) - 2
         /\ \A i \in 1 .. Len(todo'[r]) : i + 2 \in 1 .. Len(todo[r]) /\ todo'[r][i] = todo[r][i + 2]
         /\ Len(todo[r]) >= 3 /\ todo[r][1].op = "writeLog" /\ todo[r][2].op = "setComm" /\ todo[r][3].op = "line"
<1> DEFINE s == todo[r]
           u == Tail(s)
           t == Tail(u)
<1>1. s # << >> /\ s[1].op = "writeLog" /\ s \in Seq(AnyStep) /\ 1 \in 1 .. Len(s) /\ Len(s) \in Nat
  BY DoingStep, LenProperties DEF RefuseLog, StartTyped
<1>2. Len(s) >= 3 /\ s[2].op = "setComm" /\ s[3].op = "line"
  <2>1. 1 + 2 <= Len(s) /\ s[1 + 1].op = "setComm" /\ s[1 + 2].op = "line"
    BY <1>1 DEF InTurn
  <2>2. QED
    BY <1>1, <2>1
<1>3. u \in Seq(AnyStep) /\ Len(u) = Len(s) - 1 /\ \A i \in 1 .. Len(u) : u[i] = s[i + 1]
  BY <1>1, HeadTailProperties
<1>5. u # << >> /\ u[1] = s[2]
  <2>1. Len(u) # 0 /\ 1 \in 1 .. Len(u) /\ 1 + 1 = 2
    BY <1>1, <1>2, <1>3
  <2>2. u # << >>
    BY <1>3, <2>1, EmptySeq
  <2>3. u[1] = s[1 + 1]
    BY <1>3, <2>1
  <2>4. QED
    BY <2>1, <2>2, <2>3
<1>6. todo' = [todo EXCEPT ![r] = t]
  BY DEF RefuseLog
<1> HIDE DEF u
<1>7. /\ t \in Seq(AnyStep) /\ Len(t) = Len(s) - 2
      /\ \A i \in 1 .. Len(t) : i + 2 \in 1 .. Len(s) /\ t[i] = s[i + 2]
  <2>1. t \in Seq(AnyStep) /\ Len(t) = Len(u) - 1 /\ \A i \in 1 .. Len(t) : t[i] = u[i + 1]
    BY <1>3, <1>5, HeadTailProperties
  <2> HIDE DEF t
  <2>2. ASSUME NEW i \in 1 .. Len(t)
        PROVE  i + 2 \in 1 .. Len(s) /\ t[i] = s[i + 2]
    <3>1. i + 1 \in 1 .. Len(u) /\ (i + 1) + 1 = i + 2 /\ i + 2 \in 1 .. Len(s)
      BY <1>1, <1>2, <1>3, <2>1, <2>2
    <3>2. QED
      BY <1>3, <2>1, <2>2, <3>1
  <2>3. QED
    BY <1>1, <1>3, <2>1, <2>2
<1> HIDE DEF t
<1>8. /\ todo' \in [Ranks -> Seq(AnyStep)] /\ todo'[r] = t /\ \A q \in Ranks \ {r} : todo'[q] = todo[q]
  BY <1>6, <1>7 DEF StartTyped
<1>9. UNCHANGED <<calls, taken, comm, stream, mode, locked, told, printed>> /\ UNCHANGED files /\ UNCHANGED reader
  BY DEF RefuseLog, app
<1>10. /\ saved' \in [Ranks -> Seq(Nat)] /\ \A q \in Ranks \ {r} : saved'[q] = saved[q]
  <2>1. Append(saved[r], taken[r]) \in Seq(Nat)
    BY AppendProperties DEF StartTyped
  <2>2. QED
    BY <2>1 DEF RefuseLog, StartTyped
<1>11. id' \in [Ranks -> Nat] /\ \A q \in Ranks \ {r} : id'[q] = id[q]
  <2>1. id \in [Ranks -> Nat] /\ id' = [id EXCEPT ![r] = id[r] + 1]
    BY DEF StartTyped, RefuseLog
  <2>2. QED
    BY <2>1
<1>12. refused' \in Nat
  BY DEF StartTyped, RefuseLog
<1>13. StartTyped'
  BY <1>8, <1>9, <1>10, <1>11, <1>12 DEF StartTyped, files, reader
<1>14. Refuses(r)
  BY <1>9 DEF RefuseLog, Refuses, files
<1>15. \A q \in Ranks \ {r} : Same(q)
  BY <1>8, <1>9, <1>10, <1>11 DEF Same, files
<1>16. QED
  BY <1>1, <1>2, <1>7, <1>8, <1>13, <1>14, <1>15

\* The members of a collective do their operation, and the others nothing.
TogetherDo(c) == (\A q \in c : Does(q, << >>)) /\ \A q \in Ranks \ c : Same(q)

\* The engine's collectives.
LEMMA CollectiveDoes ==
  ASSUME StartTyped, NEW c \in AllComms, Collective(c), UNCHANGED <<logger, files, reader>>
  PROVE  StartTyped' /\ TogetherDo(c)
<1>1. c \subseteq Ranks /\ c # {} /\ Root(c) \in Ranks
  BY CommFacts, RootFacts
<1>2. \A q \in c : todo[q] # << >> /\ todo[q][1].op \in {"gather", "sync"}
  BY DEF Collective, DoGather, DoSync, Together, Doing
<1>a. (\A q \in c : todo[q][1].op = "gather") \/ \A q \in c : todo[q][1].op = "sync"
  BY DEF Collective, DoGather, DoSync, Together, Doing
<1>b. GoOn(c)
  BY DEF Collective, DoGather, DoSync
<1>3. /\ todo' \in [Ranks -> Seq(AnyStep)]
      /\ \A q \in c : Moves(todo[q], << >>) /\ todo'[q] \in Seq(AnyStep) /\ Replaces(todo[q], << >>, todo'[q])
      /\ \A q \in Ranks \ c : todo'[q] = todo[q]
  BY <1>1, <1>2, <1>b, GoOnMoves DEF StartTyped
<1>4. UNCHANGED <<calls, taken, comm>> /\ UNCHANGED logger /\ UNCHANGED files /\ UNCHANGED reader
  BY DEF Collective, DoGather, DoSync, app
<1>5. /\ id' \in [Ranks -> Nat] /\ \A q \in Ranks \ c : id'[q] = id[q]
      /\ \A q \in c : todo[q][1].op # "sync" => id'[q] = id[q]
  <2>1. CASE DoGather(c)
    BY <2>1 DEF DoGather, StartTyped
  <2>2. CASE DoSync(c)
    <3>1. Agreed(c) \in Nat
      BY AgreedFacts DEF StartTyped
    <3>2. \A q \in c : todo[q][1].op = "sync"
      BY <2>2 DEF DoSync, Together, Doing
    <3>3. QED
      BY <1>1, <2>2, <3>1, <3>2 DEF DoSync, StartTyped
  <2>3. QED
    BY <2>1, <2>2 DEF Collective
<1>6. stream' \in [AllComms -> Seq(Entry)]
  <2>1. CASE DoGather(c)
    <3> DEFINE e == [jid |-> -1, node |-> "comminfo", call |-> taken[Root(c)]]
    <3>1. e \in Entry
      BY <1>1 DEF Entry, StartTyped
    <3>2. stream' = [stream EXCEPT ![c] = Append(@, e)]
      BY <2>1 DEF DoGather
    <3> HIDE DEF e
    <3>3. QED
      BY <3>1, <3>2, AppendTyped DEF StartTyped
  <2>2. CASE DoSync(c)
    BY <2>2 DEF DoSync, StartTyped
  <2>3. QED
    BY <2>1, <2>2 DEF Collective
<1>7. StartTyped'
  BY <1>3, <1>4, <1>5, <1>6 DEF StartTyped, logger, files, reader
<1>8. ASSUME NEW q \in c
      PROVE  Does(q, << >>)
  <2>1. /\ q \in Ranks /\ todo[q] # << >> /\ todo[q][1].op \in {"gather", "sync"} /\ Moves(todo[q], << >>)
        /\ todo'[q] \in Seq(AnyStep) /\ Replaces(todo[q], << >>, todo'[q])
        /\ todo[q][1].op # "sync" => id'[q] = id[q]
    BY <1>1, <1>2, <1>3, <1>5
  <2>2. /\ taken' = taken /\ comm' = comm /\ saved' = saved /\ told' = told /\ printed' = printed
        /\ locked' = locked /\ ready' = ready
    BY <1>4 DEF logger, files
  <2>3. locked[q] \in BOOLEAN /\ ready[q] \in BOOLEAN
    BY <2>1 DEF StartTyped
  <2>4. QED
    BY <2>1, <2>2, <2>3 DEF Does
<1>9. \A q \in Ranks \ c : Same(q)
  BY <1>3, <1>4, <1>5 DEF Same, logger, files
<1>10. QED
  BY <1>7, <1>8, <1>9 DEF TogetherDo

\* The collectives of the start on all ranks.
LEMMA MeetingDoes ==
  ASSUME StartTyped, CastDir \/ Meet \/ CastAnswer
  PROVE  StartTyped' /\ TogetherDo(World)
<1>1. World \subseteq Ranks /\ Ranks \subseteq World /\ Root(World) \in Ranks
  BY CommFacts, RootFacts DEF World
<1>2. \A q \in World : todo[q] # << >> /\ todo[q][1].op \in {"castDir", "barrier", "nodeMap", "castAnswer"}
  BY DEF CastDir, Meet, CastAnswer, AllDoing, Doing
<1>b. GoOn(World)
  BY DEF CastDir, Meet, CastAnswer
<1>3. /\ todo' \in [Ranks -> Seq(AnyStep)]
      /\ \A q \in World : Moves(todo[q], << >>) /\ todo'[q] \in Seq(AnyStep) /\ Replaces(todo[q], << >>, todo'[q])
      /\ \A q \in Ranks \ World : todo'[q] = todo[q]
  BY <1>1, <1>2, <1>b, GoOnMoves DEF StartTyped
<1>4. UNCHANGED <<calls, taken, ready, answers>> /\ UNCHANGED engine /\ UNCHANGED logger
  BY DEF CastDir, Meet, CastAnswer, app, files, reader
<1>5. dir' = [r \in Ranks |-> dir'[r]] /\ answer' \in [Ranks -> Seq([asked : Nat, got : Int])]
  <2>1. CASE CastDir
    BY <2>1 DEF CastDir, StartTyped, reader
  <2>2. CASE Meet
    BY <2>2 DEF Meet, StartTyped, files, reader
  <2>3. CASE CastAnswer
    BY <1>1, <2>3 DEF CastAnswer, StartTyped, files, reader
  <2>4. QED
    BY <2>1, <2>2, <2>3
<1>6. StartTyped'
  BY <1>3, <1>4, <1>5 DEF StartTyped, engine, logger
<1>7. \A q \in World : Does(q, << >>)
  BY <1>1, <1>2, <1>3, <1>4, ZenonT(40) DEF Does, engine, logger, StartTyped
<1>8. QED
  BY <1>1, <1>6, <1>7 DEF TogetherDo

-----------------------------------------------------------------------------
(* The books of a rank: what it has still to say, and what it has in hand.  *)

\* Operation o logs message n.
Tells(o, n) == (o.op = "say" /\ o.msg = n) \/ (o.op = "look" /\ o.warning = n)

\* A rank logs its messages in the order of the program.
Telling(q) ==
  LET s == todo[q]
  IN  /\ \A i \in 1 .. Len(s), n \in Nat : Tells(s[i], n) =>
           n \in 1 .. Len(calls) /\ q \in calls[n].comm /\ \A k \in told[q] : k < n
      /\ \A i, k \in 1 .. Len(s), n, p \in Nat : i < k /\ Tells(s[i], n) /\ Tells(s[k], p) => n < p
      /\ \A n \in told[q] : n \in 1 .. Len(calls) /\ q \in calls[n].comm

\* What it has in hand it has logged, and the engine is on the message's communicator
\* when it is written, and on the world when the reader is asked.
Handling(q) ==
  LET s == todo[q]
  IN  /\ InTurn(s)
      /\ \A i \in 1 .. Len(s) : s[i].op = "deliver" => s[i].msg \in told[q]
      /\ \A i \in 1 .. Len(saved[q]) : saved[q][i] \in told[q]
      /\ \A i \in 1 .. Len(s) : s[i].op \in {"line", "name", "writeLog"} => taken[q] \in told[q] /\ ~calls[taken[q]].black
      /\ \A i \in 1 .. Len(s) : s[i].op \in {"name", "writeLog"} => mode = "engine"
      /\ HasOp(s, "pop") => saved[q] # << >>
      /\ OnlyOn(s, comm[q], World, {"ask", "poll", "castAnswer"})
      /\ OnlyOn(s, comm[q], calls[taken[q]].comm, {"name", "writeLog"})

\* A rank still says only what it has not said.
LEMMA TellingKept ==
  ASSUME StartTyped, NEW q \in Ranks, Telling(q), calls' = calls,
         Same(q) \/ (\E first : Does(q, first)) \/ RefuseLog(q), InTurn(todo[q])
  PROVE  Telling(q)'
<1> DEFINE s == todo[q]
           t == todo'[q]
<1>1. s \in Seq(AnyStep) /\ Len(s) \in Nat
  BY LenProperties DEF StartTyped
<1>2. CASE Same(q)
  BY <1>2 DEF Telling, Same
<1>3. ASSUME NEW first, Does(q, first)
      PROVE  Telling(q)'
  <2>1. /\ s # << >> /\ Moves(s, first) /\ t \in Seq(AnyStep) /\ Replaces(s, first, t)
        /\ told'[q] = IF s[1].op = "say" THEN told[q] \cup {s[1].msg} ELSE told[q]
    BY <1>3 DEF Does
  <2>2. first \in Seq(AnyStep) /\ Len(first) \in Nat
    BY <1>1, <2>1, MovesFacts, LenProperties
  <2>3. 1 \in 1 .. Len(s) /\ s[1] \in AnyStep
    BY <1>1, <2>1, HeadTail, EmptySeq
  <2>4. ASSUME NEW i \in 1 .. Len(first), NEW n, Tells(first[i], n)
        PROVE  i = 2 /\ Tells(s[1], n) /\ s[1].op = "look"
    <3>1. first[i].op \in {"say", "look"} /\ first # << >>
      BY <2>2, <2>4 DEF Tells
    <3>2. s[1].op = "look" /\ Len(first) = 2 /\ first[1].op = "castDir" /\ first[2] = Say(s[1].warning)
      <4>1. Brings(s[1], first) /\ Len(first) \in 0 .. 5
        BY <1>1, <2>1, <3>1, MovesFacts
      <4>2. s[1].op = "look"
        BY <2>4, <3>1, <4>1, BringsFacts
      <4>3. QED
        BY <4>1, <4>2 DEF Brings
    <3>3. QED
      BY <2>4, <3>2 DEF Tells, Say
  <2>5. \A i \in 1 .. Len(t), n \in Nat : Tells(t[i], n) =>
          \/ Tells(s[1], n) /\ s[1].op = "look"
          \/ \E m \in 2 .. Len(s) : Tells(s[m], n)
    <3> SUFFICES ASSUME NEW i \in 1 .. Len(t), NEW n \in Nat, Tells(t[i], n), ~ \E m \in 2 .. Len(s) : Tells(s[m], n)
                 PROVE  Tells(s[1], n) /\ s[1].op = "look"
      OBVIOUS
    <3>1. i \in 1 .. Len(first) /\ t[i] = first[i]
      <4>1. \/ i \in 1 .. Len(first) /\ t[i] = first[i]
            \/ \E m \in 2 .. Len(s) : t[i] = s[m]
        BY <1>1, <2>1, <2>2, HasFacts, ZenonT(40)
      <4>2. QED
        BY <4>1
    <3>2. QED
      BY <2>4, <3>1
  <2>6. s[1].op = "say" => s[1].msg \in Nat /\ Tells(s[1], s[1].msg)
    BY <2>3, StepCases DEF Tells
  <2>7. ASSUME NEW i \in 1 .. Len(t), NEW n \in Nat, Tells(t[i], n)
        PROVE  n \in 1 .. Len(calls) /\ q \in calls[n].comm /\ \A k \in told'[q] : k < n
    <3>1. PICK m \in 1 .. Len(s) : Tells(s[m], n) /\ (m = 1 => s[1].op = "look")
      BY <1>1, <2>3, <2>5, <2>7
    <3>2. n \in 1 .. Len(calls) /\ q \in calls[n].comm /\ \A k \in told[q] : k < n
      BY <3>1 DEF Telling
    <3>3. s[1].op = "say" => s[1].msg < n
      <4>1. SUFFICES ASSUME s[1].op = "say"
                     PROVE  s[1].msg < n
        OBVIOUS
      <4>2. 1 < m
        BY <1>1, <3>1, <4>1
      <4>3. QED
        BY <2>3, <2>6, <3>1, <4>1, <4>2 DEF Telling
    <3>4. QED
      BY <2>1, <3>2, <3>3
  <2>8. ASSUME NEW i \in 1 .. Len(t), NEW k \in 1 .. Len(t), NEW n \in Nat, NEW p \in Nat, i < k,
               Tells(t[i], n), Tells(t[k], p)
        PROVE  n < p
    <3>1. CASE i \in 1 .. Len(first) /\ k \in 1 .. Len(first) /\ t[i] = first[i] /\ t[k] = first[k]
      BY <2>4, <2>8, <3>1
    <3>2. CASE i \in 1 .. Len(first) /\ t[i] = first[i] /\ \E m \in 2 .. Len(s) : t[k] = s[m]
      <4>1. PICK m \in 2 .. Len(s) : t[k] = s[m]
        BY <3>2
      <4>2. Tells(s[1], n) /\ Tells(s[m], p) /\ 1 < m /\ m \in 1 .. Len(s)
        BY <1>1, <2>4, <2>8, <3>2, <4>1
      <4>3. QED
        BY <2>3, <4>2 DEF Telling
    <3>3. CASE \E h \in 2 .. Len(s), m \in 2 .. Len(s) : h < m /\ t[i] = s[h] /\ t[k] = s[m]
      <4>1. PICK h \in 2 .. Len(s), m \in 2 .. Len(s) : h < m /\ t[i] = s[h] /\ t[k] = s[m]
        BY <3>3
      <4>2. Tells(s[h], n) /\ Tells(s[m], p) /\ h \in 1 .. Len(s) /\ m \in 1 .. Len(s)
        BY <1>1, <2>8, <4>1
      <4>3. QED
        BY <4>1, <4>2 DEF Telling
    <3>4. \/ i \in 1 .. Len(first) /\ k \in 1 .. Len(first) /\ t[i] = first[i] /\ t[k] = first[k]
          \/ i \in 1 .. Len(first) /\ t[i] = first[i] /\ \E m \in 2 .. Len(s) : t[k] = s[m]
          \/ \E h \in 2 .. Len(s), m \in 2 .. Len(s) : h < m /\ t[i] = s[h] /\ t[k] = s[m]
      BY <1>1, <2>1, <2>2, <2>8, Pairs, ZenonT(40)
    <3>5. QED
      BY <3>1, <3>2, <3>3, <3>4
  <2>9. ASSUME NEW n \in told'[q]
        PROVE  n \in 1 .. Len(calls) /\ q \in calls[n].comm
    BY <2>1, <2>3, <2>6, <2>9 DEF Telling
  <2>10. QED
    BY <2>7, <2>8, <2>9 DEF Telling
<1>4. CASE RefuseLog(q)
  <2>a. /\ Len(t) = Len(s) - 2
        /\ \A i \in 1 .. Len(t) : i + 2 \in 1 .. Len(s) /\ t[i] = s[i + 2]
    BY <1>4, RefuseDoes
  <2>1. /\ told'[q] = told[q] /\ Len(t) \in Int
        /\ \A i \in 1 .. Len(t) : i + 2 \in 1 .. Len(s) /\ t[i] = s[i + 2]
    BY <1>1, <1>4, <2>a DEF RefuseLog
  <2>2. \A i, k \in 1 .. Len(t) : i < k => i + 2 < k + 2
    BY <2>1
  <2>3. QED
    BY <2>1, <2>2 DEF Telling
<1>5. QED
  BY <1>2, <1>3, <1>4

\* The operations of a rank that goes on.
LEMMA DoesFacts ==
  ASSUME StartTyped, NEW q \in Ranks, InTurn(todo[q]), NEW first, Does(q, first)
  PROVE  LET s == todo[q]
             t == todo'[q]
         IN  /\ s \in Seq(AnyStep) /\ s # << >> /\ Len(s) \in Nat /\ 1 \in 1 .. Len(s) /\ s[1] \in AnyStep
             /\ first \in Seq(AnyStep) /\ Len(first) \in 0 .. 5 /\ (first # << >> => Brings(s[1], first))
             /\ t \in Seq(AnyStep) /\ Len(t) \in Nat /\ Replaces(s, first, t) /\ Moves(s, first)
             /\ InTurn(t)
             /\ \A m \in 2 .. Len(s) : m \in 1 .. Len(s) /\ MayPrecede(s[1].op, s[m].op)
             /\ \A i \in 1 .. Len(t) : \/ i \in 1 .. Len(first) /\ t[i] = first[i]
                                       \/ \E m \in 2 .. Len(s) : t[i] = s[m]
             /\ \A m \in 2 .. Len(s) : \E i \in 1 .. Len(t) : t[i] = s[m]
             /\ \A i \in 1 .. Len(first) : i \in 1 .. Len(t) /\ t[i] = first[i]
<1> DEFINE s == todo[q]
           t == todo'[q]
<1>1. /\ s \in Seq(AnyStep) /\ Len(s) \in Nat /\ s # << >> /\ Moves(s, first) /\ t \in Seq(AnyStep)
      /\ Replaces(s, first, t) /\ Len(t) \in Nat
  BY LenProperties DEF StartTyped, Does
<1>2. first \in Seq(AnyStep) /\ Len(first) \in 0 .. 5 /\ (first # << >> => Brings(s[1], first))
  BY <1>1, MovesFacts
<1>3. 1 \in 1 .. Len(s) /\ s[1] \in AnyStep
  BY <1>1, HeadTail, EmptySeq
<1>4. InTurn(t)
  BY <1>1, InTurnKept
<1>5. \A m \in 2 .. Len(s) : m \in 1 .. Len(s) /\ MayPrecede(s[1].op, s[m].op)
  BY <1>1, <1>3 DEF InTurn
<1>6. /\ \A i \in 1 .. Len(t) : \/ i \in 1 .. Len(first) /\ t[i] = first[i]
                                \/ \E m \in 2 .. Len(s) : t[i] = s[m]
      /\ \A m \in 2 .. Len(s) : \E i \in 1 .. Len(t) : t[i] = s[m]
      /\ \A i \in 1 .. Len(first) : i \in 1 .. Len(t) /\ t[i] = first[i]
  BY <1>1, <1>2, HasFacts, SMTT(30)
<1>7. QED
  BY <1>1, <1>2, <1>3, <1>4, <1>5, <1>6

\* What a rank has in hand stays in order when it does something ...
LEMMA HandlingKept ==
  ASSUME StartTyped, NEW q \in Ranks, Handling(q), calls' = calls, mode' = mode, NEW first, Does(q, first)
  PROVE  Handling(q)'
<1> DEFINE s == todo[q]
           t == todo'[q]
           o == todo[q][1]
<1>1. /\ s \in Seq(AnyStep) /\ s # << >> /\ Len(s) \in Nat /\ 1 \in 1 .. Len(s) /\ o \in AnyStep
      /\ first \in Seq(AnyStep) /\ Len(first) \in 0 .. 5 /\ (first # << >> => Brings(o, first))
      /\ t \in Seq(AnyStep) /\ Len(t) \in Nat /\ Replaces(s, first, t) /\ Moves(s, first)
      /\ InTurn(t)
  BY DoesFacts DEF Handling
<1>2. /\ \A m \in 2 .. Len(s) : m \in 1 .. Len(s) /\ MayPrecede(o.op, s[m].op)
      /\ \A i \in 1 .. Len(t) : \/ i \in 1 .. Len(first) /\ t[i] = first[i]
                                \/ \E m \in 2 .. Len(s) : t[i] = s[m]
      /\ \A i \in 1 .. Len(first) : i \in 1 .. Len(t) /\ t[i] = first[i]
  BY DoesFacts DEF Handling
<1>3. o.op = "say" => o.msg \in Nat
  BY <1>1, StepCases
<1>4. told[q] \subseteq told'[q] /\ (o.op = "say" => o.msg \in told'[q])
  BY DEF Does
<1>5. ASSUME NEW i \in 1 .. Len(t), t[i].op = "deliver"
      PROVE  t[i].msg \in told'[q]
  <2>1. CASE i \in 1 .. Len(first) /\ t[i] = first[i]
    <3>1. Brings(o, first)
      BY <1>1, <2>1
    <3>2. CASE o.op = "say"
      <4>1. first[2] = Deliver(o.msg) /\ first[1].op = "flush" /\ Len(first) = 2
        BY <3>1, <3>2 DEF Brings
      <4>2. i = 2
        BY <1>5, <2>1, <4>1
      <4>3. t[i].msg = o.msg
        BY <2>1, <4>1, <4>2 DEF Deliver
      <4>4. QED
        BY <1>4, <3>2, <4>3
    <3>3. CASE o.op = "flush"
      <4>1. saved[q] # << >> /\ first = <<Deliver(Head(saved[q])), Op("pop"), Op("flush")>>
        BY <2>1, <3>3 DEF Does
      <4>2. i = 1
        BY <1>5, <2>1, <4>1 DEF Op
      <4>3. t[i].msg = saved[q][1] /\ 1 \in 1 .. Len(saved[q])
        <5>1. saved[q] \in Seq(Nat) /\ Len(saved[q]) \in Nat /\ Len(saved[q]) # 0
          BY <4>1, LenProperties, EmptySeq DEF StartTyped
        <5>2. Head(saved[q]) = saved[q][1]
          BY <4>1, <5>1, HeadTailProperties
        <5>3. first[1] = Deliver(saved[q][1])
          BY <4>1, <5>2
        <5>4. QED
          BY <2>1, <4>2, <5>1, <5>3 DEF Deliver
      <4>4. QED
        BY <1>4, <4>3 DEF Handling
    <3>4. CASE o.op \notin {"say", "flush"}
      BY <1>1, <1>5, <2>1, <3>1, <3>4, BringsFacts
    <3>5. QED
      BY <3>2, <3>3, <3>4
  <2>2. CASE \E m \in 2 .. Len(s) : t[i] = s[m]
    BY <1>2, <1>4, <1>5, <2>2 DEF Handling
  <2>3. QED
    BY <1>2, <1>5, <2>1, <2>2
<1>6. ASSUME NEW i \in 1 .. Len(saved'[q])
      PROVE  saved'[q][i] \in told'[q]
  <2>1. saved[q] \in Seq(Nat) /\ Len(saved[q]) \in Nat /\ \A k \in 1 .. Len(saved[q]) : saved[q][k] \in told'[q]
    BY <1>4, LenProperties DEF StartTyped, Handling
  <2>2. CASE saved'[q] = saved[q]
    BY <1>6, <2>1, <2>2
  <2>3. CASE o.op = "say" /\ saved'[q] = Append(saved[q], o.msg)
    <3>1. /\ Len(saved'[q]) = Len(saved[q]) + 1 /\ saved'[q][Len(saved[q]) + 1] = o.msg
          /\ \A k \in 1 .. Len(saved[q]) : saved'[q][k] = saved[q][k]
      BY <1>3, <2>1, <2>3, AppendProperties
    <3>2. i = Len(saved[q]) + 1 \/ i \in 1 .. Len(saved[q])
      BY <1>6, <2>1, <3>1
    <3>3. QED
      BY <1>4, <2>1, <2>3, <3>1, <3>2
  <2>4. CASE o.op = "pop" /\ saved'[q] = Tail(saved[q])
    <3>1. saved[q] # << >>
      BY <1>1, <2>4 DEF Handling, HasOp
    <3>2. Len(saved'[q]) = Len(saved[q]) - 1 /\ \A k \in 1 .. Len(saved'[q]) : saved'[q][k] = saved[q][k + 1]
      BY <2>1, <2>4, <3>1, HeadTailProperties
    <3>3. i + 1 \in 1 .. Len(saved[q])
      BY <1>6, <2>1, <3>2
    <3>4. QED
      BY <1>6, <2>1, <3>2, <3>3
  <2>5. QED
    BY <2>2, <2>3, <2>4 DEF Does
<1>7. ASSUME NEW i \in 1 .. Len(t), t[i].op \in {"line", "name", "writeLog"}
      PROVE  /\ taken'[q] \in told'[q] /\ ~calls[taken'[q]].black
             /\ t[i].op \in {"name", "writeLog"} => mode = "engine"
  <2>1. CASE i \in 1 .. Len(first) /\ t[i] = first[i]
    <3>1. Brings(o, first) /\ first # << >>
      BY <1>1, <2>1
    <3>2. o.op = "deliver"
      BY <1>1, <1>7, <2>1, <3>1, BringsFacts
    <3>3. taken'[q] = o.msg /\ o.msg \in told[q]
      BY <1>1, <3>2 DEF Does, Handling
    <3>4. ~calls[o.msg].black /\ (mode # "engine" => first = <<Op("line")>>)
      BY <3>1, <3>2 DEF Does
    <3>5. mode # "engine" => t[i].op = "line"
      <4>1. SUFFICES ASSUME mode # "engine"
                     PROVE  t[i].op = "line"
        OBVIOUS
      <4>2. first = <<Op("line")>>
        BY <3>4, <4>1
      <4>3. i = 1 /\ first[1] = Op("line")
        BY <2>1, <4>2
      <4>4. QED
        BY <2>1, <4>3 DEF Op
    <3>6. QED
      BY <1>4, <3>3, <3>4, <3>5
  <2>2. CASE \E m \in 2 .. Len(s) : t[i] = s[m]
    <3>1. PICK m \in 2 .. Len(s) : t[i] = s[m]
      BY <2>2
    <3>2. o.op \notin {"deliver", "ask"}
      BY <1>2, <1>7, <3>1 DEF MayPrecede, Wild
    <3>3. taken'[q] = taken[q]
      BY <3>2 DEF Does
    <3>4. QED
      BY <1>2, <1>4, <1>7, <3>1, <3>3 DEF Handling
  <2>3. QED
    BY <1>2, <1>7, <2>1, <2>2
<1>8. HasOp(t, "pop") => saved'[q] # << >>
  <2>1. SUFFICES ASSUME NEW i \in 1 .. Len(t), t[i].op = "pop"
                 PROVE  saved'[q] # << >>
    BY DEF HasOp
  <2>2. CASE i \in 1 .. Len(first) /\ t[i] = first[i]
    <3>1. Brings(o, first)
      BY <1>1, <2>2
    <3>2. o.op = "flush"
      BY <1>1, <2>1, <2>2, <3>1, BringsFacts
    <3>3. QED
      BY <2>2, <3>2 DEF Does
  <2>3. CASE \E m \in 2 .. Len(s) : t[i] = s[m]
    <3>1. PICK m \in 2 .. Len(s) : t[i] = s[m]
      BY <2>3
    <3>2. o.op \notin {"pop", "say"} /\ HasOp(s, "pop")
      BY <1>2, <2>1, <3>1 DEF MayPrecede, Wild, HasOp
    <3>3. QED
      BY <3>2 DEF Does, Handling
  <2>4. QED
    BY <1>2, <2>1, <2>2, <2>3
<1>9. OnlyOn(t, comm'[q], World, {"ask", "poll", "castAnswer"})
  <2>1. \A i \in 1 .. Len(first) : first[i].op \notin {"ask", "poll", "castAnswer"}
    <3> TAKE i \in 1 .. Len(first)
    <3>1. Brings(o, first)
      BY <1>1
    <3>2. QED
      BY <1>1, <3>1, BringsFacts
  <2>2. comm'[q] = IF o.op = "setComm" THEN o.comm ELSE comm[q]
    BY DEF Does
  <2>3. QED
    BY <1>1, <2>1, <2>2, PlacedKept, SMTT(30) DEF Handling
<1>10. OnlyOn(t, comm'[q], calls[taken'[q]].comm, {"name", "writeLog"})
  <2>1. CASE o.op \notin {"deliver", "ask"}
    <3>1. \A i \in 1 .. Len(first) : first[i].op \notin {"name", "writeLog"}
      <4> TAKE i \in 1 .. Len(first)
      <4>1. Brings(o, first)
        BY <1>1
      <4>2. QED
        BY <1>1, <2>1, <4>1, BringsFacts
    <3>2. comm'[q] = (IF o.op = "setComm" THEN o.comm ELSE comm[q]) /\ taken'[q] = taken[q]
      BY <2>1 DEF Does
    <3>3. QED
      BY <1>1, <3>1, <3>2, PlacedKept, SMTT(30) DEF Handling
  <2>2. CASE o.op \in {"deliver", "ask"}
    <3>1. SUFFICES ASSUME NEW i \in 1 .. Len(t), t[i].op \in {"name", "writeLog"}
                   PROVE  \E h \in 1 .. i - 1 : /\ t[h].op = "setComm" /\ t[h].comm = calls[taken'[q]].comm
                                                /\ \A k \in h + 1 .. i - 1 : t[k].op \in Steady
      BY DEF OnlyOn
    <3>2. i \in 1 .. Len(first) /\ t[i] = first[i]
      BY <1>2, <2>2, <3>1 DEF MayPrecede, Wild
    <3>3. Brings(o, first) /\ first # << >>
      BY <1>1, <3>2
    <3>4. o.op = "deliver" /\ taken'[q] = o.msg
      BY <1>1, <2>2, <3>1, <3>2, <3>3 DEF Brings, Does
    <3>5. first = <<SetComm(calls[o.msg].comm, TRUE), NameLog, Op("writeLog"), SetComm(comm[q], FALSE), Op("line")>>
      <4>1. first # <<Op("line")>>
        BY <3>1, <3>2 DEF Op
      <4>2. QED
        BY <3>3, <3>4, <4>1 DEF Does
    <3>6. first[1].op = "setComm" /\ first[1].comm = calls[o.msg].comm /\ first[2].op = "name" /\ Len(first) = 5
      BY <3>5 DEF SetComm, NameLog
    <3>7. i = 2 \/ i = 3
      BY <1>1, <3>1, <3>2, <3>3, <3>4, <3>6 DEF Brings
    <3>8. t[1] = first[1] /\ t[2] = first[2]
      BY <1>2, <3>6
    <3>9. 1 \in 1 .. i - 1 /\ \A k \in 2 .. i - 1 : t[k].op \in Steady
      BY <3>6, <3>7, <3>8 DEF Steady
    <3>10. QED
      BY <3>4, <3>6, <3>8, <3>9
  <2>3. QED
    BY <2>1, <2>2
<1>11. QED
  BY <1>1, <1>5, <1>6, <1>7, <1>8, <1>9, <1>10 DEF Handling

\* ... and when its message is refused.
LEMMA RefusalKept ==
  ASSUME StartTyped, NEW q \in Ranks, Handling(q), calls' = calls, mode' = mode, RefuseLog(q)
  PROVE  Handling(q)'
<1> DEFINE s == todo[q]
           t == todo'[q]
<1>1. /\ s \in Seq(AnyStep) /\ Len(s) \in Nat /\ t \in Seq(AnyStep) /\ Len(t) = Len(s) - 2 /\ Len(s) >= 3
      /\ \A i \in 1 .. Len(t) : i + 2 \in 1 .. Len(s) /\ t[i] = s[i + 2]
      /\ s[1].op = "writeLog" /\ s[2].op = "setComm" /\ s[3].op = "line"
  BY RefuseDoes DEF Handling, StartTyped
<1>2. 1 \in 1 .. Len(s) /\ 2 \in 1 .. Len(s) /\ 3 \in 1 .. Len(s) /\ Len(t) \in Nat
  BY <1>1
<1>3. told'[q] = told[q] /\ taken'[q] = taken[q] /\ comm'[q] = comm[q] /\ saved'[q] = Append(saved[q], taken[q])
  BY DEF RefuseLog, StartTyped
<1>4. taken[q] \in told[q] /\ ~calls[taken[q]].black
  BY <1>1, <1>2 DEF Handling
<1>5. ASSUME NEW i \in 1 .. Len(t)
      PROVE  t[i].op \notin {"name", "writeLog"}
  <2>1. i = 1 \/ 3 < i + 2
    BY <1>2
  <2>2. MayPrecede("line", s[i + 2].op) \/ s[i + 2].op = "line"
    BY <1>1, <1>2, <2>1 DEF Handling, InTurn
  <2>3. QED
    BY <1>1, <2>2 DEF MayPrecede, Wild
<1>6. \A op : HasOp(s, op) /\ op \notin {"writeLog", "setComm"} => HasOp(t, op)
  <2> SUFFICES ASSUME NEW op, NEW m \in 1 .. Len(s), s[m].op = op, op \notin {"writeLog", "setComm"}
               PROVE  \E i \in 1 .. Len(t) : t[i].op = op
    BY DEF HasOp
  <2>1. m # 1 /\ m # 2
    BY <1>1
  <2>2. m - 2 \in 1 .. Len(t) /\ (m - 2) + 2 = m
    BY <1>1, <2>1
  <2>3. QED
    BY <1>1, <2>2
<1>7. InTurn(t)
  <2>1. ASSUME NEW i \in 1 .. Len(t), NEW k \in 1 .. Len(t), i < k
        PROVE  MayPrecede(t[i].op, t[k].op)
    <3>1. i + 2 < k + 2
      BY <1>2, <2>1
    <3>2. QED
      BY <1>1, <3>1 DEF Handling, InTurn
  <2>2. ASSUME NEW i \in 1 .. Len(t)
        PROVE  /\ t[i].op \in {"look", "castDir", "barrier"} => HasOp(t, "makeDir")
               /\ t[i].op \in {"look", "castDir"} => HasOp(t, "barrier")
    BY <1>1, <1>6, <2>2 DEF Handling, InTurn
  <2>3. QED
    BY <1>5, <2>1, <2>2 DEF InTurn
<1>8. \A i \in 1 .. Len(saved'[q]) : saved'[q][i] \in told'[q]
  <2>1. saved[q] \in Seq(Nat) /\ Len(saved[q]) \in Nat /\ taken[q] \in Nat
    BY LenProperties DEF StartTyped
  <2>2. /\ Len(saved'[q]) = Len(saved[q]) + 1 /\ saved'[q][Len(saved[q]) + 1] = taken[q]
        /\ \A k \in 1 .. Len(saved[q]) : saved'[q][k] = saved[q][k]
    BY <1>3, <2>1, AppendProperties
  <2>3. \A i \in 1 .. Len(saved'[q]) : i = Len(saved[q]) + 1 \/ i \in 1 .. Len(saved[q])
    BY <2>1, <2>2
  <2>4. \A k \in 1 .. Len(saved[q]) : saved[q][k] \in told[q]
    BY DEF Handling
  <2>5. QED
    BY <1>3, <1>4, <2>2, <2>3, <2>4
<1>9. HasOp(t, "pop") => saved'[q] # << >>
  <2>1. saved[q] \in Seq(Nat) /\ taken[q] \in Nat /\ Len(saved[q]) \in Nat
    BY LenProperties DEF StartTyped
  <2>2. saved'[q] \in Seq(Nat) /\ Len(saved'[q]) = Len(saved[q]) + 1
    BY <1>3, <2>1, AppendProperties
  <2>3. QED
    BY <2>1, <2>2, EmptySeq
<1>10. OnlyOn(t, comm'[q], World, {"ask", "poll", "castAnswer"})
  <2>1. SUFFICES ASSUME NEW i \in 1 .. Len(t), t[i].op \in {"ask", "poll", "castAnswer"}
                 PROVE  \E h \in 1 .. i - 1 : /\ t[h].op = "setComm" /\ t[h].comm = World
                                              /\ \A k \in h + 1 .. i - 1 : t[k].op \in Steady
    BY DEF OnlyOn
  <2>2. i + 2 \in 1 .. Len(s) /\ s[i + 2].op \in {"ask", "poll", "castAnswer"} /\ 3 < i + 2 /\ 3 \in 1 .. (i + 2) - 1
    <3>1. i + 2 \in 1 .. Len(s) /\ s[i + 2].op \in {"ask", "poll", "castAnswer"}
      BY <1>1, <2>1
    <3>2. i # 1
      BY <1>1, <3>1
    <3>3. QED
      BY <1>2, <3>1, <3>2
  <2>3. s[3].op \notin Steady
    BY <1>1 DEF Steady
  <2>4. PICK h \in 1 .. (i + 2) - 1 : /\ s[h].op = "setComm" /\ s[h].comm = World
                                      /\ \A k \in h + 1 .. (i + 2) - 1 : s[k].op \in Steady
    BY <2>2, <2>3 DEF Handling, OnlyOn
  <2>5. ~(3 \in h + 1 .. (i + 2) - 1) /\ h # 3
    BY <1>1, <2>3, <2>4
  <2>6. h - 2 \in 1 .. i - 1 /\ h - 2 \in 1 .. Len(t) /\ (h - 2) + 2 = h
    BY <1>2, <2>2, <2>5
  <2>7. \A k \in (h - 2) + 1 .. i - 1 : k \in 1 .. Len(t) /\ k + 2 \in h + 1 .. (i + 2) - 1
    BY <1>2, <2>6
  <2>8. t[h - 2] = s[h] /\ \A k \in (h - 2) + 1 .. i - 1 : t[k].op \in Steady
    BY <1>1, <2>4, <2>6, <2>7
  <2>9. QED
    BY <2>4, <2>6, <2>8
<1>11. OnlyOn(t, comm'[q], calls[taken'[q]].comm, {"name", "writeLog"})
  BY <1>5 DEF OnlyOn
<1>12. \A i \in 1 .. Len(t) : t[i].op = "deliver" => t[i].msg \in told'[q]
  BY <1>1, <1>3 DEF Handling
<1>13. QED
  BY <1>3, <1>4, <1>5, <1>7, <1>8, <1>9, <1>10, <1>11, <1>12 DEF Handling

-----------------------------------------------------------------------------
(* The steps of the system.                                                *)

\* What holds of each rank once the program is chosen.
Books == \A q \in Ranks : Telling(q) /\ Handling(q)

\* One rank goes on, a message is refused, a collective completes, or the reader answers.
Steps ==
  \/ \E r \in Ranks : RankStep(r) /\ Alone(r)
  \/ \E r \in Ranks : RefuseLog(r) /\ Refuses(r) /\ \A q \in Ranks \ {r} : Same(q)
  \/ \E c \in AllComms : Collective(c) /\ UNCHANGED <<logger, files, reader>> /\ TogetherDo(c)
  \/ (CastDir \/ Meet \/ CastAnswer) /\ TogetherDo(World)
  \/ ReaderAnswers \/ UNCHANGED svars

\* An answer of the reader keeps the types.
LEMMA AnswersTyped ==
  ASSUME StartTyped, ReaderAnswers
  PROVE  StartTyped'
<1>1. PICK i \in DOMAIN stream[World] :
        answers' = answers \cup {[file |-> ResponseFile(stream[World][i].call), to |-> stream[World][i].call]}
  BY DEF ReaderAnswers
<1>2. stream[World][i].call \in Nat
  <2>1. stream[World] \in Seq(Entry)
    BY CommFacts DEF StartTyped
  <2>2. stream[World][i] \in Entry
    BY <1>1, <2>1
  <2>3. QED
    BY <2>2 DEF Entry
<1>3. \A a \in answers' : a.file \in Nat /\ a.to = a.file
  BY <1>1, <1>2 DEF StartTyped, ResponseFile
<1>4. UNCHANGED <<vars, answer>> /\ UNCHANGED logger /\ UNCHANGED files
  BY DEF ReaderAnswers
<1>5. QED
  BY <1>3, <1>4 DEF StartTyped, vars, app, engine, logger, files

\* All steps of one rank.
LEMMA RankStepDoes ==
  ASSUME StartTyped, NEW r \in Ranks, CanGoOn(r), RankStep(r)
  PROVE  StartTyped' /\ Alone(r)
<1>1. CASE EngineStep(r) /\ UNCHANGED <<logger, files, reader>>
  BY <1>1, SetCommDoes, PlainDoes DEF EngineStep
<1>2. CASE LoggerStep(r)
  BY <1>2, SayDoes, FlushDoes, DeliverDoes, WriteLogDoes, LineDoes, SetDoes DEF LoggerStep
<1>3. CASE DoLook(r) \/ DoMakeDir(r)
  BY <1>3, DirectoryDoes
<1>4. CASE DoAsk(r) \/ DoPoll(r) \/ DoTimeout(r)
  BY <1>4, QuestionDoes
<1>5. QED
  BY <1>1, <1>2, <1>3, <1>4 DEF RankStep

\* All steps: they keep the types, the program and the mode, and each rank does what it has to do,
\* or nothing, or its message is refused.
LEMMA StepEffects ==
  ASSUME StartTyped, calls # << >>, Books, [SNext]_svars
  PROVE  /\ StartTyped' /\ calls' = calls /\ mode' = mode /\ Steps
         /\ \A q \in Ranks : Same(q) \/ (\E first : Does(q, first)) \/ RefuseLog(q)
<1>1. CASE \E r \in Ranks : RankStep(r)
  <2>1. PICK r \in Ranks : RankStep(r)
    BY <1>1
  <2>2. StartTyped' /\ Alone(r)
    BY <2>1, RankStepDoes, ZenonT(40) DEF Books, CanGoOn, Telling, Handling, StartTyped
  <2>3. calls' = calls
    BY <2>1 DEF RankStep, EngineStep, LoggerStep, DoSetComm, DoName, DoWrite, DoSay, DoFlush, DoPop, DoDeliver,
                DoWriteLog, DoLine, DoSet, DoLook, DoMakeDir, DoAsk, DoPoll, DoTimeout, app
  <2>4. mode' = mode
    BY <2>1 DEF RankStep, EngineStep, LoggerStep, DoSay, DoFlush, DoPop, DoDeliver,
                DoWriteLog, DoLine, DoSet, DoLook, DoMakeDir, DoAsk, DoPoll, DoTimeout, logger
  <2>5. QED
    BY <2>1, <2>2, <2>3, <2>4 DEF Steps, Alone
<1>2. CASE \E r \in Ranks : RefuseLog(r)
  <2>1. PICK r \in Ranks : RefuseLog(r)
    BY <1>2
  <2>2. StartTyped' /\ Refuses(r) /\ \A q \in Ranks \ {r} : Same(q)
    BY <2>1, RefuseDoes DEF Books, Handling
  <2>3. calls' = calls /\ mode' = mode
    BY <2>1 DEF RefuseLog, app
  <2>4. QED
    BY <2>1, <2>2, <2>3 DEF Steps
<1>3. CASE \E c \in AllComms : Collective(c) /\ UNCHANGED <<logger, files, reader>>
  <2>1. PICK c \in AllComms : Collective(c) /\ UNCHANGED <<logger, files, reader>>
    BY <1>3
  <2>2. StartTyped' /\ TogetherDo(c)
    BY <2>1, CollectiveDoes
  <2>3. calls' = calls /\ mode' = mode
    BY <2>1 DEF Collective, DoGather, DoSync, app, logger
  <2>4. \A q \in Ranks : Same(q) \/ \E first : Does(q, first)
    BY <2>2 DEF TogetherDo
  <2>5. QED
    BY <2>1, <2>2, <2>3, <2>4 DEF Steps
<1>4. CASE CastDir \/ Meet \/ CastAnswer
  <2>1. StartTyped' /\ TogetherDo(World)
    BY <1>4, MeetingDoes
  <2>2. calls' = calls /\ mode' = mode
    BY <1>4 DEF CastDir, Meet, CastAnswer, app, logger
  <2>3. \A q \in Ranks : Same(q) \/ \E first : Does(q, first)
    BY <2>1 DEF TogetherDo
  <2>4. QED
    BY <1>4, <2>1, <2>2, <2>3 DEF Steps
<1>5. CASE ReaderAnswers
  BY <1>5, AnswersTyped DEF ReaderAnswers, Steps, Same, vars, app, engine, logger, files
<1>6. CASE UNCHANGED svars
  <2>1. UNCHANGED <<calls, todo, open, output, taken, comm, id, known, stream, mode, locked, saved, told, printed,
                    refused, ready, dirs, dir, answers, answer>>
    BY <1>6 DEF svars, vars, app, engine, logger, files, reader
  <2>2. StartTyped'
    BY <2>1 DEF StartTyped
  <2>3. QED
    BY <1>6, <2>1, <2>2 DEF Steps, Same
<1>7. QED
  BY <1>1, <1>2, <1>3, <1>4, <1>5, <1>6 DEF SNext, Start, Meetings

\* What ranks have to do changes as they go on, and never otherwise.
LEMMA BooksKept ==
  ASSUME StartTyped, calls # << >>, Books, [SNext]_svars
  PROVE  Books'
<1>1. /\ calls' = calls /\ mode' = mode
      /\ \A q \in Ranks : Same(q) \/ (\E first : Does(q, first)) \/ RefuseLog(q)
  BY StepEffects
<1>2. ASSUME NEW q \in Ranks
      PROVE  Telling(q)' /\ Handling(q)'
  <2>1. Telling(q) /\ Handling(q) /\ InTurn(todo[q])
    BY DEF Books, Handling
  <2>2. Telling(q)'
    BY <1>1, <2>1, TellingKept
  <2>3. CASE Same(q)
    BY <1>1, <2>1, <2>2, <2>3 DEF Same, Handling
  <2>4. CASE \E first : Does(q, first)
    BY <1>1, <2>1, <2>2, <2>4, HandlingKept
  <2>5. CASE RefuseLog(q)
    BY <1>1, <2>1, <2>2, <2>5, RefusalKept
  <2>6. QED
    BY <1>1, <2>2, <2>3, <2>4, <2>5
<1>3. QED
  BY <1>2 DEF Books

-----------------------------------------------------------------------------
(* The beginning.                                                          *)

\* The program is chosen, and nothing is done.
Begun ==
  /\ StartTyped
  /\ \E e \in Nat :
       /\ e + 3 <= Len(calls) /\ \A n \in e + 1 .. e + 3 : calls[n] = OwnMessage
       /\ \A r \in Ranks : \E a, k \in Nat : Program(todo[r], r, calls, e, a, k)
  /\ \A r \in Ranks : /\ told[r] = {} /\ saved[r] = << >> /\ printed[r] = << >> /\ answer[r] = << >>
                      /\ comm[r] = {} /\ dir[r] = 0 /\ taken[r] = 0
  /\ \A c \in AllComms : stream[c] = << >>
  /\ answers = {} /\ refused = 0

\* Where the operations of a program are, and what they log.
Stands(o, i, e, a, k, last) ==
  /\ o.op = "setLog" => i = a + 1
  /\ o.op = "look" => i = a + 3
  /\ o.op = "barrier" => i = a + 4
  /\ o.op = "makeDir" => i = a + 5
  /\ o.op = "ready" => i = a + 7
  /\ o.op = "setComm" /\ o.sync => i = a + 9
  /\ o.op = "write" /\ o.node = "packageOptionsStarted" => i = a + 10
  /\ o.op \in {"ask", "poll", "castAnswer"} => i \in a + 11 .. k
  /\ o.op \notin {"start", "castDir", "deliver", "line", "name", "writeLog", "pop", "flush", "sync", "gather"}

\* Operation o, which is the program's i-th, logs message n.
Speaks(o, i, e, a, k, last, n) ==
  \/ i <= a /\ n = o.msg /\ n \in 1 .. e
  \/ i = a + 2 /\ n = e + 1
  \/ i = a + 3 /\ n = e + 2
  \/ i = a + 8 /\ n = e + 3
  \/ k + 5 <= i /\ n = o.msg /\ n \in e + 4 .. last

\* Where the operations and the messages of a program stand.
LEMMA PlacesOf ==
  ASSUME NEW p \in Seq(AnyStep), NEW r, NEW messages, Len(messages) \in Nat, NEW e \in Nat, NEW a \in Nat, NEW k \in Nat,
         Program(p, r, messages, e, a, k), NEW i \in 1 .. Len(p)
  PROVE  /\ Stands(p[i], i, e, a, k, Len(messages))
         /\ \A n : Tells(p[i], n) => Speaks(p[i], i, e, a, k, Len(messages), n)
<1>1. Len(p) \in Nat /\ a + 10 <= k /\ k + 4 <= Len(p)
  BY LenProperties DEF Program
<1>2. CASE i \in 1 .. a
  <2>1. p[i].op = "say" /\ p[i].msg \in 1 .. e
    BY <1>2 DEF Program
  <2>2. QED
    BY <1>2, <2>1 DEF Tells, Stands, Speaks
<1>3. CASE i \in a + 1 .. a + 5
  <2>1. /\ p[a + 1] = Op("setLog") /\ p[a + 2] = Say(e + 1) /\ p[a + 3] = [op |-> "look", warning |-> e + 2]
        /\ p[a + 4] = Op("barrier") /\ p[a + 5] = Op("makeDir")
    BY DEF Program
  <2>2. i = a + 1 \/ i = a + 2 \/ i = a + 3 \/ i = a + 4 \/ i = a + 5
    BY <1>3
  <2>3. QED
    <3>1. /\ p[a + 1].op = "setLog" /\ p[a + 2].op = "say" /\ p[a + 2].msg = e + 1
          /\ p[a + 3].op = "look" /\ p[a + 3].warning = e + 2 /\ p[a + 4].op = "barrier" /\ p[a + 5].op = "makeDir"
      BY <2>1 DEF Op, Say
    <3>2. QED
      BY <2>2, <3>1 DEF Tells, Stands, Speaks
<1>4. CASE i \in a + 6 .. a + 10
  <2>1. /\ p[a + 6] = SetComm(World, FALSE) /\ p[a + 7] = Op("ready") /\ p[a + 8] = Say(e + 3)
        /\ p[a + 9] = SetComm(World, TRUE) /\ p[a + 10] = Write("packageOptionsStarted")
    BY DEF Program
  <2>2. i = a + 6 \/ i = a + 7 \/ i = a + 8 \/ i = a + 9 \/ i = a + 10
    BY <1>4
  <2>3. QED
    <3>1. /\ p[a + 6].op = "setComm" /\ ~p[a + 6].sync /\ p[a + 7].op = "ready" /\ p[a + 8].op = "say" /\ p[a + 8].msg = e + 3
          /\ p[a + 9].op = "setComm" /\ p[a + 10].op = "write"
      BY <2>1 DEF Op, Say, SetComm, Write
    <3>2. QED
      BY <2>2, <3>1 DEF Tells, Stands, Speaks
<1>5. CASE i \in a + 11 .. k
  <2>1. p[i].op \in {"ask", "poll", "castAnswer"}
    BY <1>5 DEF Program
  <2>2. QED
    BY <1>5, <2>1 DEF Tells, Stands
<1>6. CASE i \in k + 1 .. k + 4
  <2>1. /\ p[k + 1] = Write("packageOptionsFinished") /\ p[k + 2] = SetComm(World, FALSE)
        /\ p[k + 3] = Op("nodeMap") /\ p[k + 4] = Write("info")
    BY DEF Program
  <2>2. i = k + 1 \/ i = k + 2 \/ i = k + 3 \/ i = k + 4
    BY <1>6
  <2>3. QED
    <3>1. /\ p[k + 1].op = "write" /\ p[k + 1].node # "packageOptionsStarted"
          /\ p[k + 2].op = "setComm" /\ ~p[k + 2].sync /\ p[k + 3].op = "nodeMap"
          /\ p[k + 4].op = "write" /\ p[k + 4].node # "packageOptionsStarted"
      BY <2>1 DEF Op, SetComm, Write
    <3>2. QED
      BY <2>2, <3>1 DEF Tells, Stands
<1>7. CASE i \in k + 5 .. Len(p)
  <2>1. p[i].op = "say" /\ p[i].msg \in e + 4 .. Len(messages)
    BY <1>7 DEF Program
  <2>2. QED
    BY <1>7, <2>1 DEF Tells, Stands, Speaks
<1>8. \/ i \in 1 .. a \/ i \in a + 1 .. a + 5 \/ i \in a + 6 .. a + 10 \/ i \in a + 11 .. k
      \/ i \in k + 1 .. k + 4 \/ i \in k + 5 .. Len(p)
  BY <1>1
<1>9. QED
  BY <1>2, <1>3, <1>4, <1>5, <1>6, <1>7, <1>8, Zenon

\* At the beginning the books are in order.
LEMMA BegunBooks == Begun => Books
<1> SUFFICES ASSUME Begun, NEW q \in Ranks
             PROVE  Telling(q) /\ Handling(q)
  BY DEF Books
<1> DEFINE p == todo[q]
<1>1. PICK e \in Nat :
        /\ e + 3 <= Len(calls) /\ \A n \in e + 1 .. e + 3 : calls[n] = OwnMessage
        /\ \A r \in Ranks : \E a, k \in Nat : Program(todo[r], r, calls, e, a, k)
  BY DEF Begun
<1>2. PICK a \in Nat, k \in Nat : Program(p, q, calls, e, a, k)
  BY <1>1
<1>3. p \in Seq(AnyStep) /\ Len(p) \in Nat /\ Len(calls) \in Nat /\ a + 10 <= k /\ k + 4 <= Len(p)
  BY <1>2, LenProperties DEF Begun, StartTyped, Program
<1>4. told[q] = {} /\ saved[q] = << >>
  BY DEF Begun
<1>6. \A i \in 1 .. Len(p) : /\ Stands(p[i], i, e, a, k, Len(calls))
                             /\ \A n : Tells(p[i], n) => Speaks(p[i], i, e, a, k, Len(calls), n)
  BY <1>2, <1>3, PlacesOf
<1>5. \A i \in 1 .. Len(p) :
        /\ p[i].op = "look" => i = a + 3
        /\ p[i].op = "barrier" => i = a + 4
        /\ p[i].op = "makeDir" => i = a + 5
        /\ p[i].op \in {"ask", "poll", "castAnswer"} => i \in a + 11 .. k
        /\ p[i].op \notin {"start", "castDir", "deliver", "line", "name", "writeLog", "pop", "flush", "sync", "gather"}
  BY <1>6 DEF Stands
<1>7. \A i \in 1 .. Len(p), n \in Nat : Tells(p[i], n) => n \in 1 .. Len(calls) /\ q \in calls[n].comm
  <2> SUFFICES ASSUME NEW i \in 1 .. Len(p), NEW n \in Nat, Tells(p[i], n)
               PROVE  n \in 1 .. Len(calls) /\ q \in calls[n].comm
    OBVIOUS
  <2>1. q \in World
    BY DEF World
  <2>2. CASE i <= a /\ n = p[i].msg /\ n \in 1 .. e
    <3>1. i \in 1 .. a
      BY <1>3, <2>2
    <3>2. q \in calls[p[i].msg].comm
      BY <1>2, <3>1 DEF Program
    <3>3. QED
      BY <1>1, <1>3, <2>2, <3>2
  <2>3. CASE k + 5 <= i /\ n = p[i].msg /\ n \in e + 4 .. Len(calls)
    <3>1. i \in k + 5 .. Len(p)
      BY <1>3, <2>3
    <3>2. q \in calls[p[i].msg].comm
      BY <1>2, <3>1 DEF Program
    <3>3. QED
      BY <1>3, <2>3, <3>2
  <2>4. CASE n \in e + 1 .. e + 3
    BY <1>1, <1>3, <2>1, <2>4 DEF OwnMessage
  <2>5. Speaks(p[i], i, e, a, k, Len(calls), n)
    BY <1>6
  <2>6. QED
    BY <1>3, <2>2, <2>3, <2>4, <2>5 DEF Speaks
<1>8. \A i, m \in 1 .. Len(p), n, x \in Nat : i < m /\ Tells(p[i], n) /\ Tells(p[m], x) => n < x
  <2> SUFFICES ASSUME NEW i \in 1 .. Len(p), NEW m \in 1 .. Len(p), NEW n \in Nat, NEW x \in Nat,
                      i < m, Tells(p[i], n), Tells(p[m], x)
               PROVE  n < x
    OBVIOUS
  <2>1. Speaks(p[i], i, e, a, k, Len(calls), n)
    BY <1>6
  <2>2. Speaks(p[m], m, e, a, k, Len(calls), x)
    BY <1>6
  <2>3. CASE m <= a
    <3>1. i \in 1 .. a /\ m \in 1 .. a
      BY <1>3, <2>3
    <3>2. n = p[i].msg
      BY <1>3, <2>1, <3>1 DEF Speaks
    <3>3. x = p[m].msg
      BY <1>3, <2>2, <3>1 DEF Speaks
    <3>4. \A h, j \in 1 .. a : h < j => p[h].msg < p[j].msg
      BY <1>2 DEF Program
    <3>5. QED
      BY <3>1, <3>2, <3>3, <3>4
  <2>4. CASE k + 5 <= i
    <3>1. i \in k + 5 .. Len(p) /\ m \in k + 5 .. Len(p)
      BY <1>3, <2>4
    <3>2. n = p[i].msg
      BY <1>3, <2>1, <3>1 DEF Speaks
    <3>3. x = p[m].msg
      BY <1>3, <2>2, <3>1 DEF Speaks
    <3>4. \A h, j \in k + 5 .. Len(p) : h < j => p[h].msg < p[j].msg
      BY <1>2 DEF Program
    <3>5. QED
      BY <3>1, <3>2, <3>3, <3>4
  <2>5. CASE a < m /\ i < k + 5
    <3>1. \/ i <= a /\ n <= e
          \/ i = a + 2 /\ n = e + 1
          \/ i = a + 3 /\ n = e + 2
          \/ i = a + 8 /\ n = e + 3
      BY <1>3, <2>1, <2>5 DEF Speaks
    <3>2. \/ m = a + 2 /\ x = e + 1
          \/ m = a + 3 /\ x = e + 2
          \/ m = a + 8 /\ x = e + 3
          \/ k + 5 <= m /\ e + 4 <= x
      BY <1>3, <2>2, <2>5 DEF Speaks
    <3>3. QED
      BY <1>3, <2>5, <3>1, <3>2
  <2>6. QED
    BY <1>3, <2>3, <2>4, <2>5
<1>9. Telling(q)
  BY <1>4, <1>7, <1>8 DEF Telling
<1>10. InTurn(p)
  <2>1. ASSUME NEW i \in 1 .. Len(p), NEW m \in 1 .. Len(p), i < m
        PROVE  MayPrecede(p[i].op, p[m].op)
    BY <1>3, <1>5, <2>1 DEF MayPrecede
  <2>2. a + 4 \in 1 .. Len(p) /\ a + 5 \in 1 .. Len(p) /\ p[a + 4].op = "barrier" /\ p[a + 5].op = "makeDir"
    <3>1. p[a + 4] = Op("barrier") /\ p[a + 5] = Op("makeDir")
      BY <1>2 DEF Program
    <3>2. QED
      BY <1>3, <3>1 DEF Op
  <2>3. HasOp(p, "barrier") /\ HasOp(p, "makeDir")
    BY <2>2 DEF HasOp
  <2>4. QED
    BY <1>5, <2>1, <2>3 DEF InTurn
<1>11. OnlyOn(p, comm[q], World, {"ask", "poll", "castAnswer"})
  <2> SUFFICES ASSUME NEW i \in 1 .. Len(p), p[i].op \in {"ask", "poll", "castAnswer"}
               PROVE  \E h \in 1 .. i - 1 : /\ p[h].op = "setComm" /\ p[h].comm = World
                                            /\ \A m \in h + 1 .. i - 1 : p[m].op \in Steady
    BY DEF OnlyOn
  <2>1. i \in a + 11 .. k
    BY <1>5
  <2>2. p[a + 9] = SetComm(World, TRUE) /\ p[a + 10] = Write("packageOptionsStarted")
    BY <1>2 DEF Program
  <2>3. \A m \in a + 10 .. i - 1 : m = a + 10 \/ m \in a + 11 .. k
    BY <1>3, <2>1
  <2>4. \A m \in a + 11 .. k : p[m].op \in {"ask", "poll", "castAnswer"}
    BY <1>2 DEF Program
  <2>5. \A m \in a + 10 .. i - 1 : p[m].op \in Steady
    BY <2>2, <2>3, <2>4 DEF Steady, Write
  <2>6. a + 9 \in 1 .. i - 1 /\ (a + 9) + 1 = a + 10 /\ p[a + 9].op = "setComm" /\ p[a + 9].comm = World
    BY <1>3, <2>1, <2>2 DEF SetComm
  <2>7. QED
    BY <2>5, <2>6
<1>12. OnlyOn(p, comm[q], calls[taken[q]].comm, {"name", "writeLog"})
  BY <1>5 DEF OnlyOn
<1>13. Handling(q)
  BY <1>4, <1>5, <1>10, <1>11, <1>12 DEF Handling, HasOp
<1>14. QED
  BY <1>9, <1>13

-----------------------------------------------------------------------------
(* The choice of the program.                                              *)

\* Nothing happens before the program is chosen.
LEMMA OnlyStart ==
  ASSUME SInit, [SNext]_svars
  PROVE  Start \/ UNCHANGED svars
<1>1. \A r \in Ranks : \A op : Doing(r, op) => op = "start"
  BY DEF SInit, Doing, Head1, Op
<1>2. \A r \in Ranks : ~RankStep(r) /\ ~RefuseLog(r)
  BY <1>1 DEF RankStep, RefuseLog, EngineStep, LoggerStep, DoSetComm, DoName, DoWrite, DoSay, DoFlush, DoPop, DoDeliver,
              DoWriteLog, DoLine, DoSet, DoLook, DoMakeDir, DoAsk, DoPoll, DoTimeout
<1>3. \A c \in AllComms : ~Collective(c)
  <2>1. \A c \in AllComms : c \subseteq Ranks /\ c # {}
    BY CommFacts
  <2>2. QED
    BY <1>1, <2>1 DEF Collective, DoGather, DoSync, Together
<1>4. ~CastDir /\ ~Meet /\ ~CastAnswer
  <2>1. World # {} /\ World \subseteq Ranks
    BY CommFacts
  <2>2. QED
    BY <1>1, <2>1 DEF CastDir, Meet, CastAnswer, AllDoing
<1>5. ~ReaderAnswers
  BY CommFacts DEF ReaderAnswers, SInit
<1>6. QED
  BY <1>2, <1>3, <1>4, <1>5 DEF SNext, Meetings

\* The choice of the program is the beginning.
LEMMA StartBegins ==
  ASSUME SInit, Start
  PROVE  Begun' /\ calls' # << >>
<1> DEFINE own == <<OwnMessage, OwnMessage, OwnMessage>>
           Message == [comm : AllComms, black : BOOLEAN]
<1>1. PICK early \in 0 .. MaxLogs, late \in 0 .. MaxLogs, questions \in 0 .. MaxQuestions :
        \E said \in [1 .. early -> Messages], after \in [1 .. late -> Messages] :
          /\ calls' = said \o own \o after
          /\ todo' = [r \in Ranks |-> LoadRunInfo(r, early, calls', questions)]
  BY DEF Start
<1>2. PICK said \in [1 .. early -> Messages], after \in [1 .. late -> Messages] :
          /\ calls' = said \o own \o after
          /\ todo' = [r \in Ranks |-> LoadRunInfo(r, early, calls', questions)]
  BY <1>1
<1>3. early \in Nat /\ late \in Nat /\ questions \in Nat
  BY <1>1, BoundsAssumption, StartUpAssumption
<1>4. Messages \subseteq Message /\ OwnMessage \in Message
  BY CommFacts DEF Messages, OwnMessage, AllComms
<1>5. /\ said \in Seq(Message) /\ Len(said) = early /\ after \in Seq(Message) /\ Len(after) = late
      /\ own \in Seq(Message) /\ Len(own) = 3 /\ \A n \in 1 .. 3 : own[n] = OwnMessage
  <2>1. said \in [1 .. early -> Message] /\ after \in [1 .. late -> Message]
    BY <1>2, <1>4
  <2>2. said \in Seq(Message) /\ Len(said) = early /\ after \in Seq(Message) /\ Len(after) = late
    <3> HIDE DEF Message
    <3>1. \A n \in Nat : \A f \in [1 .. n -> Message] : f \in Seq(Message) /\ Len(f) = n
      OBVIOUS
    <3>2. QED
      BY <1>3, <2>1, <3>1
  <2>3. own \in Seq(Message) /\ Len(own) = 3 /\ own[1] = OwnMessage /\ own[2] = OwnMessage /\ own[3] = OwnMessage
    BY <1>4, TupleFacts
  <2>4. QED
    BY <2>2, <2>3
<1> HIDE DEF own, Message
<1>6. /\ said \o own \in Seq(Message) /\ Len(said \o own) = early + 3
      /\ \A n \in 1 .. early + 3 : (said \o own)[n] = IF n <= early THEN said[n] ELSE own[n - early]
  <2>1. /\ said \o own \in Seq(Message) /\ Len(said \o own) = Len(said) + Len(own)
        /\ \A n \in 1 .. Len(said) + Len(own) : (said \o own)[n] = IF n <= Len(said) THEN said[n] ELSE own[n - Len(said)]
    BY <1>5, ConcatProperties
  <2>2. QED
    BY <1>5, <2>1
<1>7. /\ calls' \in Seq(Message) /\ Len(calls') = early + 3 + late
      /\ \A n \in 1 .. early + 3 + late : calls'[n] = IF n <= early + 3 THEN (said \o own)[n] ELSE after[n - (early + 3)]
  <2> DEFINE front == said \o own
  <2>1. front \in Seq(Message) /\ Len(front) = early + 3
    BY <1>6
  <2>2. calls' = front \o after
    BY <1>2
  <2> HIDE DEF front
  <2>3. /\ front \o after \in Seq(Message) /\ Len(front \o after) = Len(front) + Len(after)
        /\ \A n \in 1 .. Len(front) + Len(after) :
             (front \o after)[n] = IF n <= Len(front) THEN front[n] ELSE after[n - Len(front)]
    <3>1. after \in Seq(Message) /\ front \in Seq(Message)
      BY <1>5, <2>1
    <3>2. QED
      BY ONLY <3>1, ConcatProperties
  <2>4. QED
    BY <1>5, <2>1, <2>2, <2>3 DEF front
<1>8. \A n \in early + 1 .. early + 3 : calls'[n] = OwnMessage
  <2> TAKE n \in early + 1 .. early + 3
  <2>1. n \in 1 .. early + 3 /\ n \in 1 .. early + 3 + late /\ n <= early + 3 /\ ~(n <= early) /\ n - early \in 1 .. 3
    BY <1>3
  <2>2. QED
    BY <2>1, <1>5, <1>6, <1>7
<1>9. \A r \in Ranks : todo'[r] \in Seq(AnyStep) /\ \E a, k \in Nat : Program(todo'[r], r, calls', early, a, k)
  <2> TAKE r \in Ranks
  <2>1. todo'[r] = LoadRunInfo(r, early, calls', questions) /\ Len(calls') \in Nat /\ early + 3 <= Len(calls')
    BY <1>2, <1>3, <1>7
  <2>2. QED
    BY <1>3, <2>1, ProgramFacts
<1>10. UNCHANGED <<comm, id, known, stream, taken, mode, locked, saved, told, printed, refused, ready, dirs, dir, answers, answer>>
  BY DEF Start, engine, logger, files, reader
<1>11. StartTyped'
  <2>1. todo' \in [Ranks -> Seq(AnyStep)]
    BY <1>2, <1>9
  <2>2. calls' \in Seq([comm : AllComms, black : BOOLEAN])
    BY <1>7 DEF Message
  <2>3. /\ << >> \in Seq(Nat) /\ << >> \in Seq(Entry) /\ << >> \in Seq([asked : Nat, got : Int])
    BY EmptySeq
  <2>4. QED
    BY <1>10, <2>1, <2>2, <2>3 DEF StartTyped, SInit
<1>12. calls' # << >>
  BY <1>3, <1>7, EmptySeq
<1>13. QED
  <2>1. early + 3 <= Len(calls')
    BY <1>3, <1>7
  <2>2. \E e \in Nat :
          /\ e + 3 <= Len(calls') /\ \A n \in e + 1 .. e + 3 : calls'[n] = OwnMessage
          /\ \A r \in Ranks : \E a, k \in Nat : Program(todo'[r], r, calls', e, a, k)
    BY <1>3, <1>8, <1>9, <2>1
  <2>3. /\ \A r \in Ranks : /\ told'[r] = {} /\ saved'[r] = << >> /\ printed'[r] = << >> /\ answer'[r] = << >>
                            /\ comm'[r] = {} /\ dir'[r] = 0 /\ taken'[r] = 0
        /\ \A c \in AllComms : stream'[c] = << >>
        /\ answers' = {} /\ refused' = 0
    BY <1>10 DEF SInit
  <2>4. QED
    BY <1>11, <1>12, <2>2, <2>3 DEF Begun

-----------------------------------------------------------------------------
(* One directory.                                                          *)

\* Rank q has such an operation to do.
Has(q, op) == HasOp(todo[q], op)

\* Behind the barrier all have the same directory.  Before, a rank that has looked for it
\* has the configured one, or is to take part in the broadcast, or all have.
OneDir ==
  \A r \in Ranks :
    /\ ~Has(r, "barrier") => \A q \in Ranks : ~Has(q, "barrier") /\ dir[q] = dir[r]
    /\ Has(r, "barrier") /\ ~Has(r, "look") =>
         IF 0 \in dirs THEN Has(r, "castDir") \/ \A q \in Ranks : ~Has(q, "look") /\ ~Has(q, "castDir") /\ dir[q] = dir[r]
         ELSE ~Has(r, "castDir") /\ dir[r] = 0

\* What a rank has to do about the directory after a step.
LEMMA DoesDirectory ==
  ASSUME StartTyped, NEW q \in Ranks, Handling(q), NEW first, Does(q, first)
  PROVE  LET o == todo[q][1]
         IN  /\ o.op = "look" =>
                  /\ Has(q, "look") /\ Has(q, "barrier") /\ Has(q, "barrier")' /\ ~Has(q, "look")'
                  /\ (first = << >> => ~Has(q, "castDir")') /\ (first # << >> => Has(q, "castDir")')
             /\ o.op = "castDir" => /\ Has(q, "castDir") /\ Has(q, "barrier") /\ ~Has(q, "look")
                                    /\ Has(q, "barrier")' /\ ~Has(q, "look")' /\ ~Has(q, "castDir")'
             /\ o.op = "barrier" => Has(q, "barrier") /\ ~Has(q, "barrier")' /\ ~Has(q, "look") /\ ~Has(q, "castDir")
             /\ o.op = "makeDir" => ~Has(q, "barrier")
             /\ o.op \notin {"look", "castDir", "barrier"} =>
                  \A op \in {"look", "castDir", "barrier"} : Has(q, op)' <=> Has(q, op)
<1> DEFINE s == todo[q]
           t == todo'[q]
           o == todo[q][1]
           later(op) == \E m \in 2 .. Len(s) : s[m].op = op
<1>1. /\ s \in Seq(AnyStep) /\ s # << >> /\ Len(s) \in Nat /\ 1 \in 1 .. Len(s) /\ o \in AnyStep
      /\ first \in Seq(AnyStep) /\ Len(first) \in 0 .. 5 /\ (first # << >> => Brings(o, first))
      /\ t \in Seq(AnyStep) /\ Replaces(s, first, t)
      /\ \A m \in 2 .. Len(s) : m \in 1 .. Len(s) /\ MayPrecede(o.op, s[m].op)
  BY DoesFacts DEF Handling
<1>2. \A op : HasOp(t, op) <=> HasOp(first, op) \/ later(op)
  BY <1>1, HasFacts
<1>3. \A op : HasOp(s, op) <=> o.op = op \/ later(op)
  <2>1. \A m \in 1 .. Len(s) : m = 1 \/ m \in 2 .. Len(s)
    BY <1>1
  <2>2. QED
    BY <1>1, <2>1 DEF HasOp
<1>4. ~HasOp(first, "look") /\ ~HasOp(first, "barrier") /\ (HasOp(first, "castDir") <=> o.op = "look" /\ first # << >>)
  <2>1. ASSUME NEW i \in 1 .. Len(first)
        PROVE  first[i].op \notin {"look", "barrier"} /\ (first[i].op = "castDir" => o.op = "look" /\ first # << >>)
    <3>1. Brings(o, first) /\ first # << >>
      BY <1>1, <2>1
    <3>2. QED
      BY <1>1, <2>1, <3>1, BringsFacts
  <2>2. o.op = "look" /\ first # << >> => HasOp(first, "castDir")
    <3>1. SUFFICES ASSUME o.op = "look", first # << >>
                   PROVE  \E i \in 1 .. Len(first) : first[i].op = "castDir"
      BY DEF HasOp
    <3>2. Brings(o, first)
      BY <1>1, <3>1
    <3>3. Len(first) = 2 /\ first[1].op = "castDir"
      BY <3>1, <3>2 DEF Brings
    <3>4. QED
      BY <3>3
  <2>3. QED
    BY <2>1, <2>2 DEF HasOp
<1>5. \A op : later(op) => MayPrecede(o.op, op)
  BY <1>1
<1>6. /\ o.op \in {"look", "castDir"} => HasOp(s, "barrier")
  BY <1>1 DEF Handling, InTurn
<1> HIDE DEF later
<1>7. /\ o.op \in {"look", "castDir", "barrier", "makeDir"} => ~later("look") /\ ~later("castDir")
      /\ o.op \in {"barrier", "makeDir"} => ~later("barrier")
  BY <1>5 DEF MayPrecede
<1>8. QED
  BY <1>2, <1>3, <1>4, <1>6, <1>7 DEF Has

\* It stays when the rank does nothing.
LEMMA StaysDirectory ==
  ASSUME StartTyped, NEW q \in Ranks, Handling(q), Same(q) \/ RefuseLog(q)
  PROVE  \A op \in {"look", "castDir", "barrier"} : Has(q, op)' <=> Has(q, op)
<1>1. CASE Same(q)
  BY <1>1 DEF Same, Has
<1>2. CASE RefuseLog(q)
  <2> DEFINE s == todo[q]
             t == todo'[q]
  <2>1. /\ Len(s) \in Nat /\ Len(t) = Len(s) - 2
        /\ \A i \in 1 .. Len(t) : i + 2 \in 1 .. Len(s) /\ t[i] = s[i + 2]
        /\ s[1].op = "writeLog" /\ s[2].op = "setComm"
    BY <1>2, RefuseDoes DEF Handling
  <2>2. \A m \in 1 .. Len(s) : m = 1 \/ m = 2 \/ (m - 2 \in 1 .. Len(t) /\ (m - 2) + 2 = m)
    BY <2>1
  <2>3. \A m \in 1 .. Len(s) : m = 1 \/ m = 2 \/ \E i \in 1 .. Len(t) : t[i] = s[m]
    BY <2>1, <2>2
  <2>4. QED
    BY <2>1, <2>3, ZenonT(40) DEF Has, HasOp
<1>3. QED
  BY <1>1, <1>2

\* Every step keeps what is known of the directory.
LEMMA OneDirKept ==
  ASSUME StartTyped, calls # << >>, Books, OneDir, [SNext]_svars
  PROVE  OneDir'
<1>1. /\ Steps
      /\ \A q \in Ranks : Same(q) \/ (\E first : Does(q, first)) \/ RefuseLog(q)
  BY StepEffects
<1>2. \A q \in Ranks : Handling(q)
  BY DEF Books
<1>3. ASSUME UNCHANGED <<dir, dirs>>, \A q \in Ranks : \A op \in {"look", "castDir", "barrier"} : Has(q, op)' <=> Has(q, op)
      PROVE  OneDir'
  BY <1>3 DEF OneDir
<1>4. ASSUME NEW q \in Ranks, Same(q) \/ RefuseLog(q)
      PROVE  \A op \in {"look", "castDir", "barrier"} : Has(q, op)' <=> Has(q, op)
  BY <1>2, <1>4, StaysDirectory
<1>5. ASSUME NEW r \in Ranks, RankStep(r), Alone(r)
      PROVE  OneDir'
  <2>1. PICK first : Does(r, first)
    BY <1>5 DEF Alone
  <2>2. \A q \in Ranks \ {r} : \A op \in {"look", "castDir", "barrier"} : Has(q, op)' <=> Has(q, op)
    BY <1>4, <1>5 DEF Alone
  <2>3. CASE DoLook(r)
    <3>1. todo[r][1].op = "look"
      BY <2>3, DoingStep DEF DoLook, StartTyped
    <3>2. /\ Has(r, "look") /\ Has(r, "barrier") /\ Has(r, "barrier")' /\ ~Has(r, "look")'
          /\ (first = << >> => ~Has(r, "castDir")') /\ (first # << >> => Has(r, "castDir")')
      BY <1>2, <2>1, <3>1, DoesDirectory
    <3>3. dirs' = dirs /\ \A q \in Ranks \ {r} : dir'[q] = dir[q]
      BY <2>3 DEF DoLook, StartTyped
    <3>4. 0 \notin dirs => dir'[r] = 0
      BY <2>3 DEF DoLook, StartTyped
    <3>5. 0 \in dirs <=> Has(r, "castDir")'
      <4>1. todo'[r] = (IF 0 \in dirs THEN <<Op("castDir"), Say(Head1(r).warning)>> ELSE << >>) \o Tail(todo[r])
        BY <2>3 DEF DoLook, Instead, StartTyped
      <4>2. /\ todo[r] \in Seq(AnyStep) /\ todo[r] # << >> /\ Head1(r).warning \in Nat
        <5>1. todo[r] \in Seq(AnyStep) /\ todo[r] # << >> /\ Head1(r) = todo[r][1] /\ todo[r][1] \in AnyStep
          BY <2>3, DoingStep DEF DoLook, StartTyped
        <5>2. QED
          BY <3>1, <5>1, StepCases
      <4>3. CASE 0 \in dirs
        <5> DEFINE new == <<Op("castDir"), Say(Head1(r).warning)>>
        <5>1. Op("castDir") \in AnyStep /\ Say(Head1(r).warning) \in AnyStep
          BY <4>2, StepFacts
        <5>2. new \in Seq(AnyStep) /\ Len(new) = 2 /\ new[1] = Op("castDir")
          BY <5>1, TupleFacts
        <5>3. todo'[r] = new \o Tail(todo[r])
          BY <4>1, <4>3
        <5> HIDE DEF new
        <5>4. Replaces(todo[r], new, todo'[r]) /\ todo'[r] \in Seq(AnyStep)
          BY <4>2, <5>2, <5>3, ReplacesFacts
        <5>5. 1 \in 1 .. Len(todo'[r]) /\ todo'[r][1] = new[1]
          <6>1. 1 \in 1 .. Len(new)
            BY <5>2
          <6>2. \A i \in 1 .. Len(new) : i \in 1 .. Len(todo'[r]) /\ todo'[r][i] = new[i]
            BY <4>2, <5>2, <5>4, HasFacts
          <6>3. QED
            BY <6>1, <6>2
        <5>6. QED
          BY <4>3, <5>2, <5>5 DEF Has, HasOp, Op
      <4>4. CASE 0 \notin dirs
        <5>1. todo'[r] = << >> \o Tail(todo[r])
          BY <4>1, <4>4
        <5>2. todo'[r] = Tail(todo[r]) /\ Tail(todo[r]) \in Seq(AnyStep)
          BY <4>2, <5>1, HeadTail
        <5>3. Len(todo'[r]) = Len(todo[r]) - 1 /\ Len(todo[r]) \in Nat
          BY <4>2, <5>2, HeadTailProperties, LenProperties
        <5>4. Len(todo'[r]) = Len(first) + Len(todo[r]) - 1 /\ first \in Seq(AnyStep) /\ Len(first) \in Nat
          BY <1>2, <2>1, DoesFacts DEF Handling, Replaces
        <5>5. first = << >>
          BY <5>3, <5>4, EmptySeq
        <5>6. QED
          BY <3>2, <4>4, <5>5
      <4>5. QED
        BY <4>3, <4>4
    <3>6. QED
      BY <2>2, <3>2, <3>3, <3>4, <3>5 DEF OneDir
  <2>4. CASE DoMakeDir(r)
    <3>1. todo[r][1].op = "makeDir"
      BY <2>4, DoingStep DEF DoMakeDir, StartTyped
    <3>2. ~Has(r, "barrier") /\ \A op \in {"look", "castDir", "barrier"} : Has(r, op)' <=> Has(r, op)
      BY <1>2, <2>1, <3>1, DoesDirectory
    <3>3. dir' = dir
      BY <2>4 DEF DoMakeDir
    <3>4. QED
      BY <2>2, <3>2, <3>3 DEF OneDir
  <2>5. CASE ~DoLook(r) /\ ~DoMakeDir(r)
    <3>1. UNCHANGED <<dir, dirs>>
      BY <1>5, <2>5 DEF RankStep, EngineStep, LoggerStep, DoSay, DoFlush, DoPop, DoDeliver,
                DoWriteLog, DoLine, DoSet, DoAsk, DoPoll, DoTimeout, files
    <3>2. todo[r][1].op \notin {"look", "castDir", "barrier"}
      <4>1. \A op : Doing(r, op) => todo[r][1].op = op
        BY DoingStep DEF StartTyped
      <4>2. QED
        BY <1>5, <2>5, <4>1 DEF RankStep, EngineStep, LoggerStep, DoSetComm, DoName, DoWrite, DoSay, DoFlush, DoPop,
                DoDeliver, DoWriteLog, DoLine, DoSet, DoAsk, DoPoll, DoTimeout
    <3>3. QED
      BY <1>2, <1>3, <2>1, <2>2, <3>1, <3>2, DoesDirectory
  <2>6. QED
    BY <2>3, <2>4, <2>5
<1>6. ASSUME NEW r \in Ranks, RefuseLog(r), \A q \in Ranks \ {r} : Same(q)
      PROVE  OneDir'
  BY <1>3, <1>4, <1>6 DEF RefuseLog, files
<1>7. ASSUME NEW c \in AllComms, Collective(c), UNCHANGED <<logger, files, reader>>, TogetherDo(c)
      PROVE  OneDir'
  <2>1. ASSUME NEW q \in c
        PROVE  q \in Ranks /\ Does(q, << >>) /\ todo[q][1].op \in {"gather", "sync"}
    BY <1>7, <2>1, CommFacts, DoingStep DEF TogetherDo, Collective, DoGather, DoSync, Together, StartTyped
  <2>2. \A q \in Ranks : \A op \in {"look", "castDir", "barrier"} : Has(q, op)' <=> Has(q, op)
    BY <1>2, <1>4, <1>7, <2>1, DoesDirectory DEF TogetherDo
  <2>3. QED
    BY <1>3, <1>7, <2>2 DEF files
<1>8. ASSUME CastDir \/ Meet \/ CastAnswer, TogetherDo(World)
      PROVE  OneDir'
  <2>1. \A q \in Ranks : Does(q, << >>)
    BY <1>8 DEF TogetherDo, World
  <2>2. CASE CastDir
    <3>1. \A q \in Ranks : todo[q][1].op = "castDir"
      BY <2>2, DoingStep DEF CastDir, AllDoing, World, StartTyped
    <3>2. \A q \in Ranks : /\ Has(q, "castDir") /\ Has(q, "barrier") /\ ~Has(q, "look")
                           /\ Has(q, "barrier")' /\ ~Has(q, "look")' /\ ~Has(q, "castDir")'
      BY <1>2, <2>1, <3>1, DoesDirectory
    <3>3. dirs' = dirs /\ \A q \in Ranks : dir'[q] = dir[Root(World)]
      BY <2>2 DEF CastDir
    <3>4. 0 \in dirs
      BY <3>2, RanksAssumption DEF OneDir
    <3>5. QED
      BY <3>2, <3>3, <3>4 DEF OneDir
  <2>3. CASE Meet /\ AllDoing("barrier")
    <3>1. \A q \in Ranks : todo[q][1].op = "barrier"
      BY <2>3, DoingStep DEF AllDoing, World, StartTyped
    <3>2. \A q \in Ranks : Has(q, "barrier") /\ ~Has(q, "barrier")' /\ ~Has(q, "look") /\ ~Has(q, "castDir")
      BY <1>2, <2>1, <3>1, DoesDirectory
    <3>3. \A r, q \in Ranks : dir[q] = dir[r]
      BY <3>2 DEF OneDir
    <3>4. dir' = dir
      BY <2>3 DEF Meet, files
    <3>5. QED
      BY <3>2, <3>3, <3>4 DEF OneDir
  <2>4. CASE (Meet /\ AllDoing("nodeMap")) \/ CastAnswer
    <3>1. \A q \in Ranks : todo[q][1].op \in {"nodeMap", "castAnswer"}
      BY <2>4, DoingStep DEF CastAnswer, AllDoing, World, StartTyped
    <3>2. \A q \in Ranks : \A op \in {"look", "castDir", "barrier"} : Has(q, op)' <=> Has(q, op)
      BY <1>2, <2>1, <3>1, DoesDirectory
    <3>3. UNCHANGED <<dir, dirs>>
      BY <2>4 DEF Meet, CastAnswer, files
    <3>4. QED
      BY <1>3, <3>2, <3>3
  <2>5. QED
    BY <1>8, <2>2, <2>3, <2>4 DEF Meet
<1>9. CASE ReaderAnswers
  BY <1>3, <1>9 DEF ReaderAnswers, vars, app, files, Has
<1>10. CASE UNCHANGED svars
  BY <1>3, <1>10 DEF svars, vars, app, files, Has
<1>11. QED
  BY <1>1, <1>5, <1>6, <1>7, <1>8, <1>9, <1>10 DEF Steps

\* It holds at the beginning.
LEMMA BegunOneDir == Begun => OneDir
<1> SUFFICES ASSUME Begun, NEW r \in Ranks
             PROVE  Has(r, "barrier") /\ Has(r, "look")
  BY DEF OneDir
<1>1. PICK e \in Nat, a \in Nat, k \in Nat : Program(todo[r], r, calls, e, a, k)
  BY DEF Begun
<1>2. /\ a + 10 <= k /\ k + 4 <= Len(todo[r]) /\ Len(todo[r]) \in Nat
      /\ todo[r][a + 3].op = "look" /\ todo[r][a + 4].op = "barrier"
  <2>1. /\ a + 10 <= k /\ k + 4 <= Len(todo[r])
        /\ todo[r][a + 3] = [op |-> "look", warning |-> e + 2] /\ todo[r][a + 4] = Op("barrier")
    BY <1>1 DEF Program
  <2>2. Len(todo[r]) \in Nat
    BY LenProperties DEF Begun, StartTyped
  <2>3. QED
    BY <2>1, <2>2 DEF Op
<1>3. a + 3 \in 1 .. Len(todo[r]) /\ a + 4 \in 1 .. Len(todo[r])
  BY <1>2
<1>4. QED
  BY <1>2, <1>3 DEF Has, HasOp

-----------------------------------------------------------------------------
(* The answers.                                                            *)

\* Every rank has got what the root has, or the beginning of it, and an answer is to its question.
Answers ==
  LET all == answer[Root(World)]
  IN  \A r \in Ranks :
        /\ Len(answer[r]) <= Len(all)
        /\ \A i \in 1 .. Len(answer[r]) : answer[r][i] = all[i] /\ answer[r][i].got \in {-1, answer[r][i].asked}

\* The root of the world has one answer more.
LEMMA AnswerKept ==
  ASSUME StartTyped, Answers, NEW got \in Int, got \in {-1, taken[Root(World)]},
         answer' = [answer EXCEPT ![Root(World)] = Append(@, [asked |-> taken[Root(World)], got |-> got])]
  PROVE  Answers'
<1> DEFINE z == Root(World)
           all == answer[z]
           one == [asked |-> taken[z], got |-> got]
           A == [asked : Nat, got : Int]
<1>1. z \in Ranks
  BY CommFacts, RootFacts
<1>2. one \in A /\ one.got \in {-1, one.asked}
  BY <1>1 DEF StartTyped
<1>3. all \in Seq(A) /\ Len(all) \in Nat
  BY <1>1, LenProperties DEF StartTyped
<1> HIDE DEF A, one
<1>4. /\ Len(Append(all, one)) = Len(all) + 1 /\ Append(all, one)[Len(all) + 1] = one
      /\ \A i \in 1 .. Len(all) : Append(all, one)[i] = all[i]
  BY <1>2, <1>3, AppendProperties
<1>5. answer'[z] = Append(all, one) /\ \A r \in Ranks \ {z} : answer'[r] = answer[r]
  BY <1>1 DEF StartTyped, one
<1>6. \A r \in Ranks : Len(answer[r]) \in Nat
  BY LenProperties DEF StartTyped
<1>7. ASSUME NEW r \in Ranks \ {z}
      PROVE  /\ Len(answer'[r]) <= Len(answer'[z])
             /\ \A i \in 1 .. Len(answer'[r]) : answer'[r][i] = answer'[z][i]
                                                /\ answer'[r][i].got \in {-1, answer'[r][i].asked}
  <2>1. Len(answer[r]) <= Len(all) /\ \A i \in 1 .. Len(answer[r]) : i \in 1 .. Len(all)
    BY <1>3, <1>6 DEF Answers
  <2>2. QED
    BY <1>3, <1>4, <1>5, <1>6, <2>1 DEF Answers
<1>8. ASSUME NEW i \in 1 .. Len(answer'[z])
      PROVE  answer'[z][i].got \in {-1, answer'[z][i].asked}
  <2>1. i = Len(all) + 1 \/ i \in 1 .. Len(all)
    BY <1>3, <1>4, <1>5
  <2>2. \A k \in 1 .. Len(all) : all[k].got \in {-1, all[k].asked}
    BY <1>1 DEF Answers
  <2>3. QED
    BY <1>2, <1>4, <1>5, <2>1, <2>2
<1>9. Len(answer'[z]) \in Int
  BY <1>3, <1>4, <1>5
<1>10. QED
  BY <1>7, <1>8, <1>9 DEF Answers

\* Every step keeps what the ranks got.
LEMMA AnswersKept ==
  ASSUME StartTyped, Books, Answers, [SNext]_svars, calls # << >>
  PROVE  Answers'
<1> DEFINE z == Root(World)
<1>1. z \in Ranks
  BY CommFacts, RootFacts
<1>2. ASSUME NEW r \in Ranks, Doing(r, "poll"), r = Root(comm[r])
      PROVE  r = z
  <2>1. todo[r] \in Seq(AnyStep) /\ todo[r] # << >> /\ todo[r][1].op = "poll" /\ Len(todo[r]) \in Nat
    BY <1>2, DoingStep, LenProperties DEF StartTyped
  <2>2. 1 \in 1 .. Len(todo[r])
    BY <2>1, EmptySeq
  <2>3. OnlyOn(todo[r], comm[r], World, {"ask", "poll", "castAnswer"})
    BY DEF Books, Handling
  <2>4. comm[r] = World
    BY <2>1, <2>2, <2>3 DEF OnlyOn
  <2>5. QED
    BY <1>2, <2>4
<1>3. ASSUME NEW r \in Ranks, DoPoll(r), r = Root(comm[r])
      PROVE  Answers'
  <2>1. r = z
    BY <1>2, <1>3 DEF DoPoll
  <2>2. PICK a \in answers : a.file = ResponseFile(taken[r])
                             /\ answer' = [answer EXCEPT ![r] = Append(@, [asked |-> taken[r], got |-> a.to])]
    BY <1>3 DEF DoPoll
  <2>3. a.to = taken[r] /\ a.to \in Int
    BY <2>2 DEF StartTyped, ResponseFile
  <2>4. QED
    BY <2>1, <2>2, <2>3, AnswerKept
<1>4. ASSUME NEW r \in Ranks, DoTimeout(r)
      PROVE  Answers'
  <2>1. r = z /\ answer' = [answer EXCEPT ![r] = Append(@, [asked |-> taken[r], got |-> -1])]
    BY <1>2, <1>4 DEF DoTimeout
  <2>2. -1 \in Int
    OBVIOUS
  <2>3. QED
    BY <2>1, <2>2, AnswerKept
<1>5. CASE CastAnswer
  <2>1. \A r \in Ranks : answer'[r] = answer[z]
    BY <1>5 DEF CastAnswer
  <2>2. Len(answer[z]) \in Nat
    BY <1>1, LenProperties DEF StartTyped
  <2>3. QED
    BY <1>1, <2>1, <2>2 DEF Answers
<1>6. CASE answer' = answer
  BY <1>6 DEF Answers
<1>7. ASSUME NEW r \in Ranks, RankStep(r)
      PROVE  Answers'
  <2>1. CASE DoPoll(r) \/ DoTimeout(r)
    BY <1>3, <1>4, <1>6, <2>1 DEF DoPoll
  <2>2. CASE ~DoPoll(r) /\ ~DoTimeout(r)
    <3>1. answer' = answer
      BY <1>7, <2>2 DEF RankStep, EngineStep, LoggerStep, DoSay, DoFlush, DoPop, DoDeliver, DoWriteLog, DoLine, DoSet,
                        DoLook, DoMakeDir, DoAsk, reader
    <3>2. QED
      BY <1>6, <3>1
  <2>3. QED
    BY <2>1, <2>2
<1>8. CASE \E r \in Ranks : RefuseLog(r)
  BY <1>6, <1>8 DEF RefuseLog, reader
<1>9. CASE \E c \in AllComms : Collective(c) /\ UNCHANGED <<logger, files, reader>>
  BY <1>6, <1>9 DEF reader
<1>10. CASE CastDir \/ Meet \/ ReaderAnswers
  BY <1>6, <1>10 DEF CastDir, Meet, ReaderAnswers, reader
<1>11. CASE UNCHANGED svars
  BY <1>6, <1>11 DEF svars, reader
<1>12. QED
  BY <1>5, <1>7, <1>8, <1>9, <1>10, <1>11, StepEffects DEF Steps

-----------------------------------------------------------------------------
\* Directory and answers, with what they rest on.
Agreement == SInit \/ (calls # << >> /\ StartTyped /\ Books /\ OneDir /\ Answers)

\* The invariant is inductive.
LEMMA AgreementKept == Agreement /\ [SNext]_svars => Agreement'
<1>0. (Begun => StartTyped /\ Books /\ OneDir /\ Answers)'
  <2>1. << >> \in Seq(Nat) /\ Len(<< >>) = 0
    BY EmptySeq
  <2>2. Begun => Answers
    BY <2>1, CommFacts, RootFacts DEF Begun, Answers
  <2>3. Begun => StartTyped /\ Books /\ OneDir /\ Answers
    BY <2>2, BegunBooks, BegunOneDir DEF Begun
  <2>4. QED
    BY <2>3, PTL
<1> SUFFICES ASSUME Agreement, [SNext]_svars
             PROVE  Agreement'
  OBVIOUS
<1>1. CASE SInit
  <2>1. CASE Start
    BY <1>0, <1>1, <2>1, StartBegins DEF Agreement
  <2>2. CASE UNCHANGED svars
    <3>1. SInit'
      BY <1>1, <2>2 DEF SInit, svars, vars, app, engine, logger, files, reader
    <3>2. QED
      BY <3>1 DEF Agreement
  <2>3. QED
    BY <1>1, <2>1, <2>2, OnlyStart
<1>2. CASE calls # << >> /\ StartTyped /\ Books /\ OneDir /\ Answers
  BY <1>2, StepEffects, BooksKept, OneDirKept, AnswersKept DEF Agreement
<1>3. QED
  BY <1>1, <1>2 DEF Agreement

\* It is enough for agreement.
LEMMA AgreementAgrees == Agreement => RanksAgree
<1> SUFFICES ASSUME Agreement, NEW r \in Ranks, NEW s \in Ranks
             PROVE  /\ Past(r, "makeDir") /\ Past(s, "makeDir") => dir[r] = dir[s]
                    /\ \A i \in DOMAIN answer[r] :
                         /\ answer[r][i].got \in {-1, answer[r][i].asked}
                         /\ i \in DOMAIN answer[s] => answer[r][i] = answer[s][i]
  BY DEF RanksAgree
<1>1. CASE SInit
  BY <1>1 DEF SInit, Past
<1>2. CASE calls # << >> /\ StartTyped /\ Books /\ OneDir /\ Answers
  <2>1. Past(r, "makeDir") => ~Has(r, "barrier")
    <3>1. todo[r] \in Seq(AnyStep)
      BY <1>2 DEF StartTyped
    <3>2. DOMAIN todo[r] = 1 .. Len(todo[r])
      BY <3>1
    <3>3. InTurn(todo[r])
      BY <1>2 DEF Books, Handling
    <3>4. QED
      BY <3>2, <3>3 DEF Past, InTurn, Has, HasOp
  <2>2. Past(r, "makeDir") => dir[s] = dir[r]
    BY <1>2, <2>1 DEF OneDir
  <2>3. /\ answer[r] \in Seq([asked : Nat, got : Int]) /\ answer[s] \in Seq([asked : Nat, got : Int])
        /\ DOMAIN answer[r] = 1 .. Len(answer[r]) /\ DOMAIN answer[s] = 1 .. Len(answer[s])
    BY <1>2 DEF StartTyped
  <2>4. QED
    BY <1>2, <2>2, <2>3 DEF Answers
<1>3. QED
  BY <1>1, <1>2 DEF Agreement

\* Ranks that have made the output directory write to the same one, and what they got
\* for a question is the same, and the answer to that question.
THEOREM StartAgrees == SSpec => []RanksAgree
<1>1. SInit => Agreement
  BY DEF Agreement
<1>2. QED
  BY <1>1, AgreementKept, AgreementAgrees, PTL DEF SSpec

-----------------------------------------------------------------------------
(* The places of a message.                                                *)

\* x is an element of s, and the elements of s differ.
Among(s, x) == \E i \in 1 .. Len(s) : s[i] = x
Distinct(s) == \A i, k \in 1 .. Len(s) : i # k => s[i] # s[k]

\* Message n is saved on rank q, is to be delivered there, or is being written.
Keeps(q, n) == Among(Held(q), n)
Delivers(q, n) == \E i \in 1 .. Len(todo[q]) : todo[q][i] = Deliver(n)
Taken(q) == Has(q, IF mode = "engine" THEN "writeLog" ELSE "line")
Hand(q, n) == Delivers(q, n) \/ (taken[q] = n /\ Taken(q))

\* Message n is in stream c, or it is written where rank q writes it.
Written(c, n) == \E i \in Logs(c) : stream[c][i].call = n
Done(q, n) ==
  n \in 1 .. Len(calls) /\
  IF mode = "engine" THEN q = Root(calls[n].comm) /\ Written(calls[n].comm, n)
  ELSE Among(printed[q], n)

\* Rank q writes what it has taken.
Finishes(q) ==
  /\ q = Root(calls[taken[q]].comm)
  /\ todo[q][1].op = IF mode = "engine" THEN "writeLog" ELSE "line"
  /\ \E first : Does(q, first)

\* One more element at the end.
LEMMA AppendAmong ==
  ASSUME NEW s \in Seq(Nat), NEW n \in Nat
  PROVE  /\ \A x : Among(Append(s, n), x) <=> Among(s, x) \/ x = n
         /\ Distinct(s) /\ ~Among(s, n) => Distinct(Append(s, n))
<1> DEFINE t == Append(s, n)
<1>1. Len(s) \in Nat /\ Len(t) = Len(s) + 1 /\ t[Len(s) + 1] = n /\ \A i \in 1 .. Len(s) : t[i] = s[i]
  BY AppendProperties, LenProperties
<1> HIDE DEF t
<1>2. /\ \A i : i \in 1 .. Len(t) <=> i \in 1 .. Len(s) \/ i = Len(s) + 1
  BY <1>1
<1>3. \A x : Among(t, x) <=> Among(s, x) \/ x = n
  BY <1>1, <1>2 DEF Among
<1>4. Distinct(s) /\ ~Among(s, n) => Distinct(t)
  BY <1>1, <1>2 DEF Among, Distinct
<1>5. QED
  BY <1>3, <1>4 DEF t

\* One element less at the front.
LEMMA TailAmong ==
  ASSUME NEW s \in Seq(Nat), s # << >>, Distinct(s)
  PROVE  /\ \A x : Among(Tail(s), x) <=> Among(s, x) /\ x # s[1]
         /\ Distinct(Tail(s)) /\ Among(s, s[1]) /\ s[1] \in Nat
<1> DEFINE t == Tail(s)
<1>1. Len(s) \in Nat /\ Len(s) # 0 /\ Len(t) = Len(s) - 1 /\ \A i \in 1 .. Len(t) : t[i] = s[i + 1]
  BY HeadTailProperties, LenProperties, EmptySeq
<1> HIDE DEF t
<1>2. \A i \in 1 .. Len(t) : i + 1 \in 1 .. Len(s) /\ i + 1 # 1
  BY <1>1
<1>3. \A i \in 1 .. Len(s) : i # 1 => i - 1 \in 1 .. Len(t) /\ (i - 1) + 1 = i
  BY <1>1
<1>4. 1 \in 1 .. Len(s)
  BY <1>1
<1>5. \A i \in 1 .. Len(t) : t[i] = s[i + 1] /\ s[i + 1] # s[1]
  BY <1>1, <1>2, <1>4 DEF Distinct
<1>6. \A x : Among(t, x) <=> Among(s, x) /\ x # s[1]
  <2>1. \A x : Among(t, x) => Among(s, x) /\ x # s[1]
    BY <1>2, <1>5 DEF Among
  <2>2. \A i \in 1 .. Len(s) : i # 1 => \E k \in 1 .. Len(t) : t[k] = s[i]
    BY <1>1, <1>3
  <2>3. \A x : Among(s, x) /\ x # s[1] => Among(t, x)
    BY <2>2 DEF Among
  <2>4. QED
    BY <2>1, <2>3
<1>7. Distinct(t)
  <2> SUFFICES ASSUME NEW i \in 1 .. Len(t), NEW k \in 1 .. Len(t), i # k
               PROVE  t[i] # t[k]
    BY DEF Distinct
  <2>1. i + 1 \in 1 .. Len(s) /\ k + 1 \in 1 .. Len(s) /\ i + 1 # k + 1
    BY <1>2
  <2>2. QED
    BY <1>5, <2>1 DEF Distinct
<1>8. Among(s, s[1]) /\ s[1] \in Nat
  BY <1>4 DEF Among
<1>9. QED
  BY <1>6, <1>7, <1>8 DEF t

-----------------------------------------------------------------------------
(* The streams.                                                            *)

\* Stream c has the messages it had.
LogKept(c) == Logs(c)' = Logs(c) /\ \A i \in Logs(c) : stream'[c][i] = stream[c][i]

\* Rank p, the root of communicator c, writes the message it has taken to stream c.
Adds(p, c) ==
  /\ p \in Ranks /\ mode = "engine" /\ todo[p][1].op = "writeLog" /\ \E first : Does(p, first)
  /\ p = Root(c) /\ c = calls[taken[p]].comm
  /\ \E jid : stream'[c] = Append(stream[c], [jid |-> jid, node |-> "log", call |-> taken[p]])

\* A node is appended to a stream.
LEMMA LongerStream ==
  ASSUME StartTyped, NEW c \in AllComms, NEW e \in Entry, stream'[c] = Append(stream[c], e)
  PROVE  /\ Logs(c)' = Logs(c) \cup IF e.node = "log" THEN {Len(stream[c]) + 1} ELSE {}
         /\ Len(stream[c]) + 1 \notin Logs(c) /\ stream'[c][Len(stream[c]) + 1] = e
         /\ \A i \in Logs(c) : stream'[c][i] = stream[c][i]
<1> DEFINE s == stream[c]
           t == Append(s, e)
<1>1. s \in Seq(Entry) /\ Len(s) \in Nat /\ DOMAIN s = 1 .. Len(s)
  BY LenProperties DEF StartTyped
<1>2. /\ t \in Seq(Entry) /\ Len(t) = Len(s) + 1 /\ t[Len(s) + 1] = e
      /\ \A i \in 1 .. Len(s) : t[i] = s[i]
  BY <1>1, AppendProperties
<1>3. DOMAIN t = 1 .. Len(s) + 1
  BY <1>1, <1>2
<1>4. stream'[c] = t
  OBVIOUS
<1> HIDE DEF s, t
<1>5. Logs(c) = {i \in 1 .. Len(s) : s[i].node = "log"} /\ Logs(c)' = {i \in 1 .. Len(s) + 1 : t[i].node = "log"}
  BY <1>1, <1>3, <1>4 DEF Logs, s
<1>6. \A i : i \in 1 .. Len(s) + 1 <=> i \in 1 .. Len(s) \/ i = Len(s) + 1
  BY <1>1
<1>7. Len(s) + 1 \notin 1 .. Len(s)
  BY <1>1
<1>8. \A i : i \in Logs(c)' <=> i \in Logs(c) \/ (i = Len(s) + 1 /\ e.node = "log")
  BY <1>2, <1>5, <1>6
<1>9. QED
  BY <1>2, <1>4, <1>5, <1>7, <1>8 DEF s

\* A message comes to a stream from the root of its communicator.
LEMMA NewMessages ==
  ASSUME StartTyped, calls # << >>, Books, [SNext]_svars, NEW c \in AllComms
  PROVE  LogKept(c) \/ \E p : Adds(p, c)
<1>1. ASSUME stream' = stream
      PROVE  LogKept(c)
  BY <1>1 DEF LogKept, Logs
<1>2. ASSUME NEW d, NEW e \in Entry, e.node # "log", stream' = [stream EXCEPT ![d] = Append(@, e)]
      PROVE  LogKept(c)
  <2>1. stream'[c] = IF c = d THEN Append(stream[c], e) ELSE stream[c]
    BY <1>2, AppendTyped DEF StartTyped
  <2>2. CASE c = d
    <3>1. stream'[c] = Append(stream[c], e)
      BY <2>1, <2>2
    <3>2. /\ Logs(c)' = Logs(c) \cup IF e.node = "log" THEN {Len(stream[c]) + 1} ELSE {}
          /\ \A i \in Logs(c) : stream'[c][i] = stream[c][i]
      BY <1>2, <3>1, LongerStream
    <3>3. QED
      BY <1>2, <3>2 DEF LogKept
  <2>3. CASE c # d
    BY <2>1, <2>3 DEF LogKept, Logs
  <2>4. QED
    BY <2>2, <2>3
<1>3. ASSUME NEW r \in Ranks, RankStep(r), Alone(r)
      PROVE  LogKept(c) \/ \E p : Adds(p, c)
  <2>1. CASE DoWrite(r)
    <3>1. todo[r][1].op = "write" /\ todo[r][1] \in AnyStep /\ Head1(r) = todo[r][1]
      BY <2>1, DoingStep DEF DoWrite, StartTyped
    <3> DEFINE e == [jid |-> id[r], node |-> Head1(r).node, call |-> taken[r]]
    <3>2. Head1(r).node \in WrittenNodes
      BY <3>1, StepCases
    <3>3. e \in Entry /\ e.node # "log"
      BY <3>2 DEF Entry, StartTyped, WrittenNodes
    <3>4. stream' = stream \/ stream' = [stream EXCEPT ![comm[r]] = Append(@, e)]
      BY <2>1 DEF DoWrite
    <3> HIDE DEF e
    <3>5. QED
      BY <1>1, <1>2, <3>3, <3>4
  <2>2. CASE DoWriteLog(r)
    <3>1. todo[r] \in Seq(AnyStep) /\ todo[r] # << >> /\ todo[r][1].op = "writeLog" /\ Len(todo[r]) \in Nat
      BY <2>2, DoingStep, LenProperties DEF DoWriteLog, StartTyped
    <3>2. 1 \in 1 .. Len(todo[r])
      BY <3>1, EmptySeq
    <3>3. OnlyOn(todo[r], comm[r], calls[taken[r]].comm, {"name", "writeLog"}) /\ mode = "engine"
      BY <3>1, <3>2 DEF Books, Handling
    <3>4. comm[r] = calls[taken[r]].comm
      BY <3>1, <3>2, <3>3 DEF OnlyOn
    <3>5. CASE r = Root(comm[r]) /\ c = comm[r]
      <4>1. stream' = [stream EXCEPT ![comm[r]] = Append(@, [jid |-> id[r], node |-> "log", call |-> taken[r]])]
        BY <2>2, <3>5 DEF DoWriteLog
      <4>2. stream'[c] = Append(stream[c], [jid |-> id[r], node |-> "log", call |-> taken[r]])
        BY <3>5, <4>1 DEF StartTyped
      <4>3. Adds(r, c)
        BY <1>3, <3>1, <3>3, <3>4, <3>5, <4>2 DEF Adds, Alone
      <4>4. QED
        BY <4>3
    <3>6. CASE ~(r = Root(comm[r]) /\ c = comm[r])
      <4>1. stream'[c] = stream[c]
        BY <2>2, <3>6 DEF DoWriteLog, StartTyped
      <4>2. QED
        BY <4>1 DEF LogKept, Logs
    <3>7. QED
      BY <3>5, <3>6
  <2>3. CASE ~DoWrite(r) /\ ~DoWriteLog(r)
    <3>1. stream' = stream
      BY <1>3, <2>3 DEF RankStep, EngineStep, LoggerStep, DoSetComm, DoName, DoSay, DoFlush, DoPop, DoDeliver, DoLine,
                        DoSet, DoLook, DoMakeDir, DoAsk, DoPoll, DoTimeout, engine
    <3>2. QED
      BY <1>1, <3>1
  <2>4. QED
    BY <2>1, <2>2, <2>3
<1>4. CASE \E r \in Ranks : RefuseLog(r)
  BY <1>1, <1>4 DEF RefuseLog
<1>5. ASSUME NEW d \in AllComms, Collective(d)
      PROVE  LogKept(c)
  <2> DEFINE e == [jid |-> -1, node |-> "comminfo", call |-> taken[Root(d)]]
  <2>1. e \in Entry /\ e.node # "log"
    BY RootFacts DEF Entry, StartTyped
  <2>2. stream' = stream \/ stream' = [stream EXCEPT ![d] = Append(@, e)]
    BY <1>5 DEF Collective, DoGather, DoSync
  <2> HIDE DEF e
  <2>3. QED
    BY <1>1, <1>2, <2>1, <2>2
<1>6. CASE CastDir \/ Meet \/ CastAnswer \/ ReaderAnswers
  BY <1>1, <1>6 DEF CastDir, Meet, CastAnswer, ReaderAnswers, vars, engine
<1>7. CASE UNCHANGED svars
  BY <1>1, <1>7 DEF svars, vars, engine
<1>8. QED
  BY <1>3, <1>4, <1>5, <1>6, <1>7, StepEffects DEF Steps

\* A message has a communicator.
LEMMA CommOfMessage ==
  ASSUME StartTyped, NEW n \in 1 .. Len(calls)
  PROVE  calls[n].comm \in AllComms
<1> DEFINE Message == [comm : AllComms, black : BOOLEAN]
<1>1. calls \in Seq(Message)
  BY DEF StartTyped
<1> HIDE DEF Message
<1>2. calls[n] \in Message
  BY <1>1, ElementOfSeq
<1>3. QED
  BY <1>2 DEF Message

\* What is written on a rank grows by the message it has taken, when it writes it.
LEMMA DoneSteps ==
  ASSUME StartTyped, calls # << >>, Books, [SNext]_svars, NEW q \in Ranks
  PROVE  /\ \A n : Done(q, n)' <=> Done(q, n) \/ (n = taken[q] /\ Finishes(q))
         /\ Finishes(q) => taken[q] \in told[q] /\ taken[q] \in 1 .. Len(calls) /\ ~calls[taken[q]].black
<1> DEFINE x == taken[q]
           s == todo[q]
<1>1. /\ calls' = calls /\ mode' = mode
      /\ Same(q) \/ (\E first : Does(q, first)) \/ RefuseLog(q)
  BY StepEffects
<1>2. Telling(q) /\ Handling(q)
  BY DEF Books
<1>3. ASSUME Finishes(q)
      PROVE  /\ s \in Seq(AnyStep) /\ s # << >> /\ 1 \in 1 .. Len(s)
             /\ x \in told[q] /\ x \in 1 .. Len(calls) /\ ~calls[x].black /\ calls[x].comm \in AllComms
             /\ mode = "engine" => comm[q] = calls[x].comm
  <2>1. s \in Seq(AnyStep) /\ s # << >> /\ Len(s) \in Nat /\ s[1].op \in {"writeLog", "line"}
    BY <1>3, LenProperties DEF Finishes, Does, StartTyped
  <2>2. 1 \in 1 .. Len(s)
    BY <2>1, EmptySeq
  <2>3. x \in told[q] /\ ~calls[x].black
    BY <1>2, <2>1, <2>2 DEF Handling
  <2>4. x \in 1 .. Len(calls)
    BY <1>2, <2>3 DEF Telling
  <2>5. calls[x].comm \in AllComms
    BY <2>4, CommOfMessage
  <2>6. mode = "engine" => OnlyOn(s, comm[q], calls[x].comm, {"name", "writeLog"}) /\ s[1].op = "writeLog"
    BY <1>2, <1>3 DEF Handling, Finishes
  <2>7. mode = "engine" => comm[q] = calls[x].comm
    BY <2>2, <2>6 DEF OnlyOn
  <2>8. QED
    BY <2>1, <2>2, <2>3, <2>4, <2>5, <2>7
<1>4. CASE mode # "engine"
  <2>1. printed[q] \in Seq(Nat) /\ Len(printed[q]) \in Nat /\ x \in Nat
    BY LenProperties DEF StartTyped
  <2>2. ~Finishes(q) => printed'[q] = printed[q]
    <3>1. CASE Same(q)
      BY <3>1 DEF Same
    <3>2. CASE \E first : Does(q, first)
      BY <1>4, <3>2 DEF Does, Finishes
    <3>3. CASE RefuseLog(q)
      BY <3>3 DEF RefuseLog
    <3>4. QED
      BY <1>1, <3>1, <3>2, <3>3
  <2>3. Finishes(q) => printed'[q] = Append(printed[q], x)
    BY <1>4 DEF Does, Finishes
  <2>4. CASE ~Finishes(q)
    BY <1>1, <1>4, <2>2, <2>4 DEF Done
  <2>5. CASE Finishes(q)
    <3>3. \A n : Among(printed'[q], n) <=> Among(printed[q], n) \/ n = x
      <4>1. \A n : Among(Append(printed[q], x), n) <=> Among(printed[q], n) \/ n = x
        BY <2>1, AppendAmong
      <4>2. printed'[q] = Append(printed[q], x)
        BY <2>3, <2>5
      <4>3. QED
        BY <4>1, <4>2
    <3>4. x \in 1 .. Len(calls)
      BY <1>3, <2>5
    <3>5. QED
      BY <1>1, <1>3, <1>4, <2>5, <3>3, <3>4 DEF Done
  <2>6. QED
    BY <2>4, <2>5
<1>5. CASE mode = "engine"
  <2>1. ASSUME NEW c \in AllComms, q = Root(c), NEW n
        PROVE  Written(c, n)' <=> Written(c, n) \/ (n = x /\ Finishes(q) /\ c = calls[x].comm)
    <3>1. CASE Finishes(q) /\ c = calls[x].comm
      <4>1. comm[q] = c /\ s[1].op = "writeLog" /\ \E first : Does(q, first)
        BY <1>3, <1>5, <3>1 DEF Finishes
      <4>2. stream' = [stream EXCEPT ![c] = Append(@, [jid |-> id[q], node |-> "log", call |-> x])]
        BY <2>1, <4>1 DEF Does
      <4> DEFINE e == [jid |-> id[q], node |-> "log", call |-> x]
      <4>3. e \in Entry /\ e.node = "log" /\ e.call = x
        BY DEF Entry, StartTyped
      <4>4. stream'[c] = Append(stream[c], e)
        BY <2>1, <4>2 DEF StartTyped
      <4> HIDE DEF e
      <4>5. /\ Logs(c)' = Logs(c) \cup {Len(stream[c]) + 1}
            /\ stream'[c][Len(stream[c]) + 1] = e
            /\ \A i \in Logs(c) : stream'[c][i] = stream[c][i]
        BY <4>3, <4>4, LongerStream
      <4>6. QED
        BY <3>1, <4>3, <4>5 DEF Written
    <3>2. CASE ~(Finishes(q) /\ c = calls[x].comm)
      <4>1. ASSUME NEW p, Adds(p, c)
            PROVE  FALSE
        <5>1. p = q
          BY <2>1, <4>1 DEF Adds
        <5>2. QED
          BY <1>5, <2>1, <3>2, <4>1, <5>1 DEF Adds, Finishes
      <4>2. LogKept(c)
        BY <4>1, NewMessages
      <4>3. QED
        BY <3>2, <4>2 DEF LogKept, Written
    <3>3. QED
      BY <3>1, <3>2
  <2>2. ASSUME NEW n \in 1 .. Len(calls), q = Root(calls[n].comm)
        PROVE  Written(calls[n].comm, n)' <=> Written(calls[n].comm, n) \/ (n = x /\ Finishes(q))
    <3>1. calls[n].comm \in AllComms
      BY <2>2, CommOfMessage
    <3>2. (calls[n].comm)' = calls[n].comm
      BY <1>1
    <3> DEFINE c == calls[n].comm
    <3>3. Written(c, n)' <=> Written(c, n) \/ (n = x /\ Finishes(q) /\ c = calls[x].comm)
      BY <2>1, <2>2, <3>1, <3>2
    <3>4. QED
      BY <3>3
  <2>3. Finishes(q) => x \in 1 .. Len(calls) /\ q = Root(calls[x].comm)
    BY <1>3 DEF Finishes
  <2>4. \A n : Done(q, n)' <=> n \in 1 .. Len(calls) /\ q = Root(calls[n].comm) /\ Written(calls[n].comm, n)'
    BY <1>1, <1>5 DEF Done
  <2>5. \A n : Done(q, n) <=> n \in 1 .. Len(calls) /\ q = Root(calls[n].comm) /\ Written(calls[n].comm, n)
    BY <1>5 DEF Done
  <2>6. QED
    BY <1>3, <2>2, <2>3, <2>4, <2>5
<1>6. QED
  BY <1>3, <1>4, <1>5
===============================================================================
